---------------------------- MODULE BackendProofs ----------------------------
(***************************************************************************)
(* Proofs about a call of the Codex backend.  Of BackendStream: type        *)
(* correctness, and that the outcome that is recorded agrees with what the *)
(* upstream said and the client was told.  Of CredentialRefresh, which     *)
(* gives every call its access token and shares no state with the stream:  *)
(* type correctness, that concurrent refreshes never cost the login, and   *)
(* that the call after a 401 carries a younger token.                      *)
(***************************************************************************)
EXTENDS BackendStream, CredentialRefresh, TLAPS

-------------------------------------------------------------------------------
(* Types. *)

LEMMA ReturnType ==
  ASSUME TypeOK, NEW outcome \in Outcomes, Return(outcome)
  PROVE /\ relay' \in Running \cup Outcomes
        /\ ctx' \in {"live", "canceled", "expired"}
        /\ body' \in {"none", "open", "closed"}
  BY DEF TypeOK, Return

LEMMA ReceivesType ==
  ASSUME TypeOK, NEW frames, Receives(frames)
  PROVE wire' \in SUBSET (Terminal \cup {Synthetic})
  BY DEF TypeOK, Receives

LEMMA FailureType ==
  ASSUME TypeOK, NEW outcome \in Outcomes, ReturnFailure(outcome)
  PROVE /\ relay' \in Running \cup Outcomes
        /\ ctx' \in {"live", "canceled", "expired"}
        /\ body' \in {"none", "open", "closed"}
        /\ wire' \in SUBSET (Terminal \cup {Synthetic})
  BY ReturnType, ReceivesType DEF ReturnFailure

LEMMA GoneType ==
  ASSUME TypeOK, ReturnClientGone
  PROVE /\ relay' \in Running \cup Outcomes
        /\ ctx' \in {"live", "canceled", "expired"}
        /\ body' \in {"none", "open", "closed"}
        /\ wire' \in SUBSET (Terminal \cup {Synthetic})
  BY ReturnType DEF ReturnClientGone, Outcomes, TypeOK

LEMMA BlameType == \A cause : Blame(cause) \in Outcomes
  BY DEF Blame, Outcomes

LEMMA OutcomeFacts ==
  "failed" \in Outcomes /\ "succeeded" \in Outcomes /\ "canceled" \in Outcomes
  BY DEF Outcomes

LEMMA InitTypeOK == Init => TypeOK
  BY StreamAssumption DEF Init, TypeOK, Running, Outcomes, Events, Terminal

LEMMA NextTypeOK == TypeOK /\ [Next]_vars => TypeOK'
  <1> SUFFICES ASSUME TypeOK, [Next]_vars PROVE TypeOK'
    OBVIOUS
  <1> USE StreamAssumption, OutcomeFacts DEF goroutines
  <1>1. CASE Opening
    <2>1. CASE Begin
      <3>1. CASE ReturnClientGone /\ UNCHANGED opener
        BY <2>1, <3>1, GoneType DEF Begin, TypeOK
      <3>2. CASE relay' = "opening" /\ opener' = "calling" /\ UNCHANGED <<ctx, body, wire>>
        BY <2>1, <3>2 DEF Begin, TypeOK, Running
      <3>3. QED BY <2>1, <3>1, <3>2 DEF Begin
    <2>2. CASE TakeOffer
      <3>1. CASE offer = "body" /\ ctx # "expired"
        BY <2>2, <3>1 DEF TakeOffer, TypeOK, Running
      <3>2. CASE ~(offer = "body" /\ ctx # "expired")
        <4> DEFINE outcome == IF ctx = "expired" THEN "failed" ELSE Blame(offer)
        <4>1. outcome \in Outcomes
          BY BlameType
        <4>2. ReturnFailure(outcome) /\ UNCHANGED scanner
          BY <2>2, <3>2 DEF TakeOffer
        <4> HIDE DEF outcome
        <4>3. QED BY <2>2, <4>1, <4>2, FailureType DEF TakeOffer, TypeOK
      <3>3. QED BY <3>1, <3>2
    <2>3. CASE OpeningContextDone
      BY <2>3, BlameType, FailureType DEF OpeningContextDone, TypeOK
    <2>4. CASE TranslationFails
      BY <2>4, FailureType DEF TranslationFails, TypeOK
    <2>5. QED BY <1>1, <2>1, <2>2, <2>3, <2>4 DEF Opening
  <1>2. CASE Relaying
    <2>1. CASE RelayEvent
      <3>1. dataCh' \in Seq(Events) /\ Len(dataCh') <= Capacity /\ Head(dataCh) \in Events
        BY <2>1 DEF RelayEvent, TypeOK
      <3>2. CASE ReturnClientGone /\ UNCHANGED seen
        BY <2>1, <3>1, <3>2, GoneType DEF RelayEvent, TypeOK
      <3>3. CASE Receives({Head(dataCh)}) /\ UNCHANGED <<relay, ctx, body>>
        <4>1. CASE seen' = seen \cup ({Head(dataCh)} \cap Terminal)
          BY <2>1, <3>1, <3>3, <4>1, ReceivesType DEF RelayEvent, TypeOK
        <4>2. CASE UNCHANGED seen
          BY <2>1, <3>1, <3>3, <4>2, ReceivesType DEF RelayEvent, TypeOK
        <4>3. QED BY <2>1, <3>2, <4>1, <4>2 DEF RelayEvent
      <3>4. QED BY <2>1, <3>2, <3>3 DEF RelayEvent
    <2>2. CASE EndBroken
      <3>1. CASE Return("succeeded") /\ UNCHANGED wire
        BY <2>2, <3>1, ReturnType DEF EndBroken, TypeOK
      <3>2. CASE ReturnFailure(Blame(scanErr))
        BY <2>2, <3>2, BlameType, FailureType DEF EndBroken, TypeOK
      <3>3. QED BY <2>2, <3>1, <3>2 DEF EndBroken
    <2>3. CASE EndOfStream
      <3>1. ASSUME NEW outcome \in Outcomes, Return(outcome),
                   Receives({"done"}) \/ UNCHANGED wire
            PROVE TypeOK'
        BY <2>3, <3>1, ReturnType, ReceivesType DEF EndOfStream, TypeOK
      <3>2. CASE ReturnClientGone
        BY <2>3, <3>2, GoneType DEF EndOfStream, TypeOK
      <3>3. CASE ReturnFailure("failed")
        BY <2>3, <3>3, FailureType DEF EndOfStream, TypeOK
      <3>4. QED BY <2>3, <3>1, <3>2, <3>3 DEF EndOfStream
    <2>4. CASE RelayContextDone
      <3>1. CASE Return("succeeded") /\ UNCHANGED wire
        BY <2>4, <3>1, ReturnType DEF RelayContextDone, TypeOK
      <3>2. CASE ReturnFailure(Blame(ctx))
        BY <2>4, <3>2, BlameType, FailureType DEF RelayContextDone, TypeOK
      <3>3. QED BY <2>4, <3>1, <3>2 DEF RelayContextDone
    <2>5. QED BY <1>2, <2>1, <2>2, <2>3, <2>4 DEF Relaying
  <1>3. CASE HeartbeatFails
    BY <1>3, GoneType DEF HeartbeatFails, TypeOK
  <1>4. CASE Opener
    BY <1>4 DEF Opener, OpenReturns, OpenerLeaves, TypeOK
  <1>5. CASE Scanner
    <2>1. ASSUME NEW e \in Events, ScanEvent(e) PROVE TypeOK'
      BY <2>1 DEF ScanEvent, TypeOK
    <2>2. CASE ScanSend
      BY <2>2 DEF ScanSend, TypeOK, Events
    <2>3. CASE UpstreamEnds \/ ReadAborts
      BY <2>3 DEF UpstreamEnds, ReadAborts, ScanEnds, TypeOK
    <2>4. QED BY <1>5, <2>1, <2>2, <2>3 DEF Scanner
  <1>6. CASE ClientLeaves \/ ContextCanceled \/ Deadline
    BY <1>6 DEF ClientLeaves, ContextCanceled, Deadline, TypeOK
  <1>7. CASE UNCHANGED vars BY <1>7 DEF vars, TypeOK
  <1>8. QED BY <1>1, <1>2, <1>3, <1>4, <1>5, <1>6, <1>7 DEF Next

(* In every behaviour of a streamed call every variable has its type. *)
THEOREM TypeCorrect == Spec => []TypeOK
  BY InitTypeOK, NextTypeOK, PTL DEF Spec

-------------------------------------------------------------------------------
(* The recorded outcome. *)

(* The relay writes an event before it looks at it, but in one step of its
   loop: what is on the wire has been seen, and a failure frame of the
   gateway's own is its last word. *)
OutcomeInv ==
  /\ "failed" \in wire => Failed
  /\ Synthetic \in wire => relay \in {"failed", "canceled"}
  /\ relay \in {"starting", "opening"} => seen = {}
  /\ OutcomeIsHonest

(* A step by which the handler returns, or relays, keeps them. *)
LEMMA OutcomeStep == TypeOK /\ OutcomeInv /\ [Next]_vars => OutcomeInv'
  <1> SUFFICES ASSUME TypeOK, OutcomeInv, [Next]_vars PROVE OutcomeInv'
    OBVIOUS
  <1> USE DEF OutcomeInv, OutcomeIsHonest, Failed, Completed,
              DoneSeen, Synthetic, Terminal, Events, goroutines
  <1>c. ASSUME relay \in Running, ReturnClientGone, UNCHANGED seen PROVE OutcomeInv'
    BY <1>c DEF ReturnClientGone, Return, Running
  <1>f. ASSUME NEW outcome, outcome \in {"failed", "canceled"}, relay \in Running,
               ReturnFailure(outcome), UNCHANGED seen, Failed \/ ~Completed
        PROVE OutcomeInv'
    BY <1>f DEF ReturnFailure, Return, Receives, Running
  <1>s. ASSUME relay = "relaying", Return("succeeded"), UNCHANGED seen,
               Receives({"done"}) \/ UNCHANGED wire, ~Failed, Completed \/ DoneSeen
        PROVE OutcomeInv'
    BY <1>s DEF Return, Receives
  <1>b. \A cause : Blame(cause) \in {"failed", "canceled"}
    BY DEF Blame
  <1>1. CASE Opening
    <2>1. CASE Begin
      <3>1. CASE ReturnClientGone
        BY <1>c, <2>1, <3>1 DEF Begin, Running
      <3>2. CASE ~ReturnClientGone
        BY <2>1, <3>2 DEF Begin
      <3>3. QED BY <3>1, <3>2
    <2>2. CASE TakeOffer
      <3>1. CASE offer = "body" /\ ctx # "expired"
        BY <2>2, <3>1 DEF TakeOffer
      <3>2. CASE ~(offer = "body" /\ ctx # "expired")
        <4> DEFINE outcome == IF ctx = "expired" THEN "failed" ELSE Blame(offer)
        <4>1. outcome \in {"failed", "canceled"}
          BY <1>b
        <4>2. ReturnFailure(outcome) /\ seen' = seen /\ relay \in Running /\ ~Completed
          BY <2>2, <3>2 DEF TakeOffer, Running
        <4> HIDE DEF outcome
        <4>3. QED BY <1>f, <4>1, <4>2
      <3>3. QED BY <3>1, <3>2
    <2>3. CASE OpeningContextDone
      BY <1>b, <1>f, <2>3 DEF OpeningContextDone, Running
    <2>4. CASE TranslationFails
      BY <1>f, <2>4 DEF TranslationFails, Running
    <2>5. QED BY <1>1, <2>1, <2>2, <2>3, <2>4 DEF Opening
  <1>2. CASE Relaying
    <2>1. CASE RelayEvent
      <3>1. CASE ReturnClientGone /\ UNCHANGED seen
        BY <1>c, <2>1, <3>1 DEF RelayEvent, Running
      <3>2. CASE ~(ReturnClientGone /\ UNCHANGED seen)
        <4>1. Head(dataCh) \in Events /\ relay = "relaying" /\ relay' = "relaying"
          BY <2>1, <3>2 DEF RelayEvent, TypeOK
        <4>2. \A f : f \in wire' => f \in wire \/ (f = Head(dataCh) /\ f \in Terminal)
          <5>1. Receives({Head(dataCh)})
            BY <2>1, <3>2 DEF RelayEvent
          <5>2. \/ wire' = wire
                \/ wire' = wire \cup ({Head(dataCh)} \cap (Terminal \cup {Synthetic}))
            BY <5>1 DEF Receives
          <5>3. QED BY <4>1, <5>2
        <4>3. seen' = seen \cup ({Head(dataCh)} \cap Terminal)
          BY <2>1, <3>2 DEF RelayEvent
        <4>4. QED BY <4>1, <4>2, <4>3
      <3>3. QED BY <3>1, <3>2
    <2>2. CASE EndBroken
      <3>1. CASE (Completed \/ DoneSeen) /\ ~Failed
        BY <1>s, <2>2, <3>1 DEF EndBroken, Drained
      <3>2. CASE ~((Completed \/ DoneSeen) /\ ~Failed)
        BY <1>b, <1>f, <2>2, <3>2 DEF EndBroken, Drained, Running
      <3>3. QED BY <3>1, <3>2
    <2>3. CASE EndOfStream
      <3>1. relay = "relaying" /\ seen' = seen
        BY <2>3 DEF EndOfStream, Drained
      <3>2. CASE ReturnClientGone
        BY <1>c, <3>1, <3>2 DEF Running
      <3>3. CASE seen = {} /\ ReturnFailure("failed")
        BY <1>f, <3>1, <3>3 DEF Running
      <3>4. CASE Failed /\ Return("failed") /\ (Receives({"done"}) \/ UNCHANGED wire)
        BY <3>1, <3>4 DEF Return, Receives
      <3>5. CASE /\ ~Failed /\ (Completed \/ DoneSeen) /\ Return("succeeded")
                 /\ (Receives({"done"}) \/ UNCHANGED wire)
        BY <1>s, <3>1, <3>5
      <3>6. QED BY <2>3, <3>2, <3>3, <3>4, <3>5 DEF EndOfStream
    <2>4. CASE RelayContextDone
      <3>1. CASE Completed /\ ~Failed
        BY <1>s, <2>4, <3>1 DEF RelayContextDone
      <3>2. CASE ~(Completed /\ ~Failed)
        BY <1>b, <1>f, <2>4, <3>2 DEF RelayContextDone, Running
      <3>3. QED BY <3>1, <3>2
    <2>5. QED BY <1>2, <2>1, <2>2, <2>3, <2>4 DEF Relaying
  <1>3. CASE HeartbeatFails
    BY <1>3, <1>c DEF HeartbeatFails, Running
  <1>4. ASSUME UNCHANGED <<relay, seen, wire>> PROVE OutcomeInv'
    BY <1>4
  <1>5. CASE Opener
    BY <1>4, <1>5 DEF Opener, OpenReturns, OpenerLeaves
  <1>6. CASE Scanner
    BY <1>4, <1>6 DEF Scanner, ScanEvent, ScanSend, UpstreamEnds, ReadAborts, ScanEnds
  <1>7. CASE ClientLeaves \/ ContextCanceled \/ Deadline
    BY <1>4, <1>7 DEF ClientLeaves, ContextCanceled, Deadline
  <1>8. CASE UNCHANGED vars BY <1>4, <1>8 DEF vars
  <1>9. QED BY <1>1, <1>2, <1>3, <1>5, <1>6, <1>7, <1>8 DEF Next

LEMMA OutcomeHolds == Spec => []OutcomeInv
  <1>1. Init => OutcomeInv
    BY DEF Init, OutcomeInv, OutcomeIsHonest, Synthetic, Failed
  <1>2. QED BY <1>1, OutcomeStep, TypeCorrect, PTL DEF Spec

-------------------------------------------------------------------------------
(* The client gets an end. *)

(* What has been seen was written first, and a client that stays got it. *)
EndInv ==
  /\ client = "there" => seen \subseteq wire
  /\ relay \in {"starting", "opening"} => seen = {}
  /\ ClientGetsAnEnd

LEMMA EndStep == TypeOK /\ EndInv /\ [Next]_vars => EndInv'
  <1> SUFFICES ASSUME TypeOK, EndInv, [Next]_vars PROVE EndInv'
    OBVIOUS
  <1> USE DEF EndInv, ClientGetsAnEnd, Over, Outcomes, Running, goroutines
  <1>c. ASSUME relay \in Running, ReturnClientGone, UNCHANGED <<seen, client>>
        PROVE EndInv'
    BY <1>c DEF ReturnClientGone, Return, WriteFails
  <1>f. ASSUME NEW outcome, outcome \in Outcomes, relay \in Running,
               ReturnFailure(outcome), UNCHANGED <<seen, client>>
        PROVE EndInv'
    <2>1. client = "there" => wire \subseteq wire' /\ wire' # {}
      <3>1. CASE DoneSeen
        BY <1>f, <3>1 DEF ReturnFailure, Receives, DoneSeen
      <3>2. CASE ~DoneSeen
        BY <1>f, <3>2 DEF ReturnFailure, Receives
      <3>3. QED BY <3>1, <3>2
    <2>2. relay' = outcome
      BY <1>f DEF ReturnFailure, Return
    <2>3. QED BY <1>f, <2>1, <2>2
  <1>s. ASSUME NEW outcome, outcome \in Outcomes, relay = "relaying", Return(outcome),
               UNCHANGED <<seen, client>>, Receives({"done"}) \/ UNCHANGED wire,
               seen # {}
        PROVE EndInv'
    <2>1. client = "there" => wire \subseteq wire'
      BY <1>s DEF Receives
    <2>2. relay' = outcome
      BY <1>s DEF Return
    <2>3. QED BY <1>s, <2>1, <2>2
  <1>o. \A cause : Blame(cause) \in Outcomes
    BY DEF Blame
  <1>u. ASSUME UNCHANGED <<relay, seen, wire>>, client' = client \/ client' = "gone"
        PROVE EndInv'
    BY <1>u
  <1>1. CASE TranslationFails
    BY <1>f, <1>1 DEF TranslationFails
  <1>2. CASE Begin
    <2>1. CASE ReturnClientGone
      BY <1>c, <1>2, <2>1 DEF Begin
    <2>2. CASE ~ReturnClientGone
      BY <1>2, <2>2 DEF Begin
    <2>3. QED BY <2>1, <2>2
  <1>3. CASE TakeOffer
    <2>1. CASE offer = "body" /\ ctx # "expired"
      BY <1>3, <2>1 DEF TakeOffer
    <2>2. CASE ~(offer = "body" /\ ctx # "expired")
      <3> DEFINE outcome == IF ctx = "expired" THEN "failed" ELSE Blame(offer)
      <3>1. outcome \in Outcomes
        BY <1>o
      <3>2. ReturnFailure(outcome) /\ UNCHANGED <<seen, client>> /\ relay \in Running
        BY <1>3, <2>2 DEF TakeOffer
      <3> HIDE DEF outcome
      <3>3. QED BY <1>f, <3>1, <3>2
    <2>3. QED BY <2>1, <2>2
  <1>4. CASE OpeningContextDone
    BY <1>f, <1>o, <1>4 DEF OpeningContextDone
  <1>5. CASE RelayEvent
    <2>1. CASE ReturnClientGone /\ UNCHANGED seen
      BY <1>c, <1>5, <2>1 DEF RelayEvent
    <2>2. CASE ~(ReturnClientGone /\ UNCHANGED seen)
      <3>1. /\ relay = "relaying" /\ relay' = "relaying" /\ client' = client
            /\ Receives({Head(dataCh)})
            /\ seen' = seen \cup ({Head(dataCh)} \cap Terminal)
        BY <1>5, <2>2 DEF RelayEvent
      <3>2. client = "there" =>
              wire' = wire \cup ({Head(dataCh)} \cap (Terminal \cup {Synthetic}))
        BY <3>1 DEF Receives
      <3>3. QED BY <3>1, <3>2
    <2>3. QED BY <2>1, <2>2
  <1>6. CASE EndBroken
    <2>1. CASE (Completed \/ DoneSeen) /\ ~Failed
      BY <1>s, <1>6, <2>1 DEF EndBroken, Drained, Completed, DoneSeen
    <2>2. CASE ~((Completed \/ DoneSeen) /\ ~Failed)
      BY <1>f, <1>o, <1>6, <2>2 DEF EndBroken, Drained
    <2>3. QED BY <2>1, <2>2
  <1>7. CASE EndOfStream
    <2>1. relay = "relaying" /\ UNCHANGED <<seen, client>>
      BY <1>7 DEF EndOfStream, Drained
    <2>2. CASE ReturnClientGone
      BY <1>c, <2>1, <2>2
    <2>3. CASE ReturnFailure("failed")
      BY <1>f, <2>1, <2>3
    <2>4. CASE /\ seen # {} /\ Return(IF Failed THEN "failed" ELSE "succeeded")
               /\ (Receives({"done"}) \/ UNCHANGED wire)
      BY <1>s, <2>1, <2>4
    <2>5. QED BY <1>7, <2>2, <2>3, <2>4 DEF EndOfStream, Failed, Completed, DoneSeen
  <1>8. CASE RelayContextDone
    <2>1. CASE Completed /\ ~Failed
      BY <1>s, <1>8, <2>1 DEF RelayContextDone, Completed
    <2>2. CASE ~(Completed /\ ~Failed)
      BY <1>f, <1>o, <1>8, <2>2 DEF RelayContextDone
    <2>3. QED BY <2>1, <2>2
  <1>9. CASE HeartbeatFails
    BY <1>c, <1>9 DEF HeartbeatFails
  <1>10. CASE Opener
    BY <1>u, <1>10 DEF Opener, OpenReturns, OpenerLeaves
  <1>11. CASE Scanner
    BY <1>u, <1>11 DEF Scanner, ScanEvent, ScanSend, UpstreamEnds, ReadAborts, ScanEnds
  <1>12. CASE ClientLeaves \/ ContextCanceled \/ Deadline
    BY <1>u, <1>12 DEF ClientLeaves, ContextCanceled, Deadline
  <1>13. CASE UNCHANGED vars BY <1>u, <1>13 DEF vars
  <1>14. QED
    BY <1>1, <1>2, <1>3, <1>4, <1>5, <1>6, <1>7, <1>8, <1>9, <1>10, <1>11, <1>12, <1>13
    DEF Next, Opening, Relaying

(* For every buffer and every number of events: a client that stays connected
   is told how the stream ended before the handler returns. *)
THEOREM ClientIsTold == Spec => []ClientGetsAnEnd
  <1>1. Init => EndInv
    BY DEF Init, EndInv, ClientGetsAnEnd, Over, Outcomes
  <1>2. EndInv => ClientGetsAnEnd
    BY DEF EndInv
  <1>3. QED BY <1>1, <1>2, EndStep, TypeCorrect, PTL DEF Spec

(* For every buffer and every number of events: what is recorded as a success or
   as a failure is one, by the upstream's events and the client's wire. *)
THEOREM OutcomesAreHonest == Spec => []OutcomeIsHonest
  <1>1. OutcomeInv => OutcomeIsHonest
    BY DEF OutcomeInv, OutcomeIsHonest
  <1>2. QED BY <1>1, OutcomeHolds, PTL

-------------------------------------------------------------------------------
(* The credentials: CredentialRefresh, under its own assumption.             *)

USE DEF RefreshAssumption

(* Their types. *)

LEMMA TokenFacts ==
  /\ 0 \in Tokens /\ 1 \in Tokens /\ 0 \in 0 .. Retries
  /\ NoPair \in Pair
  /\ [access |-> 1, refresh |-> 1] \in Pair
  /\ 1 .. MaxToken \subseteq Tokens
  BY RefreshAssumption DEF Tokens, Pair, NoPair

LEMMA Successor ==
  /\ \A n \in Tokens : n < MaxToken => n + 1 \in Tokens
  /\ \A n \in 0 .. Retries : n < Retries => n + 1 \in 0 .. Retries
  BY RefreshAssumption DEF Tokens

LEMMA LoginInitTypeOK ==
  LoginInit => LoginTypeOK
  <1> SUFFICES ASSUME LoginInit PROVE LoginTypeOK
    OBVIOUS
  <1>1. file \in [pair : Pair, whole : BOOLEAN]
    BY TokenFacts DEF LoginInit
  <1>2. /\ pc \in [Requests -> Places] /\ force \in [Requests -> BOOLEAN]
        /\ attempt \in [Requests -> 0 .. Retries] /\ auth \in [Requests -> Pair]
        /\ token \in [Requests -> Tokens] /\ refused \in [Requests -> Tokens]
    BY TokenFacts DEF LoginInit, Places
  <1>3. /\ lock \in Requests \cup {Nobody} /\ issued \in Tokens /\ live \in Tokens
        /\ expiring \in SUBSET Tokens /\ revoked \in SUBSET Tokens
        /\ broken \in BOOLEAN
    BY TokenFacts DEF LoginInit
  <1>4. QED BY <1>1, <1>2, <1>3 DEF LoginTypeOK

(* What ends or repeats a call keeps the types of the handler's locals. *)
LEMMA FailType ==
  ASSUME LoginTypeOK, NEW r \in Requests, Fail(r)
  PROVE /\ pc' \in [Requests -> Places]
        /\ force' \in [Requests -> BOOLEAN]
        /\ attempt' \in [Requests -> 0 .. Retries]
        /\ auth' \in [Requests -> Pair]
        /\ token' \in [Requests -> Tokens]
        /\ refused' \in [Requests -> Tokens]
  <1> USE TokenFacts DEF LoginTypeOK, Places
  <1>1. CASE Done(r) BY <1>1 DEF Done
  <1>2. CASE Retry(r)
    <2>1. attempt[r] + 1 \in 0 .. Retries
      BY <1>2, Successor DEF Retry
    <2>2. QED BY <1>2, <2>1 DEF Retry
  <1>3. QED BY <1>1, <1>2 DEF Fail

LEMMA LoginNextTypeOK ==
  LoginTypeOK /\ [LoginNext]_loginVars => LoginTypeOK'
  <1> SUFFICES ASSUME LoginTypeOK, [LoginNext]_loginVars PROVE LoginTypeOK'
    OBVIOUS
  <1> USE DEF LoginTypeOK, Places, Goto, local, provider,
      upstream
  <1>1. ASSUME NEW r \in Requests, Start(r) PROVE LoginTypeOK'
    BY <1>1 DEF Start
  <1>2. ASSUME NEW r \in Requests, Load(r) PROVE LoginTypeOK'
    <2>1. CASE LoadFails(r) BY FailType, <2>1 DEF LoadFails, Fail
    <2>2. CASE LoadFresh(r) BY TokenFacts, <2>2 DEF LoadFresh, GiveToken,
        Unlock, Pair
    <2>3. CASE LoadToRefresh(r) BY <2>3 DEF LoadToRefresh
    <2>4. QED BY <1>2, <2>1, <2>2, <2>3 DEF Load
  <1>3. ASSUME NEW r \in Requests, Refresh(r) PROVE LoginTypeOK'
    <2>1. CASE AskFails(r) BY FailType, <2>1 DEF AskFails, Unlock
    <2>2. CASE AskRefused(r) BY FailType, <2>2 DEF AskRefused, Unlock,
        Fail
    <2>3. ASSUME NEW rotates \in BOOLEAN, Trade(r, rotates) PROVE LoginTypeOK'
      <3>1. issued + 1 \in Tokens /\ live' \in Tokens
        BY Successor, <2>3 DEF Trade
      <3>2. QED BY <2>3, <3>1 DEF Trade, Pair
    <2>4. CASE LoseAnswer(r) BY FailType, <2>4 DEF LoseAnswer, Unlock
    <2>5. CASE Receive(r) BY <2>5 DEF Receive
    <2>6. CASE Truncate(r) BY <2>6 DEF Truncate
    <2>7. CASE Save(r) BY TokenFacts, <2>7 DEF Save, GiveToken, Unlock,
        Pair
    <2>8. CASE SaveFails(r) BY FailType, <2>8 DEF SaveFails, Unlock,
        Fail
    <2>9. QED
      BY <1>3, <2>1, <2>2, <2>3, <2>4, <2>5, <2>6, <2>7, <2>8 DEF Refresh
  <1>4. ASSUME NEW r \in Requests, Call(r) PROVE LoginTypeOK'
    <2>1. CASE UpstreamAccepts(r) BY FailType, <2>1 DEF UpstreamAccepts, Fail
    <2>2. CASE Upstream401(r) BY <2>2 DEF Upstream401
    <2>3. CASE UpstreamFails(r) BY FailType, <2>3 DEF UpstreamFails
    <2>4. QED BY <1>4, <2>1, <2>2, <2>3 DEF Call
  <1>5. CASE Replace
    <2>1. issued + 1 \in Tokens
      BY Successor, <1>5 DEF Replace
    <2>2. broken' \in BOOLEAN
      BY <1>5 DEF Replace
    <2>3. QED BY <1>5, <2>1, <2>2 DEF Replace, Pair
  <1>6. CASE Crash BY TokenFacts, <1>6 DEF Crash
  <1>7. ASSUME NEW t \in 1 .. MaxToken, Expire(t) \/ Revoke(t) PROVE LoginTypeOK'
    BY TokenFacts, <1>7 DEF Expire, Revoke
  <1>8. CASE UNCHANGED loginVars BY <1>8 DEF loginVars
  <1>9. QED BY <1>1, <1>2, <1>3, <1>4, <1>5, <1>6, <1>7, <1>8
    DEF LoginNext, Environment, Handler

(* In every behaviour of the credentials every variable has its type. *)
THEOREM LoginTypeCorrect ==
  LoginSpec => []LoginTypeOK
  BY LoginInitTypeOK, LoginNextTypeOK, PTL DEF LoginSpec

-------------------------------------------------------------------------------
(* The login survives. *)

(* The mutex is held by exactly the handler inside. *)
LockInv ==
  /\ \A r \in Requests : pc[r] \in Inside => lock = r
  /\ \A r \in Requests : lock = r => pc[r] \in Inside

(* The handler inside holds the live refresh token, or is the only one that
   could tell: what is in the file, or on its way into it, is the live one. *)
LineInv ==
  ~broken =>
    /\ Free => file.whole /\ file.pair.refresh = live
    /\ \A r \in Requests :
         /\ pc[r] \in {"asking", "traded", "saving"} => file.whole
         /\ pc[r] = "asking" => file.pair.refresh = live
         /\ pc[r] \in Owing => auth[r].refresh = live

LEMMA LockStep ==
  LoginTypeOK /\ LockInv /\ [LoginNext]_loginVars => LockInv'
  <1> SUFFICES ASSUME LoginTypeOK, LockInv, [LoginNext]_loginVars PROVE LockInv'
    OBVIOUS
  <1> USE RefreshAssumption
      DEF LoginTypeOK, LockInv, Inside, Goto, local, provider,
          upstream, Unlock
  <1>1. ASSUME NEW r \in Requests, Start(r) PROVE LockInv'
    BY <1>1 DEF Start
  <1>2. ASSUME NEW r \in Requests, Load(r) PROVE LockInv'
    <2>1. CASE LoadFails(r) BY <2>1 DEF LoadFails, Done, Free
    <2>2. CASE LoadFresh(r) BY <2>2 DEF LoadFresh, GiveToken, Free
    <2>3. CASE LoadToRefresh(r) BY <2>3 DEF LoadToRefresh, Free
    <2>4. QED BY <1>2, <2>1, <2>2, <2>3 DEF Load
  <1>3. ASSUME NEW r \in Requests, Refresh(r) PROVE LockInv'
    <2>1. CASE AskFails(r) \/ AskRefused(r) \/ LoseAnswer(r) \/ SaveFails(r)
      BY <2>1 DEF AskFails, AskRefused, LoseAnswer, SaveFails,
          Fail, Done, Retry
    <2>2. CASE (\E rotates \in BOOLEAN : Trade(r, rotates)) \/ Receive(r) \/ Truncate(r)
      BY <2>2 DEF Trade, Receive, Truncate
    <2>3. CASE Save(r) BY <2>3 DEF Save, GiveToken
    <2>4. QED BY <1>3, <2>1, <2>2, <2>3 DEF Refresh
  <1>4. ASSUME NEW r \in Requests, Call(r) PROVE LockInv'
    BY <1>4 DEF Call, UpstreamAccepts, Upstream401, UpstreamFails,
        Fail, Done, Retry
  <1>5. CASE Environment
    <2>1. CASE Replace BY <2>1 DEF Replace
    <2>2. CASE Crash BY <2>2 DEF Crash
    <2>3. CASE \E t \in 1 .. MaxToken : Expire(t) \/ Revoke(t)
      BY <2>3 DEF Expire, Revoke
    <2>4. QED BY <1>5, <2>1, <2>2, <2>3 DEF Environment
  <1>6. CASE UNCHANGED loginVars BY <1>6 DEF loginVars
  <1>7. QED BY <1>1, <1>2, <1>3, <1>4, <1>5, <1>6 DEF LoginNext, Handler

LEMMA LineStep ==
  LoginTypeOK /\ LockInv /\ LineInv /\ [LoginNext]_loginVars => LineInv'
  <1> SUFFICES ASSUME LoginTypeOK, LockInv, LineInv, [LoginNext]_loginVars PROVE LineInv'
    OBVIOUS
  <1> USE RefreshAssumption
      DEF LoginTypeOK, LockInv, LineInv, Inside, Owing, Free, Goto,
          local, provider,
          upstream, Unlock
  <1>1. ASSUME NEW r \in Requests, Start(r) PROVE LineInv'
    BY <1>1 DEF Start
  <1>2. ASSUME NEW r \in Requests, Load(r) PROVE LineInv'
    <2>1. CASE LoadFails(r) BY <2>1 DEF LoadFails, Done
    <2>2. CASE LoadFresh(r) BY <2>2 DEF LoadFresh, GiveToken
    <2>3. CASE LoadToRefresh(r) BY <2>3 DEF LoadToRefresh
    <2>4. QED BY <1>2, <2>1, <2>2, <2>3 DEF Load
  <1>3. ASSUME NEW r \in Requests, Refresh(r) PROVE LineInv'
    <2>1. CASE AskFails(r) \/ AskRefused(r)
      BY <2>1 DEF AskFails, AskRefused, Fail, Done, Retry
    <2>2. ASSUME NEW rotates \in BOOLEAN, Trade(r, rotates) PROVE LineInv'
      <3>1. auth'[r].refresh = live'
        BY <2>2 DEF Trade
      <3>2. /\ lock' = r /\ lock = r /\ file' = file /\ broken' = broken
            /\ pc' = [pc EXCEPT ![r] = "traded"] /\ pc[r] = "asking"
            /\ \A q \in Requests \ {r} : auth'[q] = auth[q]
        BY <2>2 DEF Trade
      <3>3. QED BY <3>1, <3>2
    <2>3. CASE LoseAnswer(r) \/ SaveFails(r)
      BY <2>3 DEF LoseAnswer, SaveFails
    <2>4. CASE Receive(r) BY <2>4 DEF Receive
    <2>5. CASE Truncate(r) BY <2>5 DEF Truncate
    <2>6. CASE Save(r) BY <2>6 DEF Save, GiveToken
    <2>7. QED BY <1>3, <2>1, <2>2, <2>3, <2>4, <2>5, <2>6 DEF Refresh
  <1>4. ASSUME NEW r \in Requests, Call(r) PROVE LineInv'
    BY <1>4 DEF Call, UpstreamAccepts, Upstream401, UpstreamFails,
        Fail, Done, Retry
  <1>5. CASE Replace BY <1>5 DEF Replace
  <1>6. CASE Crash BY <1>6 DEF Crash
  <1>7. ASSUME NEW t \in 1 .. MaxToken, Expire(t) \/ Revoke(t) PROVE LineInv'
    BY <1>7 DEF Expire, Revoke
  <1>8. CASE UNCHANGED loginVars BY <1>8 DEF loginVars
  <1>9. QED BY <1>1, <1>2, <1>3, <1>4, <1>5, <1>6, <1>7, <1>8
    DEF LoginNext, Environment, Handler

(* For every number of handlers, retries and tokens: concurrent refreshes leave
   a file that parses and holds the refresh token the provider accepts. *)
THEOREM LoginIsKept ==
  LoginSpec => []LoginSurvives
  <1>1. LoginInit => LockInv /\ LineInv
    BY RefreshAssumption DEF LoginInit, LockInv, LineInv, Inside, Owing,
        Free
  <1>2. LineInv => LoginSurvives
    BY DEF LineInv, LoginSurvives
  <1>3. LoginSpec => []LockInv
    BY <1>1, LockStep, LoginTypeCorrect, PTL DEF LoginSpec
  <1>4. QED BY <1>1, <1>2, <1>3, LineStep, LoginTypeCorrect, PTL DEF LoginSpec

-------------------------------------------------------------------------------
(* The repeated call carries a younger token. *)

(* No token is younger than the youngest issued one, and a forced refresh ends
   with a pair issued after the refusal. *)
YoungInv ==
  /\ file.pair.access <= issued
  /\ \A r \in Requests :
       /\ token[r] <= issued
       /\ refused[r] <= issued
       /\ pc[r] \in Owing => refused[r] < auth[r].access /\ auth[r].access <= issued
       /\ pc[r] = "calling" /\ force[r] => refused[r] < token[r]

LEMMA YoungStep ==
  LoginTypeOK /\ YoungInv /\ [LoginNext]_loginVars => YoungInv'
  <1> SUFFICES ASSUME LoginTypeOK, YoungInv, [LoginNext]_loginVars PROVE YoungInv'
    OBVIOUS
  <1>0. /\ issued \in Nat /\ file.pair.access \in Nat
        /\ \A r \in Requests :
             /\ token[r] \in Nat /\ refused[r] \in Nat /\ auth[r].access \in Nat
    BY RefreshAssumption DEF LoginTypeOK, Pair, Tokens
  <1> USE <1>0 DEF YoungInv, Owing, Goto, local, provider,
      upstream
  <1>a. pc \in [Requests -> Places] /\ force \in [Requests -> BOOLEAN]
        /\ auth \in [Requests -> Pair] /\ token \in [Requests -> Tokens]
        /\ refused \in [Requests -> Tokens]
    BY DEF LoginTypeOK
  <1>f. ASSUME NEW r \in Requests, Fail(r), UNCHANGED <<file, issued>> PROVE YoungInv'
    BY <1>a, <1>f DEF Fail, Done, Retry
  <1>1. ASSUME NEW r \in Requests, Start(r) PROVE YoungInv'
    BY <1>a, <1>1 DEF Start
  <1>2. ASSUME NEW r \in Requests, Load(r) PROVE YoungInv'
    <2>1. CASE LoadFails(r) BY <1>f, <2>1 DEF LoadFails, Fail
    <2>2. CASE LoadFresh(r)
      BY <1>a, <2>2 DEF LoadFresh, GiveToken, NeedsRefresh
    <2>3. CASE LoadToRefresh(r) BY <1>a, <2>3 DEF LoadToRefresh
    <2>4. QED BY <1>2, <2>1, <2>2, <2>3 DEF Load
  <1>3. ASSUME NEW r \in Requests, Refresh(r) PROVE YoungInv'
    <2>1. CASE AskFails(r) \/ AskRefused(r) \/ LoseAnswer(r) \/ SaveFails(r)
      BY <1>f, <2>1 DEF AskFails, AskRefused, LoseAnswer, SaveFails,
          Fail
    <2>2. ASSUME NEW rotates \in BOOLEAN, Trade(r, rotates) PROVE YoungInv'
      <3>1. auth'[r].access = issued' /\ issued' = issued + 1
            /\ refused' = refused /\ token' = token /\ force' = force /\ file' = file
            /\ pc' = [pc EXCEPT ![r] = "traded"]
            /\ \A q \in Requests \ {r} : auth'[q] = auth[q]
        BY <1>a, <2>2 DEF Trade
      <3>2. QED BY <1>a, <3>1
    <2>3. CASE Receive(r) BY <1>a, <2>3 DEF Receive
    <2>4. CASE Truncate(r) BY <1>a, <2>4 DEF Truncate
    <2>5. CASE Save(r) BY <1>a, <2>5 DEF Save, GiveToken
    <2>6. QED BY <1>3, <2>1, <2>2, <2>3, <2>4, <2>5 DEF Refresh
  <1>4. ASSUME NEW r \in Requests, Call(r) PROVE YoungInv'
    <2>1. CASE UpstreamAccepts(r) \/ UpstreamFails(r)
      BY <1>f, <2>1 DEF UpstreamAccepts, UpstreamFails, Fail
    <2>2. CASE Upstream401(r) BY <1>a, <2>2 DEF Upstream401
    <2>3. QED BY <1>4, <2>1, <2>2 DEF Call
  <1>5. CASE Replace BY <1>5 DEF Replace
  <1>6. CASE Crash BY <1>6 DEF Crash
  <1>7. ASSUME NEW t \in 1 .. MaxToken, Expire(t) \/ Revoke(t) PROVE YoungInv'
    BY <1>7 DEF Expire, Revoke
  <1>8. CASE UNCHANGED loginVars BY <1>8 DEF loginVars
  <1>9. QED BY <1>1, <1>2, <1>3, <1>4, <1>5, <1>6, <1>7, <1>8
    DEF LoginNext, Environment, Handler

(* For every number of handlers, retries and tokens: the call repeated after a
   401 carries a younger access token than the refused one. *)
THEOREM RetriesAreFresh ==
  LoginSpec => []RetryIsFresh
  <1>1. LoginInit => YoungInv
    BY DEF LoginInit, YoungInv, NoPair, Owing
  <1>2. LoginTypeOK /\ YoungInv => RetryIsFresh
    BY RefreshAssumption DEF YoungInv, RetryIsFresh, LoginTypeOK, Tokens
  <1>3. QED BY <1>1, <1>2, YoungStep, LoginTypeCorrect, PTL DEF LoginSpec
===============================================================================
