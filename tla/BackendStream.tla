----------------------------- MODULE BackendStream -----------------------------
(***************************************************************************)
(* One streamed call of /v1/responses to the Codex backend                  *)
(* (streamCodexBackendResponsesWithOptions).  Three goroutines and two      *)
(* channels: the opener calls the upstream and offers the body on openCh,   *)
(* the scanner reads it and sends its events on dataCh, the relay writes    *)
(* them to the client, beats the heart and watches the context.  Go's       *)
(* select takes any case that is ready, so the end of the call is a race    *)
(* between the upstream, the deadline and a client that hangs up.           *)
(***************************************************************************)
EXTENDS Naturals, Sequences

CONSTANTS
  Capacity,  \* the buffer of dataCh
  MaxEvents  \* bound of the events the upstream sends

ASSUME StreamAssumption ==
  /\ Capacity \in Nat \ {0}
  /\ MaxEvents \in Nat

VARIABLES
  relay,   \* the select loops of the handler's goroutine, then the outcome
  opener,  \* the goroutine that calls openResponsesWithRetry
  offer,   \* what it offers on the unbuffered openCh
  body,    \* the response body of the upstream
  scanner, \* the goroutine in scanSSEDataMessages
  held,    \* the event the scanner has read and not sent yet
  sent,    \* number of events the upstream has sent
  dataCh,  \* the buffered channel of events
  scanErr, \* errCh; once it holds something dataCh is closed
  seen,    \* completedSeen, failedSeen, doneSeen
  ctx,     \* reqCtx: the request's context with the backend timeout
  client,  \* the connection of the client
  wire     \* the terminal frames that reached the client

goroutines == <<opener, offer, body, scanner, held, sent, dataCh, scanErr>>
vars == <<relay, goroutines, seen, ctx, client, wire>>

(* delta: anything that does not end a response, unparsable data included.
   failed: response.failed and response.incomplete.  done: [DONE]. *)
Events == {"delta", "completed", "failed", "done"}
Terminal == Events \ {"delta"}

(* Failures of the gateway's own making: writeGatewayResponsesStreamFailure. *)
Synthetic == "synthetic"

Running == {"starting", "opening", "relaying"}
Outcomes == {"succeeded", "failed", "canceled"}
Over == relay \in Outcomes

TypeOK ==
  /\ relay \in Running \cup Outcomes
  /\ opener \in {"none", "calling", "offering", "gone"}
  /\ offer \in {"none", "body", "error", "canceled"}
  /\ body \in {"none", "open", "closed"}
  /\ scanner \in {"none", "reading", "sending", "ended"}
  /\ held \in Events
  /\ sent \in 0 .. MaxEvents
  /\ dataCh \in Seq(Events)
  /\ Len(dataCh) <= Capacity
  /\ scanErr \in {"none", "eof", "broken", "canceled", "expired"}
  /\ seen \in SUBSET Terminal
  /\ ctx \in {"live", "canceled", "expired"}
  /\ client \in {"there", "gone"}
  /\ wire \in SUBSET (Terminal \cup {Synthetic})

Init ==
  /\ relay = "starting"
  /\ opener = "none"
  /\ offer = "none"
  /\ body = "none"
  /\ scanner = "none"
  /\ held = "delta"
  /\ sent = 0
  /\ dataCh = <<>>
  /\ scanErr = "none"
  /\ seen = {}
  /\ ctx = "live"
  /\ client = "there"
  /\ wire = {}

(***************************************************************************)
(* Helpers of the relay.                                                   *)
(***************************************************************************)

(* What the client gets of the frames of one write. *)
Receives(frames) ==
  wire' = IF client = "there" THEN wire \cup (frames \cap (Terminal \cup {Synthetic}))
          ELSE wire

(* A write to a client that has hung up fails sooner or later. *)
WriteFails == client = "gone"

(* The deferred calls on return: cancel, and respBody.Close if it was set. *)
Return(outcome) ==
  /\ relay' = outcome
  /\ ctx' = IF ctx = "live" THEN "canceled" ELSE ctx
  /\ body' = IF relay = "relaying" THEN "closed" ELSE body

(* A mistake: the cause itself is recorded as the outcome. *)
BlameVerbatim(cause) == cause

(* How handleCodexBackendResponsesStream records an error of the context. *)
Blame(cause) == IF cause = "canceled" THEN "canceled" ELSE "failed"

Completed == "completed" \in seen
Failed == "failed" \in seen
DoneSeen == "done" \in seen

ReturnClientGone ==
  /\ WriteFails
  /\ Return("canceled")
  /\ UNCHANGED wire

(* A mistake: the error is returned without a frame for the client. *)
ReturnSilently(outcome) == Return(outcome) /\ UNCHANGED wire

(* The failure frame, unless [DONE] has gone out already. *)
ReturnFailure(outcome) ==
  /\ Return(outcome)
  /\ Receives(IF DoneSeen THEN {} ELSE {Synthetic})

(***************************************************************************)
(* The relay while it opens the stream.                                    *)
(***************************************************************************)

(* The request cannot be translated for the backend: nothing is streamed, the
   client gets a plain error response. *)
TranslationFails ==
  /\ relay = "starting"
  /\ ReturnFailure("failed")
  /\ UNCHANGED <<opener, offer, scanner, held, sent, dataCh, scanErr, seen, client>>

(* The headers and the first keepalive. *)
Begin ==
  /\ relay = "starting"
  /\ \/ relay' = "opening" /\ opener' = "calling" /\ UNCHANGED <<ctx, body, wire>>
     \/ ReturnClientGone /\ UNCHANGED opener
  /\ UNCHANGED <<offer, scanner, held, sent, dataCh, scanErr, seen, client>>

(* openCh hands the offer over; an expired context turns a body into an error
   and leaves it to the transport. *)
TakeOffer ==
  /\ relay = "opening"
  /\ opener = "offering"
  /\ opener' = "gone"
  /\ IF offer = "body" /\ ctx # "expired"
     THEN /\ relay' = "relaying"
          /\ scanner' = "reading"
          /\ UNCHANGED <<ctx, body, wire>>
     ELSE /\ ReturnFailure(IF ctx = "expired" THEN "failed" ELSE Blame(offer))
          /\ UNCHANGED scanner
  /\ UNCHANGED <<offer, held, sent, dataCh, scanErr, seen, client>>

(* The keepalive of the ticker cannot be written. *)
HeartbeatFails ==
  /\ relay \in {"opening", "relaying"}
  /\ ReturnClientGone
  /\ UNCHANGED <<opener, offer, scanner, held, sent, dataCh, scanErr, seen, client>>

OpeningContextDone ==
  /\ relay = "opening"
  /\ ctx # "live"
  /\ ReturnFailure(Blame(ctx))
  /\ UNCHANGED <<opener, offer, scanner, held, sent, dataCh, scanErr, seen, client>>

(***************************************************************************)
(* The relay loop.                                                         *)
(***************************************************************************)

(* Write the event first, then look at what it says. *)
RelayEvent ==
  /\ relay = "relaying"
  /\ dataCh # <<>>
  /\ dataCh' = Tail(dataCh)
  /\ \/ /\ Receives({Head(dataCh)})
        /\ seen' = seen \cup ({Head(dataCh)} \cap Terminal)
        /\ UNCHANGED <<relay, ctx, body>>
     \/ ReturnClientGone /\ UNCHANGED seen
  /\ UNCHANGED <<opener, offer, scanner, held, sent, scanErr, client>>

Drained == relay = "relaying" /\ dataCh = <<>> /\ scanErr # "none"

(* A mistake: a failure the upstream reported is forgotten. *)
EndBrokenAfterAll ==
  /\ Drained
  /\ scanErr # "eof"
  /\ IF Completed \/ DoneSeen
     THEN Return("succeeded") /\ UNCHANGED wire
     ELSE ReturnFailure(Blame(scanErr))
  /\ UNCHANGED <<opener, offer, scanner, held, sent, dataCh, scanErr, seen, client>>

(* The scanner reported an error. *)
EndBroken ==
  /\ Drained
  /\ scanErr # "eof"
  /\ IF (Completed \/ DoneSeen) /\ ~Failed
     THEN Return("succeeded") /\ UNCHANGED wire
     ELSE ReturnFailure(Blame(scanErr))
  /\ UNCHANGED <<opener, offer, scanner, held, sent, dataCh, scanErr, seen, client>>

(* The upstream closed the stream: add [DONE] if it did not, or a failure if
   it said neither completed nor failed. *)
EndOfStream ==
  /\ Drained
  /\ scanErr = "eof"
  /\ \/ /\ Failed \/ Completed
        /\ ~DoneSeen
        /\ \/ /\ Receives({"done"})
              /\ Return(IF Failed THEN "failed" ELSE "succeeded")
           \/ ReturnClientGone
     \/ /\ DoneSeen
        /\ Return(IF Failed THEN "failed" ELSE "succeeded")
        /\ UNCHANGED wire
     \/ /\ seen = {}
        /\ ReturnFailure("failed")
  /\ UNCHANGED <<opener, offer, scanner, held, sent, dataCh, scanErr, seen, client>>

RelayContextDone ==
  /\ relay = "relaying"
  /\ ctx # "live"
  /\ IF Completed /\ ~Failed
     THEN Return("succeeded") /\ UNCHANGED wire
     ELSE ReturnFailure(Blame(ctx))
  /\ UNCHANGED <<opener, offer, scanner, held, sent, dataCh, scanErr, seen, client>>

(***************************************************************************)
(* The opener and the scanner.                                             *)
(***************************************************************************)

(* openResponsesWithRetry returns: it gives up early when the context ends. *)
OpenReturns(result) ==
  /\ opener = "calling"
  /\ result = "body" => ctx = "live"
  /\ result = "canceled" => ctx = "canceled"
  /\ opener' = "offering"
  /\ offer' = result
  /\ body' = IF result = "body" THEN "open" ELSE body
  /\ UNCHANGED <<relay, scanner, held, sent, dataCh, scanErr, seen, ctx, client, wire>>

(* Nobody takes the offer any more: close the body and end. *)
OpenerLeaves ==
  /\ opener = "offering"
  /\ ctx # "live"
  /\ opener' = "gone"
  /\ body' = IF offer = "body" THEN "closed" ELSE body
  /\ UNCHANGED <<relay, offer, scanner, held, sent, dataCh, scanErr, seen, ctx,
                 client, wire>>

(* Events that are buffered can still be read when the context has ended. *)
ScanEvent(e) ==
  /\ scanner = "reading"
  /\ sent < MaxEvents
  /\ scanner' = "sending"
  /\ held' = e
  /\ sent' = sent + 1
  /\ UNCHANGED <<relay, opener, offer, body, dataCh, scanErr, seen, ctx, client, wire>>

(* dataCh <- event: blocks while the buffer is full, whoever still reads it. *)
ScanSend ==
  /\ scanner = "sending"
  /\ Len(dataCh) < Capacity
  /\ dataCh' = Append(dataCh, held)
  /\ scanner' = "reading"
  /\ held' = "delta"
  /\ UNCHANGED <<relay, opener, offer, body, sent, scanErr, seen, ctx, client, wire>>

ScanEnds(err) ==
  /\ scanner = "reading"
  /\ scanner' = "ended"
  /\ scanErr' = err
  /\ UNCHANGED <<relay, opener, offer, body, held, sent, dataCh, seen, ctx, client, wire>>

(* The upstream closes or breaks the stream; the scanner may have read that
   before the context ended. *)
UpstreamEnds == \E err \in {"eof", "broken"} : ScanEnds(err)

(* A mistake: the upstream request is not made with the call's context. *)
ReadGoesOn == FALSE

(* Reading fails because the request's context has ended. *)
ReadAborts == ctx # "live" /\ ScanEnds(ctx)

(***************************************************************************)
(* The environment.                                                        *)
(***************************************************************************)

ClientLeaves ==
  /\ client = "there"
  /\ client' = "gone"
  /\ UNCHANGED <<relay, goroutines, seen, ctx, wire>>

(* net/http cancels the request's context when it notices. *)
ContextCanceled ==
  /\ client = "gone"
  /\ ctx = "live"
  /\ ctx' = "canceled"
  /\ UNCHANGED <<relay, goroutines, seen, client, wire>>

Deadline ==
  /\ relay \in Running
  /\ ctx = "live"
  /\ ctx' = "expired"
  /\ UNCHANGED <<relay, goroutines, seen, client, wire>>

Opening == TranslationFails \/ Begin \/ TakeOffer \/ OpeningContextDone

Relaying == RelayEvent \/ EndBroken \/ EndOfStream \/ RelayContextDone

Opener ==
  (\E result \in {"body", "error", "canceled"} : OpenReturns(result)) \/ OpenerLeaves

Scanner == (\E e \in Events : ScanEvent(e)) \/ ScanSend \/ UpstreamEnds \/ ReadAborts

Next ==
  \/ Opening \/ Relaying \/ HeartbeatFails \/ Opener \/ Scanner
  \/ ClientLeaves \/ ContextCanceled \/ Deadline

Spec == Init /\ [][Next]_vars

(* Goroutines run on and the timer fires; the upstream owes no event and the
   ticker may never find the client gone.  openResponsesWithRetry ends once its
   context has: it carries the context into every request and every wait.  The
   select of the relay is random, so the context's case, ready all the time, is
   chosen in the end. *)
Fairness ==
  /\ WF_vars(Opening)
  /\ WF_vars(Relaying)
  /\ WF_vars(OpenerLeaves)
  /\ WF_vars(ctx # "live" /\ \E result \in {"error", "canceled"} : OpenReturns(result))
  /\ WF_vars(ScanSend)
  /\ WF_vars(ReadAborts)
  /\ WF_vars(Deadline)

FairSpec == Spec /\ Fairness

(***************************************************************************)
(* Properties.                                                             *)
(***************************************************************************)

(* What usage statistics say of a call agrees with the upstream and with what the
   client was told, whatever the context did between the events.  A success is
   one: the upstream said completed or [DONE], never failed, and the client has
   been told nothing else.  A failure of the gateway is never a response that
   the upstream completed, although the deadline or a broken connection can
   follow the event. *)
OutcomeIsHonest ==
  /\ relay = "succeeded" =>
       /\ ~Failed
       /\ Completed \/ DoneSeen
       /\ wire \cap {"failed", Synthetic} = {}
  /\ relay = "failed" => Failed \/ ~Completed

(* A client that stays is never left without an end of the stream: when the
   handler is done it has a completed, a failed or a [DONE] frame. *)
ClientGetsAnEnd == Over /\ client = "there" => wire # {}

(* Every call ends and takes its opener with it; no opened body is left open
   unless the deadline struck exactly when it was handed over.  The scanner ends
   too, or it is stuck for ever sending to a full channel that nobody reads: the
   only way a call can leave a goroutine behind. *)
CallEnds ==
  <>[](/\ Over
       /\ opener \in {"none", "gone"}
       /\ body = "open" => ctx = "expired"
       /\ \/ scanner \in {"none", "ended"}
          \/ scanner = "sending" /\ Len(dataCh) = Capacity)
=============================================================================
