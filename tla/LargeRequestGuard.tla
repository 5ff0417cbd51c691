--------------------------- MODULE LargeRequestGuard ---------------------------
(***************************************************************************)
(* The per-key protection of large requests in the OpenAI gateway handler: *)
(* acquireGatewayLargeRequestSlot asks the burst limiter (a sliding window  *)
(* of accepted time stamps), then the in-flight limiter (a counter whose    *)
(* release is deferred to the end of handleProxy).  Each limiter has its    *)
(* own mutex, and the time stamp the burst limiter judges by is taken       *)
(* before its mutex: three separate steps, so handlers interleave between   *)
(* them and a stamp may be overtaken by a younger one.                      *)
(***************************************************************************)
EXTENDS Integers, FiniteSets

CONSTANTS
  Keys,         \* the API keys (gatewayLargeRequestLimiterKey is injective)
  Requests,     \* the handler goroutines; each serves requests one by one
  KeyOf,        \* the key the requests of a handler authenticate with
  Deployments,  \* the environments the process may be started in
  Window,       \* GATEWAY_LARGE_REQUEST_BURST_WINDOW_SECONDS, in ticks
  MaxTime,      \* bound of the clock
  MaxTickets    \* bound of the requests the burst limiter accepts

ASSUME GuardAssumption ==
  /\ IsFiniteSet(Requests)
  /\ KeyOf \in [Requests -> Keys]
  /\ Deployments \subseteq
       [inFlight : Nat, burst : Nat, handlers : SUBSET Requests]
  /\ Window \in Nat
  /\ MaxTime \in Nat
  /\ MaxTickets \in Nat

VARIABLES
  deployment,  \* the limits of this process and the handlers it runs
  now,       \* the clock
  pc,        \* where each handler is in acquireGatewayLargeRequestSlot
  stamp,     \* the time.Now() a handler passes to allow, 0 when it is used up
  events,    \* gatewayBurstLimiter.events: what the window still remembers
  inFlight,  \* gatewayInFlightLimiter.inFlight, 0 where the map has no entry
  serial,    \* history: number of events recorded so far, names the next one
  accepted,  \* history: every event the burst limiter ever recorded
  latest     \* history: the youngest stamp the burst limiter judged by

vars == <<deployment, now, pc, stamp, events, inFlight, serial, accepted, latest>>

history == <<serial, accepted, latest>>

(* GATEWAY_LARGE_REQUEST_MAX_INFLIGHT_PER_KEY and ..._BURST_MAX_PER_KEY: zero
   turns the limiter off. *)
InFlightMax == deployment.inFlight
BurstMax == deployment.burst

(* The handler is before the guard, holds a time stamp, has passed the burst
   limiter, is upstream with or without a slot, or answers 429. *)
Places == {"idle", "stamped", "allowed", "running", "holding",
           "refusedBurst", "refusedInFlight"}

Ticket == [req : Requests, n : Nat, at : Nat]

TypeOK ==
  /\ deployment \in Deployments
  /\ now \in Nat
  /\ pc \in [Requests -> Places]
  /\ stamp \in [Requests -> Nat]
  /\ events \in [Keys -> SUBSET Ticket]
  /\ inFlight \in [Keys -> Nat]
  /\ serial \in Nat
  /\ accepted \in [Keys -> SUBSET Ticket]
  /\ latest \in [Keys -> Nat]

Init ==
  /\ deployment \in Deployments
  /\ now = 0
  /\ pc = [r \in Requests |-> "idle"]
  /\ stamp = [r \in Requests |-> 0]
  /\ events = [k \in Keys |-> {}]
  /\ inFlight = [k \in Keys |-> 0]
  /\ serial = 0
  /\ accepted = [k \in Keys |-> {}]
  /\ latest = [k \in Keys |-> 0]

Goto(r, from, to) ==
  /\ pc[r] = from
  /\ pc' = [pc EXCEPT ![r] = to]

Later(a, b) == IF a < b THEN b ELSE a

(***************************************************************************)
(* The handlers.                                                           *)
(***************************************************************************)

(* A request below gatewayLargeRequestMinBytes is not guarded at all. *)
StartSmall(r) ==
  /\ r \in deployment.handlers
  /\ Goto(r, "idle", "running")
  /\ UNCHANGED <<deployment, now, stamp, events, inFlight, history>>

Stamped == {r \in Requests : pc[r] = "stamped"}

(* The time stamp is an argument of allow, evaluated before allow locks.
   MaxTickets bounds the model: no request starts that could exceed it. *)
StartLarge(r) ==
  /\ r \in deployment.handlers
  /\ serial + Cardinality(Stamped) < MaxTickets
  /\ Goto(r, "idle", "stamped")
  /\ stamp' = [stamp EXCEPT ![r] = now]
  /\ UNCHANGED <<deployment, now, events, inFlight, history>>

(* Mistakes a change to the filter could make: it keeps what is too old, it
   forgets a tick too early. *)
KeepExpired(k, at) == {e \in events[k] : e.at <= at - Window}
KeepTooLittle(k, at) == {e \in events[k] : e.at > at - Window + 1}

(* What the filter of allow keeps of a key's events: ts.After(now - window). *)
Keep(k, at) == {e \in events[k] : e.at > at - Window}

BurstOff == BurstMax = 0 \/ Window = 0

(* gatewayBurstLimiter.allow with its limit or its window switched off. *)
AllowUnlimited(r) ==
  /\ BurstOff
  /\ Goto(r, "stamped", "allowed")
  /\ stamp' = [stamp EXCEPT ![r] = 0]
  /\ UNCHANGED <<deployment, now, events, inFlight, history>>

(* gatewayBurstLimiter.allow returning true: prune, then record the stamp. *)
Allow(r) ==
  LET k == KeyOf[r]
      t == [req |-> r, n |-> serial, at |-> stamp[r]]
  IN /\ ~BurstOff
     /\ Cardinality(Keep(k, stamp[r])) < BurstMax
     /\ Goto(r, "stamped", "allowed")
     /\ stamp' = [stamp EXCEPT ![r] = 0]
     /\ events' = [events EXCEPT ![k] = Keep(k, stamp[r]) \cup {t}]
     /\ serial' = serial + 1
     /\ accepted' = [accepted EXCEPT ![k] = @ \cup {t}]
     /\ latest' = [latest EXCEPT ![k] = Later(@, stamp[r])]
     /\ UNCHANGED <<deployment, now, inFlight>>

(* gatewayBurstLimiter.allow returning false: it prunes all the same. *)
RefuseBurst(r) ==
  LET k == KeyOf[r]
  IN /\ ~BurstOff
     /\ Cardinality(Keep(k, stamp[r])) >= BurstMax
     /\ Goto(r, "stamped", "refusedBurst")
     /\ stamp' = [stamp EXCEPT ![r] = 0]
     /\ events' = [events EXCEPT ![k] = Keep(k, stamp[r])]
     /\ latest' = [latest EXCEPT ![k] = Later(@, stamp[r])]
     /\ UNCHANGED <<deployment, now, inFlight, serial, accepted>>

(* limit <= 0 in acquireGatewayLargeRequestSlot: no slot is needed. *)
EnterUnlimited(r) ==
  /\ InFlightMax = 0
  /\ Goto(r, "allowed", "running")
  /\ UNCHANGED <<deployment, now, stamp, events, inFlight, history>>

(* gatewayInFlightLimiter.tryAcquire. *)
TryAcquire(r) ==
  LET k == KeyOf[r]
  IN /\ InFlightMax > 0
     /\ inFlight[k] < InFlightMax
     /\ Goto(r, "allowed", "holding")
     /\ inFlight' = [inFlight EXCEPT ![k] = @ + 1]
     /\ UNCHANGED <<deployment, now, stamp, events, history>>

(* The burst event recorded a moment ago stays recorded. *)
RefuseInFlight(r) ==
  /\ InFlightMax > 0
  /\ inFlight[KeyOf[r]] >= InFlightMax
  /\ Goto(r, "allowed", "refusedInFlight")
  /\ UNCHANGED <<deployment, now, stamp, events, inFlight, history>>

(* A mistake a change to the release could make: it clears the whole entry. *)
ReleaseAll(k) == inFlight' = [inFlight EXCEPT ![k] = 0]

(* The closure tryAcquire returned, run by handleProxy's defer. *)
Release(k) ==
  inFlight' = [inFlight EXCEPT ![k] = IF @ <= 1 THEN 0 ELSE @ - 1]

(* handleProxy returns: completed, failed, cancelled and panicking alike. *)
Finish(r) ==
  \/ /\ Goto(r, "holding", "idle")
     /\ Release(KeyOf[r])
     /\ UNCHANGED <<deployment, now, stamp, events, history>>
  \/ /\ Goto(r, "running", "idle")
     /\ UNCHANGED <<deployment, now, stamp, events, inFlight, history>>

(* writeGatewayLargeRequestLimit answers 429; the client may come back. *)
AnswerRefusal(r) ==
  /\ pc[r] \in {"refusedBurst", "refusedInFlight"}
  /\ pc' = [pc EXCEPT ![r] = "idle"]
  /\ UNCHANGED <<deployment, now, stamp, events, inFlight, history>>

Tick ==
  /\ now < MaxTime
  /\ now' = now + 1
  /\ UNCHANGED <<deployment, pc, stamp, events, inFlight, history>>

Guard(r) ==
  \/ AllowUnlimited(r) \/ Allow(r) \/ RefuseBurst(r)
  \/ EnterUnlimited(r) \/ TryAcquire(r) \/ RefuseInFlight(r)

Handler(r) ==
  StartSmall(r) \/ StartLarge(r) \/ Guard(r) \/ Finish(r) \/ AnswerRefusal(r)

Next == Tick \/ \E r \in Requests : Handler(r)

Spec == Init /\ [][Next]_vars

(***************************************************************************)
(* Properties.                                                             *)
(***************************************************************************)

Holders(k) == {r \in Requests : KeyOf[r] = k /\ pc[r] = "holding"}

(* Exactly the running large requests of a key own its in-flight count, and
   never more than the limit run: no path of handleProxy loses a release,
   releases twice or releases a slot it was refused. *)
SlotAccounting ==
  \A k \in Keys :
    /\ inFlight[k] = Cardinality(Holders(k))
    /\ inFlight[k] <= InFlightMax

InWindow(S, at) == {t \in S : t.at <= at /\ t.at > at - Window}

(* However the handlers interleave, the burst limiter has accepted at most
   BurstMax requests of a key in any window that ends no earlier than the
   youngest stamp it has judged by: pruning by a young stamp never makes room
   for more than BurstMax requests in a window still open. *)
BurstWindow ==
  ~BurstOff =>
    \A k \in Keys : \A at \in latest[k] .. MaxTime :
      Cardinality(InWindow(accepted[k], at)) <= BurstMax

Handlers(k) == {r \in Requests : KeyOf[r] = k}

(* A window that closed before the youngest stamp can exceed BurstMax, because
   a handler holding an older stamp finds the events of its window pruned; the
   excess is at most one request for each other handler of the key. *)
BurstOverrun ==
  ~BurstOff =>
    \A k \in Keys : \A at \in 0 .. MaxTime :
      Cardinality(InWindow(accepted[k], at))
        <= BurstMax + Cardinality(Handlers(k)) - 1

=============================================================================
