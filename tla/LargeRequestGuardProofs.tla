----------------------- MODULE LargeRequestGuardProofs -----------------------
(***************************************************************************)
(* Proofs about LargeRequestGuard: type correctness, the accounting of the *)
(* in-flight slots, and the sliding window of the burst limiter.           *)
(***************************************************************************)
EXTENDS LargeRequestGuard, FiniteSetTheorems, TLAPS

(* The limits of a deployment are natural numbers and never change. *)
LEMMA LimitTypes == TypeOK => InFlightMax \in Nat /\ BurstMax \in Nat
  BY GuardAssumption DEF TypeOK, InFlightMax, BurstMax

LEMMA LimitsFixed ==
  UNCHANGED deployment => /\ InFlightMax' = InFlightMax
                          /\ BurstMax' = BurstMax
                          /\ BurstOff' = BurstOff
  BY DEF InFlightMax, BurstMax, BurstOff

LEMMA StepKeepsDeployment == [Next]_vars => UNCHANGED deployment
  BY DEF Next, Tick, Handler, StartSmall, StartLarge, Guard, AllowUnlimited,
         Allow, RefuseBurst, EnterUnlimited, TryAcquire, RefuseInFlight, Finish,
         AnswerRefusal, vars

LEMMA InitTypeOK == Init => TypeOK
  BY GuardAssumption DEF Init, TypeOK, Places, Ticket

(* Every handler step keeps every variable in its type. *)
LEMMA NextTypeOK == TypeOK /\ [Next]_vars => TypeOK'
  <1> SUFFICES ASSUME TypeOK, [Next]_vars PROVE TypeOK'
    OBVIOUS
  <1> USE GuardAssumption DEF TypeOK, Places, Goto, history, InFlightMax, BurstMax
  <1>1. CASE Tick
    BY <1>1 DEF Tick
  <1>2. ASSUME NEW r \in Requests, Handler(r) PROVE TypeOK'
    <2>1. CASE StartSmall(r) BY <2>1 DEF StartSmall
    <2>2. CASE StartLarge(r) BY <2>2 DEF StartLarge
    <2>3. CASE AllowUnlimited(r) BY <2>3 DEF AllowUnlimited
    <2>4. CASE Allow(r)
      <3> DEFINE t == [req |-> r, n |-> serial, at |-> stamp[r]]
      <3>1. t \in Ticket /\ KeyOf[r] \in Keys
        BY DEF Ticket
      <3>2. Keep(KeyOf[r], stamp[r]) \subseteq Ticket
        BY <3>1 DEF Keep
      <3>3. Later(latest[KeyOf[r]], stamp[r]) \in Nat
        BY <3>1 DEF Later
      <3>4. QED BY <2>4, <3>1, <3>2, <3>3 DEF Allow
    <2>5. CASE RefuseBurst(r)
      <3>1. KeyOf[r] \in Keys /\ Keep(KeyOf[r], stamp[r]) \subseteq Ticket
        BY DEF Keep
      <3>2. Later(latest[KeyOf[r]], stamp[r]) \in Nat
        BY <3>1 DEF Later
      <3>3. QED BY <2>5, <3>1, <3>2 DEF RefuseBurst
    <2>6. CASE EnterUnlimited(r)
      BY <2>6 DEF EnterUnlimited
    <2>7. CASE TryAcquire(r) BY <2>7 DEF TryAcquire
    <2>8. CASE RefuseInFlight(r) BY <2>8 DEF RefuseInFlight, Ticket
    <2>9. CASE Finish(r) BY <2>9 DEF Finish, Release
    <2>10. CASE AnswerRefusal(r) BY <2>10 DEF AnswerRefusal
    <2>11. QED
      BY <1>2, <2>1, <2>2, <2>3, <2>4, <2>5, <2>6, <2>7, <2>8, <2>9, <2>10
      DEF Handler, Guard
  <1>3. CASE UNCHANGED vars
    BY <1>3 DEF vars
  <1>4. QED BY <1>1, <1>2, <1>3 DEF Next

(* In every behaviour of the guard every variable has its type. *)
THEOREM TypeCorrect == Spec => []TypeOK
  BY InitTypeOK, NextTypeOK, PTL DEF Spec

-------------------------------------------------------------------------------
(* Slots. *)

LEMMA HoldersFinite ==
  ASSUME NEW k \in Keys
  PROVE IsFiniteSet(Holders(k)) /\ Cardinality(Holders(k)) \in Nat
  BY GuardAssumption, FS_Subset, FS_CardinalityType DEF Holders

(* A step that moves no handler into or out of its slot and leaves the
   counters alone preserves the accounting. *)
LEMMA SlotFrame ==
  ASSUME SlotAccounting, UNCHANGED <<deployment, inFlight>>,
         \A q \in Requests : pc[q] = "holding" <=> pc'[q] = "holding"
  PROVE SlotAccounting'
  <1>1. ASSUME NEW k \in Keys PROVE Holders(k)' = Holders(k)
    BY DEF Holders
  <1>2. QED BY <1>1, LimitsFixed DEF SlotAccounting

LEMMA AcquireStep ==
  ASSUME TypeOK, SlotAccounting, NEW r \in Requests, TryAcquire(r)
  PROVE SlotAccounting'
  <1> DEFINE k == KeyOf[r]
  <1>1. k \in Keys /\ inFlight[k] \in Nat /\ InFlightMax \in Nat
    BY GuardAssumption, LimitTypes DEF TypeOK
  <1>2. Holders(k)' = Holders(k) \cup {r} /\ r \notin Holders(k)
    BY GuardAssumption DEF TypeOK, Holders, TryAcquire, Goto
  <1>3. \A j \in Keys : j # k => Holders(j)' = Holders(j)
    BY GuardAssumption DEF TypeOK, Holders, TryAcquire, Goto
  <1>4. Cardinality(Holders(k)') = Cardinality(Holders(k)) + 1
    BY <1>1, <1>2, HoldersFinite, FS_AddElement
  <1>5. /\ inFlight'[k] = inFlight[k] + 1 /\ inFlight[k] < InFlightMax
        /\ \A j \in Keys : j # k => inFlight'[j] = inFlight[j]
    BY <1>1 DEF TypeOK, TryAcquire
  <1>6. ASSUME NEW j \in Keys
        PROVE inFlight'[j] = Cardinality(Holders(j)') /\ inFlight'[j] <= InFlightMax
    <2>1. CASE j = k BY <1>1, <1>4, <1>5, <2>1 DEF SlotAccounting
    <2>2. CASE j # k BY <1>3, <1>5, <2>2 DEF SlotAccounting
    <2>3. QED BY <2>1, <2>2
  <1>7. QED BY <1>6, LimitsFixed DEF SlotAccounting, TryAcquire

LEMMA ReleaseStep ==
  ASSUME TypeOK, SlotAccounting, NEW r \in Requests,
         Goto(r, "holding", "idle"), Release(KeyOf[r]), UNCHANGED deployment
  PROVE SlotAccounting'
  <1> DEFINE k == KeyOf[r]
  <1>1. k \in Keys /\ inFlight[k] \in Nat /\ InFlightMax \in Nat
    BY GuardAssumption, LimitTypes DEF TypeOK
  <1>2. Holders(k)' = Holders(k) \ {r} /\ r \in Holders(k)
    BY GuardAssumption DEF TypeOK, Holders, Goto
  <1>3. \A j \in Keys : j # k => Holders(j)' = Holders(j)
    BY GuardAssumption DEF TypeOK, Holders, Goto
  <1>4. Cardinality(Holders(k)') = Cardinality(Holders(k)) - 1
    BY <1>1, <1>2, HoldersFinite, FS_RemoveElement
  <1>5. /\ inFlight'[k] = IF inFlight[k] <= 1 THEN 0 ELSE inFlight[k] - 1
        /\ \A j \in Keys : j # k => inFlight'[j] = inFlight[j]
    BY <1>1 DEF TypeOK, Release
  <1>6. inFlight[k] > 0
    BY <1>1, <1>2, HoldersFinite, FS_EmptySet DEF SlotAccounting
  <1>7. ASSUME NEW j \in Keys
        PROVE inFlight'[j] = Cardinality(Holders(j)') /\ inFlight'[j] <= InFlightMax
    <2>1. CASE j = k BY <1>1, <1>4, <1>5, <1>6, <2>1 DEF SlotAccounting
    <2>2. CASE j # k BY <1>3, <1>5, <2>2 DEF SlotAccounting
    <2>3. QED BY <2>1, <2>2
  <1>8. QED BY <1>7, LimitsFixed DEF SlotAccounting

LEMMA SlotStep == TypeOK /\ SlotAccounting /\ [Next]_vars => SlotAccounting'
  <1> SUFFICES ASSUME TypeOK, SlotAccounting, [Next]_vars PROVE SlotAccounting'
    OBVIOUS
  <1>1. CASE Tick BY <1>1, SlotFrame DEF Tick
  <1>2. ASSUME NEW r \in Requests, Handler(r) PROVE SlotAccounting'
    <2> USE DEF TypeOK, Goto
    <2>1. CASE StartSmall(r) BY <2>1, SlotFrame DEF StartSmall
    <2>2. CASE StartLarge(r) BY <2>2, SlotFrame DEF StartLarge
    <2>3. CASE AllowUnlimited(r) BY <2>3, SlotFrame DEF AllowUnlimited
    <2>4. CASE Allow(r) BY <2>4, SlotFrame DEF Allow
    <2>5. CASE RefuseBurst(r) BY <2>5, SlotFrame DEF RefuseBurst
    <2>6. CASE EnterUnlimited(r) BY <2>6, SlotFrame DEF EnterUnlimited
    <2>7. CASE TryAcquire(r) BY <2>7, AcquireStep
    <2>8. CASE RefuseInFlight(r) BY <2>8, SlotFrame DEF RefuseInFlight
    <2>9. CASE Finish(r) BY <2>9, SlotFrame, ReleaseStep DEF Finish
    <2>10. CASE AnswerRefusal(r) BY <2>10, SlotFrame DEF AnswerRefusal
    <2>11. QED
      BY <1>2, <2>1, <2>2, <2>3, <2>4, <2>5, <2>6, <2>7, <2>8, <2>9, <2>10
      DEF Handler, Guard
  <1>3. CASE UNCHANGED vars BY <1>3, SlotFrame DEF vars
  <1>4. QED BY <1>1, <1>2, <1>3 DEF Next

LEMMA SlotInit == Init => SlotAccounting
  <1> SUFFICES ASSUME Init, NEW k \in Keys
               PROVE inFlight[k] = Cardinality(Holders(k)) /\ inFlight[k] <= InFlightMax
    BY DEF SlotAccounting
  <1>1. Holders(k) = {} BY DEF Init, Holders
  <1>2. QED BY <1>1, FS_EmptySet, GuardAssumption DEF Init, InFlightMax

(* For any keys, handlers and limits, the in-flight counter of a key is the
   number of its requests that run with a slot, and is within the limit:
   acquireGatewayLargeRequestSlot and the deferred release always pair up. *)
THEOREM SlotsAccounted == Spec => []SlotAccounting
  BY SlotInit, SlotStep, TypeCorrect, PTL DEF Spec

-------------------------------------------------------------------------------
(* The burst window. *)

(* What makes BurstWindow inductive: the limiter never holds more than BurstMax
   events, and it has forgotten no accepted event that is still inside the
   window of the youngest stamp it has judged by. *)
BurstMemory ==
  ~BurstOff =>
    \A k \in Keys :
      /\ IsFiniteSet(events[k])
      /\ Cardinality(events[k]) <= BurstMax
      /\ \A t \in accepted[k] : t.at > latest[k] - Window => t \in events[k]

LEMMA LaterIsMax ==
  ASSUME NEW a \in Nat, NEW b \in Nat
  PROVE Later(a, b) \in Nat /\ Later(a, b) >= a /\ Later(a, b) >= b
  BY DEF Later

(* Pruning keeps at most what was there, and nothing the younger of the two
   stamps could still see is lost. *)
LEMMA PruneKeeps ==
  ASSUME TypeOK, BurstMemory, ~BurstOff, NEW k \in Keys, NEW at \in Nat
  PROVE /\ IsFiniteSet(Keep(k, at))
        /\ Cardinality(Keep(k, at)) \in Nat
        /\ Cardinality(Keep(k, at)) <= BurstMax
        /\ \A t \in accepted[k] :
             t.at > Later(latest[k], at) - Window => t \in Keep(k, at)
  <1>1. Keep(k, at) \in SUBSET events[k]
    BY DEF Keep
  <1>2. IsFiniteSet(events[k]) /\ Cardinality(events[k]) <= BurstMax
    BY DEF BurstMemory
  <1>3. /\ IsFiniteSet(Keep(k, at))
        /\ Cardinality(Keep(k, at)) <= Cardinality(events[k])
    BY <1>1, <1>2, FS_Subset
  <1>4. Cardinality(Keep(k, at)) \in Nat /\ Cardinality(events[k]) \in Nat
    BY <1>2, <1>3, FS_CardinalityType
  <1>5. ASSUME NEW t \in accepted[k], t.at > Later(latest[k], at) - Window
        PROVE t \in Keep(k, at)
    <2>1. latest[k] \in Nat /\ Window \in Nat /\ t.at \in Nat
      BY GuardAssumption DEF TypeOK, Ticket
    <2>2. /\ Later(latest[k], at) \in Nat
          /\ Later(latest[k], at) >= latest[k]
          /\ Later(latest[k], at) >= at
      BY <2>1, LaterIsMax
    <2>3. t.at > latest[k] - Window /\ t.at > at - Window
      BY <1>5, <2>1, <2>2
    <2>4. t \in events[k]
      BY <2>3 DEF BurstMemory
    <2>5. QED BY <2>3, <2>4 DEF Keep
  <1>6. BurstMax \in Nat
    BY LimitTypes
  <1>7. QED BY <1>2, <1>3, <1>4, <1>5, <1>6

LEMMA AddOne ==
  ASSUME NEW S, IsFiniteSet(S), NEW x
  PROVE /\ IsFiniteSet(S \cup {x})
        /\ Cardinality(S \cup {x}) <= Cardinality(S) + 1
  <1>1. Cardinality(S) \in Nat
    BY FS_CardinalityType
  <1>2. /\ IsFiniteSet(S \cup {x})
        /\ Cardinality(S \cup {x}) =
             IF x \in S THEN Cardinality(S) ELSE Cardinality(S) + 1
    BY FS_AddElement
  <1>3. QED BY <1>1, <1>2

LEMMA AllowStep ==
  ASSUME TypeOK, BurstMemory, NEW r \in Requests, Allow(r)
  PROVE BurstMemory'
  <1> DEFINE k == KeyOf[r]
             t == [req |-> r, n |-> serial, at |-> stamp[r]]
             K == Keep(k, stamp[r])
  <1>1. ~BurstOff /\ k \in Keys /\ stamp[r] \in Nat /\ BurstMax \in Nat
    BY GuardAssumption, LimitTypes DEF Allow, TypeOK
  <1>2. /\ IsFiniteSet(K) /\ Cardinality(K) \in Nat
        /\ \A e \in accepted[k] :
             e.at > Later(latest[k], stamp[r]) - Window => e \in K
    BY <1>1, PruneKeeps
  <1>3. /\ events'[k] = K \cup {t}
        /\ accepted'[k] = accepted[k] \cup {t}
        /\ latest'[k] = Later(latest[k], stamp[r])
        /\ \A j \in Keys : j # k => /\ events'[j] = events[j]
                                    /\ accepted'[j] = accepted[j]
                                    /\ latest'[j] = latest[j]
    BY <1>1 DEF Allow, TypeOK
  <1>4. IsFiniteSet(K \cup {t}) /\ Cardinality(K \cup {t}) <= Cardinality(K) + 1
    BY <1>2, AddOne
  <1>5. Cardinality(K) < BurstMax
    BY DEF Allow
  <1>6. Cardinality(K \cup {t}) <= BurstMax
    BY <1>1, <1>2, <1>4, <1>5, FS_CardinalityType
  <1>7. ASSUME NEW j \in Keys
        PROVE /\ IsFiniteSet(events'[j])
              /\ Cardinality(events'[j]) <= BurstMax
              /\ \A e \in accepted'[j] : e.at > latest'[j] - Window => e \in events'[j]
    <2>1. CASE j = k
      BY <1>2, <1>3, <1>4, <1>6, <2>1
    <2>2. CASE j # k
      BY <1>1, <1>3, <2>2 DEF BurstMemory
    <2>3. QED BY <2>1, <2>2
  <1>8. QED BY <1>7, LimitsFixed DEF BurstMemory, Allow

LEMMA RefuseBurstStep ==
  ASSUME TypeOK, BurstMemory, NEW r \in Requests, RefuseBurst(r)
  PROVE BurstMemory'
  <1> DEFINE k == KeyOf[r]
             K == Keep(k, stamp[r])
  <1>1. ~BurstOff /\ k \in Keys /\ stamp[r] \in Nat
    BY GuardAssumption DEF RefuseBurst, TypeOK
  <1>2. /\ IsFiniteSet(K) /\ Cardinality(K) <= BurstMax
        /\ \A e \in accepted[k] :
             e.at > Later(latest[k], stamp[r]) - Window => e \in K
    BY <1>1, PruneKeeps
  <1>3. /\ events'[k] = K
        /\ accepted' = accepted
        /\ latest'[k] = Later(latest[k], stamp[r])
        /\ \A j \in Keys : j # k => /\ events'[j] = events[j]
                                    /\ latest'[j] = latest[j]
    BY <1>1 DEF RefuseBurst, TypeOK
  <1>4. ASSUME NEW j \in Keys
        PROVE /\ IsFiniteSet(events'[j])
              /\ Cardinality(events'[j]) <= BurstMax
              /\ \A e \in accepted'[j] : e.at > latest'[j] - Window => e \in events'[j]
    <2>1. CASE j = k BY <1>2, <1>3, <2>1
    <2>2. CASE j # k BY <1>1, <1>3, <2>2 DEF BurstMemory
    <2>3. QED BY <2>1, <2>2
  <1>5. QED BY <1>4, LimitsFixed DEF BurstMemory, RefuseBurst

LEMMA BurstStep == TypeOK /\ BurstMemory /\ [Next]_vars => BurstMemory'
  <1> SUFFICES ASSUME TypeOK, BurstMemory, [Next]_vars PROVE BurstMemory'
    OBVIOUS
  <1>1. ASSUME UNCHANGED <<events, accepted, latest>> PROVE BurstMemory'
    BY <1>1, LimitsFixed, StepKeepsDeployment DEF BurstMemory
  <1>2. CASE Tick BY <1>1, <1>2 DEF Tick, history
  <1>3. ASSUME NEW r \in Requests, Handler(r) PROVE BurstMemory'
    <2>1. CASE Allow(r) BY <2>1, AllowStep
    <2>2. CASE RefuseBurst(r) BY <2>2, RefuseBurstStep
    <2>3. CASE UNCHANGED <<events, accepted, latest>> BY <1>1, <2>3
    <2>4. QED
      BY <1>3, <2>1, <2>2, <2>3
      DEF Handler, Guard, StartSmall, StartLarge, AllowUnlimited,
          EnterUnlimited, TryAcquire, RefuseInFlight, Finish, AnswerRefusal,
          history
  <1>4. CASE UNCHANGED vars BY <1>1, <1>4 DEF vars
  <1>5. QED BY <1>2, <1>3, <1>4 DEF Next

LEMMA BurstInit == Init => BurstMemory
  BY FS_EmptySet, GuardAssumption DEF Init, BurstMemory, BurstMax

(* A window that ends at or after the youngest stamp is a subset of what the
   limiter remembers. *)
LEMMA OpenWindow ==
  ASSUME TypeOK, BurstMemory, ~BurstOff, NEW k \in Keys, NEW at \in Nat,
         at >= latest[k]
  PROVE /\ IsFiniteSet(InWindow(accepted[k], at))
        /\ Cardinality(InWindow(accepted[k], at)) \in Nat
        /\ Cardinality(InWindow(accepted[k], at)) <= BurstMax
  <1>1. latest[k] \in Nat /\ Window \in Nat
    BY GuardAssumption DEF TypeOK
  <1>2. InWindow(accepted[k], at) \in SUBSET events[k]
    <2>1. ASSUME NEW t \in accepted[k], t.at > at - Window PROVE t \in events[k]
      <3>1. t.at \in Nat
        BY DEF TypeOK, Ticket
      <3>2. t.at > latest[k] - Window
        BY <1>1, <2>1, <3>1
      <3>3. QED BY <3>2 DEF BurstMemory
    <2>2. QED BY <2>1 DEF InWindow
  <1>3. /\ IsFiniteSet(events[k]) /\ Cardinality(events[k]) <= BurstMax
    BY DEF BurstMemory
  <1>4. /\ Cardinality(InWindow(accepted[k], at)) <= Cardinality(events[k])
        /\ IsFiniteSet(InWindow(accepted[k], at))
    BY <1>2, <1>3, FS_Subset
  <1>5. /\ Cardinality(InWindow(accepted[k], at)) \in Nat
        /\ Cardinality(events[k]) \in Nat /\ BurstMax \in Nat
    BY <1>3, <1>4, FS_CardinalityType, LimitTypes
  <1>6. QED BY <1>3, <1>4, <1>5

LEMMA MemoryBoundsWindow == TypeOK /\ BurstMemory => BurstWindow
  <1> SUFFICES ASSUME TypeOK, BurstMemory, ~BurstOff, NEW k \in Keys,
                      NEW at \in latest[k] .. MaxTime
               PROVE Cardinality(InWindow(accepted[k], at)) <= BurstMax
    BY DEF BurstWindow
  <1>1. latest[k] \in Nat
    BY DEF TypeOK
  <1>2. at \in Nat /\ at >= latest[k]
    BY <1>1, GuardAssumption
  <1>3. QED BY <1>2, OpenWindow

(* For any number of handlers, in any order of stamps and decisions, a window
   that is not yet overtaken holds at most BurstMax accepted requests. *)
THEOREM BurstWindowHolds == Spec => []BurstWindow
  <1>1. Spec => []BurstMemory
    BY BurstInit, BurstStep, TypeCorrect, PTL DEF Spec
  <1>2. QED BY <1>1, TypeCorrect, MemoryBoundsWindow, PTL

-------------------------------------------------------------------------------
(* The overrun of a closed window. *)

(* The handlers of a key that still carry a stamp of a window ending at "at". *)
Pending(k, at) == {r \in Handlers(k) : pc[r] = "stamped" /\ stamp[r] <= at}

(* No stamp is ahead of the clock, and only handlers of a key are accepted. *)
ClockInv ==
  /\ \A r \in Requests : stamp[r] <= now
  /\ \A k \in Keys : /\ latest[k] <= now
                     /\ IsFiniteSet(accepted[k])
                     /\ accepted[k] # {} => Handlers(k) # {}

(* What makes BurstOverrun inductive: in a window the limiter has moved beyond,
   the accepted requests and the handlers that could still add to them are
   together within the bound.  The handler that moved the limiter on is not one
   of them, since its stamp is outside the window. *)
OverrunInv ==
  ~BurstOff =>
    \A k \in Keys : \A at \in Nat :
      at < latest[k] =>
        Cardinality(InWindow(accepted[k], at)) + Cardinality(Pending(k, at))
          <= BurstMax + Cardinality(Handlers(k)) - 1

LEMMA HandlersFinite ==
  ASSUME NEW k \in Keys, NEW at \in Nat
  PROVE /\ IsFiniteSet(Handlers(k)) /\ Cardinality(Handlers(k)) \in Nat
        /\ IsFiniteSet(Pending(k, at)) /\ Cardinality(Pending(k, at)) \in Nat
  <1>1. IsFiniteSet(Handlers(k))
    BY GuardAssumption, FS_Subset DEF Handlers
  <1>2. IsFiniteSet(Pending(k, at))
    BY <1>1, FS_Subset DEF Pending
  <1>3. QED BY <1>1, <1>2, FS_CardinalityType

LEMMA WindowFinite ==
  ASSUME ClockInv, NEW k \in Keys, NEW at \in Nat
  PROVE /\ IsFiniteSet(InWindow(accepted[k], at))
        /\ Cardinality(InWindow(accepted[k], at)) \in Nat
  <1>1. IsFiniteSet(InWindow(accepted[k], at))
    BY FS_Subset DEF ClockInv, InWindow
  <1>2. QED BY <1>1, FS_CardinalityType

LEMMA ClockInit == Init => ClockInv
  BY FS_EmptySet DEF Init, ClockInv

LEMMA ClockStep == TypeOK /\ ClockInv /\ [Next]_vars => ClockInv'
  <1> SUFFICES ASSUME TypeOK, ClockInv, [Next]_vars PROVE ClockInv'
    OBVIOUS
  <1> USE DEF TypeOK, ClockInv, history, Goto
  <1>1. \A k \in Keys : Handlers(k)' = Handlers(k)
    BY DEF Handlers
  <1>2. ASSUME UNCHANGED <<accepted, latest>>, now' >= now, now' \in Nat,
               \A r \in Requests : stamp'[r] <= now'
        PROVE ClockInv'
    BY <1>1, <1>2
  <1>3. CASE Tick
    BY <1>2, <1>3 DEF Tick
  <1>4. ASSUME NEW r \in Requests, Handler(r) PROVE ClockInv'
    <2> DEFINE k == KeyOf[r]
    <2>1. k \in Keys /\ r \in Handlers(k)
      BY GuardAssumption DEF Handlers
    <2>2. /\ Later(latest[k], stamp[r]) \in Nat
          /\ Later(latest[k], stamp[r]) <= now
      BY <2>1 DEF Later
    <2>3. CASE Allow(r)
      <3>1. \A q \in Requests : stamp'[q] <= now'
        BY <2>3 DEF Allow
      <3>2. ASSUME NEW j \in Keys
            PROVE /\ latest'[j] <= now'
                  /\ IsFiniteSet(accepted'[j])
                  /\ accepted'[j] # {} => Handlers(j) # {}
        <4>1. CASE j = k
          BY <2>1, <2>2, <2>3, <4>1, AddOne DEF Allow
        <4>2. CASE j # k
          BY <2>1, <2>3, <4>2 DEF Allow
        <4>3. QED BY <4>1, <4>2
      <3>3. QED BY <1>1, <3>1, <3>2
    <2>4. CASE RefuseBurst(r)
      <3>1. \A q \in Requests : stamp'[q] <= now'
        BY <2>4 DEF RefuseBurst
      <3>2. \A j \in Keys : latest'[j] <= now'
        BY <2>1, <2>2, <2>4 DEF RefuseBurst
      <3>3. QED BY <1>1, <2>4, <3>1, <3>2 DEF RefuseBurst
    <2>5. CASE StartLarge(r) BY <1>2, <2>5 DEF StartLarge
    <2>6. CASE AllowUnlimited(r) BY <1>2, <2>6 DEF AllowUnlimited
    <2>7. CASE StartSmall(r) BY <1>2, <2>7 DEF StartSmall
    <2>8. CASE EnterUnlimited(r) \/ TryAcquire(r) \/ RefuseInFlight(r)
      BY <1>2, <2>8 DEF EnterUnlimited, TryAcquire, RefuseInFlight
    <2>9. CASE Finish(r) BY <1>2, <2>9 DEF Finish
    <2>10. CASE AnswerRefusal(r) BY <1>2, <2>10 DEF AnswerRefusal
    <2>11. QED
      BY <1>4, <2>3, <2>4, <2>5, <2>6, <2>7, <2>8, <2>9, <2>10
      DEF Handler, Guard
  <1>5. CASE UNCHANGED vars
    BY <1>2, <1>5 DEF vars
  <1>6. QED BY <1>3, <1>4, <1>5 DEF Next

(* A handler that comes to a decision leaves room for itself in every window
   the limiter has moved beyond once it has judged by the handler's stamp. *)
LEMMA DecisionFits ==
  ASSUME TypeOK, BurstMemory, ClockInv, OverrunInv, ~BurstOff,
         NEW r \in Requests, pc[r] = "stamped", NEW at \in Nat,
         at < Later(latest[KeyOf[r]], stamp[r])
  PROVE Cardinality(InWindow(accepted[KeyOf[r]], at))
          + Cardinality(Pending(KeyOf[r], at) \ {r})
          + (IF stamp[r] <= at THEN 1 ELSE 0)
          <= BurstMax + Cardinality(Handlers(KeyOf[r])) - 1
  <1> DEFINE k == KeyOf[r]
             A == Cardinality(InWindow(accepted[k], at))
             P == Pending(k, at)
             H == Handlers(k)
  <1>1. /\ k \in Keys /\ r \in H /\ stamp[r] \in Nat /\ latest[k] \in Nat
        /\ BurstMax \in Nat
    BY GuardAssumption, LimitTypes DEF TypeOK, Handlers
  <1>2. /\ IsFiniteSet(H) /\ Cardinality(H) \in Nat
        /\ IsFiniteSet(P) /\ Cardinality(P) \in Nat /\ A \in Nat
    BY <1>1, HandlersFinite, WindowFinite
  <1>3. /\ IsFiniteSet(P \ {r})
        /\ Cardinality(P \ {r}) =
             IF r \in P THEN Cardinality(P) - 1 ELSE Cardinality(P)
    BY <1>2, FS_RemoveElement
  <1>4. r \in P <=> stamp[r] <= at
    BY <1>1 DEF Pending
  <1>5. CASE at < latest[k]
    <2>1. A + Cardinality(P) <= BurstMax + Cardinality(H) - 1
      BY <1>1, <1>5 DEF OverrunInv
    <2>2. QED BY <1>1, <1>2, <1>3, <1>4, <2>1
  <1>6. CASE at >= latest[k]
    <2>1. ~(stamp[r] <= at)
      BY <1>1, <1>6 DEF Later
    <2>2. A <= BurstMax
      BY <1>1, <1>6, OpenWindow
    <2>3. P \ {r} \in SUBSET (H \ {r})
      BY DEF Pending
    <2>4. IsFiniteSet(H \ {r}) /\ Cardinality(H \ {r}) = Cardinality(H) - 1
      BY <1>1, <1>2, FS_RemoveElement
    <2>5. Cardinality(P \ {r}) <= Cardinality(H \ {r})
      BY <2>3, <2>4, FS_Subset
    <2>6. Cardinality(P \ {r}) \in Nat
      BY <1>3, FS_CardinalityType
    <2>7. QED BY <1>1, <1>2, <2>1, <2>2, <2>4, <2>5, <2>6
  <1>7. QED BY <1>1, <1>5, <1>6

(* A step that records no event and moves no window on, and after which no
   handler carries a stamp of a closed window that it did not carry before. *)
LEMMA OverrunFrame ==
  ASSUME TypeOK, ClockInv, OverrunInv, UNCHANGED <<deployment, accepted, latest>>,
         \A k \in Keys : \A at \in Nat :
           at < latest[k] => Pending(k, at)' \in SUBSET Pending(k, at)
  PROVE OverrunInv'
  <1> SUFFICES ASSUME ~BurstOff, NEW k \in Keys, NEW at \in Nat, at < latest[k]
               PROVE Cardinality(InWindow(accepted[k], at))
                       + Cardinality(Pending(k, at)')
                       <= BurstMax + Cardinality(Handlers(k)) - 1
    BY LimitsFixed DEF OverrunInv, InWindow, Handlers
  <1>1. /\ IsFiniteSet(Pending(k, at)) /\ Cardinality(Pending(k, at)) \in Nat
        /\ Cardinality(Handlers(k)) \in Nat
        /\ Cardinality(InWindow(accepted[k], at)) \in Nat
    BY HandlersFinite, WindowFinite
  <1>2. /\ Cardinality(Pending(k, at)') <= Cardinality(Pending(k, at))
        /\ IsFiniteSet(Pending(k, at)')
    BY <1>1, FS_Subset
  <1>3. Cardinality(InWindow(accepted[k], at)) + Cardinality(Pending(k, at))
          <= BurstMax + Cardinality(Handlers(k)) - 1
    BY DEF OverrunInv
  <1>4. Cardinality(Pending(k, at)') \in Nat /\ BurstMax \in Nat
    BY <1>2, FS_CardinalityType, LimitTypes
  <1>5. QED BY <1>1, <1>2, <1>3, <1>4

(* The decision of a handler, accepted or refused. *)
LEMMA DecisionStep ==
  ASSUME TypeOK, BurstMemory, ClockInv, OverrunInv, ~BurstOff,
         NEW r \in Requests, Goto(r, "stamped", pc'[r]), pc'[r] # "stamped",
         UNCHANGED deployment,
         stamp' = [stamp EXCEPT ![r] = 0],
         latest' = [latest EXCEPT ![KeyOf[r]] = Later(@, stamp[r])],
         \A q \in Keys : q # KeyOf[r] => accepted'[q] = accepted[q],
         \/ accepted'[KeyOf[r]] = accepted[KeyOf[r]]
         \/ \E t : /\ t.at = stamp[r]
                   /\ accepted'[KeyOf[r]] = accepted[KeyOf[r]] \cup {t}
  PROVE OverrunInv'
  <1> DEFINE k == KeyOf[r]
  <1> SUFFICES ASSUME NEW j \in Keys, NEW at \in Nat, at < latest'[j]
               PROVE Cardinality(InWindow(accepted'[j], at))
                       + Cardinality(Pending(j, at)')
                       <= BurstMax + Cardinality(Handlers(j)) - 1
    BY LimitsFixed DEF OverrunInv, InWindow, Handlers
  <1>1. /\ k \in Keys /\ stamp[r] \in Nat /\ BurstMax \in Nat
        /\ Cardinality(Handlers(j)) \in Nat
    BY GuardAssumption, LimitTypes, HandlersFinite DEF TypeOK
  <1>2. CASE j # k
    <2>1. accepted'[j] = accepted[j] /\ latest'[j] = latest[j]
      BY <1>1, <1>2 DEF TypeOK
    <2>2. Pending(j, at)' = Pending(j, at)
      BY <1>2 DEF TypeOK, Goto, Pending, Handlers
    <2>3. QED BY <2>1, <2>2 DEF OverrunInv
  <1>3. CASE j = k
    <2>1. at < Later(latest[k], stamp[r])
      BY <1>1, <1>3 DEF TypeOK
    <2>2. Pending(k, at)' = Pending(k, at) \ {r}
      BY DEF TypeOK, Goto, Pending, Handlers
    <2>3. Cardinality(InWindow(accepted[k], at)) + Cardinality(Pending(k, at) \ {r})
            + (IF stamp[r] <= at THEN 1 ELSE 0)
            <= BurstMax + Cardinality(Handlers(k)) - 1
      BY <2>1, DecisionFits DEF Goto
    <2>4. /\ IsFiniteSet(InWindow(accepted[k], at))
          /\ Cardinality(InWindow(accepted[k], at)) \in Nat
      BY <1>1, WindowFinite
    <2>5. Cardinality(Pending(k, at) \ {r}) \in Nat
      BY <1>1, HandlersFinite, FS_RemoveElement, FS_CardinalityType
    <2>6. CASE InWindow(accepted'[k], at) = InWindow(accepted[k], at)
      BY <1>1, <1>3, <2>2, <2>3, <2>4, <2>5, <2>6
    <2>7. CASE InWindow(accepted'[k], at) # InWindow(accepted[k], at)
      <3>1. PICK t : t.at = stamp[r] /\ accepted'[k] = accepted[k] \cup {t}
        BY <2>7
      <3>2. InWindow(accepted'[k], at)
              = InWindow(accepted[k], at) \cup InWindow({t}, at)
        BY <3>1 DEF InWindow
      <3>3. InWindow({t}, at) # {}
        BY <2>7, <3>2
      <3>4. stamp[r] <= at /\ InWindow({t}, at) = {t}
        BY <3>1, <3>3 DEF InWindow
      <3>5. Cardinality(InWindow(accepted'[k], at))
              <= Cardinality(InWindow(accepted[k], at)) + 1
        BY <2>4, <3>2, <3>4, AddOne
      <3>6. Cardinality(InWindow(accepted'[k], at)) \in Nat
        BY <2>4, <3>2, <3>4, AddOne, FS_CardinalityType
      <3>7. QED
        BY <1>1, <1>3, <2>2, <2>3, <2>4, <2>5, <3>4, <3>5, <3>6
    <2>8. QED BY <2>6, <2>7
  <1>4. QED BY <1>2, <1>3

LEMMA OverrunStep ==
  TypeOK /\ BurstMemory /\ ClockInv /\ OverrunInv /\ [Next]_vars => OverrunInv'
  <1> SUFFICES ASSUME TypeOK, BurstMemory, ClockInv, OverrunInv, [Next]_vars
               PROVE OverrunInv'
    OBVIOUS
  <1>1. UNCHANGED deployment
    BY StepKeepsDeployment
  <1>2. ASSUME UNCHANGED <<accepted, latest, stamp>>,
               \A q \in Requests : pc'[q] = "stamped" => pc[q] = "stamped"
        PROVE OverrunInv'
    <2>1. \A k \in Keys : \A at \in Nat : Pending(k, at)' \in SUBSET Pending(k, at)
      BY <1>2 DEF Pending, Handlers
    <2>2. QED BY <1>1, <1>2, <2>1, OverrunFrame
  <1>3. CASE Tick
    BY <1>2, <1>3 DEF Tick, history
  <1>4. ASSUME NEW r \in Requests, Handler(r) PROVE OverrunInv'
    <2> DEFINE t == [req |-> r, n |-> serial, at |-> stamp[r]]
    <2> USE DEF TypeOK, Goto, history
    <2>1. CASE Allow(r)
      <3>1. /\ ~BurstOff /\ pc[r] = "stamped"
            /\ Goto(r, "stamped", pc'[r]) /\ pc'[r] # "stamped"
            /\ stamp' = [stamp EXCEPT ![r] = 0]
            /\ latest' = [latest EXCEPT ![KeyOf[r]] = Later(@, stamp[r])]
        BY <2>1 DEF Allow
      <3>2. /\ t.at = stamp[r]
            /\ accepted'[KeyOf[r]] = accepted[KeyOf[r]] \cup {t}
            /\ \A q \in Keys : q # KeyOf[r] => accepted'[q] = accepted[q]
        BY <2>1, GuardAssumption DEF Allow
      <3> HIDE DEF t, TypeOK, Goto
      <3>3. QED BY <1>1, <3>1, <3>2, DecisionStep
    <2>2. CASE RefuseBurst(r)
      <3>1. /\ ~BurstOff /\ pc[r] = "stamped"
            /\ Goto(r, "stamped", pc'[r]) /\ pc'[r] # "stamped"
            /\ stamp' = [stamp EXCEPT ![r] = 0]
            /\ latest' = [latest EXCEPT ![KeyOf[r]] = Later(@, stamp[r])]
        BY <2>2 DEF RefuseBurst
      <3>2. accepted' = accepted
        BY <2>2 DEF RefuseBurst
      <3> HIDE DEF TypeOK, Goto
      <3>3. QED BY <1>1, <3>1, <3>2, DecisionStep
    <2>3. CASE StartLarge(r)
      <3>1. ASSUME NEW k \in Keys, NEW at \in Nat, at < latest[k]
            PROVE Pending(k, at)' \in SUBSET Pending(k, at)
        <4>1. now > at
          BY <3>1 DEF ClockInv
        <4>2. QED BY <2>3, <4>1 DEF StartLarge, Pending, Handlers
      <3>2. QED BY <1>1, <2>3, <3>1, OverrunFrame DEF StartLarge
    <2>4. CASE AllowUnlimited(r)
      BY <1>1, <2>4, LimitsFixed DEF AllowUnlimited, OverrunInv
    <2>5. CASE StartSmall(r) BY <1>2, <2>5 DEF StartSmall
    <2>6. CASE EnterUnlimited(r) \/ TryAcquire(r) \/ RefuseInFlight(r)
      BY <1>2, <2>6 DEF EnterUnlimited, TryAcquire, RefuseInFlight
    <2>7. CASE Finish(r) BY <1>2, <2>7 DEF Finish
    <2>8. CASE AnswerRefusal(r) BY <1>2, <2>8 DEF AnswerRefusal
    <2>9. QED
      BY <1>4, <2>1, <2>2, <2>3, <2>4, <2>5, <2>6, <2>7, <2>8 DEF Handler, Guard
  <1>5. CASE UNCHANGED vars
    BY <1>2, <1>5 DEF vars
  <1>6. QED BY <1>3, <1>4, <1>5 DEF Next

LEMMA OverrunInit == Init => OverrunInv
  BY DEF Init, OverrunInv

(* A closed window is bounded by OverrunInv, one still open by what the limiter
   remembers, and a key without handlers has no accepted request. *)
LEMMA OverrunFollows ==
  TypeOK /\ BurstMemory /\ ClockInv /\ OverrunInv => BurstOverrun
  <1> SUFFICES ASSUME TypeOK, BurstMemory, ClockInv, OverrunInv, ~BurstOff,
                      NEW k \in Keys, NEW at \in 0 .. MaxTime
               PROVE Cardinality(InWindow(accepted[k], at))
                       <= BurstMax + Cardinality(Handlers(k)) - 1
    BY DEF BurstOverrun
  <1>1. /\ at \in Nat /\ latest[k] \in Nat /\ BurstMax \in Nat /\ BurstMax # 0
        /\ Cardinality(Handlers(k)) \in Nat
        /\ Cardinality(Pending(k, at)) \in Nat
        /\ Cardinality(InWindow(accepted[k], at)) \in Nat
    BY GuardAssumption, LimitTypes, HandlersFinite, WindowFinite
    DEF TypeOK, BurstOff
  <1>2. CASE at < latest[k]
    <2>1. Cardinality(InWindow(accepted[k], at)) + Cardinality(Pending(k, at))
            <= BurstMax + Cardinality(Handlers(k)) - 1
      BY <1>1, <1>2 DEF OverrunInv
    <2>2. QED BY <1>1, <2>1
  <1>3. CASE at >= latest[k] /\ Handlers(k) = {}
    <2>1. InWindow(accepted[k], at) = {}
      BY <1>3 DEF ClockInv, InWindow
    <2>2. QED BY <1>1, <1>3, <2>1, FS_EmptySet
  <1>4. CASE at >= latest[k] /\ Handlers(k) # {}
    <2>1. Cardinality(Handlers(k)) # 0
      BY <1>1, <1>4, HandlersFinite, FS_EmptySet
    <2>2. Cardinality(InWindow(accepted[k], at)) <= BurstMax
      BY <1>1, <1>4, OpenWindow
    <2>3. QED BY <1>1, <2>1, <2>2
  <1>5. QED BY <1>1, <1>2, <1>3, <1>4

(* For any number of handlers the excess of a window that a younger stamp has
   closed is at most one request for each other handler of the key. *)
THEOREM OverrunBounded == Spec => []BurstOverrun
  <1>1. Spec => []BurstMemory
    BY BurstInit, BurstStep, TypeCorrect, PTL DEF Spec
  <1>2. Spec => []ClockInv
    BY ClockInit, ClockStep, TypeCorrect, PTL DEF Spec
  <1>3. Spec => []OverrunInv
    BY <1>1, <1>2, OverrunInit, OverrunStep, TypeCorrect, PTL DEF Spec
  <1>4. QED BY <1>1, <1>2, <1>3, TypeCorrect, OverrunFollows, PTL
===============================================================================
