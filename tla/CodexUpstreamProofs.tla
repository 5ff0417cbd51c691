-------------------------- MODULE CodexUpstreamProofs --------------------------
(***************************************************************************)
(* Proofs about CodexUpstream: type correctness, the work upstream for      *)
(* clients that wait, the features that never fall back, and the cause of a *)
(* call recorded as canceled.                                               *)
(***************************************************************************)
EXTENDS CodexUpstream, FiniteSetTheorems, TLAPS

SlotsWithinLimit == Cardinality(SlotHolders) <= InFlightMax

(* Work exists only for a request that was dispatched, and a handler that is
   over has ended the context of its request. *)
Attended ==
  \A r \in Requests :
    /\ handler[r] = "new" => worker[r] = "none"
    /\ handler[r] = "over" => ctx[r] = "canceled"

CancelHasCause == \A r \in Requests : result[r] = "canceled" => ctx[r] = "canceled"

IInv ==
  /\ TypeOK
  /\ SlotsWithinLimit
  /\ Attended
  /\ CancelHasCause
  /\ NoBlindFallback

LEMMA InitIInv == Init => IInv
  <1> SUFFICES ASSUME Init PROVE IInv
    OBVIOUS
  <1>1. TypeOK
    BY UpstreamAssumption DEF Init, TypeOK, Strategies, AtWork, Results
  <1>2. SlotsWithinLimit
    <2>1. SlotHolders = {}
      BY UpstreamAssumption DEF Init, SlotHolders
    <2>2. QED BY <2>1, FS_EmptySet, UpstreamAssumption DEF SlotsWithinLimit
  <1>3. Attended /\ CancelHasCause
    BY DEF Init, Attended, CancelHasCause
  <1>4. NoBlindFallback
    BY UpstreamAssumption DEF Init, NoBlindFallback
  <1>5. QED BY <1>1, <1>2, <1>3, <1>4 DEF IInv

(* A step after which fewer handlers hold a slot keeps the limit. *)
LEMMA FewerHolders ==
  ASSUME TypeOK, SlotsWithinLimit, SlotHolders' \subseteq SlotHolders
  PROVE  SlotsWithinLimit'
  <1>1. IsFiniteSet(SlotHolders)
    BY UpstreamAssumption, FS_Subset DEF SlotHolders
  <1>2. Cardinality(SlotHolders') <= Cardinality(SlotHolders)
    BY <1>1, FS_Subset
  <1>3. IsFiniteSet(SlotHolders')
    BY <1>1, FS_Subset
  <1>4. Cardinality(SlotHolders) \in Nat /\ Cardinality(SlotHolders') \in Nat
    BY <1>1, <1>3, FS_CardinalityType
  <1>5. QED BY <1>2, <1>4, UpstreamAssumption DEF SlotsWithinLimit

LEMMA DispatchStep ==
  ASSUME IInv, NEW r \in Requests, Dispatch(r)
  PROVE  IInv'
  <1> USE DEF IInv, Dispatch, Work
  <1>1. TypeOK'
    BY DEF TypeOK, AtWork, Strategies
  <1>2. SlotsWithinLimit'
    <2>1. CASE r \in Large
      <3>1. IsFiniteSet(SlotHolders) /\ Cardinality(SlotHolders) \in Nat
        BY UpstreamAssumption, FS_Subset, FS_CardinalityType DEF SlotHolders
      <3>2. SlotHolders' = SlotHolders \cup {r} /\ r \notin SlotHolders
        BY <2>1, UpstreamAssumption DEF SlotHolders, TypeOK
      <3>3. Cardinality(SlotHolders') = Cardinality(SlotHolders) + 1
        BY <3>1, <3>2, FS_AddElement
      <3>4. Cardinality(SlotHolders) < InFlightMax
        BY <2>1 DEF SlotFree
      <3>5. QED BY <3>1, <3>3, <3>4, UpstreamAssumption DEF SlotsWithinLimit
    <2>2. CASE r \notin Large
      <3>1. SlotHolders' \subseteq SlotHolders
        BY <2>2, UpstreamAssumption DEF SlotHolders, TypeOK
      <3>2. QED BY <3>1, FewerHolders
    <2>3. QED BY <2>1, <2>2
  <1>3. Attended'
    BY DEF Attended, TypeOK
  <1>4. CancelHasCause'
    BY DEF CancelHasCause
  <1>5. NoBlindFallback'
    BY UpstreamAssumption DEF NoBlindFallback, Attended, TypeOK
  <1>6. QED BY <1>1, <1>2, <1>3, <1>4, <1>5

LEMMA HandlerStep ==
  ASSUME IInv, NEW r \in Requests, Handler(r)
  PROVE  IInv'
  <1> USE DEF IInv, Handler, TakeResult, LeaveWork, Record
  <1>1. TypeOK'
    BY DEF TypeOK, Status, Results
  <1>2. SlotHolders' \subseteq SlotHolders
    BY UpstreamAssumption DEF SlotHolders, TypeOK
  <1>3. SlotsWithinLimit'
    BY <1>2, FewerHolders
  <1>4. Attended'
    BY DEF Attended, TypeOK
  <1>5. CancelHasCause'
    BY DEF CancelHasCause, TypeOK
  <1>6. NoBlindFallback'
    BY DEF NoBlindFallback
  <1>7. QED BY <1>1, <1>3, <1>4, <1>5, <1>6

LEMMA WorkStep ==
  ASSUME IInv, NEW r \in Requests, Upstream(r) \/ PromptFails(r) \/ LockCLI(r)
  PROVE  IInv'
  <1> USE DEF IInv, Upstream, BackendAnswers, BackendFails, PromptFails, LockCLI,
              CLIEnds, UnlockCLI, Work, Returns
  <1>1. TypeOK'
    BY DEF TypeOK, AtWork, Results, Reported, Strategies
  <1>2. SlotHolders' \subseteq SlotHolders
    BY DEF SlotHolders
  <1>3. SlotsWithinLimit'
    BY <1>2, FewerHolders
  <1>4. Attended'
    BY DEF Attended, TypeOK
  <1>5. CancelHasCause'
    BY DEF CancelHasCause, CauseOf, Reported, TypeOK
  <1>6. NoBlindFallback'
    BY UpstreamAssumption DEF NoBlindFallback, FallsBack, TypeOK
  <1>7. QED BY <1>1, <1>3, <1>4, <1>5, <1>6

LEMMA EnvironmentStep ==
  ASSUME IInv, (\E r \in Requests : ClientLeaves(r)) \/ (\E s \in Strategies : SetStrategy(s))
  PROVE  IInv'
  <1> USE DEF IInv, ClientLeaves, SetStrategy
  <1>1. TypeOK'
    BY DEF TypeOK
  <1>2. SlotHolders' \subseteq SlotHolders
    BY DEF SlotHolders
  <1>3. SlotsWithinLimit'
    BY <1>2, FewerHolders
  <1>4. Attended' /\ CancelHasCause'
    BY DEF Attended, CancelHasCause, TypeOK
  <1>5. NoBlindFallback'
    BY DEF NoBlindFallback
  <1>6. QED BY <1>1, <1>3, <1>4, <1>5

LEMMA NextIInv == IInv /\ [Next]_vars => IInv'
  <1> SUFFICES ASSUME IInv, [Next]_vars PROVE IInv'
    OBVIOUS
  <1>1. CASE UNCHANGED vars
    <2>1. SlotHolders' \subseteq SlotHolders
      BY <1>1 DEF vars, SlotHolders
    <2>2. SlotsWithinLimit'
      BY <2>1, FewerHolders DEF IInv
    <2>3. QED BY <1>1, <2>2 DEF vars, IInv, TypeOK, Attended, CancelHasCause,
                               NoBlindFallback
  <1>2. QED BY <1>1, DispatchStep, HandlerStep, WorkStep, EnvironmentStep DEF Next

THEOREM Inductive == Spec => []IInv
  BY InitIInv, NextIInv, PTL DEF Spec

(* In every behaviour every variable has its type. *)
THEOREM TypeCorrect == Spec => []TypeOK
  <1>1. IInv => TypeOK
    BY DEF IInv
  <1>2. QED BY <1>1, Inductive, PTL

(* For every number of requests and every limit: the large requests upstream
   for clients that still wait are within the limit. *)
THEOREM LiveWorkIsLimited == Spec => []LiveWithinLimit
  <1>1. ASSUME IInv PROVE LiveWithinLimit
    <2> DEFINE live == {r \in Upstreamed : ctx[r] = "live"}
    <2>1. live \subseteq SlotHolders
      BY <1>1, UpstreamAssumption
      DEF IInv, Attended, TypeOK, Upstreamed, SlotHolders, AtWork
    <2>2. IsFiniteSet(SlotHolders)
      BY UpstreamAssumption, FS_Subset DEF SlotHolders
    <2>3. Cardinality(live) <= Cardinality(SlotHolders) /\ IsFiniteSet(live)
      BY <2>1, <2>2, FS_Subset
    <2>4. Cardinality(live) \in Nat /\ Cardinality(SlotHolders) \in Nat
      BY <2>2, <2>3, FS_CardinalityType
    <2>5. Cardinality(live) <= InFlightMax
      BY <1>1, <2>3, <2>4, UpstreamAssumption DEF IInv, SlotsWithinLimit
    <2>6. QED BY <2>5 DEF LiveWithinLimit
  <1>2. QED BY <1>1, Inductive, PTL

(* Whatever administrators do to the strategy while requests run, a request the
   CLI cannot serve is never handed to it as a fallback. *)
THEOREM FallbackIsNeverBlind == Spec => []NoBlindFallback
  <1>1. IInv => NoBlindFallback
    BY DEF IInv
  <1>2. QED BY <1>1, Inductive, PTL

(* A call recorded as client_canceled was cancelled. *)
THEOREM ClientsAreBlamedRightly == Spec => ClientBlamedWhenGone
  <1>1. ASSUME IInv, [Next]_vars, NEW r \in Requests, log[r] # "499", log'[r] = "499"
        PROVE  ctx[r] = "canceled"
    <2>1. CASE UNCHANGED vars
      BY <1>1, <2>1 DEF vars
    <2>2. ASSUME NEW q \in Requests, Handler(q) PROVE ctx[r] = "canceled"
      <3>1. q = r
        BY <1>1, <2>2 DEF Handler, TakeResult, LeaveWork, Record, IInv, TypeOK
      <3>2. CASE LeaveWork(q)
        BY <3>1, <3>2 DEF LeaveWork
      <3>3. CASE TakeResult(q)
        <4>1. Status(r) = "499"
          BY <1>1, <3>1, <3>3 DEF TakeResult, Record, IInv, TypeOK
        <4>2. result[r] = "canceled"
          BY <4>1 DEF Status
        <4>3. QED BY <1>1, <4>2 DEF IInv, CancelHasCause
      <3>4. QED BY <2>2, <3>2, <3>3 DEF Handler
    <2>3. ASSUME NEW q \in Requests,
                 Dispatch(q) \/ Upstream(q) \/ PromptFails(q) \/ LockCLI(q) \/ ClientLeaves(q)
          PROVE  log' = log
      BY <2>3 DEF Dispatch, Upstream, BackendAnswers, BackendFails, CLIEnds,
                  PromptFails, LockCLI, ClientLeaves
    <2>4. ASSUME NEW s \in Strategies, SetStrategy(s) PROVE log' = log
      BY <2>4 DEF SetStrategy
    <2>5. QED BY <1>1, <2>1, <2>2, <2>3, <2>4 DEF Next
  <1>2. IInv /\ [Next]_vars =>
          (\A r \in Requests : log[r] # "499" /\ log'[r] = "499" => ctx[r] = "canceled")
    BY <1>1
  <1>3. QED BY <1>2, Inductive, PTL DEF Spec, ClientBlamedWhenGone
=============================================================================
