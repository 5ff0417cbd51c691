---------------------------- MODULE TaskGroupProofs ----------------------------
(***************************************************************************)
(* Proofs about TaskGroup: type correctness, what a Stop that drained the   *)
(* group and one that cancelled it may claim, and that the group implements *)
(* TaskLifecycle.                                                           *)
(***************************************************************************)
EXTENDS TaskGroup, FiniteSetTheorems, TLAPS

CountedTasks == {t \in Tasks : task[t] \in Counted}

(* The map and the WaitGroup agree with the goroutines; the waiter of a Stop
   runs only after stoped, so what it has seen stays true. *)
MapIsExact == running = {t \in Tasks : task[t] \in Working}

CountIsExact == wait = Cardinality(CountedTasks)

StopperOrder ==
  \A s \in Stoppers :
    /\ stopper[s] # "idle" \/ waiter[s] # "none" \/ s \in drained => stoped
    /\ waiter[s] = "closed" => CountedTasks = {}
    /\ s \in drained => waiter[s] = "closed" /\ stopper[s] \in {"canceling", "returned"}

IInv ==
  /\ TypeOK
  /\ MapIsExact
  /\ CountIsExact
  /\ StopperOrder
  /\ NobodyForgotten

LEMMA CountedFinite ==
  IsFiniteSet(CountedTasks) /\ Cardinality(CountedTasks) \in Nat
  BY GroupAssumption, FS_Subset, FS_CardinalityType DEF CountedTasks

LEMMA InitIInv == Init => IInv
  <1> SUFFICES ASSUME Init PROVE IInv
    OBVIOUS
  <1>1. CountedTasks = {}
    BY DEF Init, CountedTasks, Counted, Working
  <1>2. CountIsExact
    BY <1>1, FS_EmptySet DEF Init, CountIsExact
  <1>3. TypeOK /\ MapIsExact
    BY DEF Init, TypeOK, MapIsExact, Counted, Working
  <1>4. StopperOrder
    BY DEF Init, StopperOrder
  <1>5. NobodyForgotten
    BY DEF Init, NobodyForgotten
  <1>6. QED BY <1>2, <1>3, <1>4, <1>5 DEF IInv

(* A step that moves no task in or out of the counted ones, and neither the
   map, the counter nor the waiters, keeps what relates them. *)
LEMMA SameCount ==
  ASSUME CountIsExact, CountedTasks' = CountedTasks, wait' = wait
  PROVE  CountIsExact'
  BY DEF CountIsExact

LEMMA GoStep ==
  ASSUME IInv, NEW t \in Tasks, Go(t)
  PROVE  IInv'
  <1> USE DEF IInv
  <1>1. TypeOK'
    BY DEF TypeOK, Go, Goto, Counted, Working
  <1>2. MapIsExact'
    BY DEF TypeOK, MapIsExact, Go, Goto, Counted, Working
  <1>3. CountIsExact'
    <2>1. t \notin CountedTasks /\ CountedTasks' = CountedTasks \cup {t}
      BY DEF TypeOK, Go, Goto, CountedTasks, Counted, Working
    <2>2. Cardinality(CountedTasks') = Cardinality(CountedTasks) + 1
      BY <2>1, CountedFinite, FS_AddElement
    <2>3. QED BY <2>2 DEF CountIsExact, Go
  <1>4. StopperOrder'
    BY DEF StopperOrder, Go, TypeOK
  <1>5. NobodyForgotten'
    BY DEF NobodyForgotten, StopperOrder, Go, TypeOK
  <1>6. QED BY <1>1, <1>2, <1>3, <1>4, <1>5

LEMMA GoRefusedStep ==
  ASSUME IInv, NEW t \in Tasks, GoRefused(t)
  PROVE  IInv'
  <1> USE DEF IInv, GoRefused, Goto, Counted, Working
  <1>1. CountedTasks' = CountedTasks
    BY DEF TypeOK, CountedTasks
  <1>2. CountIsExact'
    BY <1>1, SameCount
  <1>3. TypeOK' /\ MapIsExact'
    BY DEF TypeOK, MapIsExact
  <1>4. StopperOrder'
    BY <1>1 DEF StopperOrder
  <1>5. NobodyForgotten'
    BY DEF NobodyForgotten, TypeOK
  <1>6. QED BY <1>2, <1>3, <1>4, <1>5

LEMMA RunStep ==
  ASSUME IInv, NEW t \in Tasks, Run(t) \/ RunEnds(t)
  PROVE  IInv'
  <1> USE DEF IInv, Run, RunEnds, Goto, Counted, Working
  <1>1. CountedTasks' = CountedTasks
    BY DEF TypeOK, CountedTasks
  <1>2. CountIsExact'
    BY <1>1, SameCount
  <1>3. TypeOK' /\ MapIsExact'
    BY DEF TypeOK, MapIsExact
  <1>4. StopperOrder'
    BY <1>1 DEF StopperOrder
  <1>5. NobodyForgotten'
    BY DEF NobodyForgotten, TypeOK
  <1>6. QED BY <1>2, <1>3, <1>4, <1>5

LEMMA FinishUnlistStep ==
  ASSUME IInv, NEW t \in Tasks, FinishUnlist(t)
  PROVE  IInv'
  <1> USE DEF IInv, FinishUnlist, Goto, Counted, Working
  <1>1. CountedTasks' = CountedTasks
    BY DEF TypeOK, CountedTasks
  <1>2. CountIsExact'
    BY <1>1, SameCount
  <1>3. TypeOK' /\ MapIsExact'
    BY DEF TypeOK, MapIsExact
  <1>4. StopperOrder'
    BY <1>1 DEF StopperOrder
  <1>5. NobodyForgotten'
    BY DEF NobodyForgotten, TypeOK
  <1>6. QED BY <1>2, <1>3, <1>4, <1>5

LEMMA FinishDoneStep ==
  ASSUME IInv, NEW t \in Tasks, FinishDone(t)
  PROVE  IInv'
  <1> USE DEF IInv, FinishDone, Goto, Counted, Working
  <1>1. t \in CountedTasks /\ CountedTasks' = CountedTasks \ {t}
    BY DEF TypeOK, CountedTasks
  <1>2. Cardinality(CountedTasks') = Cardinality(CountedTasks) - 1
    BY <1>1, CountedFinite, FS_RemoveElement
  <1>3. Cardinality(CountedTasks') \in Nat
    BY <1>1, CountedFinite, FS_RemoveElement, FS_CardinalityType
  <1>4. CountIsExact'
    BY <1>2 DEF CountIsExact
  <1>5. wait' \in Nat
    BY <1>3, <1>4 DEF CountIsExact
  <1>6. TypeOK' /\ MapIsExact'
    BY <1>5 DEF TypeOK, MapIsExact
  <1>7. StopperOrder'
    BY <1>1 DEF StopperOrder
  <1>8. NobodyForgotten'
    BY DEF NobodyForgotten, TypeOK
  <1>9. QED BY <1>4, <1>6, <1>7, <1>8

LEMMA StopStep ==
  ASSUME IInv, NEW s \in Stoppers, StopBegins(s) \/ Stop(s)
  PROVE  IInv'
  <1> USE DEF IInv
  <1> USE DEF StopBegins, Stop, WaitReturns, StopDrained, StopTimesOut, CancelRunning
  <1>1. CountedTasks' = CountedTasks
    BY DEF CountedTasks
  <1>2. CountIsExact'
    BY <1>1, SameCount
  <1>3. TypeOK'
    BY GroupAssumption DEF TypeOK
  <1>4. MapIsExact'
    BY DEF MapIsExact
  <1>5. ASSUME wait = 0 PROVE CountedTasks = {}
    BY <1>5, CountedFinite, FS_EmptySet DEF CountIsExact
  <1>6. StopperOrder'
    BY <1>1, <1>5 DEF StopperOrder, TypeOK
  <1>7. NobodyForgotten'
    BY DEF NobodyForgotten, MapIsExact, TypeOK
  <1>8. QED BY <1>2, <1>3, <1>4, <1>6, <1>7

LEMMA NextIInv == IInv /\ [Next]_vars => IInv'
  <1> SUFFICES ASSUME IInv, [Next]_vars PROVE IInv'
    OBVIOUS
  <1>1. ASSUME NEW t \in Tasks, Go(t) \/ GoRefused(t) \/ RunEnds(t) \/ Goroutine(t)
        PROVE  IInv'
    BY <1>1, GoStep, GoRefusedStep, RunStep, FinishUnlistStep, FinishDoneStep
    DEF Goroutine
  <1>2. ASSUME NEW s \in Stoppers, StopBegins(s) \/ Stop(s) PROVE IInv'
    BY <1>2, StopStep
  <1>3. CASE UNCHANGED vars
    BY <1>3 DEF vars, IInv, TypeOK, MapIsExact, CountIsExact, StopperOrder,
                NobodyForgotten, CountedTasks
  <1>4. QED BY <1>1, <1>2, <1>3 DEF Next

THEOREM Inductive == Spec => []IInv
  BY InitIInv, NextIInv, PTL DEF Spec

(* The counter of the WaitGroup never goes below zero, which would panic, and
   every other variable keeps its type. *)
THEOREM TypeCorrect == Spec => []TypeOK
  <1>1. IInv => TypeOK
    BY DEF IInv
  <1>2. QED BY <1>1, Inductive, PTL

(* A Stop that took the case of cancelChan leaves no task of the group behind,
   for every number of tasks and of concurrent Stops. *)
THEOREM DrainedIsDone == Spec => []DrainedMeansDone
  <1>1. IInv => DrainedMeansDone
    BY DEF IInv, TypeOK, StopperOrder, CountedTasks, DrainedMeansDone
  <1>2. QED BY <1>1, Inductive, PTL

(* Once a Stop has returned, no task works without having been cancelled. *)
THEOREM EverybodyIsTold == Spec => []NobodyForgotten
  <1>1. IInv => NobodyForgotten
    BY DEF IInv
  <1>2. QED BY <1>1, Inductive, PTL

-------------------------------------------------------------------------------
(* Refinement. *)

LEMMA LifecycleInit == Init => Lifecycle!Init
  BY DEF Init, Lifecycle!Init, phaseBar, verdictBar, Working

(* Every step of a task is a step of the abstract task, or none. *)
LEMMA LifecycleTask ==
  ASSUME IInv, NEW t \in Tasks, Go(t) \/ GoRefused(t) \/ RunEnds(t) \/ Goroutine(t)
  PROVE  [Lifecycle!Next]_(Lifecycle!vars)
  <1> USE DEF IInv, TypeOK, Goto, phaseBar, verdictBar, Working, Counted
  <1>1. CASE Go(t)
    <2>1. Lifecycle!Accept(t)
      BY <1>1 DEF Go, Lifecycle!Accept
    <2>2. QED BY <2>1 DEF Lifecycle!Next
  <1>2. CASE GoRefused(t)
    <2>1. Lifecycle!Refuse(t)
      BY <1>2 DEF GoRefused, Lifecycle!Refuse
    <2>2. QED BY <2>1 DEF Lifecycle!Next
  <1>3. CASE FinishUnlist(t)
    <2>1. Lifecycle!End(t)
      BY <1>3 DEF FinishUnlist, Lifecycle!End
    <2>2. QED BY <2>1 DEF Lifecycle!Next
  <1>4. CASE RunEnds(t) \/ Run(t) \/ FinishDone(t)
    BY <1>4 DEF RunEnds, Run, FinishDone, Lifecycle!vars
  <1>5. QED BY <1>1, <1>2, <1>3, <1>4 DEF Goroutine

(* A Stop closes the group, works in the dark, and returns with its verdict. *)
LEMMA LifecycleStop ==
  ASSUME IInv, NEW s \in Stoppers, StopBegins(s) \/ Stop(s)
  PROVE  [Lifecycle!Next]_(Lifecycle!vars)
  <1> USE DEF IInv
  <1>1. CASE StopBegins(s)
    <2>1. Lifecycle!Close
      BY <1>1 DEF StopBegins, Lifecycle!Close, phaseBar, verdictBar, TypeOK
    <2>2. QED BY <2>1 DEF Lifecycle!Next
  <1>2. CASE WaitReturns(s)
    BY <1>2 DEF WaitReturns, Lifecycle!vars, phaseBar, verdictBar
  <1>3. CASE StopDrained(s)
    <2>1. verdictBar' = verdictBar
      BY <1>3 DEF StopDrained, verdictBar, TypeOK
    <2>2. QED BY <1>3, <2>1 DEF StopDrained, Lifecycle!vars, phaseBar
  <1>4. CASE StopTimesOut(s)
    <2>1. verdictBar' = verdictBar
      BY <1>4 DEF StopTimesOut, verdictBar, TypeOK
    <2>2. QED BY <1>4, <2>1 DEF StopTimesOut, Lifecycle!vars, phaseBar
  <1>5. CASE CancelRunning(s)
    <2>1. Lifecycle!Alive = running
      BY DEF Lifecycle!Alive, phaseBar, MapIsExact, TypeOK, Counted, Working
    <2>2. stoped /\ verdictBar[s] = "none"
      BY <1>5 DEF CancelRunning, verdictBar, StopperOrder
    <2>3. verdictBar' =
            [verdictBar EXCEPT ![s] = IF s \in drained THEN "drained" ELSE "cutShort"]
      BY <1>5 DEF CancelRunning, verdictBar, TypeOK
    <2>4. phaseBar' = phaseBar /\ stoped' = stoped
      BY <1>5 DEF CancelRunning, phaseBar
    <2>5. CASE s \in drained
      <3>1. running = {}
        BY <2>5 DEF StopperOrder, MapIsExact, CountedTasks, Counted
      <3>2. canceled' = canceled
        BY <1>5, <3>1 DEF CancelRunning
      <3>3. Lifecycle!Drained(s)
        BY <2>1, <2>2, <2>3, <2>4, <2>5, <3>1, <3>2 DEF Lifecycle!Drained
      <3>4. QED BY <3>3 DEF Lifecycle!Next
    <2>6. CASE s \notin drained
      <3>1. Lifecycle!CutShort(s)
        BY <1>5, <2>1, <2>2, <2>3, <2>4, <2>6 DEF CancelRunning, Lifecycle!CutShort
      <3>2. QED BY <3>1 DEF Lifecycle!Next
    <2>7. QED BY <2>5, <2>6
  <1>6. QED BY <1>1, <1>2, <1>3, <1>4, <1>5 DEF Stop

LEMMA LifecycleNext == IInv /\ [Next]_vars => [Lifecycle!Next]_(Lifecycle!vars)
  <1> SUFFICES ASSUME IInv, [Next]_vars PROVE [Lifecycle!Next]_(Lifecycle!vars)
    OBVIOUS
  <1>1. CASE UNCHANGED vars
    BY <1>1 DEF vars, Lifecycle!vars, phaseBar, verdictBar
  <1>2. QED BY <1>1, LifecycleTask, LifecycleStop DEF Next

(* The group implements the life cycle its README promises: nothing accepted
   after a Stop has begun, nobody drained who still works, everybody told. *)
THEOREM GroupImplementsLifecycle == Spec => LifecycleSpec
  BY LifecycleInit, LifecycleNext, Inductive, PTL
  DEF Spec, LifecycleSpec, Lifecycle!Spec
=============================================================================
