------------------------------- MODULE TaskGroup -------------------------------
(***************************************************************************)
(* pkg/taskgroup: a Group accepts tasks with Go until the first Stop, keeps *)
(* the cancel functions of those that run in a map and counts them in a     *)
(* WaitGroup.  finish takes a task out of the map and, later and without    *)
(* the lock, off the WaitGroup; Stop waits for the WaitGroup in a goroutine *)
(* of its own, against a timer, then cancels what the map still holds.      *)
(***************************************************************************)
EXTENDS Integers, FiniteSets

CONSTANTS
  Tasks,     \* the calls of Go
  Stoppers,  \* the calls of Stop
  Patient    \* those with wait and a positive timeout

ASSUME GroupAssumption ==
  /\ IsFiniteSet(Tasks)
  /\ Patient \subseteq Stoppers

VARIABLES
  task,     \* where the goroutine of each task is
  stoped,   \* Group.stoped
  running,  \* Group.running, by task; its values are the cancel functions
  wait,     \* the counter of Group.wait
  canceled, \* the tasks whose context is cancelled
  stopper,  \* where each call of Stop is
  waiter,   \* the goroutine of Stop that closes cancelChan
  drained   \* history: the stoppers that took the case of cancelChan

vars == <<task, stoped, running, wait, canceled, stopper, waiter, drained>>

(* accepted: go func() has not run yet.  returned: run is over, or its panic
   recovered.  unlisted: finish is between delete and Done. *)
Working == {"accepted", "running", "returned"}
Counted == Working \cup {"unlisted"}

TypeOK ==
  /\ task \in [Tasks -> Counted \cup {"new", "refused", "done"}]
  /\ stoped \in BOOLEAN
  /\ running \in SUBSET Tasks
  /\ wait \in Nat
  /\ canceled \in SUBSET Tasks
  /\ stopper \in [Stoppers -> {"idle", "waiting", "canceling", "returned"}]
  /\ waiter \in [Stoppers -> {"none", "waiting", "closed"}]
  /\ drained \in SUBSET Stoppers

Init ==
  /\ task = [t \in Tasks |-> "new"]
  /\ stoped = FALSE
  /\ running = {}
  /\ wait = 0
  /\ canceled = {}
  /\ stopper = [s \in Stoppers |-> "idle"]
  /\ waiter = [s \in Stoppers |-> "none"]
  /\ drained = {}

Goto(t, from, to) ==
  /\ task[t] = from
  /\ task' = [task EXCEPT ![t] = to]

(***************************************************************************)
(* Go and the goroutine it starts.                                         *)
(***************************************************************************)

(* A mistake: stoped is not looked at. *)
GoAlways(t) ==
  /\ Goto(t, "new", "accepted")
  /\ wait' = wait + 1
  /\ running' = running \cup {t}
  /\ UNCHANGED <<stoped, canceled, stopper, waiter, drained>>

(* Checking stoped, Add and the map are one critical section. *)
Go(t) ==
  /\ ~stoped
  /\ Goto(t, "new", "accepted")
  /\ wait' = wait + 1
  /\ running' = running \cup {t}
  /\ UNCHANGED <<stoped, canceled, stopper, waiter, drained>>

(* Go after Stop panics with ErrStopped. *)
GoRefused(t) ==
  /\ stoped
  /\ Goto(t, "new", "refused")
  /\ UNCHANGED <<stoped, running, wait, canceled, stopper, waiter, drained>>

(* The task runs even when it has been cancelled before. *)
Run(t) ==
  /\ Goto(t, "accepted", "running")
  /\ UNCHANGED <<stoped, running, wait, canceled, stopper, waiter, drained>>

(* run returns, or panics and is recovered. *)
RunEnds(t) ==
  /\ Goto(t, "running", "returned")
  /\ UNCHANGED <<stoped, running, wait, canceled, stopper, waiter, drained>>

(* A mistake: finish gives the WaitGroup back twice. *)
FinishTwice(t) ==
  /\ Goto(t, "returned", "unlisted")
  /\ running' = running \ {t}
  /\ wait' = wait - 1
  /\ UNCHANGED <<stoped, canceled, stopper, waiter, drained>>

(* finish under the lock ... *)
FinishUnlist(t) ==
  /\ Goto(t, "returned", "unlisted")
  /\ running' = running \ {t}
  /\ UNCHANGED <<stoped, wait, canceled, stopper, waiter, drained>>

(* ... and after it, when the end of the task has been logged. *)
FinishDone(t) ==
  /\ Goto(t, "unlisted", "done")
  /\ wait' = wait - 1
  /\ UNCHANGED <<stoped, running, canceled, stopper, waiter, drained>>

(***************************************************************************)
(* Stop.                                                                   *)
(***************************************************************************)

StopBegins(s) ==
  /\ stopper[s] = "idle"
  /\ stoped' = TRUE
  /\ IF s \in Patient
     THEN /\ stopper' = [stopper EXCEPT ![s] = "waiting"]
          /\ waiter' = [waiter EXCEPT ![s] = "waiting"]
     ELSE /\ stopper' = [stopper EXCEPT ![s] = "canceling"]
          /\ UNCHANGED waiter
  /\ UNCHANGED <<task, running, wait, canceled, drained>>

WaitReturns(s) ==
  /\ waiter[s] = "waiting"
  /\ wait = 0
  /\ waiter' = [waiter EXCEPT ![s] = "closed"]
  /\ UNCHANGED <<task, stoped, running, wait, canceled, stopper, drained>>

StopDrained(s) ==
  /\ stopper[s] = "waiting"
  /\ waiter[s] = "closed"
  /\ stopper' = [stopper EXCEPT ![s] = "canceling"]
  /\ drained' = drained \cup {s}
  /\ UNCHANGED <<task, stoped, running, wait, canceled, waiter>>

(* The timer may win even when cancelChan is closed too. *)
StopTimesOut(s) ==
  /\ stopper[s] = "waiting"
  /\ stopper' = [stopper EXCEPT ![s] = "canceling"]
  /\ UNCHANGED <<task, stoped, running, wait, canceled, waiter, drained>>

(* A mistake: a Stop returns without cancelling. *)
ReturnQuietly(s) ==
  /\ stopper[s] = "canceling"
  /\ stopper' = [stopper EXCEPT ![s] = "returned"]
  /\ UNCHANGED <<task, stoped, running, wait, canceled, waiter, drained>>

(* cancelRunning, after which Stop returns. *)
CancelRunning(s) ==
  /\ stopper[s] = "canceling"
  /\ stopper' = [stopper EXCEPT ![s] = "returned"]
  /\ canceled' = canceled \cup running
  /\ UNCHANGED <<task, stoped, running, wait, waiter, drained>>

Goroutine(t) == Run(t) \/ FinishUnlist(t) \/ FinishDone(t)

Stop(s) == WaitReturns(s) \/ StopDrained(s) \/ StopTimesOut(s) \/ CancelRunning(s)

Next ==
  \/ \E t \in Tasks : Go(t) \/ GoRefused(t) \/ RunEnds(t) \/ Goroutine(t)
  \/ \E s \in Stoppers : StopBegins(s) \/ Stop(s)

Spec == Init /\ [][Next]_vars

(* Goroutines run on and the timer fires.  A task owes nothing before its
   context is cancelled; after that it ends, as the README asks of it. *)
Fairness ==
  /\ \A t \in Tasks :
       /\ WF_vars(Goroutine(t))
       /\ WF_vars(t \in canceled /\ RunEnds(t))
  /\ \A s \in Stoppers :
       /\ WF_vars(WaitReturns(s))
       /\ WF_vars(StopTimesOut(s))
       /\ WF_vars(CancelRunning(s))

FairSpec == Spec /\ Fairness

(***************************************************************************)
(* Properties.                                                             *)
(***************************************************************************)

(* A Stop that did not time out leaves nobody behind: every task ever accepted
   has run to its end, the ones accepted while other Stops began included. *)
DrainedMeansDone ==
  \A s \in drained : \A t \in Tasks : task[t] \notin Counted

(* When a Stop has returned, every task that still works has been told to end,
   whether it was accepted before, its goroutine has started or not. *)
NobodyForgotten ==
  (\E s \in Stoppers : stopper[s] = "returned") =>
    \A t \in Tasks : task[t] \in Working => t \in canceled

(* Every Stop returns, however long its tasks take, and after it every task ends
   and every goroutine of the group, the one Stop started to wait included. *)
NothingLeaks ==
  /\ \A s \in Stoppers : stopper[s] # "idle" ~> stopper[s] = "returned"
  /\ stoped ~> /\ \A t \in Tasks : task[t] \notin Counted
               /\ \A s \in Stoppers : waiter[s] # "waiting"

(* The group implements the life cycle its README promises: a task is alive
   from Go until finish takes it out of the map. *)
phaseBar ==
  [t \in Tasks |-> IF task[t] \in Working THEN "alive"
                   ELSE IF task[t] \in {"unlisted", "done"} THEN "ended"
                   ELSE task[t]]

verdictBar ==
  [s \in Stoppers |-> IF stopper[s] # "returned" THEN "none"
                      ELSE IF s \in drained THEN "drained" ELSE "cutShort"]

Lifecycle == INSTANCE TaskLifecycle
  WITH phase <- phaseBar, told <- canceled, closed <- stoped, verdict <- verdictBar

LifecycleSpec == Lifecycle!Spec
=============================================================================
