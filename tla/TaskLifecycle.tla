----------------------------- MODULE TaskLifecycle -----------------------------
(***************************************************************************)
(* What a group of background tasks promises its users (the README of       *)
(* pkg/taskgroup): a task is either refused or ends on its own; nothing is  *)
(* accepted once a Stop has begun; a Stop that returns has told every task  *)
(* that is still alive to end, and one that says it drained the group left  *)
(* nobody behind.                                                           *)
(***************************************************************************)
CONSTANTS
  Tasks,    \* the calls of Go
  Stoppers  \* the calls of Stop

VARIABLES
  phase,   \* what has become of each task
  told,    \* the tasks whose context is cancelled
  closed,  \* a Stop has begun
  verdict  \* how each Stop has ended

vars == <<phase, told, closed, verdict>>

Alive == {t \in Tasks : phase[t] = "alive"}

Init ==
  /\ phase = [t \in Tasks |-> "new"]
  /\ told = {}
  /\ closed = FALSE
  /\ verdict = [s \in Stoppers |-> "none"]

Accept(t) ==
  /\ ~closed
  /\ phase[t] = "new"
  /\ phase' = [phase EXCEPT ![t] = "alive"]
  /\ UNCHANGED <<told, closed, verdict>>

Refuse(t) ==
  /\ closed
  /\ phase[t] = "new"
  /\ phase' = [phase EXCEPT ![t] = "refused"]
  /\ UNCHANGED <<told, closed, verdict>>

End(t) ==
  /\ phase[t] = "alive"
  /\ phase' = [phase EXCEPT ![t] = "ended"]
  /\ UNCHANGED <<told, closed, verdict>>

Close ==
  /\ closed' = TRUE
  /\ UNCHANGED <<phase, told, verdict>>

Drained(s) ==
  /\ closed
  /\ verdict[s] = "none"
  /\ Alive = {}
  /\ verdict' = [verdict EXCEPT ![s] = "drained"]
  /\ UNCHANGED <<phase, told, closed>>

CutShort(s) ==
  /\ closed
  /\ verdict[s] = "none"
  /\ told' = told \cup Alive
  /\ verdict' = [verdict EXCEPT ![s] = "cutShort"]
  /\ UNCHANGED <<phase, closed>>

Next ==
  \/ \E t \in Tasks : Accept(t) \/ Refuse(t) \/ End(t)
  \/ Close
  \/ \E s \in Stoppers : Drained(s) \/ CutShort(s)

Spec == Init /\ [][Next]_vars
=============================================================================
