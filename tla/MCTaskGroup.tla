------------------------------ MODULE MCTaskGroup ------------------------------
(* Instances of TaskGroup: three tasks, a patient and an impatient Stop. *)
EXTENDS TaskGroup

CONSTANTS t1, t2, t3, s1, s2, s3

MCTasks == {t1, t2, t3}
MCStoppers == {s1, s2, s3}
MCPatient == {s1, s2}
=============================================================================
