CONSTANTS
  t1 = t1
  t2 = t2
  t3 = t3
  s1 = s1
  s2 = s2
  s3 = s3
  Tasks <- MCTasks
  Stoppers <- MCStoppers
  Patient <- MCPatient
SPECIFICATION FairSpec
INVARIANTS TypeOK
PROPERTIES LifecycleSpec NothingLeaks
CHECK_DEADLOCK FALSE
