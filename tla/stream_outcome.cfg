CONSTANTS
  Capacity = 2
  MaxEvents = 4
SPECIFICATION FairSpec
INVARIANTS TypeOK OutcomeIsHonest ClientGetsAnEnd
PROPERTIES CallEnds
CHECK_DEADLOCK FALSE
