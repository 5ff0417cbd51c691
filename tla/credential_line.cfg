CONSTANTS
  r1 = r1
  r2 = r2
  Requests <- MCRequests
  Nobody = Nobody
  Retries = 1
  MaxToken = 3
SPECIFICATION LoginFairSpec
INVARIANTS LoginTypeOK LoginSurvives RetryIsFresh
PROPERTIES LoginCallEnds
