CONSTANTS
  k1 = k1
  k2 = k2
  r1 = r1
  r2 = r2
  r3 = r3
  r4 = r4
  Keys <- MCKeys
  Requests <- MCRequests
  KeyOf <- MCKeyOf
  Deployments <- MCDeployments
  Window = 2
  MaxTime = 2
  MaxTickets = 5
SPECIFICATION Spec
INVARIANTS SlotAccounting BurstWindow BurstOverrun
