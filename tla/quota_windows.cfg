CONSTANTS
  k1 = k1
  r1 = r1
  r2 = r2
  Keys <- MCKeys
  Requests <- MCRequests
  KeyOf <- MCKeyOf
  Dims <- MCDims
  Quota <- MCQuota
  Costs <- MCCosts
  MaxCost = 2
  Calendar <- MCCalendar
  MaxTime = 4
SPECIFICATION Spec
INVARIANTS TypeOK BoundedOverrun ExhaustedKeyRefused
