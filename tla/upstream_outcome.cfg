CONSTANTS
  r1 = r1
  r2 = r2
  r3 = r3
  Nobody = Nobody
  Requests <- MCRequests
  Streams <- MCStreams
  BackendOnly <- MCBackendOnly
  Large <- MCRequests
  Hanging <- MCHanging
  InFlightMax = 2
SPECIFICATION FairSpec
INVARIANTS TypeOK LiveWithinLimit NoBlindFallback
PROPERTIES ClientBlamedWhenGone RequestsEnd
