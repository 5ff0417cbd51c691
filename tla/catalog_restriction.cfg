CONSTANTS
  a = a
  b = b
  c = c
  k1 = k1
  r1 = r1
  Any = Any
  NoModel = NoModel
  NoKey = NoKey
  Models <- MCModels
  Keys <- MCKeys
  Requests <- MCRequests
  Catalogs <- MCCatalogs
SPECIFICATION Spec

PROPERTIES RestrictionSurvivesStart
