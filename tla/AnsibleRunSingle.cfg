CONSTANTS
  r1 = r1
  r2 = r2
  n1 = n1
  n2 = n2
  e1 = e1
  e2 = e2
  h1 = h1
  None = None
  Run = {r1}
  Name = {n1}
  NameOf <- OneName
  Endpoint = {e1, e2}
  Host = {h1}
  Targets <- AllHosts
  Retain = {}
  HasDeadline = {r1}
  HasTTL = {}
  Deletable = {r1}
  MaxSecond = 1
  MaxCrashes = 1
  MaxEdits = 1
  MayPurge = TRUE
SPECIFICATION Spec
SYMMETRY AnyEndpoint
INVARIANTS TypeOK AtMostOneJob SuccessIsReal
PROPERTIES RecordIsKept  ReleasedClean
CHECK_DEADLOCK FALSE
