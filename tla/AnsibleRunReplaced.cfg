CONSTANTS
  r1 = r1
  r2 = r2
  n1 = n1
  n2 = n2
  e1 = e1
  e2 = e2
  h1 = h1
  None = None
  Run = {r1, r2}
  Name = {n1}
  NameOf <- OneName
  Endpoint = {e1}
  Host = {h1}
  Targets <- AllHosts
  Retain = {r2}
  HasDeadline = {}
  HasTTL = {r1}
  Deletable = {r1, r2}
  MaxSecond = 2
  MaxCrashes = 0
  MaxEdits = 0
  MayPurge = FALSE
SPECIFICATION Spec
INVARIANTS WritesReachOwnObject
  
CHECK_DEADLOCK FALSE
