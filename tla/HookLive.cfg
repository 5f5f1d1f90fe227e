SPECIFICATION FairSpec
CONSTANTS
  c1 = c1  c2 = c2  c3 = c3  v1 = v1  v2 = v2  v3 = v3  e1 = e1  e2 = e2
  None = None
  First = c1
  Home = e1
  Child <- OneChild
  VM <- OneVM
  VMOf <- JustV1
  Hook <- AllHooks
  Endpoint <- OneInstance
  MayCrash = FALSE
  Given = {"custom"}
  MaxEdits = 0
  MayRecreate = FALSE
  MayPurge = TRUE
CHECK_DEADLOCK FALSE
PROPERTY TeardownCompletes
