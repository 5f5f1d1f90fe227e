SPECIFICATION Spec
CONSTANTS
  c1 = c1  c2 = c2  c3 = c3  v1 = v1  v2 = v2  v3 = v3  e1 = e1  e2 = e2
  None = None
  First = c1
  Home = e1
  Child <- OneChild
  VM <- OneVM
  VMOf <- JustV1
  Hook <- AllHooks
  Endpoint <- TwoInstances
  MayCrash = TRUE
  Given = {"custom"}
  MaxEdits = 1
  MayRecreate = FALSE
  MayPurge = FALSE
CHECK_DEADLOCK FALSE
INVARIANTS TypeOK HookLaunchedOnce HookSuccessIsReal
PROPERTIES HookIsSafeToLaunch ReleasedWithOutcome  HostOutlivesHook StaysOnItsInstance 
