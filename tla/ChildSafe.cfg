SPECIFICATION Spec
CONSTANTS
  e1 = e1  e2 = e2  a = a  b = b
  None = None
  Name = {a, b}
  Inventory = {1}
  Elsewhere = {}
  MaxGen = 2
  Want <- Narrow
  Endpoint <- TwoInstances
  Home = e1
  Leftover = {"none", "hand"}
  MaxEdits = 1
  Edits = {"conn", "limit", "inventory"}
  MaxFaults = 1
  MayCrash = TRUE
CHECK_DEADLOCK FALSE
INVARIANT TypeOK
INVARIANT OutcomeIsReal
INVARIANT FaultCostsARun
PROPERTY IntentBeforeHost
PROPERTY WidenedOnlyByEdit
