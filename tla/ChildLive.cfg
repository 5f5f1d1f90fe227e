SPECIFICATION FairSpec
CONSTANTS
  e1 = e1  e2 = e2  a = a  b = b
  None = None
  Name = {a, b}
  Inventory = {1}
  Elsewhere = {1}
  MaxGen = 2
  Want <- Rename
  Endpoint <- OneInstance
  Home = e1
  Leftover = {"none"}
  MaxEdits = 1
  Edits = {"vm", "host"}
  MaxFaults = 1
  MayCrash = TRUE
CHECK_DEADLOCK FALSE
PROPERTY Converges
 
PROPERTY ReapSparesClaimed
