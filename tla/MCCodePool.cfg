SPECIFICATION FairSpec
CONSTANTS
  Tid = {1, 2, 3}
  Boot = 1
  kExecRegionSize = 3
  Align = 2
  InstallSize = {1, 4}
  MaxSize = 4
  MaxAdds = 2
INVARIANTS CodeIsIntact RecoveryIsKept 
 
CHECK_DEADLOCK FALSE
