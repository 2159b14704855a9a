SPECIFICATION Spec
CONSTANTS
  Tid = {1, 2, 3}
  Boot = 1
  MaxInterrupts = 1
INVARIANTS ChecksHold TableIsLive GuestUsesItsObject NothingIsLeaked OnlyFlushWaitsForItself 
CHECK_DEADLOCK FALSE
