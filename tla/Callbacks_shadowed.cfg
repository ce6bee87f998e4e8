\* setxattr, with JNI in order.
CONSTANTS
  Ops = {"setxattr"}
  Errnos = {"ENOENT", "EIO"}
  Flags = {1}
  MaxEntries = 1
  MaxLeaked = 6
  JniFails = FALSE
  PinFails = FALSE
SPECIFICATION Spec
INVARIANTS
  LeavesNothing
CHECK_DEADLOCK FALSE
