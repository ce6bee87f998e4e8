\* setxattr without flags, with JNI in order.
CONSTANTS
  Ops = {"setxattr"}
  Errnos = {"ENOENT", "EIO"}
  Flags = {0}
  MaxEntries = 1
  MaxLeaked = 6
  JniFails = FALSE
  PinFails = FALSE
SPECIFICATION Spec
INVARIANTS
  ServedUnlessJniFailed
CHECK_DEADLOCK FALSE
