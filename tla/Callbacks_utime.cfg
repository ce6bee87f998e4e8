\* utime, with JNI in order.
CONSTANTS
  Ops = {"utime"}
  Errnos = {"ENOENT", "EIO"}
  Flags = {1}
  MaxEntries = 1
  MaxLeaked = 6
  JniFails = FALSE
  PinFails = FALSE
SPECIFICATION Spec
INVARIANTS
  ReturnValueReported
CHECK_DEADLOCK FALSE
