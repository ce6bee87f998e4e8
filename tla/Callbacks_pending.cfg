\* open, with JNI in order but for NewGlobalRef.
CONSTANTS
  Ops = {"open"}
  Errnos = {"ENOENT", "EIO"}
  Flags = {1}
  MaxEntries = 1
  MaxLeaked = 6
  JniFails = FALSE
  PinFails = TRUE
SPECIFICATION Spec
INVARIANTS
  LeavesNothing
CHECK_DEADLOCK FALSE
