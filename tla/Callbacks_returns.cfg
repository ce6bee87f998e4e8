\* Every operation, every failure: callbacks return.
CONSTANTS
  Ops <- Operations
  Errnos = {"ENOENT", "EIO"}
  Flags = {0, 1, 2}
  MaxEntries = 3
  MaxLeaked = 6
  JniFails = TRUE
  PinFails = TRUE
SPECIFICATION FairSpec
PROPERTIES
  CallbackReturns
  CallbackRunsDown
CHECK_DEADLOCK FALSE
