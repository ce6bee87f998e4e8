\* Operations of the common shape; every JNI call but NewGlobalRef may throw.
CONSTANTS
  Ops <- PlainOps
  Errnos = {"ENOENT", "EIO"}
  Flags = {0, 1, 2}
  MaxEntries = 3
  MaxLeaked = 0
  JniFails = TRUE
  PinFails = FALSE
SPECIFICATION Spec
INVARIANTS
  TypeOK
  LeavesNothing
  ResultsRead
  ServedUnlessJniFailed
  ReturnValueReported
PROPERTIES
  AnswersAsRaised
CHECK_DEADLOCK FALSE
