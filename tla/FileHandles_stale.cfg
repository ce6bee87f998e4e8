\* Two threads, a JVM whose DeleteLocalRef clears the slot it is given.
CONSTANTS
  Files = {f1, f2}
  Threads = {t1, t2}
  Slots = {s1, s2}
  StaleDelete = "cleared"
  JniFails = FALSE
  NULL = NULL
SPECIFICATION Spec
INVARIANTS
  OwnHandle
CHECK_DEADLOCK FALSE
