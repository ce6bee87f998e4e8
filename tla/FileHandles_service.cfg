\* Two threads, a JVM that ignores the stale DeleteLocalRef.
CONSTANTS
  Files = {f1, f2, f3}
  Threads = {t1, t2}
  Slots = {s1, s2, s3}
  StaleDelete = "ignored"
  JniFails = TRUE
  NULL = NULL
SPECIFICATION FairSpec
INVARIANTS
  TypeOK
  Bookkeeping
  TableExact
  OwnHandle
  ReleaseSeen
PROPERTIES
  KeepsHandles
  ReleaseCompletes
  UnpinnedOnlyByRelease
CHECK_DEADLOCK FALSE
