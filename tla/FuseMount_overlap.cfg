\* Two calls of mount() free to overlap, every call they make free to fail.
CONSTANTS
  Mounts = {m1, m2}
  Workers = {w1}
  NumClasses = 2
  Loadable <- TwoClasses
  Boot = "jni"
  OutOfMemory = TRUE
  FuseFails = TRUE
  NULL = NULL
  Lookups <- TwoLookups
  Slots <- TwoSlots
  Found <- TwoClasses
  Declared <- TwoSlots
SPECIFICATION DetailFairSpec
INVARIANTS
  TypeOK
  SoleOwner
  UndefinedOnlyByOverlap
  PublishedComplete
  NothingDropped
PROPERTIES
  ImplementsFuseMount
  EveryMountSettles
  StaticsStable
  MountAdvances
CHECK_DEADLOCK FALSE
