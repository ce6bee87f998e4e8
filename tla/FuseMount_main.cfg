\* The javafs executable: one run, the nine classes with every lookup of the
\* bindings, one FUSE thread.
CONSTANTS
  Mounts = {m1}
  Workers = {w1}
  NumClasses = 9
  Loadable <- AllClasses
  Boot = "main"
  OutOfMemory = TRUE
  FuseFails = TRUE
  NULL = NULL
  Lookups <- BindingLookups
  Slots <- BindingSlots
  Found <- AllClasses
  Declared <- BindingSlots
SPECIFICATION DetailSpec
INVARIANTS
  DetailTypeOK
  SoleOwner
  UndefinedOnlyByOverlap
  PublishedComplete
  BindingsFreed
CHECK_DEADLOCK FALSE
