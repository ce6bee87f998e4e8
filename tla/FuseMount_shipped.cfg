\* The classpath the project ships; no call fails for want of memory.
CONSTANTS
  Mounts = {m1}
  Workers = {w1}
  NumClasses = 9
  Loadable <- ShippedClasses
  Boot = "jni"
  OutOfMemory = FALSE
  FuseFails = FALSE
  NULL = NULL
  Lookups <- BindingLookups
  Slots <- BindingSlots
  Found <- ShippedFound
  Declared <- ShippedDeclared
SPECIFICATION DetailSpec
INVARIANTS
  UnmountedWasMounted
CHECK_DEADLOCK FALSE
