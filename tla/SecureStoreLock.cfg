CONSTANTS
  Threads = {"a1", "a2", "b1"}
  Processes = {"A", "B"}
  ProcessOf <- MCProcessOf
  Locks = {l1, l2, l3}
  NoThread = NoThread
  NoLock = NoLock
  OsErrors = TRUE
SPECIFICATION FairSpec
INVARIANT LockSafety
PROPERTIES
  ImplementsPathLock
  LockProgress
