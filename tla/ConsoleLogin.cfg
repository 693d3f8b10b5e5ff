CONSTANTS
  Procs = {p1, p2}
  Profiles = {f1, f2}
  Sessions = {"s1", "s2"}
  NoProc = NoProc
  NoProfile = NoProfile
  NoSession = NoSession
  Can <- AnyCommand
  Bound = {f1, f2}
  LoggedIn = "s1"
  Faults = {"crash", "io", "lock", "net"}
  MaxId = 3
  MaxCmds = 3
  MaxAdmin = 0
SPECIFICATION Spec
INVARIANTS
  OnlyPersistedIsUsed
  LogoutIsComplete
PROPERTY CachesChangeAsAgreed
SYMMETRY Symmetry
