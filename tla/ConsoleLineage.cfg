CONSTANTS
  Procs = {p1, p2}
  Profiles = {f1, f2}
  Sessions = {"s1", "s2"}
  NoProc = NoProc
  NoProfile = NoProfile
  NoSession = NoSession
  Can <- AnyCommand
  Bound = {f1, f2}
  LoggedIn = "s1"
  Faults = {}
  MaxId = 3
  MaxCmds = 3
  MaxAdmin = 1
SPECIFICATION Spec
INVARIANTS
  BindingHasCache
  RefreshTokenIsLive
SYMMETRY Symmetry
