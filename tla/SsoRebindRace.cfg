CONSTANTS
  Procs = {"p1", "p2"}
  Profiles = {"f1"}
  Sessions = {"s1"}
  Urls = {"u1"}
  Roles = {"r1", "r2", "r3"}
  NoProc = NoProc
  NoProfile = NoProfile
  NoSession = NoSession
  NoUrl = NoUrl
  NoRole = NoRole
  Digest <- MCDigest
  Can <- AnyCommand
  Bound <- BoundF1
  HomeUrl <- HomeU1
  LoggedIn = "s1"
  Faults = {}
  Admin = {}
  MaxId = 4
  MaxCmds = 3
  MaxAdmin = 1
SPECIFICATION Spec
PROPERTY RebindDropsOldSts
