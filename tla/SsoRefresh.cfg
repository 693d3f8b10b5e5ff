CONSTANTS
  Procs = {"p1", "p2"}
  Profiles = {"f1", "f2"}
  Sessions = {"s1"}
  Urls = {"u1"}
  Roles = {"r1"}
  NoProc = NoProc
  NoProfile = NoProfile
  NoSession = NoSession
  NoUrl = NoUrl
  NoRole = NoRole
  Digest <- MCDigest
  Can <- OnlyRetrieve
  Bound <- BoundF1F2
  HomeUrl <- HomeU1
  LoggedIn = "s1"
  Faults = {"crash", "io", "net", "lock"}
  Admin = {"delete"}
  MaxId = 4
  MaxCmds = 3
  MaxAdmin = 1
SPECIFICATION Spec
INVARIANTS
  ReturnsCommitted
  RefreshUsesCachedToken
