CONSTANTS
  Procs = {"p1", "p2"}
  Profiles = {"f1"}
  Sessions = {"s1"}
  Urls = {"u1"}
  Roles = {"r1", "r2"}
  NoProc = NoProc
  NoProfile = NoProfile
  NoSession = NoSession
  NoUrl = NoUrl
  NoRole = NoRole
  Digest <- MCDigest
  Can <- OneConfigures
  Bound <- BoundF1
  HomeUrl <- HomeU1
  LoggedIn = "s1"
  Faults = {"crash", "io"}
  Admin = {"mode"}
  MaxId = 3
  MaxCmds = 3
  MaxAdmin = 1
SPECIFICATION Spec
INVARIANTS
  MarkersAreTrue
  FailedLoginIsUndone
PROPERTIES
  NoStsWithoutToken
  RebindDropsOldSts
