CONSTANTS
  Procs = {"p1", "p2"}
  Profiles = {"f1", "f2"}
  Sessions = {"s1", "s2"}
  Urls = {"u1", "u2"}
  Roles = {"r1"}
  NoProc = NoProc
  NoProfile = NoProfile
  NoSession = NoSession
  NoUrl = NoUrl
  NoRole = NoRole
  Digest <- MCDigest
  Can <- SecondBinds
  Bound <- BoundAcross
  HomeUrl <- HomeU1
  LoggedIn = "s1"
  Faults = {}
  Admin = {"session"}
  MaxId = 3
  MaxCmds = 2
  MaxAdmin = 1
SPECIFICATION FairSpec
INVARIANT RefreshTokenIsLive
PROPERTY CommandsReturn
CHECK_DEADLOCK FALSE
