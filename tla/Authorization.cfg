\* Durations are in units of a few seconds; MaxDuration stands for 2^63 - 1.
CONSTANTS
  BaseDelay = 1
  MaxDelay = 2
  Jitters = {1, 5}
  JitterMax = 2
  MaxRetryAfter = 3
  MaxDuration = 20
  RetryAfters = {2, 40}
  NoHeader = NoHeader
  Latencies = {1}
  Attempts = 3
  Intervals = {0, 2, 9, 40}
  Lifetimes = {0, 7, 40}
  SlowDown = 2
  DefaultInterval = 3
  NetFaults = {"busy", "reset", "timeout"}
  Registrations <- MCRegistrations
  ClientExpiries = {0, 1, 50}
  TokenLives = {5, 40}
  Faults = {"io"}
  MaxTransient = 2
  MaxPollInterval = 6
  Accounts = {"a", "b"}
  Roles = {"r", "s"}
  Blank = ""
  NoRole = "-"
  Directories <- MCDirectories
  PageSize = 2
  MaxPages = 3
  MaxChanges = 1
  Requests = {r1, r2}
  None = None
  Callers = {c1, c2}
  RoleKinds = {"ramrole", "oidc", "ecsrole"}
  Window = 1
  HardTTL = 3
  RoleAttempts = 2
  Grants = {0, 2, 5}
  Retrievals = 1
  MaxTime = 4
  Nobody = Nobody
SPECIFICATION Spec
INVARIANTS
  RetriesAsAsked
  PollsAsAgreed
  GrantsAreKept
  BindingIsExact
  CallbackIsSafe
  RoleCredentialIsUsable
  RefreshedOnce
PROPERTY CallsEnd
CHECK_DEADLOCK FALSE
