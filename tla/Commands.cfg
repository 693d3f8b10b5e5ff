CONSTANTS
  Names = {1, 2}
  Invokers = {p1, p2}
  Versions = {1, 2}
  Source <- MCSource
  Mine = Mine
  Partial = Partial
  Nothing = Nothing
  Commands <- MCCommandsOfSkills
  Found <- MCFound
  MaxEdits = 1
  MaxCrashes = 1
  MaxFaults = 1
  Releases <- MCReleases
  MaxRepublished = 1
  LogCount = 3
  Limits = {1, 2, 5}
  PageLimits = {0, 1, 2}
  DefaultMaxPages = 6
  MaxEmpty = 2
  Invocations <- MCInvocations
  Tables <- MCTables
  Rows = {1, 2, 3, 4}
  Caps = {0, 1}
  Credentials <- MCCredentials
  NoToken = NoToken
  CallerTokens = {NoToken, "tc"}
  MaxRowChanges = 1
  FallbackSize = 3
  Kinds = {"login", "plain", "list", "tool", "workflow", "raw", "shortcut"}
  MaxFlags = 2
  Profiles = {"p", "q"}
  Nowhere = "nothing"
  Assigned <- MCAssigned
  Inline <- MCInline
  Fields = {"a", "b"}
  PathField = "a"
  LogApps = {l1, l2}
  Traces = {t}
  Topics = {x, y}
  OwnRegion = OwnRegion
  OtherRegion = OtherRegion
  NoId = NoId
  MaxResources = 2
  MaxRelated = 2
  Bodies <- MCBodies
  Label = 14
  ProfileNames = {1, 2}
  DefaultName = 2
  CredNames = {"c"}
  KeyIds = {"k"}
  NoKey = NoKey
  Omitted = Omitted
  KeyFlags <- MCKeyFlags
  IdFlags <- MCIdFlags
  MaxSettings = 4
SPECIFICATION Spec
INVARIANTS
  SignedAsOneIdentity
  ListingIsSound
  SkillsSurvive
  UpgradeIsSafe
  ExportIsHonest
  NothingSentInVain
  ExitCodeIsTrue
  IdentityIsAsAsked
  RequestIsAsGiven
  GraphIsExact
  SizesAreTrue
  ProfilesAreUsable
PROPERTY SwapsAreWhole
SYMMETRY InvokerSymmetry
CHECK_DEADLOCK FALSE
