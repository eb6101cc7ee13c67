SPECIFICATION Spec
CONSTANTS
  Parts = {"household"}
  c1 = c1
  c2 = c2
  k1 = k1
  Callers = {c1, c2}
  KeyOf <- MCKeyOf
  Foods = {"milk", "rice"}
  Titles = {"dishes"}
  Legacy <- MCLegacy
  Stock <- MCStock
  Portion = 2
  Unknown = Unknown
  Kept = Kept
  Kinds = {"ConsumePantry"}
  a1 = a1
  a2 = a2
  a3 = a3
  f1 = f1
  x1 = x1
  Askers = {a1, a2, a3}
  Facts = {f1}
  Remembered <- MCRemembered
  NoMemory = NoMemory
  Packs = {"safe", "risky"}
  AutoEnabled = {"safe"}
  Releases = {1, 2}
  Declared <- MCDeclared
  Managers = {m1, m2}
  Crashes = 1
  Requests = {r1, r2}
  AskedKinds <- MCAskedKinds
  Drifts = 1
  EffectKeys = {e1, e2}
  EventTitles = {t1, t2}
  Asks = {"create", "cancel", "update", "send", "sendRecorded", "control"}
  Others = 1
  LastCommand = 3
  Confirms <- MCConfirms
  MaxReads = 2
  Collections = {"tasks", "chores", "obligations", "events", "groceries"}
  RecordsKept = 4
  DatedRecords = {1, 2, 4}
  TitleOf <- MCTitleOf
  TimeOf <- MCTimeOf
  Present = 2
  Windows <- MCWindows
  CandidateLimit = 3
  SourceFiles = {fa, fb}
  Jobs = {j1}
  Approvals = {p1, p2}
  OwnerSteps = 2
  Restarts = 1
  Versions = {v1, v2, v3}
  Startable = {v1, v2}
  InstalledFirst = v1
  Down = Down
  Blank = Blank
  Switches = 3
  Conversations = {h1, h2}
  Elsewhere = Elsewhere
  MaxPosts = 3
  MaxMessages = 2
  Mishaps = 2
  Uploads = {u1, u2, u3}
  Breakdowns = 2
  Imports = {i1, i2, i3}
  Exports <- MCExports
  SourceNames = {"bank", "card"}
  NoProviderId = NoProviderId
  Outages = 1
INVARIANTS VerifiedConsumptionsCount
CHECK_DEADLOCK FALSE
