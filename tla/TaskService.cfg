SPECIFICATION ServiceSpec
CONSTANTS
  MinutesPerHour = 1
  HoursPerDay = 2
  DaysPerMonth = 3
  MonthsPerYear = 2
  DaysPerWeek = 2
  Horizon = 14
  MaxSearchDays = 6
  Zone <- MCZone
  Workers = {w1, w2}
  NoWorker = NoWorker
  Definitions <- MCDefinitions
  MaxTime = 4
  Lease = 1
  MaxAttempts = 2
  MissedLimit = 1
  MaxVersion = 4
  Requests = {q1, q2}
  Jobs = {j1, j2}
  SourceKeys = {s1}
  FileCount = 2
  NoOne = NoOne
  Interpretations = {i1}
  Versions = {v1}
  RunKeys = {k1}
  Callers = {c1, c2}
  Intents = {"x"}
  Modules = {m1}
  Editors = {a1}
  MaxRevision = 2
  NoVersion = NoVersion
  Users = {u1, u2}
  Sessions = {t1, t2}
  HttpRequests = {h1}
  MaxRowVersion = 3
  NoUser = NoUser
  NoSession = NoSession
  People = {p1, p2}
  Admins = {p1}
  Tasks = {o1}
  MaxProjectVersion = 3
  Nowhere = Nowhere
  SourcePaths <- MCPaths
  SchemaFiles <- MCSchemas
  SecretFiles <- MCSecret
  MaxImportFiles = 4
  NoEntry = NoEntry
  Candidates <- MCCandidates
  Capabilities = {"read", "write"}
  Effects = {"write"}
  Platform <- MCPlatform
  Installed = {"read", "write"}
  Withdrawn = {"read"}
  MaxDesigns = 2
INVARIANTS
  ServiceTypeOK
  SchedulesAreKept
  AdmissionIsSound
  AccountsAreSafe
  SkillsAreSound
PROPERTIES
  RecordsOnlyAdvance
CHECK_DEADLOCK FALSE
