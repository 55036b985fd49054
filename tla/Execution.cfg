SPECIFICATION ExecutionSpec
CONSTANTS
  r1 = r1
  r2 = r2
  use1 = use1
  use2 = use2
  use3 = use3
  use4 = use4
  c1 = c1
  c2 = c2
  c3 = c3
  c4 = c4
  d1 = d1
  d2 = d2
  Uploads = {u1}
  Outputs = {e1}
  Holders = {r1, r2}
  OwnerOf <- MCOwner
  Paths <- MCPaths
  OldFolders <- MCOld
  Quota = 3
  MaxEdits = 1
  NoDocument = NoDocument
  ToolUses = {use1, use2, use4, use3}
  DigestOf <- MCDigest
  StepsOf <- MCSteps
  Forbidden = {}
  Publishing = {use3}
  MaxRunArtifacts = 1
  MaxTurns = 3
  MaxToolAttempts = 2
  NoUse = NoUse
  Providers = {"git_branch", "git_direct", "svn_branch", "svn_direct", "http", "sql", "database", "redmine"}
  MaxWriteAttempts = 2
  MaxOutside = 2
  DesktopRuns = {d1, d2}
  Calls = {c1, c2, c3, c4}
  RunOf <- MCRunOf
  Identified = {c1, c2, c3, c4}
  Cancels <- MCCancels
  MaxCallAttempts = 2
  NoCallEffect = NoCallEffect
  NoDesktopRun = NoDesktopRun
  Lookups = {q1}
  AboutCall <- MCAbout
  n1 = n1
  n2 = n2
  n3 = n3
  f1 = f1
  f2 = f2
  InputDocuments = {n1, n2, n3}
  DocumentKind <- MCKind
  RepositoryFiles = {f1, f2}
  RepositoryKind <- MCRepositoryKind
  MaxInputFiles = 6
  MaxInputAttempts = 3
  MaxRevision = 1
  FilePaths = {"w", "o"}
  OutputPaths = {"o"}
  FileCalls = {k1, k2, k3}
  CheckedOut = CheckedOut
  MaxSearchFiles = 1
  MaxSearchBytes = 2
  MaxFileBytes = 1
  Branches = {b1, b2}
  ParentAllowed = {"workspace.read/v1", "workspace.write/v2", "workspace.edit/v1", "issue.read/v1", "subagent.dispatch/v1"}
  ParentTurns = 3
  MaxBranches = 2
  NoStream = NoStream
  ToolSets = {{"database.read", "database.describe"}, {"database.describe"}, {"mcp.query", "mcp.download"}, {"document.read", "document.inspect", "document.convert"}, {"database.query", "http.read", "mcp.read", "issue.read", "repository.read"}, {"document.files", "audit.export"}}
  Tables = {"t1"}
  Directory <- MCDirectory
  PageLimit = 1
  ReadBounds <- MCReadBounds
INVARIANTS
  ExecutionTypeOK
  LibraryIsSound
  CallsAreSound
  WritesAreTrue
  DesktopIsSound
  WorkspaceIsTrue
PROPERTIES
  StepsAreCareful
CHECK_DEADLOCK FALSE
