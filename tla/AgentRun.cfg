SPECIFICATION AgentSpec
CONSTANTS
  CodexCalls = {c1, c2}
  MaxCodexTurns = 2
  MaxCodexSegments = 2
  Facts = {1, 2}
  NoCodexCall = NoCodexCall
  ClaudeUses = {t1, t2}
  MaxClaudeSegments = 3
  MaxEntries = 6
  NoToolUse = NoToolUse
  git = git
  sql = sql
  Definitions <- MCDefinitions
  Connections = {git, sql}
  ProviderOf <- MCProvider
  Offers <- MCOffers
  x1 = x1
  x2 = x2
  Selections = {x1, x2}
  Holds <- MCHolds
  MaxRevisions = 1
  MaxBuilds = 2
  NoRunYet = NoRunYet
  MaxParts = 2
  MaxTries = 2
  Catalogs = {k1}
  NoCall = NoCall
  p1 = p1
  p2 = p2
  e1 = e1
  a1 = a1
  a2 = a2
  Proposals = {p1, p2}
  AutoApproved = {p1}
  ToolEvidence = {e1}
  ToolArtifacts = {a1, a2}
  Cited = {"E1"}
  LabelOf <- MCLabel
  MaxRunArtifacts = 1
  MaxSequence = 3
  PageSize = 2
  BufferCapacity = 2
  MaxConnects = 2
  SubmissionKeys = {b1}
  MaxPosts = 2
  MaxEvaluations = 3
  HistoryLimit = 1
  NoPost = NoPost
  SendKeys = {r1, r2}
  MaxSends = 3
  NoSend = NoSend
INVARIANTS
  AgentTypeOK
  EnginesResume
  ContextIsFrozen
  ProposalsAreTold
  ProgressIsTrue
  PageIsTrue
PROPERTIES
  AnswerNotAskedAgain
CHECK_DEADLOCK FALSE
