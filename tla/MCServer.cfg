SPECIFICATION MCSpec
CONSTANTS
  NoKey = NoKey
  Agents = {a1}
  Keys = {k1}
  Gated = {k1}
  RowIds = {w1, w2, w3}
  TTL = 1
  Horizon = 4
  MaxRestarts = 1
  Faults = TRUE
  SweeperInstalled = TRUE
  Server = "server"
  Procs = {"server", "script"}
  Starts <- AllVersions
  Overlaps = {6, 8, 14, 18}
  MaxKills = 1
  AgentRuns = {g1, g2}
  CodeNames = {n1}
  ToolNames = {d1, d2, d3}
  Reserved = {d3}
  MaxErrors = 2
  Quota <- MCQuota
  MaxDynamic = 1
  MaxStrays = 1
  MaxBoots = 1
  Loops = {o1}
  LastDay = 1
  MaxRows = 1
  MaxDeploys = 1
  MaxRestores = 1
  MaxLosses = 1
  People = {}
  Crons = {t1}
  Clients = {m1}
  Tried <- MCTried
  Remembered <- MCRemembered
  Prompts <- MCPrompts
  Scripts <- MCScripts
  AllowsMaking = FALSE
  PollerOn = TRUE
  GatesFail = TRUE
  MaxCalls = 2
  MaxStreams = 2
CHECK_DEADLOCK FALSE
INVARIANT LiveRowIsLatest
INVARIANT UpgradeIsWhole
INVARIANT ToolLimitsHold
INVARIANT CallsAreHonest
PROPERTY DecisionIsFinal
PROPERTY BootSucceeds
PROPERTY CleanRestoreIsExact
