SPECIFICATION Spec
CONSTANTS
  MaxTasks = 2
  Rows <- MCRows
  MaxDay = 2
  MaxByHand = 2
  StaleDays = 0
  CancelledDays = 0
  DoneDays = 0
  JanitorDays = 1
  WindowDays = 1
  WeekDays = 2
  MaxPerCycle = 1
  Facts = {a, b}
  MaxRows = 3
  MaxContextWrites = 1
  MaxActions = 3
  Keys = {kcursor, kqueue, x, y}
  Owned = {kcursor, kqueue}
  Protected = {kcursor}
  Statements = {s, t}
  MaxFocusWrites = 1
  MaxFocusActions = 2
  Nights = {n1, n2}
  Caps = {0, 2, 3}
  EmbedBatch = 2
  MaxLogged = 5
  MaxBoots = 1
  LayerFacts = {f, g}
  CategoryOf <- MCCategoryOf
  WhitelistShared = {g}
  MaxLayerRows = 3
  MaxMoves = 1
  NoCycle = NoCycle
  Cycles = {c1, c2}
  Sessions = {s1, s2}
  BatchSize = 2
  FetchLimit = 1
  MaxAttempts = 2
  MaxQueue = 1
  MaxLogs = 3
  MaxNightFaults = 1
CHECK_DEADLOCK FALSE
INVARIANT ContextIsKept
INVARIANT FocusIsKept
INVARIANT WindowIsKept
INVARIANT FactIsHeld
INVARIANT NoForgottenRow
PROPERTY TasksAreKept
