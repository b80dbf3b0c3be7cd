SPECIFICATION Spec
CONSTANTS
  NoCycle = NoCycle
  Cycles = {c1, c2}
  Sessions = {s1, s2}
  BatchSize = 1
  FetchLimit = 1
  MaxAttempts = 2
  MaxQueue = 1
  MaxLogs = 2
  MaxNightFaults = 1
  PoolTasks = {1, 2, 3}
  Types = {"free"}
  TypeOf <- MCTypeOf
  MaxConcurrent = 2
  MaxThrows = 1
  MaxPoolBoots = 1
  MaxMessages = 3
  PageLimit = 2
  MaxDeaths = 1
  Urls = {u1, u2}
  Ticks = {k1, k2}
  MaxStarts = 3
  Callers = {p1, p2}
  MaxLaunches = 3
  Consultations <- MCConsultations
CHECK_DEADLOCK FALSE
INVARIANT NothingIsSkipped
INVARIANT OneAlertPerLead
INVARIANT OneKnownBrowser
PROPERTY FinishedStays
PROPERTY WorkIsFinished
PROPERTY RoomKeepsTime
