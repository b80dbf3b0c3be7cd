SPECIFICATION MCSpec
CONSTANTS
  Requests = {r1, r2, r3}
  MaxRpm = 2
  NormalLimit = 2
  LowLimit = 1
  Window = 3
  MinWait = 1
  Slack = 1
  nvidia = nvidia
  minimax = minimax
  NoProvider = NoProvider
  Calls = {c1, c2}
  Providers = {nvidia, minimax}
  Routes <- MCRoutes
  Kinds = {"chat", "stream"}
  MayLeave = TRUE
  MaxSteps = 3
  MaxCalls = 2
  KeepRecent = 2
  Letters = {"<", "/", "t", "a"}
  OpenTag <- MCOpenTag
  CloseTag <- MCCloseTag
  MaxLetters = 6
  MaxDelta = 3
  NoKey = NoKey
  Agents = {a1, a2}
  Keys = {k1, kfree}
  Gated = {k1}
  RowIds = {w1, w2}
  TTL = 1
  Horizon = 4
  MaxRestarts = 1
  Faults = FALSE
  SweeperInstalled = TRUE
CHECK_DEADLOCK FALSE
INVARIANT LimitHolds
INVARIANT OutcomeFollowsAnswers
INVARIANT TranscriptIsWhole
INVARIANT StreamSplitsLikeOnce
PROPERTY EveryRequestStarts
PROPERTY DoneEndsTheRun
PROPERTY RunEnds
INVARIANT RunningIsApproved
PROPERTY NoRunAfterDenial
