SPECIFICATION RouterSpec
CONSTANTS
  Calls = {c1}
  nvidia = nvidia
  minimax = minimax
  NoProvider = NoProvider
  Providers = {nvidia, minimax}
  Routes <- MCRoutes
  Kinds = {"stream"}
  MayLeave = FALSE
CHECK_DEADLOCK FALSE
INVARIANT StreamFallsBack
