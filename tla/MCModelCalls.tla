---------------------------- MODULE MCModelCalls ----------------------------
(***************************************************************************)
(* What stands between an agent, a model and a tool: the loop that asks,   *)
(* the router, the limiter of a provider, the splitter of a stream and the *)
(* gate before a tool.  Each module takes what the next one does as its    *)
(* inputs and they share no variable, so every behaviour here moves only   *)
(* the one it has picked.                                                  *)
(***************************************************************************)
EXTENDS RateLimiter, ModelRouter, AgentLoop, ThinkStream, ApprovalFlow

CONSTANTS nvidia, minimax

VARIABLE picked

\* A role falls back to another provider or to another model of the same one
\* (coder), and a raw model has no fallback.
MCRoutes == {<<nvidia, minimax>>, <<nvidia, nvidia>>, <<nvidia, NoProvider>>}

\* Two letters stand for the seven and eight of the tags.
MCOpenTag == <<"<", "t">>
MCCloseTag == <<"<", "/", "t">>

modelVars == <<limiterVars, routerVars, loopVars, thinkVars>>

MCInit ==
  /\ LimiterInit /\ RouterInit /\ LoopInit /\ ThinkInit /\ Init
  /\ picked \in {"limiter", "router", "loop", "think", "gate"}
  \* What was not picked keeps one of its initial states.
  /\ picked = "loop" \/ (mode = "run" /\ ~over /\ ~chatKnown)
  /\ picked = "gate" \/ operator

MCNext ==
  /\ UNCHANGED picked
  /\ \/ picked = "limiter" /\ LimiterNext /\ UNCHANGED <<routerVars, loopVars, thinkVars, vars>>
     \/ picked = "router" /\ RouterNext /\ UNCHANGED <<limiterVars, loopVars, thinkVars, vars>>
     \/ picked = "loop" /\ LoopNext /\ UNCHANGED <<limiterVars, routerVars, thinkVars, vars>>
     \/ picked = "think" /\ ThinkNext /\ UNCHANGED <<limiterVars, routerVars, loopVars, vars>>
     \/ picked = "gate" /\ Next /\ UNCHANGED modelVars

\* The fairness of each, asked of the one that was picked.
MCFairness ==
  /\ WF_limiterVars(picked = "limiter" /\ LimiterTick)
  /\ WF_limiterVars(picked = "limiter" /\ Drain)
  /\ WF_loopVars(picked = "loop" /\ LoopProgress)

MCSpec == MCInit /\ [][MCNext]_<<modelVars, vars, picked>> /\ MCFairness

=============================================================================
