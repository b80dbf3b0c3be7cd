---------------------------- MODULE MCSchedulers ----------------------------
(***************************************************************************)
(* The background work of the server: the controller of the night cycle with *)
(* its runs, the other schedulers, the browser one of them uses, whose     *)
(* pages it takes as they come, and the room of specialists that runs and  *)
(* chats consult.  No two of these share a table, a key or a variable, so  *)
(* a behaviour of all is any interleaving of one of each; every behaviour  *)
(* here moves only the one it has picked.                                  *)
(***************************************************************************)
EXTENDS NightCycle, AgentPool, TelegramPoller, FreelanceScout, BrowserClient, Arbitration

VARIABLE picked

\* Every row of the pool asks for the same runner.
MCTypeOf == [t \in {1, 2, 3} |-> "free"]

\* The tool may ask one role twice, or one specialist alone.
MCConsultations == {[agents |-> <<"coder", "critic", "coder">>, category |-> "code"],
                    [agents |-> <<"chaos">>, category |-> "reasoning"]}

backgroundVars == <<nightVars, poolVars, pollerVars, scoutVars, browserVars, roomVars>>
vars == <<backgroundVars, picked>>

Init == /\ NightInit /\ PoolInit /\ PollerInit /\ ScoutInit /\ BrowserInit /\ RoomInit
        /\ picked \in {"night", "pool", "poller", "scout", "browser", "room"}

Next == /\ UNCHANGED picked
        /\ \/ picked = "night" /\ NightNext /\ UNCHANGED <<poolVars, pollerVars, scoutVars, browserVars, roomVars>>
           \/ picked = "pool" /\ PoolNext /\ UNCHANGED <<nightVars, pollerVars, scoutVars, browserVars, roomVars>>
           \/ picked = "poller" /\ PollerNext /\ UNCHANGED <<nightVars, poolVars, scoutVars, browserVars, roomVars>>
           \/ picked = "scout" /\ ScoutNext /\ UNCHANGED <<nightVars, poolVars, pollerVars, browserVars, roomVars>>
           \/ picked = "browser" /\ BrowserNext /\ UNCHANGED <<nightVars, poolVars, pollerVars, scoutVars, roomVars>>
           \/ picked = "room" /\ RoomNext /\ UNCHANGED <<nightVars, poolVars, pollerVars, scoutVars, browserVars>>

\* The fairness of each, asked of the one that was picked.
Fairness ==
  /\ WF_nightVars(picked = "night" /\ \E c \in Cycles : Trigger(c))
  /\ \A c \in Cycles : WF_nightVars(picked = "night" /\ RunStep(c))
  /\ SF_poolVars(picked = "pool" /\ TickBegins(FALSE))
  /\ WF_poolVars(picked = "pool" /\ (ClaimsEnd \/ TickEnds \/ (stopped /\ PoolRestarts)))
  /\ \A t \in PoolTasks : /\ WF_poolVars(picked = "pool" /\ (Claims(t) \/ RunEnds(t)))
                          /\ WF_poolVars(picked = "pool" /\ ComesDue(t))
                          /\ WF_poolVars(picked = "pool" /\ GrowsOld(t))
  /\ WF_roomVars(picked = "room" /\ \E i \in Seats : SpecialistTimesOut(i))
  /\ WF_roomVars(picked = "room" /\ (AllSettled \/ SynthesisTimesOut))

Spec == Init /\ [][Next]_vars /\ Fairness

\* What the background owes: the night cycle reaches every row of the log
\* (pipeline/night-cycle/index.ts), and what is due in the pool is claimed and
\* what was claimed is finished (scheduler/agent-pool/tick.ts).
WorkIsFinished == RowsAreReached /\ DueIsFinished
=============================================================================
