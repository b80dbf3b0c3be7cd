----------------------------- MODULE AgentPool -----------------------------
(***************************************************************************)
(* The agent pool: rows of `agent_tasks` are claimed by a tick of the      *)
(* scheduler, run side by side and finished.  Slots bound the runs of a    *)
(* type, a cooldown keeps a type from running again too soon, and a sweep  *)
(* fails rows that have been running for half an hour, which is what is    *)
(* left of a process that died.  Times are flags that the clock may set.   *)
(***************************************************************************)
EXTENDS Integers, FiniteSets

CONSTANTS
  PoolTasks,      \* ids of rows, in the order of claiming
  Types,          \* kinds of tasks
  TypeOf,         \* the kind of each
  MaxConcurrent,  \* AGENT_POOL_MAX_CONCURRENT
  MaxThrows,      \* bound: claims that throw
  MaxPoolBoots     \* bound: poolBoots of the process

ASSUME PoolAssumption ==
  /\ PoolTasks \subseteq Nat /\ TypeOf \in [PoolTasks -> Types]
  /\ MaxConcurrent \in Nat \ {0} /\ MaxThrows \in Nat /\ MaxPoolBoots \in Nat

VARIABLES
  status,    \* row -> its status; "none" before it is enqueued
  later,     \* rows whose scheduled_at is ahead
  old,       \* running rows that started more than ZOMBIE_CUTOFF_S ago
  slots,     \* type -> slots taken
  resting,   \* types in cooldown
  tick,      \* what the tick does
  held,      \* tasks of this tick that are not finished
  stopped, throws, poolBoots

poolVars == <<status, later, old, slots, resting, tick, held, stopped, throws, poolBoots>>

Finished == {"done", "noop", "failed"}
PoolStatuses == {"none", "pending", "running"} \union Finished

PoolTypeOK ==
  /\ status \in [PoolTasks -> PoolStatuses] /\ later \subseteq PoolTasks /\ old \subseteq PoolTasks
  /\ slots \in [Types -> 0..MaxConcurrent] /\ resting \subseteq Types
  /\ tick \in {"idle", "claiming", "running"} /\ held \subseteq PoolTasks
  /\ stopped \in BOOLEAN /\ throws \in 0..MaxThrows /\ poolBoots \in 0..MaxPoolBoots

PoolInit == /\ status = [t \in PoolTasks |-> "none"] /\ later = {} /\ old = {}
            /\ slots = [y \in Types |-> 0] /\ resting = {}
            /\ tick = "idle" /\ held = {} /\ stopped = FALSE
            /\ throws = 0 /\ poolBoots = 0

---------------------------------------------------------------------------
(* POST /v1/agent-tasks/enqueue, for now or for later. *)
Enqueue(t) == /\ status[t] = "none"
              /\ \A u \in PoolTasks : u < t => status[u] # "none"
              /\ status' = [status EXCEPT ![t] = "pending"]
              /\ later' \in {later, later \union {t}}
              /\ UNCHANGED <<old, slots, resting, tick, held, stopped, throws, poolBoots>>

Due == {t \in PoolTasks : status[t] = "pending" /\ t \notin later}
IsNext(t) == t \in Due /\ \A u \in Due : t <= u

---------------------------------------------------------------------------
(* A tick is skipped while one goes on.  It first fails the zombies, then  *)
(* gives up when the router is overloaded.                                 *)
MayTickTwice == ~stopped
MayTick == ~stopped /\ tick = "idle"

NoZombies == {t \in old : status[t] = "none"}
Zombies == {t \in old : status[t] = "running"}

TickBegins(overloaded) ==
  /\ MayTick
  /\ status' = [t \in PoolTasks |-> IF t \in Zombies THEN "failed" ELSE status[t]]
  /\ old' = {}
  /\ tick' = IF overloaded THEN tick ELSE "claiming"
  /\ UNCHANGED <<later, slots, resting, held, stopped, throws, poolBoots>>

(* A slot of the type is taken, then the row is claimed.  In a cooldown it *)
(* is finished at once, without a run, and the tick claims no more.        *)
Claims(t) ==
  /\ tick = "claiming" /\ Cardinality(held) < MaxConcurrent
  /\ IsNext(t) /\ slots[TypeOf[t]] < MaxConcurrent
  /\ IF TypeOf[t] \in resting
     THEN /\ status' = [status EXCEPT ![t] = "noop"]
          /\ tick' = "running"
          /\ UNCHANGED <<slots, held>>
     ELSE /\ status' = [status EXCEPT ![t] = "running"]
          /\ slots' = [slots EXCEPT ![TypeOf[t]] = @ + 1]
          /\ held' = held \union {t}
          /\ tick' = tick
  /\ UNCHANGED <<later, old, resting, stopped, throws, poolBoots>>

(* The database throws on a claim: the tick is over, its slots stay taken  *)
(* and the rows it claimed stay running.                                   *)
ClaimThrows(t) ==
  /\ tick = "claiming" /\ Cardinality(held) < MaxConcurrent
  /\ IsNext(t) /\ slots[TypeOf[t]] < MaxConcurrent
  /\ throws < MaxThrows /\ throws' = throws + 1
  /\ slots' = [slots EXCEPT ![TypeOf[t]] = @ + 1]
  /\ tick' = "idle" /\ held' = {}
  /\ UNCHANGED <<status, later, old, resting, stopped, poolBoots>>

ClaimsEnd ==
  /\ tick = "claiming"
  /\ \/ Cardinality(held) = MaxConcurrent
     \/ Due = {}
     \/ \E t \in Due : IsNext(t) /\ slots[TypeOf[t]] = MaxConcurrent
  /\ tick' = "running"
  /\ UNCHANGED <<status, later, old, slots, resting, held, stopped, throws, poolBoots>>

SlotStaysTaken(y) == [slots EXCEPT ![y] = @]
SlotIsFreed(y) == [slots EXCEPT ![y] = IF @ > 0 THEN @ - 1 ELSE 0]

(* A run returns or throws; an artifact is missing, or it is there.  Only  *)
(* tasks that were completed or had nothing to do start a cooldown.        *)
RunEnds(t) ==
  /\ tick = "running" /\ t \in held
  /\ \E outcome \in Finished :
       /\ status' = [status EXCEPT ![t] = outcome]
       /\ resting' = IF outcome = "failed" THEN resting ELSE resting \union {TypeOf[t]}
  /\ slots' = SlotIsFreed(TypeOf[t])
  /\ held' = held \ {t}
  /\ old' = old \ {t}
  /\ UNCHANGED <<later, tick, stopped, throws, poolBoots>>

TickEnds == /\ tick = "running" /\ held = {}
            /\ tick' = "idle"
            /\ UNCHANGED <<status, later, old, slots, resting, held, stopped, throws, poolBoots>>

(* The clock. *)
ComesDue(t) == /\ t \in later /\ later' = later \ {t}
               /\ UNCHANGED <<status, old, slots, resting, tick, held, stopped, throws, poolBoots>>
CooldownEnds(y) == /\ y \in resting /\ resting' = resting \ {y}
                   /\ UNCHANGED <<status, later, old, slots, tick, held, stopped, throws, poolBoots>>
GrowsOld(t) == /\ status[t] = "running" /\ t \notin old /\ old' = old \union {t}
               /\ UNCHANGED <<status, later, slots, resting, tick, held, stopped, throws, poolBoots>>

(* stop() of the scheduler at shutdown, and a process that starts anew. *)
PoolStops == /\ ~stopped /\ poolBoots < MaxPoolBoots /\ stopped' = TRUE
             /\ UNCHANGED <<status, later, old, slots, resting, tick, held, throws, poolBoots>>
PoolRestarts == /\ poolBoots < MaxPoolBoots /\ poolBoots' = poolBoots + 1
                /\ slots' = [y \in Types |-> 0] /\ resting' = {} /\ held' = {}
                /\ tick' = "idle" /\ stopped' = FALSE
                /\ UNCHANGED <<status, later, old, throws>>

PoolNext ==
  \/ \E t \in PoolTasks : \/ Enqueue(t) \/ Claims(t) \/ ClaimThrows(t) \/ RunEnds(t)
                          \/ ComesDue(t) \/ GrowsOld(t)
  \/ \E overloaded \in BOOLEAN : TickBegins(overloaded)
  \/ ClaimsEnd \/ TickEnds \/ PoolStops \/ PoolRestarts
  \/ \E y \in Types : CooldownEnds(y)

(* The interval timer goes on ticking and the router is not overloaded at  *)
(* every tick; a run ends (AgentLoop); a stopped server is started again.  *)
PoolFairness ==
  /\ SF_poolVars(TickBegins(FALSE))
  /\ WF_poolVars(ClaimsEnd \/ TickEnds \/ (stopped /\ PoolRestarts))
  /\ \A t \in PoolTasks : /\ WF_poolVars(Claims(t) \/ RunEnds(t))
                          /\ WF_poolVars(ComesDue(t)) /\ WF_poolVars(GrowsOld(t))

PoolSpec == PoolInit /\ [][PoolNext]_poolVars /\ PoolFairness

---------------------------------------------------------------------------
(* A finished row stays as its run left it: the sweep of zombies, a second *)
(* run and a restarted process never write over it, nor it over them.      *)
FinishedStays ==
  [][\A t \in PoolTasks : status[t] \in Finished => status'[t] = status[t]]_poolVars

(* A row that runs is finished in the end, by its run or, when the process *)
(* that ran it died or its claim was lost, by the sweep of a later one.    *)
RunningIsFinished ==
  \A t \in PoolTasks : status[t] = "running" ~> status[t] \in Finished

(* Every slot of a type was left taken by claims that threw; only another  *)
(* process has them free again.                                            *)
Wedged(y) == throws > 0 /\ slots[y] = MaxConcurrent /\ \A t \in held : TypeOf[t] # y

(* A row that is due is claimed in the end, unless throwing claims wedged a *)
(* type, whose rows then stop those of every type behind them.             *)
DueIsClaimed ==
  \A t \in PoolTasks : t \in Due ~> (status[t] # "pending" \/ \E y \in Types : Wedged(y))

(* Between them: whatever is due is finished, as far as slots are given back. *)
DueIsFinished == RunningIsFinished /\ DueIsClaimed
=============================================================================
