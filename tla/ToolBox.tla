------------------------------ MODULE ToolBox ------------------------------
(***************************************************************************)
(* The tools agents make for themselves and the calls of them: dynamic     *)
(* tools (agent/src/pipeline/agent-loop/dynamic-tools.ts), code tools run  *)
(* in a sandbox (code-tools/), their management (mcp/registry/             *)
(* code-mgmt.tools.ts, agent-meta.tools.ts) and the quota of               *)
(* consultations.  AgentRuns are agent runs; all share one AgentLoop.       *)
(*                                                                         *)
(* A call that takes too long is answered with a timeout while what it     *)
(* started goes on and is recorded by the name of the tool, which may have *)
(* been edited, deleted or created anew by then.  Code is one of two kinds *)
(* of outcome at each run; calls the hooks refuse change nothing.          *)
(***************************************************************************)
EXTENDS Naturals, FiniteSets

CONSTANTS
    AgentRuns,    \* agent runs at a time
    CodeNames,   \* names a code tool may be created under
    ToolNames,   \* names a dynamic tool may be created under
    Reserved,    \* RESERVED_NAMES among them
    MaxErrors,   \* MAX_ERROR_COUNT
    Quota,       \* consultations of a kind in one session
    MaxDynamic,  \* MAX_DYNAMIC_TOOLS
    MaxStrays,   \* bound: runs of one tool that nobody waits for
    MaxBoots     \* bound on restarts of the process

ASSUME ToolBoxAssumption ==
    /\ Reserved \subseteq ToolNames
    /\ {MaxErrors, MaxDynamic, MaxStrays, MaxBoots} \subseteq Nat
    /\ Quota \in [{"specialists", "chaos"} -> Nat]
    /\ MaxErrors > 0

VARIABLES
    box,       \* code_tools: the row of a name
    dynamic,   \* dynamic tools in memory
    savedTools,     \* dynamic tools in their row of agent memory
    consults,  \* consultSpecialistsCount and consultChaosCount of a session
    calling,   \* the call a session waits for
    strays,    \* sandbox runs of a name that go on after their timeout
    boots,     \* restarts so far
    fails,     \* history: failed runs recorded since the code was stored
    asked      \* history: consultations a session has started

toolVars == <<box, dynamic, savedTools, consults, calling, strays, boots, fails, asked>>

NoTool == [there |-> FALSE, enabled |-> FALSE, errors |-> 0]
NewTool == [there |-> TRUE, enabled |-> TRUE, errors |-> 0]
NoCalling == [kind |-> "none"]
Sandbox(n) == [kind |-> "sandbox", name |-> n]
Consultation(k) == [kind |-> k]

Kinds == DOMAIN Quota
NoConsults == [s \in AgentRuns |-> [k \in Kinds |-> 0]]

NotCalling(s) == calling[s] = NoCalling

-----------------------------------------------------------------------------
(* Dynamic tools.                                                          *)

\* Mutant: what is savedTools is what was there before.
SavedBefore == savedTools' = dynamic

Persist == savedTools' = dynamic'

\* create_tool: a known name is replaced, a new one needs room.
CreateTool(s, n) ==
    /\ NotCalling(s)
    /\ n \notin Reserved
    /\ n \in dynamic \/ Cardinality(dynamic) < MaxDynamic
    /\ dynamic' = dynamic \cup {n}
    /\ Persist
    /\ UNCHANGED <<box, consults, calling, strays, boots, fails, asked>>

-----------------------------------------------------------------------------
(* Code tools.                                                             *)

\* Mutant: new code keeps the errors of the old one.
EditedRow(row) == [row EXCEPT !.enabled = TRUE]

\* What an UPDATE makes of a row: the count is reset, the tool enabled.
Updated(row) == [row EXCEPT !.enabled = TRUE, !.errors = 0]

Store(n, row) ==
    /\ box' = [box EXCEPT ![n] = row]
    /\ fails' = [fails EXCEPT ![n] = 0]
    /\ UNCHANGED <<dynamic, savedTools, consults, calling, strays, boots, asked>>

CreateCodeTool(s, n) == NotCalling(s) /\ ~box[n].there /\ Store(n, NewTool)
EditCodeTool(s, n) == NotCalling(s) /\ box[n].there /\ Store(n, Updated(box[n]))
DeleteCodeTool(s, n) == NotCalling(s) /\ box[n].there /\ Store(n, NoTool)

SandboxStarts(s, n) ==
    /\ calling' = [calling EXCEPT ![s] = Sandbox(n)]
    /\ UNCHANGED <<box, dynamic, savedTools, consults, strays, boots, fails, asked>>

\* A call of code_<name> needs an enabled tool, a test of it does not.
CallsCode(s, n) == NotCalling(s) /\ box[n].there /\ box[n].enabled /\ SandboxStarts(s, n)
TestsCode(s, n) == NotCalling(s) /\ box[n].there /\ SandboxStarts(s, n)

\* Mutant: the count of errors is looked at before it is raised.
FailedStale(row) ==
    [row EXCEPT !.errors = @ + 1, !.enabled = @ /\ row.errors < MaxErrors]

Failed(row) == [row EXCEPT !.errors = @ + 1, !.enabled = @ /\ row.errors + 1 < MaxErrors]

\* recordRun goes by the name: a row that is gone takes nothing, a row that
\* is there the outcome of whatever code was run under its name.
RecordRun(n, ok) ==
    IF ok \/ ~box[n].there THEN UNCHANGED <<box, fails>>
    ELSE /\ box[n].errors <= MaxErrors  \* bound: tests may go on failing
         /\ box' = [box EXCEPT ![n] = Failed(@)]
         /\ fails' = [fails EXCEPT ![n] = @ + 1]

SandboxEnds(s, ok) ==
    /\ calling[s].kind = "sandbox"
    /\ RecordRun(calling[s].name, ok)
    /\ calling' = [calling EXCEPT ![s] = NoCalling]
    /\ UNCHANGED <<dynamic, savedTools, consults, strays, boots, asked>>

\* The worker has its own timer, three times as long as that of the call.
StrayEnds(n, ok) ==
    /\ strays[n] > 0
    /\ strays' = [strays EXCEPT ![n] = @ - 1]
    /\ RecordRun(n, ok)
    /\ UNCHANGED <<dynamic, savedTools, consults, calling, boots, asked>>

-----------------------------------------------------------------------------
(* Consultations, timeouts, runs and restarts.                             *)

\* Mutant: only a consultation that ends is counted.
CountedLater(s, k) == UNCHANGED consults

\* Counted before the models are asked, whatever becomes of it.
Counted(s, k) == consults' = [consults EXCEPT ![s][k] = @ + 1]

Consults(s, k) ==
    /\ NotCalling(s)
    /\ consults[s][k] < Quota[k]
    /\ asked[s][k] <= Quota[k]  \* bound of the history
    /\ Counted(s, k)
    /\ asked' = [asked EXCEPT ![s][k] = @ + 1]
    /\ calling' = [calling EXCEPT ![s] = Consultation(k)]
    /\ UNCHANGED <<box, dynamic, savedTools, strays, boots, fails>>

\* The answer, a failure or a timeout, after which nobody looks at it.
ConsultEnds(s) ==
    /\ calling[s].kind \in Kinds
    /\ calling' = [calling EXCEPT ![s] = NoCalling]
    /\ UNCHANGED <<box, dynamic, savedTools, consults, strays, boots, fails, asked>>

\* The model gets a timeout and goes on; the sandbox does not see the signal.
CallTimesOut(s) ==
    /\ calling[s].kind = "sandbox"
    /\ strays[calling[s].name] < MaxStrays
    /\ calling' = [calling EXCEPT ![s] = NoCalling]
    /\ strays' = [strays EXCEPT ![calling[s].name] = @ + 1]
    /\ UNCHANGED <<box, dynamic, savedTools, consults, boots, fails, asked>>

\* A run ends and another begins with quotas of its own.
NextSession(s) ==
    /\ NotCalling(s) /\ asked[s] # NoConsults[s]
    /\ consults' = [consults EXCEPT ![s] = NoConsults[s]]
    /\ asked' = [asked EXCEPT ![s] = NoConsults[s]]
    /\ UNCHANGED <<box, dynamic, savedTools, calling, strays, boots, fails>>

ToolBoot ==
    /\ boots < MaxBoots
    /\ boots' = boots + 1
    /\ dynamic' = savedTools \ Reserved
    /\ calling' = [s \in AgentRuns |-> NoCalling]
    /\ strays' = [n \in CodeNames |-> 0]
    /\ consults' = NoConsults
    /\ asked' = NoConsults
    /\ UNCHANGED <<box, savedTools, fails>>

-----------------------------------------------------------------------------
ToolInit ==
    /\ box = [n \in CodeNames |-> NoTool]
    /\ dynamic = {} /\ savedTools = {}
    /\ consults = NoConsults
    /\ calling = [s \in AgentRuns |-> NoCalling]
    /\ strays = [n \in CodeNames |-> 0]
    /\ boots = 0
    /\ fails = [n \in CodeNames |-> 0]
    /\ asked = NoConsults

ToolNext ==
    \/ \E s \in AgentRuns :
        \/ \E k \in Kinds : Consults(s, k)
        \/ ConsultEnds(s) \/ CallTimesOut(s) \/ NextSession(s)
        \/ \E ok \in BOOLEAN : SandboxEnds(s, ok)
        \/ \E n \in ToolNames : CreateTool(s, n)
        \/ \E n \in CodeNames :
            \/ CreateCodeTool(s, n) \/ EditCodeTool(s, n) \/ DeleteCodeTool(s, n)
            \/ CallsCode(s, n) \/ TestsCode(s, n)
    \/ \E n \in CodeNames, ok \in BOOLEAN : StrayEnds(n, ok)
    \/ ToolBoot

ToolSpec == ToolInit /\ [][ToolNext]_toolVars

-----------------------------------------------------------------------------
(* Properties.                                                             *)

\* A code tool is disabled exactly when MaxErrors runs have failed under its
\* name since its code was stored, be they calls, tests or runs whose caller
\* has gone (CodeToolRegistry.recordRun, CodeToolsTable.update).
ThreeStrikes == \A n \in CodeNames : box[n].there => (box[n].enabled <=> fails[n] < MaxErrors)

\* Timeouts and failures included, a session starts no more consultations
\* than its quota (consult_specialists,
\* consult_chaos).
QuotaHolds == \A s \in AgentRuns, k \in Kinds : asked[s][k] <= Quota[k]

\* What a restart would load is what agents are offered now, within the cap.
SavedAsOffered == savedTools = dynamic /\ Cardinality(dynamic) <= MaxDynamic

\* The three limits hold together, whatever calls go on after their timeout.
ToolLimitsHold == ThreeStrikes /\ QuotaHolds /\ SavedAsOffered
=============================================================================
