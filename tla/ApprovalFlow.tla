---------------------------- MODULE ApprovalFlow ----------------------------
(***************************************************************************)
(* Operator approval of gated tool calls.                                  *)
(*                                                                         *)
(* Agents issue tool calls; a call is a key, the pair (tool name, canonical *)
(* arguments).  The approval gate is a tool.execute.before hook            *)
(* (agent/plugins-internal/approval-gate) which reads the approvals table  *)
(* and lets a gated call run only on a fresh "approved" row; otherwise it  *)
(* refuses, inserting a pending row and prompting the operator when there  *)
(* is nothing to wait for.  The operator's Telegram buttons                *)
(* (agent/src/telegram/bot/approvals.ts) and the sweeper                   *)
(* (agent/src/scheduler/approval-sweeper.ts) resolve pending rows.  The    *)
(* server has the sweeper but does not start it: installApprovalSweeper    *)
(* (server/src/app/schedulers.ts) has no caller, so SweeperInstalled is    *)
(* FALSE of the server as it is wired and TRUE of the design.              *)
(*                                                                         *)
(* Each handler runs on the event loop without an await between its reads  *)
(* and its writes of the table, so it is one action here; what interleaves *)
(* are the handlers, the clock, prompts in flight and process restarts.    *)
(* When Faults is TRUE a statement of a handler may also fail, or the      *)
(* process may die between two statements that share no transaction.       *)
(***************************************************************************)
EXTENDS Integers, FiniteSets

CONSTANTS
    Agents,     \* concurrent agent loops
    Keys,       \* (tool_name, args_hash) pairs that agents may call
    NoKey,      \* stands for no call
    Gated,      \* the keys for which requiresApproval is true
    RowIds,     \* ids available to the approvals table
    TTL,        \* APPROVAL_TTL_SEC, in clock units
    Horizon,    \* bound: no new tool call is issued after this instant
    MaxRestarts,\* bound on process restarts
    Faults,     \* whether database statements may fail
    SweeperInstalled \* whether the process starts the sweeper

ASSUME ConstantsAssumption ==
    /\ Gated \subseteq Keys
    /\ NoKey \notin Keys
    /\ TTL \in Nat
    /\ Horizon \in Nat
    /\ MaxRestarts \in Nat
    /\ Faults \in BOOLEAN
    /\ SweeperInstalled \in BOOLEAN

VARIABLES
    now,        \* Date.now() in clock units
    approvals,  \* the approvals table: row id -> row
    audit,      \* metrics_log rows of kind approval_decision: <<row id, status>>
    prompt,     \* what became of the Telegram message of a row
    call,       \* agent -> the key whose handler it is running, or NoKey
    answer,     \* agent -> what its last call was told
    operator,   \* resolveOperatorChat() # null
    restarts    \* process restarts so far

vars == <<now, approvals, audit, prompt, call, answer, operator, restarts>>

NoTime == -1                     \* resolved_at IS NULL

Statuses == {"pending", "approved", "denied", "expired"}
Decisions == {"approved", "denied"}
Answers == {"none", "awaiting_approval", "approval_denied",
            "approval_unavailable", "result"}

\* A row that was never inserted has status "absent".
ApprovalRow == [key : Keys \cup {NoKey}, status : Statuses \cup {"absent"},
                requested : Nat, resolved : Nat \cup {NoTime}]

AbsentRow == [key |-> NoKey, status |-> "absent", requested |-> 0, resolved |-> NoTime]

Rows == {r \in RowIds : approvals[r].status # "absent"}
RowsOf(k) == {r \in Rows : approvals[r].key = k}

-----------------------------------------------------------------------------
(* Reads of the table.                                                      *)

\* getByToolAndHash: ORDER BY requested_at DESC LIMIT 1.  SQLite may return
\* any of the rows that tie for the latest request.
LatestRows(k) ==
    {r \in RowsOf(k) : \A s \in RowsOf(k) : approvals[s].requested <= approvals[r].requested}

\* isFresh: the age is counted from the decision when there is one.
IsFresh(r) ==
    LET anchor == IF approvals[r].resolved # NoTime THEN approvals[r].resolved
                                                    ELSE approvals[r].requested
    IN  now - anchor <= TTL

\* Mutant: whatever is not denied may run.
MayRunUnlessDenied(r) == approvals[r].status # "denied" /\ IsFresh(r)

\* The three tests the hook makes on the row it found.
MayRun(r) == approvals[r].status = "approved" /\ IsFresh(r)
IsAwaiting(r) == approvals[r].status = "pending"

\* Mutant: a denial lapses like an approval.
IsDeniedWhileFresh(r) == approvals[r].status = "denied" /\ IsFresh(r)
IsDenied(r) == approvals[r].status = "denied"

\* No decision to apply and none to wait for: no row at all, or the one found
\* is expired or a stale approval.
NeedsRequest(k) ==
    \/ RowsOf(k) = {}
    \/ \E r \in LatestRows(k) : ~MayRun(r) /\ ~IsAwaiting(r) /\ ~IsDenied(r)

\* The sweeper's WHERE clause.
Overdue(r) == IsAwaiting(r) /\ approvals[r].requested + TTL < now

-----------------------------------------------------------------------------
(* Writes of the table, each with the audit row the code adds.              *)

\* The table after INSERT of a pending row r for k.
Inserted(r, k) ==
    [approvals EXCEPT ![r] = [key |-> k, status |-> "pending",
                              requested |-> now, resolved |-> NoTime]]

\* logApprovalDecision.
Logged(r, status) == audit \cup {<<r, status>>}

\* updateStatus and the sweeper's UPDATE: the status and resolved_at = now.
Resolve(r, status) == [approvals[r] EXCEPT !.status = status, !.resolved = now]

\* The table after a sweep.
Swept == [r \in RowIds |-> IF Overdue(r) THEN Resolve(r, "expired") ELSE approvals[r]]

SweepAudit == {<<r, "expired">> : r \in {s \in RowIds : Overdue(s)}}

\* The partial unique index on (tool_name, args_hash) WHERE status = 'pending'.
UniquePending(k) == \A r \in RowsOf(k) : ~IsAwaiting(r)

-----------------------------------------------------------------------------
(* Tool calls: the before-hook and the handler it guards.                   *)

Idle(a) == call[a] = NoKey

\* Horizon bounds the clock values at which agents still issue calls, so that
\* the clock can always run past the TTL of every row.
MayCall(a) == Idle(a) /\ now <= Horizon

StartHandler(a, k) ==
    /\ call' = [call EXCEPT ![a] = k]
    /\ answer' = [answer EXCEPT ![a] = "none"]
    /\ UNCHANGED <<now, approvals, audit, prompt, operator, restarts>>

Refuse(a, code) ==
    /\ answer' = [answer EXCEPT ![a] = code]
    /\ UNCHANGED <<now, call, operator, restarts>>

\* A tool outside the gated list passes the hook.
CallUngated(a, k) ==
    /\ MayCall(a) /\ k \notin Gated
    /\ StartHandler(a, k)

\* No operator chat is configured: refuse without touching the table.
CallUnavailable(a, k) ==
    /\ MayCall(a) /\ k \in Gated /\ ~operator
    /\ Refuse(a, "approval_unavailable")
    /\ UNCHANGED <<approvals, audit, prompt>>

CallApproved(a, k) ==
    /\ MayCall(a) /\ k \in Gated /\ operator
    /\ \E r \in LatestRows(k) : MayRun(r)
    /\ StartHandler(a, k)

CallAwaiting(a, k) ==
    /\ MayCall(a) /\ k \in Gated /\ operator
    /\ \E r \in LatestRows(k) : IsAwaiting(r)
    /\ Refuse(a, "awaiting_approval")
    /\ UNCHANGED <<approvals, audit, prompt>>

CallDenied(a, k) ==
    /\ MayCall(a) /\ k \in Gated /\ operator
    /\ \E r \in LatestRows(k) : IsDenied(r)
    /\ Refuse(a, "approval_denied")
    /\ UNCHANGED <<approvals, audit, prompt>>

\* Insert a pending row, log it, hand it to the notifier, and refuse.
CallRequests(a, k, r) ==
    /\ MayCall(a) /\ k \in Gated /\ operator
    /\ r \notin Rows
    /\ NeedsRequest(k) /\ UniquePending(k)
    /\ approvals' = Inserted(r, k)
    /\ audit' = Logged(r, "pending")
    /\ prompt' = [prompt EXCEPT ![r] = "sending"]
    /\ Refuse(a, "awaiting_approval")

\* The handler settles, or the tool timeout answers in its place.
ToolReturns(a) ==
    /\ ~Idle(a)
    /\ call' = [call EXCEPT ![a] = NoKey]
    /\ answer' = [answer EXCEPT ![a] = "result"]
    /\ UNCHANGED <<now, approvals, audit, prompt, operator, restarts>>

-----------------------------------------------------------------------------
(* Failures inside the hook.  The dispatcher logs what a hook throws and    *)
(* goes on to the next hook, after the last of which the handler starts.    *)

\* The lookup throws; or the insert throws and the catch block finds no
\* pending row, so that it rethrows.
HookThrows(a, k) ==
    /\ Faults /\ MayCall(a) /\ k \in Gated /\ operator
    /\ StartHandler(a, k)

\* The row is inserted but logging it throws: the catch block finds the row
\* pending and refuses, without calling the notifier.
RequestUnlogged(a, k, r) ==
    /\ Faults /\ MayCall(a) /\ k \in Gated /\ operator
    /\ r \notin Rows
    /\ NeedsRequest(k) /\ UniquePending(k)
    /\ approvals' = Inserted(r, k)
    /\ Refuse(a, "awaiting_approval")
    /\ UNCHANGED <<audit, prompt>>

-----------------------------------------------------------------------------
(* The operator and the sweeper.                                            *)

PromptShown(r) ==
    /\ prompt[r] = "sending"
    /\ prompt' = [prompt EXCEPT ![r] = "shown"]
    /\ UNCHANGED <<now, approvals, audit, call, answer, operator, restarts>>

\* A failed send is logged and never retried.
PromptLost(r) ==
    /\ prompt[r] = "sending"
    /\ prompt' = [prompt EXCEPT ![r] = "none"]
    /\ UNCHANGED <<now, approvals, audit, call, answer, operator, restarts>>

\* Mutant: the callback trusts the button, not the row.
ClickAnyRow(r) == r \in Rows

\* What the callback requires of the row: it is pending (the early return) and
\* its resolved_at is null (the UPDATE).  Otherwise nothing changes.
ClickAccepted(r) == IsAwaiting(r) /\ approvals[r].resolved = NoTime

\* A button stays clickable after a decision, and updates may be redelivered.
Click(r, decision) ==
    /\ prompt[r] = "shown"
    /\ ClickAccepted(r)
    /\ approvals' = [approvals EXCEPT ![r] = Resolve(r, decision)]
    /\ audit' = Logged(r, decision)
    /\ UNCHANGED <<now, prompt, call, answer, operator, restarts>>

\* The status is updated, and logging it fails.
ClickUnlogged(r, decision) ==
    /\ Faults
    /\ prompt[r] = "shown"
    /\ ClickAccepted(r)
    /\ approvals' = [approvals EXCEPT ![r] = Resolve(r, decision)]
    /\ UNCHANGED <<now, audit, prompt, call, answer, operator, restarts>>

ExpireOverdue == approvals' = Swept /\ audit' = audit \cup SweepAudit

Sweep ==
    /\ SweeperInstalled
    /\ \E r \in RowIds : Overdue(r)
    /\ ExpireOverdue
    /\ UNCHANGED <<now, prompt, call, answer, operator, restarts>>

\* The process dies and starts again: running handlers and unsent prompts are
\* gone, the environment may differ, and ApprovalSweeper.start ticks at once
\* where it is installed.
Restart ==
    /\ restarts < MaxRestarts
    /\ restarts' = restarts + 1
    /\ call' = [a \in Agents |-> NoKey]
    /\ answer' = [a \in Agents |-> "none"]
    /\ prompt' = [r \in RowIds |-> IF prompt[r] = "shown" THEN "shown" ELSE "none"]
    /\ operator' \in BOOLEAN
    /\ IF SweeperInstalled THEN ExpireOverdue ELSE UNCHANGED <<approvals, audit>>
    /\ UNCHANGED now

\* One second past the TTL of the last possible request is enough.
Tick ==
    /\ now < Horizon + TTL + 1
    /\ now' = now + 1
    /\ UNCHANGED <<approvals, audit, prompt, call, answer, operator, restarts>>

-----------------------------------------------------------------------------
Init ==
    /\ now = 0
    /\ approvals = [r \in RowIds |-> AbsentRow]
    /\ audit = {}
    /\ prompt = [r \in RowIds |-> "none"]
    /\ call = [a \in Agents |-> NoKey]
    /\ answer = [a \in Agents |-> "none"]
    /\ operator \in BOOLEAN
    /\ restarts = 0

AgentStep(a) ==
    \/ ToolReturns(a)
    \/ \E k \in Keys :
        \/ CallUngated(a, k)
        \/ CallUnavailable(a, k)
        \/ CallApproved(a, k)
        \/ CallAwaiting(a, k)
        \/ CallDenied(a, k)
        \/ HookThrows(a, k)
        \/ \E r \in RowIds : CallRequests(a, k, r) \/ RequestUnlogged(a, k, r)

OperatorStep ==
    \E r \in RowIds :
        \/ PromptShown(r)
        \/ PromptLost(r)
        \/ \E d \in Decisions : Click(r, d) \/ ClickUnlogged(r, d)

Next ==
    \/ \E a \in Agents : AgentStep(a)
    \/ OperatorStep
    \/ Sweep
    \/ Restart
    \/ Tick

\* The clock advances and the interval timer of a sweeper that was started
\* keeps firing; nobody obliges the operator to answer or the prompt to arrive.
Fairness == WF_vars(Tick) /\ WF_vars(Sweep)

Spec == Init /\ [][Next]_vars /\ Fairness

-----------------------------------------------------------------------------
(* Properties.                                                              *)

\* A row has a key once inserted, and a resolution time once resolved.
WellFormed(row) ==
    /\ row.status = "absent" <=> row.key = NoKey
    /\ row.status \in {"absent", "pending"} <=> row.resolved = NoTime

TypeOK ==
    /\ now \in Nat
    /\ approvals \in [RowIds -> ApprovalRow]
    /\ \A r \in RowIds : WellFormed(approvals[r])
    /\ audit \subseteq RowIds \X Statuses
    /\ prompt \in [RowIds -> {"none", "sending", "shown"}]
    /\ call \in [Agents -> Keys \cup {NoKey}]
    /\ answer \in [Agents -> Answers]
    /\ operator \in BOOLEAN
    /\ restarts \in Nat

\* A row that still matters, one that is waiting or denied, is the only latest
\* row of its key: the gate's LIMIT 1 lookup can neither miss it behind a later
\* request nor confuse it with another row of the same second.
LiveRowIsLatest ==
    \A r \in Rows : approvals[r].status \in {"pending", "denied"} =>
        \A s \in RowsOf(approvals[r].key) \ {r} : approvals[s].requested < approvals[r].requested

\* A handler of a gated tool runs only for a key the operator approved.
RunningIsApproved ==
    \A a \in Agents : call[a] \in Gated =>
        \E r \in RowsOf(call[a]) : approvals[r].status = "approved"

\* Each row's audit entries are exactly its request and its decision.
AuditTrail ==
    audit = {<<r, "pending">> : r \in Rows}
                \cup {<<r, approvals[r].status>> : r \in Rows}

\* Once a call was denied, no agent starts it again, whatever approvals the
\* same key was given earlier and however many agents retry it.
NoRunAfterDenial ==
    [][\A a \in Agents : (Idle(a) /\ ~Idle(a)') =>
          \A r \in RowsOf(call'[a]) : approvals[r].status # "denied"]_vars

\* A decision is final: clicks, redelivered updates, sweeps and restarts never
\* change a resolved row.
DecisionIsFinal ==
    [][\A r \in Rows : ~IsAwaiting(r) => approvals'[r] = approvals[r]]_vars

\* No row waits forever, even when its prompt was never shown: the sweeper
\* frees the key for a new request.
PendingResolves ==
    \A r \in RowIds : (approvals[r].status = "pending") ~> (approvals[r].status # "pending")

=============================================================================
