----------------------------- MODULE ServerProofs -----------------------------
(***************************************************************************)
(* Proofs about what the server keeps and tells: ApprovalFlow, for all     *)
(* agents, keys, row ids and bounds, ServerLife, for any number of days,   *)
(* restores, losses and versions, and ToolCalls, for all runs, clients and *)
(* names of tools.                                                         *)
(*                                                                         *)
(* For the approvals the inductive invariant IInv adds to LiveRowIsLatest  *)
(* what relates the times in a row to the clock: a row that no longer      *)
(* matters was requested strictly before now, which is why the next        *)
(* request for its key gets a strictly later requested_at.  For the calls  *)
(* CallsInv says of each call what it has not done yet, of what runs are   *)
(* offered why they may have it, and of a userbot whose flag is down who   *)
(* will raise it or that it is known to have failed.                       *)
(***************************************************************************)
EXTENDS ApprovalFlow, ServerLife, ToolCalls, SequenceTheorems, TLAPS


RowTimes ==
    \A r \in RowIds :
        /\ approvals[r].requested <= now
        /\ approvals[r].resolved # NoTime =>
              approvals[r].requested <= approvals[r].resolved /\ approvals[r].resolved <= now
        /\ approvals[r].status = "expired" => approvals[r].requested + TTL < now

\* Only gated calls are ever requested.
RowsAreGated == \A r \in Rows : approvals[r].key \in Gated

IInv == TypeOK /\ RowTimes /\ RowsAreGated /\ LiveRowIsLatest

\* The three ways in which a step can change the table.
Inserts == \E r \in RowIds, k \in Keys :
              /\ r \notin Rows /\ k \in Gated /\ NeedsRequest(k)
              /\ approvals' = Inserted(r, k)
              /\ now' = now
Decides == \E r \in RowIds, d \in Decisions :
              /\ ClickAccepted(r)
              /\ approvals' = [approvals EXCEPT ![r] = Resolve(r, d)]
              /\ now' = now
Sweeps == approvals' = Swept /\ now' = now
Keeps == approvals' = approvals /\ (now' = now \/ now' = now + 1)

USE DEF NoTime

-----------------------------------------------------------------------------
\* Type correctness: rows, audit entries, prompts and calls keep their types,
\* and exactly the resolved rows carry a resolution time.
LEMMA TypeInit == Init => TypeOK
BY ConstantsAssumption DEF Init, TypeOK, WellFormed, AbsentRow, ApprovalRow, Answers

\* What each kind of update writes is again a well-formed row.
LEMMA UpdatedRows ==
    ASSUME TypeOK, NEW r \in RowIds
    PROVE  /\ \A k \in Keys :
                LET row == [key |-> k, status |-> "pending",
                            requested |-> now, resolved |-> NoTime]
                IN  row \in ApprovalRow /\ WellFormed(row)
           /\ \A d \in Decisions \cup {"expired"} :
                IsAwaiting(r) => Resolve(r, d) \in ApprovalRow /\ WellFormed(Resolve(r, d))
<1>1. ASSUME NEW k \in Keys, NEW row,
             row = [key |-> k, status |-> "pending", requested |-> now, resolved |-> NoTime]
      PROVE  row \in ApprovalRow /\ WellFormed(row)
    BY <1>1, ConstantsAssumption DEF TypeOK, ApprovalRow, WellFormed, Statuses
<1>2. ASSUME NEW d \in Decisions \cup {"expired"}, IsAwaiting(r)
      PROVE  Resolve(r, d) \in ApprovalRow /\ WellFormed(Resolve(r, d))
    <2>1. approvals[r] \in ApprovalRow /\ approvals[r].key # NoKey /\ now # NoTime
        BY <1>2 DEF TypeOK, WellFormed, IsAwaiting
    <2>2. d \in Statuses /\ d \notin {"absent", "pending"}
        BY DEF Decisions, Statuses
    <2>3. Resolve(r, d) \in ApprovalRow
        BY <2>1, <2>2 DEF Resolve, ApprovalRow, TypeOK
    <2>4. /\ Resolve(r, d).key = approvals[r].key
          /\ Resolve(r, d).status = d /\ Resolve(r, d).resolved = now
        BY <2>1 DEF Resolve, ApprovalRow
    <2> QED
        BY <2>1, <2>2, <2>3, <2>4 DEF WellFormed
<1> QED
    BY <1>1, <1>2

LEMMA TableType ==
    ASSUME TypeOK, Inserts \/ Decides \/ Sweeps \/ Keeps
    PROVE  approvals' \in [RowIds -> ApprovalRow] /\ \A s \in RowIds : WellFormed(approvals'[s])
<1>1. CASE Inserts
    BY <1>1, UpdatedRows DEF Inserts, Inserted, TypeOK
<1>2. CASE Decides
    BY <1>2, UpdatedRows DEF Decides, ClickAccepted, TypeOK
<1>3. CASE Sweeps
    BY <1>3, UpdatedRows DEF Sweeps, Swept, Overdue, TypeOK
<1>4. CASE Keeps
    BY <1>4 DEF Keeps, TypeOK
<1> QED
    BY <1>1, <1>2, <1>3, <1>4

\* Every step changes the table and the clock in one of these ways.
LEMMA StepKinds ==
    ASSUME [Next]_vars
    PROVE  Inserts \/ Decides \/ Sweeps \/ Keeps
<1>1. ASSUME NEW a \in Agents, AgentStep(a) PROVE Inserts \/ Keeps
    <2>1. ASSUME NEW k \in Keys, NEW r \in RowIds,
                 CallRequests(a, k, r) \/ RequestUnlogged(a, k, r)
          PROVE  Inserts
        BY <2>1 DEF CallRequests, RequestUnlogged, Refuse, Inserts
    <2> QED
        BY <1>1, <2>1 DEF AgentStep, ToolReturns, CallUngated, CallUnavailable, CallApproved,
              CallAwaiting, CallDenied, HookThrows, StartHandler, Refuse, Keeps
<1>2. CASE OperatorStep
    BY <1>2 DEF OperatorStep, PromptShown, PromptLost, Click, ClickUnlogged, Decides, Keeps
<1>3. CASE Sweep \/ Restart
    BY <1>3 DEF Sweep, Restart, ExpireOverdue, Sweeps, Keeps
<1>4. CASE Tick \/ UNCHANGED vars
    BY <1>4 DEF Tick, vars, Keeps
<1> QED
    BY <1>1, <1>2, <1>3, <1>4 DEF Next

LEMMA TypeStep == TypeOK /\ [Next]_vars => TypeOK'
<1> SUFFICES ASSUME TypeOK, [Next]_vars PROVE TypeOK'
    OBVIOUS
<1> USE ConstantsAssumption
<1>0. approvals' \in [RowIds -> ApprovalRow] /\ \A s \in RowIds : WellFormed(approvals'[s])
    BY TableType, StepKinds
<1>1. ASSUME NEW a \in Agents, AgentStep(a) PROVE TypeOK'
    <2>1. CASE ToolReturns(a)
        BY <2>1 DEF ToolReturns, TypeOK, Answers
    <2>2. ASSUME NEW k \in Keys,
                 CallUngated(a, k) \/ CallApproved(a, k) \/ HookThrows(a, k)
          PROVE  TypeOK'
        BY <2>2 DEF CallUngated, CallApproved, HookThrows, StartHandler, TypeOK, Answers
    <2>3. ASSUME NEW k \in Keys,
                 CallUnavailable(a, k) \/ CallAwaiting(a, k) \/ CallDenied(a, k)
          PROVE  TypeOK'
        BY <2>3 DEF CallUnavailable, CallAwaiting, CallDenied, Refuse, TypeOK, Answers
    <2>4. ASSUME NEW k \in Keys, NEW r \in RowIds,
                 CallRequests(a, k, r) \/ RequestUnlogged(a, k, r)
          PROVE  TypeOK'
        <3>1. audit' \subseteq RowIds \X Statuses
            BY <2>4 DEF CallRequests, RequestUnlogged, TypeOK, Statuses, Logged
        <3>2. prompt' \in [RowIds -> {"none", "sending", "shown"}]
            BY <2>4 DEF CallRequests, RequestUnlogged, TypeOK
        <3>3. /\ now' = now /\ call' = call /\ operator' = operator /\ restarts' = restarts
              /\ answer' \in [Agents -> Answers]
            BY <2>4 DEF CallRequests, RequestUnlogged, Refuse, TypeOK, Answers
        <3> QED
            BY <1>0, <3>1, <3>2, <3>3 DEF TypeOK
    <2> QED
        BY <1>1, <2>1, <2>2, <2>3, <2>4 DEF AgentStep
<1>2. CASE OperatorStep
    <2>1. ASSUME NEW r \in RowIds, PromptShown(r) \/ PromptLost(r) PROVE TypeOK'
        BY <2>1 DEF PromptShown, PromptLost, TypeOK
    <2>2. ASSUME NEW r \in RowIds, NEW d \in Decisions, Click(r, d) \/ ClickUnlogged(r, d)
          PROVE  TypeOK'
        <3>1. audit' \subseteq RowIds \X Statuses
            BY <2>2 DEF Click, ClickUnlogged, TypeOK, Statuses, Logged, Decisions
        <3>2. UNCHANGED <<now, prompt, call, answer, operator, restarts>>
            BY <2>2 DEF Click, ClickUnlogged
        <3> QED
            BY <1>0, <3>1, <3>2 DEF TypeOK
    <2> QED
        BY <1>2, <2>1, <2>2 DEF OperatorStep
<1>3. SweepAudit \subseteq RowIds \X Statuses
    BY DEF SweepAudit, Statuses
<1>4. CASE Sweep
    BY <1>3, <1>4, <1>0 DEF Sweep, ExpireOverdue, TypeOK
<1>5. CASE Restart
    <2>1. prompt' \in [RowIds -> {"none", "sending", "shown"}]
        BY <1>5 DEF Restart
    <2>2. call' \in [Agents -> Keys \cup {NoKey}] /\ answer' \in [Agents -> Answers]
        BY <1>5 DEF Restart, Answers
    <2> QED
        BY <1>3, <1>5, <2>1, <2>2, <1>0 DEF Restart, ExpireOverdue, TypeOK
<1>6. CASE Tick
    BY <1>6 DEF Tick, TypeOK
<1>7. CASE UNCHANGED vars
    BY <1>7 DEF vars, TypeOK
<1> QED
    BY <1>1, <1>2, <1>4, <1>5, <1>6, <1>7 DEF Next

\* Every state of every behaviour is well typed.
THEOREM TypeCorrect == Spec => []TypeOK
BY TypeInit, TypeStep, PTL DEF Spec

-----------------------------------------------------------------------------
(* The inductive invariant.                                                *)

LEMMA InitInv == Init => IInv
BY TypeInit, ConstantsAssumption
   DEF Init, IInv, RowTimes, RowsAreGated, LiveRowIsLatest, AbsentRow, Rows

\* When the gate inserts a row for k, every row of k was requested before now.
LEMMA RequestIsLater ==
    ASSUME IInv, NEW k \in Keys, NeedsRequest(k), NEW s \in RowsOf(k)
    PROVE  approvals[s].requested < now
<1>1. PICK l \in LatestRows(k) : ~MayRun(l) /\ ~IsAwaiting(l) /\ ~IsDenied(l)
    BY DEF NeedsRequest
<1>2. l \in RowIds /\ s \in RowIds /\ approvals[s].requested <= approvals[l].requested
      /\ approvals[l].status # "absent"
    BY <1>1 DEF LatestRows, RowsOf, Rows
<1>3. approvals[l] \in ApprovalRow /\ approvals[s] \in ApprovalRow
      /\ WellFormed(approvals[l]) /\ now \in Nat
    BY <1>2 DEF IInv, TypeOK
<1>4. CASE approvals[l].status = "expired"
    BY <1>2, <1>3, <1>4, ConstantsAssumption DEF IInv, RowTimes, ApprovalRow
<1>5. CASE approvals[l].status = "approved"
    <2>1. approvals[l].resolved # NoTime /\ now - approvals[l].resolved > TTL
        BY <1>1, <1>3, <1>5, ConstantsAssumption DEF MayRun, IsFresh, WellFormed, ApprovalRow
    <2>2. approvals[l].requested <= approvals[l].resolved
        BY <1>2, <2>1 DEF IInv, RowTimes
    <2> QED
        BY <1>2, <1>3, <2>1, <2>2, ConstantsAssumption DEF ApprovalRow
<1> QED
    BY <1>1, <1>2, <1>3, <1>4, <1>5 DEF IsAwaiting, IsDenied, ApprovalRow, Statuses

\* ... and none of them is pending or denied: such a row would be the only
\* latest one, and the gate would have applied it.
LEMMA NoLiveRowBeforeRequest ==
    ASSUME IInv, NEW k \in Keys, NeedsRequest(k), NEW s \in RowsOf(k)
    PROVE  approvals[s].status \notin {"pending", "denied"}
<1>1. PICK l \in LatestRows(k) : ~MayRun(l) /\ ~IsAwaiting(l) /\ ~IsDenied(l)
    BY DEF NeedsRequest
<1>2. l \in RowsOf(k) /\ approvals[s].requested <= approvals[l].requested
      /\ approvals[s].key = k /\ s \in Rows /\ s \in RowIds /\ l \in RowIds
    BY <1>1 DEF LatestRows, RowsOf, Rows
<1>3. approvals[l].requested \in Nat /\ approvals[s].requested \in Nat
    BY <1>2 DEF IInv, TypeOK, ApprovalRow
<1> QED
    BY <1>1, <1>2, <1>3 DEF IInv, LiveRowIsLatest, IsAwaiting, IsDenied

LEMMA InsertKeepsInv ==
    ASSUME IInv, TypeOK', Inserts
    PROVE  RowTimes' /\ RowsAreGated' /\ LiveRowIsLatest'
<1>1. PICK r \in RowIds, k \in Keys :
        /\ r \notin Rows /\ k \in Gated /\ NeedsRequest(k)
        /\ approvals' = Inserted(r, k) /\ now' = now
    BY DEF Inserts
<1>2. /\ approvals'[r] = [key |-> k, status |-> "pending", requested |-> now, resolved |-> NoTime]
      /\ \A s \in RowIds \ {r} : approvals'[s] = approvals[s]
    BY <1>1 DEF IInv, TypeOK, Inserted
<1>3. RowTimes'
    BY <1>1, <1>2 DEF IInv, TypeOK, RowTimes
<1>4. \A s \in RowIds : s # r => (s \in Rows <=> s \in Rows')
                              /\ \A j : (s \in RowsOf(j) <=> s \in RowsOf(j)')
    BY <1>2 DEF Rows, RowsOf
<1>5. ASSUME NEW p \in Rows', approvals'[p].status \in {"pending", "denied"},
             NEW s \in RowsOf(approvals[p].key)' \ {p}, approvals'[s].key = approvals'[p].key
      PROVE  approvals'[s].requested < approvals'[p].requested
    <2>0. p \in RowIds /\ s \in RowIds /\ s \in Rows' /\ s # p
        BY <1>5 DEF Rows, RowsOf
    <2>1. CASE p = r
        <3>1. s \in RowsOf(k)
            BY <1>2, <1>5, <2>0, <2>1 DEF Rows, RowsOf
        <3> QED
            BY <1>1, <1>2, <2>0, <2>1, <3>1, RequestIsLater
    <2>2. CASE p # r /\ s = r
        <3>1. p \in RowsOf(k)
            BY <1>2, <1>5, <2>0, <2>2 DEF Rows, RowsOf
        <3> QED
            BY <1>1, <1>2, <1>5, <2>0, <2>2, <3>1, NoLiveRowBeforeRequest
    <2>3. CASE p # r /\ s # r
        <3>1. p \in Rows /\ s \in RowsOf(approvals[p].key) \ {p}
            BY <1>2, <1>5, <2>0, <2>3 DEF Rows, RowsOf
        <3> QED
            BY <1>2, <1>5, <2>0, <2>3, <3>1 DEF IInv, LiveRowIsLatest
    <2> QED
        BY <2>1, <2>2, <2>3
<1>6. LiveRowIsLatest'
    BY <1>5 DEF LiveRowIsLatest, RowsOf
<1>7. RowsAreGated'
    BY <1>1, <1>2 DEF IInv, RowsAreGated, Rows
<1> QED
    BY <1>3, <1>6, <1>7

\* Resolving rows keeps their keys and request times, and makes no row live.
LEMMA ResolvingKeepsInv ==
    ASSUME IInv, TypeOK', Decides \/ Sweeps
    PROVE  RowTimes' /\ RowsAreGated' /\ LiveRowIsLatest'
<1>1. ASSUME NEW s \in RowIds
      PROVE  /\ approvals'[s].key = approvals[s].key
             /\ approvals'[s].requested = approvals[s].requested
             /\ \/ approvals'[s] = approvals[s]
                \/ /\ approvals[s].status = "pending"
                   /\ approvals'[s].resolved = now
                   /\ approvals'[s].status \in Decisions \cup {"expired"}
                   /\ approvals'[s].status = "expired" => approvals[s].requested + TTL < now
    <2>1. CASE Decides
        <3>1. PICK r \in RowIds, d \in Decisions :
                IsAwaiting(r) /\ approvals' = [approvals EXCEPT ![r] = Resolve(r, d)]
            BY <2>1 DEF Decides, ClickAccepted
        <3>2. CASE s = r
            <4>1. approvals'[s] = Resolve(s, d) /\ approvals[s] \in ApprovalRow
                BY <3>1, <3>2 DEF IInv, TypeOK
            <4>2. d # "expired"
                BY DEF Decisions
            <4> QED
                BY <3>1, <3>2, <4>1, <4>2 DEF IsAwaiting, Resolve, ApprovalRow
        <3>3. CASE s # r
            BY <3>1, <3>3 DEF IInv, TypeOK
        <3> QED
            BY <3>2, <3>3
    <2>2. CASE Sweeps
        BY <2>2 DEF Sweeps, Swept, Overdue, IsAwaiting, Resolve, IInv, TypeOK, ApprovalRow
    <2> QED
        BY <2>1, <2>2
<1>2. now' = now /\ now \in Nat
    BY DEF Decides, Sweeps, IInv, TypeOK
<1>3. RowTimes'
    BY <1>1, <1>2 DEF IInv, TypeOK, RowTimes
<1>4. \A s \in RowIds : s \in Rows <=> s \in Rows'
    BY <1>1 DEF Rows, Decisions
<1>5. ASSUME NEW p \in Rows', approvals'[p].status \in {"pending", "denied"},
             NEW s \in RowsOf(approvals[p].key)' \ {p}, approvals'[s].key = approvals'[p].key
      PROVE  approvals'[s].requested < approvals'[p].requested
    <2>1. p \in RowIds /\ s \in RowIds /\ s \in Rows /\ p \in Rows /\ s # p
        BY <1>4, <1>5 DEF Rows, RowsOf
    <2>2. approvals[p].status \in {"pending", "denied"} /\ s \in RowsOf(approvals[p].key)
        BY <1>1, <1>5, <2>1 DEF RowsOf
    <2> QED
        BY <1>1, <2>1, <2>2 DEF IInv, LiveRowIsLatest
<1>6. RowsAreGated'
    BY <1>1, <1>4 DEF IInv, RowsAreGated, Rows
<1> QED
    BY <1>3, <1>5, <1>6 DEF LiveRowIsLatest, RowsOf

LEMMA StepInv == IInv /\ [Next]_vars => IInv'
<1> SUFFICES ASSUME IInv, [Next]_vars PROVE IInv'
    OBVIOUS
<1>1. TypeOK'
    BY TypeStep DEF IInv
<1>2. CASE Keeps
    <2>1. RowTimes'
        BY <1>1, <1>2, ConstantsAssumption DEF Keeps, IInv, TypeOK, RowTimes, ApprovalRow
    <2>2. LiveRowIsLatest'
        BY <1>2 DEF Keeps, IInv, LiveRowIsLatest, Rows, RowsOf
    <2>3. RowsAreGated'
        BY <1>2 DEF Keeps, IInv, RowsAreGated, Rows
    <2> QED
        BY <1>1, <2>1, <2>2, <2>3 DEF IInv
<1> QED
    BY <1>1, <1>2, StepKinds, InsertKeepsInv, ResolvingKeepsInv DEF IInv

LEMMA Inductive == Spec => []IInv
BY InitInv, StepInv, PTL DEF Spec

\* A pending or denied row is the only latest row of its key, so the gate's
\* LIMIT 1 lookup always returns it, whatever statements fail.
THEOREM LiveRows == Spec => []LiveRowIsLatest
<1>1. IInv => LiveRowIsLatest
    BY DEF IInv
<1> QED
    BY <1>1, Inductive, PTL

-----------------------------------------------------------------------------
(* Consequences.                                                           *)

LEMMA ResolvedRowsStay ==
    ASSUME TypeOK, [Next]_vars, NEW r \in Rows, ~IsAwaiting(r)
    PROVE  approvals'[r] = approvals[r]
<1>1. CASE Inserts
    BY <1>1 DEF Inserts, Inserted, Rows, TypeOK
<1>2. CASE Decides
    BY <1>2 DEF Decides, ClickAccepted, Rows, TypeOK
<1>3. CASE Sweeps
    BY <1>3 DEF Sweeps, Swept, Overdue, Rows, TypeOK
<1>4. CASE Keeps
    BY <1>4 DEF Keeps
<1> QED
    BY <1>1, <1>2, <1>3, <1>4, StepKinds

\* No step of the operator, the sweeper, a restart or a failing handler changes
\* a row once it is resolved.
THEOREM Finality == Spec => DecisionIsFinal
<1>1. TypeOK /\ [Next]_vars => [\A r \in Rows : ~IsAwaiting(r) => approvals'[r] = approvals[r]]_vars
    BY ResolvedRowsStay
<1> QED
    BY <1>1, TypeCorrect, PTL DEF Spec, DecisionIsFinal

\* Without failing statements, a handler starts only through CallUngated or
\* CallApproved.
LEMMA WhoStarts ==
    ASSUME TypeOK, Faults = FALSE, [Next]_vars, NEW a \in Agents, Idle(a), ~Idle(a)'
    PROVE  \E k \in Keys : call'[a] = k /\ (CallUngated(a, k) \/ CallApproved(a, k))
<1>1. \/ \E b \in Agents : AgentStep(b)
      \/ OperatorStep \/ Sweep \/ Restart \/ Tick \/ UNCHANGED vars
    BY DEF Next
<1>2. CASE OperatorStep \/ Sweep \/ Tick \/ UNCHANGED vars
    BY <1>2 DEF OperatorStep, PromptShown, PromptLost, Click, ClickUnlogged, Sweep, Tick, vars, Idle
<1>3. CASE Restart
    BY <1>3 DEF Restart, Idle
<1>4. ASSUME NEW b \in Agents, AgentStep(b)
      PROVE  \E k \in Keys : call'[a] = k /\ (CallUngated(a, k) \/ CallApproved(a, k))
    <2>1. CASE ToolReturns(b)
        BY <2>1 DEF ToolReturns, Idle, TypeOK
    <2>2. ASSUME NEW k \in Keys,
                 \/ CallUnavailable(b, k) \/ CallAwaiting(b, k) \/ CallDenied(b, k)
                 \/ \E r \in RowIds : CallRequests(b, k, r) \/ RequestUnlogged(b, k, r)
          PROVE  FALSE
        BY <2>2 DEF CallUnavailable, CallAwaiting, CallDenied, CallRequests, RequestUnlogged,
              Refuse, Idle
    <2>3. ASSUME NEW k \in Keys, CallUngated(b, k) \/ CallApproved(b, k)
          PROVE  b = a /\ call'[a] = k
        BY <2>3 DEF CallUngated, CallApproved, StartHandler, Idle, TypeOK
    <2> QED
        BY <1>4, <2>1, <2>2, <2>3 DEF AgentStep, HookThrows
<1> QED
    BY <1>1, <1>2, <1>3, <1>4

\* A handler's key does not change while it runs.
LEMMA RunningStays ==
    ASSUME TypeOK, [Next]_vars, NEW a \in Agents, ~Idle(a), ~Idle(a)'
    PROVE  call'[a] = call[a]
<1>1. ASSUME NEW b \in Agents, AgentStep(b) PROVE call'[a] = call[a]
    <2>1. CASE ToolReturns(b)
        BY <2>1 DEF ToolReturns, Idle, TypeOK
    <2>2. ASSUME NEW k \in Keys, NEW r \in RowIds,
                 \/ CallUnavailable(b, k) \/ CallAwaiting(b, k) \/ CallDenied(b, k)
                 \/ CallRequests(b, k, r) \/ RequestUnlogged(b, k, r)
          PROVE  call'[a] = call[a]
        BY <2>2 DEF CallUnavailable, CallAwaiting, CallDenied, CallRequests, RequestUnlogged, Refuse
    <2>3. ASSUME NEW k \in Keys, CallUngated(b, k) \/ CallApproved(b, k) \/ HookThrows(b, k)
          PROVE  call'[a] = call[a]
        BY <2>3 DEF CallUngated, CallApproved, HookThrows, StartHandler, MayCall, Idle, TypeOK
    <2> QED
        BY <1>1, <2>1, <2>2, <2>3
            DEF AgentStep, CallUnavailable, CallAwaiting, CallDenied, Refuse
<1>2. CASE OperatorStep \/ Sweep \/ Tick \/ UNCHANGED vars
    BY <1>2 DEF OperatorStep, PromptShown, PromptLost, Click, ClickUnlogged, Sweep, Tick, vars
<1>3. CASE Restart
    BY <1>3 DEF Restart, Idle
<1> QED
    BY <1>1, <1>2, <1>3 DEF Next

\* When no statement fails, no agent starts a call that was denied.
THEOREM DenialHolds ==
    ASSUME Faults = FALSE
    PROVE  Spec => NoRunAfterDenial
<1>1. ASSUME IInv, [Next]_vars, NEW a \in Agents, Idle(a), ~Idle(a)',
             NEW r \in RowsOf(call'[a]), approvals[r].status = "denied"
      PROVE  FALSE
    <2>1. PICK k \in Keys : call'[a] = k /\ (CallUngated(a, k) \/ CallApproved(a, k))
        BY <1>1, WhoStarts DEF IInv
    <2>2. r \in Rows /\ r \in RowIds /\ approvals[r].key = k
        BY <1>1, <2>1 DEF RowsOf, Rows
    <2>3. CASE CallApproved(a, k)
        <3>1. PICK l \in LatestRows(k) : approvals[l].status = "approved"
            BY <2>3 DEF CallApproved, MayRun
        <3>2. /\ l \in RowsOf(k) \ {r} /\ l \in RowIds
              /\ approvals[r].requested <= approvals[l].requested
            BY <1>1, <2>2, <3>1 DEF LatestRows, RowsOf, Rows
        <3>3. approvals[l].requested < approvals[r].requested
            BY <1>1, <2>2, <3>2 DEF IInv, LiveRowIsLatest
        <3>4. approvals[l].requested \in Nat /\ approvals[r].requested \in Nat
            BY <1>1, <2>2, <3>2 DEF IInv, TypeOK, ApprovalRow
        <3> QED
            BY <3>2, <3>3, <3>4
    <2>4. CASE CallUngated(a, k)
        BY <1>1, <2>2, <2>4 DEF CallUngated, IInv, RowsAreGated
    <2> QED
        BY <2>1, <2>3, <2>4
<1>2. IInv /\ [Next]_vars =>
        [\A a \in Agents : (Idle(a) /\ ~Idle(a)') =>
            \A r \in RowsOf(call'[a]) : approvals[r].status # "denied"]_vars
    BY <1>1
<1> QED
    BY <1>2, Inductive, PTL DEF Spec, NoRunAfterDenial

-----------------------------------------------------------------------------
\* When no statement fails, a handler of a gated tool runs only for a key with
\* an approved row, until it returns.
THEOREM GatedRunsApproved ==
    ASSUME Faults = FALSE
    PROVE  Spec => []RunningIsApproved
<1>1. Init => RunningIsApproved
    BY ConstantsAssumption DEF Init, RunningIsApproved
<1>2. ASSUME TypeOK, RunningIsApproved, [Next]_vars, NEW a \in Agents, call'[a] \in Gated
      PROVE  \E r \in RowsOf(call[a])' : approvals'[r].status = "approved"
    <2>1. ASSUME NEW k, NEW r \in RowsOf(k), approvals[r].status = "approved"
          PROVE  r \in RowsOf(k)' /\ approvals'[r].status = "approved"
        BY <1>2, <2>1, ResolvedRowsStay DEF RowsOf, Rows, IsAwaiting
    <2>2. CASE Idle(a)
        <3>1. ~Idle(a)'
            BY <1>2, ConstantsAssumption DEF Idle
        <3>2. PICK k \in Keys : call'[a] = k /\ (CallUngated(a, k) \/ CallApproved(a, k))
            BY <1>2, <2>2, <3>1, WhoStarts
        <3>3. \E r \in RowsOf(k) : approvals[r].status = "approved"
            BY <1>2, <3>2 DEF CallUngated, CallApproved, MayRun, LatestRows
        <3> QED
            BY <2>1, <3>2, <3>3
    <2>3. CASE ~Idle(a)
        <3>1. call'[a] = call[a]
            <4>1. ~Idle(a)'
                BY <1>2, ConstantsAssumption DEF Idle
            <4> QED
                BY <1>2, <2>3, <4>1, RunningStays
        <3> QED
            BY <1>2, <2>1, <3>1 DEF RunningIsApproved
    <2> QED
        BY <2>2, <2>3
<1>3. TypeOK /\ RunningIsApproved /\ [Next]_vars => RunningIsApproved'
    BY <1>2 DEF RunningIsApproved
<1> QED
    BY <1>1, <1>3, TypeCorrect, PTL DEF Spec

-----------------------------------------------------------------------------
(***************************************************************************)
(* A restore that found the database closed.  From the rename to the next  *)
(* start only the script touches the files: the server is down and has     *)
(* left no log, so what was copied is what is opened, and what was set     *)
(* aside stays.                                                            *)
(***************************************************************************)
SomeFile == [state : {"none", "whole", "mixed", "partial"}, rows : SUBSET Nat, ver : Nat]

LifeTypes ==
  /\ files \in Seq(SomeFile) /\ atPath \in 0 .. Len(files)
  /\ wal \in [of : Nat, rows : SUBSET Nat] /\ closed \in BOOLEAN
  /\ rowsWritten \in Nat /\ deployed \in Nat
  /\ server \in {"up", "down", "stopping"}
  /\ Up => opened \in DOMAIN files
  /\ today \in BackupDays
  /\ \A d \in BackupDays : backups[d] = NoBackup \/ backups[d] \in SomeFile
  /\ backups = [d \in BackupDays |-> backups[d]]

\* Nobody has the database in hand, and it has no log.
ClosedIsQuiet == closed => server = "down" /\ wal = EmptyLog

LiesAside(old) == \E f \in DOMAIN files : f # atPath /\ files[f] = old

ScriptIsSound ==
  \/ restorer = NoScript
  \/ /\ restorer = [at |-> "checked", day |-> restorer.day]
     /\ restorer.day \in BackupDays /\ Intact(backups[restorer.day])
  \/ /\ restorer = [at |-> "renamed", day |-> restorer.day, old |-> restorer.old, clean |-> restorer.clean]
     /\ restorer.day \in BackupDays /\ Intact(backups[restorer.day])
     /\ restored.at # "done"
     /\ restorer.clean => closed /\ atPath = 0 /\ LiesAside(restorer.old)

RestoredIsSound ==
  \/ restored = NoRestore
  \/ /\ restored.clean => closed /\ LiesAside(restored.old)
     /\ restored.at = "done" =>
          /\ restored.day \in BackupDays
          /\ restored.clean => /\ atPath # 0 /\ Intact(files[atPath])
                               /\ files[atPath].rows = backups[restored.day].rows

LifeInv == LifeTypes /\ ClosedIsQuiet /\ ScriptIsSound /\ RestoredIsSound

LEMMA LifeStarts == LifeInit => LifeInv
<1> SUFFICES ASSUME LifeInit PROVE LifeInv
    OBVIOUS
<1> USE LifeAssumption DEF LifeInit
<1>1. Record("whole", {}, 0) \in SomeFile
    BY DEF Record, SomeFile
<1>2. files \in Seq(SomeFile) /\ Len(files) = 1 /\ DOMAIN files = {1}
    BY <1>1
<1>3. today \in BackupDays
    BY DEF BackupDays
<1>4. \A d \in BackupDays : backups[d] = NoBackup
    OBVIOUS
<1>5. backups = [d \in BackupDays |-> backups[d]]
    OBVIOUS
<1> HIDE DEF LifeInit
<1>6. wal \in [of : Nat, rows : SUBSET Nat]
    BY DEF EmptyLog, LifeInit
<1>7. LifeTypes
    <2>1. /\ atPath \in 0 .. Len(files) /\ opened \in DOMAIN files /\ server \in {"up", "down", "stopping"}
          /\ rowsWritten \in Nat /\ deployed \in Nat
        BY <1>2 DEF LifeInit
    <2>2. closed \in BOOLEAN
        BY DEF LifeInit
    <2>. QED
        BY ONLY <1>2, <1>3, <1>4, <1>5, <1>6, <2>1, <2>2 DEF LifeTypes
<1>. QED
    BY <1>7 DEF LifeInit, LifeInv, ClosedIsQuiet, ScriptIsSound, RestoredIsSound

(* While the server is up no restore was clean, and what is intact among   *)
(* the backups stays as it is.                                             *)
LEMMA WhileUp ==
  ASSUME LifeInv, Up, UNCHANGED scriptVars,
         \A d \in BackupDays : Intact(backups[d]) => backups'[d] = backups[d]
  PROVE  ClosedIsQuiet' /\ ScriptIsSound' /\ RestoredIsSound'
<1>1. /\ ~closed /\ closed' = closed /\ restorer' = restorer /\ restored' = restored
    BY DEF LifeInv, ClosedIsQuiet, Up, scriptVars
<1>2. ScriptIsSound'
    BY <1>1 DEF LifeInv, ScriptIsSound, Intact
<1>. QED
    BY <1>1, <1>2 DEF LifeInv, ClosedIsQuiet, RestoredIsSound

LEMMA Untouched ==
  ASSUME LifeInv, UNCHANGED <<fileVars, backups, server, scriptVars>>
  PROVE  ClosedIsQuiet' /\ ScriptIsSound' /\ RestoredIsSound'
BY DEF LifeInv, fileVars, scriptVars, ClosedIsQuiet, ScriptIsSound, RestoredIsSound, LiesAside, Intact

LEMMA VacuumKeepsTypes ==
  ASSUME LifeTypes, NEW file \in SomeFile, VacuumInto(today, file)
  PROVE  /\ \A d \in BackupDays : backups'[d] = NoBackup \/ backups'[d] \in SomeFile
         /\ backups' = [d \in BackupDays |-> backups'[d]]
         /\ \A d \in BackupDays : Intact(backups[d]) => backups'[d] = backups[d]
BY DEF LifeTypes, VacuumInto, Intact

LEMMA FilesOfTypes ==
  ASSUME LifeTypes
  PROVE  /\ DOMAIN files = 1 .. Len(files) /\ Len(files) \in Nat
         /\ \A f \in DOMAIN files : files[f] \in SomeFile
         /\ Record("partial", {}, 0) \in SomeFile
<1>1. Record("partial", {}, 0) \in SomeFile
    BY DEF Record, SomeFile
<1>2. files \in Seq(SomeFile)
    BY DEF LifeTypes
<1>. QED
    BY <1>1, <1>2

LEMMA ReadTypes ==
  ASSUME LifeTypes, NEW f \in DOMAIN files
  PROVE  /\ Read(f) \in SomeFile
         /\ wal = EmptyLog => Read(f) = files[f]
<1>1. files[f] \in SomeFile /\ wal.rows \in SUBSET Nat
    BY FilesOfTypes DEF LifeTypes
<1>2. PICK file \in SomeFile : file = files[f]
    BY <1>1
<1>3. [file EXCEPT !.rows = @ \cup wal.rows] \in SomeFile
    BY <1>1 DEF SomeFile
<1>4. wal = EmptyLog => [file EXCEPT !.rows = @ \cup wal.rows] = file
    BY DEF SomeFile, EmptyLog
<1>. QED
    BY <1>2, <1>3, <1>4 DEF Read

LEMMA CheckpointTypes ==
  ASSUME LifeTypes, Up
  PROVE  Checkpointed \in Seq(SomeFile) /\ Len(Checkpointed) = Len(files)
         /\ DOMAIN Checkpointed = DOMAIN files
<1>1. opened \in DOMAIN files /\ files \in Seq(SomeFile)
    BY DEF LifeTypes
<1>2. Read(opened) \in SomeFile
    BY <1>1, ReadTypes
<1>. QED
    BY <1>1, <1>2, ExceptSeq DEF Checkpointed

LEMMA BootKeeps ==
  ASSUME LifeInv, NEW due \in BOOLEAN, Boot(due)
  PROVE  LifeInv'
<1>0. LifeTypes /\ ScriptIsSound
    BY DEF LifeInv
<1>1. /\ files' \in Seq(SomeFile) /\ atPath' \in DOMAIN files'
      /\ opened' \in DOMAIN files' /\ wal' \in [of : Nat, rows : SUBSET Nat]
    <2>1. CASE atPath = 0
        <3>1. Record("whole", {}, deployed) \in SomeFile
            BY <1>0 DEF LifeTypes, Record, SomeFile
        <3>2. files' = Append(files, Record("whole", {}, deployed)) /\ atPath' = Len(files) + 1
              /\ opened' = atPath' /\ wal' = [of |-> atPath', rows |-> {}]
            BY <2>1 DEF Boot
        <3>. QED
            BY <1>0, <3>1, <3>2, AppendProperties DEF LifeTypes
    <2>2. CASE atPath # 0
        <3>1. atPath \in DOMAIN files /\ Read(atPath) \in SomeFile /\ files[atPath] \in SomeFile
            BY <1>0, <2>2, FilesOfTypes, ReadTypes DEF LifeTypes
        <3>2. Migrated \in SomeFile
            BY <1>0, <3>1 DEF Migrated, SomeFile, LifeTypes
        <3>3. files' = [files EXCEPT ![atPath] = Migrated] /\ atPath' = atPath
              /\ opened' = atPath' /\ (wal' = wal \/ wal' = [wal EXCEPT !.of = atPath])
            BY <2>2 DEF Boot
        <3>4. wal' \in [of : Nat, rows : SUBSET Nat]
            BY <1>0, <3>3 DEF LifeTypes
        <3>. QED
            BY <1>0, <3>1, <3>2, <3>3, <3>4, ExceptSeq DEF LifeTypes
    <2>. QED
        BY <2>1, <2>2
<1>2. LifeTypes' /\ ClosedIsQuiet'
    <2>1. atPath' \in 0 .. Len(files')
        BY <1>1
    <2>2. closed' = FALSE /\ server' = "up" /\ UNCHANGED <<backups, today, countVars>>
        BY DEF Boot
    <2>. QED
        BY <1>0, <1>1, <2>1, <2>2 DEF LifeTypes, ClosedIsQuiet, countVars, Up
<1>3. RestoredIsSound'
    BY DEF Boot, RestoredIsSound
<1>4. ScriptIsSound'
    <2>1. CASE restorer.at = "renamed"
        <3>1. PICK d, old, clean : restorer = [at |-> "renamed", day |-> d, old |-> old, clean |-> clean]
            BY <1>0, <2>1 DEF ScriptIsSound, NoScript
        <3>2. restorer' = [restorer EXCEPT !.clean = FALSE]
            BY <2>1 DEF Boot
        <3>3. restorer' = [at |-> "renamed", day |-> d, old |-> old, clean |-> FALSE]
            BY <3>1, <3>2
        <3>4. restorer.day \in BackupDays /\ Intact(backups[restorer.day])
            BY <1>0, <2>1 DEF ScriptIsSound, NoScript
        <3>. QED
            BY <3>1, <3>3, <3>4 DEF Boot, ScriptIsSound, Intact, NoRestore
    <2>2. CASE restorer.at # "renamed"
        <3>1. restorer' = restorer /\ backups' = backups
            BY <2>2 DEF Boot
        <3>. QED
            BY <1>0, <2>2, <3>1 DEF ScriptIsSound, NoScript, Intact
    <2>. QED
        BY <2>1, <2>2
<1>. QED
    BY <1>2, <1>3, <1>4 DEF LifeInv

LEMMA CopyKeeps ==
  ASSUME LifeInv, CopyBackup
  PROVE  LifeInv'
<1>0. LifeTypes /\ ScriptIsSound
    BY DEF LifeInv
<1> DEFINE file == backups[restorer.day]
<1>1. /\ restorer.day \in BackupDays /\ Intact(file)
      /\ restorer = [at |-> "renamed", day |-> restorer.day, old |-> restorer.old, clean |-> restorer.clean]
      /\ restorer.clean => closed /\ LiesAside(restorer.old)
    BY <1>0 DEF CopyBackup, ScriptIsSound, NoScript
<1>2. file \in SomeFile
    BY <1>0, <1>1 DEF LifeTypes, Intact, NoBackup
<1>3. PutAtPath(file) /\ restorer' = NoScript /\ UNCHANGED <<wal, backups, processVars, today, closed, countVars>>
    BY DEF CopyBackup
<1>4. restored'.at = "done" /\ restored'.day = restorer.day /\ restored'.old = restorer.old
      /\ restored'.clean = restorer.clean
    <2>1. restored' = [restorer EXCEPT !.at = "done"]
        BY DEF CopyBackup
    <2>. QED
        BY <1>1, <2>1
<1>5. /\ files' \in Seq(SomeFile) /\ atPath' \in 1 .. Len(files') /\ Len(files') >= Len(files)
      /\ files'[atPath'] = file
      /\ \A f \in DOMAIN files : f # atPath => f \in DOMAIN files' /\ f # atPath' /\ files'[f] = files[f]
    <2> HIDE DEF file
    <2>1. CASE atPath = 0
        <3>1. files' = Append(files, file) /\ atPath' = Len(files) + 1
            BY <1>3, <2>1 DEF PutAtPath
        <3>. QED
            BY <1>0, <1>2, <3>1, AppendProperties DEF LifeTypes
    <2>2. CASE atPath # 0
        <3>1. files' = [files EXCEPT ![atPath] = file] /\ atPath' = atPath /\ atPath \in 1 .. Len(files)
            BY <1>0, <1>3, <2>2 DEF PutAtPath, LifeTypes
        <3>. QED
            BY <1>0, <1>2, <3>1, ExceptSeq DEF LifeTypes
    <2>. QED
        BY <2>1, <2>2
<1>6. LifeTypes'
    <2>1. DOMAIN files = 1 .. Len(files) /\ DOMAIN files' = 1 .. Len(files')
        BY <1>0, <1>5 DEF LifeTypes
    <2>2. server' = server /\ opened' = opened
        BY <1>3 DEF processVars
    <2>3. Up' => opened' \in DOMAIN files'
        BY <1>0, <1>5, <2>1, <2>2 DEF LifeTypes, Up
    <2>. QED
        BY <1>0, <1>3, <1>5, <2>2, <2>3 DEF LifeTypes, countVars
<1>7. ScriptIsSound' /\ ClosedIsQuiet'
    BY <1>3 DEF ScriptIsSound, LifeInv, ClosedIsQuiet, processVars
<1>8. restorer.clean => closed' /\ \E f \in DOMAIN files' : f # atPath' /\ files'[f] = restorer.old
    <2> HIDE DEF file
    <2>. QED
        BY <1>1, <1>3, <1>5 DEF LiesAside
<1>9. atPath' # 0 /\ Intact(files[atPath])' /\ files'[atPath'].rows = backups'[restorer.day].rows
    <2>1. atPath' # 0 /\ files'[atPath'] = file /\ backups' = backups
        BY <1>0, <1>3, <1>5
    <2>. QED
        BY <1>1, <2>1 DEF Intact
<1>10. RestoredIsSound'
    BY <1>1, <1>4, <1>8, <1>9 DEF RestoredIsSound, LiesAside
<1>. QED
    BY <1>6, <1>7, <1>10 DEF LifeInv

LEMMA DyingKeeps ==
  ASSUME LifeInv, ScriptDies
  PROVE  LifeInv'
<1>0. LifeTypes /\ ClosedIsQuiet /\ ScriptIsSound /\ RestoredIsSound
    BY DEF LifeInv
<1>1. restorer' = NoScript
      /\ UNCHANGED <<wal, backups, processVars, today, restored, closed, rowsWritten, deployed>>
    BY DEF ScriptDies
<1>2. ScriptIsSound' /\ ClosedIsQuiet'
    BY <1>0, <1>1 DEF ScriptIsSound, ClosedIsQuiet, processVars
<1>3. CASE UNCHANGED <<files, atPath>>
    <2>1. LifeTypes'
        BY <1>0, <1>1, <1>3 DEF LifeTypes, processVars, Up
    <2>2. RestoredIsSound'
        BY <1>0, <1>1, <1>3 DEF RestoredIsSound, LiesAside, Intact
    <2>. QED
        BY <1>2, <2>1, <2>2 DEF LifeInv
<1>4. CASE restorer.at = "renamed" /\ PutAtPath(Record("partial", {}, 0))
    <2>1. restored.at # "done"
        BY <1>0, <1>4 DEF ScriptIsSound, NoScript
    <2>2. /\ files' \in Seq(SomeFile) /\ atPath' \in 1 .. Len(files') /\ Len(files') >= Len(files)
          /\ \A f \in DOMAIN files : f # atPath => f \in DOMAIN files' /\ f # atPath' /\ files'[f] = files[f]
        <3>1. CASE atPath = 0
            <4>1. files' = Append(files, Record("partial", {}, 0)) /\ atPath' = Len(files) + 1
                BY <1>4, <3>1 DEF PutAtPath
            <4>. QED
                BY <1>0, <4>1, FilesOfTypes, AppendProperties DEF LifeTypes
        <3>2. CASE atPath # 0
            <4>1. files' = [files EXCEPT ![atPath] = Record("partial", {}, 0)] /\ atPath' = atPath
                  /\ atPath \in 1 .. Len(files)
                BY <1>0, <1>4, <3>2 DEF PutAtPath, LifeTypes
            <4>. QED
                BY <1>0, <4>1, FilesOfTypes, ExceptSeq DEF LifeTypes
        <3>. QED
            BY <3>1, <3>2
    <2>3. RestoredIsSound'
        BY <1>0, <1>1, <2>1, <2>2 DEF RestoredIsSound, LiesAside
    <2>4. Up' => opened' \in DOMAIN files'
        BY <1>0, <1>1, <2>2 DEF LifeTypes, Up, processVars
    <2>5. LifeTypes'
        BY <1>0, <1>1, <2>2, <2>4 DEF LifeTypes, processVars
    <2>. QED
        BY <1>2, <2>3, <2>5 DEF LifeInv
<1>. QED
    BY <1>3, <1>4 DEF ScriptDies

LEMMA LifeKept == LifeInv /\ [LifeNext]_lifeVars => LifeInv'
<1> SUFFICES ASSUME LifeInv, [LifeNext]_lifeVars PROVE LifeInv'
    OBVIOUS
<1> USE DEF Up
<1>0. LifeTypes /\ ClosedIsQuiet /\ ScriptIsSound /\ RestoredIsSound
    BY DEF LifeInv
<1>1. CASE WriteRow
    <2>1. wal' \in [of : Nat, rows : SUBSET Nat] /\ rowsWritten' \in Nat
        <3>1. PICK kept \in {wal.rows, {}} : wal' = [of |-> opened, rows |-> kept \cup {rowsWritten}]
            BY <1>1 DEF WriteRow
        <3>2. opened \in Nat
            BY <1>0, <1>1, FilesOfTypes DEF WriteRow, LifeTypes
        <3>. QED
            BY <1>0, <1>1, <3>1, <3>2 DEF WriteRow, LifeTypes
    <2>2. LifeTypes'
        BY <1>0, <1>1, <2>1 DEF WriteRow, LifeTypes, processVars, scriptVars
    <2>. QED
        BY <1>1, <2>2, WhileUp DEF WriteRow, LifeInv
<1>2. CASE Checkpoint
    <2>1. LifeTypes'
        BY <1>0, <1>2, CheckpointTypes DEF Checkpoint, LifeTypes, processVars, countVars, scriptVars
    <2>. QED
        BY <1>2, <2>1, WhileUp DEF Checkpoint, LifeInv
<1>3. CASE Deploy
    <2>1. LifeTypes'
        BY <1>0, <1>3 DEF Deploy, LifeTypes, fileVars, processVars, scriptVars
    <2>. QED
        BY <1>3, <2>1, Untouched DEF Deploy, processVars, LifeInv
<1>4. CASE NextDay
    <2>1. today' \in BackupDays
        BY <1>0, <1>4, LifeAssumption DEF NextDay, LifeTypes, BackupDays
    <2>2. LifeTypes'
        BY <1>0, <1>4, <2>1 DEF NextDay, LifeTypes, fileVars, countVars, scriptVars
    <2>. QED
        BY <1>4, <2>2, Untouched DEF NextDay, LifeInv
<1>5. ASSUME NEW due \in BOOLEAN, Boot(due) PROVE LifeInv'
    BY <1>5, BootKeeps
<1>6. ASSUME NEW l \in Loops, LoopFires(l) \/ LoopEnds(l) PROVE LifeInv'
    <2>1. UNCHANGED <<fileVars, backups, server, opened, today, scriptVars, countVars>>
        BY <1>6 DEF LoopFires, LoopEnds
    <2>2. LifeTypes'
        BY <1>0, <2>1 DEF LifeTypes, fileVars, countVars, scriptVars
    <2>. QED
        BY <2>1, <2>2, Untouched DEF LifeInv
<1>7. CASE TickChecks
    <2>1. LifeTypes'
        BY <1>0, <1>7 DEF TickChecks, LifeTypes, fileVars, countVars, scriptVars
    <2>. QED
        BY <1>7, <2>1, Untouched DEF TickChecks, LifeInv
<1>8. CASE RunBackup
    <2>1. UNCHANGED <<fileVars, server, opened, today, scriptVars, countVars>> /\ Up
        BY <1>8 DEF RunBackup
    <2>2. /\ \A d \in BackupDays : backups'[d] = NoBackup \/ backups'[d] \in SomeFile
          /\ backups' = [d \in BackupDays |-> backups'[d]]
          /\ \A d \in BackupDays : Intact(backups[d]) => backups'[d] = backups[d]
        <3>1. Snapshot \in SomeFile
            <4>1. opened \in DOMAIN files
                BY <1>0, <2>1 DEF LifeTypes
            <4>. QED
                BY <1>0, <4>1, ReadTypes DEF Snapshot
        <3>2. CASE UNCHANGED backups
            BY <1>0, <3>2 DEF LifeTypes
        <3>. QED
            BY <1>0, <1>8, <3>1, <3>2, FilesOfTypes, VacuumKeepsTypes DEF RunBackup
    <2>3. LifeTypes'
        BY <1>0, <2>1, <2>2 DEF LifeTypes, fileVars, countVars, scriptVars
    <2>. QED
        BY <2>1, <2>2, <2>3, WhileUp DEF LifeInv
<1>9. CASE Signal
    <2>1. LifeTypes'
        BY <1>0, <1>9 DEF Signal, LifeTypes, fileVars, countVars, scriptVars
    <2>. QED
        BY <1>9, <2>1, WhileUp DEF Signal, LifeInv
<1>10. CASE CloseAndExit
    <2>1. /\ server = "stopping" /\ server' = "down" /\ UNCHANGED <<atPath, backups, today, restorer, restored, countVars>>
          /\ \/ files' = Checkpointed /\ wal' = EmptyLog /\ closed' = TRUE
             \/ UNCHANGED <<files, wal, closed>>
        BY <1>10 DEF CloseAndExit
    <2>2. ~closed
        BY <1>0, <2>1 DEF ClosedIsQuiet
    <2>3. files' \in Seq(SomeFile) /\ Len(files') = Len(files) /\ wal' \in [of : Nat, rows : SUBSET Nat]
          /\ closed' \in BOOLEAN
        <3>1. EmptyLog \in [of : Nat, rows : SUBSET Nat]
            BY DEF EmptyLog
        <3>2. Checkpointed \in Seq(SomeFile) /\ Len(Checkpointed) = Len(files)
            BY <1>0, <2>1, CheckpointTypes
        <3>. QED
            BY <1>0, <2>1, <3>1, <3>2 DEF LifeTypes
    <2>4. LifeTypes'
        BY <1>0, <2>1, <2>3 DEF LifeTypes, countVars
    <2>5. ClosedIsQuiet'
        BY <2>1, <2>2 DEF ClosedIsQuiet
    <2>6. ScriptIsSound'
        BY <1>0, <2>1, <2>2 DEF ScriptIsSound, Intact
    <2>7. RestoredIsSound'
        BY <1>0, <2>1, <2>2 DEF RestoredIsSound
    <2>. QED
        BY <2>4, <2>5, <2>6, <2>7 DEF LifeInv
<1>11. CASE Kill
    <2>1. /\ \A d \in BackupDays : backups'[d] = NoBackup \/ backups'[d] \in SomeFile
          /\ backups' = [d \in BackupDays |-> backups'[d]]
          /\ \A d \in BackupDays : Intact(backups[d]) => backups'[d] = backups[d]
        <3>1. CASE UNCHANGED backups
            BY <1>0, <3>1 DEF LifeTypes
        <3>. QED
            BY <1>0, <1>11, <3>1, FilesOfTypes, VacuumKeepsTypes DEF Kill
    <2>2. LifeTypes'
        BY <1>0, <1>11, <2>1 DEF Kill, LifeTypes, fileVars, scriptVars
    <2>. QED
        BY <1>11, <2>1, <2>2, WhileUp DEF Kill, LifeInv
<1>12. ASSUME NEW d \in BackupDays, Checks(d) PROVE LifeInv'
    <2>1. /\ restorer' = [at |-> "checked", day |-> d] /\ Intact(backups[d])
          /\ UNCHANGED <<fileVars, backups, processVars, today, restored, closed, countVars>>
        BY <1>12 DEF Checks
    <2>2. LifeTypes'
        BY <1>0, <2>1 DEF LifeTypes, fileVars, processVars, countVars
    <2>3. ScriptIsSound'
        BY <2>1, <1>12 DEF ScriptIsSound, Intact
    <2>4. RestoredIsSound' /\ ClosedIsQuiet'
        BY <1>0, <2>1 DEF RestoredIsSound, ClosedIsQuiet, LiesAside, Intact, fileVars, processVars
    <2>. QED
        BY <2>2, <2>3, <2>4 DEF LifeInv
<1>13. CASE RenameCurrent
    <2>1. /\ atPath' = 0 /\ atPath # 0 /\ restorer' = restored'
          /\ restored' = [at |-> "renamed", day |-> restorer.day, old |-> Read(atPath), clean |-> closed]
          /\ UNCHANGED <<files, wal, backups, processVars, today, closed, countVars>>
        BY <1>13 DEF RenameCurrent, SetAside
    <2>2. restorer.day \in BackupDays /\ Intact(backups[restorer.day])
        BY <1>0, <1>13 DEF RenameCurrent, ScriptIsSound, NoScript
    <2>3. LifeTypes' /\ ClosedIsQuiet'
        BY <1>0, <2>1 DEF LifeTypes, ClosedIsQuiet, processVars, countVars
    <2>4. atPath \in DOMAIN files
        BY <1>0, <2>1, FilesOfTypes DEF LifeTypes
    <2>5. PICK old, clean : old = Read(atPath) /\ clean = closed
        OBVIOUS
    <2>6. restored' = [at |-> "renamed", day |-> restorer.day, old |-> old, clean |-> clean]
        BY <2>1, <2>5
    <2>7. clean => closed' /\ LiesAside(old)'
        <3>1. ASSUME closed PROVE files[atPath] = old
            BY <1>0, <2>4, <2>5, <3>1, ReadTypes DEF ClosedIsQuiet
        <3>. QED
            BY <2>1, <2>4, <2>5, <3>1, FilesOfTypes, <1>0 DEF LiesAside
    <2>8. /\ restored'.at = "renamed" /\ restored'.day = restorer.day /\ restored'.old = old
          /\ restored'.clean = clean
          /\ restored' = [at |-> "renamed", day |-> restored'.day, old |-> restored'.old, clean |-> restored'.clean]
        BY <2>6
    <2>9. RestoredIsSound'
        BY <2>7, <2>8 DEF RestoredIsSound
    <2>10. ScriptIsSound'
        BY <2>1, <2>2, <2>7, <2>8 DEF ScriptIsSound, Intact
    <2>. QED
        BY <2>3, <2>9, <2>10 DEF LifeInv
<1>14. CASE UNCHANGED lifeVars
    <2>1. LifeTypes'
        BY <1>0, <1>14 DEF lifeVars, LifeTypes, fileVars, processVars, countVars, scriptVars
    <2>. QED
        BY <1>14, <2>1, Untouched DEF lifeVars, processVars, LifeInv
<1>. QED
    BY <1>1, <1>2, <1>3, <1>4, <1>5, <1>6, <1>7, <1>8, <1>9, <1>10, <1>11, <1>12, <1>13, <1>14,
       CopyKeeps, DyingKeeps DEF LifeNext

(* However many rows, checkpoints, backups, deployments, kills and earlier *)
(* restores there were: a restore that began with the database closed      *)
(* gives, when it is complete before the next start, exactly the backup,   *)
(* and complete or not the database it replaced is still there with every  *)
(* row (scripts/restore-backup.ts).                                        *)
THEOREM CleanRestoresAreExact == LifeSpec => CleanRestoreIsExact
<1>1. LifeInv /\ [LifeNext]_lifeVars =>
        [Opens /\ restored.at # "none" /\ restored.clean =>
           /\ restored.at = "done" => Exact(restored.day)
           /\ \E f \in DOMAIN files : f # atPath' /\ files'[f] = restored.old]_lifeVars
    <2> SUFFICES ASSUME LifeInv, LifeNext, Opens, restored.at # "none", restored.clean
                 PROVE  /\ restored.at = "done" => Exact(restored.day)
                        /\ \E f \in DOMAIN files : f # atPath' /\ files'[f] = restored.old
        OBVIOUS
    <2>0. LifeTypes
        BY DEF LifeInv
    <2>1. wal = EmptyLog /\ LiesAside(restored.old)
        BY DEF LifeInv, RestoredIsSound, ClosedIsQuiet, NoRestore
    <2>2. PICK due \in BOOLEAN : Boot(due)
        BY DEF LifeNext, Opens, Up, WriteRow, Checkpoint, Deploy, NextDay, LoopFires, LoopEnds,
               TickChecks, RunBackup, Signal, CloseAndExit, Kill, Checks, RenameCurrent, CopyBackup,
               ScriptDies, processVars
    <2>3. ASSUME atPath # 0
          PROVE  /\ atPath \in DOMAIN files /\ atPath' = atPath
                 /\ files' = [files EXCEPT ![atPath] = [files[atPath] EXCEPT !.ver = deployed]]
        <3>1. atPath \in DOMAIN files /\ ~Foreign
            BY <2>0, <2>1, <2>3, FilesOfTypes DEF LifeTypes, Foreign, EmptyLog
        <3>. QED
            BY <2>2, <2>3, <3>1 DEF Boot, Migrated
    <2>4. ASSUME restored.at = "done" PROVE Exact(restored.day)
        <3>1. /\ atPath # 0 /\ Intact(files[atPath])
              /\ files[atPath].rows = backups[restored.day].rows
            BY <2>4 DEF LifeInv, RestoredIsSound, NoRestore
        <3>2. PICK file \in SomeFile : file = files[atPath] /\ files'[atPath] = [file EXCEPT !.ver = deployed]
            BY <2>0, <2>3, <3>1, FilesOfTypes
        <3>3. files'[atPath].rows = file.rows /\ files'[atPath].state = file.state
            BY <3>2 DEF SomeFile
        <3>. QED
            BY <2>3, <3>1, <3>2, <3>3 DEF Exact, Intact
    <2>5. \A f \in DOMAIN files : f # atPath => f # atPath' /\ files'[f] = files[f]
        <3>1. CASE atPath = 0
            <4>1. files' = Append(files, Record("whole", {}, deployed)) /\ atPath' = Len(files) + 1
                BY <2>2, <3>1 DEF Boot
            <4>. QED
                BY <2>0, <4>1, FilesOfTypes DEF LifeTypes
        <3>2. CASE atPath # 0
            BY <2>3, <3>2
        <3>. QED
            BY <3>1, <3>2
    <2>. QED
        BY <2>1, <2>4, <2>5 DEF LiesAside
<1>. QED
    BY <1>1, LifeStarts, LifeKept, PTL DEF LifeSpec, CleanRestoreIsExact

-----------------------------------------------------------------------------
(* Calls of tools: what each caller is told.                               *)

CallNames == Tried \cup {"nothing"}
CallPlaces == {"idle", "guards", "gate", "blacklist", "approval", "running", "connecting"}

CallRecords ==
    [name : CallNames, at : CallPlaces, kind : {"none", "registered", "dynamic", "code"},
     told : {"nothing", "ok", "failed", "refused", "timeout"}, via : Nat,
     reply : {"none", "body", "stream", "lost"},
     barred : BOOLEAN, threw : BOOLEAN, asked : BOOLEAN, sent : BOOLEAN]

BotRecords ==
    [there : BOOLEAN, flag : BOOLEAN, line : BOOLEAN, polls : BOOLEAN, late : Nat, failed : BOOLEAN]

CallsTypeOK ==
    /\ userbot \in BotRecords
    /\ directive \in {"none", "fresh", "stale"}
    /\ scripts \in [Scripts -> {"none", "on", "off"}]
    /\ offers \in [AgentRun -> SUBSET Tried]
    /\ calls \in [Callers -> CallRecords]
    /\ streams \in [Clients -> [id : Nat, open : BOOLEAN]]

\* What a call of an agent has not done yet, and what it was told.
CallIsHonest(c, r, dir) ==
    /\ r.at # "idle" => r.told = "nothing" /\ ~r.sent /\ ~r.asked /\ r.reply = "none"
    /\ r.at = "connecting" => r.name \in UserbotTools
    /\ c \in Crons /\ r.at \in {"guards", "gate"} /\ r.barred => dir = "fresh"
    /\ c \in Crons /\ r.name = "tg_send_message" /\ r.barred /\ ~r.threw
         => r.at \in {"idle", "guards", "gate"} /\ ~r.sent /\ ~r.asked
    /\ r.name \in SendTools => /\ r.told = "ok" /\ r.kind = "registered" => r.sent
                               /\ r.told = "refused" => ~r.sent

\* A call of a client, and the stream it asked through.
CallIsAnswered(c, r, stream) ==
    c \in Clients =>
      /\ r.at \in {"idle", "running", "connecting"}
      /\ r.via <= stream.id
      /\ r.reply = "body" => r.via = 0
      /\ r.reply = "lost" => r.via # 0 /\ ~(stream.open /\ r.via = stream.id)
      /\ r.told # "nothing" => r.reply # "none"
      /\ r.kind = "registered" => r.name \in PublicTools

\* What a scheduled run calls that it was offered.
CallIsMeant(c, r, names) ==
    c \in Crons /\ r.name \notin Remembered =>
      /\ r.name \in MakingTools => AllowsMaking \/ r.name \in names
      /\ r.name \in StatefulCalls => r.name \in names
      /\ r.kind = "code" => r.name \notin StatefulCalls

CallFits(c, r, dir, names, stream) ==
    CallIsHonest(c, r, dir) /\ CallIsAnswered(c, r, stream) /\ CallIsMeant(c, r, names)

CallsFit == \A c \in Callers : CallFits(c, calls[c], directive, prompted, streams[c])

\* Scheduled runs are offered a tool they may not have only under the name
\* of a dynamic one.
OffersFit ==
    \A a \in Crons : \A n \in offers[a] :
        /\ n \in MakingTools => AllowsMaking \/ n \in prompted
        /\ n \in StatefulCalls => n \in prompted

CallsInv == CallsTypeOK /\ CallsFit /\ OffersFit /\ FlagIsTrue

-----------------------------------------------------------------------------
\* The invariant says what the run checks.
LEMMA CallsInvSuffices == CallsInv => CallsAreHonest
<1> SUFFICES ASSUME CallsInv PROVE CallsAreHonest
  OBVIOUS
<1> USE DEF CallsInv, CallsTypeOK, CallsFit
<1>1. \A c \in Callers : calls[c] \in CallRecords /\ CallFits(c, calls[c], directive, prompted, streams[c])
  OBVIOUS
<1>2. Crons \subseteq Callers /\ Clients \subseteq Callers
  BY DEF Callers, AgentRun
<1>3. DirectiveIsKept
  BY <1>1, <1>2 DEF DirectiveIsKept, CallFits, CallIsHonest
<1>4. DeliveryIsHonest
  BY <1>1 DEF DeliveryIsHonest, CallFits, CallIsHonest
<1>5. RepliesArrive
  <2> SUFFICES ASSUME NEW c \in Clients
               PROVE  /\ calls[c].reply = "body" => calls[c].via = 0
                      /\ calls[c].reply = "lost" => calls[c].via # 0 /\ calls[c].via # OpenStream(c)
                      /\ calls[c].told # "nothing" => calls[c].reply # "none"
    BY DEF RepliesArrive
  <2>1. CallIsAnswered(c, calls[c], streams[c]) /\ streams[c] \in [id : Nat, open : BOOLEAN]
    BY <1>1, <1>2 DEF CallFits
  <2> QED
    BY <2>1 DEF CallIsAnswered, OpenStream
<1>6. RunsWhatIsMeantForIt
  BY <1>1, <1>2 DEF RunsWhatIsMeantForIt, CallFits, CallIsAnswered, CallIsMeant
<1> QED
  BY <1>3, <1>4, <1>5, <1>6 DEF CallsAreHonest

\* Nobody has called anything yet.
LEMMA CallsInvInit == CallsInit => CallsInv
<1> SUFFICES ASSUME CallsInit PROVE CallsInv
  OBVIOUS
<1> USE DEF CallsInit, InitTelegramBot, InitUserbot
<1>1. NoToolCall \in CallRecords
  BY DEF NoToolCall, Called, CallRecords, CallNames, CallPlaces
<1>2. CallsTypeOK
  BY <1>1 DEF CallsTypeOK, BotRecords
<1>3. CallsFit
  <2> SUFFICES ASSUME NEW c \in Callers
               PROVE  CallFits(c, NoToolCall, "none", {}, streams[c])
    BY DEF CallsFit
  <2> QED
    BY ToolCallsAssumption DEF CallFits, CallIsHonest, CallIsAnswered, CallIsMeant, NoToolCall, Called, SendTools, MakingTools, StatefulCalls
<1> QED
  BY <1>2, <1>3 DEF CallsInv, OffersFit, FlagIsTrue, AgentRun

-----------------------------------------------------------------------------
\* A record that fits does so when there are more dynamic tools.
LEMMA FitsMore ==
  ASSUME NEW c, NEW r, NEW dir, NEW names, NEW more, NEW stream,
         names \subseteq more, CallFits(c, r, dir, names, stream)
  PROVE  CallFits(c, r, dir, more, stream)
BY DEF CallFits, CallIsMeant

\* One caller moves on; the others stay as they are.
LEMMA CallMoves ==
  ASSUME CallsInv, NEW c \in Callers, NEW r \in CallRecords, Moves(c, r),
         CallFits(c, r, directive, prompted, streams[c]),
         directive' = directive, streams' = streams, prompted \subseteq prompted',
         userbot' \in BotRecords, scripts' \in [Scripts -> {"none", "on", "off"}],
         offers' \in [AgentRun -> SUBSET Tried], \A a \in Crons : offers'[a] \subseteq offers[a]
  PROVE  CallsTypeOK' /\ CallsFit' /\ OffersFit' /\ calls'[c] = r
                      /\ \A d \in Callers \ {c} : calls'[d] = calls[d]
<1> USE DEF CallsInv
<1>1. /\ calls' \in [Callers -> CallRecords] /\ calls'[c] = r
      /\ \A d \in Callers \ {c} : calls'[d] = calls[d]
  BY DEF CallsTypeOK, Moves
<1>2. CallsTypeOK'
  BY <1>1 DEF CallsTypeOK
<1>3. CallsFit'
  <2> SUFFICES ASSUME NEW d \in Callers
               PROVE  CallFits(d, calls'[d], directive, prompted', streams[d])
    BY DEF CallsFit
  <2>1. CallFits(d, calls'[d], directive, prompted, streams[d])
    BY <1>1 DEF CallsFit
  <2> QED
    BY <2>1, FitsMore
<1>4. OffersFit'
  BY DEF OffersFit
<1> QED
  BY <1>1, <1>2, <1>3, <1>4

\* ... and nothing happens to the userbot.
LEMMA CallMovesOnly ==
  ASSUME CallsInv, NEW c \in Callers, NEW r \in CallRecords, Moves(c, r),
         CallFits(c, r, directive, prompted, streams[c]), calls[c].at # "connecting",
         UNCHANGED <<directive, streams, userbot>>, prompted \subseteq prompted',
         scripts' \in [Scripts -> {"none", "on", "off"}],
         offers' \in [AgentRun -> SUBSET Tried], \A a \in Crons : offers'[a] \subseteq offers[a]
  PROVE  CallsInv'
<1>1. /\ CallsTypeOK' /\ CallsFit' /\ OffersFit'
      /\ \A d \in Callers \ {c} : calls'[d] = calls[d]
  BY CallMoves DEF CallsInv, CallsTypeOK
<1>2. FlagIsTrue'
  BY <1>1 DEF CallsInv, FlagIsTrue
<1> QED
  BY <1>1, <1>2 DEF CallsInv

\* A step of which one call is all that changes.
LEMMA OnlyMovesKeeps ==
  ASSUME CallsInv, NEW c \in Callers, NEW r \in CallRecords, OnlyMoves(c, r),
         CallFits(c, r, directive, prompted, streams[c]), calls[c].at # "connecting"
  PROVE  CallsInv'
<1>1. /\ Moves(c, r) /\ UNCHANGED <<directive, streams, userbot>> /\ prompted \subseteq prompted'
      /\ scripts' = scripts /\ offers' = offers
  BY DEF OnlyMoves
<1>2. scripts \in [Scripts -> {"none", "on", "off"}] /\ offers \in [AgentRun -> SUBSET Tried]
  BY DEF CallsInv, CallsTypeOK
<1> QED
  BY <1>1, <1>2, CallMovesOnly

\* What the invariant says of one call.
LEMMA CallOf ==
  ASSUME CallsInv, NEW c \in Callers
  PROVE  /\ calls[c] \in CallRecords
         /\ CallIsHonest(c, calls[c], directive)
         /\ CallIsAnswered(c, calls[c], streams[c])
         /\ CallIsMeant(c, calls[c], prompted)
         /\ c \in Clients => streams[c] \in [id : Nat, open : BOOLEAN]
         /\ c \in AgentRun => c \notin Clients
BY ToolCallsAssumption DEF CallsInv, CallsTypeOK, CallsFit, CallFits, AgentRun

\* An answer fits, unless it tells of a message that was not sent.
LEMMA AnsweredFits ==
  ASSUME CallsInv, NEW c \in Callers, NEW told \in {"ok", "failed"},
         calls[c].at \in {"running", "connecting"},
         calls[c].name \in SendTools /\ calls[c].kind = "registered" => told # "ok"
  PROVE  /\ Answered(c, told) \in CallRecords
         /\ CallFits(c, Answered(c, told), directive, prompted, streams[c])
<1>1. PICK r \in CallRecords : r = calls[c]
  BY CallOf
<1>2. PICK reply \in {"none", "body", "stream", "lost"} :
         /\ reply = (IF c \in Clients THEN ReplyOf(c) ELSE "none")
         /\ reply = "body" => r.via = 0
         /\ reply = "lost" => r.via # 0 /\ ~(streams[c].open /\ r.via = streams[c].id)
         /\ c \in Clients => reply # "none"
  BY <1>1, CallOf DEF ReplyOf
<1> DEFINE s == [r EXCEPT !.at = "idle", !.told = told, !.reply = reply]
<1>3. Answered(c, told) = s
  BY <1>1, <1>2 DEF Answered
<1>4. s \in CallRecords
  BY DEF CallRecords, CallPlaces
<1>5. /\ s.name = r.name /\ s.at = "idle" /\ s.kind = r.kind /\ s.told = told /\ s.via = r.via
      /\ s.reply = reply /\ s.barred = r.barred /\ s.threw = r.threw /\ s.asked = r.asked
      /\ s.sent = r.sent
  BY DEF CallRecords
<1> HIDE DEF s
<1>6. CallIsHonest(c, s, directive)
  BY <1>1, <1>5, CallOf DEF CallIsHonest
<1>7. CallIsAnswered(c, s, streams[c])
  BY <1>1, <1>2, <1>5, CallOf DEF CallIsAnswered
<1>8. CallIsMeant(c, s, prompted)
  BY <1>1, <1>5, CallOf DEF CallIsMeant
<1> QED
  BY <1>3, <1>4, <1>6, <1>7, <1>8 DEF CallFits

-----------------------------------------------------------------------------
\* What the steps of a call on its way to the handler leave behind fits.
LEMMA OnTheWayFits ==
  ASSUME CallsInv, NEW a \in AgentRun, NEW at \in CallPlaces,
         calls[a].at \notin {"idle", "connecting"}, at # "connecting",
         at \in {"idle", "guards", "gate"} \/ ~(/\ a \in Crons /\ calls[a].name = "tg_send_message"
                                                /\ calls[a].barred /\ ~calls[a].threw),
         at \in {"guards", "gate"} => calls[a].at \in {"guards", "gate"}
  PROVE  /\ [calls[a] EXCEPT !.at = at] \in CallRecords
         /\ CallFits(a, [calls[a] EXCEPT !.at = at], directive, prompted, streams[a])
<1>0. a \in Callers
  BY DEF Callers
<1>1. PICK r \in CallRecords : r = calls[a]
  BY <1>0, CallOf
<1> DEFINE s == [r EXCEPT !.at = at]
<1>2. s \in CallRecords
  BY DEF CallRecords
<1>3. /\ s.name = r.name /\ s.at = at /\ s.kind = r.kind /\ s.told = r.told /\ s.via = r.via
      /\ s.reply = r.reply /\ s.barred = r.barred /\ s.threw = r.threw /\ s.asked = r.asked
      /\ s.sent = r.sent
  BY DEF CallRecords
<1>4. s = [calls[a] EXCEPT !.at = at]
  BY <1>1
<1> HIDE DEF s
<1>5. CallIsHonest(a, s, directive)
  BY <1>0, <1>1, <1>3, CallOf DEF CallIsHonest
<1>6. CallIsAnswered(a, s, streams[a])
  BY <1>0, CallOf DEF CallIsAnswered
<1>7. CallIsMeant(a, s, prompted)
  BY <1>0, <1>1, <1>3, CallOf DEF CallIsMeant
<1> QED
  BY <1>2, <1>4, <1>5, <1>6, <1>7 DEF CallFits

\* A call that a plugin refuses, or asks about.
LEMMA RefusedFits ==
  ASSUME CallsInv, NEW a \in AgentRun, NEW told \in {"refused", "timeout"}, NEW asked \in BOOLEAN,
         calls[a].at # "idle",
         asked => ~(/\ a \in Crons /\ calls[a].name = "tg_send_message"
                    /\ calls[a].barred /\ ~calls[a].threw),
         NEW s, s = [calls[a] EXCEPT !.at = "idle", !.told = told, !.asked = asked]
  PROVE  s \in CallRecords /\ CallFits(a, s, directive, prompted, streams[a])
<1>0. a \in Callers
  BY DEF Callers
<1>1. PICK r \in CallRecords : r = calls[a]
  BY <1>0, CallOf
<1>2. s \in CallRecords
  BY <1>1 DEF CallRecords, CallPlaces
<1>3. /\ s.name = r.name /\ s.at = "idle" /\ s.kind = r.kind /\ s.told = told /\ s.via = r.via
      /\ s.reply = r.reply /\ s.barred = r.barred /\ s.threw = r.threw /\ s.asked = asked
      /\ s.sent = r.sent
  BY <1>1 DEF CallRecords
<1>5. CallIsHonest(a, s, directive)
  BY <1>0, <1>1, <1>3, CallOf DEF CallIsHonest
<1>6. CallIsAnswered(a, s, streams[a])
  BY <1>0, CallOf DEF CallIsAnswered
<1>7. CallIsMeant(a, s, prompted)
  BY <1>0, <1>1, <1>3, CallOf DEF CallIsMeant
<1> QED
  BY <1>2, <1>5, <1>6, <1>7 DEF CallFits

\* A plugin refuses: nothing of the call has happened.
LEMMA RefusedKeeps ==
  ASSUME CallsInv, NEW a \in AgentRun, calls[a].at \notin {"idle", "connecting"}, Refused(a)
  PROVE  CallsInv'
<1>1. a \in Callers /\ calls[a] \in CallRecords /\ CallIsHonest(a, calls[a], directive)
  BY CallOf DEF Callers
<1>2. PICK s : s = [calls[a] EXCEPT !.at = "idle", !.told = "refused"]
  OBVIOUS
<1>3. s = [calls[a] EXCEPT !.at = "idle", !.told = "refused", !.asked = FALSE]
  BY <1>1, <1>2 DEF CallRecords, CallIsHonest
<1>4. s \in CallRecords /\ CallFits(a, s, directive, prompted, streams[a])
  BY <1>3, RefusedFits
<1>5. OnlyMoves(a, s)
  BY <1>2 DEF Refused
<1> QED
  BY <1>1, <1>4, <1>5, OnlyMovesKeeps

-----------------------------------------------------------------------------
(* The steps of an agent's call before its handler.                        *)

\* The list for a scheduled run has a making tool or a stateful code tool
\* only under the name of a dynamic one.
LEMMA AsksModelKeeps ==
  ASSUME CallsInv, NEW a \in AgentRun, AsksModel(a)
  PROVE  CallsInv'
<1> USE DEF CallsInv
<1>1. /\ UNCHANGED <<userbot, directive, prompted, scripts, calls, streams>>
      /\ offers' = [offers EXCEPT ![a] = OfferedTo(a) \cap Tried]
  BY DEF AsksModel
<1>2. CallsTypeOK'
  BY <1>1 DEF CallsTypeOK
<1>3. CallsFit'
  BY <1>1 DEF CallsFit
<1>4. OffersFit'
  <2> SUFFICES ASSUME NEW d \in Crons, NEW n \in offers'[d]
               PROVE  /\ n \in MakingTools => AllowsMaking \/ n \in prompted
                      /\ n \in StatefulCalls => n \in prompted
    BY <1>1 DEF OffersFit
  <2>1. offers \in [AgentRun -> SUBSET Tried] /\ d \in AgentRun
    BY DEF CallsTypeOK, AgentRun
  <2>2. CASE d # a
    BY <1>1, <2>1, <2>2 DEF OffersFit
  <2>3. CASE d = a
    <3>1. n \in ListForAgent(d) \/ n \in prompted \/ n \in ListedScripts(d)
      BY <1>1, <2>1, <2>3 DEF OfferedTo
    <3>2. CASE n \in ListForAgent(d)
      <4>1. n \in Registered /\ (n \in MakingTools => AllowsMaking)
        BY <3>2 DEF ListForAgent
      <4>2. n \notin StatefulCalls
        BY <4>1 DEF StatefulCalls, Registered, PublicTools, AgentTools, MemoryTools, CurationTools,
                    EmbedTools, LogTools, RagTools, UserbotTools, ChatListTools, PolicyTools,
                    SendTools, WebTools, MetaTools, CodeTools, TaskTools, ArtifactTools
      <4> QED
        BY <4>1, <4>2
    <3>3. CASE n \in ListedScripts(d)
      <4>1. n \in Scripts /\ n \notin StatefulCalls
        BY <3>3 DEF ListedScripts
      <4>2. MakingTools \subseteq Registered
        BY DEF MakingTools, Registered, AgentTools, MetaTools, CodeTools
      <4> QED
        BY <4>1, <4>2, ScriptsAssumption
    <3> QED
      BY <3>1, <3>2, <3>3
  <2> QED
    BY <2>2, <2>3
<1>5. FlagIsTrue'
  BY <1>1 DEF FlagIsTrue
<1> QED
  BY <1>2, <1>3, <1>4, <1>5

\* A model calls what it was offered or what it remembers.
LEMMA AgentCallsKeeps ==
  ASSUME CallsInv, NEW a \in AgentRun, NEW n \in Tried, NEW parses \in BOOLEAN, AgentCalls(a, n, parses)
  PROVE  CallsInv'
<1>1. /\ a \in Callers /\ calls[a].at = "idle" /\ a \notin Clients
      /\ n \in offers[a] \cup Remembered
      /\ UNCHANGED <<userbot, directive, prompted, scripts, offers, streams>>
  BY CallOf DEF AgentCalls, IdleCall, Callers
<1>2. PICK r : /\ Moves(a, r)
               /\ \/ r = [Called(n, "guards") EXCEPT !.barred = directive = "fresh"]
                  \/ r = [Called(n, "idle") EXCEPT !.told = "failed"]
  BY DEF AgentCalls
<1>3. /\ r.name = n /\ r.kind = "none" /\ r.via = 0 /\ r.reply = "none"
      /\ ~r.threw /\ ~r.asked /\ ~r.sent
      /\ \/ r.at = "guards" /\ r.told = "nothing" /\ (r.barred <=> directive = "fresh")
         \/ r.at = "idle" /\ r.told = "failed" /\ ~r.barred
  BY <1>2 DEF Called
<1>4. r \in CallRecords
  <2>1. Called(n, "guards") \in CallRecords /\ Called(n, "idle") \in CallRecords
    BY DEF CallRecords, CallNames, CallPlaces, Called
  <2>2. [Called(n, "guards") EXCEPT !.barred = TRUE] \in CallRecords
    BY DEF CallRecords, CallNames, CallPlaces, Called
  <2>3. [Called(n, "idle") EXCEPT !.told = "failed"] \in CallRecords
    BY DEF CallRecords, CallNames, CallPlaces, Called
  <2>4. [Called(n, "guards") EXCEPT !.barred = FALSE] \in CallRecords
    BY DEF CallRecords, CallNames, CallPlaces, Called
  <2>5. (directive = "fresh") \in BOOLEAN
    OBVIOUS
  <2> QED
    BY <1>2, <2>2, <2>3, <2>4, <2>5
<1>5. CallIsHonest(a, r, directive)
  BY <1>3 DEF CallIsHonest
<1>6. CallIsMeant(a, r, prompted)
  BY <1>1, <1>3 DEF CallIsMeant, CallsInv, OffersFit
<1>7. CallFits(a, r, directive, prompted, streams[a])
  BY <1>1, <1>5, <1>6 DEF CallFits, CallIsAnswered
<1>8. scripts \in [Scripts -> {"none", "on", "off"}] /\ offers \in [AgentRun -> SUBSET Tried]
  BY DEF CallsInv, CallsTypeOK
<1> QED
  BY <1>1, <1>2, <1>4, <1>7, <1>8, CallMovesOnly

\* code-tool-guards.
LEMMA GuardHookKeeps ==
  ASSUME CallsInv, NEW a \in AgentRun, NEW forbidden \in BOOLEAN, NEW matched \in 0 .. 2,
         GuardHook(a, forbidden, matched)
  PROVE  CallsInv'
<1>1. a \in Callers /\ calls[a].at = "guards"
  BY DEF GuardHook, Callers
<1>2. CASE Refused(a)
  BY <1>1, <1>2, RefusedKeeps
<1>3. CASE OnlyMoves(a, [calls[a] EXCEPT !.at = "gate"])
  <2>1. /\ [calls[a] EXCEPT !.at = "gate"] \in CallRecords
        /\ CallFits(a, [calls[a] EXCEPT !.at = "gate"], directive, prompted, streams[a])
    BY <1>1, OnTheWayFits DEF CallPlaces
  <2> QED
    BY <1>1, <1>3, <2>1, OnlyMovesKeeps
<1> QED
  BY <1>2, <1>3 DEF GuardHook

\* tg-gates: a barred message goes no further unless its lookup threw.
LEMMA GateHookKeeps ==
  ASSUME CallsInv, NEW a \in AgentRun, GateHook(a)
  PROVE  CallsInv'
<1>1. /\ a \in Callers /\ calls[a].at = "gate" /\ calls[a] \in CallRecords
      /\ CallIsHonest(a, calls[a], directive)
  BY CallOf DEF GateHook, Callers
<1>2. CASE Refused(a)
  BY <1>1, <1>2, RefusedKeeps
<1>3. CASE ~Bars(a) /\ OnlyMoves(a, [calls[a] EXCEPT !.at = "blacklist"])
  <2>1. ~(/\ a \in Crons /\ calls[a].name = "tg_send_message"
          /\ calls[a].barred /\ ~calls[a].threw)
    BY <1>1, <1>3 DEF Bars, CallIsHonest
  <2>2. /\ [calls[a] EXCEPT !.at = "blacklist"] \in CallRecords
        /\ CallFits(a, [calls[a] EXCEPT !.at = "blacklist"], directive, prompted, streams[a])
    BY <1>1, <2>1, OnTheWayFits DEF CallPlaces
  <2> QED
    BY <1>1, <1>3, <2>2, OnlyMovesKeeps
<1>4. CASE OnlyMoves(a, [calls[a] EXCEPT !.at = "blacklist", !.threw = TRUE])
  <2>1. PICK r \in CallRecords : r = calls[a]
    BY <1>1
  <2>2. PICK s : s = [r EXCEPT !.at = "blacklist", !.threw = TRUE]
    OBVIOUS
  <2>3. s \in CallRecords
    BY <2>2 DEF CallRecords, CallPlaces
  <2>4. /\ s.name = r.name /\ s.at = "blacklist" /\ s.kind = r.kind /\ s.told = r.told
        /\ s.via = r.via /\ s.reply = r.reply /\ s.threw /\ s.asked = r.asked /\ s.sent = r.sent
    BY <2>2 DEF CallRecords
  <2>5. CallIsHonest(a, s, directive)
    BY <1>1, <2>1, <2>4 DEF CallIsHonest
  <2>6. CallIsAnswered(a, s, streams[a]) /\ CallIsMeant(a, s, prompted)
    BY <1>1, <2>1, <2>4, CallOf DEF CallIsAnswered, CallIsMeant
  <2> QED
    BY <1>1, <1>4, <2>1, <2>2, <2>3, <2>5, <2>6, OnlyMovesKeeps DEF CallFits
<1> QED
  BY <1>2, <1>3, <1>4 DEF GateHook

\* From the gate on, a call the directive bars is in no place but after a
\* lookup that threw.
LEMMA PastTheGate ==
  ASSUME CallsInv, NEW a \in AgentRun, calls[a].at \in {"blacklist", "approval"}
  PROVE  ~(/\ a \in Crons /\ calls[a].name = "tg_send_message"
           /\ calls[a].barred /\ ~calls[a].threw)
<1>1. CallIsHonest(a, calls[a], directive)
  BY CallOf DEF Callers
<1> QED
  BY <1>1 DEF CallIsHonest

\* scheduled-blacklist.
LEMMA BlacklistHookKeeps ==
  ASSUME CallsInv, NEW a \in AgentRun, BlacklistHook(a)
  PROVE  CallsInv'
<1>1. a \in Callers /\ calls[a].at = "blacklist"
  BY DEF BlacklistHook, Callers
<1>2. CASE Refused(a)
  BY <1>1, <1>2, RefusedKeeps
<1>3. CASE OnlyMoves(a, [calls[a] EXCEPT !.at = "approval"])
  <2>1. /\ [calls[a] EXCEPT !.at = "approval"] \in CallRecords
        /\ CallFits(a, [calls[a] EXCEPT !.at = "approval"], directive, prompted, streams[a])
    BY <1>1, PastTheGate, OnTheWayFits DEF CallPlaces
  <2> QED
    BY <1>1, <1>3, <2>1, OnlyMovesKeeps
<1> QED
  BY <1>2, <1>3 DEF BlacklistHook

\* approval-gate, and where the name is found.
LEMMA ApprovalHookKeeps ==
  ASSUME CallsInv, NEW a \in AgentRun, ApprovalHook(a)
  PROVE  CallsInv'
<1>1. /\ a \in Callers /\ calls[a].at = "approval" /\ calls[a] \in CallRecords
      /\ CallIsHonest(a, calls[a], directive)
      /\ CallIsMeant(a, calls[a], prompted) /\ a \notin Clients
  BY CallOf DEF ApprovalHook, Callers
<1>2. CASE Refused(a)
  BY <1>1, <1>2, RefusedKeeps
<1>3. CASE OnlyMoves(a, [calls[a] EXCEPT !.at = "running", !.kind = KindOf(calls[a].name)])
  <2>1. PICK r \in CallRecords : r = calls[a]
    BY <1>1
  <2>2. PICK kind \in {"none", "registered", "dynamic", "code"} :
          kind = KindOf(r.name) /\ (kind = "code" => r.name \notin prompted)
    BY DEF KindOf
  <2>3. PICK s : s = [r EXCEPT !.at = "running", !.kind = kind]
    OBVIOUS
  <2>4. s \in CallRecords
    BY <2>3 DEF CallRecords, CallPlaces
  <2>5. /\ s.name = r.name /\ s.at = "running" /\ s.kind = kind /\ s.told = r.told
        /\ s.via = r.via /\ s.reply = r.reply /\ s.barred = r.barred /\ s.threw = r.threw
        /\ s.asked = r.asked /\ s.sent = r.sent
    BY <2>3 DEF CallRecords
  <2>6. CallIsHonest(a, s, directive)
    BY <1>1, <2>1, <2>5 DEF CallIsHonest
  <2>7. CallIsAnswered(a, s, streams[a]) /\ CallIsMeant(a, s, prompted)
    BY <1>1, <2>1, <2>2, <2>5 DEF CallIsAnswered, CallIsMeant
  <2>8. OnlyMoves(a, s)
    BY <1>3, <2>1, <2>2, <2>3
  <2> QED
    BY <1>1, <2>4, <2>6, <2>7, <2>8, OnlyMovesKeeps DEF CallFits
<1>4. CASE OnlyMoves(a, [calls[a] EXCEPT !.at = "idle", !.told = "refused", !.asked = TRUE])
  <2>1. PICK s : s = [calls[a] EXCEPT !.at = "idle", !.told = "refused", !.asked = TRUE]
    OBVIOUS
  <2>2. s \in CallRecords /\ CallFits(a, s, directive, prompted, streams[a])
    BY <1>1, <2>1, PastTheGate, RefusedFits
  <2> QED
    BY <1>1, <1>4, <2>1, <2>2, OnlyMovesKeeps
<1> QED
  BY <1>2, <1>3, <1>4 DEF ApprovalHook

-----------------------------------------------------------------------------
(* Calls of clients, and their streams.                                    *)

\* A client calls, with the stream it has open at that moment.
LEMMA ClientCallsKeeps ==
  ASSUME CallsInv, NEW c \in Clients, NEW n \in Tried, NEW via, via \in {0, OpenStream(c)},
         CallsAsPublic(c, n, via)
  PROVE  CallsInv'
<1>1. /\ c \in Callers /\ c \notin Crons /\ calls[c].at = "idle"
      /\ streams[c] \in [id : Nat, open : BOOLEAN]
      /\ UNCHANGED <<userbot, directive, prompted, scripts, offers, streams>>
  BY CallOf, ToolCallsAssumption DEF CallsAsPublic, IdleCall, Callers, AgentRun
<1>2. via \in Nat /\ via <= streams[c].id
  BY <1>1 DEF OpenStream
<1>3. PICK kind \in {"none", "registered"} : /\ kind = (IF NotForClients(n) THEN "none" ELSE "registered")
                                             /\ kind = "registered" => n \in PublicTools
  BY DEF NotForClients
<1>4. PICK s : s = [Called(n, "running") EXCEPT !.kind = kind, !.via = via]
  OBVIOUS
<1>5. s \in CallRecords
  BY <1>2, <1>4 DEF CallRecords, CallNames, CallPlaces, Called
<1>6. /\ s.name = n /\ s.at = "running" /\ s.kind = kind /\ s.told = "nothing" /\ s.via = via
      /\ s.reply = "none" /\ ~s.asked /\ ~s.sent
  BY <1>4 DEF Called
<1>7. CallFits(c, s, directive, prompted, streams[c])
  BY <1>1, <1>2, <1>3, <1>6 DEF CallFits, CallIsHonest, CallIsAnswered, CallIsMeant
<1>8. Moves(c, s)
  BY <1>3, <1>4 DEF CallsAsPublic
<1>9. scripts \in [Scripts -> {"none", "on", "off"}] /\ offers \in [AgentRun -> SUBSET Tried]
  BY DEF CallsInv, CallsTypeOK
<1> QED
  BY <1>1, <1>5, <1>7, <1>8, <1>9, CallMovesOnly

\* A stream closes, or one with a new number opens.
LEMMA StreamKeeps ==
  ASSUME CallsInv, NEW c \in Clients, NEW id \in Nat, NEW open \in BOOLEAN,
         id >= streams[c].id, open => id > streams[c].id,
         streams' = [streams EXCEPT ![c] = [id |-> id, open |-> open]],
         UNCHANGED <<userbot, directive, prompted, scripts, offers, calls>>
  PROVE  CallsInv'
<1> USE DEF CallsInv
<1>1. CallsTypeOK'
  BY DEF CallsTypeOK
<1>2. CallsFit'
  <2> SUFFICES ASSUME NEW d \in Callers, d \in Clients
               PROVE  CallIsAnswered(d, calls[d], streams'[d])
    BY DEF CallsFit, CallFits, CallIsAnswered
  <2>1. /\ CallIsAnswered(d, calls[d], streams[d]) /\ calls[d] \in CallRecords
        /\ streams[d] \in [id : Nat, open : BOOLEAN]
    BY CallOf
  <2>2. CASE d # c
    <3>1. streams'[d] = streams[d]
      BY <2>2 DEF CallsTypeOK
    <3> QED
      BY <2>1, <3>1
  <2>3. CASE d = c
    <3>1. streams'[d] = [id |-> id, open |-> open]
      BY <2>3 DEF CallsTypeOK
    <3>2. calls[d].via \in Nat
      BY <2>1 DEF CallRecords
    <3> QED
      BY <2>1, <2>3, <3>1, <3>2 DEF CallIsAnswered
  <2> QED
    BY <2>2, <2>3
<1>3. OffersFit' /\ FlagIsTrue'
  BY DEF OffersFit, FlagIsTrue
<1> QED
  BY <1>1, <1>2, <1>3

\* The two steps of streams.
LEMMA StreamsKeep ==
  ASSUME CallsInv, NEW c \in Clients, StreamOpens(c) \/ StreamCloses(c)
  PROVE  CallsInv'
<1>1. streams[c] \in [id : Nat, open : BOOLEAN] /\ streams \in [Clients -> [id : Nat, open : BOOLEAN]]
  BY DEF CallsInv, CallsTypeOK
<1>2. CASE StreamOpens(c)
  <2>1. /\ streams' = [streams EXCEPT ![c] = [id |-> streams[c].id + 1, open |-> TRUE]]
        /\ UNCHANGED <<userbot, directive, prompted, scripts, offers, calls>>
    BY <1>1, <1>2 DEF StreamOpens
  <2>2. PICK id \in Nat : id = streams[c].id + 1 /\ id >= streams[c].id /\ id > streams[c].id
    BY <1>1
  <2>3. streams' = [streams EXCEPT ![c] = [id |-> id, open |-> TRUE]]
    BY <2>1, <2>2
  <2> QED
    BY <2>1, <2>2, <2>3, StreamKeeps
<1>3. CASE StreamCloses(c)
  <2>1. /\ streams' = [streams EXCEPT ![c] = [id |-> streams[c].id, open |-> FALSE]]
        /\ UNCHANGED <<userbot, directive, prompted, scripts, offers, calls>>
    BY <1>1, <1>3 DEF StreamCloses
  <2>2. streams[c].id \in Nat /\ streams[c].id >= streams[c].id
    BY <1>1
  <2> QED
    BY <2>1, <2>2, StreamKeeps
<1> QED
  BY <1>2, <1>3

-----------------------------------------------------------------------------
(* Handlers that leave the userbot alone.                                  *)

\* A handler answers and may store tools and end the run.
LEMMA AnswersKeep ==
  ASSUME CallsInv, NEW c \in Callers, NEW told \in {"ok", "failed"},
         calls[c].at = "running",
         calls[c].name \in SendTools /\ calls[c].kind = "registered" => told # "ok",
         Moves(c, Answered(c, told)),
         UNCHANGED <<directive, streams, userbot>>, prompted \subseteq prompted',
         scripts' \in [Scripts -> {"none", "on", "off"}],
         offers' \in [AgentRun -> SUBSET Tried], \A a \in Crons : offers'[a] \subseteq offers[a]
  PROVE  CallsInv'
<1>1. /\ Answered(c, told) \in CallRecords
      /\ CallFits(c, Answered(c, told), directive, prompted, streams[c])
  BY AnsweredFits
<1> QED
  BY <1>1, CallMovesOnly

\* The types of what is stored and offered.
LEMMA ToolStoresTyped ==
  ASSUME CallsInv
  PROVE  scripts \in [Scripts -> {"none", "on", "off"}] /\ offers \in [AgentRun -> SUBSET Tried]
BY DEF CallsInv, CallsTypeOK

\* No tool of that name.
LEMMA FindsNothingKeeps ==
  ASSUME CallsInv, NEW c \in Callers, FindsNothing(c)
  PROVE  CallsInv'
<1>1. /\ calls[c].at = "running" /\ calls[c].kind = "none" /\ Moves(c, Answered(c, "failed"))
      /\ UNCHANGED <<directive, streams, userbot, prompted, scripts, offers>>
  BY DEF FindsNothing, OnlyMoves
<1> QED
  BY <1>1, AnswersKeep, ToolStoresTyped

\* Handlers of no effect here.
LEMMA OtherEndsKeeps ==
  ASSUME CallsInv, NEW c \in Callers, NEW told \in {"ok", "failed"}, OtherEnds(c, told)
  PROVE  CallsInv'
<1>1. /\ calls[c].at = "running" /\ calls[c].name \notin SendTools /\ Moves(c, Answered(c, told))
      /\ UNCHANGED <<directive, streams, userbot, prompted, scripts, offers>>
  BY DEF OtherEnds, Runs, OnlyMoves
<1> QED
  BY <1>1, AnswersKeep, ToolStoresTyped

\* create_tool only ever adds names.
LEMMA CreateToolEndsKeeps ==
  ASSUME CallsInv, NEW c \in Callers, NEW n \in Prompts, CreateToolEnds(c, n)
  PROVE  CallsInv'
<1>1. /\ calls[c].at = "running" /\ calls[c].name \notin SendTools
      /\ UNCHANGED <<directive, streams, userbot, scripts, offers>> /\ prompted \subseteq prompted'
  BY DEF CreateToolEnds, Runs, SendTools
<1>2. PICK told \in {"ok", "failed"} : Moves(c, Answered(c, told))
  BY DEF CreateToolEnds
<1> QED
  BY <1>1, <1>2, AnswersKeep, ToolStoresTyped

\* The store of code tools.
LEMMA StoreEndsKeeps ==
  ASSUME CallsInv, NEW c \in Callers, NEW n \in Scripts, StoreEnds(c, n)
  PROVE  CallsInv'
<1>1. /\ calls[c].at = "running" /\ calls[c].name \notin SendTools
      /\ Moves(c, Answered(c, "ok"))
      /\ UNCHANGED <<directive, streams, userbot, prompted, offers>>
  BY DEF StoreEnds, StoresScript, Runs, SendTools
<1>2. scripts' \in [Scripts -> {"none", "on", "off"}]
  BY ToolStoresTyped DEF StoreEnds, StoresScript
<1> QED
  BY <1>1, <1>2, AnswersKeep, ToolStoresTyped

\* Dynamic and code tools.
LEMMA MadeToolEndsKeeps ==
  ASSUME CallsInv, NEW c \in Callers, NEW ok \in BOOLEAN, NEW disables \in BOOLEAN,
         MadeToolEnds(c, ok, disables)
  PROVE  CallsInv'
<1>1. /\ calls[c].at = "running" /\ calls[c].kind # "registered"
      /\ Moves(c, Answered(c, IF ok THEN "ok" ELSE "failed"))
      /\ UNCHANGED <<directive, streams, userbot, prompted, offers>>
  BY DEF MadeToolEnds
<1>2. scripts' \in [Scripts -> {"none", "on", "off"}]
  BY ToolStoresTyped DEF MadeToolEnds
<1>3. PICK told \in {"ok", "failed"} : Moves(c, Answered(c, told))
  BY <1>1
<1> QED
  BY <1>1, <1>2, <1>3, AnswersKeep, ToolStoresTyped

\* The end of a run: it is offered nothing more.
LEMMA DoneEndsKeeps ==
  ASSUME CallsInv, NEW a \in AgentRun, NEW valid \in BOOLEAN, DoneEnds(a, valid)
  PROVE  CallsInv'
<1>1. /\ a \in Callers /\ calls[a].at = "running" /\ calls[a].name \notin SendTools
      /\ UNCHANGED <<directive, streams, userbot, prompted, scripts>>
      /\ offers' = [offers EXCEPT ![a] = {}]
  BY DEF DoneEnds, Runs, SendTools, Callers
<1>2. PICK told \in {"ok", "failed"} : Moves(a, Answered(a, told))
  BY DEF DoneEnds
<1>3. offers' \in [AgentRun -> SUBSET Tried] /\ \A d \in Crons : offers'[d] \subseteq offers[d]
  BY <1>1, ToolStoresTyped DEF AgentRun
<1> QED
  BY <1>1, <1>2, <1>3, AnswersKeep, ToolStoresTyped

\* A handler that sends says so only of what was delivered.
LEMMA SendEndsKeeps ==
  ASSUME CallsInv, NEW c \in Callers, NEW delivered \in BOOLEAN, NEW threw \in BOOLEAN,
         SendEnds(c, delivered, threw)
  PROVE  CallsInv'
<1>1. /\ calls[c].at = "running" /\ (~delivered => threw)
      /\ OnlyMoves(c, [Answered(c, ToldOf(delivered, threw)) EXCEPT !.sent = delivered])
      /\ CallIsHonest(c, calls[c], directive)
  BY CallOf DEF SendEnds, Runs
<1>2. PICK told \in {"ok", "failed"} : told = ToldOf(delivered, threw) /\ (told = "ok" => delivered)
  BY <1>1 DEF ToldOf
<1>3. PICK r : r = Answered(c, "failed")
  OBVIOUS
<1>4. r \in CallRecords /\ CallFits(c, r, directive, prompted, streams[c])
  BY <1>1, <1>3, AnsweredFits
<1>5. PICK s : s = [r EXCEPT !.told = told, !.sent = delivered]
  OBVIOUS
<1>6. s = [Answered(c, told) EXCEPT !.sent = delivered]
  BY <1>3, <1>5 DEF Answered
<1>7. s \in CallRecords
  BY <1>4, <1>5 DEF CallRecords
<1>8. /\ s.name = r.name /\ s.at = r.at /\ s.kind = r.kind /\ s.told = told
      /\ s.via = r.via /\ s.reply = r.reply /\ s.barred = r.barred /\ s.threw = r.threw
      /\ s.asked = r.asked /\ s.sent = delivered
  BY <1>4, <1>5 DEF CallRecords
<1>9. /\ r.name = calls[c].name /\ r.at = "idle" /\ r.told = "failed"
      /\ r.barred = calls[c].barred /\ r.threw = calls[c].threw
  <2>1. PICK q \in CallRecords : q = calls[c]
    BY CallOf
  <2> QED
    BY <1>3, <2>1 DEF Answered, CallRecords
<1>10. CallIsHonest(c, s, directive)
  BY <1>1, <1>2, <1>4, <1>8, <1>9 DEF CallIsHonest, CallFits
<1>11. CallIsAnswered(c, s, streams[c]) /\ CallIsMeant(c, s, prompted)
  BY <1>4, <1>8, <1>9 DEF CallIsAnswered, CallIsMeant, CallFits
<1>12. OnlyMoves(c, s)
  BY <1>1, <1>2, <1>6
<1> QED
  BY <1>1, <1>7, <1>10, <1>11, <1>12, OnlyMovesKeeps DEF CallFits

-----------------------------------------------------------------------------
(* The userbot.                                                            *)

\* Whoever reconnects it leaves the flag up or the failure known.
LEMMA ReconnectedIsKnown ==
  ASSUME NEW bots \in BotRecords, NEW up \in BOOLEAN
  PROVE  /\ Reconnected(bots, up) \in BotRecords
         /\ Reconnected(bots, up).flag \/ Reconnected(bots, up).failed
<1>1. CASE up
  <2>1. Reconnected(bots, up) = [bots EXCEPT !.flag = TRUE, !.line = TRUE, !.failed = FALSE]
    BY <1>1 DEF Reconnected, BotRecords
  <2> QED
    BY <2>1 DEF BotRecords
<1>2. CASE ~up
  <2>1. Reconnected(bots, up) = [bots EXCEPT !.failed = TRUE]
    BY <1>2 DEF Reconnected, BotRecords
  <2> QED
    BY <2>1 DEF BotRecords
<1> QED
  BY <1>1, <1>2

\* Only the userbot changes.
LEMMA UserbotKeeps ==
  ASSUME CallsInv, userbot' \in BotRecords, UNCHANGED <<directive, prompted, scripts, offers, calls, streams>>,
         userbot'.there /\ ~userbot'.flag => \/ userbot'.failed \/ userbot'.polls \/ userbot'.late > 0
                                             \/ \E c \in Callers : calls[c].at = "connecting"
  PROVE  CallsInv'
BY DEF CallsInv, CallsTypeOK, CallsFit, OffersFit, FlagIsTrue

\* The type of the userbot.
LEMMA UserbotTyped ==
  ASSUME CallsInv
  PROVE  userbot \in BotRecords /\ userbot.late \in Nat
BY DEF CallsInv, CallsTypeOK, BotRecords

\* Every step of the userbot and of the poller leaves the flag up, the
\* failure known or a reconnect under way.
LEMMA UserbotStepsKeep ==
  ASSUME CallsInv, NEW up \in BOOLEAN,
         \/ UserbotConnects \/ LineDrops \/ PollerReads
         \/ LateReconnected(up) \/ PollerReconnected(up)
  PROVE  CallsInv'
<1>1. PICK u \in BotRecords : u = userbot /\ u.late \in Nat
  BY UserbotTyped
<1>2. CASE UserbotConnects
  <2>1. /\ userbot' = [u EXCEPT !.there = TRUE, !.flag = TRUE, !.line = TRUE]
        /\ UNCHANGED <<directive, prompted, scripts, offers, calls, streams>>
    BY <1>1, <1>2 DEF UserbotConnects
  <2>2. userbot' \in BotRecords /\ userbot'.flag
    BY <2>1 DEF BotRecords
  <2> QED
    BY <2>1, <2>2, UserbotKeeps
<1>3. CASE LineDrops
  <2>1. /\ userbot' = [u EXCEPT !.line = FALSE]
        /\ UNCHANGED <<directive, prompted, scripts, offers, calls, streams>>
    BY <1>1, <1>3 DEF LineDrops
  <2>2. /\ userbot' \in BotRecords /\ userbot'.there = u.there /\ userbot'.flag = u.flag
        /\ userbot'.failed = u.failed /\ userbot'.polls = u.polls /\ userbot'.late = u.late
    BY <2>1 DEF BotRecords
  <2> QED
    BY <1>1, <2>1, <2>2, UserbotKeeps DEF CallsInv, FlagIsTrue
<1>4. CASE PollerReads
  <2>1. /\ userbot' = [u EXCEPT !.flag = FALSE, !.polls = TRUE]
        /\ UNCHANGED <<directive, prompted, scripts, offers, calls, streams>>
    BY <1>1, <1>4 DEF PollerReads, Reconnecting
  <2>2. userbot' \in BotRecords /\ userbot'.polls
    BY <2>1 DEF BotRecords
  <2> QED
    BY <2>1, <2>2, UserbotKeeps
<1>5. CASE LateReconnected(up)
  <2>1. /\ u.late > 0 /\ userbot' = Reconnected([u EXCEPT !.late = u.late - 1], up)
        /\ UNCHANGED <<directive, prompted, scripts, offers, calls, streams>>
    BY <1>1, <1>5 DEF LateReconnected, BotRecords
  <2>2. u.late - 1 \in Nat
    BY <1>1, <2>1
  <2>3. [u EXCEPT !.late = u.late - 1] \in BotRecords
    BY <2>2 DEF BotRecords
  <2>4. userbot' \in BotRecords /\ (userbot'.flag \/ userbot'.failed)
    BY <2>1, <2>3, ReconnectedIsKnown
  <2> QED
    BY <2>1, <2>4, UserbotKeeps
<1>6. CASE PollerReconnected(up)
  <2>1. /\ userbot' = Reconnected([u EXCEPT !.polls = FALSE], up)
        /\ UNCHANGED <<directive, prompted, scripts, offers, calls, streams>>
    BY <1>1, <1>6 DEF PollerReconnected
  <2>2. [u EXCEPT !.polls = FALSE] \in BotRecords
    BY DEF BotRecords
  <2>3. userbot' \in BotRecords /\ (userbot'.flag \/ userbot'.failed)
    BY <2>1, <2>2, ReconnectedIsKnown
  <2> QED
    BY <2>1, <2>3, UserbotKeeps
<1> QED
  BY <1>2, <1>3, <1>4, <1>5, <1>6

\* A read on a good line, or refused.
LEMMA ReadEndsKeeps ==
  ASSUME CallsInv, NEW c \in Callers, NEW ok \in BOOLEAN, ReadEnds(c, ok)
  PROVE  CallsInv'
<1>1. /\ calls[c].at = "running" /\ calls[c].name \notin SendTools
      /\ UNCHANGED <<directive, streams, userbot, prompted, scripts, offers>>
  BY DEF ReadEnds, Runs, OnlyMoves, UserbotTools, SendTools
<1>2. PICK told \in {"ok", "failed"} : Moves(c, Answered(c, told))
  BY DEF ReadEnds, OnlyMoves
<1> QED
  BY <1>1, <1>2, AnswersKeep, ToolStoresTyped

\* A read that reconnects holds the flag down as long as it tries.
LEMMA ReadReconnectsKeeps ==
  ASSUME CallsInv, NEW c \in Callers, ReadReconnects(c)
  PROVE  CallsInv'
<1>1. /\ calls[c].at = "running" /\ calls[c].name \in UserbotTools
      /\ Moves(c, [calls[c] EXCEPT !.at = "connecting"]) /\ userbot' = [userbot EXCEPT !.flag = FALSE]
      /\ UNCHANGED <<directive, streams, prompted, scripts, offers>>
  BY DEF ReadReconnects, Runs, Reconnecting
<1>2. PICK r \in CallRecords : r = calls[c]
  BY CallOf
<1>3. PICK s : s = [r EXCEPT !.at = "connecting"]
  OBVIOUS
<1>4. s \in CallRecords
  BY <1>3 DEF CallRecords, CallPlaces
<1>5. /\ s.name = r.name /\ s.at = "connecting" /\ s.kind = r.kind /\ s.told = r.told
      /\ s.via = r.via /\ s.reply = r.reply /\ s.barred = r.barred /\ s.threw = r.threw
      /\ s.asked = r.asked /\ s.sent = r.sent
  BY <1>3 DEF CallRecords
<1>6. "tg_send_message" \notin UserbotTools
  BY DEF UserbotTools
<1>7. CallIsHonest(c, s, directive)
  BY <1>1, <1>2, <1>5, <1>6, CallOf DEF CallIsHonest
<1>8. CallIsAnswered(c, s, streams[c]) /\ CallIsMeant(c, s, prompted)
  BY <1>1, <1>2, <1>5, CallOf DEF CallIsAnswered, CallIsMeant
<1>9. userbot' \in BotRecords
  BY <1>1, UserbotTyped DEF BotRecords
<1>10. Moves(c, s)
  BY <1>1, <1>2, <1>3
<1>11. CallsTypeOK' /\ CallsFit' /\ OffersFit' /\ calls'[c] = s
  BY <1>1, <1>4, <1>7, <1>8, <1>9, <1>10, CallMoves, ToolStoresTyped DEF CallFits
<1>12. FlagIsTrue'
  BY <1>5, <1>11 DEF FlagIsTrue
<1> QED
  BY <1>11, <1>12 DEF CallsInv

\* Its reconnect ends and the call with it.
LEMMA ReadReconnectedKeeps ==
  ASSUME CallsInv, NEW c \in Callers, NEW up \in BOOLEAN, NEW ok \in BOOLEAN, ReadReconnected(c, up, ok)
  PROVE  CallsInv'
<1>1. /\ calls[c].at = "connecting" /\ userbot' = Reconnected(userbot, up)
      /\ UNCHANGED <<directive, streams, prompted, scripts, offers>>
  BY DEF ReadReconnected
<1>2. PICK told \in {"ok", "failed"} : Moves(c, Answered(c, told))
  BY DEF ReadReconnected
<1>3. calls[c].name \notin SendTools
  BY <1>1, CallOf DEF CallIsHonest, UserbotTools, SendTools
<1>4. /\ Answered(c, told) \in CallRecords
      /\ CallFits(c, Answered(c, told), directive, prompted, streams[c])
  BY <1>1, <1>3, AnsweredFits
<1>5. userbot' \in BotRecords /\ (userbot'.flag \/ userbot'.failed)
  BY <1>1, UserbotTyped, ReconnectedIsKnown
<1>6. CallsTypeOK' /\ CallsFit' /\ OffersFit'
  BY <1>1, <1>2, <1>4, <1>5, CallMoves, ToolStoresTyped
<1>7. FlagIsTrue'
  BY <1>5 DEF FlagIsTrue
<1> QED
  BY <1>6, <1>7 DEF CallsInv

\* A call that is given up leaves its reconnect behind as a late one.
LEMMA ToolTimesOutKeeps ==
  ASSUME CallsInv, NEW a \in AgentRun, ToolTimesOut(a)
  PROVE  CallsInv'
<1>1. /\ a \in Callers /\ calls[a].at \in {"running", "connecting"}
      /\ Moves(a, [calls[a] EXCEPT !.at = "idle", !.told = "timeout"])
      /\ UNCHANGED <<directive, streams, prompted, scripts, offers>>
  BY DEF ToolTimesOut, Callers
<1>2. PICK s : s = [calls[a] EXCEPT !.at = "idle", !.told = "timeout"]
  OBVIOUS
<1>3. s = [calls[a] EXCEPT !.at = "idle", !.told = "timeout", !.asked = FALSE]
  BY <1>1, <1>2, CallOf DEF CallRecords, CallIsHonest
<1>4. s \in CallRecords /\ CallFits(a, s, directive, prompted, streams[a])
  BY <1>1, <1>3, RefusedFits
<1>5. Moves(a, s)
  BY <1>1, <1>2
<1>6. CASE calls[a].at = "running"
  <2>1. userbot' = userbot
    BY <1>6 DEF ToolTimesOut
  <2> QED
    BY <1>1, <1>4, <1>5, <1>6, <2>1, CallMovesOnly, ToolStoresTyped
<1>7. CASE calls[a].at = "connecting"
  <2>1. userbot' = [userbot EXCEPT !.late = userbot.late + 1]
    BY <1>7 DEF ToolTimesOut
  <2>2. userbot' \in BotRecords /\ userbot'.late > 0
    BY <2>1, UserbotTyped DEF BotRecords
  <2>3. CallsTypeOK' /\ CallsFit' /\ OffersFit'
    BY <1>1, <1>4, <1>5, <2>2, CallMoves, ToolStoresTyped
  <2>4. FlagIsTrue'
    BY <2>2 DEF FlagIsTrue
  <2> QED
    BY <2>3, <2>4 DEF CallsInv
<1> QED
  BY <1>1, <1>6, <1>7

-----------------------------------------------------------------------------
(* The directive.                                                          *)

\* A new directive bars no call that had been made before it.
LEMMA DirectiveIsSetKeeps ==
  ASSUME CallsInv, DirectiveIsSet
  PROVE  CallsInv'
<1> USE DEF CallsInv
<1>1. directive' = "fresh" /\ UNCHANGED <<userbot, prompted, scripts, offers, calls, streams>>
  BY DEF DirectiveIsSet
<1>2. CallsTypeOK' /\ OffersFit' /\ FlagIsTrue'
  BY <1>1 DEF CallsTypeOK, OffersFit, FlagIsTrue
<1>3. CallsFit'
  BY <1>1 DEF CallsFit, CallFits, CallIsHonest
<1> QED
  BY <1>2, <1>3

\* When the directive goes no call is barred any more.
LEMMA DirectiveGoesKeeps ==
  ASSUME CallsInv, NEW to \in {"none", "stale"}, DirectiveGoes(to)
  PROVE  CallsInv'
<1> USE DEF CallsInv
<1>1. /\ directive' = to /\ calls' = Unbarred
      /\ UNCHANGED <<userbot, prompted, scripts, offers, streams>>
  BY DEF DirectiveGoes
<1>2. \A c \in Callers :
        calls'[c] = IF calls[c].at \in {"guards", "gate"} THEN [calls[c] EXCEPT !.barred = FALSE] ELSE calls[c]
  BY <1>1 DEF Unbarred
<1>3. ASSUME NEW c \in Callers
      PROVE  /\ calls'[c] \in CallRecords /\ calls'[c].at = calls[c].at
             /\ CallFits(c, calls'[c], directive', prompted, streams[c])
  <2>1. PICK r \in CallRecords : r = calls[c]
    BY CallOf
  <2>2. CASE r.at \in {"guards", "gate"}
    <3>1. calls'[c] = [r EXCEPT !.barred = FALSE]
      BY <1>2, <2>1, <2>2
    <3>2. PICK s : s = [r EXCEPT !.barred = FALSE]
      OBVIOUS
    <3>3. s \in CallRecords
      BY <3>2 DEF CallRecords
    <3>4. /\ s.name = r.name /\ s.at = r.at /\ s.kind = r.kind /\ s.told = r.told
          /\ s.via = r.via /\ s.reply = r.reply /\ ~s.barred /\ s.threw = r.threw
          /\ s.asked = r.asked /\ s.sent = r.sent
      BY <3>2 DEF CallRecords
    <3>5. CallIsHonest(c, s, directive')
      BY <2>1, <3>4, CallOf DEF CallIsHonest
    <3>6. CallIsAnswered(c, s, streams[c]) /\ CallIsMeant(c, s, prompted)
      BY <2>1, <3>4, CallOf DEF CallIsAnswered, CallIsMeant
    <3> QED
      BY <2>1, <3>1, <3>2, <3>3, <3>4, <3>5, <3>6 DEF CallFits
  <2>3. CASE r.at \notin {"guards", "gate"}
    <3>1. calls'[c] = r
      BY <1>2, <2>1, <2>3
    <3>2. CallIsHonest(c, r, directive')
      BY <2>1, <2>3, CallOf DEF CallIsHonest
    <3> QED
      BY <2>1, <3>1, <3>2, CallOf DEF CallFits
  <2> QED
    BY <2>2, <2>3
<1>4. calls' \in [Callers -> CallRecords]
  <2>1. calls' = [c \in Callers |-> calls'[c]]
    BY <1>1 DEF Unbarred
  <2> QED
    BY <1>3, <2>1
<1>5. CallsTypeOK'
  BY <1>1, <1>4 DEF CallsTypeOK
<1>6. CallsFit'
  BY <1>1, <1>3 DEF CallsFit
<1>7. OffersFit' /\ FlagIsTrue'
  BY <1>1, <1>3 DEF OffersFit, FlagIsTrue
<1> QED
  BY <1>5, <1>6, <1>7

-----------------------------------------------------------------------------
\* Every step keeps the invariant.
LEMMA CallsInvNext == CallsInv /\ [CallsNext]_callVars => CallsInv'
<1> SUFFICES ASSUME CallsInv, [CallsNext]_callVars PROVE CallsInv'
  OBVIOUS
<1>1. ASSUME NEW a \in AgentRun, AgentRunStep(a) PROVE CallsInv'
  BY <1>1, AsksModelKeeps, GuardHookKeeps, GateHookKeeps, BlacklistHookKeeps, ApprovalHookKeeps,
     AgentCallsKeeps, DoneEndsKeeps, ToolTimesOutKeeps DEF AgentRunStep
<1>2. ASSUME NEW c \in Clients, ClientStep(c) PROVE CallsInv'
  BY <1>2, ClientCallsKeeps, StreamsKeep DEF ClientStep, McpCalls, RestCalls
<1>3. ASSUME NEW c \in Callers, HandlerEnds(c) PROVE CallsInv'
  BY <1>3, FindsNothingKeeps, SendEndsKeeps, ReadEndsKeeps, ReadReconnectsKeeps,
     ReadReconnectedKeeps, CreateToolEndsKeeps, StoreEndsKeeps, MadeToolEndsKeeps,
     OtherEndsKeeps DEF HandlerEnds
<1>4. CASE UserbotConnects \/ LineDrops \/ PollerReads
  BY <1>4, UserbotStepsKeep
<1>5. ASSUME NEW up \in BOOLEAN, LateReconnected(up) \/ PollerReconnected(up) PROVE CallsInv'
  BY <1>5, UserbotStepsKeep
<1>6. CASE DirectiveIsSet
  BY <1>6, DirectiveIsSetKeeps
<1>7. ASSUME NEW to \in {"none", "stale"}, DirectiveGoes(to) PROVE CallsInv'
  BY <1>7, DirectiveGoesKeeps
<1>8. CASE UNCHANGED callVars
  BY <1>8 DEF callVars, CallsInv, CallsTypeOK, CallsFit, OffersFit, FlagIsTrue
<1> QED
  BY <1>1, <1>2, <1>3, <1>4, <1>5, <1>6, <1>7, <1>8 DEF CallsNext

\* Whatever is called, by whomever, and however the userbot comes and goes,
\* callers are told and get what they asked for and what happened
\* (tool-runner.ts, the plugins, mcp-protocol.ts, userbot connection.ts).
THEOREM CallsHonest == CallsSpec => []CallsAreHonest
<1>1. CallsInit => CallsInv
  BY CallsInvInit
<1>2. CallsInv /\ [CallsNext]_callVars => CallsInv'
  BY CallsInvNext
<1>3. CallsInv => CallsAreHonest
  BY CallsInvSuffices
<1> QED
  BY <1>1, <1>2, <1>3, PTL DEF CallsSpec

=============================================================================
