------------------------------- MODULE Recall -------------------------------
(***************************************************************************)
(* What the memory contributes to one request: the pre-processing phase of *)
(* the chat pipeline and of the agent, with the loop of the hippocampus    *)
(* and the retrieval it calls.  The loop is bounded in answers of its      *)
(* model and in time; the retrieval reads the full-text index, awaits an   *)
(* embedding, reads the vectors and awaits a ranking, while others approve,*)
(* reject, replace and delete what it has read.                            *)
(*                                                                         *)
(* A query matches every text: which rows a search would prefer is left    *)
(* open where a limit cuts, and of a row the status is kept.               *)
(***************************************************************************)
EXTENDS Naturals, Sequences, FiniteSets

CONSTANTS
  Shared, Context, Archive,  \* ids of rows, by layer
  MaxSteps,                  \* answers of the model with tool calls (MAX_HIPPO_STEPS)
  MaxTools,                  \* bound: tool calls in one answer
  TopN,                      \* rows a ranked search returns (rerankTopN)
  MaxChanges                 \* bound: changes of rows by others

Entries == Shared \union Context \union Archive

ASSUME RecallAssumption ==
  /\ Shared \intersect Context = {} /\ Archive \intersect (Shared \union Context) = {}
  /\ MaxSteps \in Nat \ {0} /\ MaxTools \in Nat \ {0} /\ TopN \in Nat \ {0}
  /\ MaxChanges \in Nat

VARIABLES
  status,     \* "none", or "pending", "active", "rejected", "stale" (replaced or expired)
  vectors,    \* ids that have an embedding
  focus,      \* there are directives
  request,    \* the request being prepared
  late,       \* the time of the hippocampus is over
  wereActive, \* history: rows that were active at some time of this request
  changes

recallVars == <<status, vectors, focus, request, late, wereActive, changes>>

NoRequest == [at |-> "idle"]
Is(place) == request.at = place

Here(rows) == {r \in rows : status[r] # "none"}
\* buildActiveFilter; the archive has no status.
Active(rows) == {r \in rows : status[r] = "active"}
Cut(rows) == {S \in SUBSET rows : Cardinality(S) = IF Cardinality(rows) < TopN THEN Cardinality(rows) ELSE TopN}

RecallInit ==
  /\ status \in [Entries -> {"none", "pending", "active", "rejected", "stale"}]
  /\ \A r \in Archive : status[r] \in {"none", "active"}
  /\ vectors \in {Here(Entries), Entries} \* a deleted row may have left its vector
  /\ focus \in BOOLEAN
  /\ request = NoRequest /\ late = FALSE /\ wereActive = {} /\ changes = 0

---------------------------------------------------------------------------
(* Others: approvals, replacements, deletions and new rows.                *)

TurnsInto(r, s) ==
  /\ changes < MaxChanges /\ changes' = changes + 1
  /\ status' = [status EXCEPT ![r] = s]
  /\ wereActive' = IF s = "active" THEN wereActive \union {r} ELSE wereActive
  /\ UNCHANGED <<focus, request, late>>

Approved(r) == status[r] = "pending" /\ \E s \in {"active", "rejected"} : TurnsInto(r, s) /\ UNCHANGED vectors
Replaced(r) == r \notin Archive /\ status[r] = "active" /\ TurnsInto(r, "stale") /\ UNCHANGED vectors
Written(r) == status[r] = "none" /\ TurnsInto(r, "active") /\ vectors' = vectors \union {r}
RowDeleted(r) == status[r] # "none" /\ TurnsInto(r, "none") /\ vectors' \in {vectors, vectors \ {r}}

TimeIsUp == /\ ~Is("idle") /\ ~late /\ late' = TRUE
            /\ UNCHANGED <<status, vectors, focus, request, wereActive, changes>>

---------------------------------------------------------------------------
(* The phase.                                                              *)

Still == UNCHANGED <<status, vectors, focus, wereActive, changes>>
Goes(place) == request' = [request EXCEPT !.at = place] /\ UNCHANGED late /\ Still

\* Directives and all of shared memory, as they are now.
Seed == Here(Shared)

\* Only the first message of a chat is searched for, and only if the seed
\* holds anything; a run of the agent always counts as one.
Begins(first, agent) ==
  /\ Is("idle") /\ agent => first
  /\ LET searched == first /\ (Seed # {} \/ focus) IN
     request' = [at |-> IF searched THEN "asking" ELSE "assembling", agent |-> agent, searched |-> searched,
                 seed |-> Seed, found |-> {}, hits |-> {}, todo |-> <<>>, steps |-> 0, why |-> "", summary |-> ""]
  /\ wereActive' = Active(Entries)
  /\ late' = FALSE /\ UNCHANGED <<status, vectors, focus, changes>>

\* remaining <= 0, or the call is aborted by its signal.
StopsLate ==
  /\ Is("asking") /\ late /\ request.steps < MaxSteps
  /\ request' = [request EXCEPT !.at = "assembling", !.why = "late"] /\ UNCHANGED late /\ Still
CallFails ==
  /\ Is("asking") /\ ~late /\ request.steps < MaxSteps
  /\ request' = [request EXCEPT !.at = "assembling", !.why = "error"] /\ UNCHANGED late /\ Still

\* One step is one answer, however many tools it calls.
CallsTools ==
  /\ Is("asking") /\ ~late /\ request.steps < MaxSteps
  /\ \E n \in 1 .. MaxTools, todo \in [1 .. MaxTools -> {"memory_search", "rag_search", "unknown"}] :
       request' = [request EXCEPT !.at = "tools", !.steps = @ + 1, !.todo = SubSeq(todo, 1, n)]
  /\ UNCHANGED late /\ Still

Tells ==
  /\ Is("asking") /\ ~late /\ request.steps < MaxSteps
  /\ request' = [request EXCEPT !.at = "assembling", !.summary = "told"] /\ UNCHANGED late /\ Still
\* An empty text, or no choice at all: asked once more.
TellsNothing == Is("asking") /\ ~late /\ request.steps < MaxSteps /\ Goes("finalising")
StepsAreUp == Is("asking") /\ request.steps >= MaxSteps /\ Goes("finalising")

\* At least five seconds, whatever time is left.
Finalises ==
  /\ Is("finalising")
  /\ \E s \in {"told", ""} : request' = [request EXCEPT !.at = "assembling", !.summary = s]
  /\ UNCHANGED late /\ Still

---------------------------------------------------------------------------
(* The tools.  No time limit holds here.                                   *)

Rest == Tail(request.todo)
AfterTool == IF Rest = <<>> THEN "asking" ELSE "tools"
NextTool(found) == request' = [request EXCEPT !.at = AfterTool, !.todo = Rest, !.hits = {}, !.found = @ \union found]

\* Full text: what it returns is for the model alone.
SearchesText ==
  /\ Is("tools") /\ Head(request.todo) \in {"memory_search", "unknown"}
  /\ NextTool({}) /\ UNCHANGED late /\ Still

SearchBegins ==
  /\ Is("tools") /\ Head(request.todo) = "rag_search"
  /\ request' = [request EXCEPT !.at = "embedding", !.hits = Active(Entries)]
  /\ UNCHANGED late /\ Still

\* A vector without its row is dropped, but not in the archive.
HydratedAll == Here(vectors) \union (vectors \intersect Archive)  \* Mutant: any status.
Hydrated == Active(vectors) \union (vectors \intersect Archive)

\* Without an embedding the full text has to do; one row needs no ranking.
Merged(hits) ==
  IF Cardinality(hits) <= 1
  THEN NextTool(hits)
  ELSE request' = [request EXCEPT !.at = "ranking", !.hits = hits]
EmbeddingComes ==
  /\ Is("embedding")
  /\ Merged(request.hits \union Hydrated) \/ Merged(request.hits)
  /\ UNCHANGED late /\ Still

\* Ranked, or in the order of the merge if the ranking fails.
RankingComes ==
  /\ Is("ranking")
  /\ \E rows \in Cut(request.hits) : NextTool(rows)
  /\ UNCHANGED late /\ Still

---------------------------------------------------------------------------
(* The prompt.                                                             *)

SalvageIfLate == IF request.summary = "" /\ request.searched /\ request.why # "" THEN "salvaged" ELSE request.summary  \* Mutant: a run out of steps has none.
\* Whatever went wrong, a search ends in a summary.
Salvage == IF request.summary = "" /\ request.searched THEN "salvaged" ELSE request.summary

\* The chat gets the seed, the summary and everything found; the agent gets
\* the summary and the directives.
Assembles ==
  /\ Is("assembling")
  /\ request' = [request EXCEPT !.at = "prompt", !.summary = Salvage,
                                !.seed = IF request.agent THEN {} ELSE @,
                                !.found = IF request.agent THEN {} ELSE @]
  /\ UNCHANGED late /\ Still

\* An agent whose phase fails takes the raw memory.
AgentFallsBack ==
  /\ ~Is("idle") /\ ~Is("prompt") /\ request.agent
  /\ request' = [request EXCEPT !.at = "prompt", !.summary = "", !.searched = FALSE, !.seed = Here(Shared), !.found = {}]
  /\ UNCHANGED late /\ Still

Answers == Is("prompt") /\ request' = NoRequest /\ late' = FALSE /\ wereActive' = {} /\ UNCHANGED <<status, vectors, focus, changes>>

RecallNext ==
  \/ \E r \in Entries : Approved(r) \/ Replaced(r) \/ Written(r) \/ RowDeleted(r)
  \/ \E first, agent \in BOOLEAN : Begins(first, agent)
  \/ TimeIsUp \/ StopsLate \/ CallFails \/ CallsTools \/ Tells \/ TellsNothing \/ StepsAreUp \/ Finalises
  \/ SearchesText \/ SearchBegins \/ EmbeddingComes \/ RankingComes
  \/ Assembles \/ AgentFallsBack \/ Answers

RecallSpec == RecallInit /\ [][RecallNext]_recallVars

---------------------------------------------------------------------------
RecallTypeOK ==
  /\ status \in [Entries -> {"none", "pending", "active", "rejected", "stale"}]
  /\ vectors \subseteq Entries /\ wereActive \subseteq Entries
  /\ focus \in BOOLEAN /\ late \in BOOLEAN /\ changes \in 0 .. MaxChanges
  /\ request.at \in {"idle", "asking", "tools", "embedding", "ranking", "finalising", "assembling", "prompt"}
  /\ ~Is("idle") => /\ request.seed \subseteq Shared /\ request.found \subseteq Entries
                    /\ request.steps \in 0 .. MaxSteps

(* However the loop ends, by the clock, an error, its last step or a model *)
(* that says nothing, a request that was searched for gets a summary; and  *)
(* what the search found in the tables with approvals was approved and in  *)
(* force at some time since the request began, though the rows were read   *)
(* before two awaits and the vectors between them (pre/exec-summary.ts,    *)
(* rag/pipeline).                                                          *)
PromptIsFounded ==
  Is("prompt") =>
    /\ request.searched => request.summary # ""
    /\ request.found \subseteq wereActive \union Archive
=============================================================================
