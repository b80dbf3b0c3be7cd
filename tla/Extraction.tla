----------------------------- MODULE Extraction -----------------------------
(***************************************************************************)
(* What is kept of one exchange: the gate of the post-processing phase and *)
(* the loop in which a model writes facts and tasks through tools.  Four   *)
(* budgets bound it (tool calls, nudges, facts, tasks), each counted at    *)
(* another place.  Where a fact ends up is SharedMemory's and              *)
(* ContextPrune's, here a write only succeeds or not.                      *)
(***************************************************************************)
EXTENDS Naturals, Sequences

CONSTANTS
  ToolSteps,     \* MAX_HIPPO_STEPS
  Nudges,        \* MAX_NUDGES
  FactCap,       \* MAX_WRITES_PER_EXCHANGE
  TaskBudget,    \* TASK_BUDGET_PER_EXCHANGE
  MaxBatch       \* bound: calls in one answer of the model

ASSUME ExtractionAssumption ==
  /\ {ToolSteps, Nudges, FactCap, TaskBudget} \subseteq Nat
  /\ MaxBatch \in Nat \ {0}

VARIABLE exchange

Begun == [at |-> "asking", steps |-> 0, nudged |-> 0, todo |-> <<>>, answered |-> TRUE,
          writes |-> 0, facts |-> 0, budget |-> TaskBudget, tasks |-> 0, asks |-> 0, closed |-> FALSE]

ExtractionInit == exchange = [Begun EXCEPT !.at = "answered"]

At(place) == exchange.at = place
Ends == exchange' = [exchange EXCEPT !.at = "ended"]

\* Long enough and not the echo of an automated message.
Gate(long, echo) ==
  /\ At("answered")
  /\ exchange' = [exchange EXCEPT !.at = IF long /\ ~echo THEN "asking" ELSE "ended"]

\* The steps are looked at between answers only.
MayAsk == At("asking") /\ exchange.steps < ToolSteps
StepsAreSpent == At("asking") /\ exchange.steps >= ToolSteps /\ Ends

AnswersCalls ==
  /\ MayAsk
  /\ \E n \in 1 .. MaxBatch, calls \in [1 .. MaxBatch -> {"memory_search", "memory_write", "task_add", "done"}] :
       exchange' = [exchange EXCEPT !.at = "calling", !.todo = SubSeq(calls, 1, n), !.answered = FALSE, !.asks = @ + 1]

\* Text alone is nudged once and then ends the loop.
Nudged == [exchange EXCEPT !.asks = @ + 1, !.nudged = @ + 1]
AnswersText ==
  /\ MayAsk
  /\ exchange' = IF exchange.nudged < Nudges THEN Nudged ELSE [Nudged EXCEPT !.at = "ended"]

AnswersNothing == MayAsk /\ exchange' = [exchange EXCEPT !.at = "ended", !.asks = @ + 1]

\* The model fails, or a write throws: runPost logs it.
Throws == Ends /\ (MayAsk \/ (At("calling") /\ Head(exchange.todo) = "memory_write"))

---------------------------------------------------------------------------
Call == Head(exchange.todo)
After == [exchange EXCEPT !.steps = @ + 1, !.todo = Tail(@), !.answered = (Tail(exchange.todo) = <<>>),
                          !.at = IF Tail(exchange.todo) = <<>> THEN "asking" ELSE "calling"]
Calls(name) == At("calling") /\ Call = name

Searches == Calls("memory_search") /\ exchange' = After

\* The cap is of writes that succeeded, so a refusal costs a step only.
CapCountsSteps == exchange.steps >= ToolSteps  \* Mutant: only the steps stop writes.
CapIsReached == exchange.writes >= FactCap
MemoryWrite ==
  /\ Calls("memory_write")
  /\ \/ exchange' = After
     \/ ~CapIsReached /\ exchange' = [After EXCEPT !.writes = @ + 1, !.facts = @ + 1]

\* An attempt spends, whether or not it succeeds.
SpendBudget(x) == [x EXCEPT !.budget = @ - 1]
TaskAdd ==
  /\ Calls("task_add")
  /\ IF exchange.budget <= 0 THEN exchange' = After
     ELSE \/ exchange' = SpendBudget(After)
          \/ exchange' = [SpendBudget(After) EXCEPT !.tasks = @ + 1]

\* The calls behind it are not made.
Done ==
  /\ Calls("done")
  /\ exchange' = [After EXCEPT !.at = "ended", !.closed = TRUE]

ExtractionNext ==
  \/ \E long, echo \in BOOLEAN : Gate(long, echo)
  \/ StepsAreSpent \/ AnswersCalls \/ AnswersText \/ AnswersNothing \/ Throws
  \/ Searches \/ MemoryWrite \/ TaskAdd \/ Done

ExtractionSpec == ExtractionInit /\ [][ExtractionNext]_exchange

---------------------------------------------------------------------------
(* However the model mixes text, refused writes and calls in bulk, it is   *)
(* asked no more often than there are tool steps and nudges; it is asked   *)
(* only when all its calls have results; and an exchange leaves no more    *)
(* facts and tasks than its caps (post/hippocampus.ts, cap-guard.ts,       *)
(* registry/tasks.tools.ts).                                               *)
ExtractionIsBounded ==
  /\ exchange.asks <= ToolSteps + Nudges
  /\ At("asking") => exchange.answered /\ ~exchange.closed
  /\ exchange.steps < ToolSteps + MaxBatch
  /\ exchange.facts <= FactCap /\ exchange.tasks <= TaskBudget
=============================================================================
