----------------------------- MODULE TurnProofs -----------------------------
(***************************************************************************)
(* Proofs about what stands around a turn of a chat or an agent: what      *)
(* memory contributes to its prompt, what is extracted from it, the tools  *)
(* agents make for themselves, and the pages of the web client.            *)
(***************************************************************************)
EXTENDS Recall, Extraction, ToolBox, WebChat, ListPages, MemoryEditor,
        FiniteSetTheorems, SequenceTheorems, TLAPS

(***************************************************************************)
(* The budgets of an extraction.  Between two answers of the model each    *)
(* answer so far has paid with a step or a nudge; while its calls are      *)
(* made the last one has not paid yet, and the calls that are left fit     *)
(* between the steps made and the end of the largest batch.                *)
(***************************************************************************)
ToolNamesOfHippo == {"memory_search", "memory_write", "task_add", "done"}

ExchangeType ==
  [at : {"answered", "asking", "calling", "ended"}, steps : Nat, nudged : Nat,
   todo : Seq(ToolNamesOfHippo), answered : BOOLEAN, writes : Nat, facts : Nat,
   budget : Nat, tasks : Nat, asks : Nat, closed : BOOLEAN]

StepsFit ==
  /\ exchange.at # "calling" => exchange.steps < ToolSteps + MaxBatch
  /\ exchange.at = "calling" =>
       /\ exchange.todo # <<>>
       /\ exchange.steps + Len(exchange.todo) < ToolSteps + MaxBatch
AsksArePaid ==
  /\ exchange.at \in {"answered", "asking"} => exchange.asks <= exchange.steps + exchange.nudged
  /\ exchange.at = "calling" => exchange.asks <= exchange.steps + exchange.nudged + 1
  /\ exchange.asks <= ToolSteps + Nudges
  /\ exchange.at # "ended" => exchange.nudged <= Nudges
CapsHold ==
  /\ exchange.facts = exchange.writes /\ exchange.writes <= FactCap
  /\ exchange.tasks + exchange.budget <= TaskBudget

ExtractionInv ==
  /\ exchange \in ExchangeType
  /\ exchange.at \in {"answered", "asking"} => exchange.answered
  /\ exchange.at # "ended" => ~exchange.closed
  /\ StepsFit /\ AsksArePaid /\ CapsHold

LEMMA BudgetsAreNumbers ==
  /\ ToolSteps \in Nat /\ Nudges \in Nat /\ FactCap \in Nat /\ TaskBudget \in Nat
  /\ MaxBatch \in Nat /\ MaxBatch > 0
BY ExtractionAssumption

LEMMA ExtractionStarts == ExtractionInit => ExtractionInv
<1>1. <<>> \in Seq(ToolNamesOfHippo)
    OBVIOUS
<1>2. ASSUME ExtractionInit
      PROVE  exchange = [at |-> "answered", steps |-> 0, nudged |-> 0, todo |-> <<>>,
                         answered |-> TRUE, writes |-> 0, facts |-> 0, budget |-> TaskBudget,
                         tasks |-> 0, asks |-> 0, closed |-> FALSE]
    BY <1>2 DEF ExtractionInit, Begun
<1>3. ExtractionInit => exchange \in ExchangeType
    <2> DEFINE none == <<>>
    <2>1. none \in Seq(ToolNamesOfHippo)
        BY <1>1
    <2>2. ExtractionInit => exchange = [Begun EXCEPT !.at = "answered"]
        BY DEF ExtractionInit
    <2>3. Begun = [at |-> "asking", steps |-> 0, nudged |-> 0, todo |-> none, answered |-> TRUE,
                   writes |-> 0, facts |-> 0, budget |-> TaskBudget, tasks |-> 0, asks |-> 0,
                   closed |-> FALSE]
        BY DEF Begun
    <2> HIDE DEF none
    <2>4. Begun \in ExchangeType
        BY <2>1, <2>3, BudgetsAreNumbers DEF ExchangeType
    <2>. QED
        BY <2>2, <2>4 DEF ExchangeType
<1>4. ExtractionInit => StepsFit /\ AsksArePaid /\ CapsHold
    BY <1>2, BudgetsAreNumbers DEF StepsFit, AsksArePaid, CapsHold
<1>. QED
    BY <1>2, <1>3, <1>4 DEF ExtractionInv

(* What a call leaves: one step more, one call less.                       *)
LEMMA AfterACall ==
  ASSUME ExtractionInv, exchange.at = "calling"
  PROVE  /\ After \in ExchangeType
         /\ After.steps = exchange.steps + 1
         /\ After.todo = Tail(exchange.todo)
         /\ After.at = IF After.todo = <<>> THEN "asking" ELSE "calling"
         /\ After.answered = (After.todo = <<>>)
         /\ After.steps < ToolSteps + MaxBatch
         /\ After.todo # <<>> => After.steps + Len(After.todo) < ToolSteps + MaxBatch
         /\ After.asks = exchange.asks /\ After.nudged = exchange.nudged
         /\ After.facts = exchange.facts /\ After.writes = exchange.writes
         /\ After.tasks = exchange.tasks /\ After.budget = exchange.budget
         /\ After.closed = FALSE
<1>1. /\ Tail(exchange.todo) \in Seq(ToolNamesOfHippo)
      /\ Len(Tail(exchange.todo)) = Len(exchange.todo) - 1
      /\ Len(exchange.todo) \in Nat /\ Len(exchange.todo) > 0
    BY HeadTailProperties, EmptySeq, LenProperties DEF ExtractionInv, ExchangeType, StepsFit
<1> DEFINE rest == Tail(exchange.todo)
           over == (rest = <<>>)
<1>2. After = [exchange EXCEPT !.steps = exchange.steps + 1, !.todo = rest, !.answered = over,
                               !.at = IF rest = <<>> THEN "asking" ELSE "calling"]
    BY DEF After, ExtractionInv, ExchangeType
<1>3. rest \in Seq(ToolNamesOfHippo) /\ over \in BOOLEAN
    BY <1>1
<1>4. exchange \in ExchangeType /\ exchange.steps \in Nat /\ exchange.closed = FALSE
    BY DEF ExtractionInv, ExchangeType
<1>5. Len(rest) = Len(exchange.todo) - 1
    BY <1>1
<1>6. over = (rest = <<>>)
    OBVIOUS
<1> HIDE DEF rest, over
<1>7. /\ After.steps = exchange.steps + 1 /\ After.todo = rest /\ After.answered = over
      /\ After.at = IF rest = <<>> THEN "asking" ELSE "calling"
      /\ After.asks = exchange.asks /\ After.nudged = exchange.nudged
      /\ After.facts = exchange.facts /\ After.writes = exchange.writes
      /\ After.tasks = exchange.tasks /\ After.budget = exchange.budget
      /\ After.closed = exchange.closed
    BY <1>2, <1>4 DEF ExchangeType
<1>8. After \in ExchangeType
    <2> DEFINE place == IF rest = <<>> THEN "asking" ELSE "calling"
    <2>1. After = [at |-> place, steps |-> exchange.steps + 1, nudged |-> exchange.nudged,
                   todo |-> rest, answered |-> over, writes |-> exchange.writes,
                   facts |-> exchange.facts, budget |-> exchange.budget,
                   tasks |-> exchange.tasks, asks |-> exchange.asks, closed |-> exchange.closed]
        BY <1>2, <1>4 DEF ExchangeType
    <2>2. place \in {"asking", "calling"} /\ exchange.steps + 1 \in Nat
        BY <1>4
    <2> HIDE DEF place
    <2>. QED
        BY <1>3, <1>4, <2>1, <2>2 DEF ExchangeType
<1>9. /\ After.steps < ToolSteps + MaxBatch
      /\ rest # <<>> => After.steps + Len(rest) < ToolSteps + MaxBatch
    <2>1. exchange.steps + Len(exchange.todo) < ToolSteps + MaxBatch
        BY DEF ExtractionInv, StepsFit
    <2>. QED
        BY <1>1, <1>4, <1>5, <1>7, <2>1, BudgetsAreNumbers
<1>. QED
    BY <1>4, <1>6, <1>7, <1>8, <1>9 DEF rest

LEMMA ExtractionKept == ExtractionInv /\ [ExtractionNext]_exchange => ExtractionInv'
<1> SUFFICES ASSUME ExtractionInv, [ExtractionNext]_exchange PROVE ExtractionInv'
    OBVIOUS
<1> USE DEF ExtractionInv
<1>0. /\ exchange.asks \in Nat /\ exchange.steps \in Nat /\ exchange.nudged \in Nat
      /\ exchange.writes \in Nat /\ exchange.facts \in Nat /\ exchange.tasks \in Nat
      /\ exchange.budget \in Nat /\ exchange.todo \in Seq(ToolNamesOfHippo)
    BY DEF ExchangeType
<1> USE BudgetsAreNumbers
<1>f. /\ exchange.asks <= ToolSteps + Nudges
      /\ exchange.at \in {"answered", "asking"} => exchange.asks <= exchange.steps + exchange.nudged
      /\ exchange.at = "calling" => exchange.asks <= exchange.steps + exchange.nudged + 1
      /\ exchange.at # "ended" => exchange.nudged <= Nudges
    BY DEF AsksArePaid
<1>1. ASSUME NEW long \in BOOLEAN, NEW echo \in BOOLEAN, Gate(long, echo) PROVE ExtractionInv'
    BY <1>1 DEF Gate, At, ExchangeType, StepsFit, AsksArePaid, CapsHold
<1>2. ASSUME Ends PROVE ExtractionInv'
    <2>1. exchange.steps < ToolSteps + MaxBatch
        <3>1. exchange.at = "calling" => Len(exchange.todo) \in Nat
            BY <1>0, LenProperties
        <3>. QED
            BY <1>0, <3>1, BudgetsAreNumbers DEF StepsFit
    <2>. QED
        BY <1>2, <2>1 DEF Ends, ExchangeType, StepsFit, AsksArePaid, CapsHold
<1>3. CASE AnswersCalls
    <2>1. PICK n \in 1 .. MaxBatch, calls \in [1 .. MaxBatch -> ToolNamesOfHippo] :
            exchange' = [exchange EXCEPT !.at = "calling", !.todo = SubSeq(calls, 1, n),
                                         !.answered = FALSE, !.asks = @ + 1]
        BY <1>3 DEF AnswersCalls, ToolNamesOfHippo
    <2>2. calls \in Seq(ToolNamesOfHippo) /\ Len(calls) = MaxBatch
        BY BudgetsAreNumbers
    <2>3. SubSeq(calls, 1, n) \in Seq(ToolNamesOfHippo) /\ Len(SubSeq(calls, 1, n)) = n
        BY <2>2, SubSeqProperties, BudgetsAreNumbers
    <2>4. SubSeq(calls, 1, n) # <<>>
        BY <2>3, EmptySeq, LenProperties, BudgetsAreNumbers
    <2>5. exchange.at = "asking" /\ exchange.steps < ToolSteps
        BY <1>3 DEF AnswersCalls, MayAsk, At
    <2>6. exchange' = [at |-> "calling", steps |-> exchange.steps, nudged |-> exchange.nudged,
                       todo |-> SubSeq(calls, 1, n), answered |-> FALSE,
                       writes |-> exchange.writes, facts |-> exchange.facts,
                       budget |-> exchange.budget, tasks |-> exchange.tasks,
                       asks |-> exchange.asks + 1, closed |-> exchange.closed]
        BY <2>1 DEF ExchangeType
    <2>7. (exchange \in ExchangeType)'
        BY <1>0, <2>3, <2>6 DEF ExchangeType
    <2>8. StepsFit' /\ CapsHold'
        <3>1. /\ exchange'.at = "calling" /\ exchange'.steps = exchange.steps
              /\ exchange'.todo = SubSeq(calls, 1, n) /\ exchange'.facts = exchange.facts
              /\ exchange'.writes = exchange.writes /\ exchange'.tasks = exchange.tasks
              /\ exchange'.budget = exchange.budget
            BY <2>6
        <3>2. exchange.steps + n < ToolSteps + MaxBatch
            BY <1>0, <2>5
        <3>. QED
            BY <2>3, <2>4, <3>1, <3>2 DEF StepsFit, CapsHold
    <2>9. AsksArePaid'
        <3>1. /\ exchange'.asks = exchange.asks + 1 /\ exchange'.steps = exchange.steps
              /\ exchange'.nudged = exchange.nudged /\ exchange'.at = "calling"
            BY <2>6
        <3>. QED
            BY <1>0, <1>f, <2>5, <3>1 DEF AsksArePaid
    <2>. QED
        BY <2>5, <2>6, <2>7, <2>8, <2>9
<1>4. CASE AnswersText
    <2>1. exchange.at = "asking" /\ exchange.steps < ToolSteps
        BY <1>4 DEF AnswersText, MayAsk, At
    <2>2. exchange' = [at |-> IF exchange.nudged < Nudges THEN exchange.at ELSE "ended",
                       steps |-> exchange.steps, nudged |-> exchange.nudged + 1,
                       todo |-> exchange.todo, answered |-> exchange.answered,
                       writes |-> exchange.writes, facts |-> exchange.facts,
                       budget |-> exchange.budget, tasks |-> exchange.tasks,
                       asks |-> exchange.asks + 1, closed |-> exchange.closed]
        BY <1>4 DEF AnswersText, Nudged, ExchangeType
    <2>3. (exchange \in ExchangeType)'
        BY <1>0, <2>1, <2>2 DEF ExchangeType
    <2>4. StepsFit' /\ CapsHold'
        BY <1>0, <2>1, <2>2, BudgetsAreNumbers DEF StepsFit, CapsHold
    <2>5. AsksArePaid'
        <3>1. /\ exchange'.asks = exchange.asks + 1 /\ exchange'.steps = exchange.steps
              /\ exchange'.nudged = exchange.nudged + 1
              /\ exchange'.at = IF exchange.nudged < Nudges THEN "asking" ELSE "ended"
            BY <2>1, <2>2
        <3>. QED
            BY <1>0, <1>f, <2>1, <3>1 DEF AsksArePaid
    <2>. QED
        BY <2>1, <2>2, <2>3, <2>4, <2>5
<1>5. CASE AnswersNothing
    <2>1. exchange.at = "asking" /\ exchange.steps < ToolSteps
        BY <1>5 DEF AnswersNothing, MayAsk, At
    <2>2. exchange' = [exchange EXCEPT !.at = "ended", !.asks = @ + 1]
        BY <1>5 DEF AnswersNothing
    <2>3. (exchange \in ExchangeType)'
        <3>1. exchange' = [at |-> "ended", steps |-> exchange.steps, nudged |-> exchange.nudged,
                           todo |-> exchange.todo, answered |-> exchange.answered,
                           writes |-> exchange.writes, facts |-> exchange.facts,
                           budget |-> exchange.budget, tasks |-> exchange.tasks,
                           asks |-> exchange.asks + 1, closed |-> exchange.closed]
            BY <2>2 DEF ExchangeType
        <3>. QED
            BY <1>0, <3>1 DEF ExchangeType
    <2>4. StepsFit' /\ CapsHold'
        BY <1>0, <2>1, <2>2, BudgetsAreNumbers DEF StepsFit, CapsHold, ExchangeType
    <2>5. AsksArePaid'
        BY <1>0, <2>1, <2>2, BudgetsAreNumbers DEF AsksArePaid, ExchangeType
    <2>. QED
        BY <2>2, <2>3, <2>4, <2>5 DEF ExchangeType
<1> DEFINE Called == exchange.at = "calling"
           Grown(w, f, b, t) ==
             exchange' = [After EXCEPT !.writes = w, !.facts = f, !.budget = b, !.tasks = t]
<1>6. ASSUME NEW w \in Nat, NEW f \in Nat, NEW b \in Nat, NEW t \in Nat, Called,
             Grown(w, f, b, t), f = w, w <= FactCap, t + b <= TaskBudget
      PROVE  ExtractionInv'
    <2>1. exchange' = [at |-> After.at, steps |-> After.steps, nudged |-> After.nudged,
                       todo |-> After.todo, answered |-> After.answered,
                       writes |-> w, facts |-> f, budget |-> b, tasks |-> t,
                       asks |-> After.asks, closed |-> After.closed]
        BY <1>6, AfterACall DEF ExchangeType
    <2>2. (exchange \in ExchangeType)'
        BY <1>6, <2>1, AfterACall DEF ExchangeType
    <2>3. StepsFit'
        BY <1>6, <2>1, AfterACall DEF StepsFit
    <2>4. AsksArePaid'
        <3>1. /\ exchange'.asks = exchange.asks /\ exchange'.steps = exchange.steps + 1
              /\ exchange'.nudged = exchange.nudged
              /\ exchange'.at \in {"asking", "calling"}
            BY <1>6, <2>1, AfterACall
        <3>2. exchange.at = "calling"
            BY <1>6
        <3>. QED
            BY <1>0, <1>f, <3>1, <3>2 DEF AsksArePaid
    <2>5. CapsHold'
        BY <1>6, <2>1 DEF CapsHold
    <2>6. /\ exchange'.at \in {"asking", "calling"} /\ exchange'.closed = FALSE
          /\ exchange'.at = "asking" => exchange'.answered
        BY <1>6, <2>1, AfterACall
    <2>. QED
        BY <2>2, <2>3, <2>4, <2>5, <2>6
<1>7. ASSUME Called PROVE After = [After EXCEPT !.writes = exchange.writes, !.facts = exchange.facts,
                                                !.budget = exchange.budget, !.tasks = exchange.tasks]
    BY <1>7, AfterACall DEF ExchangeType
<1>8. /\ exchange.facts = exchange.writes /\ exchange.writes <= FactCap
      /\ exchange.tasks + exchange.budget <= TaskBudget
    BY DEF CapsHold
<1>9. ASSUME Called, exchange' = After PROVE ExtractionInv'
    <2>1. Grown(exchange.writes, exchange.facts, exchange.budget, exchange.tasks)
        BY <1>7, <1>9
    <2> HIDE DEF Grown
    <2>. QED
        BY <1>0, <1>6, <1>8, <1>9, <2>1
<1>10. CASE Searches
    BY <1>9, <1>10 DEF Searches, Calls, At
<1>11. CASE MemoryWrite
    <2>1. Called /\ (exchange' = After \/ (exchange.writes < FactCap
             /\ exchange' = [After EXCEPT !.writes = @ + 1, !.facts = @ + 1]))
        BY <1>0, <1>11, BudgetsAreNumbers DEF MemoryWrite, Calls, At, CapIsReached
    <2>2. ASSUME exchange.writes < FactCap, exchange' = [After EXCEPT !.writes = @ + 1, !.facts = @ + 1]
          PROVE  ExtractionInv'
        <3>1. Grown(exchange.writes + 1, exchange.facts + 1, exchange.budget, exchange.tasks)
            BY <2>1, <2>2, AfterACall DEF ExchangeType
        <3>2. /\ exchange.writes + 1 \in Nat /\ exchange.facts + 1 \in Nat
              /\ exchange.facts + 1 = exchange.writes + 1 /\ exchange.writes + 1 <= FactCap
            <4> HIDE DEF Grown
            <4>. QED
                BY <1>0, <1>8, <2>2
        <3> HIDE DEF Grown
        <3>. QED
            BY <1>0, <1>6, <1>8, <2>1, <3>1, <3>2
    <2>. QED
        BY <1>9, <2>1, <2>2
<1>12. CASE TaskAdd
    <2>1. Called /\ (\/ exchange' = After
                     \/ /\ exchange.budget > 0
                        /\ \/ exchange' = SpendBudget(After)
                           \/ exchange' = [SpendBudget(After) EXCEPT !.tasks = @ + 1])
        BY <1>0, <1>12 DEF TaskAdd, Calls, At
    <2>2. ASSUME exchange.budget > 0, NEW t \in {exchange.tasks, exchange.tasks + 1},
                 Grown(exchange.writes, exchange.facts, exchange.budget - 1, t)
          PROVE  ExtractionInv'
        <3>1. exchange.budget - 1 \in Nat /\ t \in Nat /\ t + (exchange.budget - 1) <= TaskBudget
            <4> HIDE DEF Grown
            <4>. QED
                BY <1>0, <1>8, <2>2
        <3> HIDE DEF Grown
        <3>. QED
            BY <1>0, <1>6, <1>8, <2>1, <2>2, <3>1
    <2>3. ASSUME exchange' = SpendBudget(After)
          PROVE  Grown(exchange.writes, exchange.facts, exchange.budget - 1, exchange.tasks)
        BY <2>1, <2>3, AfterACall DEF SpendBudget, ExchangeType
    <2>4. ASSUME exchange' = [SpendBudget(After) EXCEPT !.tasks = @ + 1]
          PROVE  Grown(exchange.writes, exchange.facts, exchange.budget - 1, exchange.tasks + 1)
        BY <2>1, <2>4, AfterACall DEF SpendBudget, ExchangeType
    <2>. QED
        BY <1>9, <2>1, <2>2, <2>3, <2>4
<1>13. CASE Done
    <2>1. Called /\ exchange' = [After EXCEPT !.at = "ended", !.closed = TRUE]
        BY <1>13 DEF Done, Calls, At
    <2>2. (exchange \in ExchangeType)'
        BY <2>1, AfterACall DEF ExchangeType
    <2>3. StepsFit' /\ CapsHold'
        BY <1>8, <2>1, AfterACall DEF StepsFit, CapsHold, ExchangeType
    <2>4. AsksArePaid'
        BY <2>1, AfterACall DEF AsksArePaid, ExchangeType
    <2>. QED
        BY <2>1, <2>2, <2>3, <2>4, AfterACall DEF ExchangeType
<1>14. CASE UNCHANGED exchange
    BY <1>14 DEF StepsFit, AsksArePaid, CapsHold
<1>15. CASE StepsAreSpent \/ Throws
    BY <1>2, <1>15 DEF StepsAreSpent, Throws
<1>. QED
    BY <1>1, <1>3, <1>4, <1>5, <1>10, <1>11, <1>12, <1>13, <1>14, <1>15 DEF ExtractionNext

(* However the model mixes text, refused writes and calls in bulk, the     *)
(* budgets of the loop hold (pipeline/post/hippocampus.ts).                *)
THEOREM ExtractionStaysBounded == ExtractionSpec => []ExtractionIsBounded
<1>1. ExtractionInv => ExtractionIsBounded
    <2> SUFFICES ASSUME ExtractionInv PROVE ExtractionIsBounded
        OBVIOUS
    <2>1. /\ exchange.steps \in Nat /\ exchange.writes \in Nat /\ exchange.tasks \in Nat
          /\ exchange.budget \in Nat /\ exchange.todo \in Seq(ToolNamesOfHippo)
        BY DEF ExtractionInv, ExchangeType
    <2>2. exchange.steps < ToolSteps + MaxBatch
        <3>1. Len(exchange.todo) \in Nat
            BY <2>1, LenProperties
        <3>. QED
            BY <2>1, <3>1, BudgetsAreNumbers DEF ExtractionInv, StepsFit
    <2>. QED
        BY <2>1, <2>2, BudgetsAreNumbers
        DEF ExtractionInv, ExtractionIsBounded, At, AsksArePaid, CapsHold
<1>. QED
    BY <1>1, ExtractionStarts, ExtractionKept, PTL DEF ExtractionSpec

(***************************************************************************)
(* The limits of the tool box.  Errors in a row of code_tools are the      *)
(* failures recorded since its code was stored; consultations counted are  *)
(* those started; a call in a sandbox is one of a name that may be used.   *)
(***************************************************************************)
Row == [there : BOOLEAN, enabled : BOOLEAN, errors : Nat]
Callings == {NoCalling} \cup {Sandbox(n) : n \in CodeNames} \cup {Consultation(k) : k \in Kinds}

ToolTypes ==
  /\ box \in [CodeNames -> Row] /\ fails \in [CodeNames -> Nat] /\ strays \in [CodeNames -> Nat]
  /\ calling \in [AgentRuns -> Callings]
  /\ asked \in [AgentRuns -> [Kinds -> Nat]]
ErrorsAreFailures ==
  \A n \in CodeNames : box[n].there =>
    /\ box[n].errors = fails[n]
    /\ box[n].enabled <=> fails[n] < MaxErrors
StartsAreCounted ==
  /\ consults = asked
  /\ \A s \in AgentRuns, k \in Kinds : asked[s][k] <= Quota[k]
OfferedIsSaved ==
  /\ savedTools = dynamic /\ dynamic \cap Reserved = {}
  /\ IsFiniteSet(dynamic) /\ Cardinality(dynamic) <= MaxDynamic

ToolInv == ToolTypes /\ ErrorsAreFailures /\ StartsAreCounted /\ OfferedIsSaved

LEMMA ToolConstants ==
  /\ MaxErrors \in Nat /\ MaxErrors > 0 /\ MaxDynamic \in Nat
  /\ Kinds = {"specialists", "chaos"} /\ \A k \in Kinds : Quota[k] \in Nat
BY ToolBoxAssumption DEF Kinds

LEMMA ToolStarts == ToolInit => ToolInv
<1> SUFFICES ASSUME ToolInit PROVE ToolInv
    OBVIOUS
<1>1. ToolTypes
    BY DEF ToolInit, ToolTypes, Row, NoTool, Callings, NoConsults
<1>2. ErrorsAreFailures
    BY DEF ToolInit, ErrorsAreFailures, NoTool
<1>3. StartsAreCounted
    BY ToolConstants DEF ToolInit, StartsAreCounted, NoConsults
<1>4. OfferedIsSaved
    BY FS_EmptySet, ToolConstants DEF ToolInit, OfferedIsSaved
<1>. QED
    BY <1>1, <1>2, <1>3, <1>4 DEF ToolInv

(* The outcome of a run, recorded under a name.                            *)
LEMMA RecordKeeps ==
  ASSUME ToolInv, NEW n \in CodeNames, NEW ok \in BOOLEAN, RecordRun(n, ok)
  PROVE  /\ box' \in [CodeNames -> Row] /\ fails' \in [CodeNames -> Nat]
         /\ ErrorsAreFailures'
<1>1. CASE UNCHANGED <<box, fails>>
    BY <1>1 DEF ToolInv, ToolTypes, ErrorsAreFailures
<1>2. CASE ~(ok \/ ~box[n].there)
    <2> DEFINE row == box[n]
               stays == row.enabled /\ row.errors + 1 < MaxErrors
               failed == [there |-> row.there, enabled |-> stays, errors |-> row.errors + 1]
    <2>1. /\ row \in Row /\ row.there /\ row.errors = fails[n] /\ row.errors \in Nat
          /\ row.enabled <=> fails[n] < MaxErrors
        BY <1>2 DEF ToolInv, ToolTypes, ErrorsAreFailures, Row
    <2>2. stays \in BOOLEAN /\ (stays <=> fails[n] + 1 < MaxErrors)
        <3>1. stays <=> row.enabled /\ row.errors + 1 < MaxErrors
            OBVIOUS
        <3> HIDE DEF stays, row
        <3>2. fails[n] + 1 < MaxErrors => fails[n] < MaxErrors
            BY <2>1, ToolConstants
        <3>3. stays \in BOOLEAN
            BY DEF stays
        <3>. QED
            BY <2>1, <3>1, <3>2, <3>3
    <2>3. box' = [box EXCEPT ![n] = failed] /\ fails' = [fails EXCEPT ![n] = fails[n] + 1]
        <3>1. Failed(row) = [row EXCEPT !.errors = row.errors + 1, !.enabled = stays]
            BY DEF Failed
        <3>2. box' = [box EXCEPT ![n] = Failed(row)]
            BY <1>2 DEF RecordRun
        <3> HIDE DEF stays, row
        <3>3. Failed(row) = failed
            BY <2>1, <3>1 DEF Row
        <3>. QED
            BY <1>2, <3>2, <3>3 DEF RecordRun
    <2>4. failed \in Row
        <3> HIDE DEF stays, row
        <3>. QED
            BY <2>1, <2>2 DEF Row
    <2>5. /\ failed.errors = fails[n] + 1
          /\ failed.enabled <=> fails[n] + 1 < MaxErrors
        <3>1. failed.enabled = stays /\ failed.errors = row.errors + 1
            OBVIOUS
        <3> HIDE DEF failed, stays, row
        <3>. QED
            BY <2>1, <2>2, <3>1
    <2> HIDE DEF failed, row
    <2>6. box' \in [CodeNames -> Row] /\ fails' \in [CodeNames -> Nat]
        BY <2>3, <2>4 DEF ToolInv, ToolTypes
    <2>7. ASSUME NEW m \in CodeNames, box'[m].there
          PROVE  box'[m].errors = fails'[m] /\ (box'[m].enabled <=> fails'[m] < MaxErrors)
        <3>1. CASE m = n
            BY <2>3, <2>5, <3>1 DEF ToolInv, ToolTypes
        <3>2. CASE m # n
            <4>1. box'[m] = box[m] /\ fails'[m] = fails[m]
                BY <2>3, <3>2 DEF ToolInv, ToolTypes
            <4>. QED
                BY <2>7, <4>1 DEF ToolInv, ErrorsAreFailures
        <3>. QED
            BY <3>1, <3>2
    <2>. QED
        BY <2>6, <2>7 DEF ErrorsAreFailures
<1>. QED
    BY <1>1, <1>2 DEF RecordRun

(* New code under a name, or no code any more.                             *)
LEMMA StoreKeeps ==
  ASSUME ToolInv, NEW n \in CodeNames, NEW row \in Row, Store(n, row),
         row.there => row.enabled /\ row.errors = 0
  PROVE  ToolInv'
<1>1. ToolTypes'
    BY DEF ToolInv, ToolTypes, Store
<1>2. ErrorsAreFailures'
    <2>1. ASSUME NEW m \in CodeNames, box'[m].there
          PROVE  box'[m].errors = fails'[m] /\ (box'[m].enabled <=> fails'[m] < MaxErrors)
        <3>1. CASE m = n
            <4>1. box'[m] = row /\ fails'[m] = 0
                BY <3>1 DEF Store, ToolInv, ToolTypes
            <4>. QED
                BY <2>1, <4>1, ToolConstants
        <3>2. CASE m # n
            <4>1. box'[m] = box[m] /\ fails'[m] = fails[m]
                BY <3>2 DEF Store, ToolInv, ToolTypes
            <4>. QED
                BY <2>1, <4>1 DEF ToolInv, ErrorsAreFailures
        <3>. QED
            BY <3>1, <3>2
    <2>. QED
        BY <2>1 DEF ErrorsAreFailures
<1>3. StartsAreCounted' /\ OfferedIsSaved'
    BY DEF ToolInv, StartsAreCounted, OfferedIsSaved, Store
<1>. QED
    BY <1>1, <1>2, <1>3 DEF ToolInv

(* What a call leaves when its caller goes on.                             *)
LEMMA SandboxOf ==
  ASSUME ToolInv, NEW s \in AgentRuns, calling[s].kind = "sandbox"
  PROVE  calling[s].name \in CodeNames
BY ToolConstants DEF ToolInv, ToolTypes, Callings, NoCalling, Sandbox, Consultation

LEMMA ToolKept == ToolInv /\ [ToolNext]_toolVars => ToolInv'
<1> SUFFICES ASSUME ToolInv, [ToolNext]_toolVars PROVE ToolInv'
    OBVIOUS
<1>1. ASSUME NEW s \in AgentRuns, NEW k \in Kinds, Consults(s, k) PROVE ToolInv'
    <2>1. asked[s][k] < Quota[k] /\ asked[s][k] \in Nat /\ Quota[k] \in Nat
        BY <1>1, ToolConstants DEF Consults, ToolInv, StartsAreCounted, ToolTypes
    <2> DEFINE more == [asked EXCEPT ![s][k] = asked[s][k] + 1]
    <2>2. consults' = more /\ asked' = more
        BY <1>1 DEF Consults, Counted, ToolInv, StartsAreCounted
    <2>3. more \in [AgentRuns -> [Kinds -> Nat]]
        BY <2>1 DEF ToolInv, ToolTypes
    <2>4. \A t \in AgentRuns, j \in Kinds :
            more[t][j] = IF t = s /\ j = k THEN asked[s][k] + 1 ELSE asked[t][j]
        BY DEF ToolInv, ToolTypes
    <2>5. calling' \in [AgentRuns -> Callings]
        BY <1>1 DEF Consults, ToolInv, ToolTypes, Callings
    <2> HIDE DEF more
    <2>6. ToolTypes'
        BY <1>1, <2>2, <2>3, <2>5 DEF Consults, ToolInv, ToolTypes
    <2>7. StartsAreCounted'
        BY <2>1, <2>2, <2>4 DEF ToolInv, StartsAreCounted
    <2>8. ErrorsAreFailures' /\ OfferedIsSaved'
        BY <1>1 DEF Consults, ToolInv, ErrorsAreFailures, OfferedIsSaved
    <2>. QED
        BY <2>6, <2>7, <2>8 DEF ToolInv
<1>2. ASSUME NEW s \in AgentRuns, ConsultEnds(s) PROVE ToolInv'
    BY <1>2 DEF ConsultEnds, ToolInv, ToolTypes, Callings, ErrorsAreFailures,
                StartsAreCounted, OfferedIsSaved
<1>3. ASSUME NEW s \in AgentRuns, CallTimesOut(s) PROVE ToolInv'
    <2>1. calling[s].name \in CodeNames
        BY <1>3, SandboxOf DEF CallTimesOut
    <2>. QED
        BY <1>3, <2>1 DEF CallTimesOut, ToolInv, ToolTypes, Callings, ErrorsAreFailures,
                          StartsAreCounted, OfferedIsSaved
<1>4. ASSUME NEW s \in AgentRuns, NextSession(s) PROVE ToolInv'
    <2>1. ToolTypes'
        BY <1>4 DEF NextSession, ToolInv, ToolTypes, NoConsults
    <2>2. StartsAreCounted'
        BY <1>4, ToolConstants DEF NextSession, ToolInv, ToolTypes, StartsAreCounted, NoConsults
    <2>3. ErrorsAreFailures' /\ OfferedIsSaved'
        BY <1>4 DEF NextSession, ToolInv, ErrorsAreFailures, OfferedIsSaved
    <2>. QED
        BY <2>1, <2>2, <2>3 DEF ToolInv
<1>5. ASSUME NEW s \in AgentRuns, NEW ok \in BOOLEAN, SandboxEnds(s, ok) PROVE ToolInv'
    <2>1. calling[s].name \in CodeNames
        BY <1>5, SandboxOf DEF SandboxEnds
    <2>2. box' \in [CodeNames -> Row] /\ fails' \in [CodeNames -> Nat] /\ ErrorsAreFailures'
        BY <1>5, <2>1, RecordKeeps DEF SandboxEnds
    <2>3. ToolTypes'
        BY <1>5, <2>2 DEF SandboxEnds, ToolInv, ToolTypes, Callings
    <2>. QED
        BY <1>5, <2>2, <2>3 DEF SandboxEnds, ToolInv, StartsAreCounted, OfferedIsSaved
<1>6. ASSUME NEW s \in AgentRuns, NEW n \in ToolNames, CreateTool(s, n) PROVE ToolInv'
    <2>1. OfferedIsSaved'
        <3>1. IsFiniteSet(dynamic') /\ Cardinality(dynamic') <= MaxDynamic
            <4>1. CASE n \in dynamic
                <5>1. dynamic' = dynamic
                    BY <1>6, <4>1 DEF CreateTool
                <5>. QED
                    BY <5>1 DEF ToolInv, OfferedIsSaved
            <4>2. CASE n \notin dynamic
                <5>1. Cardinality(dynamic) < MaxDynamic /\ IsFiniteSet(dynamic)
                    BY <1>6, <4>2 DEF CreateTool, ToolInv, OfferedIsSaved
                <5>2. /\ IsFiniteSet(dynamic \cup {n})
                      /\ Cardinality(dynamic \cup {n}) = Cardinality(dynamic) + 1
                      /\ Cardinality(dynamic) \in Nat
                    BY <4>2, <5>1, FS_AddElement, FS_CardinalityType
                <5>3. dynamic' = dynamic \cup {n}
                    BY <1>6 DEF CreateTool
                <5>. QED
                    BY <5>1, <5>2, <5>3, ToolConstants
            <4>. QED
                BY <4>1, <4>2
        <3>. QED
            BY <1>6, <3>1 DEF CreateTool, Persist, ToolInv, OfferedIsSaved
    <2>. QED
        BY <1>6, <2>1 DEF CreateTool, ToolInv, ToolTypes, ErrorsAreFailures, StartsAreCounted
<1>7. ASSUME NEW s \in AgentRuns, NEW n \in CodeNames,
             CreateCodeTool(s, n) \/ EditCodeTool(s, n) \/ DeleteCodeTool(s, n)
      PROVE  ToolInv'
    <2>1. box[n] \in Row
        BY DEF ToolInv, ToolTypes
    <2>2. NewTool \in Row /\ NoTool \in Row /\ NewTool.enabled /\ NewTool.errors = 0 /\ ~NoTool.there
        BY DEF NewTool, NoTool, Row
    <2>3. Updated(box[n]) \in Row /\ Updated(box[n]).enabled /\ Updated(box[n]).errors = 0
        BY <2>1 DEF Updated, Row
    <2>4. \E row \in Row : Store(n, row) /\ (row.there => row.enabled /\ row.errors = 0)
        BY <1>7, <2>2, <2>3 DEF CreateCodeTool, EditCodeTool, DeleteCodeTool
    <2>. QED
        BY <2>4, StoreKeeps
<1>8. ASSUME NEW s \in AgentRuns, NEW n \in CodeNames, CallsCode(s, n) \/ TestsCode(s, n)
      PROVE  ToolInv'
    <2>1. SandboxStarts(s, n)
        BY <1>8 DEF CallsCode, TestsCode
    <2>. QED
        BY <2>1 DEF SandboxStarts, ToolInv, ToolTypes, Callings, ErrorsAreFailures,
                    StartsAreCounted, OfferedIsSaved
<1>9. ASSUME NEW n \in CodeNames, NEW ok \in BOOLEAN, StrayEnds(n, ok) PROVE ToolInv'
    <2>1. box' \in [CodeNames -> Row] /\ fails' \in [CodeNames -> Nat] /\ ErrorsAreFailures'
        BY <1>9, RecordKeeps DEF StrayEnds
    <2>2. strays' \in [CodeNames -> Nat]
        BY <1>9 DEF StrayEnds, ToolInv, ToolTypes
    <2>. QED
        BY <1>9, <2>1, <2>2 DEF StrayEnds, ToolInv, ToolTypes, StartsAreCounted, OfferedIsSaved
<1>10. CASE ToolBoot
    <2>1. dynamic' = dynamic
        BY <1>10 DEF ToolBoot, ToolInv, OfferedIsSaved
    <2>2. OfferedIsSaved'
        BY <1>10, <2>1 DEF ToolBoot, ToolInv, OfferedIsSaved
    <2>3. ToolTypes'
        BY <1>10 DEF ToolBoot, ToolInv, ToolTypes, NoConsults, Callings
    <2>4. ErrorsAreFailures'
        BY <1>10 DEF ToolBoot, ToolInv, ErrorsAreFailures
    <2>5. StartsAreCounted'
        BY <1>10, ToolConstants DEF ToolBoot, StartsAreCounted, NoConsults
    <2>. QED
        BY <2>2, <2>3, <2>4, <2>5 DEF ToolInv
<1>11. CASE UNCHANGED toolVars
    BY <1>11 DEF toolVars, ToolInv, ToolTypes, ErrorsAreFailures, StartsAreCounted, OfferedIsSaved
<1>. QED
    BY <1>1, <1>2, <1>3, <1>4, <1>5, <1>6, <1>7, <1>8, <1>9, <1>10, <1>11 DEF ToolNext

(* For any runs, names, limits and restarts, whatever runs on after its    *)
(* timeout: three strikes, the quotas and the saved tools hold             *)
(* (code-tools/registry.ts, dynamic-tools.ts).                             *)
THEOREM ToolLimitsStay == ToolSpec => []ToolLimitsHold
<1>1. ToolInv => ToolLimitsHold
    BY DEF ToolInv, ErrorsAreFailures, StartsAreCounted, OfferedIsSaved,
           ToolLimitsHold, ThreeStrikes, QuotaHolds, SavedAsOffered
<1>. QED
    BY <1>1, ToolStarts, ToolKept, PTL DEF ToolSpec

(***************************************************************************)
(* What a prompt is founded on.  While a request runs, every row that is   *)
(* active is among those that were active at some time of it, so what a    *)
(* search reads before or after an await is among them or in the archive.  *)
(***************************************************************************)
RowStatus == {"none", "pending", "active", "rejected", "stale"}
SearchTools == {"memory_search", "rag_search", "unknown"}
RunningPlaces == {"asking", "tools", "embedding", "ranking", "finalising", "assembling", "prompt"}

Preparing ==
  [at : RunningPlaces, agent : BOOLEAN, searched : BOOLEAN, seed : SUBSET Shared,
   found : SUBSET Entries, hits : SUBSET Entries, todo : Seq(SearchTools),
   steps : 0 .. MaxSteps, why : {"", "late", "error"}, summary : {"", "told", "salvaged"}]

RecallTypes ==
  /\ status \in [Entries -> RowStatus] /\ vectors \subseteq Entries
  /\ wereActive \subseteq Entries
  /\ focus \in BOOLEAN /\ late \in BOOLEAN /\ changes \in 0 .. MaxChanges
  /\ request = NoRequest \/ request \in Preparing

Founded == wereActive \union Archive
RequestIsFounded ==
  ~Is("idle") =>
    /\ Active(Entries) \subseteq wereActive
    /\ request.found \subseteq Founded /\ request.hits \subseteq Founded
CallsAreLeft == request.at \in {"tools", "embedding", "ranking"} => request.todo # <<>>
SearchedIsTold == Is("prompt") /\ request.searched => request.summary # ""

RecallInv == RecallTypes /\ RequestIsFounded /\ CallsAreLeft /\ SearchedIsTold

LEMMA RecallStarts == RecallInit => RecallInv
<1> SUFFICES ASSUME RecallInit PROVE RecallInv
    OBVIOUS
<1>1. RecallTypes
    <2>1. status \in [Entries -> RowStatus] /\ focus \in BOOLEAN /\ late \in BOOLEAN
        BY DEF RecallInit, RowStatus
    <2>2. vectors \subseteq Entries /\ wereActive \subseteq Entries
        BY DEF RecallInit, Here
    <2>3. changes \in 0 .. MaxChanges
        BY RecallAssumption DEF RecallInit
    <2>. QED
        BY <2>1, <2>2, <2>3 DEF RecallInit, RecallTypes
<1>. QED
    BY <1>1 DEF RecallInit, RecallInv, RequestIsFounded, CallsAreLeft, SearchedIsTold, Is, NoRequest

(* Rows change under a request.                                            *)
LEMMA OthersKeep ==
  ASSUME RecallInv, NEW r \in Entries, NEW s \in RowStatus, TurnsInto(r, s), vectors' \subseteq Entries
  PROVE  RecallInv'
<1>1. RecallTypes'
    BY RecallAssumption DEF TurnsInto, RecallInv, RecallTypes
<1>2. RequestIsFounded'
    <2> SUFFICES ASSUME ~Is("idle")'
                 PROVE  /\ Active(Entries)' \subseteq wereActive'
                        /\ request'.found \subseteq Founded' /\ request'.hits \subseteq Founded'
        BY DEF RequestIsFounded
    <2>1. ~Is("idle") /\ request' = request /\ wereActive \subseteq wereActive'
        BY DEF TurnsInto, Is
    <2>2. ASSUME NEW q \in Active(Entries)' PROVE q \in wereActive'
        <3>1. q \in Entries /\ status'[q] = "active"
            BY DEF Active
        <3>2. CASE q = r
            <4>1. s = "active"
                BY <3>1, <3>2 DEF TurnsInto, RecallInv, RecallTypes
            <4>. QED
                BY <3>2, <4>1 DEF TurnsInto
        <3>3. CASE q # r
            <4>1. q \in Active(Entries)
                BY <3>1, <3>3 DEF TurnsInto, RecallInv, RecallTypes, Active
            <4>. QED
                BY <2>1, <4>1 DEF RecallInv, RequestIsFounded
        <3>. QED
            BY <3>2, <3>3
    <2>. QED
        BY <2>1, <2>2 DEF RecallInv, RequestIsFounded, Founded
<1>. QED
    BY <1>1, <1>2 DEF TurnsInto, RecallInv, CallsAreLeft, SearchedIsTold, Is

(* The request goes on: rows stay as they are.                             *)
LEMMA PhaseKeeps ==
  ASSUME RecallInv, ~Is("idle"), Still, late' \in BOOLEAN, request' \in Preparing,
         request'.found \subseteq Founded, request'.hits \subseteq Founded,
         request'.at \in {"tools", "embedding", "ranking"} => request'.todo # <<>>,
         request'.at = "prompt" /\ request'.searched => request'.summary # ""
  PROVE  RecallInv'
<1>1. RecallTypes'
    BY DEF Still, RecallInv, RecallTypes
<1>2. Active(Entries)' = Active(Entries) /\ Founded' = Founded
    BY DEF Still, Active, Founded
<1>3. RequestIsFounded'
    BY <1>2 DEF RecallInv, RequestIsFounded, Still
<1>. QED
    BY <1>1, <1>3 DEF RecallInv, CallsAreLeft, SearchedIsTold, Is

(* The next tool, whatever the last one found.                             *)
LEMMA NextKeeps ==
  ASSUME RecallInv, request.at \in {"tools", "embedding", "ranking"},
         NEW rows \in SUBSET Entries, rows \subseteq Founded, NextTool(rows), Still, UNCHANGED late
  PROVE  RecallInv'
<1> DEFINE place == AfterTool
           rest == Rest
<1>1. request \in Preparing /\ request.todo # <<>> /\ request.todo \in Seq(SearchTools)
    <2>1. request \in Preparing
        BY DEF RecallInv, RecallTypes, NoRequest
    <2>. QED
        BY <2>1 DEF RecallInv, CallsAreLeft, Preparing
<1>2. rest \in Seq(SearchTools)
    BY <1>1, HeadTailProperties DEF Rest
<1>3. place \in RunningPlaces /\ (place = "tools" => rest # <<>>) /\ place \in {"asking", "tools"}
    BY DEF AfterTool, RunningPlaces
<1>4. request' = [request EXCEPT !.at = place, !.todo = rest, !.hits = {},
                                 !.found = request.found \union rows]
    BY DEF NextTool
<1>5. ~Is("idle")
    BY DEF Is
<1> HIDE DEF place, rest
<1>6. request' = [at |-> place, agent |-> request.agent, searched |-> request.searched,
                  seed |-> request.seed, found |-> request.found \union rows, hits |-> {},
                  todo |-> rest, steps |-> request.steps, why |-> request.why,
                  summary |-> request.summary]
    BY <1>1, <1>4 DEF Preparing
<1>7. request' \in Preparing
    BY <1>1, <1>2, <1>3, <1>6 DEF Preparing
<1>8. request.found \subseteq Founded
    BY <1>5 DEF RecallInv, RequestIsFounded
<1>9. /\ request'.found \subseteq Founded /\ request'.hits \subseteq Founded
      /\ request'.at \in {"asking", "tools"} /\ (request'.at = "tools" => request'.todo # <<>>)
    BY <1>3, <1>6, <1>8
<1>10. late' \in BOOLEAN
    BY DEF RecallInv, RecallTypes
<1>. QED
    BY <1>5, <1>7, <1>9, <1>10, PhaseKeeps

(* The request moves and keeps what it found.                              *)
LEMMA MoveKeeps ==
  ASSUME RecallInv, request \in Preparing, Still, UNCHANGED late, request' \in Preparing,
         request'.found = request.found, request'.hits = request.hits,
         request'.at \in {"asking", "finalising", "assembling"}
  PROVE  RecallInv'
<1>1. ~Is("idle")
    BY DEF Is, Preparing, RunningPlaces
<1>2. request.found \subseteq Founded /\ request.hits \subseteq Founded /\ late \in BOOLEAN
    BY <1>1 DEF RecallInv, RequestIsFounded, RecallTypes
<1>. QED
    BY <1>1, <1>2, PhaseKeeps

LEMMA RecallKept == RecallInv /\ [RecallNext]_recallVars => RecallInv'
<1> SUFFICES ASSUME RecallInv, [RecallNext]_recallVars PROVE RecallInv'
    OBVIOUS
<1>0. /\ RecallTypes
      /\ request.at # "idle" => request \in Preparing
    BY DEF RecallInv, RecallTypes, NoRequest
<1>1. ASSUME NEW r \in Entries, Approved(r) \/ Replaced(r) \/ Written(r) \/ RowDeleted(r)
      PROVE  RecallInv'
    <2>1. vectors' \subseteq Entries
        BY <1>0, <1>1 DEF Approved, Replaced, Written, RowDeleted, RecallTypes
    <2>2. \E s \in RowStatus : TurnsInto(r, s)
        BY <1>1 DEF Approved, Replaced, Written, RowDeleted, RowStatus
    <2>. QED
        BY <2>1, <2>2, OthersKeep
<1>2. ASSUME NEW first \in BOOLEAN, NEW agent \in BOOLEAN, Begins(first, agent) PROVE RecallInv'
    <2> DEFINE searched == first /\ (Seed # {} \/ focus)
               place == IF searched THEN "asking" ELSE "assembling"
    <2>1. request' = [at |-> place, agent |-> agent, searched |-> searched,
                      seed |-> Seed, found |-> {}, hits |-> {}, todo |-> <<>>, steps |-> 0,
                      why |-> "", summary |-> ""]
        BY <1>2 DEF Begins
    <2>2. place \in {"asking", "assembling"} /\ searched \in BOOLEAN /\ Seed \subseteq Shared
        BY <1>0 DEF RecallTypes, Seed, Here
    <2>3. <<>> \in Seq(SearchTools) /\ 0 \in 0 .. MaxSteps
        BY RecallAssumption
    <2> HIDE DEF searched, place
    <2>4. request' \in Preparing
        <3> DEFINE none == <<>>
        <3>1. none \in Seq(SearchTools)
            BY <2>3
        <3>2. request' = [at |-> place, agent |-> agent, searched |-> searched,
                          seed |-> Seed, found |-> {}, hits |-> {}, todo |-> none, steps |-> 0,
                          why |-> "", summary |-> ""]
            BY <2>1
        <3> HIDE DEF none
        <3>. QED
            BY <2>2, <2>3, <3>1, <3>2 DEF Preparing, RunningPlaces
    <2>5. RecallTypes'
        BY <1>0, <1>2, <2>4 DEF Begins, RecallTypes, Active
    <2>6. RequestIsFounded'
        <3>1. wereActive' = Active(Entries) /\ status' = status
            BY <1>2 DEF Begins
        <3>2. Active(Entries)' \subseteq wereActive'
            BY <3>1 DEF Active
        <3>3. request'.found = {} /\ request'.hits = {}
            BY <2>1
        <3>. QED
            BY <3>2, <3>3 DEF RequestIsFounded
    <2>. QED
        BY <2>1, <2>2, <2>5, <2>6 DEF RecallInv, CallsAreLeft, SearchedIsTold, Is
<1>3. CASE TimeIsUp
    BY <1>0, <1>3 DEF TimeIsUp, RecallInv, RecallTypes, RequestIsFounded, CallsAreLeft, SearchedIsTold,
                      Is, Active, Founded
<1>4. CASE StopsLate \/ CallFails
    <2>1. request.at = "asking" /\ Still /\ UNCHANGED late
        BY <1>4 DEF StopsLate, CallFails, Is
    <2>2. \E w \in {"late", "error"} : request' = [request EXCEPT !.at = "assembling", !.why = w]
        BY <1>4 DEF StopsLate, CallFails
    <2>3. request \in Preparing
        BY <1>0, <2>1
    <2>4. /\ request' \in Preparing /\ request'.found = request.found /\ request'.hits = request.hits
          /\ request'.at = "assembling"
        BY <2>2, <2>3 DEF Preparing, RunningPlaces
    <2>. QED
        BY <2>1, <2>3, <2>4, MoveKeeps
<1>5. CASE CallsTools
    <2>1. PICK n \in 1 .. MaxTools, todo \in [1 .. MaxTools -> SearchTools] :
            request' = [request EXCEPT !.at = "tools", !.steps = request.steps + 1,
                                       !.todo = SubSeq(todo, 1, n)]
        BY <1>5 DEF CallsTools, SearchTools
    <2>2. MaxTools \in Nat /\ MaxTools > 0 /\ MaxSteps \in Nat
        BY RecallAssumption
    <2>3. todo \in Seq(SearchTools) /\ Len(todo) = MaxTools
        BY <2>2
    <2> DEFINE batch == SubSeq(todo, 1, n)
    <2>4. batch \in Seq(SearchTools) /\ Len(batch) = n
        BY <2>2, <2>3, SubSeqProperties
    <2>5. batch # <<>>
        BY <2>2, <2>4, EmptySeq, LenProperties
    <2>6. /\ request.at = "asking" /\ request.steps < MaxSteps /\ Still /\ UNCHANGED late
        BY <1>5 DEF CallsTools, Is
    <2>7. request \in Preparing
        BY <1>0, <2>6
    <2> HIDE DEF batch
    <2>8. request' = [at |-> "tools", agent |-> request.agent, searched |-> request.searched,
                      seed |-> request.seed, found |-> request.found, hits |-> request.hits,
                      todo |-> batch, steps |-> request.steps + 1, why |-> request.why,
                      summary |-> request.summary]
        BY <2>1, <2>7 DEF Preparing, batch
    <2>9. request.steps + 1 \in 0 .. MaxSteps
        <3>1. request.steps \in 0 .. MaxSteps
            BY <2>7 DEF Preparing
        <3>. QED
            BY <2>2, <2>6, <3>1
    <2>10. request' \in Preparing
        BY <2>4, <2>7, <2>8, <2>9 DEF Preparing, RunningPlaces
    <2>11. ~Is("idle") /\ request.found \subseteq Founded /\ request.hits \subseteq Founded
        BY <2>6 DEF Is, RecallInv, RequestIsFounded
    <2>12. /\ request'.found = request.found /\ request'.hits = request.hits
           /\ request'.at = "tools" /\ request'.todo # <<>>
        BY <2>5, <2>8
    <2>13. late' \in BOOLEAN
        BY <1>0, <2>6 DEF RecallTypes
    <2>. QED
        BY <2>6, <2>10, <2>11, <2>12, <2>13, PhaseKeeps
<1>6. CASE Tells
    <2>1. request.at = "asking" /\ Still /\ UNCHANGED late
        BY <1>6 DEF Tells, Is
    <2>2. request' = [request EXCEPT !.at = "assembling", !.summary = "told"]
        BY <1>6 DEF Tells
    <2>3. request \in Preparing
        BY <1>0, <2>1
    <2>4. /\ request' \in Preparing /\ request'.found = request.found /\ request'.hits = request.hits
          /\ request'.at = "assembling"
        BY <2>2, <2>3 DEF Preparing, RunningPlaces
    <2>. QED
        BY <2>1, <2>3, <2>4, MoveKeeps
<1>7. CASE TellsNothing \/ StepsAreUp
    <2>1. request.at = "asking" /\ Still /\ UNCHANGED late
        BY <1>7 DEF TellsNothing, StepsAreUp, Goes, Is
    <2>2. request' = [request EXCEPT !.at = "finalising"]
        BY <1>7 DEF TellsNothing, StepsAreUp, Goes
    <2>3. request \in Preparing
        BY <1>0, <2>1
    <2>4. /\ request' \in Preparing /\ request'.found = request.found /\ request'.hits = request.hits
          /\ request'.at = "finalising"
        BY <2>2, <2>3 DEF Preparing, RunningPlaces
    <2>. QED
        BY <2>1, <2>3, <2>4, MoveKeeps
<1>8. CASE Finalises
    <2>1. request.at = "finalising" /\ Still /\ UNCHANGED late
        BY <1>8 DEF Finalises, Is
    <2>2. \E s \in {"told", ""} : request' = [request EXCEPT !.at = "assembling", !.summary = s]
        BY <1>8 DEF Finalises
    <2>3. request \in Preparing
        BY <1>0, <2>1
    <2>4. /\ request' \in Preparing /\ request'.found = request.found /\ request'.hits = request.hits
          /\ request'.at = "assembling"
        BY <2>2, <2>3 DEF Preparing, RunningPlaces
    <2>. QED
        BY <2>1, <2>3, <2>4, MoveKeeps
<1>9. CASE SearchesText
    BY <1>9, NextKeeps DEF SearchesText, Is
<1>10. CASE SearchBegins
    <2>1. request.at = "tools" /\ Still /\ UNCHANGED late
        BY <1>10 DEF SearchBegins, Is
    <2>2. request' = [request EXCEPT !.at = "embedding", !.hits = Active(Entries)]
        BY <1>10 DEF SearchBegins
    <2>3. request \in Preparing /\ request.todo # <<>>
        BY <1>0, <2>1 DEF RecallInv, CallsAreLeft
    <2>4. Active(Entries) \subseteq wereActive /\ request.found \subseteq Founded /\ ~Is("idle")
        BY <2>1 DEF Is, RecallInv, RequestIsFounded
    <2>5. /\ request' \in Preparing /\ request'.found = request.found
          /\ request'.hits = Active(Entries)
          /\ request'.at = "embedding" /\ request'.todo = request.todo
        BY <2>2, <2>3 DEF Preparing, RunningPlaces, Active
    <2>6. late' \in BOOLEAN /\ Active(Entries) \subseteq Founded
        BY <1>0, <2>1, <2>4 DEF RecallTypes, Founded
    <2>. QED
        BY <2>1, <2>3, <2>4, <2>5, <2>6, PhaseKeeps
<1>11. ASSUME NEW hits \in SUBSET Entries, hits \subseteq Founded, request.at = "embedding",
              Merged(hits), Still, UNCHANGED late
       PROVE  RecallInv'
    <2>1. CASE NextTool(hits)
        BY <1>11, <2>1, NextKeeps
    <2>2. CASE request' = [request EXCEPT !.at = "ranking", !.hits = hits]
        <3>1. request \in Preparing /\ request.todo # <<>>
            BY <1>0, <1>11 DEF RecallInv, CallsAreLeft
        <3>2. request.found \subseteq Founded /\ ~Is("idle")
            BY <1>11 DEF Is, RecallInv, RequestIsFounded
        <3>3. /\ request' \in Preparing /\ request'.found = request.found /\ request'.hits = hits
              /\ request'.at = "ranking" /\ request'.todo = request.todo
            BY <2>2, <3>1 DEF Preparing, RunningPlaces
        <3>4. late' \in BOOLEAN
            BY <1>0, <1>11 DEF RecallTypes
        <3>. QED
            BY <1>11, <3>1, <3>2, <3>3, <3>4, PhaseKeeps
    <2>. QED
        BY <1>11, <2>1, <2>2 DEF Merged
<1>12. CASE EmbeddingComes
    <2>1. request.at = "embedding" /\ Still /\ UNCHANGED late
        BY <1>12 DEF EmbeddingComes, Is
    <2>2. request \in Preparing
        BY <1>0, <2>1
    <2>3. request.hits \subseteq Founded /\ Active(Entries) \subseteq wereActive
        BY <2>1 DEF Is, RecallInv, RequestIsFounded
    <2>4. Hydrated \subseteq Founded /\ Hydrated \subseteq Entries
        BY <1>0, <2>3 DEF Hydrated, Active, Founded, RecallTypes
    <2>5. request.hits \in SUBSET Entries
        BY <2>2 DEF Preparing
    <2>6. Merged(request.hits \union Hydrated) \/ Merged(request.hits)
        BY <1>12 DEF EmbeddingComes
    <2>7. request.hits \union Hydrated \in SUBSET Entries /\ request.hits \union Hydrated \subseteq Founded
        BY <2>3, <2>4, <2>5
    <2>. QED
        BY <1>11, <2>1, <2>3, <2>5, <2>6, <2>7
<1>13. CASE RankingComes
    <2>1. request.at = "ranking" /\ Still /\ UNCHANGED late
        BY <1>13 DEF RankingComes, Is
    <2>2. request.hits \subseteq Founded /\ request.hits \subseteq Entries
        BY <1>0, <2>1 DEF Is, RecallInv, RequestIsFounded, Preparing
    <2>3. PICK rows \in SUBSET request.hits : NextTool(rows)
        BY <1>13 DEF RankingComes, Cut
    <2>. QED
        BY <2>1, <2>2, <2>3, NextKeeps
<1>14. CASE Assembles
    <2>1. request.at = "assembling" /\ Still /\ UNCHANGED late
        BY <1>14 DEF Assembles, Is
    <2>2. request \in Preparing
        BY <1>0, <2>1
    <2> DEFINE told == Salvage
               seed == IF request.agent THEN {} ELSE request.seed
               found == IF request.agent THEN {} ELSE request.found
    <2>3. request' = [request EXCEPT !.at = "prompt", !.summary = told, !.seed = seed, !.found = found]
        BY <1>14 DEF Assembles
    <2>4. told \in {"", "told", "salvaged"} /\ (request.searched => told # "")
        BY <2>2 DEF Salvage, Preparing
    <2>5. seed \in SUBSET Shared /\ found \in SUBSET Entries /\ found \subseteq request.found
        BY <2>2 DEF Preparing
    <2>6. request.found \subseteq Founded /\ request.hits \subseteq Founded /\ ~Is("idle")
        BY <2>1 DEF Is, RecallInv, RequestIsFounded
    <2> HIDE DEF told, seed, found
    <2>7. request' = [at |-> "prompt", agent |-> request.agent, searched |-> request.searched,
                      seed |-> seed, found |-> found, hits |-> request.hits,
                      todo |-> request.todo, steps |-> request.steps, why |-> request.why,
                      summary |-> told]
        BY <2>2, <2>3 DEF Preparing
    <2>8. request' \in Preparing
        BY <2>2, <2>4, <2>5, <2>7 DEF Preparing, RunningPlaces
    <2>9. /\ request'.at = "prompt" /\ request'.found = found /\ request'.hits = request.hits
          /\ request'.searched = request.searched /\ request'.summary = told
        BY <2>7
    <2>10. late' \in BOOLEAN
        BY <1>0, <2>1 DEF RecallTypes
    <2>. QED
        BY <2>1, <2>4, <2>5, <2>6, <2>8, <2>9, <2>10, PhaseKeeps
<1>15. CASE AgentFallsBack
    <2>1. ~Is("idle") /\ Still /\ UNCHANGED late
        BY <1>15 DEF AgentFallsBack
    <2>2. request \in Preparing
        BY <1>0, <2>1 DEF Is
    <2> DEFINE raw == Here(Shared)
    <2>3. request' = [request EXCEPT !.at = "prompt", !.summary = "", !.searched = FALSE,
                                     !.seed = raw, !.found = {}]
        BY <1>15 DEF AgentFallsBack
    <2>4. raw \in SUBSET Shared
        BY DEF Here
    <2>5. request.hits \subseteq Founded
        BY <2>1 DEF RecallInv, RequestIsFounded
    <2> HIDE DEF raw
    <2>6. request' = [at |-> "prompt", agent |-> request.agent, searched |-> FALSE,
                      seed |-> raw, found |-> {}, hits |-> request.hits,
                      todo |-> request.todo, steps |-> request.steps, why |-> request.why,
                      summary |-> ""]
        BY <2>2, <2>3 DEF Preparing
    <2>7. request' \in Preparing
        BY <2>2, <2>4, <2>6 DEF Preparing, RunningPlaces
    <2>8. /\ request'.at = "prompt" /\ request'.found = {} /\ request'.hits = request.hits
          /\ request'.searched = FALSE
        BY <2>6
    <2>9. late' \in BOOLEAN
        BY <1>0, <2>1 DEF RecallTypes
    <2>. QED
        BY <2>1, <2>5, <2>7, <2>8, <2>9, PhaseKeeps
<1>16. CASE Answers
    BY <1>0, <1>16 DEF Answers, RecallInv, RecallTypes, RequestIsFounded, CallsAreLeft, SearchedIsTold,
                       Is, NoRequest
<1>17. CASE UNCHANGED recallVars
    BY <1>17 DEF recallVars, RecallInv, RecallTypes, RequestIsFounded, CallsAreLeft, SearchedIsTold,
                 Is, Active, Founded
<1>. QED
    BY <1>1, <1>2, <1>3, <1>4, <1>5, <1>6, <1>7, <1>8, <1>9, <1>10, <1>12, <1>13, <1>14, <1>15,
       <1>16, <1>17 DEF RecallNext

(* Rows and requests keep their types, and the steps of the loop their cap.*)
THEOREM RecallTypeCorrect == RecallSpec => []RecallTypeOK
<1>1. RecallInv => RecallTypeOK
    <2> SUFFICES ASSUME RecallInv PROVE RecallTypeOK
        OBVIOUS
    <2>1. RecallTypes
        BY DEF RecallInv
    <2>2. CASE request = NoRequest
        BY <2>1, <2>2 DEF RecallTypes, RecallTypeOK, RowStatus, NoRequest, Is
    <2>3. CASE request \in Preparing
        <3>1. request.at \in RunningPlaces /\ request.seed \subseteq Shared
              /\ request.found \subseteq Entries /\ request.steps \in 0 .. MaxSteps
            BY <2>3 DEF Preparing
        <3>. QED
            BY <2>1, <3>1 DEF RecallTypes, RecallTypeOK, RowStatus, RunningPlaces
    <2>. QED
        BY <2>1, <2>2, <2>3 DEF RecallTypes
<1>. QED
    BY <1>1, RecallStarts, RecallKept, PTL DEF RecallSpec

(* Whatever others do to the rows meanwhile and however the loop ends, a   *)
(* request that was searched for has a summary, and what it found was in   *)
(* force at some time since it began (pre/exec-summary.ts, rag/pipeline).  *)
THEOREM PromptStaysFounded == RecallSpec => []PromptIsFounded
<1>1. RecallInv => PromptIsFounded
    BY DEF RecallInv, SearchedIsTold, RequestIsFounded, PromptIsFounded, Is, Founded
<1>. QED
    BY <1>1, RecallStarts, RecallKept, PTL DEF RecallSpec

(***************************************************************************)
(* Sequences: what is left when one element is taken out, and the last one *)
(* of what is left or grown.                                               *)
(***************************************************************************)
LEMMA TakenOut ==
  ASSUME NEW S, NEW s \in Seq(S), NEW i \in 1 .. Len(s)
  PROVE  /\ RemoveAt(s, i) \in Seq(S)
         /\ Len(RemoveAt(s, i)) = Len(s) - 1
         /\ \A k \in 1 .. Len(s) - 1 : RemoveAt(s, i)[k] = IF k < i THEN s[k] ELSE s[k + 1]
<1> DEFINE before == SubSeq(s, 1, i - 1)
           behind == SubSeq(s, i + 1, Len(s))
<1>1. Len(s) \in Nat /\ i \in Nat /\ i >= 1 /\ i <= Len(s)
    BY LenProperties
<1>2. \A k \in 1 .. Len(s) : s[k] \in S
    BY ElementOfSeq
<1>3. /\ before \in Seq(S) /\ Len(before) = i - 1
      /\ \A k \in 1 .. i - 1 : before[k] = s[k]
    BY <1>1, <1>2, SubSeqProperties
<1>4. /\ behind \in Seq(S) /\ Len(behind) = Len(s) - i
      /\ \A k \in 1 .. Len(s) - i : behind[k] = s[i + k]
    BY <1>1, <1>2, SubSeqProperties
<1>5. RemoveAt(s, i) = before \o behind
    BY DEF RemoveAt
<1> HIDE DEF before, behind
<1>6. /\ before \o behind \in Seq(S)
      /\ Len(before \o behind) = Len(before) + Len(behind)
      /\ \A k \in 1 .. Len(before) + Len(behind) :
           (before \o behind)[k] = IF k <= Len(before) THEN before[k] ELSE behind[k - Len(before)]
    BY <1>3, <1>4, ConcatProperties
<1>7. Len(before) + Len(behind) = Len(s) - 1
    BY <1>1, <1>3, <1>4
<1>8. ASSUME NEW k \in 1 .. Len(s) - 1
      PROVE  RemoveAt(s, i)[k] = IF k < i THEN s[k] ELSE s[k + 1]
    <2>1. CASE k < i
        <3>1. k <= Len(before) /\ k \in 1 .. i - 1
            BY <1>1, <1>3, <2>1
        <3>. QED
            BY <1>3, <1>5, <1>6, <1>7, <2>1, <3>1
    <2>2. CASE ~(k < i)
        <3>1. /\ ~(k <= Len(before)) /\ k - Len(before) \in 1 .. Len(s) - i
              /\ i + (k - Len(before)) = k + 1
            BY <1>1, <1>3, <2>2
        <3>2. behind[k - Len(before)] = s[k + 1]
            BY <1>4, <3>1
        <3>. QED
            BY <1>5, <1>6, <1>7, <2>2, <3>1, <3>2
    <2>. QED
        BY <2>1, <2>2
<1>. QED
    BY <1>5, <1>6, <1>7, <1>8

(***************************************************************************)
(* The lists of a page.  Of the loads of the list on the screen the newest *)
(* asks for what is chosen, from a server as new as the last change of the *)
(* client, unless they overtook each other; and when none is in flight the *)
(* list is that one.                                                       *)
(***************************************************************************)
Loads == [query : Queries, from : Nat]

ListTypes ==
  /\ query \in Queries
  /\ typed \in BOOLEAN
  /\ lists \in [Views -> [filter : Filters \cup {"none"}, version : Nat]]
  /\ loads \in Seq(Loads)
  /\ version \in Nat
  /\ own \in [Views -> Nat] /\ \A v \in Views : own[v] <= version
  /\ spoilt \in [Views -> [order : BOOLEAN, failed : BOOLEAN]]
Good(i) == (~typed => loads[i].query.filter = query.filter) /\ loads[i].from >= own[query.view]
Newest(i, v) == loads[i].query.view = v /\ \A j \in DOMAIN loads : j > i => loads[j].query.view # v
NewestIsWanted ==
  ~spoilt[query.view].order => \A i \in DOMAIN loads : Newest(i, query.view) => Good(i)

ListInv == ListTypes /\ NewestIsWanted /\ ListIsCurrent

LEMMA ListStarts == ListsInit => ListInv
<1> SUFFICES ASSUME ListsInit PROVE ListInv
    OBVIOUS
<1>1. Load(query) \in Loads
    BY DEF ListsInit, Load, Loads
<1> DEFINE first == Load(query)
<1>2. first.query = query /\ first.from = 1 /\ first \in Loads
    BY <1>1 DEF Load, ListsInit
<1>3. loads = <<first>>
    BY DEF ListsInit
<1> HIDE DEF first
<1>4. loads \in Seq(Loads) /\ DOMAIN loads = {1} /\ loads[1] = first
    BY <1>2, <1>3
<1>5. query.view \in Views
    BY DEF ListsInit, Queries
<1>6. own \in [Views -> Nat] /\ \A v \in Views : own[v] = 0
    BY DEF ListsInit
<1>a. Unspoilt \in [order : BOOLEAN, failed : BOOLEAN] /\ NotLoaded \in [filter : Filters \cup {"none"}, version : Nat]
    BY DEF Unspoilt, NotLoaded
<1>b. /\ lists \in [Views -> [filter : Filters \cup {"none"}, version : Nat]]
      /\ spoilt \in [Views -> [order : BOOLEAN, failed : BOOLEAN]]
    BY <1>a DEF ListsInit
<1>c. \A v \in Views : own[v] <= version
    BY <1>6 DEF ListsInit
<1>d. query \in Queries /\ typed \in BOOLEAN /\ version \in Nat
    BY DEF ListsInit
<1>7. ListTypes
    BY <1>4, <1>6, <1>b, <1>c, <1>d DEF ListTypes
<1>8. NewestIsWanted
    BY <1>2, <1>4, <1>5, <1>6 DEF NewestIsWanted, Good
<1>9. InFlight(query.view)
    BY <1>2, <1>4 DEF InFlight
<1>. QED
    BY <1>7, <1>8, <1>9 DEF ListInv, ListIsCurrent

(* A load sent behind the others: the newest of its list, and what is said *)
(* of the newest of any other list stays as it was.                        *)
LEMMA SentBehind ==
  ASSUME ListTypes, NEW q \in Queries, Sends(q)
  PROVE  /\ loads' \in Seq(Loads) /\ DOMAIN loads' = 1 .. Len(loads) + 1
         /\ DOMAIN loads = 1 .. Len(loads) /\ Len(loads) \in Nat
         /\ loads'[Len(loads) + 1].query = q /\ loads'[Len(loads) + 1].from = version
         /\ \A i \in 1 .. Len(loads) : loads'[i] = loads[i]
         /\ InFlight(q.view)'
<1>1. Load(q) \in Loads /\ Load(q).query = q /\ Load(q).from = version
    BY DEF Load, Loads, ListTypes
<1>2. loads' = Append(loads, Load(q)) /\ loads \in Seq(Loads)
    BY DEF Sends, ListTypes
<1>3. /\ loads' \in Seq(Loads) /\ DOMAIN loads' = 1 .. Len(loads) + 1
      /\ DOMAIN loads = 1 .. Len(loads) /\ Len(loads) \in Nat
      /\ loads'[Len(loads) + 1] = Load(q)
      /\ \A i \in 1 .. Len(loads) : loads'[i] = loads[i]
    BY <1>1, <1>2, AppendProperties, LenProperties
<1>4. Len(loads) + 1 \in DOMAIN loads' /\ loads'[Len(loads) + 1].query.view = q.view
    BY <1>1, <1>3
<1>5. InFlight(q.view)'
    BY <1>4 DEF InFlight
<1>. QED
    BY <1>1, <1>3, <1>5

(* After a load is sent the newest of the list on the screen is that load, *)
(* or the one it was before.                                               *)
LEMMA SentIsWanted ==
  ASSUME ListInv, NEW q \in Queries, Sends(q), query' \in Queries, lists' = lists, version' = version,
         own' \in [Views -> Nat], \A v \in Views : own'[v] <= version,
         q.view = query'.view => q = query',
         q.view # query'.view => UNCHANGED query /\ own'[query.view] = own[query.view]
  PROVE  ListInv'
<1>1. /\ loads' \in Seq(Loads) /\ DOMAIN loads' = 1 .. Len(loads) + 1
      /\ DOMAIN loads = 1 .. Len(loads) /\ Len(loads) \in Nat
      /\ loads'[Len(loads) + 1].query = q /\ loads'[Len(loads) + 1].from = version
      /\ \A i \in 1 .. Len(loads) : loads'[i] = loads[i]
      /\ InFlight(q.view)'
    BY SentBehind DEF ListInv
<1>2. q.view \in Views /\ query'.view \in Views
    BY DEF Queries
<1>3. typed' = (typed /\ q.view # query'.view) /\ typed' \in BOOLEAN
    BY DEF Sends
<1>4. spoilt' \in [Views -> [order : BOOLEAN, failed : BOOLEAN]]
    BY <1>2 DEF Sends, Unspoilt, ListInv, ListTypes
<1>5. ListTypes'
    BY <1>1, <1>3, <1>4 DEF ListInv, ListTypes
<1>6. CASE q.view = query'.view
    <2>1. \A i \in DOMAIN loads' : Newest(i, query.view)' => i = Len(loads) + 1
        BY <1>1, <1>6 DEF Newest
    <2>2. q = query' /\ own'[query'.view] <= version
        BY <1>2, <1>6
    <2>3. NewestIsWanted'
        BY <1>1, <2>1, <2>2 DEF NewestIsWanted, Good, ListInv, ListTypes
    <2>4. ListIsCurrent'
        BY <1>1, <1>6 DEF ListIsCurrent
    <2>. QED
        BY <1>5, <2>3, <2>4 DEF ListInv
<1>7. CASE q.view # query'.view
    <2>1. UNCHANGED query /\ own'[query.view] = own[query.view] /\ (typed' <=> typed)
        BY <1>3, <1>7
    <2>2. spoilt'[query.view] = spoilt[query.view]
        BY <1>2, <1>7, <2>1 DEF Sends, ListInv, ListTypes
    <2>3. \A i \in DOMAIN loads' : Newest(i, query.view)' => i \in DOMAIN loads /\ Newest(i, query.view)
        BY <1>1, <1>7, <2>1 DEF Newest
    <2>4. \A i \in DOMAIN loads : Good(i) => Good(i)'
        BY <1>1, <2>1 DEF Good
    <2>5. NewestIsWanted'
        BY <2>1, <2>2, <2>3, <2>4 DEF NewestIsWanted, ListInv
    <2>6. InFlight(query.view) => InFlight(query.view)'
        BY <1>1, <2>1 DEF InFlight
    <2>7. ListIsCurrent'
        BY <2>1, <2>2, <2>6 DEF ListIsCurrent, ListInv
    <2>. QED
        BY <1>5, <2>5, <2>7 DEF ListInv
<1>. QED
    BY <1>6, <1>7

(* When load i has left, the newest load of a list was its newest before,  *)
(* or i was sent after it, which makes i one that overtook.                *)
LEMMA LeftBehind ==
  ASSUME ListInv, NEW i, NEW failed \in BOOLEAN, Leaves(i, failed),
         lists' \in [Views -> [filter : Filters \cup {"none"}, version : Nat]]
  PROVE  /\ i \in DOMAIN loads /\ loads[i] \in Loads
         /\ ListTypes' /\ NewestIsWanted'
         /\ loads[i].query.view # query.view =>
              /\ InFlight(query.view) => InFlight(query.view)'
              /\ spoilt'[query.view] = spoilt[query.view]
         /\ loads[i].query.view = query.view /\ ~InFlight(query.view)'
            /\ ~spoilt'[query.view].order /\ ~spoilt'[query.view].failed => Good(i) /\ ~failed
<1>1. loads \in Seq(Loads) /\ i \in 1 .. Len(loads) /\ Len(loads) \in Nat /\ DOMAIN loads = 1 .. Len(loads)
    BY LenProperties DEF Leaves, ListInv, ListTypes
<1>2. /\ loads' \in Seq(Loads) /\ Len(loads') = Len(loads) - 1
      /\ \A k \in 1 .. Len(loads) - 1 : loads'[k] = IF k < i THEN loads[k] ELSE loads[k + 1]
    BY <1>1, TakenOut DEF Leaves
<1>3. DOMAIN loads' = 1 .. Len(loads) - 1
    BY <1>2, LenProperties
<1> DEFINE view == loads[i].query.view
           older == \E j \in 1 .. i - 1 : loads[j].query.view = view
           order == spoilt[view].order \/ older
<1>3a. loads[i] \in Loads
    BY <1>1, ElementOfSeq
<1>4. loads[i] \in Loads /\ view \in Views
    BY <1>3a DEF Loads, Queries
<1>5. order \in BOOLEAN /\ (order <=> spoilt[view].order \/ older)
    BY <1>4 DEF ListInv, ListTypes
<1>6. spoilt' = [spoilt EXCEPT ![view] = [order |-> order, failed |-> failed]]
    BY DEF Leaves
<1>7. UNCHANGED <<page, query, typed, mutating, version, own>>
    BY DEF Leaves
<1>8. query.view \in Views
    BY DEF ListInv, ListTypes, Queries
<1> DEFINE flags == [order |-> order, failed |-> failed]
<1>9. flags \in [order : BOOLEAN, failed : BOOLEAN] /\ (flags.order <=> order) /\ (flags.failed <=> failed)
    BY <1>5
<1>10. spoilt' = [spoilt EXCEPT ![view] = flags]
    BY <1>6
<1> HIDE DEF flags, order
<1>11. spoilt' \in [Views -> [order : BOOLEAN, failed : BOOLEAN]] /\ spoilt'[view] = flags
       /\ (view # query.view => spoilt'[query.view] = spoilt[query.view])
    BY <1>4, <1>8, <1>9, <1>10 DEF ListInv, ListTypes
<1>12. ListTypes'
    BY <1>2, <1>7, <1>11 DEF ListInv, ListTypes
<1>13. \A k \in DOMAIN loads' : Good(k)' <=> Good(IF k < i THEN k ELSE k + 1)
    BY <1>2, <1>3, <1>7 DEF Good
<1>14. ASSUME NEW k \in DOMAIN loads', Newest(k, query.view)', ~spoilt'[query.view].order
       PROVE  Newest(IF k < i THEN k ELSE k + 1, query.view)
    <2>1. ASSUME view = query.view PROVE ~older
        BY <1>5, <1>9, <1>11, <1>14, <2>1
    <2>2. ASSUME view = query.view PROVE ~(k < i)
        BY <1>1, <1>2, <1>3, <1>7, <1>14, <2>1, <2>2 DEF Newest
    <2>3. ASSUME NEW j \in DOMAIN loads, j > IF k < i THEN k ELSE k + 1, j # i
          PROVE  loads[j].query.view # query.view
        <3>1. CASE j < i
            BY <1>1, <1>2, <1>3, <1>7, <1>14, <2>3, <3>1 DEF Newest
        <3>2. CASE j > i
            <4>1. j - 1 \in DOMAIN loads' /\ j - 1 > k /\ loads'[j - 1] = loads[j]
                BY <1>1, <1>2, <1>3, <1>14, <2>3, <3>2
            <4>. QED
                BY <1>7, <1>14, <4>1 DEF Newest
        <3>. QED
            BY <1>1, <2>3, <3>1, <3>2
    <2>4. (IF k < i THEN loads[k] ELSE loads[k + 1]).query.view = query.view
        BY <1>2, <1>3, <1>7, <1>14 DEF Newest
    <2>5. i > (IF k < i THEN k ELSE k + 1) => view # query.view
        BY <1>1, <1>3, <1>14, <2>2
    <2>. QED
        BY <2>3, <2>4, <2>5 DEF Newest
<1>15. ~spoilt'[query.view].order => ~spoilt[query.view].order
    BY <1>5, <1>9, <1>11
<1>16. \A k \in DOMAIN loads' : (IF k < i THEN k ELSE k + 1) \in DOMAIN loads
    BY <1>1, <1>3
<1>17. NewestIsWanted'
    BY <1>7, <1>13, <1>14, <1>15, <1>16 DEF NewestIsWanted, ListInv
<1>18. ASSUME view # query.view, InFlight(query.view) PROVE InFlight(query.view)'
    <2>1. PICK j \in DOMAIN loads : loads[j].query.view = query.view
        BY <1>18 DEF InFlight
    <2>2. j # i /\ (IF j < i THEN j ELSE j - 1) \in DOMAIN loads'
        BY <1>1, <1>3, <1>18, <2>1
    <2>3. loads'[IF j < i THEN j ELSE j - 1] = loads[j]
        BY <1>1, <1>2, <2>1, <2>2
    <2>. QED
        BY <1>7, <2>1, <2>2, <2>3 DEF InFlight
<1>19. ASSUME view = query.view, ~InFlight(query.view)', ~spoilt'[query.view].order, ~spoilt'[query.view].failed
       PROVE  Good(i) /\ ~failed
    <2>1. ASSUME NEW j \in DOMAIN loads, j > i PROVE loads[j].query.view # query.view
        <3>1. j - 1 \in DOMAIN loads' /\ loads'[j - 1] = loads[j]
            BY <1>1, <1>2, <1>3, <2>1
        <3>. QED
            BY <1>7, <1>19, <3>1 DEF InFlight
    <2>2. Newest(i, query.view)
        BY <1>19, <2>1 DEF Newest
    <2>. QED
        BY <1>1, <1>9, <1>11, <1>15, <1>19, <2>2 DEF NewestIsWanted, ListInv
<1>. QED
    BY <1>1, <1>4, <1>11, <1>12, <1>17, <1>18, <1>19

LEMMA ListKept == ListInv /\ [ListsNext]_listVars => ListInv'
<1> SUFFICES ASSUME ListInv, [ListsNext]_listVars PROVE ListInv'
    OBVIOUS
<1>1. ASSUME NEW q \in Queries, Chooses(q) PROVE ListInv'
    BY <1>1, SentIsWanted DEF Chooses, ListInv, ListTypes
<1>2. ASSUME NEW f \in Filters, TypesSearch(f) PROVE ListInv'
    <2>1. query' \in Queries /\ query'.view = query.view
        BY <1>2 DEF TypesSearch, Queries, ListInv, ListTypes
    <2>. QED
        BY <1>2, <2>1 DEF TypesSearch, ListInv, ListTypes, NewestIsWanted, ListIsCurrent, Newest, Good
<1>3. ASSUME NEW i, NEW v, LoadAnswered(i, v) PROVE ListInv'
    <2>1. /\ i \in DOMAIN loads /\ v \in loads[i].from .. version /\ Leaves(i, FALSE)
          /\ UNCHANGED <<query, typed, own>>
        BY <1>3 DEF LoadAnswered, Leaves
    <2>2. loads[i] \in Loads
        BY <2>1, ElementOfSeq, LenProperties DEF ListInv, ListTypes
    <2>3. v \in Nat /\ v >= loads[i].from /\ loads[i].from \in Nat
        BY <2>1, <2>2 DEF Loads
    <2> DEFINE shown == [filter |-> loads[i].query.filter, version |-> v]
               view == loads[i].query.view
    <2>4. shown \in [filter : Filters \cup {"none"}, version : Nat] /\ view \in Views
        BY <2>2, <2>3 DEF Loads, Queries
    <2>5. lists' = [lists EXCEPT ![view] = shown]
        BY <1>3 DEF LoadAnswered
    <2>6. lists' \in [Views -> [filter : Filters \cup {"none"}, version : Nat]] /\ lists'[view] = shown
          /\ (view # query.view => lists'[query.view] = lists[query.view])
        BY <2>4, <2>5 DEF ListInv, ListTypes
    <2>7. shown.filter = loads[i].query.filter /\ shown.version = v
        OBVIOUS
    <2> HIDE DEF shown
    <2>8. /\ ListTypes' /\ NewestIsWanted'
          /\ view # query.view =>
               /\ InFlight(query.view) => InFlight(query.view)'
               /\ spoilt'[query.view] = spoilt[query.view]
          /\ view = query.view /\ ~InFlight(query.view)'
             /\ ~spoilt'[query.view].order /\ ~spoilt'[query.view].failed => Good(i)
        BY <2>1, <2>6, LeftBehind
    <2>9. CASE view # query.view
        BY <2>1, <2>6, <2>8, <2>9 DEF ListIsCurrent, ListInv
    <2>10. CASE view = query.view
        <3>1. own[query.view] \in Nat
            BY DEF ListInv, ListTypes, Queries
        <3>2. Good(i) /\ ~typed => lists'[query.view].filter = query.filter
            BY <2>6, <2>7, <2>10 DEF Good
        <3>3. Good(i) => lists'[query.view].version >= own[query.view]
            BY <2>3, <2>6, <2>7, <2>10, <3>1 DEF Good
        <3>. QED
            BY <2>1, <2>8, <2>10, <3>2, <3>3 DEF ListIsCurrent, ListInv
    <2>. QED
        BY <2>9, <2>10
<1>4. ASSUME NEW i, LoadFails(i) PROVE ListInv'
    <2>1. Leaves(i, TRUE) /\ UNCHANGED <<query, typed, own, lists>>
        BY <1>4 DEF LoadFails, Leaves
    <2>2. lists' \in [Views -> [filter : Filters \cup {"none"}, version : Nat]]
        BY <2>1 DEF ListInv, ListTypes
    <2>3. /\ ListTypes' /\ NewestIsWanted'
          /\ loads[i].query.view # query.view =>
               /\ InFlight(query.view) => InFlight(query.view)'
               /\ spoilt'[query.view] = spoilt[query.view]
          /\ ~(loads[i].query.view = query.view /\ ~InFlight(query.view)'
             /\ ~spoilt'[query.view].order /\ ~spoilt'[query.view].failed)
        BY <2>1, <2>2, LeftBehind
    <2>. QED
        BY <2>1, <2>3 DEF ListIsCurrent, ListInv
<1>5. ASSUME NEW v \in Views, Mutates(v) \/ MutationFails(v) PROVE ListInv'
    BY <1>5 DEF Mutates, MutationFails, ListInv, ListTypes, NewestIsWanted, ListIsCurrent, Newest, Good, InFlight
<1>6. CASE ServerChanges
    BY <1>6 DEF ServerChanges, ListInv, ListTypes, NewestIsWanted, ListIsCurrent, Newest, Good, InFlight
<1>7. ASSUME NEW v \in Views, MutationAnswered(v) PROVE ListInv'
    <2> DEFINE q == Reloaded(v)
    <2>1. UNCHANGED <<page, query, lists, version>>
          /\ own' = [w \in Views |-> IF w \in Concerned(v) THEN version ELSE own[w]]
        BY <1>7, Zenon DEF MutationAnswered
    <2>0. Sends(q)
        BY <1>7, Zenon DEF MutationAnswered
    <2>2. query \in Queries /\ query.view \in Views /\ query = [view |-> query.view, filter |-> query.filter]
          /\ query.filter \in Filters
        BY DEF ListInv, ListTypes, Queries
    <2>3. q \in Queries /\ (page = "memory" => q.view = v /\ q.filter = query.filter) /\ (page # "memory" => q = query)
        BY <2>2 DEF Reloaded, Queries
    <2>4. q.view = query.view => q = query
        BY <2>2, <2>3 DEF Queries
    <2>5. own' \in [Views -> Nat] /\ \A w \in Views : own'[w] <= version
        BY <2>1 DEF ListInv, ListTypes
    <2>6. q.view # query.view => own'[query.view] = own[query.view]
        <3> HIDE DEF q
        <3>1. ASSUME q.view # query.view PROVE query.view \notin Concerned(v)
            <4>1. page = "memory" /\ v # query.view
                BY <2>3, <3>1
            <4>. QED
                BY <4>1 DEF Concerned
        <3>. QED
            BY <2>1, <2>2, <3>1
    <2> HIDE DEF q
    <2>. QED
        BY <2>0, <2>1, <2>2, <2>3, <2>4, <2>5, <2>6, SentIsWanted
<1>8. CASE UNCHANGED listVars
    BY <1>8 DEF listVars, ListInv, ListTypes, NewestIsWanted, ListIsCurrent, Newest, Good, InFlight
<1>. QED
    BY <1>1, <1>2, <1>3, <1>4, <1>5, <1>6, <1>7, <1>8 DEF ListsNext

(* However choices, mutations, other clients and loads overlap: the list   *)
(* that is left on the screen is the chosen one and not older than the     *)
(* client's last change of it (useMemoryPage, useTasksPage, useFreelance). *)
THEOREM ListStaysCurrent == ListsSpec => []ListIsCurrent
<1>1. ListInv => ListIsCurrent
    BY DEF ListInv
<1>. QED
    BY <1>1, ListStarts, ListKept, PTL DEF ListsSpec

(***************************************************************************)
(* The screen of the chat.  As long as nothing was overtaken, the chat     *)
(* that is being opened is the current one and nothing streams; and a      *)
(* stream is the current chat's, unless that was deleted and the screen is *)
(* empty.                                                                  *)
(***************************************************************************)
Shown == [role : {"user", "assistant"}, chat : Chats]
Streams == [at : {"asked", "read"}, chat : Chats, aborted : BOOLEAN]

WebTypes ==
  /\ known \subseteq Chats /\ currentChatId \in Chats \cup {NoChat}
  /\ messages \in Seq(Shown)
  /\ opening \subseteq Chats
  /\ stream = NoStream \/ stream \in Streams
  /\ astray \in BOOLEAN
OpensTheCurrent == ~astray /\ opening # {} => opening = {currentChatId} /\ ~streaming
StreamsTheCurrent == ~astray /\ streaming => messages = <<>> \/ stream.chat = currentChatId
ShowsTheCurrent ==
  ~astray /\ opening = {} => \A i \in 1 .. Len(messages) : messages[i].chat = currentChatId

WebInv == WebTypes /\ OpensTheCurrent /\ StreamsTheCurrent /\ ShowsTheCurrent

LEMMA NothingShown == \A s : s = <<>> => s \in Seq(Shown) /\ Len(s) = 0 /\ 1 .. Len(s) = {}
<1>1. 1 .. 0 = {}
    OBVIOUS
<1>. QED
    BY <1>1, EmptySeq

LEMMA WebStarts == WebInit => WebInv
<1> SUFFICES ASSUME WebInit PROVE WebInv
    OBVIOUS
<1>1. messages \in Seq(Shown) /\ 1 .. Len(messages) = {}
    BY NothingShown DEF WebInit
<1>. QED
    BY <1>1 DEF WebInit, WebInv, WebTypes, OpensTheCurrent, StreamsTheCurrent, ShowsTheCurrent,
                streaming

(* Without a chat there is nothing on the screen.                          *)
LEMMA NoChatIsEmpty ==
  ASSUME WebInv, ~astray, opening = {}, currentChatId = NoChat
  PROVE  messages = <<>>
<1>1. messages \in Seq(Shown)
    BY DEF WebInv, WebTypes
<1>2. ASSUME messages # <<>> PROVE FALSE
    <2>1. Len(messages) \in Nat \ {0}
        BY <1>1, <1>2, EmptySeq
    <2>2. messages[1] \in Shown
        BY <1>1, <2>1, ElementOfSeq
    <2>3. messages[1].chat = NoChat
        BY <2>1 DEF WebInv, ShowsTheCurrent
    <2>. QED
        BY <2>2, <2>3, WebAssumption DEF Shown
<1>. QED
    BY <1>2

(* What the text of a stream does to the screen.                           *)
LEMMA TextComes ==
  ASSUME WebInv, streaming, UpdateLastAssistant
  PROVE  /\ messages' \in Seq(Shown)
         /\ messages = <<>> => messages' = <<>>
         /\ Len(messages') = Len(messages)
         /\ \A i \in 1 .. Len(messages) :
              messages'[i].chat \in {messages[i].chat, stream.chat}
<1>1. messages \in Seq(Shown) /\ stream \in Streams
    BY DEF WebInv, WebTypes, streaming
<1>2. CASE messages' = messages
    <2>1. \A i \in 1 .. Len(messages) : messages'[i].chat = messages[i].chat
        BY <1>2
    <2>. QED
        BY <1>1, <1>2, <2>1
<1>3. CASE /\ messages # <<>>
           /\ messages' = [messages EXCEPT ![Len(messages)].chat = stream.chat]
    <2>1. Len(messages) \in Nat \ {0} /\ Len(messages) \in 1 .. Len(messages)
        BY <1>1, <1>3, EmptySeq
    <2>2. messages[Len(messages)] \in Shown
        BY <1>1, <2>1, ElementOfSeq
    <2> DEFINE last == [messages[Len(messages)] EXCEPT !.chat = stream.chat]
    <2>3. last \in Shown /\ last.chat = stream.chat
        BY <1>1, <2>2 DEF Shown, Streams
    <2>4. messages' = [messages EXCEPT ![Len(messages)] = last]
        BY <1>3
    <2> HIDE DEF last
    <2>5. /\ messages' \in Seq(Shown) /\ Len(messages') = Len(messages)
          /\ \A i \in 1 .. Len(messages) :
               messages'[i] = IF i = Len(messages) THEN last ELSE messages[i]
        BY <1>1, <2>1, <2>3, <2>4, ExceptSeq
    <2>6. \A i \in 1 .. Len(messages) : messages'[i].chat \in {messages[i].chat, stream.chat}
        BY <2>3, <2>5
    <2>. QED
        BY <1>3, <2>5, <2>6
<1>. QED
    BY <1>2, <1>3 DEF UpdateLastAssistant

LEMMA WebKept == WebInv /\ [WebNext]_webVars => WebInv'
<1> SUFFICES ASSUME WebInv, [WebNext]_webVars PROVE WebInv'
    OBVIOUS
<1> USE DEF streaming
<1>1. ASSUME NEW c \in Chats, OpenChat(c) PROVE WebInv'
    <2>1. WebTypes'
        BY <1>1 DEF OpenChat, Overtakes, WebInv, WebTypes
    <2>2. OpensTheCurrent'
        BY <1>1 DEF OpenChat, Overtakes, MayOpen, OpensTheCurrent, WebInv, WebTypes
    <2>3. opening' # {} /\ ~streaming'
        BY <1>1 DEF OpenChat, MayOpen
    <2>. QED
        BY <2>1, <2>2, <2>3 DEF WebInv, StreamsTheCurrent, ShowsTheCurrent
<1>2. ASSUME NEW c \in Chats, Opened(c) PROVE WebInv'
    <2> DEFINE question == Message("user", c)
               answer == Message("assistant", c)
    <2>1. question \in Shown /\ answer \in Shown /\ question.chat = c /\ answer.chat = c
        BY DEF Message, Shown
    <2>2. messages' \in {<<>>, <<question>>, <<question, answer>>}
        BY <1>2 DEF Opened
    <2> HIDE DEF question, answer
    <2>3. messages' \in Seq(Shown) /\ \A i \in 1 .. Len(messages') : messages'[i].chat = c
        <3>1. CASE messages' = <<>>
            BY <3>1, NothingShown
        <3>2. CASE messages' = <<question>>
            BY <2>1, <3>2
        <3>3. CASE messages' = <<question, answer>>
            BY <2>1, <3>3
        <3>. QED
            BY <2>2, <3>1, <3>2, <3>3
    <2>4. WebTypes'
        BY <1>2, <2>3 DEF Opened, WebInv, WebTypes
    <2>5. ~astray => currentChatId' = c /\ ~streaming' /\ opening' = {}
        BY <1>2 DEF Opened, WebInv, OpensTheCurrent
    <2>6. astray' = astray
        BY <1>2 DEF Opened
    <2>. QED
        BY <2>3, <2>4, <2>5, <2>6 DEF WebInv, OpensTheCurrent, StreamsTheCurrent, ShowsTheCurrent
<1>3. ASSUME NEW c \in Chats, OpenFails(c) PROVE WebInv'
    BY <1>3 DEF OpenFails, WebInv, WebTypes, OpensTheCurrent, StreamsTheCurrent, ShowsTheCurrent
<1>4. ASSUME NEW c \in Chats, CreateNewChat(c) PROVE WebInv'
    <2>1. messages' \in Seq(Shown) /\ 1 .. Len(messages') = {}
        BY <1>4, NothingShown DEF CreateNewChat
    <2>. QED
        BY <1>4, <2>1 DEF CreateNewChat, Overtakes, WebInv, WebTypes, OpensTheCurrent,
           StreamsTheCurrent, ShowsTheCurrent
<1>5. ASSUME NEW c \in Chats, AsksToDelete(c) \/ DeleteFails(c) PROVE WebInv'
    BY <1>5 DEF AsksToDelete, DeleteFails, WebInv, WebTypes, OpensTheCurrent, StreamsTheCurrent,
       ShowsTheCurrent
<1>6. ASSUME NEW c \in Chats, Deleted(c) PROVE WebInv'
    <2>1. CASE currentChatId = c
        <3>1. messages' = <<>> /\ messages' \in Seq(Shown) /\ 1 .. Len(messages') = {}
            BY <1>6, <2>1, NothingShown DEF Deleted
        <3>. QED
            BY <1>6, <2>1, <3>1 DEF Deleted, Overtakes, WebInv, WebTypes, OpensTheCurrent,
               StreamsTheCurrent, ShowsTheCurrent
    <2>2. CASE currentChatId # c
        BY <1>6, <2>2 DEF Deleted, WebInv, WebTypes, OpensTheCurrent, StreamsTheCurrent,
           ShowsTheCurrent
    <2>. QED
        BY <2>1, <2>2
<1>7. ASSUME NEW c \in Chats, SendMessage(c) PROVE WebInv'
    <2> DEFINE question == Message("user", c)
               answer == Message("assistant", c)
               pair == <<question, answer>>
    <2>1. question \in Shown /\ answer \in Shown /\ question.chat = c /\ answer.chat = c
        BY DEF Message, Shown
    <2>2. messages' = messages \o pair
        BY <1>7 DEF SendMessage
    <2> HIDE DEF question, answer
    <2>3. pair \in Seq(Shown) /\ Len(pair) = 2 /\ \A i \in 1 .. 2 : pair[i].chat = c
        BY <2>1
    <2> HIDE DEF pair
    <2>4. messages \in Seq(Shown) /\ Len(messages) \in Nat
        BY LenProperties DEF WebInv, WebTypes
    <2>5. /\ messages' \in Seq(Shown) /\ Len(messages') = Len(messages) + 2
          /\ \A i \in 1 .. Len(messages) + 2 :
               messages'[i] = IF i <= Len(messages) THEN messages[i] ELSE pair[i - Len(messages)]
        <3>1. /\ messages \o pair \in Seq(Shown)
              /\ Len(messages \o pair) = Len(messages) + Len(pair)
              /\ \A i \in 1 .. Len(messages) + Len(pair) : (messages \o pair)[i] =
                   IF i <= Len(messages) THEN messages[i] ELSE pair[i - Len(messages)]
            BY <2>3, <2>4, ConcatProperties
        <3>. QED
            BY <2>2, <2>3, <3>1
    <2> DEFINE begun == [at |-> "asked", chat |-> c, aborted |-> FALSE]
    <2>6. begun \in Streams /\ begun.chat = c
        BY DEF Streams
    <2>7. stream' = begun /\ currentChatId' = c /\ opening' = opening
        BY <1>7 DEF SendMessage
    <2> HIDE DEF begun
    <2>8. WebTypes'
        BY <1>7, <2>5, <2>6, <2>7 DEF SendMessage, Overtakes, WebInv, WebTypes
    <2>9. ~astray' => ~astray /\ opening = {}
        BY <1>7 DEF SendMessage, Overtakes
    <2>10. ASSUME ~astray, opening = {}, NEW i \in 1 .. Len(messages)
           PROVE  messages[i].chat = c
        <3>1. messages[i].chat = currentChatId
            BY <2>10 DEF WebInv, ShowsTheCurrent
        <3>2. CASE currentChatId = NoChat
            <4>1. Len(messages) = 0
                BY <2>10, <3>2, NoChatIsEmpty, NothingShown
            <4>. QED
                BY <4>1
        <3>3. CASE currentChatId # NoChat
            BY <1>7, <3>1, <3>3 DEF SendMessage
        <3>. QED
            BY <3>2, <3>3
    <2>11. ASSUME ~astray' PROVE \A i \in 1 .. Len(messages') : messages'[i].chat = c
        <3>1. SUFFICES ASSUME NEW i \in 1 .. Len(messages) + 2 PROVE messages'[i].chat = c
            BY <2>5
        <3>2. CASE i <= Len(messages)
            BY <2>4, <2>5, <2>9, <2>10, <2>11, <3>2
        <3>3. CASE ~(i <= Len(messages))
            <4>1. i - Len(messages) \in 1 .. 2
                BY <2>4, <3>3
            <4>. QED
                BY <2>3, <2>5, <3>3, <4>1
        <3>. QED
            BY <3>2, <3>3
    <2>12. OpensTheCurrent' /\ StreamsTheCurrent' /\ ShowsTheCurrent'
        BY <2>6, <2>7, <2>9, <2>11 DEF OpensTheCurrent, StreamsTheCurrent, ShowsTheCurrent
    <2>. QED
        BY <2>8, <2>12 DEF WebInv
<1>8. CASE StreamStarts \/ CancelStream
    <2>1. stream \in Streams
        BY <1>8 DEF StreamStarts, CancelStream, NoStream, WebInv, WebTypes
    <2>2. stream' \in Streams /\ stream'.chat = stream.chat
        BY <1>8, <2>1 DEF StreamStarts, CancelStream, Streams
    <2>3. streaming /\ UNCHANGED <<known, currentChatId, messages, opening, astray>>
        BY <1>8, <2>1 DEF StreamStarts, CancelStream, NoStream
    <2>. QED
        BY <2>2, <2>3 DEF WebInv, WebTypes, OpensTheCurrent, StreamsTheCurrent, ShowsTheCurrent
<1>9. ASSUME streaming, stream' \in {stream, NoStream}, UpdateLastAssistant \/ UNCHANGED messages,
             UNCHANGED <<known, currentChatId, opening, astray>>
      PROVE  WebInv'
    <2>1. /\ messages' \in Seq(Shown) /\ Len(messages') = Len(messages)
          /\ messages = <<>> => messages' = <<>>
          /\ \A i \in 1 .. Len(messages) :
               messages'[i].chat \in {messages[i].chat, stream.chat}
        <3>1. messages \in Seq(Shown)
            BY DEF WebInv, WebTypes
        <3>2. CASE UNCHANGED messages
            <4>1. \A i \in 1 .. Len(messages) : messages'[i].chat = messages[i].chat
                BY <3>2
            <4>. QED
                BY <3>1, <3>2, <4>1
        <3>. QED
            BY <1>9, <3>2, TextComes
    <2>2. WebTypes'
        BY <1>9, <2>1 DEF WebInv, WebTypes
    <2>3. OpensTheCurrent' /\ StreamsTheCurrent'
        BY <1>9, <2>1 DEF WebInv, OpensTheCurrent, StreamsTheCurrent
    <2>4. ShowsTheCurrent'
        BY <1>9, <2>1 DEF WebInv, StreamsTheCurrent, ShowsTheCurrent
    <2>. QED
        BY <2>2, <2>3, <2>4 DEF WebInv
<1>10. CASE ReadsChunk
    <2>1. streaming
        BY <1>10 DEF ReadsChunk, NoStream
    <2>. QED
        BY <1>9, <1>10, <2>1 DEF ReadsChunk
<1>11. CASE AnswerEnds
    BY <1>9, <1>11 DEF AnswerEnds
<1>12. CASE UNCHANGED webVars
    BY <1>12 DEF webVars, WebInv, WebTypes, OpensTheCurrent, StreamsTheCurrent, ShowsTheCurrent
<1>. QED
    BY <1>1, <1>2, <1>3, <1>4, <1>5, <1>6, <1>7, <1>8, <1>10, <1>11, <1>12 DEF WebNext

(* For any chats and any order of opening, sending, streaming, cancelling  *)
(* and deleting, until a load fails or is overtaken the screen holds the   *)
(* messages of one chat (web/composables/useChat).                         *)
THEOREM ScreenStaysOneChat == WebSpec => []ScreenIsOneChat
<1>1. WebInv => ScreenIsOneChat
    <2> SUFFICES ASSUME WebInv, ~astray, opening = {}, NEW m \in ToSet(messages)
                 PROVE  m.chat = currentChatId
        BY DEF ScreenIsOneChat
    <2>1. PICK i \in 1 .. Len(messages) : m = messages[i]
        BY LenProperties DEF ToSet, WebInv, WebTypes
    <2>. QED
        BY <2>1 DEF WebInv, ShowsTheCurrent
<1>. QED
    BY <1>1, WebStarts, WebKept, PTL DEF WebSpec

(***************************************************************************)
(* The memory editor.  Wherever a text is - on the server, in a list, in   *)
(* the answer to a load, in the fields or in a save on its way - it is one *)
(* of the row it is kept for; and only rows of the focus are written when  *)
(* they are not there.                                                     *)
(***************************************************************************)
Ats == {"sent", "made", "refused"}
OwnText(r, n) == [of : {r}, v : 0 .. n]
Listings(n) == {l \in [Rows -> {NoText} \cup [of : Rows, v : 0 .. n]] :
                  \A r \in Rows : l[r] \in {NoText} \cup OwnText(r, n)}
SaveRequests(n) == {q \in [kind : {"save"}, row : Rows, text : [of : Rows, v : 0 .. n], at : Ats] :
                      q.text.of = q.row}
DeleteRequests == [kind : {"delete"}, row : Rows, at : Ats]
LoadRequests(n) == [kind : {"load"}, closes : BOOLEAN, got : Listings(n), at : Ats]
EditorRequests(n) == SaveRequests(n) \cup DeleteRequests \cup LoadRequests(n)

EditorTypes ==
  /\ texts \in Nat /\ modal \in Rows \cup {NoRow}
  /\ stored \in Listings(texts) /\ listed \in Listings(texts)
  /\ requests \in Seq(EditorRequests(texts))
FieldsAreOfTheRow ==
  /\ selected # Nothing => selected.row \in Rows
  /\ fields \in OwnText(selected.row, texts)
DeletedStays == deleted \subseteq Rows \ FocusKeys /\ \A r \in deleted : stored[r] = NoText

EditorInv == EditorTypes /\ FieldsAreOfTheRow /\ DeletedStays

LEMMA NoTextIsNobodys == NoText.of = NoRow /\ NoRow \notin Rows /\ FocusKeys \subseteq Rows
BY EditorRowsAssumption DEF NoText

(* What may be written now may be written when there are more texts.       *)
LEMMA MoreTexts ==
  ASSUME NEW n \in Nat, NEW m \in Nat, n <= m
  PROVE  /\ \A r : OwnText(r, n) \subseteq OwnText(r, m)
         /\ Listings(n) \subseteq Listings(m)
         /\ EditorRequests(n) \subseteq EditorRequests(m)
         /\ Seq(EditorRequests(n)) \subseteq Seq(EditorRequests(m))
<1>1. 0 .. n \subseteq 0 .. m
    OBVIOUS
<1>2. \A r : OwnText(r, n) \subseteq OwnText(r, m)
    BY <1>1 DEF OwnText
<1>3. [of : Rows, v : 0 .. n] \subseteq [of : Rows, v : 0 .. m]
    BY <1>1
<1>4. Listings(n) \subseteq Listings(m)
    BY <1>2, <1>3 DEF Listings
<1>5. SaveRequests(n) \subseteq SaveRequests(m)
    BY <1>3 DEF SaveRequests
<1>6. LoadRequests(n) \subseteq LoadRequests(m)
    BY <1>4 DEF LoadRequests
<1>7. EditorRequests(n) \subseteq EditorRequests(m)
    BY <1>5, <1>6 DEF EditorRequests
<1>8. \A s \in Seq(EditorRequests(n)) : s \in Seq(EditorRequests(m))
    BY <1>7, SeqMonotonic
<1>. QED
    BY <1>2, <1>4, <1>7, <1>8

LEMMA EditorStarts == EditorPageInit => EditorInv
<1> SUFFICES ASSUME EditorPageInit PROVE EditorInv
    OBVIOUS
<1>1. stored \in Listings(0)
    <2>1. \A r \in Rows : [of |-> r, v |-> 0] \in OwnText(r, 0) /\ [of |-> r, v |-> 0] \in [of : Rows, v : 0 .. 0]
        BY DEF OwnText
    <2>2. stored = [r \in Rows |-> [of |-> r, v |-> 0]]
        BY DEF EditorPageInit
    <2>. QED
        BY <2>1, <2>2 DEF Listings
<1>2. fields \in OwnText(selected.row, 0)
    BY DEF EditorPageInit, OwnText, Nothing, NoText
<1>3. <<>> \in Seq(EditorRequests(0))
    BY EmptySeq
<1>. QED
    BY <1>1, <1>2, <1>3 DEF EditorPageInit, EditorInv, EditorTypes, FieldsAreOfTheRow, DeletedStays

(* A request is one of three kinds, and known by its kind.                 *)
LEMMA KindOf ==
  ASSUME EditorInv, NEW i \in DOMAIN requests
  PROVE  /\ i \in 1 .. Len(requests) /\ requests[i] \in EditorRequests(texts)
         /\ requests[i].kind = "save" => requests[i] \in SaveRequests(texts)
         /\ requests[i].kind = "delete" => requests[i] \in DeleteRequests
         /\ requests[i].kind = "load" => requests[i] \in LoadRequests(texts)
<1>1. i \in 1 .. Len(requests)
    BY LenProperties DEF EditorInv, EditorTypes
<1>2. requests[i] \in EditorRequests(texts)
    BY <1>1, ElementOfSeq DEF EditorInv, EditorTypes
<1>. QED
    BY <1>1, <1>2 DEF EditorRequests, SaveRequests, DeleteRequests, LoadRequests

(* A request takes the place of another.                                   *)
LEMMA RequestReplaced ==
  ASSUME EditorInv, NEW i \in DOMAIN requests, NEW q \in EditorRequests(texts),
         requests' = [requests EXCEPT ![i] = q]
  PROVE  requests' \in Seq(EditorRequests(texts))
BY KindOf, ExceptSeq DEF EditorInv, EditorTypes

LEMMA RequestBecomes ==
  ASSUME EditorInv, NEW i \in DOMAIN requests, NEW at \in Ats, Becomes(i, at)
  PROVE  requests' \in Seq(EditorRequests(texts))
<1> DEFINE q == [requests[i] EXCEPT !.at = at]
<1>1. requests[i] \in EditorRequests(texts)
    BY KindOf
<1>2. q \in EditorRequests(texts)
    <2>1. CASE requests[i] \in SaveRequests(texts)
        BY <2>1 DEF EditorRequests, SaveRequests
    <2>2. CASE requests[i] \in DeleteRequests
        BY <2>2 DEF EditorRequests, DeleteRequests
    <2>3. CASE requests[i] \in LoadRequests(texts)
        BY <2>3 DEF EditorRequests, LoadRequests
    <2>. QED
        BY <1>1, <2>1, <2>2, <2>3 DEF EditorRequests
<1>3. requests' = [requests EXCEPT ![i] = q]
    BY DEF Becomes
<1> HIDE DEF q
<1>. QED
    BY <1>2, <1>3, RequestReplaced

(* One text of the table is written or taken away.                         *)
LEMMA TextStored ==
  ASSUME NEW n \in Nat, NEW l \in Listings(n), NEW r \in Rows, NEW t \in {NoText} \cup OwnText(r, n)
  PROVE  /\ [l EXCEPT ![r] = t] \in Listings(n)
         /\ \A s \in Rows : [l EXCEPT ![r] = t][s] = IF s = r THEN t ELSE l[s]
<1>1. t \in {NoText} \cup [of : Rows, v : 0 .. n]
    BY DEF OwnText
<1>. QED
    BY <1>1 DEF Listings

(* A row that was deleted comes back only where it may be put.             *)
LEMMA WriteKeepsDeleted ==
  ASSUME EditorInv, NEW r \in Rows, Patchable(r), NEW n \in Nat, NEW t \in OwnText(r, n),
         texts <= n, stored' = [stored EXCEPT ![r] = t], UNCHANGED deleted
  PROVE  stored' \in Listings(n) /\ DeletedStays'
<1>1. stored \in Listings(n)
    BY MoreTexts DEF EditorInv, EditorTypes
<1>2. stored' \in Listings(n) /\ \A s \in Rows : stored'[s] = IF s = r THEN t ELSE stored[s]
    <2>1. t \in {NoText} \cup OwnText(r, n)
        OBVIOUS
    <2>2. /\ [stored EXCEPT ![r] = t] \in Listings(n)
          /\ \A s \in Rows : [stored EXCEPT ![r] = t][s] = IF s = r THEN t ELSE stored[s]
        <3>1. stored \in Listings(n) /\ t \in {NoText} \cup OwnText(r, n)
            BY <1>1, <2>1
        <3>. QED
            BY ONLY <3>1, TextStored, n \in Nat, r \in Rows
    <2>. QED
        BY <2>2
<1>3. r \notin deleted
    BY DEF Patchable, EditorInv, DeletedStays
<1>. QED
    BY <1>2, <1>3 DEF EditorInv, DeletedStays

LEMMA RemovalKeepsDeleted ==
  ASSUME EditorInv, NEW r \in Rows, Removes(r), UNCHANGED texts
  PROVE  stored' \in Listings(texts') /\ DeletedStays'
<1>1. stored' \in Listings(texts') /\ \A s \in Rows : stored'[s] = IF s = r THEN NoText ELSE stored[s]
    <2>1. texts \in Nat /\ stored \in Listings(texts) /\ NoText \in {NoText} \cup OwnText(r, texts)
        BY DEF EditorInv, EditorTypes
    <2>2. /\ [stored EXCEPT ![r] = NoText] \in Listings(texts)
          /\ \A s \in Rows : [stored EXCEPT ![r] = NoText][s] = IF s = r THEN NoText ELSE stored[s]
        BY <2>1, TextStored
    <2>. QED
        BY <2>2 DEF Removes
<1>. QED
    BY <1>1, EditorRowsAssumption DEF Removes, EditorInv, DeletedStays

(* A copy is put into the editor.                                          *)
LEMMA CopySelected ==
  ASSUME EditorInv, NEW r \in Rows, NEW t \in OwnText(r, texts), Select([row |-> r, text |-> t]),
         UNCHANGED texts
  PROVE  FieldsAreOfTheRow'
BY DEF Select, ResetFrom, FieldsAreOfTheRow

LEMMA NothingSelected ==
  ASSUME EditorInv, Select(Nothing), UNCHANGED texts
  PROVE  FieldsAreOfTheRow'
<1>1. selected' = Nothing /\ fields' = NoText
    BY DEF Select, ResetFrom, Nothing
<1>2. NoText \in OwnText(NoRow, texts) /\ Nothing.row = NoRow
    BY DEF NoText, OwnText, Nothing, EditorInv, EditorTypes
<1>. QED
    BY <1>1, <1>2 DEF FieldsAreOfTheRow

LEMMA EditorKept == EditorInv /\ [EditorPageNext]_editorPageVars => EditorInv'
<1> SUFFICES ASSUME EditorInv, [EditorPageNext]_editorPageVars PROVE EditorInv'
    OBVIOUS
<1>0. EditorTypes /\ FieldsAreOfTheRow /\ DeletedStays
    BY DEF EditorInv
<1>1. ASSUME NEW r \in Rows, Selects(r) PROVE EditorInv'
    <2>1. listed[r] \in OwnText(r, texts)
        BY <1>0, <1>1 DEF Selects, EditorTypes, Listings
    <2>2. FieldsAreOfTheRow'
        BY <1>1, <2>1, CopySelected DEF Selects, Copy
    <2>. QED
        BY <1>0, <1>1, <2>2 DEF Selects, EditorInv, EditorTypes, DeletedStays
<1>2. CASE Closes
    <2>1. FieldsAreOfTheRow'
        BY <1>2, NothingSelected DEF Closes
    <2>. QED
        BY <1>0, <1>2, <2>1 DEF Closes, EditorInv, EditorTypes, DeletedStays
<1>3. CASE Types
    <2>1. texts' = texts + 1 /\ texts \in Nat /\ texts' \in Nat /\ texts <= texts'
        BY <1>0, <1>3 DEF Types, EditorTypes
    <2>2. fields' \in OwnText(selected.row, texts')
        BY <1>3, <2>1 DEF Types, NewText, OwnText
    <2>3. UNCHANGED <<stored, listed, selected, modal, requests, deleted>>
        BY <1>3 DEF Types
    <2>4. EditorTypes'
        BY <1>0, <2>1, <2>3, MoreTexts DEF EditorTypes
    <2>. QED
        BY <1>0, <2>2, <2>3, <2>4 DEF EditorInv, FieldsAreOfTheRow, DeletedStays
<1>4. ASSUME NEW q \in EditorRequests(texts), Sent(q),
             UNCHANGED <<stored, listed, selected, fields, modal, texts, deleted>>
      PROVE  EditorInv'
    <2>1. requests' \in Seq(EditorRequests(texts))
        BY <1>0, <1>4, AppendProperties DEF Sent, EditorTypes
    <2>. QED
        BY <1>0, <1>4, <2>1 DEF EditorInv, EditorTypes, FieldsAreOfTheRow, DeletedStays
<1>5. CASE Saves
    <2>1. selected.row \in Rows /\ fields \in OwnText(selected.row, texts)
        BY <1>0, <1>5 DEF Saves, FieldsAreOfTheRow
    <2>2. BuildPatch \in SaveRequests(texts)
        BY <2>1 DEF BuildPatch, SaveRequests, OwnText, Ats
    <2>. QED
        BY <1>4, <1>5, <2>2 DEF Saves, EditorRequests
<1>6. ASSUME NEW r \in Rows, AsksToRemove(r) PROVE EditorInv'
    BY <1>0, <1>6 DEF AsksToRemove, EditorInv, EditorTypes, FieldsAreOfTheRow, DeletedStays
<1>7. CASE CancelsDelete
    BY <1>0, <1>7 DEF CancelsDelete, EditorInv, EditorTypes, FieldsAreOfTheRow, DeletedStays
<1>8. CASE ConfirmsDelete
    <2>1. [kind |-> "delete", row |-> modal, at |-> "sent"] \in DeleteRequests
        BY <1>0, <1>8 DEF ConfirmsDelete, EditorTypes, DeleteRequests, Ats
    <2>. QED
        BY <1>4, <1>8, <2>1 DEF ConfirmsDelete, EditorRequests
<1>9. ASSUME NEW r \in Rows, SomebodyWrites(r) PROVE EditorInv'
    <2>1. texts' = texts + 1 /\ texts \in Nat /\ texts' \in Nat /\ texts <= texts'
        BY <1>0, <1>9 DEF SomebodyWrites, EditorTypes
    <2>2. NewText(r) \in OwnText(r, texts') /\ Patchable(r)
        BY <1>9, <2>1 DEF SomebodyWrites, NewText, OwnText, Patchable
    <2>3. UNCHANGED <<listed, selected, fields, modal, requests, deleted>>
        BY <1>9 DEF SomebodyWrites
    <2>4. stored' \in Listings(texts') /\ DeletedStays'
        BY <1>9, <2>1, <2>2, <2>3, WriteKeepsDeleted DEF SomebodyWrites
    <2>5. EditorTypes'
        BY <1>0, <2>1, <2>3, <2>4, MoreTexts DEF EditorTypes
    <2>6. FieldsAreOfTheRow'
        BY <1>0, <2>1, <2>3, MoreTexts DEF FieldsAreOfTheRow
    <2>. QED
        BY <2>4, <2>5, <2>6 DEF EditorInv
<1>10. ASSUME NEW r \in Rows, SomebodyDeletes(r) PROVE EditorInv'
    <2>1. stored' \in Listings(texts') /\ DeletedStays'
        BY <1>10, RemovalKeepsDeleted DEF SomebodyDeletes
    <2>. QED
        BY <1>0, <1>10, <2>1 DEF SomebodyDeletes, EditorInv, EditorTypes, FieldsAreOfTheRow
<1>11. ASSUME NEW i, ServerHandles(i) PROVE EditorInv'
    <2>1. i \in DOMAIN requests /\ UNCHANGED <<listed, selected, fields, modal, texts>>
        BY <1>11 DEF ServerHandles
    <2>2. /\ requests[i].kind = "save" => requests[i] \in SaveRequests(texts)
          /\ requests[i].kind = "delete" => requests[i] \in DeleteRequests
          /\ requests[i].kind = "load" => requests[i] \in LoadRequests(texts)
        BY <2>1, KindOf
    <2>3. ASSUME requests' \in Seq(EditorRequests(texts)), stored' \in Listings(texts'), DeletedStays'
          PROVE  EditorInv'
        BY <1>0, <2>1, <2>3 DEF EditorInv, EditorTypes, FieldsAreOfTheRow
    <2>4. ASSUME NEW at \in Ats, Becomes(i, at) PROVE requests' \in Seq(EditorRequests(texts))
        BY <2>1, <2>4, RequestBecomes
    <2>5. CASE ServerSaves(i)
        <3> DEFINE row == requests[i].row
                   text == requests[i].text
        <3>1. row \in Rows /\ text \in OwnText(row, texts) /\ Patchable(row)
            BY <2>2, <2>5 DEF ServerSaves, SaveRequests, OwnText
        <3>2. stored' = [stored EXCEPT ![row] = text] /\ UNCHANGED deleted /\ Becomes(i, "made")
            BY <2>5 DEF ServerSaves
        <3>3. texts \in Nat /\ texts' = texts /\ texts <= texts
            BY <1>0, <2>1 DEF EditorTypes
        <3> HIDE DEF row, text
        <3>4. stored' \in Listings(texts') /\ DeletedStays'
            BY <3>1, <3>2, <3>3, WriteKeepsDeleted
        <3>. QED
            BY <2>3, <2>4, <3>2, <3>4 DEF Ats
    <2>6. CASE ServerDeletes(i)
        <3>1. requests[i].row \in Rows
            BY <2>2, <2>6 DEF ServerDeletes, DeleteRequests
        <3>2. stored' \in Listings(texts') /\ DeletedStays'
            BY <2>1, <2>6, <3>1, RemovalKeepsDeleted DEF ServerDeletes
        <3>. QED
            BY <2>3, <2>4, <2>6, <3>2 DEF ServerDeletes, Ats
    <2>7. CASE ServerLists(i)
        <3> DEFINE load == requests[i]
                   q == [load EXCEPT !.at = "made", !.got = stored]
        <3>1. load \in LoadRequests(texts)
            BY <2>2, <2>7 DEF ServerLists
        <3>2. requests' = [requests EXCEPT ![i] = q]
            BY <2>7 DEF ServerLists
        <3> HIDE DEF load
        <3>3. [load EXCEPT !.at = "made"] \in LoadRequests(texts)
            BY <3>1 DEF LoadRequests, Ats
        <3>4. q \in EditorRequests(texts)
            <4> DEFINE made == [load EXCEPT !.at = "made"]
            <4>1. q = [made EXCEPT !.got = stored]
                OBVIOUS
            <4>2. made \in LoadRequests(texts) /\ stored \in Listings(texts)
                BY <1>0, <3>3 DEF EditorTypes
            <4> HIDE DEF made, q
            <4>3. q \in LoadRequests(texts)
                BY <4>1, <4>2 DEF LoadRequests
            <4>. QED
                BY <4>3 DEF EditorRequests
        <3> HIDE DEF q
        <3>5. requests' \in Seq(EditorRequests(texts))
            BY <2>1, <3>2, <3>4, RequestReplaced
        <3>. QED
            BY <1>0, <2>1, <2>3, <2>7, <3>5 DEF ServerLists, EditorTypes, DeletedStays
    <2>8. CASE Refused(i)
        BY <1>0, <2>1, <2>3, <2>4, <2>8 DEF Refused, Ats, EditorTypes, DeletedStays
    <2>. QED
        BY <1>11, <2>5, <2>6, <2>7, <2>8 DEF ServerHandles
<1>12. ASSUME NEW i, Answered(i) PROVE EditorInv'
    <2>1. i \in DOMAIN requests /\ UNCHANGED <<stored, texts, deleted>>
        BY <1>12 DEF Answered
    <2>2. /\ i \in 1 .. Len(requests)
          /\ requests[i].kind = "save" => requests[i] \in SaveRequests(texts)
          /\ requests[i].kind = "load" => requests[i] \in LoadRequests(texts)
        BY <2>1, KindOf
    <2>3. RemoveAt(requests, i) \in Seq(EditorRequests(texts))
        BY <1>0, <2>2, TakenOut DEF EditorTypes
    <2>4. ASSUME NEW closes \in BOOLEAN, ThenLoads(i, closes)
          PROVE  requests' \in Seq(EditorRequests(texts))
        <3> DEFINE q == [kind |-> "load", closes |-> closes, got |-> listed, at |-> "sent"]
        <3>1. q \in EditorRequests(texts)
            BY <1>0 DEF EditorRequests, LoadRequests, EditorTypes, Ats
        <3>2. requests' = Append(RemoveAt(requests, i), q)
            BY <2>4 DEF ThenLoads
        <3> HIDE DEF q
        <3>. QED
            BY <2>3, <3>1, <3>2, AppendProperties
    <2>5. ASSUME requests' \in Seq(EditorRequests(texts)), listed' \in Listings(texts),
                 modal' \in Rows \cup {NoRow}, FieldsAreOfTheRow'
          PROVE  EditorInv'
        BY <1>0, <2>1, <2>5 DEF EditorInv, EditorTypes, DeletedStays
    <2>6. ASSUME UNCHANGED <<selected, fields, dirty>> PROVE FieldsAreOfTheRow'
        BY <1>0, <2>1, <2>6 DEF FieldsAreOfTheRow
    <2>7. CASE SaveAnswered(i)
        <3>1. requests[i] \in SaveRequests(texts)
            BY <2>2, <2>7 DEF SaveAnswered
        <3>2. requests[i].row \in Rows /\ requests[i].text \in OwnText(requests[i].row, texts)
            BY <3>1 DEF SaveRequests, OwnText
        <3>3. FieldsAreOfTheRow'
            BY <2>1, <2>6, <2>7, <3>2, CopySelected DEF SaveAnswered
        <3>. QED
            BY <1>0, <2>4, <2>5, <2>7, <3>3 DEF SaveAnswered, EditorTypes
    <2>8. CASE DeleteAnswered(i)
        <3>1. FieldsAreOfTheRow'
            BY <2>1, <2>6, <2>8, NothingSelected DEF DeleteAnswered
        <3>. QED
            BY <1>0, <2>4, <2>5, <2>8, <3>1 DEF DeleteAnswered, EditorTypes
    <2>9. CASE LoadOver(i)
        <3>1. listed' \in Listings(texts) /\ modal' \in Rows \cup {NoRow}
            BY <1>0, <2>2, <2>9 DEF LoadOver, LoadRequests, EditorTypes
        <3>. QED
            BY <2>3, <2>5, <2>6, <2>9, <3>1 DEF LoadOver
    <2>10. CASE RefusalAnswered(i)
        BY <1>0, <2>3, <2>5, <2>6, <2>10 DEF RefusalAnswered, EditorTypes
    <2>. QED
        BY <1>12, <2>7, <2>8, <2>9, <2>10 DEF Answered
<1>13. CASE UNCHANGED editorPageVars
    BY <1>0, <1>13 DEF editorPageVars, EditorInv, EditorTypes, FieldsAreOfTheRow, DeletedStays
<1>. QED
    BY <1>1, <1>2, <1>3, <1>5, <1>6, <1>7, <1>8, <1>9, <1>10, <1>11, <1>12, <1>13
    DEF EditorPageNext

(* For any rows and any number of requests, however they overlap and       *)
(* whoever else writes: no row is given the text of another, and a deleted *)
(* row of a table stays deleted (web/pages/memory, useMemory).             *)
THEOREM EditsStay == EditorPageSpec => []EditsStayWithTheirRow
<1>1. EditorInv => EditsStayWithTheirRow
    <2> SUFFICES ASSUME EditorInv PROVE EditsStayWithTheirRow
        OBVIOUS
    <2>1. \A r \in Rows : stored[r] \in {NoText} \cup [of : {r}, v : 0 .. texts]
        BY DEF EditorInv, EditorTypes, Listings, OwnText
    <2>2. fields.of = selected.row
        BY DEF EditorInv, FieldsAreOfTheRow, OwnText
    <2>. QED
        BY <2>1, <2>2 DEF EditorInv, DeletedStays, EditsStayWithTheirRow
<1>. QED
    BY <1>1, EditorStarts, EditorKept, PTL DEF EditorPageSpec

=============================================================================
