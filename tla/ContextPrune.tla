---------------------------- MODULE ContextPrune ----------------------------
(***************************************************************************)
(* The table layer2_context and its embeddings: the tools, the routes and   *)
(* the post-processing write it, and a step of the night asks a model about *)
(* each row and a few others, and deletes or merges by its answer.  A text  *)
(* is the set of facts it tells; status, owner and expiry of a row are left *)
(* out, they have no part in the night's step.                              *)
(***************************************************************************)
EXTENDS Integers, FiniteSets

CONSTANTS
  Facts,
  MaxRows,          \* bound: rows ever inserted
  MaxContextWrites, \* bound: writes that do not insert a row with its embedding
  MaxActions        \* MAX_ACTIONS of one prune

ASSUME ContextAssumption ==
  MaxRows \in Nat /\ MaxContextWrites \in Nat /\ MaxActions \in Nat

VARIABLES
  context,     \* id -> text of the row, or Nothing
  vec,         \* id -> text that was embedded, or Nothing
  inserted,    \* ids drawn so far
  jobs,        \* embeddings under way that nobody waits for
  prune,       \* the night's step: where it is and what it has read
  contextWrites,
  quiet,       \* history: nobody wrote and nothing failed since the step began
  facts,       \* history: the facts of the table when it began
  indexed      \* history: the rows whose embedding was right then

tableVars == <<context, vec, inserted>>
historyVars == <<quiet, facts, indexed>>
contextVars == <<tableVars, jobs, prune, contextWrites, historyVars>>

---------------------------------------------------------------------------
RowIds == 1..MaxRows
Nothing == {}
Texts == SUBSET Facts \ {Nothing}
Held == {i \in RowIds : context[i] # Nothing}
Off == [at |-> "off"]
Told == UNION {context[i] : i \in Held}
Embedded == {i \in Held : vec[i] = context[i]}

ContextInit ==
  /\ context = [i \in RowIds |-> Nothing] /\ vec = [i \in RowIds |-> Nothing] /\ inserted = 0
  /\ jobs = {} /\ prune = Off /\ contextWrites = 0
  /\ quiet = TRUE /\ facts = Nothing /\ indexed = {}

\* Somebody writes beside the prune.
Disturbs == quiet' = FALSE /\ UNCHANGED <<facts, indexed, prune>>

\* The post-processing and the service store the embedding with the row.
InsertsEmbedded(t) ==
  /\ inserted < MaxRows
  /\ inserted' = inserted + 1
  /\ context' = [context EXCEPT ![inserted'] = t]
  /\ vec' = [vec EXCEPT ![inserted'] = t]
  /\ Disturbs /\ UNCHANGED <<jobs, contextWrites>>

\* The tool inserts the row and does not wait for its embedding; a row that
\* supersedes another is inserted and not embedded at all.
InsertsBare(t) ==
  /\ inserted < MaxRows /\ contextWrites < MaxContextWrites
  /\ contextWrites' = contextWrites + 1
  /\ inserted' = inserted + 1
  /\ context' = [context EXCEPT ![inserted'] = t]
  /\ jobs' \in {jobs, jobs \union {[id |-> inserted', text |-> t]}}
  /\ Disturbs /\ UNCHANGED vec

\* The tool updates a row and has it embedded; a PATCH only updates it.
Updates(i, t) ==
  /\ i \in Held /\ contextWrites < MaxContextWrites
  /\ contextWrites' = contextWrites + 1
  /\ context' = [context EXCEPT ![i] = t]
  /\ jobs' \in {jobs, jobs \union {[id |-> i, text |-> t]}}
  /\ Disturbs /\ UNCHANGED <<vec, inserted>>

\* The post-processing finds a row that is nearly the same and keeps the longer
\* of the two texts; with it comes the embedding of the new one, if the search
\* needed it.
MergesNew(i, t) ==
  /\ i \in Held /\ contextWrites < MaxContextWrites
  /\ contextWrites' = contextWrites + 1
  /\ \E longer \in {context[i], t} : context' = [context EXCEPT ![i] = longer]
  /\ vec' \in {vec, [vec EXCEPT ![i] = t]}
  /\ Disturbs /\ UNCHANGED <<jobs, inserted>>

\* The row and its embedding, in one transaction or one turn.
Cleared(table, ids) == [i \in RowIds |-> IF i \in ids THEN Nothing ELSE table[i]]

Deletes(i) ==
  /\ i \in Held /\ contextWrites < MaxContextWrites
  /\ contextWrites' = contextWrites + 1
  /\ context' = Cleared(context, {i}) /\ vec' = Cleared(vec, {i})
  /\ Disturbs /\ UNCHANGED <<inserted, jobs>>

\* An embedding comes, in any order, also after its row is gone - or fails.
JobEnds(j) ==
  /\ jobs' = jobs \ {j}
  /\ \/ vec' = [vec EXCEPT ![j.id] = j.text]
     \/ vec' = vec
  /\ Disturbs /\ UNCHANGED <<context, inserted, contextWrites>>

---------------------------------------------------------------------------
\* The table is read once; each row is judged as it was read then.
PruneBegins ==
  /\ prune = Off
  /\ Cardinality(Held) >= 2
  /\ prune' = [at |-> "rows", all |-> context, left |-> Held, seen |-> {}, done |-> 0]
  /\ quiet' = (jobs = {}) /\ facts' = Told /\ indexed' = Embedded
  /\ UNCHANGED <<tableVars, jobs, contextWrites>>

\* What a row is compared with: rows its tags find, as they are now, that were
\* not seen before.
Candidates(i) == Held \ (prune.seen \union {i})

\* The next row that was not seen; its answer comes after an await.
Asks(i) ==
  /\ prune.at = "rows" /\ prune.done < MaxActions
  /\ i \in prune.left \ prune.seen
  /\ \E C \in SUBSET Candidates(i) \ {{}} :
       prune' = [at |-> "asked", all |-> prune.all, left |-> prune.left \ {i},
                 seen |-> prune.seen \union {i}, done |-> prune.done,
                 row |-> i, shown |-> [c \in C |-> context[c]]]
  /\ UNCHANGED <<tableVars, jobs, contextWrites, historyVars>>

\* A row without tags or without others to compare it with.
PassesRow(i) ==
  /\ prune.at = "rows" /\ prune.done < MaxActions
  /\ i \in prune.left
  /\ prune' = [prune EXCEPT !.left = @ \ {i}, !.seen = @ \union {i}, !.all[i] = Nothing]
  /\ UNCHANGED <<tableVars, jobs, contextWrites, historyVars>>

Loop(all, seen, done) ==
  [at |-> "rows", all |-> all, left |-> prune.left, seen |-> seen, done |-> done]
Judged == [prune.all EXCEPT ![prune.row] = Nothing]
Pruned(seen) == Loop(Judged, prune.seen \union seen, prune.done + 1)
Row == prune.all[prune.row]

\* keep, no answer, an answer that is no JSON.
Keeps ==
  /\ prune.at = "asked"
  /\ prune' = Loop(Judged, prune.seen, prune.done)
  /\ UNCHANGED <<tableVars, jobs, contextWrites, historyVars>>

\* A candidate tells what the row tells: the row goes.
DropsSelf ==
  /\ prune.at = "asked"
  /\ \E c \in DOMAIN prune.shown : Row \subseteq prune.shown[c]
  /\ context' = Cleared(context, {prune.row}) /\ vec' = Cleared(vec, {prune.row})
  /\ prune' = Pruned({})
  /\ UNCHANGED <<inserted, jobs, contextWrites, historyVars>>

\* The row tells what a candidate tells: the candidate goes.
DropsTarget(c) ==
  /\ prune.at = "asked" /\ c \in DOMAIN prune.shown
  /\ prune.shown[c] \subseteq Row
  /\ context' = Cleared(context, {c}) /\ vec' = Cleared(vec, {c})
  /\ prune' = Pruned({c})
  /\ UNCHANGED <<inserted, jobs, contextWrites, historyVars>>

\* One text for both: the candidate gets it - if it is still there -, the row
\* goes, and the new text is embedded.
MergeForgets(c) == {}  \* Mutant: the candidate may be merged a second time.
MergeSeen(c) == {c}

Merges(c) ==
  /\ prune.at = "asked" /\ c \in DOMAIN prune.shown
  /\ LET both == Row \union prune.shown[c]
     IN  /\ context' = Cleared([context EXCEPT ![c] = IF c \in Held THEN both ELSE @], {prune.row})
         /\ prune' = [at |-> "index", all |-> Judged, left |-> prune.left,
                      seen |-> prune.seen \union MergeSeen(c), done |-> prune.done + 1,
                      target |-> c, text |-> both]
  /\ vec' = Cleared(vec, {prune.row})
  /\ UNCHANGED <<inserted, jobs, contextWrites, historyVars>>

\* The embedding of the merged text comes, or fails and the old one stays.
Indexes ==
  /\ prune.at = "index"
  /\ \/ vec' = [vec EXCEPT ![prune.target] = prune.text] /\ quiet' = quiet
     \/ vec' = vec /\ quiet' = FALSE
  /\ prune' = Loop(prune.all, prune.seen, prune.done)
  /\ UNCHANGED <<context, inserted, jobs, contextWrites, facts, indexed>>

\* All rows, the cap on actions or on time, or the process dies.
PruneEnds ==
  /\ prune # Off
  /\ prune' = Off
  /\ quiet' = (quiet /\ prune.at # "index")
  /\ UNCHANGED <<tableVars, jobs, contextWrites, facts, indexed>>

PruneContext ==
  \/ PruneBegins \/ Keeps \/ DropsSelf \/ Indexes \/ PruneEnds
  \/ \E i \in RowIds : Asks(i) \/ PassesRow(i) \/ DropsTarget(i) \/ Merges(i)

ContextNext ==
  \/ PruneContext
  \/ \E t \in Texts : InsertsEmbedded(t) \/ InsertsBare(t)
  \/ \E i \in RowIds : Deletes(i) \/ \E t \in Texts : Updates(i, t) \/ MergesNew(i, t)
  \/ \E j \in jobs : JobEnds(j)

ContextSpec == ContextInit /\ [][ContextNext]_contextVars

---------------------------------------------------------------------------
\* A night that nobody disturbs loses nothing: whatever the order of the rows
\* and the answers, what the table told when the step began it still tells, and
\* a row whose embedding was right has the right one or is being embedded, or
\* is gone with it.  A row that got another's text is not judged by its old one.
ContextIsKept ==
  quiet =>
    /\ facts \subseteq Told
    /\ \A i \in indexed : vec[i] = context[i] \/ (prune.at = "index" /\ prune.target = i)
=============================================================================
