----------------------------- MODULE FocusPrune -----------------------------
(***************************************************************************)
(* The key-value table layer1_focus: users and agents write directives to   *)
(* it, parts of the program keep their state in it, and two steps of the    *)
(* night work on it.  The one asks a model once which keys to drop or merge *)
(* and obeys; the other proposes new values in a shadow table.  A value is  *)
(* the set of statements it makes.  Of the keys that parts of the program   *)
(* own all but one are protected: the retry queue of the night cycle        *)
(* (retry-queue.ts:14) is a key to the prune like any directive; what that  *)
(* does to the cycle is in NightCycle.                                      *)
(***************************************************************************)
EXTENDS Integers, FiniteSets

CONSTANTS
  Keys,
  Owned,        \* keys in which a part of the program keeps its state
  Protected,    \* PROTECTED_FOCUS_KEYS
  Statements,
  MaxFocusWrites,  \* bound: writes and deletions beside the night
  MaxFocusActions \* bound: actions in an answer of the model

ASSUME FocusAssumption ==
  /\ Owned \subseteq Keys /\ Protected \subseteq Keys
  /\ MaxFocusWrites \in Nat /\ MaxFocusActions \in Nat

VARIABLES
  focus,        \* key -> its value, or Absent
  shadow,       \* the keys for which layer1_focus_shadow has a proposal
  step,         \* the night: where it is, and what it has read
  focusWrites,
  stored,       \* history: owned key -> what its owner stored last
  undisturbed,  \* history: nobody wrote a key the prune may edit since it began
  stale         \* history: statements of the values that were dropped as stale

focusVars == <<focus, shadow, step, focusWrites, stored, undisturbed, stale>>

---------------------------------------------------------------------------
Absent == {}
Values == SUBSET Statements \ {Absent}
AtRest == [at |-> "idle"]
Editable(table) == {k \in Keys \ Protected : table[k] # Absent}
Says(table) == UNION {table[k] : k \in Keys \ Protected}

FocusInit ==
  /\ focus \in [Keys -> Values \union {Absent}] /\ shadow = {}
  /\ step = AtRest /\ focusWrites = 0
  /\ stored = [k \in Owned |-> focus[k]]
  /\ undisturbed = TRUE /\ stale = {}

\* The actions of an answer are obeyed in one turn: nobody writes meanwhile.
MayWrite == step.at # "obeys" /\ focusWrites < MaxFocusWrites /\ focusWrites' = focusWrites + 1

\* PUT or DELETE /focus/:key, and the tool memory_write.
Puts(k, v) ==
  /\ MayWrite
  /\ focus' = [focus EXCEPT ![k] = v]
  /\ undisturbed' = FALSE
  /\ UNCHANGED <<shadow, step, stored, stale>>

\* A poller, a cycle or a step of the night stores where it is.
Stores(k, v) ==
  /\ MayWrite
  /\ focus' = [focus EXCEPT ![k] = v]
  /\ stored' = [stored EXCEPT ![k] = v]
  /\ undisturbed' = (undisturbed /\ k \in Protected)
  /\ UNCHANGED <<shadow, step, stale>>

---------------------------------------------------------------------------
\* The table is read; the model is asked about the keys that may be edited.
FocusAsked ==
  /\ step = AtRest
  /\ Cardinality(Editable(focus)) >= 2
  /\ step' = [at |-> "asked", all |-> focus, touched |-> {}, actions |-> 0]
  /\ undisturbed' = TRUE /\ stale' = {}
  /\ UNCHANGED <<focus, shadow, focusWrites, stored>>

FocusAnswered ==
  /\ step.at = "asked"
  /\ step' = [step EXCEPT !.at = "obeys"]
  /\ UNCHANGED <<focus, shadow, focusWrites, stored, undisturbed, stale>>

\* An action may name any key; it is obeyed if the key was there when the table
\* was read, may be edited and was in no action before.
Allowed(k) == k \notin Protected /\ k \notin step.touched /\ step.all[k] # Absent

\* Mutant: only what was dropped counts as touched.
TouchesDrops(ks) ==
  step' = [step EXCEPT !.touched = @ \union {k \in ks : focus'[k] = Absent}, !.actions = @ + 1]

Touches(ks) == step' = [step EXCEPT !.touched = @ \union ks, !.actions = @ + 1]

Obeys == step.at = "obeys" /\ step.actions < MaxFocusActions /\ UNCHANGED <<shadow, focusWrites, stored, undisturbed>>

DropsKey(k) ==
  /\ Obeys
  /\ Allowed(k)
  /\ focus' = [focus EXCEPT ![k] = Absent]
  /\ stale' = stale \union step.all[k]
  /\ Touches({k})

\* The merged value says what the values said that the model was shown; the
\* keys it replaces go in the same transaction.
MergedValue(ks) == UNION {step.all[k] : k \in ks \ Protected}

MergesKeys(keep, drops) ==
  /\ Obeys
  /\ Allowed(keep)
  /\ LET gone == {k \in drops \ {keep} : Allowed(k)}
     IN  /\ focus' = [k \in Keys |-> IF k = keep THEN MergedValue(drops \union {keep})
                                     ELSE IF k \in gone THEN Absent ELSE focus[k]]
         /\ Touches({keep} \union gone)
  /\ stale' = stale

\* All actions are done; or the call failed or gave no actions.
FocusPruned ==
  /\ step.at \in {"asked", "obeys"}
  /\ step' = [at |-> "pruned"]
  /\ UNCHANGED <<focus, shadow, focusWrites, stored, undisturbed, stale>>

---------------------------------------------------------------------------
\* Switched off, no key to edit, or no memories to tell about.
RewriteSkips ==
  /\ step.at = "pruned"
  /\ step' = AtRest
  /\ UNCHANGED <<focus, shadow, focusWrites, stored, undisturbed, stale>>

RewriteBegins ==
  /\ step.at = "pruned" /\ Editable(focus) # {}
  /\ step' = [at |-> "rewrites", todo |-> Editable(focus)]
  /\ UNCHANGED <<focus, shadow, focusWrites, stored, undisturbed, stale>>

\* The model is asked about a key; a value that is new, not empty and short
\* enough goes to the shadow table.
Rewrites(k) ==
  /\ step.at = "rewrites" /\ k \in step.todo
  /\ shadow' \in {shadow, shadow \union {k}}
  /\ step' = [step EXCEPT !.todo = @ \ {k}]
  /\ UNCHANGED <<focus, focusWrites, stored, undisturbed, stale>>

RewriteEnds ==
  /\ step.at = "rewrites" /\ step.todo = {}
  /\ step' = AtRest
  /\ UNCHANGED <<focus, shadow, focusWrites, stored, undisturbed, stale>>

\* The process dies; what was obeyed stays.
NightStops ==
  /\ step # AtRest /\ step.at # "obeys"
  /\ step' = AtRest
  /\ UNCHANGED <<focus, shadow, focusWrites, stored, undisturbed, stale>>

FocusNight ==
  \/ FocusAsked \/ FocusAnswered \/ FocusPruned \/ RewriteSkips \/ RewriteBegins \/ RewriteEnds \/ NightStops
  \/ \E k \in Keys : DropsKey(k) \/ Rewrites(k) \/ \E ks \in SUBSET Keys : MergesKeys(k, ks)

FocusNext ==
  \/ FocusNight
  \/ \E k \in Keys \ Owned, v \in Values \union {Absent} : Puts(k, v)
  \/ \E k \in Owned, v \in Values : Stores(k, v)

FocusSpec == FocusInit /\ [][FocusNext]_focusVars

---------------------------------------------------------------------------
\* A part of the program whose key is in PROTECTED_FOCUS_KEYS reads back what
\* it stored: neither dropped, merged nor replaced by an older value that the
\* step had read, whatever key an action names beside it.  An owned key that is
\* not protected is to the prune a directive like any other.
ProtectedAsStored == \A k \in Owned \cap Protected : focus[k] = stored[k]

\* What the prune read and did not drop is said by some key while nobody
\* else writes, whichever actions an answer combines: two merges into a key,
\* a merge of a key that was merged before, a drop after a merge.
ReadIsSaid ==
  undisturbed /\ step.at \in {"asked", "obeys"} =>
    Says(step.all) \subseteq Says(focus) \union stale

FocusIsKept == ProtectedAsStored /\ ReadIsSaid
=============================================================================
