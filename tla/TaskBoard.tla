----------------------------- MODULE TaskBoard -----------------------------
(***************************************************************************)
(* The table `tasks`: agents and the user add, edit and close tasks, the   *)
(* night digests the done ones and deletes the idle ones, and two programs *)
(* turn rows of the memory tables that look like tasks into tasks: a step  *)
(* of the night (stray tasks) and a script that keeps an audit file by     *)
(* which another script undoes it.  The scripts are processes of their own.*)
(* Ages count in days.  Titles, priorities and scopes are left out, as is  *)
(* the cap on the length of a digest.                                      *)
(***************************************************************************)
EXTENDS Integers, FiniteSets

CONSTANTS
  MaxTasks,       \* bound: tasks ever added
  Rows,           \* memory rows tagged as tasks, in the order of their rowids
  MaxDay,         \* bound: days that pass
  MaxByHand,      \* bound: steps of people and agents, runs of the script among them
  StaleDays,      \* an open task this idle is deleted
  CancelledDays,  \* a cancelled task this old is deleted
  DoneDays,       \* a done task this old is digested and deleted
  JanitorDays,    \* a done task this old is deleted, digested or not
  WindowDays,     \* how far back strays are looked for
  WeekDays,       \* days of a week
  MaxPerCycle     \* rows a night classifies at most

ASSUME BoardAssumption ==
  /\ Rows \subseteq Nat /\ IsFiniteSet(Rows)
  /\ {MaxTasks, MaxDay, MaxByHand, StaleDays, CancelledDays, DoneDays, JanitorDays,
      WindowDays} \subseteq Nat
  /\ WeekDays \in Nat \ {0} /\ MaxPerCycle \in Nat \ {0}
  /\ DoneDays < JanitorDays

VARIABLES
  tasks,     \* id -> the row of that id, or NoTask
  added,     \* how many ids were drawn; they are not drawn again
  digests,   \* week -> the tasks its layer3_archive entry lists
  rows,      \* memory rows present
  born,      \* row -> the day it was written
  lastRun,   \* focus key night.stray_tasks.last_run_at, or Never
  audit,     \* lines of the script's JSONL file
  night,     \* the night cycle, as far as it works on tasks
  script,    \* scripts/migrate-tasks-from-memory.ts --apply
  day,
  byHand,    \* steps of people and agents so far
  written,   \* history: rows ever written
  dropped,   \* history: rows discarded, or whose task was
  examined   \* history: rows given to the classifier since they were written

taskVars == <<tasks, added>>
rowVars == <<rows, born, written, examined>>
boardVars == <<taskVars, digests, rowVars, lastRun, audit, night, script, day, byHand, dropped>>

---------------------------------------------------------------------------
Ids == 1..MaxTasks
Days == 0..MaxDay
Never == -1
Weeks == {d \div WeekDays : d \in Days}
Terminal == {"done", "cancelled"}
Active == {"open", "in_progress"}

NoSource == <<"none">>
UserSource == <<"user">>
Stray(r) == <<"stray", r>>
Migrated(r) == <<"migrated", r>>
RowSources == {Stray(r) : r \in Rows} \union {Migrated(r) : r \in Rows}
Sources == {NoSource, UserSource} \union RowSources

Task == {t \in [source : Sources, status : Active \union Terminal,
                updated : Days, completed : Days \union {Never}] :
           t.status \in Terminal <=> t.completed # Never}
NoTask == [source |-> NoSource, status |-> "gone", updated |-> 0, completed |-> Never]
Present == {i \in Ids : tasks[i] # NoTask}

NewTask(source) == [source |-> source, status |-> "open",
                    updated |-> day, completed |-> Never]

(* Rows whose task is among the ids. *)
RowsOf(ids) == {r \in Rows : \E i \in ids : tasks[i].source \in {Stray(r), Migrated(r)}}

(* The rows of a SELECT come in the order of their rowids. *)
First(set) == CHOOSE r \in set : \A q \in set : r <= q

(* A row is deleted, and with it what was known of it. *)
RowGoes(r) == /\ rows' = rows \ {r}
              /\ born' = [born EXCEPT ![r] = 0]
              /\ examined' = examined \ {r}

(* DELETE FROM tasks of these ids. *)
Without(ids) == [i \in Ids |-> IF i \in ids THEN NoTask ELSE tasks[i]]

Older(when, ageDays) == when < day - ageDays
WeekOf(i) == tasks[i].completed \div WeekDays

---------------------------------------------------------------------------
(* INSERT: a source is UNIQUE among the rows, unless there is none. *)
TakenBy(source) == {i \in Present : tasks[i].source = source /\ source # NoSource}

Inserts(source) ==
  /\ added < MaxTasks
  /\ TakenBy(source) = {}
  /\ added' = added + 1
  /\ tasks' = [tasks EXCEPT ![added + 1] = NewTask(source)]

(* upsertBySource: a row that is there is only touched while it is active. *)
TouchedRevives(i) == [tasks[i] EXCEPT !.updated = day, !.status = "open", !.completed = Never]
Touched(i) == IF tasks[i].status \in Active
              THEN [tasks[i] EXCEPT !.updated = day] ELSE tasks[i]

Upserts(source) ==
  \/ Inserts(source)
  \/ \E i \in TakenBy(source) :
       tasks' = [tasks EXCEPT ![i] = Touched(i)] /\ added' = added

(* POST /v1/tasks always inserts with source "user"; task_add upserts when *)
(* the agent names a source (any, that one too) and inserts without one.    *)
Adds == \/ \E source \in {NoSource, UserSource} : Inserts(source)
        \/ Upserts(UserSource)

CanTransition(from, to) == \/ from = to /\ from \notin Terminal
                           \/ from \in Active /\ to \in Terminal
                           \/ from = "open" /\ to = "in_progress"

(* Transition, from the tools or the route; the same status is a no-op. *)
Transitions(i, to) ==
  /\ i \in Present
  /\ CanTransition(tasks[i].status, to)
  /\ tasks[i].status # to
  /\ tasks' = [tasks EXCEPT ![i] =
                  [source |-> @.source, status |-> to, updated |-> day,
                   completed |-> IF to \in Terminal THEN day ELSE Never]]
  /\ added' = added

(* task_update, PATCH, and the summary appended to a closed task. *)
Edits(i) == /\ i \in Present
            /\ tasks' = [tasks EXCEPT ![i] = [@ EXCEPT !.updated = day]]
            /\ added' = added

People == /\ \/ Adds /\ dropped' = dropped
             \/ \E i \in Ids :
                  \/ \E to \in Active \union Terminal : Transitions(i, to) /\ dropped' = dropped
                  \/ Edits(i) /\ dropped' = dropped
                  \/ /\ i \in Present
                     /\ tasks' = Without({i})
                     /\ dropped' = dropped \union RowsOf({i})
                     /\ added' = added
          /\ byHand < MaxByHand /\ byHand' = byHand + 1
          /\ UNCHANGED <<digests, rowVars, lastRun, audit, night, script, day>>

(* An agent stores a row tagged as a task, or somebody deletes one. *)
WritesRow == /\ \E r \in Rows \ written :
                  /\ \A q \in Rows : q < r => q \in written
                  /\ rows' = rows \union {r}
                  /\ written' = written \union {r}
                  /\ born' = [born EXCEPT ![r] = day]
             /\ UNCHANGED <<taskVars, digests, examined, lastRun, audit, night, script, day, byHand, dropped>>

DeletesRow == /\ \E r \in rows : RowGoes(r) /\ dropped' = dropped \union {r}
              /\ byHand < MaxByHand /\ byHand' = byHand + 1
              /\ UNCHANGED <<taskVars, digests, written, lastRun, audit,
                             night, script, day>>

---------------------------------------------------------------------------
(* The night, step after step. *)
Asleep == [at |-> "asleep"]

Eligible == {i \in Present : tasks[i].status = "done" /\ Older(tasks[i].completed, DoneDays)}

(* Idle active tasks go first; then the weeks with done tasks are listed. *)
NightBegins ==
  /\ night = Asleep
  /\ LET idle == {i \in Present : tasks[i].status \in Active /\ Older(tasks[i].updated, StaleDays)}
     IN  /\ tasks' = Without(idle)
         /\ dropped' = dropped \union RowsOf(idle)
  /\ night' = [at |-> "weeks", weeks |-> {WeekOf(i) : i \in Eligible}]
  /\ UNCHANGED <<added, digests, rowVars, lastRun, audit, script, day, byHand>>

(* The week's tasks and its digest are read, and its new text is embedded. *)
DigestLines(w, ids) == digests[w] \union ids

DigestReads ==
  /\ night.at = "weeks"
  /\ \E w \in night.weeks :
       LET ids == {i \in Eligible : WeekOf(i) = w}
           rest == night.weeks \ {w}
       IN  night' = IF ids = {} THEN [night EXCEPT !.weeks = rest]
                    ELSE [at |-> "embed", weeks |-> rest, week |-> w,
                          lines |-> DigestLines(w, ids), read |-> day]
  /\ UNCHANGED <<taskVars, digests, rowVars, lastRun, audit, script, day, byHand, dropped>>

(* The digest is stored and the tasks of that week that are old enough NOW *)
(* are deleted, in one transaction.                                        *)
DigestWrites ==
  /\ night.at = "embed"
  /\ LET gone == {i \in Eligible : WeekOf(i) = night.week}
     IN  /\ tasks' = Without(gone)
         /\ dropped' = dropped \union RowsOf(gone)
  /\ digests' = [digests EXCEPT ![night.week] = night.lines]
  /\ night' = [at |-> "weeks", weeks |-> night.weeks]
  /\ UNCHANGED <<added, rowVars, lastRun, audit, script, day, byHand>>

(* The embedding or the transaction fails: the week waits for another night. *)
DigestFailsLate ==
  /\ night.at = "embed"
  /\ tasks' = Without({i \in Eligible : WeekOf(i) = night.week})
  /\ night' = [at |-> "weeks", weeks |-> night.weeks]
  /\ UNCHANGED <<added, digests, rowVars, lastRun, audit, script, day, byHand, dropped>>
DigestFails ==
  /\ night.at = "embed"
  /\ night' = [at |-> "weeks", weeks |-> night.weeks]
  /\ UNCHANGED <<taskVars, digests, rowVars, lastRun, audit, script, day, byHand, dropped>>

CancelledGo ==
  /\ night.at = "weeks" /\ night.weeks = {}
  /\ LET old == {i \in Present : tasks[i].status = "cancelled"
                                 /\ Older(tasks[i].updated, CancelledDays)}
     IN  /\ tasks' = Without(old)
         /\ dropped' = dropped \union RowsOf(old)
  /\ night' = [at |-> "pruned"]
  /\ UNCHANGED <<added, digests, rowVars, lastRun, audit, script, day, byHand>>

(* Rows written since the last run, a week back at most. *)
WindowStart == IF lastRun = Never \/ lastRun < day - WindowDays THEN day - WindowDays ELSE lastRun
InWindow(r) == born[r] >= WindowStart

StraysRead ==
  /\ night.at = "pruned"
  /\ night' = [at |-> "strays", since |-> day, done |-> 0,
               todo |-> {r \in rows : InWindow(r)}]
  /\ UNCHANGED <<taskVars, digests, rowVars, lastRun, audit, script, day, byHand, dropped>>

(* The model answers on the next row: it stays, or it becomes a task and is *)
(* deleted in the same transaction - also when a task that was closed has   *)
(* its source.  A call or a transaction that fails leaves the row.          *)
StrayBecomesTask(r) == Upserts(Stray(r)) /\ RowGoes(r)
StrayStays(r) == /\ examined' = examined \union ({r} \intersect rows)
                 /\ UNCHANGED <<taskVars, rows, born>>

StrayClassified ==
  /\ night.at = "strays" /\ night.todo # {} /\ night.done < MaxPerCycle
  /\ LET r == First(night.todo)
     IN  StrayBecomesTask(r) \/ StrayStays(r)
  /\ night' = [night EXCEPT !.todo = @ \ {First(@)}, !.done = @ + 1]
  /\ UNCHANGED <<digests, written, lastRun, audit, script, day, byHand, dropped>>

(* All rows examined, or the cap on rows or on time is hit: then the window *)
(* stays where it is.                                                       *)
WindowAdvances(capHit) == night.since
WindowAfter(capHit) == IF capHit THEN lastRun ELSE night.since

StraysEnd ==
  /\ night.at = "strays"
  /\ lastRun' = WindowAfter(night.todo # {})
  /\ night' = [at |-> "janitor"]
  /\ UNCHANGED <<taskVars, digests, rowVars, audit, script, day, byHand, dropped>>

(* Phase D of the janitor. *)
JanitorDeletes ==
  /\ night.at = "janitor"
  /\ LET old == {i \in Present : tasks[i].status = "done" /\ Older(tasks[i].completed, JanitorDays)}
     IN  /\ tasks' = Without(old)
         /\ dropped' = dropped \union RowsOf(old)
  /\ night' = Asleep
  /\ UNCHANGED <<added, digests, rowVars, lastRun, audit, script, day, byHand>>

(* The server stops or dies in the middle of a night. *)
NightDies == /\ night # Asleep
             /\ night' = Asleep
             /\ UNCHANGED <<taskVars, digests, rowVars, lastRun, audit, script, day, byHand, dropped>>

Night == NightBegins \/ DigestReads \/ DigestWrites \/ DigestFails \/ CancelledGo
         \/ StraysRead \/ StrayClassified \/ StraysEnd \/ JanitorDeletes \/ NightDies

---------------------------------------------------------------------------
(* The script, by hand: every row is a candidate, whatever its age. *)
NotRunning == [at |-> "off"]

ScriptBegins ==
  /\ script = NotRunning
  /\ script' = [at |-> "classify", todo |-> rows]
  /\ byHand < MaxByHand /\ byHand' = byHand + 1
  /\ UNCHANGED <<taskVars, digests, rowVars, lastRun, audit, night, day, dropped>>

(* A migration commits; only a task that was created takes its row away and *)
(* owes the file a line.  A row that is kept, or fails, is passed over.     *)
ScriptMigrates(r) ==
  \/ /\ Inserts(Migrated(r))
     /\ RowGoes(r)
     /\ script' = [at |-> "append", todo |-> script.todo \ {r},
                   line |-> [row |-> r, task |-> added + 1]]
  \/ /\ TakenBy(Migrated(r)) # {}
     /\ Upserts(Migrated(r))
     /\ UNCHANGED <<rows, born, examined>>
     /\ script' = [script EXCEPT !.todo = @ \ {r}]

ScriptClassified ==
  /\ script.at = "classify" /\ script.todo # {}
  /\ \/ ScriptMigrates(First(script.todo))
     \/ /\ script' = [script EXCEPT !.todo = @ \ {First(@)}]
        /\ UNCHANGED <<taskVars, rows, born, examined>>
  /\ UNCHANGED <<digests, written, lastRun, audit, night, day, byHand, dropped>>

(* The line is appended after the transaction; appending may fail. *)
ScriptAppends ==
  /\ script.at = "append"
  /\ audit' \in {audit, audit \union {script.line}}
  /\ script' = [at |-> "classify", todo |-> script.todo]
  /\ UNCHANGED <<taskVars, digests, rowVars, lastRun, night, day, byHand, dropped>>

(* It ends after the last row, or is killed before. *)
ScriptEnds == /\ script # NotRunning
              /\ script' = NotRunning
              /\ UNCHANGED <<taskVars, digests, rowVars, lastRun, audit, night, day, byHand, dropped>>

(* scripts/rollback-migration.ts on one line of the file: the row is put    *)
(* back unless it is there, as one written now, and its task is deleted.    *)
RestoredNever(r) == rows
Restored(r) == rows \union {r}

RollsBack ==
  /\ script = NotRunning
  /\ \E line \in audit :
       LET back == line.row \notin rows
       IN  /\ rows' = Restored(line.row)
           /\ born' = IF back THEN [born EXCEPT ![line.row] = day] ELSE born
           /\ dropped' = IF back THEN dropped \ {line.row} ELSE dropped
           /\ tasks' = Without({line.task})
  /\ UNCHANGED <<added, digests, written, examined, lastRun, audit, night, script, day, byHand>>

Scripts == ScriptBegins \/ ScriptClassified \/ ScriptAppends \/ ScriptEnds \/ RollsBack

---------------------------------------------------------------------------
DayPasses == /\ day < MaxDay
             /\ day' = day + 1
             /\ UNCHANGED <<taskVars, digests, rowVars, lastRun, audit, night, script, byHand, dropped>>

BoardInit == /\ tasks = [i \in Ids |-> NoTask] /\ added = 0
        /\ digests = [w \in Weeks |-> {}]
        /\ rows = {} /\ born = [r \in Rows |-> 0] /\ written = {} /\ examined = {}
        /\ lastRun = Never /\ audit = {} /\ dropped = {}
        /\ night = Asleep /\ script = NotRunning /\ day = 0
        /\ byHand = 0

BoardNext == People \/ WritesRow \/ DeletesRow \/ Night \/ Scripts \/ DayPasses

BoardSpec == BoardInit /\ [][BoardNext]_boardVars

---------------------------------------------------------------------------
(* The columns have their types, a task has a time of completion exactly   *)
(* when it is closed, and no two tasks share a source (the CHECK and the   *)
(* UNIQUE of the table).                                                   *)
TypeOK ==
  /\ tasks \in [Ids -> Task \union {NoTask}] /\ added \in 0..MaxTasks
  /\ \A i \in Present : i <= added /\ TakenBy(tasks[i].source) \subseteq {i}
  /\ digests \in [Weeks -> SUBSET Ids]
  /\ rows \subseteq written /\ written \subseteq Rows /\ examined \subseteq rows
  /\ dropped \subseteq Rows /\ born \in [Rows -> Days] /\ lastRun \in Days \union {Never}
  /\ audit \subseteq [row : Rows, task : Ids] /\ day \in Days

(* A task that was closed is never opened again and never closed otherwise: *)
(* not by an agent, not by a source that comes back with another row, not  *)
(* by a script (tasks.ts:23 "upsertBySource never revives terminal rows").  *)
TerminalIsFinal ==
  [][\A i \in Present : tasks[i].status \in Terminal /\ tasks'[i] # NoTask
       => tasks'[i].status = tasks[i].status /\ tasks'[i].completed = tasks[i].completed]_boardVars

(* What a night takes off the board. *)
Retired == {i \in Present : night' # night /\ tasks'[i] = NoTask /\ tasks[i].status = "done"}
DigestedNow == UNION {digests'[w] : w \in Weeks}

(* A done task that a night takes off the board is in a digest, whatever   *)
(* failed before and however often - unless it became old enough only      *)
(* while its week was being embedded, or so old that the janitor takes it. *)
DoneIsDigested ==
  [][\A i \in Retired : \/ i \in DigestedNow
                        \/ night.at = "janitor"
                        \/ night.at = "embed" /\ tasks[i].completed >= night.read - DoneDays]_boardVars

(* What is closed stays closed, and only digests and time take it away.     *)
ClosedIsKept == TerminalIsFinal /\ DoneIsDigested

(* A row that was stored as a memory is there, or its task is, or one of   *)
(* the two was discarded: the transactions of the night and the script,    *)
(* their crashes and the rollback never lose it between the two tables.     *)
RowIsKept ==
  \A r \in written : r \in rows \/ r \in dropped \/ r \in RowsOf(Present)

(* The window of the strays never passes a row that was not given to the   *)
(* classifier, whichever caps and deaths interrupt the nights, if the row   *)
(* is no older than the longest window.                                    *)
NoStrayMissed ==
  \A r \in rows : lastRun - WindowDays <= born[r] /\ born[r] < lastRun => r \in examined

(* A memory on its way to the board is neither lost nor overlooked.         *)
NoRowIsLost == [][RowIsKept' /\ NoStrayMissed']_boardVars

(* From a memory to a digest: neither side of the move loses a row, and the *)
(* board keeps what is closed until it is digested.                        *)
TasksAreKept == NoRowIsLost /\ ClosedIsKept

=============================================================================
