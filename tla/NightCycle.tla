----------------------------- MODULE NightCycle -----------------------------
(***************************************************************************)
(* The nightly batch over the raw conversation log and its controller.     *)
(*                                                                         *)
(* Chats append rows to layer4_log.  A run of NightCycle.run               *)
(* (agent/src/pipeline/night-cycle) takes the next BatchSize rows after a  *)
(* persistent cursor, first retries the sessions in a persistent retry     *)
(* queue, then processes the sessions of the batch, saves the new queue,   *)
(* runs its maintenance steps and last moves the cursor.  Every session is *)
(* a chain of awaited model calls.  NightCycleController                   *)
(* (server/src/app/night-cycle-controller.ts) starts runs one at a time,   *)
(* but its watchdog declares a long run over without stopping it.  Among   *)
(* the maintenance steps is the pruning of the focus table, in which the   *)
(* queue has a key that the pruning may take.                              *)
(***************************************************************************)
EXTENDS Integers, Sequences, FiniteSets

CONSTANTS
    Cycles,       \* invocations of NightCycle.run that may be in progress
    NoCycle,      \* stands for no invocation
    Sessions,     \* session ids
    BatchSize,    \* BATCH_SIZE: rows taken by one run
    FetchLimit,   \* rows a retry fetches of one session
    MaxAttempts,  \* MAX_PII_ATTEMPTS
    MaxQueue,     \* MAX_RETRY_QUEUE_SIZE
    MaxLogs,      \* bound on the rows ever appended
    MaxNightFaults  \* bound on restarts, failing runs and runs given up

ASSUME NightAssumption ==
    /\ NoCycle \notin Cycles
    /\ BatchSize \in Nat \ {0} /\ FetchLimit \in Nat \ {0}
    /\ MaxAttempts \in Nat \ {0} /\ MaxQueue \in Nat \ {0}
    /\ MaxLogs \in Nat /\ MaxNightFaults \in Nat

VARIABLES
    log,        \* layer4_log: the session of each row, in id order
    cursor,     \* focus key night_cycle_last_processed_id
    queue,      \* focus key pii_scrub_retry_sessions
    current,    \* the run the controller is waiting for, NoCycle if not running
    run,        \* the local state of each run
    nightFaults,    \* restarts, failed runs and runs given up so far
    reached,    \* history: the last row of any batch whose queue was saved
    processed,    \* history: rows that some processSession call brought to an end
    givenUp,    \* history: rows whose session was dropped from the queue, or left out of its retry
    pruned,     \* history: rows whose session was queued when the prune took the queue
    late,       \* history: runs whose copy of the queue is older than the queue
    overwritten \* history: rows whose session such a run took out of the queue

nightLog == <<processed, givenUp, pruned, late, overwritten, reached>>
nightVars == <<log, cursor, queue, current, run, nightFaults, nightLog>>

RetryEntry == [session : Sessions, attempts : 1..(MaxAttempts + 1)]

\* The local variables of run, runRetryPass and runMainBatch.
RunState == [pc : {"idle", "sessions", "post", "pruned"},
             from : Nat, upto : Nat,         \* lastProcessedId before and after
             newest : Nat,                   \* history: the newest row when it began
             todo : Seq(RetryEntry),         \* queue entries not retried yet
             kept : Seq(RetryEntry),         \* survivors, then the final queue
             batch : SUBSET Sessions]        \* sessions of the batch still to do

IdleRun == [pc |-> "idle", from |-> 0, upto |-> 0, newest |-> 0, todo |-> <<>>, kept |-> <<>>, batch |-> {}]

-----------------------------------------------------------------------------
(* Reads of the log and the queue.                                          *)

Min2(a, b) == IF a <= b THEN a ELSE b
Max2(a, b) == IF a >= b THEN a ELSE b

LogRows == 1..Len(log)
SessionRows(s) == {i \in LogRows : log[i] = s}
SessionsOf(q) == {q[i].session : i \in 1..Len(q)}

\* getLogsSince: the last row of the batch that starts after the cursor.
BatchEnd == Min2(cursor + BatchSize, Len(log))

\* getLogsBySession: the last FetchLimit rows of the session.
Fetched(s) ==
    {i \in SessionRows(s) : Cardinality({j \in SessionRows(s) : j > i}) < FetchLimit}

BatchRows(c, s) == {i \in SessionRows(s) : run[c].from < i /\ i <= run[c].upto}

FirstFailure(s) == [session |-> s, attempts |-> 1]

\* Keep the newest MaxQueue entries (entries are in order of first_failed_at).
Trimmed(q) == IF Len(q) <= MaxQueue THEN q ELSE Tail(q)

\* upsertRetry: count the failure of a queued session, or append the session.
UpsertRetry(q, s) ==
    IF s \in SessionsOf(q)
    THEN [i \in 1..Len(q) |-> IF q[i].session = s
                              THEN [q[i] EXCEPT !.attempts = @ + 1] ELSE q[i]]
    ELSE Trimmed(Append(q, FirstFailure(s)))

\* The session that UpsertRetry pushes out of a full queue, if any.
Evicted(q, s) ==
    IF s \notin SessionsOf(q) /\ Len(q) >= MaxQueue
    THEN {Head(q).session} ELSE {}

Exhausted(entry) == entry.attempts >= MaxAttempts

-----------------------------------------------------------------------------
(* The controller and the start of a run.                                   *)

\* Mutants: the id of the newest row is saved; the number of rows is saved.
NextCursorNewest(c) == Len(log)
NextCursorCount(c) == run[c].upto - run[c].from

\* result.lastProcessedId: the id of the last row of the batch.
NextCursor(c) == run[c].upto

\* NightCycle.run up to its first await: read the cursor, the batch and the
\* queue.  With no new rows the run returns at once and changes nothing, so
\* only runs with a batch are steps.
Trigger(c) ==
    /\ current = NoCycle /\ run[c].pc = "idle"
    /\ cursor < Len(log)
    /\ current' = c
    /\ run' = [run EXCEPT ![c] =
                 [pc |-> "sessions", from |-> cursor, upto |-> BatchEnd,
                  newest |-> Len(log), todo |-> queue, kept |-> <<>>,
                  batch |-> {log[i] : i \in (cursor + 1)..BatchEnd}]]
    /\ late' = late \ {c}
    /\ UNCHANGED <<log, cursor, queue, nightFaults, reached, processed, givenUp, pruned, overwritten>>

\* The promise of a run settles; its controller is told if it still listens.
Ends(c) == current' = IF current = c THEN NoCycle ELSE current

\* The timeout resolves the race: running is reset, the run goes on.
WatchdogFires ==
    /\ current # NoCycle /\ nightFaults < MaxNightFaults
    /\ current' = NoCycle
    /\ nightFaults' = nightFaults + 1
    /\ UNCHANGED <<log, cursor, queue, run, nightLog>>

-----------------------------------------------------------------------------
(* The retry pass.                                                          *)

\* An entry out of attempts is dropped with an error.  Its rows that a batch
\* has had are given up; later rows are still to come in one.
DropExhausted(c) ==
    /\ run[c].pc = "sessions" /\ run[c].todo # <<>>
    /\ Exhausted(Head(run[c].todo))
    /\ run' = [run EXCEPT ![c].todo = Tail(@)]
    /\ givenUp' = givenUp \cup
          {i \in SessionRows(Head(run[c].todo).session) : i <= reached}
    /\ UNCHANGED <<log, cursor, queue, current, nightFaults, reached, processed, pruned, late, overwritten>>

\* processSession returns true: archived, duplicate, too short or failed for
\* a reason that is not retried.  The rows were fetched after the run began;
\* those of a longer session that the fetch left out are given up with it.
RetrySucceeds(c) ==
    /\ run[c].pc = "sessions" /\ run[c].todo # <<>>
    /\ ~Exhausted(Head(run[c].todo))
    /\ run' = [run EXCEPT ![c].todo = Tail(@)]
    /\ processed' = processed \cup
          {i \in Fetched(Head(run[c].todo).session) : i <= run[c].newest}
    /\ givenUp' = givenUp \cup
          {i \in SessionRows(Head(run[c].todo).session) \ Fetched(Head(run[c].todo).session) : i <= reached}
    /\ UNCHANGED <<log, cursor, queue, current, nightFaults, reached, pruned, late, overwritten>>

\* scrubPII or translate returned null again.
RetryFails(c) ==
    /\ run[c].pc = "sessions" /\ run[c].todo # <<>>
    /\ ~Exhausted(Head(run[c].todo))
    /\ run' = [run EXCEPT ![c].todo = Tail(@),
                          ![c].kept = Append(@, [Head(run[c].todo) EXCEPT !.attempts = @ + 1])]
    /\ UNCHANGED <<log, cursor, queue, current, nightFaults, nightLog>>

-----------------------------------------------------------------------------
(* The main batch, the save of the queue and the end of the run.            *)

InBatch(c, s) == run[c].pc = "sessions" /\ run[c].todo = <<>> /\ s \in run[c].batch

SessionSucceeds(c, s) ==
    /\ InBatch(c, s)
    /\ run' = [run EXCEPT ![c].batch = @ \ {s}]
    /\ processed' = processed \cup BatchRows(c, s)
    /\ UNCHANGED <<log, cursor, queue, current, nightFaults, reached, givenUp, pruned, late, overwritten>>

SessionFails(c, s) ==
    /\ InBatch(c, s)
    /\ run' = [run EXCEPT ![c].batch = @ \ {s},
                          ![c].kept = UpsertRetry(@, s)]
    /\ givenUp' = givenUp \cup
          {i \in LogRows : log[i] \in Evicted(run[c].kept, s) /\ (i <= run[c].upto \/ i <= reached)}
    /\ UNCHANGED <<log, cursor, queue, current, nightFaults, reached, processed, pruned, late, overwritten>>

\* Rows that batches have had and whose session is in the one queue, not the other.
Dropped(old, new) ==
    {i \in 1..reached \ (processed \cup givenUp) : log[i] \in SessionsOf(old) \ SessionsOf(new)}

\* The others that hold a copy of the queue hold an old one from now on.
OutOfDate(c) == {d \in Cycles \ {c} : run[d].pc = "sessions"}

\* The run saves its copy over whatever the queue is by then.
SaveQueue(c) ==
    /\ run[c].pc = "sessions" /\ run[c].todo = <<>> /\ run[c].batch = {}
    /\ queue' = run[c].kept
    /\ run' = [run EXCEPT ![c].pc = "post"]
    /\ reached' = Max2(reached, run[c].upto)
    /\ overwritten' = IF c \in late THEN overwritten \cup Dropped(queue, run[c].kept) ELSE overwritten
    /\ late' = (late \ {c}) \cup OutOfDate(c)
    /\ UNCHANGED <<log, cursor, current, nightFaults, processed, givenUp, pruned>>

\* Among the maintenance steps pruneFocus asks a model about every key that is
\* not protected.  The queue's key is not: it may be dropped, or get or give its
\* text in a merge, and what is no list of entries is read as an empty queue.
FocusPruneTakesQueue(c) ==
    /\ run[c].pc = "post" /\ queue # <<>>
    /\ queue' = <<>>
    /\ run' = [run EXCEPT ![c].pc = "pruned"]
    /\ pruned' = pruned \cup Dropped(queue, <<>>)
    /\ late' = late \cup OutOfDate(c)
    /\ UNCHANGED <<log, cursor, current, nightFaults, reached, processed, givenUp, overwritten>>

\* After the anti-pattern and maintenance steps, whose failures are caught.
SaveCursor(c) ==
    /\ run[c].pc \in {"post", "pruned"}
    /\ cursor' = NextCursor(c)
    /\ run' = [run EXCEPT ![c] = IdleRun]
    /\ Ends(c)
    /\ UNCHANGED <<log, queue, nightFaults, nightLog>>

\* A statement of run itself throws: the run ends without saving the cursor.
RunThrows(c) ==
    /\ nightFaults < MaxNightFaults
    /\ run[c].pc # "idle"
    /\ run' = [run EXCEPT ![c] = IdleRun]
    /\ Ends(c)
    /\ nightFaults' = nightFaults + 1
    /\ UNCHANGED <<log, cursor, queue, nightLog>>

NightRestart ==
    /\ nightFaults < MaxNightFaults
    /\ nightFaults' = nightFaults + 1
    /\ run' = [c \in Cycles |-> IdleRun]
    /\ current' = NoCycle
    /\ UNCHANGED <<log, cursor, queue, nightLog>>

\* A chat stores a row.
AppendLog(s) ==
    /\ Len(log) < MaxLogs
    /\ log' = Append(log, s)
    /\ UNCHANGED <<cursor, queue, current, run, nightFaults, nightLog>>

-----------------------------------------------------------------------------
NightInit ==
    /\ log = <<>>
    /\ cursor = 0
    /\ queue = <<>>
    /\ current = NoCycle
    /\ run = [c \in Cycles |-> IdleRun]
    /\ nightFaults = 0
    /\ reached = 0
    /\ processed = {} /\ givenUp = {} /\ pruned = {} /\ late = {} /\ overwritten = {}

RunStep(c) ==
    \/ DropExhausted(c)
    \/ RetrySucceeds(c)
    \/ RetryFails(c)
    \/ \E s \in Sessions : SessionSucceeds(c, s) \/ SessionFails(c, s)
    \/ SaveQueue(c)
    \/ SaveCursor(c)

NightNext ==
    \/ \E s \in Sessions : AppendLog(s)
    \/ \E c \in Cycles : Trigger(c) \/ RunStep(c) \/ FocusPruneTakesQueue(c) \/ RunThrows(c)
    \/ WatchdogFires
    \/ NightRestart

\* The schedule triggers the controller every day, and a run makes progress:
\* every model call is bounded by the request timeout of the router.
NightFairness ==
    /\ WF_nightVars(\E c \in Cycles : Trigger(c))
    /\ \A c \in Cycles : WF_nightVars(RunStep(c))

NightSpec == NightInit /\ [][NightNext]_nightVars /\ NightFairness

-----------------------------------------------------------------------------
(* Properties.                                                              *)

NightTypeOK ==
    /\ log \in Seq(Sessions) /\ Len(log) <= MaxLogs
    /\ cursor \in 0..Len(log)
    /\ queue \in Seq(RetryEntry)
    /\ current \in Cycles \cup {NoCycle}
    /\ run \in [Cycles -> RunState]
    /\ nightFaults \in Nat
    /\ reached \in 0..Len(log) /\ late \subseteq Cycles
    /\ pruned \subseteq LogRows /\ overwritten \subseteq LogRows
    /\ processed \subseteq LogRows
    /\ givenUp \subseteq LogRows

\* What became of a row that is no longer to come in a batch: it was processed,
\* given up with its session, or its session waits in the retry queue; or it
\* waited there until the focus prune took the queue, or until a run that the
\* watchdog had given up saved an older copy.
Accounted(i) ==
    \/ i \in processed \/ i \in givenUp \/ log[i] \in SessionsOf(queue)
    \/ i \in pruned \/ i \in overwritten

\* No row the cursor has passed is lost in any other way, whatever fails,
\* restarts or overlaps: not by a cursor that is saved too far or too early,
\* by a session that fails again, nor by a full queue.
NoForgottenRow == \A i \in 1..cursor : Accounted(i)

\* The queue names a session once, so that its failures are counted together,
\* and holds at most MaxQueue of them.
QueueIsASet ==
    /\ \A i, j \in 1..Len(queue) : queue[i].session = queue[j].session => i = j
    /\ Len(queue) <= MaxQueue

\* Every row is eventually covered by a run that completes.
RowsAreReached == \A i \in 1..MaxLogs : (i <= Len(log)) ~> (i <= cursor)

=============================================================================
