----------------------------- MODULE ServerLife -----------------------------
(***************************************************************************)
(* The life of the server process and of its database file: start,         *)
(* scheduled agent runs (server/src/app/schedulers.ts, agent/src/scheduler *)
(* /free-agent.ts), the daily backup (backup-scheduler.ts, core/src/db/    *)
(* backup/primitive.ts), shutdown (shutdown.ts), a kill at any moment, and *)
(* the restore script (scripts/restore-backup.ts) run beside it.           *)
(*                                                                         *)
(* A database file is renamed and replaced at the level of the file        *)
(* system: the server keeps the file it has open, whatever its name.  What *)
(* SQLite does is external: rows go to a log beside the path, a checkpoint *)
(* copies them into the open file and leaves the log, closing does so and  *)
(* removes the log unless the file has been moved away, and whoever opens  *)
(* the path reads whatever log lies beside it.                             *)
(***************************************************************************)
EXTENDS Naturals, Sequences

CONSTANTS
    Loops,        \* schedulers of agent runs: autonomous, free agent
    LastDay,      \* bound: the days are 0 .. LastDay
    MaxRows,      \* bound on the rows written
    MaxDeploys,   \* bound on new versions of the schema
    MaxRestores,  \* bound on renames by the restore script
    MaxLosses     \* bound on kills

ASSUME LifeAssumption == {LastDay, MaxRows, MaxDeploys, MaxRestores, MaxLosses} \subseteq Nat

VARIABLES
    files,     \* database files ever made, but the backups
    atPath,    \* the one at DB_PATH or 0
    wal,       \* the write-ahead log at DB_PATH: its frames' rows and the file
               \* they were written for, 0 where it holds no frame
    backups,   \* the backup of a day
    server,    \* down or up or stopping
    opened,    \* the file the server has open
    running,   \* whether a run of a scheduler is going on
    today,     \* today
    backupTick,  \* due or done or checked
    restorer,  \* where the restore script is
    restored,  \* history: the last restore, until the server starts
    closed,    \* history: the server has closed the database at DB_PATH
    losses,    \* kills so far
    rowsWritten,  \* rows written so far
    deployed   \* the version of the schema the server migrates to

fileVars == <<files, atPath, wal>>
processVars == <<server, opened, running, backupTick>>
scriptVars == <<restorer, restored, closed>>
countVars == <<losses, rowsWritten, deployed>>
lifeVars == <<fileVars, processVars, scriptVars, countVars, backups, today>>

BackupDays == 0 .. LastDay
Up == server # "down"
NoBackup == [state |-> "none"]
NoScript == [at |-> "idle"]
NoRestore == [at |-> "none"]
Record(state, some, ver) == [state |-> state, rows |-> some, ver |-> ver]
EmptyLog == [of |-> 0, rows |-> {}]

\* What a reader of the file sees who has the log beside it.
Read(f) == [files[f] EXCEPT !.rows = @ \cup wal.rows]

-----------------------------------------------------------------------------
(* Rows, and the file beneath them.                                        *)

\* A log that is all in the file may be begun again.
WriteRow ==
    /\ Up /\ rowsWritten < MaxRows
    /\ rowsWritten' = rowsWritten + 1
    /\ \E kept \in {wal.rows, {}} :
        /\ wal.rows \subseteq files[opened].rows \cup kept
        /\ wal' = [of |-> opened, rows |-> kept \cup {rowsWritten}]
    /\ UNCHANGED <<files, atPath, backups, processVars, today, scriptVars, losses, deployed>>

Checkpointed == [files EXCEPT ![opened] = Read(opened)]

\* The frames stay in the log, which a start after a kill reads again.
Checkpoint ==
    /\ Up
    /\ files' = Checkpointed
    /\ UNCHANGED <<atPath, wal, backups, processVars, today, scriptVars, countVars>>

Foreign == wal.of \notin {0, atPath}

\* The log is read over the file even when it is that of another file.
Migrated ==
    IF Foreign THEN [Read(atPath) EXCEPT !.state = "mixed", !.ver = deployed]
    ELSE [files[atPath] EXCEPT !.ver = deployed]

\* Opens the file at the path and migrates it, which writes to the log.
\* Where there is none a new one is made and the log is thrown away.
Boot(due) ==
    /\ server = "down"
    /\ IF atPath = 0
       THEN /\ files' = Append(files, Record("whole", {}, deployed))
            /\ atPath' = Len(files) + 1
            /\ wal' = [of |-> atPath', rows |-> {}]
       ELSE /\ files' = [files EXCEPT ![atPath] = Migrated]
            /\ IF wal.of = 0 /\ files[atPath].ver = deployed THEN UNCHANGED wal
               ELSE wal' = [wal EXCEPT !.of = atPath]
            /\ UNCHANGED atPath
    /\ opened' = atPath'
    /\ server' = "up"
    /\ backupTick' = IF due THEN "due" ELSE "done"  \* the hour may have passed
    /\ running' = [l \in Loops |-> FALSE]
    /\ restored' = NoRestore /\ closed' = FALSE
    /\ restorer' = IF restorer.at = "renamed" THEN [restorer EXCEPT !.clean = FALSE] ELSE restorer
    /\ UNCHANGED <<backups, today, countVars>>

Deploy ==
    /\ server = "down" /\ deployed < MaxDeploys
    /\ deployed' = deployed + 1
    /\ UNCHANGED <<fileVars, backups, processVars, today, scriptVars, losses, rowsWritten>>

-----------------------------------------------------------------------------
(* Scheduled runs and the daily backup.                                    *)

LoopFires(l) ==
    /\ server = "up" /\ ~running[l]
    /\ running' = [running EXCEPT ![l] = TRUE]
    /\ UNCHANGED <<fileVars, backups, server, opened, today, backupTick, scriptVars, countVars>>

\* The run is over, or has failed; its flag falls in any case.
LoopEnds(l) ==
    /\ Up /\ running[l]
    /\ running' = [running EXCEPT ![l] = FALSE]
    /\ UNCHANGED <<fileVars, backups, server, opened, today, backupTick, scriptVars, countVars>>

NextDay ==
    /\ today < LastDay /\ (Up => backupTick = "done")
    /\ today' = today + 1
    /\ backupTick' = IF server = "up" THEN "due" ELSE "done"
    /\ UNCHANGED <<fileVars, backups, server, opened, running, scriptVars, countVars>>

\* The tick of the day looks whether there is a file of today.
TickChecks ==
    /\ server = "up" /\ backupTick = "due"
    /\ backupTick' = IF backups[today].state = "none" THEN "checked" ELSE "done"
    /\ UNCHANGED <<fileVars, backups, server, opened, running, today, scriptVars, countVars>>

Snapshot == Read(opened)

\* VACUUM INTO is one statement; its failure may leave a part of the file.
VacuumInto(d, result) ==
    /\ backups[d].state = "none"
    /\ backups' = [backups EXCEPT ![d] = result]

\* The database may have been closed meanwhile, which only fails the backup.
RunBackup ==
    /\ Up /\ backupTick = "checked"
    /\ backupTick' = "done"
    /\ \/ VacuumInto(today, Snapshot)
       \/ VacuumInto(today, Record("partial", {}, 0))
       \/ UNCHANGED backups
    /\ UNCHANGED <<fileVars, server, opened, running, today, scriptVars, countVars>>

-----------------------------------------------------------------------------
(* Shutdown, in order; the schedulers are stopped first.                   *)

Signal ==
    /\ server = "up"
    /\ server' = "stopping"
    /\ backupTick' = IF backupTick = "due" THEN "done" ELSE backupTick
    /\ UNCHANGED <<fileVars, backups, opened, running, today, scriptVars, countVars>>

\* The scout, the poller and the browser first; then memory.close() and exit.
CloseAndExit ==
    /\ server = "stopping" /\ server' = "down"
    /\ IF opened = atPath THEN files' = Checkpointed /\ wal' = EmptyLog /\ closed' = TRUE
       ELSE UNCHANGED <<files, wal, closed>>
    /\ opened' = 0 /\ backupTick' = "done"
    /\ running' = [l \in Loops |-> FALSE]
    /\ UNCHANGED <<atPath, backups, today, restorer, restored, countVars>>

\* A kill, which may hit a backup on its way.
Kill ==
    /\ Up /\ losses < MaxLosses
    /\ server' = "down" /\ opened' = 0 /\ backupTick' = "done"
    /\ running' = [l \in Loops |-> FALSE]
    /\ losses' = losses + 1
    /\ \/ UNCHANGED backups
       \/ backupTick = "checked" /\ VacuumInto(today, Record("partial", {}, 0))
    /\ UNCHANGED <<fileVars, today, scriptVars, rowsWritten, deployed>>

-----------------------------------------------------------------------------
(* The restore script.                                                       *)

\* Mutant: any file that is there will do.
AnyFile(b) == b.state # "none"

Intact(b) == b.state = "whole"

\* Every refusal: the file is there and intact, its version that of the
\* database at the path.
Checks(d) ==
    /\ restorer.at = "idle"
    /\ Intact(backups[d])
    /\ atPath # 0 /\ backups[d].ver = files[atPath].ver
    /\ Len(files) <= MaxRestores + 1
    /\ restorer' = [at |-> "checked", day |-> d]
    /\ UNCHANGED <<fileVars, backups, processVars, today, restored, closed, countVars>>

\* Mutant: the database is overwritten where it is.
StaysInPlace == UNCHANGED atPath

SetAside == atPath' = 0

RenameCurrent ==
    /\ restorer.at = "checked" /\ atPath # 0
    /\ SetAside
    /\ restored' = [at |-> "renamed", day |-> restorer.day, old |-> Read(atPath), clean |-> closed]
    /\ restorer' = restored'
    /\ UNCHANGED <<files, wal, backups, processVars, today, closed, countVars>>

\* A copy has its own place, unless the server has made a new file there.
PutAtPath(file) ==
    IF atPath = 0
    THEN files' = Append(files, file) /\ atPath' = Len(files) + 1
    ELSE files' = [files EXCEPT ![atPath] = file] /\ UNCHANGED atPath

CopyBackup ==
    /\ restorer.at = "renamed"
    /\ PutAtPath(backups[restorer.day])
    /\ restorer' = NoScript
    /\ restored' = [restorer EXCEPT !.at = "done"]
    /\ UNCHANGED <<wal, backups, processVars, today, closed, countVars>>

\* The script is killed, perhaps in the middle of the copy.
ScriptDies ==
    /\ restorer.at # "idle" /\ losses < MaxLosses
    /\ losses' = losses + 1
    /\ restorer' = NoScript
    /\ \/ UNCHANGED <<files, atPath>>
       \/ restorer.at = "renamed" /\ PutAtPath(Record("partial", {}, 0))
    /\ UNCHANGED <<wal, backups, processVars, today, restored, closed, rowsWritten, deployed>>

-----------------------------------------------------------------------------
LifeInit ==
    /\ files = <<Record("whole", {}, 0)>> /\ atPath = 1 /\ wal = EmptyLog
    /\ backups = [d \in BackupDays |-> NoBackup]
    /\ server = "up" /\ opened = 1
    /\ running = [l \in Loops |-> FALSE]
    /\ today = 0 /\ backupTick \in {"due", "done"}
    /\ restorer = NoScript /\ restored = NoRestore /\ closed = FALSE
    /\ losses = 0 /\ rowsWritten = 0 /\ deployed = 0

LifeNext ==
    \/ WriteRow \/ Checkpoint \/ Deploy \/ NextDay
    \/ \E due \in BOOLEAN : Boot(due)
    \/ \E l \in Loops : LoopFires(l) \/ LoopEnds(l)
    \/ TickChecks \/ RunBackup
    \/ Signal \/ CloseAndExit \/ Kill
    \/ \E d \in BackupDays : Checks(d)
    \/ RenameCurrent \/ CopyBackup \/ ScriptDies

LifeSpec == LifeInit /\ [][LifeNext]_lifeVars

-----------------------------------------------------------------------------
(* Properties.                                                             *)

Opens == server = "down" /\ server' = "up"
Exact(d) == files'[atPath'].rows = backups[d].rows /\ files'[atPath'].state = "whole"

\* What a server that starts after a completed restore opens is the backup
\* that was restored (scripts/restore-backup.ts:3, "Restore a SQLite backup
\* into the live DB").
RestoreTakesEffect ==
    [][Opens /\ restored.at = "done" => Exact(restored.day)]_lifeVars

\* Where the server had closed its database before the restore and is
\* started after it, a completed restore is exact, whatever kills and failed
\* backups came before; and whether the script completed or was killed after
\* the rename, perhaps in the middle of the copy, the database it replaced
\* still lies beside the path with every row that was in it (runRestore).
CleanRestoreIsExact ==
    [][Opens /\ restored.at # "none" /\ restored.clean =>
         /\ restored.at = "done" => Exact(restored.day)
         /\ \E f \in DOMAIN files : f # atPath' /\ files'[f] = restored.old]_lifeVars
=============================================================================
