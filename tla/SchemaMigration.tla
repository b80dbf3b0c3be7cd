--------------------------- MODULE SchemaMigration ---------------------------
(***************************************************************************)
(* Opening the database file: openDatabase and migrate of                  *)
(* packages/core/src/db/schema.ts, as every process does it that           *)
(* constructs a MemoryDB (the server at boot, the maintenance scripts).    *)
(*                                                                         *)
(* The SQL is data here: a migration is a sequence of statements, and      *)
(* Apply says what a statement does to the database.  Only the columns     *)
(* that a later statement adds, widens or reads are named.  Statements     *)
(* that create triggers or indexes of one table are written as one.        *)
(*                                                                         *)
(* The base script and migrations 1 and 2 run through exec, statement by   *)
(* statement, each committed on its own; migrations 3 to 22 are one        *)
(* transaction each.  A process reads user_version once, after the base    *)
(* script, and decides with that value about all the migrations.           *)
(***************************************************************************)
EXTENDS Naturals, Sequences, TLC
LOCAL INSTANCE SequencesExt
LOCAL INSTANCE FiniteSetsExt
LOCAL INSTANCE Functions

CONSTANTS Procs,        \* the processes that may open the file
          Server,       \* the one that is restarted whenever it is down
          Starts,       \* the versions the file may have at first
          Overlaps,     \* the ones at which scripts open the file as well: not a
                        \* version-0 file, whose chats are lost when the base
                        \* script of one process meets migration 1 of another
          MaxKills      \* bound: how often a process may be killed

ASSUME ProcsAssumption == Server \in Procs
ASSUME StartsAssumption == Starts \subseteq 0 .. 22 /\ Overlaps \subseteq 1 .. 22

VARIABLES
    db,        \* the committed content of the file
    proc,      \* per process: where it is in migrate()
    start,     \* history: the version the file had at first, 0 and up
    legacy,    \* history: rows per table of that first file
    ran,       \* history: the last migration the file has had
    behind,    \* history: who read a version that another process made a wrong one
    again,     \* history: those of OnlyOnce that such a process repeated
    kills      \* number of kills so far

schemaVars == <<db, proc, start, legacy, ran, behind, again, kills>>

-----------------------------------------------------------------------------
(* Statements.                                                             *)

Table(t, cs)   == [k |-> "table", t |-> t, c |-> cs]   \* CREATE TABLE IF NOT EXISTS
Column(t, cs)  == [k |-> "column", t |-> t, c |-> cs]  \* ALTER TABLE ADD COLUMN
\* Mutant of ColumnOnce: a column that is there already is an error.
ColumnOnce(t, cs) == [k |-> "column?", t |-> t, c |-> cs] \* the same, a duplicate is ignored
Objects(t, ns) == [k |-> "object", t |-> t, c |-> ns]  \* CREATE TRIGGER, INDEX IF NOT EXISTS
Mirror(t)      == [k |-> "mirror", t |-> t, c |-> {}]  \* CREATE VIRTUAL TABLE of full-text search
Copy(t, u)     == [k |-> "copy", t |-> t, c |-> {u}]   \* INSERT INTO u SELECT * FROM t
Drop(t)        == [k |-> "drop", t |-> t, c |-> {}]
Rename(t, u)   == [k |-> "rename", t |-> t, c |-> {u}]
Fill(t, u)     == [k |-> "fill", t |-> t, c |-> {u}]   \* backfill of u, only while u counts 0 rows
Rebuild(t)     == [k |-> "rebuild", t |-> t, c |-> {}] \* INSERT INTO fts(fts) VALUES('rebuild')
Version(n)     == [k |-> "version", t |-> "", c |-> {n}]

Only(S) == CHOOSE x \in S : TRUE

EmptyDb == [ver |-> 0, tab |-> <<>>, obj |-> {}, rows |-> <<>>, fts |-> <<>>, ok |-> TRUE]

Has(d, t) == t \in DOMAIN d.tab

\* The roles a row of layer4_log may have, by the CHECK of the table.
RoleClasses == {"role0", "role3", "role7"}
Admits(cs) == CASE "role7" \in cs -> RoleClasses
                [] "role3" \in cs /\ "role7" \notin cs -> {"role0", "role3"}
                [] OTHER -> {"role0"}

\* What migration 15 makes of the confidence of an archive row; any other
\* table is copied as it is.
Converted(t, r) == CASE t # "layer3_archive" -> r
                     [] t = "layer3_archive" /\ r = "HIGH" -> "0.9"
                     [] t = "layer3_archive" /\ r = "LOW" -> "0.4"
                     [] OTHER -> "NULL"

Fails(d, s) ==
    \/ /\ s.k \in {"column", "column?", "object", "copy", "drop", "rename", "fill", "rebuild"}
       /\ ~Has(d, s.t)
    \/ s.k = "column" /\ s.c \cap d.tab[s.t] # {}
    \/ s.k = "copy" /\ ~Has(d, Only(s.c))
    \/ /\ s.k = "copy" /\ s.t = "layer4_log" /\ Has(d, Only(s.c))
       /\ ~ d.rows[s.t] \subseteq Admits(d.tab[Only(s.c)])
    \/ s.k = "copy" /\ s.t = "chats" /\ "kind" \in d.tab[s.t]  \* one column too many
    \/ s.k = "rename" /\ Has(d, Only(s.c))

\* foreign_keys is ON: DROP TABLE deletes the rows first, and the delete of
\* a chat cascades to its messages.
Cascade(t) == IF t = "chats" THEN {"chat_messages"} ELSE {}

\* The ids of layer4_log are its rowids and survive a rebuild of the table;
\* the rows of layer3_archive get new rowids, which its mirror knows not.
Dropped(d, t) ==
    [d EXCEPT !.tab = Restrict(@, DOMAIN @ \ {t}),
              !.rows = [u \in DOMAIN @ \ {t} |-> IF u \in Cascade(t) THEN {} ELSE @[u]],
              !.obj = {o \in @ : o[2] # t},
              !.fts = [u \in DOMAIN @ |-> IF u = t /\ t # "layer4_log" THEN {} ELSE @[u]]]

Renamed(d, t, u) ==
    LET Moved(f) == (u :> f[t]) @@ Restrict(f, DOMAIN f \ {t})
    IN  [d EXCEPT !.tab = Moved(@), !.rows = Moved(@),
                  !.obj = {IF o[2] = t THEN <<o[1], u>> ELSE o : o \in @}]

\* count(*) of a mirror counts the rows of the table it mirrors, so a
\* backfill of fts_log finds nothing to do unless there is nothing to index.
Filled(d, t, u) ==
    CASE u = "fts_log" -> IF d.rows[t] = {} THEN [d EXCEPT !.fts[t] = d.rows[t]] ELSE d
      [] OTHER -> IF d.rows[u] = {} THEN [d EXCEPT !.rows[u] = d.rows[t]] ELSE d

Effect(d, s) ==
    CASE s.k = "table" ->
           IF Has(d, s.t) THEN d
           ELSE [d EXCEPT !.tab = (s.t :> s.c) @@ @, !.rows = (s.t :> {}) @@ @]
      [] s.k \in {"column", "column?"} -> [d EXCEPT !.tab[s.t] = @ \cup s.c]
      [] s.k = "object" ->
           [d EXCEPT !.obj = @ \cup {<<n, s.t>> : n \in s.c}]
      [] s.k = "mirror" -> [d EXCEPT !.fts = @ @@ (s.t :> {})]
      [] s.k = "copy" ->
           [d EXCEPT !.rows[Only(s.c)] = @ \cup {Converted(s.t, r) : r \in d.rows[s.t]}]
      [] s.k = "drop" -> Dropped(d, s.t)
      [] s.k = "rename" -> Renamed(d, s.t, Only(s.c))
      [] s.k = "fill" -> Filled(d, s.t, Only(s.c))
      [] s.k = "rebuild" -> [d EXCEPT !.fts[s.t] = d.rows[s.t]]
      [] s.k = "version" -> [d EXCEPT !.ver = Only(s.c)]

\* db.query(sql).run() in a transaction: the first failure undoes it all.
Apply(d, s) == IF ~d.ok \/ Fails(d, s) THEN [d EXCEPT !.ok = FALSE] ELSE Effect(d, s)
Run(d, stmts) ==
    LET After[i \in 0 .. Len(stmts)] ==  \* the set has the one evaluated before the next
            IF i = 0 THEN d ELSE Only({Apply(e, stmts[i]) : e \in {After[i - 1]}})
    IN  After[Len(stmts)]

\* db.exec of several statements: one that fails is passed over.
Exec(d, s) == IF Fails(d, s) THEN d ELSE Effect(d, s)

-----------------------------------------------------------------------------
(* The base script and the migrations.                                     *)

LogIndexes == {"idx_log_request", "idx_log_session", "idx_log_agent", "idx_log_created"}
ChatIndexes == {"idx_chats_updated", "idx_chats_source"}
FtsTriggers(f) == {f \o "_ai", f \o "_ad", f \o "_au"}

BaseTables ==
    << Table("layer1_focus", {}), Table("layer2_context", {}), Table("layer3_archive", {}),
       Table("layer4_log", {"role0"}), Objects("layer4_log", LogIndexes),
       Table("shared_memory", {}),
       Table("agent_memory", {}), Objects("agent_memory", {"idx_agent_mem"}),
       Table("code_tools", {}) >>

BaseMirrors ==
    << Mirror("layer2_context"),
       Objects("layer2_context", FtsTriggers("fts_context")),
       Mirror("layer3_archive"),
       Objects("layer3_archive", FtsTriggers("fts_archive")),
       Mirror("shared_memory"),
       Objects("shared_memory", FtsTriggers("fts_shared")) >>

BaseRest ==
    << Table("vec_embeddings", {}),
       Table("metrics_log", {}), Objects("metrics_log", {"idx_metrics_ts"}),
       Table("chats", {"source+telegram"}), Objects("chats", ChatIndexes),
       Table("chat_messages", {}), Objects("chat_messages", {"idx_chatmsg_chat"}) >>

Base == BaseTables \o BaseMirrors \o BaseRest

Migration1 ==
    << Table("chats_new", {"source+telegram"}), Copy("chats", "chats_new"), Drop("chats"),
       Rename("chats_new", "chats"), Objects("chats", ChatIndexes), Version(1) >>
Migration2 == << Table("tg_excluded_chats", {}), Version(2) >>

\* Mutant of RebuildLog: the indexes of the dropped table are not made again.
RebuildLogBare(roles) ==
    << Table("layer4_log_new", {roles}), Copy("layer4_log", "layer4_log_new"),
       Drop("layer4_log"), Rename("layer4_log_new", "layer4_log") >>

RebuildLog(roles) ==
    << Table("layer4_log_new", {roles}), Copy("layer4_log", "layer4_log_new"),
       Drop("layer4_log"), Rename("layer4_log_new", "layer4_log"),
       Objects("layer4_log", LogIndexes) >>

Migration3 == RebuildLog("role3") \o << Version(3) >>
Migration4 ==
    << Table("tg_messages", {}), Objects("tg_messages", {"idx_tgmsg_ts", "idx_tgmsg_chat"}),
       Mirror("tg_messages"),
       Objects("tg_messages", {"fts_tgmsg_ai", "fts_tgmsg_ad"}), Version(4) >>
Migration5 ==
    << Column("chats", {"kind"}), Objects("chats", {"idx_chats_kind"}),
       Table("freelance_leads", {}),
       Objects("freelance_leads", {"idx_fl_status", "idx_fl_created"}), Version(5) >>
Migration6 ==
    << Table("tasks", {}), Objects("tasks", {"idx_tasks_active"}),
       Table("scheduler_state", {}), Version(6) >>
Migration7 == RebuildLog("role7") \o << Version(7) >>
Migration8 ==
    << Column("shared_memory", {"confidence", "status"}),
       Objects("shared_memory", {"shared_status_check_ins", "shared_status_check_upd"}),
       Column("layer2_context", {"confidence", "status"}),
       Objects("layer2_context", {"context_status_check_ins", "context_status_check_upd"}),
       Objects("shared_memory", {"idx_shared_status"}),
       Objects("layer2_context", {"idx_memory_status"}), Version(8) >>
Migration9 ==
    << Column("shared_memory", {"expires_at", "superseded_by"}),
       Objects("shared_memory", {"idx_shared_active", "shared_supersede_self"}),
       Column("layer2_context", {"expires_at", "superseded_by"}),
       Objects("layer2_context", {"idx_context_active", "context_supersede_self"}),
       Version(9) >>

\* The three layers that migrations 10 and 13 give the same columns.
OnLayers(cs, ix) ==
    << ColumnOnce("shared_memory", cs), ColumnOnce("layer2_context", cs),
       ColumnOnce("layer3_archive", cs), Objects("shared_memory", {"idx_shared_" \o ix}),
       Objects("layer2_context", {"idx_context_" \o ix}),
       Objects("layer3_archive", {"idx_archive_" \o ix}) >>

Migration10 == OnLayers({"last_accessed_at", "access_count"}, "access") \o << Version(10) >>
Migration11 ==
    << Mirror("layer4_log"), Objects("layer4_log", FtsTriggers("fts_log")),
       Fill("layer4_log", "fts_log"), Version(11) >>
Migration12 ==
    << ColumnOnce("shared_memory", {"kind"}),
       Objects("shared_memory",
               {"trg_shared_kind_check", "trg_shared_kind_check_upd", "idx_shared_kind"}),
       Version(12) >>
Migration13 == OnLayers({"salience", "last_decayed_at"}, "salience") \o << Version(13) >>
Migration14 ==
    << Table("memory_edges", {}),
       Objects("memory_edges", {"idx_edges_src", "idx_edges_dst", "idx_edges_kind"}),
       Fill("layer2_context", "memory_edges"), Version(14) >>
ArchiveColumns == {"last_accessed_at", "access_count", "salience", "last_decayed_at"}
Migration15Body ==
    << Table("layer3_archive_new", ArchiveColumns),
       Copy("layer3_archive", "layer3_archive_new"), Drop("layer3_archive"),
       Rename("layer3_archive_new", "layer3_archive"),
       Objects("layer3_archive", {"idx_archive_access", "idx_archive_salience"}),
       Objects("layer3_archive", FtsTriggers("fts_archive")) >>
\* Mutants of Migration15: it forgets its version, or the mirror.
Migration15Again == Migration15Body \o << Rebuild("layer3_archive") >>
Migration15Blind == Migration15Body \o << Version(15) >>

Migration15 == Migration15Body \o << Rebuild("layer3_archive"), Version(15) >>
Migration16 == << Table("layer1_focus_shadow", {}), Version(16) >>
Migration17 ==
    << ColumnOnce("shared_memory", {"valid_from", "valid_to", "observed_at"}),
       ColumnOnce("layer2_context", {"valid_from", "valid_to", "observed_at"}), Version(17) >>
Migration18 ==
    << Table("memory_blocks", {}),
       Objects("memory_blocks", {"idx_blocks_role", "idx_blocks_label"}), Version(18) >>
Migration19 ==
    << Table("agent_tasks", {}),
       Objects("agent_tasks", {"idx_agent_tasks_pending", "idx_agent_tasks_running",
                               "idx_agent_tasks_distribution"}), Version(19) >>
Migration20 ==
    << Table("arbitration_transcripts", {}),
       Objects("arbitration_transcripts", {"idx_arbtrans_room", "idx_arbtrans_part",
                                           "idx_arbtrans_turn", "idx_arbtrans_created"}),
       Version(20) >>
Migration21 ==
    << Table("approvals", {}),
       Objects("approvals", {"idx_approvals_unique_pending", "idx_approvals_status",
                             "idx_approvals_requested_at"}), Version(21) >>

Migration22 ==
    << Table("tg_chat_policies", {}),
       Objects("tg_chat_policies", {"idx_tg_chat_policies_policy"}), Version(22) >>

Migrations ==
    << Migration1, Migration2, Migration3, Migration4, Migration5, Migration6, Migration7,
       Migration8, Migration9, Migration10, Migration11, Migration12, Migration13,
       Migration14, Migration15, Migration16, Migration17, Migration18, Migration19,
       Migration20, Migration21, Migration22 >>
Newest == Len(Migrations)

\* What migrate() makes of a file that did not exist, up to migration n.
FreshDb[n \in 0 .. Newest] ==
    IF n = 0 THEN Run(EmptyDb, Base)
    ELSE Only({Run(d, Migrations[n]) : d \in {FreshDb[n - 1]}})
HeadDb == FreshDb[Newest]

-----------------------------------------------------------------------------
(* The files an upgrade may start from.                                    *)

LegacyRows(v, t) ==
    CASE t = "layer4_log" /\ v >= 7 -> RoleClasses
      [] t = "layer4_log" /\ v >= 3 /\ v < 7 -> {"role0", "role3"}
      [] t = "layer4_log" /\ v < 3 -> {"role0"}
      [] t = "layer3_archive" /\ v < 15 -> {"HIGH", "LOW", "NULL"}
      [] t = "layer3_archive" /\ v >= 15 -> {"0.9", "0.4", "0.2", "NULL"}
      [] OTHER -> {"row"}

\* A file in use since it was at version v.  Before migration 1 the source
\* of a chat could not be telegram.
LegacyDb(v) ==
    LET d == FreshDb[v]
        full == [d EXCEPT !.rows = [t \in DOMAIN @ |-> LegacyRows(v, t)],
                          !.fts = [t \in DOMAIN @ |-> LegacyRows(v, t)]]
    IN  IF v = 0 THEN [full EXCEPT !.tab["chats"] = {}] ELSE full

Off == [pc |-> "off", ver |-> 0, at |-> 1, i |-> 1]

SchemaInit ==
    /\ \/ \E v \in Starts : start = v /\ db = LegacyDb(v)
       \/ start = 0 /\ db = EmptyDb
    /\ legacy = db.rows
    /\ proc = [p \in Procs |-> Off]
    /\ ran = start /\ behind = {} /\ again = {} /\ kills = 0

-----------------------------------------------------------------------------
(* migrate(), step by step.                                                *)

\* new MemoryDB(path): the server whenever it is down, a script once.
OpenDatabase(p) ==
    /\ proc[p].pc \in (IF p = Server THEN {"off", "failed"} ELSE {"off"})
    /\ p = Server \/ start \in Overlaps
    /\ proc' = [proc EXCEPT ![p] = [Off EXCEPT !.pc = "base"]]
    /\ UNCHANGED <<db, start, legacy, ran, behind, again, kills>>

\* One statement of the base script, and those after it that find what they
\* make.
BaseStep(p) ==
    /\ proc[p].pc = "base"
    /\ \E d \in {Exec(db, Base[proc[p].i])} :
        \E todo \in {{n \in proc[p].i + 1 .. Len(Base) : Exec(d, Base[n]) # d}} :
            /\ db' = d
            /\ proc' = [proc EXCEPT ![p] = IF todo = {} THEN [@ EXCEPT !.pc = "version"]
                                           ELSE [@ EXCEPT !.i = Min(todo)]]
    /\ UNCHANGED <<start, legacy, ran, behind, again, kills>>

ReadVersion(p) ==
    /\ proc[p].pc = "version"
    /\ proc' = [proc EXCEPT ![p] = [pc |-> "migrate", ver |-> db.ver, at |-> db.ver + 1, i |-> 1]]
    /\ behind' = IF db.ver < ran THEN behind ELSE behind \ {p}
    /\ UNCHANGED <<db, start, legacy, ran, again, kills>>

\* Those after which a repetition leaves another file: migrations that add
\* a column unless they fail, or make a table anew.
OnlyOnce == 1 .. 9 \cup {15}

\* What process p does in migration n leaves the others behind that have
\* read the version; and whoever reads one that it has set back.
Migrates(p, n) ==
    /\ ran' = IF n > ran THEN n ELSE ran
    /\ behind' = IF p \in behind /\ n < ran THEN Procs
                 ELSE behind \cup {q \in Procs \ {p} : proc[q].pc = "migrate"}
    /\ again' = IF p \in behind /\ n <= ran THEN again \cup (OnlyOnce \cap {n}) ELSE again

\* Migrations 1 and 2, one statement.
ExecStep(p) ==
    LET n == proc[p].at IN
    /\ proc[p].pc = "migrate" /\ n <= 2
    /\ db' = Exec(db, Migrations[n][proc[p].i])
    /\ proc' = [proc EXCEPT ![p] = IF @.i = Len(Migrations[n])
                                   THEN [@ EXCEPT !.at = @ + 1, !.i = 1]
                                   ELSE [@ EXCEPT !.i = @ + 1]]
    /\ Migrates(p, n)
    /\ UNCHANGED <<start, legacy, kills>>

\* Mutant of Transact: each statement is committed on its own.
TransactStepwise(p) ==
    LET n == proc[p].at
        s == Migrations[n][proc[p].i] IN
    /\ proc[p].pc = "migrate" /\ n > 2 /\ n <= Newest
    /\ IF Fails(db, s)
       THEN db' = db /\ proc' = [proc EXCEPT ![p].pc = "failed"]
       ELSE /\ db' = Effect(db, s)
            /\ proc' = [proc EXCEPT ![p] = IF @.i = Len(Migrations[n])
                                           THEN [@ EXCEPT !.at = @ + 1, !.i = 1]
                                           ELSE [@ EXCEPT !.i = @ + 1]]
    /\ UNCHANGED <<start, legacy, ran, behind, again, kills>>

\* Migrations 3 to 22: one transaction, which the constructor lets fail.
Transact(p) ==
    LET n == proc[p].at
        e == Run(db, Migrations[n]) IN
    /\ proc[p].pc = "migrate" /\ n > 2 /\ n <= Newest
    /\ IF e.ok THEN db' = e /\ proc' = [proc EXCEPT ![p].at = @ + 1] /\ Migrates(p, n)
               ELSE /\ proc' = [proc EXCEPT ![p].pc = "failed"]
                    /\ UNCHANGED <<db, ran, behind, again>>
    /\ UNCHANGED <<start, legacy, kills>>

Opened(p) ==
    /\ proc[p].pc = "migrate" /\ proc[p].at > Newest
    /\ proc' = [proc EXCEPT ![p].pc = "ready"]
    /\ UNCHANGED <<db, start, legacy, ran, behind, again, kills>>

\* A kill, or the SQLITE_BUSY of a process that meets the write of another.
Crash(p) ==
    /\ kills < MaxKills
    /\ proc[p].pc \notin {"off", "failed"}
    /\ proc' = [proc EXCEPT ![p] = IF p = Server THEN Off ELSE [Off EXCEPT !.pc = "failed"]]
    /\ kills' = kills + 1
    /\ UNCHANGED <<db, start, legacy, ran, behind, again>>

MigrateStep(p) == BaseStep(p) \/ ReadVersion(p) \/ ExecStep(p) \/ Transact(p) \/ Opened(p)

SchemaNext == \E p \in Procs : OpenDatabase(p) \/ MigrateStep(p) \/ Crash(p)

SchemaFairness == WF_schemaVars(OpenDatabase(Server) \/ MigrateStep(Server))

SchemaSpec == SchemaInit /\ [][SchemaNext]_schemaVars /\ SchemaFairness

-----------------------------------------------------------------------------
(* Properties.                                                             *)

Ready == proc[Server].pc = "ready"

\* The server starts on the schema a fresh file would have: same tables,
\* columns, triggers and indexes (a rebuild of a table drops the triggers
\* and indexes earlier scripts put on it).
LikeFresh == /\ db.tab = HeadDb.tab /\ db.obj = HeadDb.obj
             /\ DOMAIN db.fts = DOMAIN HeadDb.fts

\* The rows of the first file are there, the archive with its confidences
\* converted once, or all lost where two processes ran migration 15.  The
\* messages of the chats of a version-0 file are the exception: migration 1
\* drops chats with foreign keys on, and the drop cascades.
Kept(t) ==
    CASE t = "layer3_archive" /\ 15 \in again -> {"NULL"}
      [] t = "layer3_archive" /\ 15 \notin again /\ start < 15 -> {Converted(t, r) : r \in legacy[t]}
      [] OTHER -> legacy[t]
RowsSurvive ==
    \A t \in DOMAIN legacy \ (IF start = 0 THEN {"chat_messages"} ELSE {}) : Kept(t) \subseteq db.rows[t]

\* Full-text search finds every row of every mirrored table: rebuilding
\* the archive did not leave its mirror on the old rowids.  Only a log
\* older than its mirror is not searchable.
SearchFindsAll ==
    \A t \in DOMAIN db.fts \ (IF start < 11 THEN {"layer4_log"} ELSE {}) : db.fts[t] = db.rows[t]

\* Two processes that read the same old version both migrate.  Up to 9 that
\* may set user_version back below columns that are there.
SetBack == again \cap 1 .. 9 # {}

\* When the server has opened a file of any version, through any kills and
\* beside a script that opened it too, every row is there (but for what
\* migration 15 does to the archive when two processes run it), and unless
\* one of the migrations up to 9 was repeated the schema is that of a fresh
\* file and full-text search finds every row.
UpgradeIsWhole ==
    Ready => RowsSurvive /\ (~SetBack => LikeFresh /\ SearchFindsAll)

=============================================================================
