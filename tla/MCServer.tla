------------------------------ MODULE MCServer ------------------------------
(***************************************************************************)
(* What the server keeps in its files, what befalls them, and the calls it *)
(* answers: the database may be of any version when the server opens it,   *)
(* beside scripts that open it too, statements of the approval handlers    *)
(* may fail, tools of agents are recorded when nobody waits for them any   *)
(* more, the whole file is backed up, killed over and restored, and agents *)
(* and clients call tools by name, over lines that drop.  They touch no    *)
(* common row, so every behaviour here moves only the one it has picked.   *)
(***************************************************************************)
EXTENDS ApprovalFlow, SchemaMigration, ToolBox, ServerLife, ToolCalls

VARIABLE picked

\* Every version a file may have been left at.
AllVersions == 0 .. Newest

\* Consultations of the specialists and of the chaos advisor.
MCQuota == [specialists |-> 2, chaos |-> 1]

\* One name of each kind of tool; a scheduled run may remember tools that
\* make tools, and give what it makes the name of another such tool.
MCTried == {"tg_send_message", "tg_read_chat", "create_tool", "create_code_tool", "edit_code_tool",
            "delete_code_tool", "code_overdue_reminder", "done_with_artifact", "memory_search"}
MCRemembered == {"create_tool", "edit_code_tool"}
MCPrompts == {"create_code_tool", "done"}
MCScripts == {"code_overdue_reminder"}

serverVars == <<vars, schemaVars, toolVars, lifeVars, callVars, picked>>

MCInit == /\ Init /\ SchemaInit /\ ToolInit /\ LifeInit /\ CallsInit
          /\ picked \in {"approvals", "schema", "tools", "life", "calls", "lines"}
          \* What was not picked keeps one of its initial states.
          /\ picked = "schema" \/ start = Newest
          /\ picked = "approvals" \/ operator
          /\ picked = "life" \/ backupTick = "due"
          /\ picked \in {"calls", "lines"} \/ bot
          /\ picked = "calls" \/ \A n \in Scripts : scripts[n] = "on"

\* Lines and streams drop beside calls that read Telegram, the rest changes
\* beside the others.
ReadsTelegram(c) == calls'[c].name \in UserbotTools \/ calls'[c] = NoToolCall
ReadsNothing(c) == calls'[c].name \notin UserbotTools

MCNext == /\ UNCHANGED picked
          /\ \/ picked = "approvals" /\ Next /\ UNCHANGED <<schemaVars, toolVars, lifeVars, callVars>>
             \/ picked = "schema" /\ SchemaNext /\ UNCHANGED <<vars, toolVars, lifeVars, callVars>>
             \/ picked = "tools" /\ ToolNext /\ UNCHANGED <<vars, schemaVars, lifeVars, callVars>>
             \/ picked = "life" /\ LifeNext /\ UNCHANGED <<vars, schemaVars, toolVars, callVars>>
             \/ /\ picked = "calls" /\ CallsNext /\ \A c \in Callers : ReadsNothing(c)
                /\ UNCHANGED <<vars, schemaVars, toolVars, lifeVars, userbot, streams>>
             \/ /\ picked = "lines" /\ CallsNext /\ \A c \in Callers : ReadsTelegram(c)
                /\ UNCHANGED <<vars, schemaVars, toolVars, lifeVars, directive, prompted, scripts, terminated>>

\* However often it is killed on the way, the server gets to serve a file of
\* any version, beside scripts that open it too, unless two processes that
\* read the same old version set it back (core/src/db/schema.ts).
BootSucceeds == picked = "schema" => []<>Ready \/ <>SetBack

MCSpec == /\ MCInit
          /\ [][MCNext]_serverVars
          /\ WF_schemaVars(picked = "schema" /\ (OpenDatabase(Server) \/ MigrateStep(Server)))
=============================================================================
