----------------------------- MODULE ToolCalls -----------------------------
(***************************************************************************)
(* From the name of a tool to its answer: the registry (agent/src/mcp/     *)
(* registry), the plugins that look at a call before it runs (agent/       *)
(* plugins-internal), the three places a name may be found in (agent-loop/ *)
(* tool-runner.ts) and the callers: agent runs of both modes, and clients  *)
(* of MCP and REST (server/src/mcp-transport), who pass no plugin.         *)
(*                                                                         *)
(* Code tools go by the name they are called by, code_<name>.  What a      *)
(* handler does beside sending, reading Telegram and storing tools is in   *)
(* the modules of the stores; what it does after a timeout is in AgentLoop *)
(* and ToolBox; the rows of the approval gate are in ApprovalFlow.         *)
(***************************************************************************)
EXTENDS Naturals

CONSTANTS
    People,      \* agent runs a person has started
    Crons,       \* agent runs of the schedulers: agentMode "scheduled"
    Clients,     \* clients of MCP and REST
    Tried,       \* names that are called
    Remembered,  \* names that a model calls without being offered them
    Prompts,     \* names a dynamic tool may be created under
    Scripts,     \* names code tools are called by
    AllowsMaking,  \* SCHEDULED_ALLOW_CODE_TOOL_CREATE
    PollerOn,      \* whether the Telegram poller reads through the userbot
    GatesFail,     \* whether the lookups of the gates may throw
    MaxCalls,      \* bound on calls
    MaxStreams     \* bound on the streams a client opens

ASSUME ToolCallsAssumption ==
    /\ People \cap Crons = {} /\ (People \cup Crons) \cap Clients = {}
    /\ Remembered \subseteq Tried
    /\ {AllowsMaking, PollerOn, GatesFail} \subseteq BOOLEAN
    /\ {MaxCalls, MaxStreams} \subseteq Nat

VARIABLES
    bot,         \* whether the Telegram bot is configured (setBotNotify)
    userbot,     \* set on the executor; connState.connected; client.connected;
                 \* the poller reconnects; reconnects of calls given up;
                 \* whether the last one that ended failed
    directive,   \* focus no_repetitive_tg_spam: none, fresh or stale
    prompted,    \* names of dynamic tools
    scripts,     \* code tool -> none, on or off
    terminated,  \* the flag of done_with_artifact, one for the process
    offers,      \* agent -> the tools its model was told of, of those tried
    calls,       \* caller -> its last call
    streams,     \* client -> the SSE stream it opened last
    made         \* calls so far

callVars == <<bot, userbot, directive, prompted, scripts, terminated, offers, calls, streams, made>>

AgentRun == People \cup Crons
Callers == AgentRun \cup Clients

-----------------------------------------------------------------------------
(* The registry: what each file registers.                                 *)

MemoryTools == {"memory_read", "memory_write", "memory_delete", "memory_search", "context_summary"}
CurationTools == {"memory_log_search", "memory_link", "memory_supersede", "memory_promote",
                  "memory_reflect"}
EmbedTools == {"embed_text", "embed_search", "rerank"}
LogTools == {"log_append", "log_read", "compress_history"}
RagTools == {"rag_search"}
UserbotTools == {"tg_list_chats", "tg_read_chat", "tg_search_messages"}
ChatListTools == {"tg_exclude_chat", "tg_include_chat", "tg_list_excluded", "telegram_search"}
PolicyTools == {"tg_set_chat_policy"}
SendTools == {"tg_send_message", "tg_send_report"}
WebTools == {"web_navigate", "web_snapshot", "web_click", "web_type", "web_back",
             "web_press_key", "web_scroll", "web_screenshot"}
MetaTools == {"think", "done", "consult_specialists", "consult_chaos", "create_tool", "list_tools"}
CodeTools == {"create_code_tool", "edit_code_tool", "delete_code_tool", "test_code_tool",
              "list_code_tools"}
TaskTools == {"task_add", "task_list", "task_update", "task_start", "task_done", "task_cancel"}
ArtifactTools == {"done_with_artifact"}

\* scope "public"
PublicTools ==
    MemoryTools \cup EmbedTools \cup LogTools \cup RagTools \cup UserbotTools
      \cup ChatListTools \cup SendTools \cup {"report_context"} \cup WebTools

\* scope "agent-only"
AgentTools ==
    CurationTools \cup PolicyTools \cup MetaTools \cup CodeTools \cup TaskTools \cup ArtifactTools

Registered == PublicTools \cup AgentTools

\* No registered name begins with code_.
ASSUME ScriptsAssumption == Scripts \cap Registered = {}

\* SCHEDULED_HIDDEN_TOOLS
MakingTools == {"create_tool", "create_code_tool", "edit_code_tool"}

\* STATEFUL_CLIENT_CODE_TOOLS, and the names they are called by.
Stateful == {"overdue_reminder", "silent_projects_check", "critical_clients_monitor",
             "client_followup_check"}
StatefulCalls == {"code_overdue_reminder", "code_silent_projects_check",
                  "code_critical_clients_monitor", "code_client_followup_check"}

\* RESERVED_NAMES: fewer than the registry has.
ReservedNames == {"memory_search", "memory_write", "rag_search", "think", "done",
                  "consult_specialists", "create_tool", "list_tools"}

-----------------------------------------------------------------------------
(* What an agent is offered.                                               *)

\* Mutant: the mode is not looked at.
ListForAnyone(a) == Registered
ListForAgent(a) == IF a \in Crons /\ ~AllowsMaking THEN Registered \ MakingTools ELSE Registered

\* Mutant: the prefix is forgotten, as the plugin does.
ListedByBareName(a) == {n \in Scripts : scripts[n] = "on" /\ ~(a \in Crons /\ n \in Stateful)}
ListedScripts(a) == {n \in Scripts : scripts[n] = "on" /\ ~(a \in Crons /\ n \in StatefulCalls)}

OfferedTo(a) == ListForAgent(a) \cup prompted \cup ListedScripts(a)

IdleCall(c) == calls[c].at = "idle"

\* The list is made anew for each request to the model.
AsksModel(a) ==
    /\ IdleCall(a)
    /\ offers' = [offers EXCEPT ![a] = OfferedTo(a) \cap Tried]
    /\ UNCHANGED <<bot, userbot, directive, prompted, scripts, terminated, calls, streams, made>>

-----------------------------------------------------------------------------
(* A call of an agent.  executeAgentTool asks the plugins one after        *)
(* another, with an await between them.                                    *)

Called(n, at) ==
    [name |-> n, at |-> at, kind |-> "none", told |-> "nothing", via |-> 0, reply |-> "none",
     barred |-> FALSE, threw |-> FALSE, asked |-> FALSE, sent |-> FALSE]
NoToolCall == Called("nothing", "idle")

Moves(c, call) == calls' = [calls EXCEPT ![c] = call]
OnlyMoves(c, call) ==
    /\ Moves(c, call)
    /\ UNCHANGED <<bot, userbot, directive, prompted, scripts, terminated, offers, streams, made>>

Refused(c) == OnlyMoves(c, [calls[c] EXCEPT !.at = "idle", !.told = "refused"])

AgentCalls(a, n, parses) ==
    /\ IdleCall(a) /\ n \in offers[a] \cup Remembered
    /\ made < MaxCalls /\ made' = made + 1
    /\ IF parses
       THEN Moves(a, [Called(n, "guards") EXCEPT !.barred = directive = "fresh"])
       ELSE Moves(a, [Called(n, "idle") EXCEPT !.told = "failed"])
    /\ UNCHANGED <<bot, userbot, directive, prompted, scripts, terminated, offers, streams>>

\* Code that may not run in the sandbox, or that two of the patterns for
\* hardcoded facts match; one is only logged.
Offends(forbidden, matched) == forbidden \/ matched >= 2

\* code-tool-guards; an edit may leave the code alone.
GuardHook(a, forbidden, matched) ==
    /\ calls[a].at = "guards"
    /\ IF calls[a].name \in {"create_code_tool", "edit_code_tool"} /\ Offends(forbidden, matched)
       THEN Refused(a)
       ELSE OnlyMoves(a, [calls[a] EXCEPT !.at = "gate"])

\* Mutant: an old directive and none at all are the same, and so is a new one.
BarsNothing(a) == FALSE
Bars(a) == calls[a].name = "tg_send_message" /\ a \in Crons /\ directive = "fresh"

\* tg-gates; a lookup that throws is logged and the call goes on.
GateHook(a) ==
    /\ calls[a].at = "gate"
    /\ \/ Bars(a) /\ Refused(a)
       \/ ~Bars(a) /\ OnlyMoves(a, [calls[a] EXCEPT !.at = "blacklist"])
       \/ /\ GatesFail /\ a \in Crons /\ calls[a].name = "tg_send_message"
          /\ OnlyMoves(a, [calls[a] EXCEPT !.at = "blacklist", !.threw = TRUE])

\* scheduled-blacklist compares the name of the call, which has a prefix.
BlacklistHook(a) ==
    /\ calls[a].at = "blacklist"
    /\ IF a \in Crons /\ calls[a].name \in Stateful
       THEN Refused(a)
       ELSE OnlyMoves(a, [calls[a] EXCEPT !.at = "approval"])

\* The registry first, then the dynamic tools, then the code tools.
KindOf(n) ==
    IF n \in Registered THEN "registered"
    ELSE IF n \in prompted THEN "dynamic"
    ELSE IF n \in Scripts /\ scripts[n] = "on" THEN "code"
    ELSE "none"

\* approval-gate: the call may go on, waits for the operator, or has the
\* operator asked; the handler starts in the same step as the last plugin.
ApprovalHook(a) ==
    /\ calls[a].at = "approval"
    /\ \/ OnlyMoves(a, [calls[a] EXCEPT !.at = "running", !.kind = KindOf(calls[a].name)])
       \/ calls[a].name \in SendTools /\ Refused(a)
       \/ /\ calls[a].name \in SendTools
          /\ OnlyMoves(a, [calls[a] EXCEPT !.at = "idle", !.told = "refused", !.asked = TRUE])

-----------------------------------------------------------------------------
(* A call of a client.                                                     *)

\* Mutant: anybody's call runs.
RefusesNobody(n) == FALSE
NotForClients(n) == n \notin PublicTools

\* Without a stream of its own, which is looked up before the call is
\* awaited, a client is answered in the body.
OpenStream(c) == IF streams[c].open THEN streams[c].id ELSE 0

CallsAsPublic(c, n, via) ==
    /\ IdleCall(c)
    /\ made < MaxCalls /\ made' = made + 1
    /\ Moves(c, [Called(n, "running") EXCEPT
                    !.kind = IF NotForClients(n) THEN "none" ELSE "registered", !.via = via])
    /\ UNCHANGED <<bot, userbot, directive, prompted, scripts, terminated, offers, streams>>

McpCalls(c, n) == CallsAsPublic(c, n, OpenStream(c))
RestCalls(c, n) == CallsAsPublic(c, n, 0)

\* Mutant: the stream of the moment is not the one that asked.
ReplyToLast(c) == IF calls[c].via # 0 /\ streams[c].id = calls[c].via THEN "lost" ELSE "body"

\* Into the stream, or nowhere when that is closed by now.
ReplyOf(c) ==
    IF calls[c].via = 0 THEN "body"
    ELSE IF streams[c].open /\ streams[c].id = calls[c].via THEN "stream" ELSE "lost"

StreamOpens(c) ==
    /\ ~streams[c].open /\ streams[c].id < MaxStreams
    /\ streams' = [streams EXCEPT ![c] = [id |-> @.id + 1, open |-> TRUE]]
    /\ UNCHANGED <<bot, userbot, directive, prompted, scripts, terminated, offers, calls, made>>

StreamCloses(c) ==
    /\ streams[c].open
    /\ streams' = [streams EXCEPT ![c] = [id |-> @.id, open |-> FALSE]]
    /\ UNCHANGED <<bot, userbot, directive, prompted, scripts, terminated, offers, calls, made>>

-----------------------------------------------------------------------------
(* Handlers.                                                               *)

Answered(c, told) ==
    [calls[c] EXCEPT !.at = "idle", !.told = told,
                     !.reply = IF c \in Clients THEN ReplyOf(c) ELSE "none"]

Runs(c, names) == /\ calls[c].at = "running" /\ calls[c].kind = "registered"
                  /\ calls[c].name \in names

\* Unknown, disabled, or not for this caller.
FindsNothing(c) ==
    /\ calls[c].at = "running" /\ calls[c].kind = "none"
    /\ OnlyMoves(c, Answered(c, "failed"))

\* Mutant: what the bot API throws is logged and forgotten.
ToldAnyway(delivered, threw) == "ok"

\* notifyOrThrow: without a bot, and when the API throws, the call fails;
\* what throws may have been delivered all the same.
ToldOf(delivered, threw) == IF threw THEN "failed" ELSE "ok"

SendEnds(c, delivered, threw) ==
    /\ Runs(c, SendTools)
    /\ (~bot => ~delivered) /\ (~delivered => threw)
    /\ OnlyMoves(c, [Answered(c, ToldOf(delivered, threw)) EXCEPT !.sent = delivered])

\* connect() at the start, then setUserbot; the executor never gets one
\* whose first connect() failed.
UserbotConnects ==
    /\ ~userbot.there
    /\ userbot' = [userbot EXCEPT !.there = TRUE, !.flag = TRUE, !.line = TRUE]
    /\ UNCHANGED <<bot, directive, prompted, scripts, terminated, offers, calls, streams, made>>

LineDrops ==
    /\ userbot.line
    /\ userbot' = [userbot EXCEPT !.line = FALSE]
    /\ UNCHANGED <<bot, directive, prompted, scripts, terminated, offers, calls, streams, made>>

\* ensureConnected: nothing to do, or the flag is down until connect() is
\* through.
Alive == userbot.flag /\ userbot.line
Reconnecting == [userbot EXCEPT !.flag = FALSE]

\* Mutant: the flag stays down.
StaysDown(bots, up) == [bots EXCEPT !.line = @ \/ up, !.failed = ~up]
Reconnected(bots, up) ==
    [bots EXCEPT !.flag = @ \/ up, !.line = @ \/ up, !.failed = ~up]

\* requireUserbot asks for the flag before the userbot may try to reconnect;
\* what is read may fail on a good line, too.
ReadEnds(c, ok) ==
    /\ Runs(c, UserbotTools)
    /\ userbot.there /\ userbot.flag => userbot.line
    /\ ok => userbot.there /\ userbot.flag
    /\ OnlyMoves(c, Answered(c, IF ok THEN "ok" ELSE "failed"))

ReadReconnects(c) ==
    /\ Runs(c, UserbotTools) /\ userbot.there /\ userbot.flag /\ ~userbot.line
    /\ userbot' = Reconnecting
    /\ Moves(c, [calls[c] EXCEPT !.at = "connecting"])
    /\ UNCHANGED <<bot, directive, prompted, scripts, terminated, offers, streams, made>>

ReadReconnected(c, up, ok) ==
    /\ calls[c].at = "connecting" /\ (ok => up)
    /\ userbot' = Reconnected(userbot, up)
    /\ Moves(c, Answered(c, IF ok THEN "ok" ELSE "failed"))
    /\ UNCHANGED <<bot, directive, prompted, scripts, terminated, offers, streams, made>>

\* The reconnect of a call that was given up goes on.
LateReconnected(up) ==
    /\ userbot.late > 0
    /\ userbot' = Reconnected([userbot EXCEPT !.late = @ - 1], up)
    /\ UNCHANGED <<bot, directive, prompted, scripts, terminated, offers, calls, streams, made>>

\* The poller, which needs the bot, reads without asking for the flag.
PollerReads ==
    /\ PollerOn /\ bot /\ ~Alive /\ ~userbot.polls
    /\ userbot' = [Reconnecting EXCEPT !.polls = TRUE]
    /\ UNCHANGED <<bot, directive, prompted, scripts, terminated, offers, calls, streams, made>>

PollerReconnected(up) ==
    /\ userbot.polls
    /\ userbot' = Reconnected([userbot EXCEPT !.polls = FALSE], up)
    /\ UNCHANGED <<bot, directive, prompted, scripts, terminated, offers, calls, streams, made>>

CreateToolEnds(c, n) ==
    /\ Runs(c, {"create_tool"})
    /\ IF n \in ReservedNames
       THEN UNCHANGED prompted /\ Moves(c, Answered(c, "failed"))
       ELSE prompted' = prompted \cup {n} /\ Moves(c, Answered(c, "ok"))
    /\ UNCHANGED <<bot, userbot, directive, scripts, terminated, offers, streams, made>>

\* create needs a free name, edit and delete one that is there.
StoresScript(c, n) ==
    \/ Runs(c, {"create_code_tool"}) /\ scripts[n] = "none" /\ scripts' = [scripts EXCEPT ![n] = "on"]
    \/ Runs(c, {"edit_code_tool"}) /\ scripts[n] # "none" /\ scripts' = [scripts EXCEPT ![n] = "on"]
    \/ Runs(c, {"delete_code_tool"}) /\ scripts[n] # "none" /\ scripts' = [scripts EXCEPT ![n] = "none"]

StoreEnds(c, n) ==
    /\ StoresScript(c, n)
    /\ Moves(c, Answered(c, "ok"))
    /\ UNCHANGED <<bot, userbot, directive, prompted, terminated, offers, streams, made>>

\* A dynamic tool asks a model; a code tool may be disabled by its failure.
MadeToolEnds(c, ok, disables) ==
    /\ calls[c].at = "running" /\ calls[c].kind \in {"dynamic", "code"}
    /\ disables => ~ok /\ calls[c].kind = "code" /\ scripts[calls[c].name] = "on"
    /\ scripts' = IF disables THEN [scripts EXCEPT ![calls[c].name] = "off"] ELSE scripts
    /\ Moves(c, Answered(c, IF ok THEN "ok" ELSE "failed"))
    /\ UNCHANGED <<bot, userbot, directive, prompted, terminated, offers, streams, made>>

\* The run is over, whether or not the artifact was taken: once one was, no
\* other run of the process has its own taken.
DoneEnds(a, valid) ==
    /\ Runs(a, {"done", "done_with_artifact"})
    /\ LET taken == calls[a].name = "done" \/ (valid /\ ~terminated)
       IN  /\ terminated' = (terminated \/ (taken /\ calls[a].name # "done"))
           /\ Moves(a, Answered(a, IF taken THEN "ok" ELSE "failed"))
    /\ offers' = [offers EXCEPT ![a] = {}]
    /\ UNCHANGED <<bot, userbot, directive, prompted, scripts, streams, made>>

\* Every other handler, and those above when they reject what they are given.
OtherEnds(c, told) ==
    /\ Runs(c, Registered \ (SendTools \cup UserbotTools \cup {"done", "done_with_artifact"}))
    /\ told = "ok" => calls[c].name \notin MakingTools \cup {"delete_code_tool"}
    /\ OnlyMoves(c, Answered(c, told))

\* Only calls of agents are timed.
ToolTimesOut(a) ==
    /\ calls[a].at \in {"running", "connecting"}
    /\ userbot' = IF calls[a].at = "connecting" THEN [userbot EXCEPT !.late = @ + 1] ELSE userbot
    /\ Moves(a, [calls[a] EXCEPT !.at = "idle", !.told = "timeout"])
    /\ UNCHANGED <<bot, directive, prompted, scripts, terminated, offers, streams, made>>

-----------------------------------------------------------------------------
(* The directive: written by tools and the night, lifted, seven days old.  *)

\* History: a call is no longer barred when the directive went before the
\* gate looked.
Unbarred == [c \in Callers |->
               IF calls[c].at \in {"guards", "gate"} THEN [calls[c] EXCEPT !.barred = FALSE] ELSE calls[c]]

DirectiveIsSet ==
    /\ directive' = "fresh"
    /\ UNCHANGED <<bot, userbot, prompted, scripts, terminated, offers, calls, streams, made>>

DirectiveGoes(to) ==
    /\ directive = "fresh" \/ to = "none"
    /\ directive' = to /\ calls' = Unbarred
    /\ UNCHANGED <<bot, userbot, prompted, scripts, terminated, offers, streams, made>>

-----------------------------------------------------------------------------
\* The bot sends for tools from the start, if it is configured.
InitTelegramBot == bot \in BOOLEAN

\* The executor is given the userbot when that has connected.
InitUserbot == userbot = [there |-> FALSE, flag |-> FALSE, line |-> FALSE,
                          polls |-> FALSE, late |-> 0, failed |-> FALSE]

CallsInit ==
    /\ InitTelegramBot /\ InitUserbot
    /\ directive = "none" /\ prompted = {} /\ terminated = FALSE
    /\ scripts \in [Scripts -> {"none", "on"}]
    /\ offers = [a \in AgentRun |-> {}]
    /\ calls = [c \in Callers |-> NoToolCall]
    /\ streams = [c \in Clients |-> [id |-> 0, open |-> FALSE]]
    /\ made = 0

AgentRunStep(a) ==
    \/ \E forbidden \in BOOLEAN, matched \in 0 .. 2 : GuardHook(a, forbidden, matched)
    \/ AsksModel(a) \/ GateHook(a) \/ BlacklistHook(a) \/ ApprovalHook(a)
    \/ \E n \in Tried, parses \in BOOLEAN : AgentCalls(a, n, parses)
    \/ \E valid \in BOOLEAN : DoneEnds(a, valid)
    \/ ToolTimesOut(a)

ClientStep(c) ==
    \/ \E n \in Tried : McpCalls(c, n) \/ RestCalls(c, n)
    \/ StreamOpens(c) \/ StreamCloses(c)

HandlerEnds(c) ==
    \/ FindsNothing(c)
    \/ \E delivered, threw \in BOOLEAN : SendEnds(c, delivered, threw)
    \/ \E ok \in BOOLEAN : ReadEnds(c, ok)
    \/ ReadReconnects(c)
    \/ \E up, ok \in BOOLEAN : ReadReconnected(c, up, ok)
    \/ \E n \in Prompts : CreateToolEnds(c, n)
    \/ \E n \in Scripts : StoreEnds(c, n)
    \/ \E ok, disables \in BOOLEAN : MadeToolEnds(c, ok, disables)
    \/ \E told \in {"ok", "failed"} : OtherEnds(c, told)

CallsNext ==
    \/ \E a \in AgentRun : AgentRunStep(a)
    \/ \E c \in Clients : ClientStep(c)
    \/ \E c \in Callers : HandlerEnds(c)
    \/ UserbotConnects \/ LineDrops \/ PollerReads
    \/ \E up \in BOOLEAN : LateReconnected(up) \/ PollerReconnected(up)
    \/ DirectiveIsSet \/ \E to \in {"none", "stale"} : DirectiveGoes(to)

CallsSpec == CallsInit /\ [][CallsNext]_callVars

-----------------------------------------------------------------------------
(* Properties.                                                             *)

\* While a fresh directive against messages stands, from the call to the
\* gate, a scheduled run neither sends one nor has the operator asked about
\* it, unless the lookup of the gate threw (tg-gates, before approval-gate).
DirectiveIsKept ==
    \A a \in Crons :
        calls[a].name = "tg_send_message" /\ calls[a].barred /\ ~calls[a].threw
          => ~calls[a].sent /\ ~calls[a].asked

\* Who is told of a delivery had one; what was refused was not sent
\* (notifyOrThrow, tg_send_message).
DeliveryIsHonest ==
    \A c \in Callers : calls[c].name \in SendTools =>
        /\ calls[c].told = "ok" /\ calls[c].kind = "registered" => calls[c].sent
        /\ calls[c].told = "refused" => ~calls[c].sent

\* A client is answered in the body if it had no stream when it called, else
\* in that stream, and loses the answer only with that stream.
RepliesArrive ==
    \A c \in Clients :
        /\ calls[c].reply = "body" => calls[c].via = 0
        /\ calls[c].reply = "lost" => calls[c].via # 0 /\ calls[c].via # OpenStream(c)
        /\ calls[c].told # "nothing" => calls[c].reply # "none"

\* A scheduled run that calls what it is offered makes no tool and runs no
\* code tool of the list of stateful ones, unless a dynamic tool has the
\* name of a making one; clients run no tool of the agents.
RunsWhatIsMeantForIt ==
    /\ \A a \in Crons : calls[a].name \notin Remembered =>
          /\ calls[a].kind = "registered" /\ calls[a].name \in MakingTools
               => AllowsMaking \/ calls[a].name \in prompted
          /\ calls[a].kind = "code" => calls[a].name \notin StatefulCalls
    /\ \A c \in Clients : calls[c].kind = "registered" => calls[c].name \in PublicTools

\* A reading tool says "not connected" of a userbot that was connected once
\* only while somebody reconnects it or when the last try has failed
\* (requireUserbot, ensureConnected).
FlagIsTrue ==
    userbot.there /\ ~userbot.flag
      => \/ userbot.failed \/ userbot.polls \/ userbot.late > 0
         \/ \E c \in Callers : calls[c].at = "connecting"

\* What callers are told and get is what they asked for and what happened.
CallsAreHonest == DirectiveIsKept /\ DeliveryIsHonest /\ RepliesArrive
                   /\ RunsWhatIsMeantForIt /\ FlagIsTrue
=============================================================================
