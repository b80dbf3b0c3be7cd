------------------------------ MODULE AgentLoop ------------------------------
(***************************************************************************)
(* One run of the autonomous agent (agent/src/pipeline/agent-loop/ and     *)
(* context-compressor.ts): the loop over model requests and tool calls,    *)
(* the compression of its transcript and the rows written at its end, for  *)
(* both the collecting loop (run.ts) and the streaming one (stream.ts).    *)
(*                                                                         *)
(* A message is its role, the step that pushed it and a number; what the   *)
(* model and the tools say is abstracted to the branch the code takes.     *)
(***************************************************************************)
EXTENDS Integers, SequencesExt

CONSTANTS
    MaxSteps,    \* steps of the run
    MaxCalls,    \* tool calls in one answer of the model
    KeepRecent   \* KEEP_RECENT_MESSAGES

ASSUME AgentAssumption ==
    MaxSteps \in Nat \ {0} /\ MaxCalls \in Nat \ {0} /\ KeepRecent \in Nat \ {0}

Message(role, t, k) == [role |-> role, step |-> t, n |-> k]

SystemPrompt == Message("system", 0, 0)
Task == Message("user", 0, 0)
Summary(t) == Message("system", t, 0)
BudgetNote(t) == Message("user", t, 1)
Nudge(t) == Message("user", t, 0)
Assistant(t, calls) == Message("assistant", t, calls)
ToolResult(t, i) == Message("tool", t, i)

VARIABLES
    mode,       \* "run" or "stream"
    stage,         \* where the loop is
    step,       \* the current step
    over,       \* the transcript is longer than SOFT_LIMIT tokens
    messages,   \* the transcript sent to the model
    turn,       \* calls of the answer in work: how many, which is done, next
    late,       \* calls whose handler runs on after its timeout
    lastSaid,   \* the step of lastContent, 0 when there is none
    stopped,    \* stoppedReason, "thrown" when the loop threw
    chatKnown,  \* the session already has a chat
    rows,       \* rows written by finalizeAgentRun
    recordedAnswer,  \* the answer in them: what it is and the step it is from
    history,    \* history: every message the steps pushed for good
    covered     \* history: how many of them the summary stands for

loopVars == <<mode, stage, step, over, messages, turn, late, lastSaid, stopped, chatKnown, rows,
          recordedAnswer, history, covered>>

\* The rows of the run and the history of its transcript.
recorded == <<chatKnown, rows, recordedAnswer>>

Stages == {"ready", "compressing", "asking", "tools", "running", "finishing", "ended"}
Reasons == {"none", "done", "error", "max_steps", "thrown"}
AnswerKinds == {"none", "summary", "error", "content", "default"}
NoTurn == [calls |-> 0, done |-> 0, next |-> 0]

-----------------------------------------------------------------------------
(* compressContext.                                                         *)

\* Mutant: only the system messages are kept in front.
HeadWithoutTask(s) ==
    LET others == {i \in DOMAIN s : s[i].role # "system"}
    IN IF others = {} THEN Len(s) ELSE Min(others) - 1

\* Length of the head: leading system messages and the first other message.
HeadEnd(s) ==
    LET others == {i \in DOMAIN s : s[i].role # "system"}
    IN IF others = {} THEN Len(s) ELSE Min(others)

\* Mutant: a tool result may start the tail.
HasToolCalls(m) == m.role = "assistant" /\ m.n > 0

\* A tail must not start with such a message.
CannotStartTail(m) == m.role = "tool" \/ (m.role = "assistant" /\ m.n > 0)

\* Index of the first message of the tail: the first admissible one of the
\* recent messages, else the last user message, else none.
TailStart(s) ==
    LET recent == Max({HeadEnd(s), Len(s) - KeepRecent}) + 1 .. Len(s)
        starts == {i \in recent : ~CannotStartTail(s[i])}
        users == {i \in HeadEnd(s) + 1 .. Len(s) : s[i].role = "user"}
    IN IF starts # {} THEN Min(starts)
       ELSE IF users # {} THEN Max(users) ELSE Len(s) + 1

KeptHead(s) == SubSeq(s, 1, HeadEnd(s))
Middle(s) == SubSeq(s, HeadEnd(s) + 1, TailStart(s) - 1)
KeptTail(s) == SubSeq(s, TailStart(s), Len(s))

\* The messages of steps, as opposed to summaries of them, in a sequence.
FromSteps(s) == {i \in DOMAIN s : s[i].role # "system"}

-----------------------------------------------------------------------------
(* executeStep: compression, budget note, the request to the model.         *)

HasStepsLeft == step < MaxSteps

\* The budget note is the last message of the request.
Ask ==
    /\ messages' = Append(messages, BudgetNote(step'))
    /\ stage' = "asking"

\* maybeCompress asks the compressor if the transcript is too long and has a
\* middle; a transcript stays too long until it is compressed.
StartStep ==
    /\ stage = "ready" /\ HasStepsLeft
    /\ step' = step + 1
    /\ over' \in IF over THEN {TRUE} ELSE BOOLEAN
    /\ IF over' /\ Middle(messages) # <<>>
       THEN stage' = "compressing" /\ UNCHANGED messages
       ELSE Ask
    /\ UNCHANGED <<mode, turn, late, lastSaid, stopped, recorded, history, covered>>

\* The compressor returned a summary, which replaces the middle.
Compressed ==
    /\ stage = "compressing"
    /\ messages' = KeptHead(messages) \o <<Summary(step)>> \o KeptTail(messages)
                       \o <<BudgetNote(step)>>
    /\ stage' = "asking"
    /\ over' \in BOOLEAN
    /\ covered' = covered + Cardinality(FromSteps(Middle(messages)))
    /\ UNCHANGED <<mode, step, turn, late, lastSaid, stopped, recorded, history>>

\* The compressor's call failed or its summary is unusable.
KeptOriginal ==
    /\ stage = "compressing"
    /\ step' = step
    /\ Ask
    /\ UNCHANGED <<mode, over, turn, late, lastSaid, stopped, recorded, history, covered>>

\* The finally block takes the budget note off again.
WithoutNote == Front(messages)

\* The messages that the step adds for good.
Push(msgs) ==
    /\ messages' = WithoutNote \o msgs
    /\ history' = history \o msgs

\* The request throws; the loop does not catch it, nothing is recorded.
RequestThrows ==
    /\ stage = "asking"
    /\ Push(<<>>)
    /\ stopped' = "thrown" /\ stage' = "ended"
    /\ UNCHANGED <<mode, step, over, turn, late, lastSaid, recorded, covered>>

\* The response has no choices.
NoChoice ==
    /\ stage = "asking"
    /\ Push(<<>>)
    /\ stopped' = "error" /\ stage' = "finishing"
    /\ UNCHANGED <<mode, step, over, turn, late, lastSaid, recorded, covered>>

\* The model calls tools; d is the first call of done or done_with_artifact,
\* 0 if there is none.
CallsTools(calls, d) ==
    /\ stage = "asking"
    /\ Push(<<Assistant(step, calls)>>)
    /\ turn' = [calls |-> calls, done |-> d, next |-> 1]
    /\ stage' = "tools"
    /\ UNCHANGED <<mode, step, over, late, lastSaid, stopped, recorded, covered>>

\* lastContent: the latest content of the run.
NowSaid == step

\* The model says something visible and is told to go on.
SaysContent ==
    /\ stage = "asking"
    /\ Push(<<Assistant(step, 0), Nudge(step)>>)
    /\ lastSaid' = NowSaid
    /\ stage' = "ready"
    /\ UNCHANGED <<mode, step, over, turn, late, stopped, recorded, covered>>

SaysNothing ==
    /\ stage = "asking"
    /\ Push(<<Nudge(step)>>)
    /\ stage' = "ready"
    /\ UNCHANGED <<mode, step, over, turn, late, lastSaid, stopped, recorded, covered>>

-----------------------------------------------------------------------------
(* runToolCall and executeAgentTool.                                        *)

\* Mutant: done only counts when it is the last call.
IsDoneIfLast(i) == i = turn.done /\ i = turn.calls

\* Done is told by the tool's name, whatever became of the call.
IsDone(i) == i = turn.done

\* The result of the call in work is pushed; done ends the run at once.
Answer ==
    /\ messages' = Append(messages, ToolResult(step, turn.next))
    /\ history' = Append(history, ToolResult(step, turn.next))
    /\ IF IsDone(turn.next)
       THEN stage' = "finishing" /\ stopped' = "done" /\ UNCHANGED turn
       ELSE IF turn.next = turn.calls
       THEN stage' = "ready" /\ turn' = NoTurn /\ UNCHANGED stopped
       ELSE stage' = "tools" /\ turn' = [turn EXCEPT !.next = @ + 1] /\ UNCHANGED stopped

\* Invalid arguments, or a denial by a hook: no handler starts.
CallRefused ==
    /\ stage = "tools"
    /\ Answer
    /\ UNCHANGED <<mode, step, over, late, lastSaid, recorded, covered>>

HandlerStarts ==
    /\ stage = "tools"
    /\ stage' = "running"
    /\ UNCHANGED <<mode, step, over, messages, turn, late, lastSaid, stopped, recorded, history, covered>>

\* The handler returns or throws before its timeout.
HandlerEnds ==
    /\ stage = "running"
    /\ Answer
    /\ UNCHANGED <<mode, step, over, late, lastSaid, recorded, covered>>

\* Mutant: there is no timer.
NeverTimesOut == FALSE

\* The timer wins the race: the handler is aborted, which it may ignore.
TimesOut ==
    /\ stage = "running"
    /\ Answer
    /\ late' = late \cup {<<step, turn.next>>}
    /\ UNCHANGED <<mode, step, over, lastSaid, recorded, covered>>

\* A handler that was given up ends; its result is dropped.
LateHandlerEnds(c) ==
    /\ c \in late
    /\ late' = late \ {c}
    /\ UNCHANGED <<mode, stage, step, over, messages, turn, lastSaid, stopped, recorded, history, covered>>

-----------------------------------------------------------------------------
(* The end of the run: runLoop, runStreamLoop, finalizeAgentRun.            *)

LoopEnds ==
    /\ stage = "ready" /\ ~HasStepsLeft
    /\ stopped' = "max_steps" /\ stage' = "finishing"
    /\ UNCHANGED <<mode, step, over, messages, turn, late, lastSaid, recorded, history, covered>>

\* finalAnswer of runLoop and summary of runStreamLoop, which tells nothing
\* of an error.
FinalAnswer ==
    IF stopped = "done" THEN [kind |-> "summary", step |-> step]
    ELSE IF stopped = "error" /\ mode = "run" THEN [kind |-> "error", step |-> step]
    ELSE IF lastSaid # 0 THEN [kind |-> "content", step |-> lastSaid]
    ELSE [kind |-> "default", step |-> 0]

\* Raw log and chat rows in the order they are written; an empty answer is
\* not added to the chat.
AllRows(empty) ==
    <<"task logged", "answer logged">>
        \o (IF chatKnown THEN <<>> ELSE <<"chat created", "task in chat">>)
        \o (IF empty THEN <<>> ELSE <<"answer in chat">>)

\* finalizeAgentRun; the write after the first k may fail, and that throws.
\* Only the summary of a done call can be empty.
Finalise(empty, k) ==
    /\ stage = "finishing"
    /\ empty => stopped = "done"
    /\ k \in 0..Len(AllRows(empty))
    /\ recordedAnswer' = FinalAnswer
    /\ rows' = SubSeq(AllRows(empty), 1, k)
    /\ stopped' = IF k = Len(AllRows(empty)) THEN stopped ELSE "thrown"
    /\ stage' = "ended"
    /\ UNCHANGED <<mode, step, over, messages, turn, late, lastSaid, chatKnown, history, covered>>

-----------------------------------------------------------------------------
LoopInit ==
    /\ mode \in {"run", "stream"}
    /\ stage = "ready"
    /\ step = 0
    /\ over \in BOOLEAN
    /\ messages = <<SystemPrompt, Task>>
    /\ turn = NoTurn
    /\ late = {}
    /\ lastSaid = 0
    /\ stopped = "none"
    /\ chatKnown \in BOOLEAN
    /\ rows = <<>>
    /\ recordedAnswer = [kind |-> "none", step |-> 0]
    /\ history = <<>>
    /\ covered = 0

\* What the loop itself waits for: requests end by the timeouts of the http
\* client, tool calls by their timer.
LoopProgress ==
    \/ StartStep \/ LoopEnds
    \/ Compressed \/ KeptOriginal
    \/ RequestThrows \/ NoChoice \/ SaysContent \/ SaysNothing
    \/ \E calls \in 1..MaxCalls : \E d \in 0..calls : CallsTools(calls, d)
    \/ CallRefused \/ HandlerStarts \/ TimesOut
    \/ \E empty \in BOOLEAN, k \in 0..5 : Finalise(empty, k)

LoopNext ==
    \/ LoopProgress
    \/ HandlerEnds
    \/ \E c \in late : LateHandlerEnds(c)

\* Nothing is assumed of handlers: they may hang.
LoopFairness == WF_loopVars(LoopProgress)

LoopSpec == LoopInit /\ [][LoopNext]_loopVars /\ LoopFairness

-----------------------------------------------------------------------------
(* Properties.                                                              *)

LoopTypeOK ==
    /\ mode \in {"run", "stream"}
    /\ stage \in Stages
    /\ step \in 0..MaxSteps
    /\ over \in BOOLEAN /\ chatKnown \in BOOLEAN
    /\ \A s \in {messages, history} :
          \A i \in DOMAIN s :
              s[i] \in [role : {"system", "user", "assistant", "tool"},
                       step : 0..MaxSteps, n : 0..MaxCalls]
    /\ turn \in [calls : 0..MaxCalls, done : 0..MaxCalls, next : 0..MaxCalls]
    /\ late \subseteq (1..MaxSteps) \X (1..MaxCalls)
    /\ lastSaid \in 0..step
    /\ stopped \in Reasons
    /\ recordedAnswer \in [kind : AnswerKinds, step : 0..MaxSteps]
    /\ covered \in 0..Len(history)

\* Position i of a sequence answers a tool call of the same step before it.
AnswersACall(s, i) ==
    LET a == i - s[i].n
    IN a \in DOMAIN s /\ s[a].role = "assistant" /\ s[a].step = s[i].step /\ s[a].n >= s[i].n

RequestIsWellFormed ==
    stage = "asking" =>
        \A i \in DOMAIN messages :
            /\ messages[i].role = "assistant" =>
                  \A k \in 1..messages[i].n :
                      /\ i + k \in DOMAIN messages
                      /\ messages[i + k] = ToolResult(messages[i].step, k)
            /\ messages[i].role = "tool" => AnswersACall(messages, i)
            /\ messages[i] = BudgetNote(messages[i].step) <=> i = Len(messages)

\* However often it is compressed, the transcript is the system prompt and the
\* task, at most one summary, and then verbatim every message of the run that
\* the summary does not stand for; and no request holds what providers reject:
\* every tool call is followed by its results in order, every result answers a
\* call, and the only budget note is the last message.
TranscriptIsWhole ==
    /\ LET note == IF stage = "asking" THEN <<BudgetNote(step)>> ELSE <<>>
           rest == SubSeq(history, covered + 1, Len(history)) \o note
       IN IF covered = 0
          THEN messages = <<SystemPrompt, Task>> \o rest
          ELSE \E t \in 2..step : messages = <<SystemPrompt, Task, Summary(t)>> \o rest
    /\ RequestIsWellFormed

\* When a call of done has been answered, the run is over: no handler is
\* started and no request is made after it, also not for further calls of the
\* same answer.
DoneEndsTheRun ==
    [][turn.done # 0 /\ ToolResult(step, turn.done) \in Range(history) =>
           stage' \notin {"asking", "tools", "running"}]_loopVars

\* A run that has begun ends, also when a tool never returns.
RunEnds == (step > 0) ~> (stage = "ended")

=============================================================================
