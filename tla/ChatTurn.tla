------------------------------ MODULE ChatTurn ------------------------------
(***************************************************************************)
(* The requests of one chat, from the question to the stored answer.       *)
(*                                                                         *)
(* ChatService (agent/src/services/chat) stores the question, hydrates the *)
(* history and hands the request to the agent pipeline or, in direct mode, *)
(* to the router.  A streamed answer flows through the pipeline's stream   *)
(* (agent-pipeline/phases/stream.ts), which captures it for the raw log    *)
(* and mixes keep-alive comments in, and through the wrapper sse-wrap.ts,  *)
(* which collects it for chat_messages.  Both parse the same bytes: the    *)
(* wrapper line by line, the raw log network chunk by network chunk.       *)
(*                                                                         *)
(* An answer is a sequence of deltas, one per SSE line.  A line arrives in *)
(* one network chunk or in two.  Requests bring their question only; one   *)
(* that brings its history is not hydrated and behaves the same otherwise. *)
(* Reasoning, tools and hippocampus extraction are left out.               *)
(***************************************************************************)
EXTENDS Integers, Sequences

CONSTANTS
    Requests,       \* requests of the chat
    Deltas,         \* deltas of a complete answer
    MaxDeletes,     \* bound on deletions of the chat
    MaxKeepalives,  \* bound on the keep-alive comments of a stream
    MaxRestarts     \* bound on restarts of the process

ASSUME ChatAssumption ==
    /\ Deltas \in Nat \ {0}
    /\ MaxDeletes \in Nat /\ MaxKeepalives \in Nat /\ MaxRestarts \in Nat

VARIABLES
    rows,       \* chat_messages of the chat, in id order
    epoch,      \* creations and deletions of the row in chats; odd: it exists
    log,        \* layer4_log: the exchanges of user and assistant
    turn,       \* the state of each request
    restarts

vars == <<rows, epoch, log, turn, restarts>>

Text == SUBSET (1..Deltas)

Row == [role : {"user", "assistant"}, req : Requests, text : Text]

Exchange == [req : Requests, text : Text]

Keepalive == [kind |-> "keepalive", delta |-> 0]

Piece == [kind : {"whole", "head", "tail"}, delta : 1..Deltas] \cup {Keepalive}

Turn == [pc : {"new", "pre", "model", "closed", "done"},
         client : {"none", "open", "left", "ended", "error"},
         stream : BOOLEAN,      \* the client asked for a stream
         direct : BOOLEAN,      \* past the pipeline, straight to the router
         worded : BOOLEAN,      \* the question has a text
         born : Nat,            \* epoch of the question
         asked : Nat,           \* rows hydrated into the request, 0 if none
         out : Seq(Piece),      \* what was sent towards the client
         posting : BOOLEAN]     \* runPostFromStream has yet to write the log

NoTurn == [pc |-> "new", client |-> "none", stream |-> FALSE, direct |-> FALSE,
           worded |-> FALSE, born |-> 0, asked |-> 0, out |-> <<>>, posting |-> FALSE]

-----------------------------------------------------------------------------
(* Reading a stream.                                                        *)

\* Lines put together over chunk borders, as every SSE client does.
\* What comes between the halves of a line spoils it.
Assembled(s) ==
    {n \in 1..Deltas :
        \/ \E i \in 1..Len(s) : s[i] = [kind |-> "whole", delta |-> n]
        \/ \E i \in 1..(Len(s) - 1) :
              /\ s[i] = [kind |-> "head", delta |-> n]
              /\ s[i + 1] = [kind |-> "tail", delta |-> n]}

\* Mutant: the wrapper parses each network chunk by itself.
CollectedPerChunk(s) == {n \in 1..Deltas : \E i \in 1..Len(s) : s[i] = [kind |-> "whole", delta |-> n]}

\* fullContent of the wrapper.
Collected(s) == Assembled(s)

\* Chunk by chunk, as runPostFromStream does: half a line is no JSON, and
\* nothing carries it over, so the raw log lacks what the network has cut.
PerChunk(s) == {n \in 1..Deltas : \E i \in 1..Len(s) : s[i] = [kind |-> "whole", delta |-> n]}

\* The chunks of the model; keep-alive comments are not captured.
Captured(s) == SelectSeq(s, LAMBDA p : p # Keepalive)

Latest(s) == Captured(s)[Len(Captured(s))]

MidLine(s) == Captured(s) # <<>> /\ Latest(s).kind = "head"

\* Deltas whose line has begun.
Begun(s) == IF Captured(s) = <<>> THEN 0 ELSE Latest(s).delta

\* What may arrive next: the rest of a line, or a line or its first half.
Chunks(s) ==
    {p \in Piece : \/ MidLine(s) /\ p = [kind |-> "tail", delta |-> Begun(s)]
                   \/ ~MidLine(s) /\ p.kind \in {"whole", "head"} /\ p.delta = Begun(s) + 1}

Keepalives(s) == Len(s) - Len(Captured(s))

WholeAnswer == [n \in 1..Deltas |-> [kind |-> "whole", delta |-> n]]

-----------------------------------------------------------------------------
(* The question.                                                            *)

ChatExists == epoch % 2 = 1

Question(r) == [role |-> "user", req |-> r, text |-> {}]

\* The stored messages without their text.
Shown(s) == [i \in 1..Len(s) |-> [role |-> s[i].role, req |-> s[i].req]]

Reply(r, text) == [role |-> "assistant", req |-> r, text |-> text]

\* persistUser: a message without text is not stored.
Persisted(r, worded) == IF worded THEN Append(rows, Question(r)) ELSE rows

EpochAfter(worded) == IF worded /\ ~ChatExists THEN epoch + 1 ELSE epoch

\* maybeHydrate: the stored chat replaces a request that knows less of it.
Hydrated(r, worded) ==
    LET stored == Len(Persisted(r, worded)) IN IF stored > 1 THEN stored ELSE 0

\* handle up to its first await.
Post(r, stream, direct, worded) ==
    /\ turn[r].pc = "new"
    /\ rows' = Persisted(r, worded)
    /\ epoch' = EpochAfter(worded)
    /\ turn' = [turn EXCEPT ![r] =
                  [NoTurn EXCEPT !.pc = "pre", !.client = "open", !.stream = stream,
                                 !.direct = direct, !.worded = worded,
                                 !.born = EpochAfter(worded), !.asked = Hydrated(r, worded)]]
    /\ UNCHANGED <<log, restarts>>

\* Compression, or the pre phase of a request without a stream, throws.
PrepareFails(r) ==
    /\ turn[r].pc = "pre" /\ turn[r].client = "open"
    /\ turn' = [turn EXCEPT ![r].pc = "done", ![r].client = "error"]
    /\ UNCHANGED <<rows, epoch, log, restarts>>

\* The pre phase of a stream throws: the client reads of it in an error chunk.
PreFails(r) ==
    /\ turn[r].pc = "pre" /\ turn[r].client = "open"
    /\ turn[r].stream /\ ~turn[r].direct
    /\ turn' = [turn EXCEPT ![r].pc = "closed"]
    /\ UNCHANGED <<rows, epoch, log, restarts>>

\* The progress message to a client that has left throws, and so does the
\* error chunk: the model is not asked.
EmitFails(r) ==
    /\ turn[r].pc = "pre" /\ turn[r].client = "left" /\ ~turn[r].direct
    /\ turn' = [turn EXCEPT ![r].pc = "done"]
    /\ UNCHANGED <<rows, epoch, log, restarts>>

\* The client may have left after the progress message, while hooks ran.
AskModel(r) ==
    /\ turn[r].pc = "pre"
    /\ turn' = [turn EXCEPT ![r].pc = "model"]
    /\ UNCHANGED <<rows, epoch, log, restarts>>

-----------------------------------------------------------------------------
(* A streamed answer.                                                       *)

Streaming(r) == turn[r].pc = "model" /\ turn[r].stream

Chunk(r) ==
    /\ Streaming(r) /\ turn[r].client = "open"
    /\ \E piece \in Chunks(turn[r].out) :
          turn' = [turn EXCEPT ![r].out = Append(@, piece)]
    /\ UNCHANGED <<rows, epoch, log, restarts>>

\* The timer of the pipeline's stream fires between two chunks.  Between two
\* lines a comment changes nothing; modelled is the one inside a line.
SendKeepalive(r) ==
    /\ Streaming(r) /\ ~turn[r].direct /\ turn[r].client = "open"
    /\ MidLine(turn[r].out)
    /\ Keepalives(turn[r].out) < MaxKeepalives
    /\ turn' = [turn EXCEPT ![r].out = Append(@, Keepalive)]
    /\ UNCHANGED <<rows, epoch, log, restarts>>

\* enqueue throws on the stream that the wrapper has cancelled.
ChunkAfterLeaving(r) ==
    /\ Streaming(r) /\ turn[r].client = "left"
    /\ turn' = [turn EXCEPT ![r].pc = "done", ![r].out = <<>>]
    /\ UNCHANGED <<rows, epoch, log, restarts>>

\* runPostFromStream is called at the end of every stream of the pipeline.
Posted(r) == ~turn[r].direct

\* The model's stream ends, complete or with an error frame.
StreamEnds(r) ==
    /\ Streaming(r)
    /\ turn' = [turn EXCEPT ![r].pc = IF turn[r].client = "left" THEN "done" ELSE "closed",
                            ![r].posting = Posted(r)]
    /\ UNCHANGED <<rows, epoch, log, restarts>>

\* runPostFromStream goes on beside the end of the stream; it writes the two
\* rows of the exchange, unless it found no content.
LogAnswer(r) ==
    /\ turn[r].posting
    /\ LET text == PerChunk(turn[r].out)
       IN log' = IF text = {} THEN log ELSE Append(log, [req |-> r, text |-> text])
    /\ turn' = [turn EXCEPT ![r].posting = FALSE,
                            ![r].out = IF turn[r].client = "left" THEN <<>> ELSE @]
    /\ UNCHANGED <<rows, epoch, restarts>>

\* Mutant: the wrapper does not remember that it was cancelled.
ClientLeavesUnmarked(r) ==
    /\ turn[r].stream /\ turn[r].client = "open"
    /\ turn' = [turn EXCEPT ![r].client = "left"]
    /\ UNCHANGED <<rows, epoch, log, restarts>>

\* The client closes the connection; the wrapper marks itself closed and
\* cancels what it reads.
ClientLeaves(r) ==
    /\ turn[r].stream /\ turn[r].client = "open"
    /\ turn' = [turn EXCEPT ![r].client = "left",
                            ![r].pc = IF @ = "closed" THEN "done" ELSE @]
    /\ UNCHANGED <<rows, epoch, log, restarts>>

-----------------------------------------------------------------------------
(* The answer is stored.                                                    *)

\* appendChatMessage needs the row of the chat: without it the insert throws,
\* and the request ends with an error after the client has read the answer.
Store(r, out) ==
    LET text == Collected(out)
        kept == text = {} \/ ChatExists
    IN /\ rows' = IF text # {} /\ kept THEN Append(rows, Reply(r, text)) ELSE rows
       /\ turn' = [turn EXCEPT ![r].pc = "done", ![r].out = out,
                               ![r].client = IF kept THEN "ended" ELSE "error"]
       /\ UNCHANGED <<epoch, log, restarts>>

\* The wrapper reads the end of the stream; runPipeline gets its result.
SaveAnswer(r) ==
    /\ turn[r].pc = "closed"
    /\ Store(r, turn[r].out)

SyncAnswers == {<<>>, WholeAnswer}

Answering(r) == turn[r].pc = "model" /\ ~turn[r].stream

\* execute logs the exchange, then awaits the extraction before it returns.
PipelineAnswers(r) ==
    /\ Answering(r) /\ ~turn[r].direct
    /\ \E out \in SyncAnswers :
          /\ turn' = [turn EXCEPT ![r].pc = "closed", ![r].out = out]
          /\ log' = Append(log, [req |-> r, text |-> Assembled(out)])
    /\ UNCHANGED <<rows, epoch, restarts>>

DirectAnswers(r) ==
    /\ Answering(r) /\ turn[r].direct
    /\ \E out \in SyncAnswers : Store(r, out)

\* The provider's error becomes the response.
ModelFails(r) ==
    /\ Answering(r)
    /\ turn' = [turn EXCEPT ![r].pc = "done", ![r].client = "error"]
    /\ UNCHANGED <<rows, epoch, log, restarts>>

-----------------------------------------------------------------------------
(* The chat is deleted; the process restarts.                               *)

\* DELETE /v1/chats/:id cascades to the messages.
DeleteChat ==
    /\ ChatExists /\ epoch < 2 * MaxDeletes
    /\ rows' = <<>>
    /\ epoch' = epoch + 1
    /\ UNCHANGED <<log, turn, restarts>>

Restart ==
    /\ restarts < MaxRestarts
    /\ restarts' = restarts + 1
    /\ turn' = [r \in Requests |->
                  IF turn[r].pc = "new" THEN turn[r]
                  ELSE [turn[r] EXCEPT !.pc = "done", !.posting = FALSE,
                                       !.out = IF turn[r].client = "ended" THEN @ ELSE <<>>,
                                       !.client = IF @ = "open" THEN "error" ELSE @]]
    /\ UNCHANGED <<rows, epoch, log>>

Init ==
    /\ rows = <<>>
    /\ epoch = 0
    /\ log = <<>>
    /\ turn = [r \in Requests |-> NoTurn]
    /\ restarts = 0

\* What the process does for a request once it has come.
Step(r) ==
    \/ PrepareFails(r) \/ PreFails(r) \/ EmitFails(r) \/ AskModel(r)
    \/ Chunk(r) \/ ChunkAfterLeaving(r) \/ StreamEnds(r) \/ LogAnswer(r) \/ SaveAnswer(r)
    \/ PipelineAnswers(r) \/ DirectAnswers(r) \/ ModelFails(r)

Next ==
    \/ \E r \in Requests :
          \/ \E stream, direct, worded \in BOOLEAN : Post(r, stream, direct, worded)
          \/ Step(r)
          \/ SendKeepalive(r)
          \/ ClientLeaves(r)
    \/ DeleteChat
    \/ Restart

\* Model calls are bounded by the router's timeouts, so a request that runs
\* goes on.
Fairness == \A r \in Requests : WF_vars(Step(r))

Spec == Init /\ [][Next]_vars /\ Fairness

-----------------------------------------------------------------------------
(* Properties.                                                              *)

TypeOK ==
    /\ rows \in Seq(Row)
    /\ epoch \in 0..(2 * MaxDeletes + 1)
    /\ log \in Seq(Exchange)
    /\ turn \in [Requests -> Turn]
    /\ restarts \in 0..MaxRestarts
    /\ ~ChatExists => rows = <<>>

Replies(r) == {i \in 1..Len(rows) : rows[i].role = "assistant" /\ rows[i].req = r}

\* The model answers the question it was asked: a hydrated history ends with
\* the question of its own request, whatever other requests of the chat do.
QuestionIsLast ==
    \A r \in Requests :
        turn[r].asked > 0 /\ turn[r].worded /\ turn[r].born = epoch
            => turn[r].asked \in 1..Len(rows) /\ rows[turn[r].asked] = Question(r)

\* Hydration gives the model the chat as a reader would see it: an answer
\* comes after its question, unless the chat was deleted between them.
AnswerFollowsQuestion ==
    \A r \in Requests : \A i \in Replies(r) :
        turn[r].worded /\ turn[r].born = epoch
            => \E j \in 1..(i - 1) : rows[j] = Question(r)

\* Who reloads the chat sees what he has read: a stored answer is what the
\* client put together from its stream, and each answer read to its end is
\* stored, or was deleted with its chat.
ReadIsSaved ==
    \A r \in Requests :
        /\ \A i \in Replies(r) :
              turn[r].client = "ended" /\ rows[i].text = Assembled(turn[r].out)
        /\ turn[r].client = "ended" /\ Assembled(turn[r].out) # {}
           /\ turn[r].worded /\ turn[r].born = epoch
              => Replies(r) # {}

\* The chat implements the abstract transcript: one answer per request, in one
\* step, never after the client has left, and no request stays open.
Phase(r) ==
    IF turn[r].pc = "new" THEN "new"
    ELSE IF turn[r].client = "open" THEN "open"
    ELSE IF turn[r].client = "ended" /\ Collected(turn[r].out) # {} THEN "answered"
    ELSE "closed"

Transcript == INSTANCE ChatTranscript
    WITH transcript <- Shown(rows),
         phase <- [r \in Requests |-> Phase(r)]

ImplementsTranscript == Transcript!TSpec

=============================================================================
