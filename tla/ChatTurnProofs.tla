--------------------------- MODULE ChatTurnProofs ---------------------------
(***************************************************************************)
(* Proofs about ChatTurn, for all requests and bounds, and, below, about   *)
(* the editor that asks it.                                                *)
(*                                                                         *)
(* None of the properties of the chat is inductive alone: that an answer   *)
(* is stored once and as it was read needs to know in which stages of a    *)
(* request its client may still be there (Stages), and what a request      *)
(* knows of the chat is worth something only in the life of the chat that  *)
(* it was posted to (BornBefore).                                          *)
(***************************************************************************)
EXTENDS ChatTurn, EditorChat, FiniteSetTheorems, SequenceTheorems, WellFoundedInduction, TLAPS

\* The client of a request at each stage of it.
Stages ==
    \A r \in Requests :
        /\ turn[r].pc = "new" <=> turn[r].client = "none"
        /\ turn[r].pc = "closed" => turn[r].client = "open"
        /\ turn[r].client = "open" => turn[r].pc # "done"
        /\ turn[r].client \in {"ended", "error"} => turn[r].pc = "done"
        /\ turn[r].posting => turn[r].pc \in {"closed", "done"}
        /\ turn[r].client = "left" => turn[r].stream

\* Epochs only grow.
BornBefore == \A r \in Requests : turn[r].born <= epoch

\* In the life of the chat it was posted to, the question is there.
QuestionStored ==
    \A r \in Requests :
        turn[r].pc # "new" /\ turn[r].worded /\ turn[r].born = epoch
            => \E j \in 1..Len(rows) : rows[j] = Question(r)

BaseInv == TypeOK /\ Stages /\ BornBefore

ChatInv == QuestionStored /\ QuestionIsLast /\ AnswerFollowsQuestion /\ ReadIsSaved

IInv == BaseInv /\ ChatInv

\* An answer is stored, or there is none to store.
Stores(r) ==
    \E out \in Seq(Piece) : Store(r, out)

\* What leaves the chat alone, and what its properties say of each request.
Keeps ==
    /\ rows' = rows /\ epoch' = epoch
    /\ \A r \in Requests :
          /\ turn'[r].born = turn[r].born /\ turn'[r].asked = turn[r].asked
          /\ turn'[r].worded = turn[r].worded
          /\ turn'[r].pc = "new" <=> turn[r].pc = "new"
          /\ turn'[r].client = "ended" <=> turn[r].client = "ended"
          /\ turn[r].client = "ended" => turn'[r].out = turn[r].out

\* Steps inside a request, other than those that store its answer.
Inside(r) ==
    \/ PrepareFails(r) \/ PreFails(r) \/ EmitFails(r) \/ AskModel(r)
    \/ Chunk(r) \/ SendKeepalive(r) \/ ChunkAfterLeaving(r) \/ StreamEnds(r)
    \/ LogAnswer(r) \/ ClientLeaves(r) \/ PipelineAnswers(r) \/ ModelFails(r)

-----------------------------------------------------------------------------
LEMMA AnswersAreStreams == SyncAnswers \subseteq Seq(Piece)
<1>1. \A n \in 1..Deltas : [kind |-> "whole", delta |-> n] \in Piece
    BY DEF Piece
<1>2. WholeAnswer \in Seq(Piece)
    BY <1>1, ChatAssumption DEF WholeAnswer
<1> QED
    BY <1>2 DEF SyncAnswers

LEMMA TurnShape ==
    ASSUME TypeOK, NEW r \in Requests
    PROVE  /\ turn[r] \in Turn
           /\ turn[r].out \in Seq(Piece) /\ turn[r].born \in Nat /\ turn[r].asked \in Nat
           /\ turn[r].stream \in BOOLEAN /\ turn[r].direct \in BOOLEAN
           /\ turn[r].worded \in BOOLEAN /\ turn[r].posting \in BOOLEAN
<1>1. turn[r] \in Turn
    BY DEF TypeOK
<1> QED
    BY <1>1 DEF Turn

LEMMA AppendKeepsType ==
    ASSUME NEW S, NEW s \in Seq(S), NEW x \in S
    PROVE  Append(s, x) \in Seq(S)
OBVIOUS

LEMMA EmptyIsSeq ==
    ASSUME NEW S
    PROVE  <<>> \in Seq(S)
OBVIOUS

\* A step inside a request changes its turn only.
LEMMA InsideTurn ==
    ASSUME BaseInv, NEW r \in Requests, Inside(r)
    PROVE  /\ rows' = rows /\ epoch' = epoch /\ restarts' = restarts
           /\ turn' \in [Requests -> Turn]
           /\ \A q \in Requests : q # r => turn'[q] = turn[q]
           /\ turn'[r].born = turn[r].born /\ turn'[r].asked = turn[r].asked
           /\ turn'[r].worded = turn[r].worded
           /\ turn[r].pc # "new" /\ turn'[r].pc # "new"
           /\ turn'[r].client = "ended" <=> turn[r].client = "ended"
           /\ turn[r].client = "ended" => turn'[r].out = turn[r].out
           /\ turn'[r].client # "none"
           /\ turn'[r].pc = "closed" => turn'[r].client = "open"
           /\ turn'[r].client = "open" => turn'[r].pc # "done"
           /\ turn'[r].client \in {"ended", "error"} => turn'[r].pc = "done"
           /\ turn'[r].posting => turn'[r].pc \in {"closed", "done"}
           /\ turn'[r].client = "left" => turn'[r].stream
           /\ turn[r].client \in {"open", "left", "ended", "error"}
           /\ turn[r].client # "open" => turn'[r].client = turn[r].client
<1>t. /\ turn \in [Requests -> Turn] /\ turn[r] \in Turn
      /\ turn[r].out \in Seq(Piece)
      /\ turn[r].pc = "new" <=> turn[r].client = "none"
      /\ turn[r].pc = "closed" => turn[r].client = "open"
      /\ turn[r].client = "open" => turn[r].pc # "done"
      /\ turn[r].client \in {"ended", "error"} => turn[r].pc = "done"
      /\ turn[r].posting => turn[r].pc \in {"closed", "done"}
      /\ turn[r].client = "left" => turn[r].stream
    BY TurnShape DEF BaseInv, Stages, TypeOK
<1> USE DEF Turn
<1>1. CASE PrepareFails(r)
    BY <1>t, <1>1 DEF PrepareFails
<1>2. CASE PreFails(r)
    BY <1>t, <1>2 DEF PreFails
<1>3. CASE EmitFails(r)
    BY <1>t, <1>3 DEF EmitFails
<1>4. CASE AskModel(r)
    BY <1>t, <1>4 DEF AskModel
<1>5. CASE Chunk(r)
    <2>1. PICK piece \in Piece : turn' = [turn EXCEPT ![r].out = Append(@, piece)]
        BY <1>5 DEF Chunk, Chunks
    <2>2. PICK s \in Seq(Piece) : s = Append(turn[r].out, piece)
        BY <1>t, AppendKeepsType
    <2> QED
        BY <1>t, <1>5, <2>1, <2>2 DEF Chunk, Streaming
<1>6. CASE SendKeepalive(r)
    <2>1. PICK s \in Seq(Piece) : s = Append(turn[r].out, Keepalive)
        BY <1>t, AppendKeepsType DEF Piece
    <2> QED
        BY <1>t, <1>6, <2>1 DEF SendKeepalive, Streaming
<1>7. CASE ChunkAfterLeaving(r)
    <2>1. PICK s \in Seq(Piece) : s = <<>>
        BY EmptyIsSeq
    <2> QED
        BY <1>t, <1>7, <2>1 DEF ChunkAfterLeaving, Streaming
<1>8. CASE StreamEnds(r)
    BY <1>t, <1>8 DEF StreamEnds, Streaming, Posted
<1>9. CASE LogAnswer(r)
    <2>1. PICK s \in Seq(Piece) :
              s = IF turn[r].client = "left" THEN <<>> ELSE turn[r].out
        BY <1>t, EmptyIsSeq
    <2>2. /\ rows' = rows /\ epoch' = epoch /\ restarts' = restarts /\ turn[r].posting
          /\ turn' = [turn EXCEPT ![r].posting = FALSE, ![r].out = s]
        BY <1>t, <1>9, <2>1 DEF LogAnswer
    <2> QED
        BY <1>t, <2>1, <2>2
<1>10. CASE ClientLeaves(r)
    BY <1>t, <1>10 DEF ClientLeaves
<1>11. CASE PipelineAnswers(r)
    <2>1. PICK s \in Seq(Piece) :
              turn' = [turn EXCEPT ![r].pc = "closed", ![r].out = s]
        BY <1>11, AnswersAreStreams DEF PipelineAnswers
    <2>2. /\ rows' = rows /\ epoch' = epoch /\ restarts' = restarts
          /\ turn[r].pc = "model" /\ ~turn[r].stream
        BY <1>11 DEF PipelineAnswers, Answering
    <2> QED
        BY <1>t, <2>1, <2>2
<1>12. CASE ModelFails(r)
    BY <1>t, <1>12 DEF ModelFails, Answering
<1> QED
    BY <1>1, <1>2, <1>3, <1>4, <1>5, <1>6, <1>7, <1>8, <1>9, <1>10, <1>11, <1>12 DEF Inside

\* What SaveAnswer and DirectAnswers have in common.
LEMMA StoringSteps ==
    ASSUME BaseInv, NEW r \in Requests, SaveAnswer(r) \/ DirectAnswers(r)
    PROVE  /\ Stores(r)
           /\ turn[r].client = "open" /\ turn[r].pc # "new"
<1>t. /\ turn[r] \in Turn /\ turn[r].out \in Seq(Piece)
      /\ turn[r].pc = "new" <=> turn[r].client = "none"
      /\ turn[r].pc = "closed" => turn[r].client = "open"
      /\ turn[r].client \in {"ended", "error"} => turn[r].pc = "done"
      /\ turn[r].client = "left" => turn[r].stream
    BY TurnShape DEF BaseInv, Stages, TypeOK
<1>c. turn[r].client \in {"none", "open", "left", "ended", "error"}
    BY <1>t DEF Turn
<1>1. CASE SaveAnswer(r)
    BY <1>t, <1>1 DEF SaveAnswer, Stores
<1>2. CASE DirectAnswers(r)
    <2>1. Stores(r)
        BY <1>2, AnswersAreStreams DEF DirectAnswers, Stores
    <2> QED
        BY <1>t, <1>c, <1>2, <2>1 DEF DirectAnswers, Answering
<1> QED
    BY <1>1, <1>2

\* Every step is of one of these kinds.
LEMMA StepKinds ==
    ASSUME BaseInv, [Next]_vars
    PROVE  \/ \E r \in Requests : \E stream, direct, worded \in BOOLEAN :
                  Post(r, stream, direct, worded)
           \/ \E r \in Requests :
                  Stores(r) /\ turn[r].client = "open" /\ turn[r].pc # "new"
           \/ \E r \in Requests : Inside(r)
           \/ DeleteChat
           \/ Restart
           \/ UNCHANGED vars
<1>1. ASSUME NEW r \in Requests, Step(r)
      PROVE  SaveAnswer(r) \/ DirectAnswers(r) \/ Inside(r)
    BY <1>1 DEF Step, Inside
<1>2. ASSUME NEW r \in Requests, SendKeepalive(r) \/ ClientLeaves(r)
      PROVE  Inside(r)
    BY <1>2 DEF Inside
<1> QED
    BY <1>1, <1>2, StoringSteps DEF Next

-----------------------------------------------------------------------------
(* The types and the stages.                                                *)

LEMMA Parity ==
    ASSUME TypeOK
    PROVE  /\ epoch \in Nat
           /\ ~ChatExists => epoch + 1 \in 0..(2 * MaxDeletes + 1) /\ (epoch + 1) % 2 = 1
           /\ ChatExists => (epoch + 1) % 2 = 0
<1>1. epoch \in 0..(2 * MaxDeletes + 1) /\ MaxDeletes \in Nat
    BY ChatAssumption DEF TypeOK
<1> QED
    BY <1>1 DEF ChatExists

LEMMA RowTypes ==
    ASSUME NEW r \in Requests
    PROVE  /\ Question(r) \in Row
           /\ \A out \in Seq(Piece) : Reply(r, Collected(out)) \in Row
<1>1. Question(r) \in Row
    BY DEF Question, Row, Text
<1>2. ASSUME NEW out \in Seq(Piece)
      PROVE  Reply(r, Collected(out)) \in Row
    <2>1. Collected(out) \in Text
        BY DEF Collected, Assembled, Text
    <2> QED
        BY <2>1 DEF Reply, Row
<1> QED
    BY <1>1, <1>2

\* What Post, and a stored answer, do to the turn of their request.
LEMMA PostTurn ==
    ASSUME TypeOK, NEW r \in Requests, NEW stream \in BOOLEAN, NEW direct \in BOOLEAN,
           NEW worded \in BOOLEAN, Post(r, stream, direct, worded)
    PROVE  /\ turn[r].pc = "new"
           /\ turn' \in [Requests -> Turn]
           /\ \A q \in Requests : q # r => turn'[q] = turn[q]
           /\ turn'[r].pc = "pre" /\ turn'[r].client = "open" /\ ~turn'[r].posting
           /\ turn'[r].worded = worded /\ turn'[r].born = epoch'
           /\ turn'[r].asked = Hydrated(r, worded)
           /\ rows' = Persisted(r, worded) /\ epoch' = EpochAfter(worded)
           /\ log' = log /\ restarts' = restarts
<1>1. EpochAfter(worded) \in Nat /\ Hydrated(r, worded) \in Nat
    <2>1. Persisted(r, worded) \in Seq(Row)
        BY RowTypes, AppendKeepsType DEF TypeOK, Persisted
    <2> QED
        BY <2>1, Parity DEF EpochAfter, Hydrated
<1>2. turn \in [Requests -> Turn] /\ <<>> \in Seq(Piece)
    BY EmptyIsSeq DEF TypeOK
<1> QED
    BY <1>1, <1>2 DEF Post, NoTurn, Turn

LEMMA StoreTurn ==
    ASSUME TypeOK, NEW r \in Requests, NEW out \in Seq(Piece), Store(r, out)
    PROVE  /\ turn' \in [Requests -> Turn]
           /\ \A q \in Requests : q # r => turn'[q] = turn[q]
           /\ turn'[r].pc = "done" /\ turn'[r].out = out
           /\ turn'[r].client = IF Collected(out) = {} \/ ChatExists THEN "ended" ELSE "error"
           /\ turn'[r].worded = turn[r].worded /\ turn'[r].born = turn[r].born
           /\ turn'[r].asked = turn[r].asked
           /\ rows' = IF Collected(out) # {} /\ ChatExists
                         THEN Append(rows, Reply(r, Collected(out))) ELSE rows
           /\ epoch' = epoch /\ log' = log /\ restarts' = restarts
<1>1. turn \in [Requests -> Turn]
    BY DEF TypeOK
<1>2. PICK client \in {"ended", "error"} :
          client = IF Collected(out) = {} \/ ChatExists THEN "ended" ELSE "error"
    OBVIOUS
<1>3. turn' = [turn EXCEPT ![r].pc = "done", ![r].out = out, ![r].client = client]
    BY <1>2 DEF Store
<1>4. /\ rows' = IF Collected(out) # {} /\ ChatExists
                    THEN Append(rows, Reply(r, Collected(out))) ELSE rows
      /\ epoch' = epoch /\ log' = log /\ restarts' = restarts
    BY DEF Store
<1>5. /\ turn' \in [Requests -> Turn]
      /\ \A q \in Requests : q # r => turn'[q] = turn[q]
      /\ turn'[r].pc = "done" /\ turn'[r].out = out /\ turn'[r].client = client
      /\ turn'[r].worded = turn[r].worded /\ turn'[r].born = turn[r].born
      /\ turn'[r].asked = turn[r].asked
    <2>1. turn[r] \in Turn
        BY <1>1
    <2>2. /\ turn'[r] = [turn[r] EXCEPT !.pc = "done", !.out = out, !.client = client]
          /\ DOMAIN turn' = Requests
          /\ \A q \in Requests : q # r => turn'[q] = turn[q]
        BY <1>1, <1>3
    <2>3. /\ turn'[r] \in Turn
          /\ turn'[r].pc = "done" /\ turn'[r].out = out /\ turn'[r].client = client
          /\ turn'[r].worded = turn[r].worded /\ turn'[r].born = turn[r].born
          /\ turn'[r].asked = turn[r].asked
        BY <1>2, <2>1, <2>2 DEF Turn
    <2> QED
        BY <1>1, <1>3, <2>2, <2>3
<1> QED
    BY <1>2, <1>4, <1>5

LEMMA RestartTurn ==
    ASSUME BaseInv, Restart
    PROVE  /\ turn' \in [Requests -> Turn]
           /\ rows' = rows /\ epoch' = epoch /\ log' = log
           /\ restarts' \in 0..MaxRestarts
           /\ \A r \in Requests :
                 \/ turn[r].pc = "new" /\ turn'[r] = turn[r]
                 \/ /\ turn[r].pc # "new" /\ turn'[r].pc = "done" /\ ~turn'[r].posting
                    /\ turn'[r].client = IF turn[r].client = "open" THEN "error" ELSE turn[r].client
                    /\ turn[r].client = "ended" => turn'[r].out = turn[r].out
                    /\ turn'[r].worded = turn[r].worded /\ turn'[r].born = turn[r].born
                    /\ turn'[r].asked = turn[r].asked /\ turn'[r].stream = turn[r].stream
<1>1. /\ turn \in [Requests -> Turn] /\ restarts \in 0..MaxRestarts /\ MaxRestarts \in Nat
      /\ <<>> \in Seq(Piece)
    BY EmptyIsSeq, ChatAssumption DEF BaseInv, TypeOK
<1>2. /\ rows' = rows /\ epoch' = epoch /\ log' = log
      /\ restarts' \in 0..MaxRestarts
    <2>1. /\ restarts < MaxRestarts /\ restarts' = restarts + 1
          /\ rows' = rows /\ epoch' = epoch /\ log' = log
        BY DEF Restart
    <2> QED
        BY <1>1, <2>1
<1>3. ASSUME NEW r \in Requests
      PROVE  /\ turn'[r] \in Turn
             /\ \/ turn[r].pc = "new" /\ turn'[r] = turn[r]
                \/ /\ turn[r].pc # "new" /\ turn'[r].pc = "done" /\ ~turn'[r].posting
                   /\ turn'[r].client = IF turn[r].client = "open" THEN "error" ELSE turn[r].client
                   /\ turn[r].client = "ended" => turn'[r].out = turn[r].out
                   /\ turn'[r].worded = turn[r].worded /\ turn'[r].born = turn[r].born
                   /\ turn'[r].asked = turn[r].asked /\ turn'[r].stream = turn[r].stream
    <2>1. PICK s \in Seq(Piece) : s = IF turn[r].client = "ended" THEN turn[r].out ELSE <<>>
        BY <1>1, TurnShape DEF BaseInv
    <2>2. PICK client \in {"none", "open", "left", "ended", "error"} :
              client = IF turn[r].client = "open" THEN "error" ELSE turn[r].client
        BY <1>1 DEF Turn
    <2>3. turn'[r] = IF turn[r].pc = "new" THEN turn[r]
                     ELSE [turn[r] EXCEPT !.pc = "done", !.posting = FALSE,
                                          !.out = s, !.client = client]
        BY <2>1, <2>2 DEF Restart
    <2>4. turn[r] \in Turn
        BY <1>1
    <2>5. CASE turn[r].pc = "new"
        BY <2>3, <2>4, <2>5
    <2>6. CASE turn[r].pc # "new"
        <3>1. turn'[r] = [turn[r] EXCEPT !.pc = "done", !.posting = FALSE,
                                         !.out = s, !.client = client]
            BY <2>3, <2>6
        <3>2. /\ turn'[r] \in Turn
              /\ turn'[r].pc = "done" /\ ~turn'[r].posting
              /\ turn'[r].client = client /\ turn'[r].out = s
              /\ turn'[r].worded = turn[r].worded /\ turn'[r].born = turn[r].born
              /\ turn'[r].asked = turn[r].asked /\ turn'[r].stream = turn[r].stream
            BY <2>1, <2>2, <2>4, <3>1 DEF Turn
        <3> QED
            BY <2>1, <2>2, <2>6, <3>2
    <2> QED
        BY <2>5, <2>6
<1>4. turn' \in [Requests -> Turn]
    BY <1>3 DEF Restart
<1> QED
    BY <1>2, <1>3, <1>4

LEMMA InsideLog ==
    ASSUME BaseInv, NEW r \in Requests, Inside(r)
    PROVE  log' \in Seq(Exchange)
<1>1. log \in Seq(Exchange)
    BY DEF BaseInv, TypeOK
<1>2. ASSUME NEW text \in Text
      PROVE  Append(log, [req |-> r, text |-> text]) \in Seq(Exchange)
    BY <1>1 DEF Exchange
<1>3. CASE LogAnswer(r)
    <2>1. PerChunk(turn[r].out) \in Text
        BY DEF PerChunk, Text
    <2>2. log' = log \/ log' = Append(log, [req |-> r, text |-> PerChunk(turn[r].out)])
        BY <1>3 DEF LogAnswer
    <2> QED
        BY <1>1, <1>2, <2>1, <2>2
<1>4. CASE PipelineAnswers(r)
    <2>1. PICK out \in SyncAnswers : log' = Append(log, [req |-> r, text |-> Assembled(out)])
        BY <1>4 DEF PipelineAnswers
    <2>2. Assembled(out) \in Text
        BY DEF Assembled, Text
    <2> QED
        BY <1>2, <2>1, <2>2
<1>5. CASE ~LogAnswer(r) /\ ~PipelineAnswers(r)
    <2>1. log' = log
        BY <1>5 DEF Inside, PrepareFails, PreFails, EmitFails, AskModel, Chunk, SendKeepalive,
                    ChunkAfterLeaving, StreamEnds, ClientLeaves, ModelFails
    <2> QED
        BY <1>1, <2>1
<1> QED
    BY <1>3, <1>4, <1>5

LEMMA BaseStep ==
    ASSUME BaseInv, [Next]_vars
    PROVE  BaseInv'
<1>t. /\ rows \in Seq(Row) /\ epoch \in 0..(2 * MaxDeletes + 1) /\ epoch \in Nat
      /\ log \in Seq(Exchange) /\ restarts \in 0..MaxRestarts
      /\ turn \in [Requests -> Turn] /\ TypeOK
      /\ ~ChatExists => rows = <<>>
    BY Parity DEF BaseInv, TypeOK
<1>b. \A r \in Requests : turn[r].born \in Nat /\ turn[r].born <= epoch
    BY TurnShape, <1>t DEF BaseInv, BornBefore
<1>1. ASSUME NEW r \in Requests, NEW stream \in BOOLEAN, NEW direct \in BOOLEAN,
             NEW worded \in BOOLEAN, Post(r, stream, direct, worded)
      PROVE  BaseInv'
    <2>1. /\ epoch' \in 0..(2 * MaxDeletes + 1) /\ epoch <= epoch'
          /\ worded => epoch' % 2 = 1
          /\ ~worded => epoch' = epoch
        BY <1>t, <1>1, PostTurn, Parity DEF EpochAfter, ChatExists
    <2>2. /\ rows' \in Seq(Row)
          /\ ~ChatExists' => rows' = <<>>
        <3>1. rows' = Persisted(r, worded)
            BY <1>t, <1>1, PostTurn
        <3>2. Append(rows, Question(r)) \in Seq(Row)
            BY <1>t, RowTypes, AppendKeepsType
        <3> QED
            BY <1>t, <2>1, <3>1, <3>2 DEF Persisted, ChatExists
    <2>3. TypeOK'
        BY <1>t, <1>1, <2>1, <2>2, PostTurn DEF TypeOK
    <2>4. Stages'
        BY <1>t, <1>1, PostTurn DEF BaseInv, Stages
    <2>5. BornBefore'
        BY <1>t, <1>b, <1>1, <2>1, PostTurn DEF BornBefore
    <2> QED
        BY <2>3, <2>4, <2>5 DEF BaseInv
<1>2. ASSUME NEW r \in Requests, Stores(r)
      PROVE  BaseInv'
    <2>1. PICK out \in Seq(Piece) : Store(r, out)
        BY <1>2 DEF Stores
    <2>2. rows' \in Seq(Row) /\ (~ChatExists' => rows' = <<>>)
        <3>1. Append(rows, Reply(r, Collected(out))) \in Seq(Row)
            BY <1>t, RowTypes, AppendKeepsType
        <3>2. /\ epoch' = epoch
              /\ \/ rows' = rows
                 \/ rows' = Append(rows, Reply(r, Collected(out))) /\ ChatExists
            BY <1>t, <2>1, StoreTurn
        <3> QED
            BY <1>t, <3>1, <3>2 DEF ChatExists
    <2>3. TypeOK'
        <3>1. /\ turn' \in [Requests -> Turn] /\ epoch' = epoch
              /\ log' = log /\ restarts' = restarts
            BY <1>t, <2>1, StoreTurn
        <3> QED
            BY <1>t, <2>2, <3>1 DEF TypeOK
    <2>4. Stages'
        <3>1. /\ \A q \in Requests : q # r => turn'[q] = turn[q]
              /\ turn'[r].pc = "done" /\ turn'[r].client \in {"ended", "error"}
            BY <1>t, <2>1, StoreTurn
        <3> QED
            BY <3>1 DEF BaseInv, Stages
    <2>5. BornBefore'
        BY <1>b, <1>t, <2>1, StoreTurn DEF BornBefore
    <2> QED
        BY <2>3, <2>4, <2>5 DEF BaseInv
<1>3. ASSUME NEW r \in Requests, Inside(r)
      PROVE  BaseInv'
    <2>1. TypeOK'
        BY <1>t, <1>3, InsideTurn, InsideLog DEF TypeOK, ChatExists
    <2>2. Stages'
        BY <1>t, <1>3, InsideTurn DEF BaseInv, Stages
    <2>3. BornBefore'
        BY <1>b, <1>t, <1>3, InsideTurn DEF BornBefore
    <2> QED
        BY <2>1, <2>2, <2>3 DEF BaseInv
<1>4. CASE DeleteChat
    <2>1. /\ epoch' = epoch + 1 /\ epoch < 2 * MaxDeletes /\ rows' = <<>>
          /\ turn' = turn /\ log' = log /\ restarts' = restarts
        BY <1>4 DEF DeleteChat
    <2>2. epoch' \in 0..(2 * MaxDeletes + 1)
        BY <1>t, <2>1, ChatAssumption
    <2>3. TypeOK'
        BY <1>t, <2>1, <2>2 DEF TypeOK
    <2>4. Stages' /\ BornBefore'
        BY <1>t, <1>b, <2>1 DEF BaseInv, Stages, BornBefore
    <2> QED
        BY <2>3, <2>4 DEF BaseInv
<1>5. CASE Restart
    <2>1. TypeOK'
        BY <1>t, <1>5, RestartTurn DEF TypeOK, ChatExists
    <2>2. Stages'
        BY <1>t, <1>5, RestartTurn DEF BaseInv, Stages
    <2>3. BornBefore'
        BY <1>b, <1>5, RestartTurn DEF BornBefore
    <2> QED
        BY <2>1, <2>2, <2>3 DEF BaseInv
<1>6. CASE UNCHANGED vars
    BY <1>6 DEF vars, BaseInv, TypeOK, Stages, BornBefore, ChatExists
<1> QED
    BY <1>1, <1>2, <1>3, <1>4, <1>5, <1>6, StepKinds

-----------------------------------------------------------------------------
(* The properties of the chat.                                              *)

LEMMA AppendAt ==
    ASSUME NEW S, NEW s \in Seq(S), NEW x \in S
    PROVE  /\ Len(Append(s, x)) = Len(s) + 1
           /\ Len(s) \in Nat
           /\ \A i \in 1..Len(s) : Append(s, x)[i] = s[i]
           /\ Append(s, x)[Len(s) + 1] = x
OBVIOUS

\* Adding a row moves none of the others.
LEMMA RowAdded ==
    ASSUME TypeOK, NEW row \in Row, rows' = Append(rows, row)
    PROVE  /\ Len(rows) \in Nat /\ Len(rows') = Len(rows) + 1
           /\ \A i \in 1..Len(rows) : rows'[i] = rows[i]
           /\ rows'[Len(rows) + 1] = row
           /\ \A r \in Requests : row.role # "assistant" \/ row.req # r
                                    => Replies(r)' = Replies(r)
<1>1. rows \in Seq(Row)
    BY DEF TypeOK
<1>2. /\ Len(rows) \in Nat /\ Len(rows') = Len(rows) + 1
      /\ \A i \in 1..Len(rows) : rows'[i] = rows[i]
      /\ rows'[Len(rows) + 1] = row
    BY <1>1, AppendAt
<1>3. ASSUME NEW r \in Requests, row.role # "assistant" \/ row.req # r
      PROVE  Replies(r)' = Replies(r)
    BY <1>2, <1>3 DEF Replies
<1> QED
    BY <1>2, <1>3

LEMMA ChatKept ==
    ASSUME ChatInv, Keeps
    PROVE  ChatInv'
<1>1. /\ rows' = rows /\ epoch' = epoch
      /\ \A r \in Requests : Replies(r)' = Replies(r) /\ Question(r)' = Question(r)
    BY DEF Keeps, Replies, Question
<1>2. ASSUME NEW r \in Requests
      PROVE  /\ turn'[r].born = turn[r].born /\ turn'[r].asked = turn[r].asked
             /\ turn'[r].worded = turn[r].worded
             /\ turn'[r].pc = "new" <=> turn[r].pc = "new"
             /\ turn'[r].client = "ended" <=> turn[r].client = "ended"
             /\ turn[r].client = "ended"
                  => Assembled(turn[r].out)' = Assembled(turn[r].out)
    <2>1. turn[r].client = "ended" => Assembled(turn[r].out)' = Assembled(turn[r].out)
        BY DEF Keeps, Assembled
    <2> QED
        BY <2>1 DEF Keeps
<1>3. QuestionStored'
    BY <1>1, <1>2 DEF ChatInv, QuestionStored
<1>4. QuestionIsLast'
    BY <1>1, <1>2 DEF ChatInv, QuestionIsLast
<1>5. AnswerFollowsQuestion'
    BY <1>1, <1>2 DEF ChatInv, AnswerFollowsQuestion
<1>6. ReadIsSaved'
    BY <1>1, <1>2 DEF ChatInv, ReadIsSaved
<1> QED
    BY <1>3, <1>4, <1>5, <1>6 DEF ChatInv

LEMMA ChatDeleted ==
    ASSUME IInv, DeleteChat
    PROVE  ChatInv'
<1>1. /\ rows' = <<>> /\ epoch' = epoch + 1 /\ turn' = turn
      /\ \A r \in Requests : Replies(r)' = {}
    BY DEF DeleteChat, Replies
<1>2. \A r \in Requests : turn'[r].born # epoch'
    <2>1. \A r \in Requests : turn[r].born \in Nat /\ turn[r].born <= epoch /\ epoch \in Nat
        BY TurnShape, Parity DEF IInv, BaseInv, BornBefore
    <2> QED
        BY <1>1, <2>1
<1> QED
    BY <1>1, <1>2 DEF ChatInv, QuestionStored, QuestionIsLast, AnswerFollowsQuestion, ReadIsSaved

\* The rest of the chat is where it was, and at most one row is new.
LEMMA ChatStored ==
    ASSUME IInv, NEW r \in Requests, Stores(r),
           turn[r].client = "open", turn[r].pc # "new"
    PROVE  ChatInv'
<1> DEFINE text == Collected(turn'[r].out)
<1>1. /\ \A q \in Requests : q # r => turn'[q] = turn[q]
      /\ turn'[r].pc = "done"
      /\ turn'[r].client = IF text = {} \/ ChatExists THEN "ended" ELSE "error"
      /\ turn'[r].worded = turn[r].worded /\ turn'[r].born = turn[r].born
      /\ turn'[r].asked = turn[r].asked
      /\ rows' = IF text # {} /\ ChatExists THEN Append(rows, Reply(r, text)) ELSE rows
      /\ epoch' = epoch
      /\ Reply(r, text) \in Row
    BY StoreTurn, RowTypes DEF Stores, IInv, BaseInv
<1> HIDE DEF text
<1>2. /\ text = Assembled(turn'[r].out)
      /\ \A q \in Requests : q # r => Assembled(turn[q].out)' = Assembled(turn[q].out)
    BY <1>1 DEF text, Collected, Assembled
<1>3. Replies(r) = {}
    BY DEF IInv, ChatInv, ReadIsSaved
<1>4. CASE ~(text # {} /\ ChatExists)
    <2>1. /\ rows' = rows
          /\ \A q \in Requests : Replies(q)' = Replies(q) /\ Question(q)' = Question(q)
          /\ text # {} => turn'[r].client = "error"
        BY <1>1, <1>4 DEF Replies, Question
    <2>2. QuestionStored'
        BY <1>1, <2>1 DEF IInv, ChatInv, QuestionStored
    <2>3. QuestionIsLast'
        BY <1>1, <2>1 DEF IInv, ChatInv, QuestionIsLast
    <2>4. AnswerFollowsQuestion'
        BY <1>1, <2>1 DEF IInv, ChatInv, AnswerFollowsQuestion
    <2>5. ReadIsSaved'
        <3>1. ASSUME NEW q \in Requests, q # r
              PROVE  /\ turn'[q] = turn[q] /\ Replies(q)' = Replies(q)
                     /\ Assembled(turn[q].out)' = Assembled(turn[q].out)
            BY <1>1, <1>2, <2>1, <3>1
        <3>2. Replies(r)' = {} /\ ~(turn'[r].client = "ended" /\ Assembled(turn[r].out)' # {})
            BY <1>2, <1>3, <2>1
        <3> QED
            BY <1>1, <2>1, <3>1, <3>2 DEF IInv, ChatInv, ReadIsSaved
    <2> QED
        BY <2>2, <2>3, <2>4, <2>5 DEF ChatInv
<1>5. CASE text # {} /\ ChatExists
    <2> DEFINE row == Reply(r, text)
    <2>1. row \in Row /\ row.role = "assistant" /\ row.req = r /\ row.text = text
        BY <1>1 DEF Reply
    <2>2. rows' = Append(rows, row)
        BY <1>1, <1>5
    <2> HIDE DEF row
    <2>3. /\ Len(rows) \in Nat /\ Len(rows') = Len(rows) + 1
          /\ \A i \in 1..Len(rows) : rows'[i] = rows[i]
          /\ rows'[Len(rows) + 1] = row
          /\ \A q \in Requests : q # r => Replies(q)' = Replies(q)
        BY <2>1, <2>2, RowAdded DEF IInv, BaseInv
    <2>4. Replies(r)' = {Len(rows) + 1}
        BY <1>3, <2>1, <2>3 DEF Replies
    <2>q. \A q \in Requests : Question(q)' = Question(q)
        BY DEF Question
    <2>5. QuestionStored'
        <3>1. ASSUME NEW q \in Requests, \E j \in 1..Len(rows) : rows[j] = Question(q)
              PROVE  \E j \in 1..Len(rows') : rows'[j] = Question(q)
            BY <2>3, <3>1
        <3> QED
            BY <1>1, <2>q, <3>1 DEF IInv, ChatInv, QuestionStored
    <2>6. QuestionIsLast'
        BY <1>1, <2>3, <2>q DEF IInv, ChatInv, QuestionIsLast
    <2>7. AnswerFollowsQuestion'
        <3> SUFFICES ASSUME NEW q \in Requests, NEW i \in Replies(q)',
                            turn'[q].worded, turn'[q].born = epoch'
                     PROVE  \E j \in 1..(i - 1) : rows'[j] = Question(q)
            BY <2>q DEF AnswerFollowsQuestion
        <3>1. CASE q = r
            <4>1. PICK j \in 1..Len(rows) : rows[j] = Question(r)
                BY <1>1, <3>1 DEF IInv, ChatInv, QuestionStored
            <4> QED
                BY <2>3, <2>4, <3>1, <4>1
        <3>2. CASE q # r
            <4>1. i \in Replies(q) /\ i \in 1..Len(rows)
                BY <2>3, <3>2 DEF Replies
            <4>2. PICK j \in 1..(i - 1) : rows[j] = Question(q)
                BY <1>1, <3>2, <4>1 DEF IInv, ChatInv, AnswerFollowsQuestion
            <4> QED
                BY <2>3, <4>1, <4>2
        <3> QED
            BY <3>1, <3>2
    <2>8. ReadIsSaved'
        <3>1. ASSUME NEW q \in Requests, q # r
              PROVE  /\ \A i \in Replies(q)' :
                           turn'[q].client = "ended" /\ rows'[i].text = Assembled(turn[q].out)'
                     /\ turn'[q].client = "ended" /\ Assembled(turn[q].out)' # {}
                        /\ turn'[q].worded /\ turn'[q].born = epoch'
                           => Replies(q)' # {}
            <4>1. /\ turn'[q] = turn[q] /\ epoch' = epoch /\ Replies(q)' = Replies(q)
                  /\ Assembled(turn[q].out)' = Assembled(turn[q].out)
                BY <1>1, <1>2, <2>3, <3>1
            <4>2. \A i \in Replies(q) : rows'[i] = rows[i]
                BY <2>3 DEF Replies
            <4> QED
                BY <4>1, <4>2 DEF IInv, ChatInv, ReadIsSaved
        <3>2. /\ turn'[r].client = "ended" /\ rows'[Len(rows) + 1].text = Assembled(turn[r].out)'
              /\ Replies(r)' # {}
            BY <1>1, <1>2, <1>5, <2>1, <2>3, <2>4
        <3> QED
            BY <2>4, <3>1, <3>2 DEF ReadIsSaved
    <2> QED
        BY <2>5, <2>6, <2>7, <2>8 DEF ChatInv
<1> QED
    BY <1>4, <1>5

LEMMA ChatPosted ==
    ASSUME IInv, NEW r \in Requests, NEW stream \in BOOLEAN, NEW direct \in BOOLEAN,
           NEW worded \in BOOLEAN, Post(r, stream, direct, worded)
    PROVE  ChatInv'
<1>1. /\ \A q \in Requests : q # r => turn'[q] = turn[q]
      /\ turn[r].pc = "new" /\ turn'[r].client = "open"
      /\ turn'[r].worded = worded /\ turn'[r].born = epoch'
      /\ turn'[r].asked = Hydrated(r, worded)
      /\ rows' = Persisted(r, worded) /\ epoch' = EpochAfter(worded)
    BY PostTurn DEF IInv, BaseInv
<1>2. /\ \A q \in Requests : Question(q)' = Question(q)
      /\ \A q \in Requests : q # r => Assembled(turn[q].out)' = Assembled(turn[q].out)
    BY <1>1 DEF Question, Assembled
<1>3. Replies(r) = {}
    <2>1. turn[r].client # "ended"
        BY <1>1 DEF IInv, BaseInv, Stages
    <2> QED
        BY <2>1 DEF IInv, ChatInv, ReadIsSaved
\* Another request of this life of the chat had the same life before.
<1>4. \A q \in Requests : q # r /\ turn[q].born = epoch' => turn[q].born = epoch
    <2>1. /\ epoch \in Nat /\ (epoch' = epoch \/ epoch' = epoch + 1)
          /\ \A q \in Requests : turn[q].born \in Nat /\ turn[q].born <= epoch
        BY <1>1, Parity, TurnShape DEF IInv, BaseInv, BornBefore, EpochAfter
    <2> QED
        BY <2>1
<1>5. CASE ~worded
    <2>1. /\ rows' = rows
          /\ \A q \in Requests : Replies(q)' = Replies(q)
        BY <1>1, <1>5 DEF Replies, Persisted
    <2>2. QuestionStored'
        BY <1>1, <1>2, <1>4, <1>5, <2>1 DEF IInv, ChatInv, QuestionStored
    <2>3. QuestionIsLast'
        BY <1>1, <1>2, <1>4, <1>5, <2>1 DEF IInv, ChatInv, QuestionIsLast
    <2>4. AnswerFollowsQuestion'
        BY <1>1, <1>2, <1>4, <1>5, <2>1 DEF IInv, ChatInv, AnswerFollowsQuestion
    <2>5. ReadIsSaved'
        BY <1>1, <1>2, <1>3, <1>4, <2>1 DEF IInv, ChatInv, ReadIsSaved
    <2> QED
        BY <2>2, <2>3, <2>4, <2>5 DEF ChatInv
<1>6. CASE worded
    <2>1. /\ Question(r) \in Row /\ Question(r).role = "user" /\ rows' = Append(rows, Question(r))
          /\ Hydrated(r, worded) = IF Len(rows') > 1 THEN Len(rows') ELSE 0
        BY <1>1, <1>6, RowTypes DEF Question, Persisted, Hydrated
    <2>2. /\ Len(rows) \in Nat /\ Len(rows') = Len(rows) + 1
          /\ \A i \in 1..Len(rows) : rows'[i] = rows[i]
          /\ rows'[Len(rows) + 1] = Question(r)
          /\ \A q \in Requests : Replies(q)' = Replies(q)
        <3> DEFINE row == Question(r)
        <3>1. row \in Row /\ row.role = "user" /\ rows' = Append(rows, row)
            BY <2>1
        <3> HIDE DEF row
        <3>2. /\ Len(rows) \in Nat /\ Len(rows') = Len(rows) + 1
              /\ \A i \in 1..Len(rows) : rows'[i] = rows[i]
              /\ rows'[Len(rows) + 1] = row
              /\ \A q \in Requests : Replies(q)' = Replies(q)
            BY <3>1, RowAdded DEF IInv, BaseInv
        <3> QED
            BY <3>2 DEF row
    <2>3. QuestionStored'
        <3> SUFFICES ASSUME NEW q \in Requests, turn'[q].pc # "new",
                            turn'[q].worded, turn'[q].born = epoch'
                     PROVE  \E j \in 1..Len(rows') : rows'[j] = Question(q)
            BY <1>2 DEF QuestionStored
        <3>1. CASE q = r
            BY <2>2, <3>1
        <3>2. CASE q # r
            <4>1. PICK j \in 1..Len(rows) : rows[j] = Question(q)
                BY <1>1, <1>4, <3>2 DEF IInv, ChatInv, QuestionStored
            <4> QED
                BY <2>2, <4>1
        <3> QED
            BY <3>1, <3>2
    <2>4. QuestionIsLast'
        <3> SUFFICES ASSUME NEW q \in Requests, turn'[q].asked > 0,
                            turn'[q].worded, turn'[q].born = epoch'
                     PROVE  turn'[q].asked \in 1..Len(rows') /\ rows'[turn'[q].asked] = Question(q)
            BY <1>2 DEF QuestionIsLast
        <3>1. CASE q = r
            BY <1>1, <2>1, <2>2, <3>1
        <3>2. CASE q # r
            <4>1. turn[q].asked \in 1..Len(rows) /\ rows[turn[q].asked] = Question(q)
                BY <1>1, <1>4, <3>2 DEF IInv, ChatInv, QuestionIsLast
            <4> QED
                BY <1>1, <2>2, <3>2, <4>1
        <3> QED
            BY <3>1, <3>2
    <2>5. AnswerFollowsQuestion'
        <3> SUFFICES ASSUME NEW q \in Requests, NEW i \in Replies(q)',
                            turn'[q].worded, turn'[q].born = epoch'
                     PROVE  \E j \in 1..(i - 1) : rows'[j] = Question(q)
            BY <1>2 DEF AnswerFollowsQuestion
        <3>1. q # r /\ i \in Replies(q) /\ i \in 1..Len(rows)
            BY <1>3, <2>2 DEF Replies
        <3>2. PICK j \in 1..(i - 1) : rows[j] = Question(q)
            BY <1>1, <1>4, <3>1 DEF IInv, ChatInv, AnswerFollowsQuestion
        <3> QED
            BY <2>2, <3>1, <3>2
    <2>6. ReadIsSaved'
        <3>1. \A q \in Requests : \A i \in Replies(q) : rows'[i] = rows[i]
            BY <2>2 DEF Replies
        <3> QED
            BY <1>1, <1>2, <1>3, <1>4, <2>2, <3>1 DEF IInv, ChatInv, ReadIsSaved
    <2> QED
        BY <2>3, <2>4, <2>5, <2>6 DEF ChatInv
<1> QED
    BY <1>5, <1>6

LEMMA InsideKeeps ==
    ASSUME BaseInv, NEW r \in Requests, Inside(r)
    PROVE  Keeps
BY InsideTurn DEF Keeps

LEMMA RestartKeeps ==
    ASSUME BaseInv, Restart
    PROVE  Keeps
<1>1. \A r \in Requests :
         /\ turn[r].pc = "new" <=> turn[r].client = "none"
         /\ turn[r].client \in {"none", "open", "left", "ended", "error"}
    BY TurnShape DEF BaseInv, Stages, Turn
<1> QED
    BY <1>1, RestartTurn DEF Keeps

LEMMA IInvInit == Init => IInv
<1> SUFFICES ASSUME Init
             PROVE  IInv
    OBVIOUS
<1>1. NoTurn \in Turn
    BY EmptyIsSeq DEF NoTurn, Turn
<1>2. /\ rows = <<>> /\ epoch = 0 /\ log = <<>> /\ restarts = 0
      /\ turn = [r \in Requests |-> NoTurn]
    BY DEF Init
<1>3. \A r \in Requests :
         /\ turn[r].pc = "new" /\ turn[r].client = "none" /\ ~turn[r].worded
         /\ turn[r].born = 0 /\ ~turn[r].posting
    BY <1>2 DEF NoTurn
<1>4. TypeOK
    <2>1. epoch \in 0..(2 * MaxDeletes + 1) /\ restarts \in 0..MaxRestarts
        BY <1>2, ChatAssumption
    <2>2. rows \in Seq(Row) /\ log \in Seq(Exchange)
        BY <1>2, EmptyIsSeq
    <2>3. turn \in [Requests -> Turn]
        BY <1>1, <1>2
    <2> QED
        BY <1>2, <2>1, <2>2, <2>3 DEF TypeOK
<1>5. Stages /\ BornBefore
    BY <1>2, <1>3 DEF Stages, BornBefore
<1>6. \A r \in Requests : Replies(r) = {}
    <2>1. 1..Len(rows) = {}
        BY <1>2
    <2> QED
        BY <2>1 DEF Replies
<1>7. ChatInv
    BY <1>3, <1>6 DEF ChatInv, QuestionStored, QuestionIsLast, AnswerFollowsQuestion, ReadIsSaved
<1> QED
    BY <1>4, <1>5, <1>7 DEF IInv, BaseInv

LEMMA IInvStep ==
    ASSUME IInv, [Next]_vars
    PROVE  IInv'
<1>1. BaseInv /\ BaseInv' /\ ChatInv
    BY BaseStep DEF IInv
<1>2. CASE UNCHANGED vars
    <2>1. Keeps
        BY <1>2 DEF vars, Keeps
    <2> QED
        BY <1>1, <2>1, ChatKept DEF IInv
<1> QED
    BY <1>1, <1>2, StepKinds, ChatPosted, ChatStored, ChatDeleted, ChatKept,
       InsideKeeps, RestartKeeps DEF IInv

LEMMA IInvHolds == Spec => []IInv
BY IInvInit, IInvStep, PTL DEF Spec

\* Every state of the chat is one of the types, and a chat that does not exist
\* has no messages.
THEOREM TypeCorrect == Spec => []TypeOK
<1>1. IInv => TypeOK
    BY DEF IInv, BaseInv
<1> QED
    BY <1>1, IInvHolds, PTL

\* A hydrated history ends with the question of its request, for any number of
\* requests that interleave in the chat, deletions and restarts.
THEOREM HydratedWithOwnQuestion == Spec => []QuestionIsLast
<1>1. IInv => QuestionIsLast
    BY DEF IInv, ChatInv
<1> QED
    BY <1>1, IInvHolds, PTL

\* An answer comes after its question, in the life of the chat it was asked in.
THEOREM AnswersFollow == Spec => []AnswerFollowsQuestion
<1>1. IInv => AnswerFollowsQuestion
    BY DEF IInv, ChatInv
<1> QED
    BY <1>1, IInvHolds, PTL

\* What is stored is what was read, and what was read to its end is stored,
\* wherever the network cuts the stream and whoever leaves it.
THEOREM ReadAnswersAreSaved == Spec => []ReadIsSaved
<1>1. IInv => ReadIsSaved
    BY DEF IInv, ChatInv
<1> QED
    BY <1>1, IInvHolds, PTL

-----------------------------------------------------------------------------
(* The chat implements the abstract transcript.                             *)

\* The messages and phases that the abstract transcript sees.
Seen == Shown(rows)

Phases == [r \in Requests |-> Phase(r)]

LEMMA PhaseShape ==
    ASSUME NEW r \in Requests
    PROVE  /\ Phases[r] = Phase(r)
           /\ turn[r].pc = "new" => Phase(r) = "new"
           /\ turn[r].pc # "new" /\ turn[r].client = "open" => Phase(r) = "open"
           /\ turn[r].pc # "new" /\ turn[r].client \notin {"open", "ended"} => Phase(r) = "closed"
           /\ turn[r].pc # "new" /\ turn[r].client = "ended"
                => Phase(r) = IF Collected(turn[r].out) # {} THEN "answered" ELSE "closed"
BY DEF Phases, Phase

LEMMA ShownAppend ==
    ASSUME NEW s \in Seq(Row), NEW x \in Row
    PROVE  Shown(Append(s, x)) = Append(Shown(s), [role |-> x.role, req |-> x.req])
<1>1. /\ Len(Append(s, x)) = Len(s) + 1 /\ Len(s) \in Nat
      /\ \A i \in 1..Len(s) : Append(s, x)[i] = s[i]
      /\ Append(s, x)[Len(s) + 1] = x
    BY AppendAt
<1>2. Shown(Append(s, x)) =
          [i \in 1..(Len(s) + 1) |-> IF i = Len(s) + 1 THEN [role |-> x.role, req |-> x.req]
                                     ELSE [role |-> s[i].role, req |-> s[i].req]]
    BY <1>1 DEF Shown
<1> DEFINE Shorter == [role : {"user", "assistant"}, req : Requests]
<1>3. /\ Shown(s) \in Seq(Shorter)
      /\ Len(Shown(s)) = Len(s)
      /\ \A i \in 1..Len(s) : Shown(s)[i] = [role |-> s[i].role, req |-> s[i].req]
    <2>1. \A i \in 1..Len(s) : s[i] \in Row
        OBVIOUS
    <2>2. \A i \in 1..Len(s) : [role |-> s[i].role, req |-> s[i].req] \in Shorter
        BY <2>1 DEF Row
    <2> QED
        BY <1>1, <2>2 DEF Shown
<1> HIDE DEF Shorter
<1>4. Append(Shown(s), [role |-> x.role, req |-> x.req]) =
          [i \in 1..(Len(s) + 1) |-> IF i = Len(s) + 1 THEN [role |-> x.role, req |-> x.req]
                                     ELSE Shown(s)[i]]
    BY <1>1, <1>3
<1> QED
    BY <1>1, <1>2, <1>3, <1>4

\* The phase of one request moves.
LEMMA PhaseMoves ==
    ASSUME NEW r \in Requests, NEW p, Phase(r)' = p,
           \A q \in Requests : q # r => Phase(q)' = Phase(q)
    PROVE  Phases' = [Phases EXCEPT ![r] = p]
BY DEF Phases

\* The phase of a request depends on its turn alone.
LEMMA SameTurnSamePhase ==
    ASSUME NEW q \in Requests, turn'[q] = turn[q]
    PROVE  Phase(q)' = Phase(q)
BY DEF Phase, Collected, Assembled

LEMMA PostAsks ==
    ASSUME IInv, NEW r \in Requests, NEW stream \in BOOLEAN, NEW direct \in BOOLEAN,
           NEW worded \in BOOLEAN, Post(r, stream, direct, worded)
    PROVE  Transcript!Ask(r)
<1>1. /\ \A q \in Requests : q # r => turn'[q] = turn[q]
      /\ turn[r].pc = "new" /\ turn'[r].pc = "pre" /\ turn'[r].client = "open"
      /\ rows' = Persisted(r, worded)
    BY PostTurn DEF IInv, BaseInv
<1>2. Phases[r] = "new" /\ Phases' = [Phases EXCEPT ![r] = "open"]
    <2>1. Phases[r] = "new"
        BY <1>1, PhaseShape
    <2>2. Phase(r)' = "open"
        BY <1>1 DEF Phase
    <2> QED
        BY <1>1, <2>1, <2>2, SameTurnSamePhase, PhaseMoves
<1>3. Seen' = Append(Seen, [role |-> "user", req |-> r]) \/ Seen' = Seen
    <2>1. /\ Question(r) \in Row /\ rows \in Seq(Row)
          /\ Question(r).role = "user" /\ Question(r).req = r
        BY RowTypes DEF IInv, BaseInv, TypeOK, Question
    <2>2. Shown(Append(rows, Question(r))) = Append(Shown(rows), [role |-> "user", req |-> r])
        BY <2>1, ShownAppend
    <2>3. rows' = rows \/ rows' = Append(rows, Question(r))
        BY <1>1 DEF Persisted
    <2> QED
        BY <2>2, <2>3 DEF Seen
<1> QED
    BY <1>2, <1>3 DEF Transcript!Ask, Seen, Phases

LEMMA StoreAnswersOrCloses ==
    ASSUME IInv, NEW r \in Requests, Stores(r), turn[r].client = "open", turn[r].pc # "new"
    PROVE  Transcript!Answer(r) \/ Transcript!Close(r)
<1> DEFINE text == Collected(turn'[r].out)
<1>1. /\ \A q \in Requests : q # r => turn'[q] = turn[q]
      /\ turn'[r].pc = "done"
      /\ turn'[r].client = IF text = {} \/ ChatExists THEN "ended" ELSE "error"
      /\ rows' = IF text # {} /\ ChatExists THEN Append(rows, Reply(r, text)) ELSE rows
      /\ Reply(r, text) \in Row
    BY StoreTurn, RowTypes DEF Stores, IInv, BaseInv
<1>2. Phases[r] = "open"
    BY PhaseShape
<1>3. Phase(r)' = IF text # {} /\ ChatExists THEN "answered" ELSE "closed"
    <2>1. text = Collected(turn[r].out)'
        BY DEF Collected, Assembled
    <2> QED
        BY <1>1, <2>1 DEF Phase
<1> HIDE DEF text
<1>4. CASE text # {} /\ ChatExists
    <2>1. Phases' = [Phases EXCEPT ![r] = "answered"]
        BY <1>1, <1>3, <1>4, SameTurnSamePhase, PhaseMoves
    <2>2. Seen' = Append(Seen, [role |-> "assistant", req |-> r])
        <3>1. rows \in Seq(Row) /\ Reply(r, text).role = "assistant" /\ Reply(r, text).req = r
            BY DEF IInv, BaseInv, TypeOK, Reply
        <3>2. Shown(Append(rows, Reply(r, text)))
                  = Append(Shown(rows), [role |-> "assistant", req |-> r])
            BY <1>1, <3>1, ShownAppend
        <3> QED
            BY <1>1, <1>4, <3>2 DEF Seen
    <2> QED
        BY <1>2, <2>1, <2>2 DEF Transcript!Answer, Seen, Phases
<1>5. CASE ~(text # {} /\ ChatExists)
    <2>1. Phases' = [Phases EXCEPT ![r] = "closed"]
        BY <1>1, <1>3, <1>5, SameTurnSamePhase, PhaseMoves
    <2>2. Seen' = Seen
        BY <1>1, <1>5 DEF Seen
    <2> QED
        BY <1>2, <2>1, <2>2 DEF Transcript!Close, Seen, Phases
<1> QED
    BY <1>4, <1>5

LEMMA InsideClosesOrStutters ==
    ASSUME IInv, NEW r \in Requests, Inside(r)
    PROVE  Transcript!Close(r) \/ (Seen' = Seen /\ Phases' = Phases)
<1>1. /\ rows' = rows
      /\ \A q \in Requests : q # r => turn'[q] = turn[q]
      /\ turn[r].pc # "new" /\ turn'[r].pc # "new"
      /\ turn'[r].client = "ended" <=> turn[r].client = "ended"
      /\ turn[r].client = "ended" => turn'[r].out = turn[r].out
      /\ turn[r].client # "open" => turn'[r].client = turn[r].client
    BY InsideTurn DEF IInv, BaseInv
<1>2. Seen' = Seen
    BY <1>1 DEF Seen
<1>3. \A q \in Requests : q # r => Phase(q)' = Phase(q)
    BY <1>1, SameTurnSamePhase
<1>4. CASE turn[r].client = "open" /\ turn'[r].client # "open"
    <2>1. Phases[r] = "open"
        BY <1>1, <1>4, PhaseShape
    <2>2. Phase(r)' = "closed"
        BY <1>1, <1>4 DEF Phase
    <2> QED
        BY <1>2, <1>3, <2>1, <2>2, PhaseMoves DEF Transcript!Close, Seen, Phases
<1>5. CASE ~(turn[r].client = "open" /\ turn'[r].client # "open")
    <2>1. turn'[r].client = turn[r].client
        BY <1>1, <1>5
    <2>2. turn[r].client = "ended" => Collected(turn[r].out)' = Collected(turn[r].out)
        BY <1>1 DEF Collected, Assembled
    <2>3. Phase(r)' = Phase(r)
        BY <1>1, <2>1, <2>2 DEF Phase
    <2> QED
        BY <1>2, <1>3, <2>3 DEF Phases
<1> QED
    BY <1>4, <1>5

LEMMA RestartLoses ==
    ASSUME IInv, Restart
    PROVE  Transcript!Lose
<1>1. /\ rows' = rows
      /\ \A r \in Requests :
            \/ turn[r].pc = "new" /\ turn'[r] = turn[r]
            \/ /\ turn[r].pc # "new" /\ turn'[r].pc = "done"
               /\ turn'[r].client = IF turn[r].client = "open" THEN "error" ELSE turn[r].client
               /\ turn[r].client = "ended" => turn'[r].out = turn[r].out
    BY RestartTurn DEF IInv
<1>2. ASSUME NEW r \in Requests
      PROVE  Phase(r)' = IF Phase(r) = "open" THEN "closed" ELSE Phase(r)
    <2>1. CASE turn[r].pc = "new" /\ turn'[r] = turn[r]
        BY <2>1 DEF Phase
    <2>2. CASE turn[r].pc # "new"
        <3>1. turn[r].client = "ended" => Collected(turn[r].out)' = Collected(turn[r].out)
            <4>1. turn[r].client = "ended" => turn'[r].out = turn[r].out
                BY <1>1, <2>2
            <4> QED
                BY <4>1 DEF Collected, Assembled
        <3>2. /\ turn'[r].pc = "done"
              /\ turn'[r].client = IF turn[r].client = "open" THEN "error" ELSE turn[r].client
            BY <1>1, <2>2
        <3>3. CASE turn[r].client = "open"
            BY <2>2, <3>2, <3>3 DEF Phase
        <3>4. CASE turn[r].client # "open"
            <4>1. turn'[r].client = turn[r].client
                BY <3>2, <3>4
            <4> QED
                BY <2>2, <3>1, <3>2, <3>4, <4>1 DEF Phase
        <3> QED
            BY <3>3, <3>4
    <2> QED
        BY <1>1, <2>1, <2>2
<1> QED
    BY <1>1, <1>2 DEF Transcript!Lose, Phases

LEMMA StepImplements ==
    ASSUME IInv, [Next]_vars
    PROVE  [Transcript!TNext]_(Transcript!tvars)
<1>1. ASSUME NEW r \in Requests, Inside(r)
      PROVE  [Transcript!TNext]_(Transcript!tvars)
    BY <1>1, InsideClosesOrStutters DEF Transcript!TNext, Transcript!tvars, Seen, Phases
<1>2. ASSUME NEW r \in Requests, Stores(r), turn[r].client = "open", turn[r].pc # "new"
      PROVE  Transcript!TNext
    BY <1>2, StoreAnswersOrCloses DEF Transcript!TNext
<1>3. CASE DeleteChat
    <2>1. Seen' = <<>>
        BY <1>3 DEF DeleteChat, Seen, Shown
    <2>2. Phases' = Phases
        BY <1>3, SameTurnSamePhase DEF DeleteChat, Phases
    <2> QED
        BY <2>1, <2>2 DEF Transcript!TNext, Transcript!Clear, Seen, Phases
<1>4. CASE Restart
    BY <1>4, RestartLoses DEF Transcript!TNext
<1>5. CASE UNCHANGED vars
    <2>1. Seen' = Seen
        BY <1>5 DEF vars, Seen
    <2>2. Phases' = Phases
        BY <1>5, SameTurnSamePhase DEF vars, Phases
    <2> QED
        BY <2>1, <2>2 DEF Transcript!tvars, Seen, Phases
<1>6. ASSUME NEW r \in Requests, NEW stream \in BOOLEAN, NEW direct \in BOOLEAN,
             NEW worded \in BOOLEAN, Post(r, stream, direct, worded)
      PROVE  Transcript!TNext
    BY <1>6, PostAsks DEF Transcript!TNext
<1> QED
    BY <1>1, <1>2, <1>3, <1>4, <1>5, <1>6, StepKinds DEF IInv

\* Every behaviour of the chat is one of the abstract transcript: an answer
\* comes in one step, to an open request, and nothing else changes a message.
THEOREM ImplementsSafely == Spec => Transcript!TSafety
<1>1. Init => Transcript!TInit
    <2> SUFFICES ASSUME Init
                 PROVE  Transcript!TInit
        OBVIOUS
    <2>1. Shown(rows) = <<>>
        BY DEF Init, Shown
    <2>2. \A r \in Requests : Phase(r) = "new"
        BY DEF Init, NoTurn, Phase
    <2> QED
        BY <2>1, <2>2 DEF Transcript!TInit
<1>2. IInv /\ [Next]_vars => [Transcript!TNext]_(Transcript!tvars)
    BY StepImplements
<1> QED
    BY <1>1, <1>2, IInvHolds, PTL DEF Spec, Transcript!TSafety

\* No chat ever holds two answers to one request, or one that its client did
\* not read: what is proved of the abstract transcript holds of the chat.
THEOREM ChatOneAnswer == Spec => []Transcript!OneAnswer
BY ImplementsSafely, Transcript!TranscriptOneAnswer, PTL

(***************************************************************************)
(* The editor extension.                                                   *)
(***************************************************************************)

(* Induction, of a set of numbers.                                         *)
LEMMA FromZeroOn ==
  ASSUME NEW S \in SUBSET Nat, 0 \in S, \A n \in S : n + 1 \in S
  PROVE  S = Nat
<1> DEFINE T == Nat \ S
<1>1. ASSUME T # {} PROVE FALSE
    <2>1. PICK x \in T : \A y \in T : ~(<<y, x>> \in OpToRel(<, Nat))
        <3>1. T \subseteq Nat
            OBVIOUS
        <3> HIDE DEF T
        <3>. QED
            BY <1>1, <3>1, NatLessThanWellFounded, WFMin
    <2>2. x \in Nat /\ x # 0 /\ x \notin S
        OBVIOUS
    <2>3. x - 1 \in Nat /\ x - 1 < x /\ (x - 1) + 1 = x
        BY <2>2
    <2>4. x - 1 \in S
        <3>1. <<x - 1, x>> \in OpToRel(<, Nat)
            BY <2>2, <2>3 DEF OpToRel
        <3>. QED
            BY <2>1, <2>3, <3>1
    <2>. QED
        BY <2>2, <2>3, <2>4
<1>. QED
    BY <1>1

LEMMA MaxOfInterval ==
  ASSUME NEW n \in Nat, NEW s \in SUBSET (1..n + 1), n + 1 \in s
  PROVE  Max(s) = n + 1
<1>1. \A y \in s : n + 1 >= y
    OBVIOUS
<1>2. \A x \in s : (\A y \in s : x >= y) => x = n + 1
    <2> TAKE x \in s
    <2>1. x \in Int /\ x <= n + 1 
        OBVIOUS
    <2>. QED
        BY <2>1
<1>. QED
    BY <1>1, <1>2 DEF Max

(* What a fold from the left goes through, message by message.             *)
LEMMA Converting ==
  ASSUME NEW messages, NEW n \in Nat, DOMAIN messages = 1..n
  PROVE  \E so :
           /\ so[0] = <<>> /\ so[n] = ConvertMessages(messages)
           /\ \A j \in 0..n - 1 : so[j + 1] = Expand(so[j], messages[j + 1])
<1> DEFINE Folded(g, s) == IF s = {} THEN <<>> ELSE Expand(g[s \ {Max(s)}], messages[Max(s)])
           Upto(k) == \E g : /\ DOMAIN g = SUBSET (1..k)
                             /\ g = [s \in SUBSET (1..k) |-> Folded(g, s)]
           iter == CHOOSE g : g = [s \in SUBSET (1..n) |-> Folded(g, s)]
           S == {k \in Nat : Upto(k)}
<1>1. ConvertMessages(messages) = iter[1..n]
    BY DEF ConvertMessages, FoldLeft, MapThenFoldSet
<1>2. 0 \in S
    <2> DEFINE g == [s \in SUBSET (1..0) |-> <<>>]
    <2>1. \A s \in SUBSET (1..0) : s = {}
        OBVIOUS
    <2>2. g = [s \in SUBSET (1..0) |-> Folded(g, s)]
        BY <2>1
    <2>3. DOMAIN g = SUBSET (1..0)
        OBVIOUS
    <2> HIDE DEF g
    <2>4. Upto(0)
        BY <2>2, <2>3
    <2>. QED
        BY <2>4
<1>3. ASSUME NEW k \in S PROVE k + 1 \in S
    <2>1. PICK g : DOMAIN g = SUBSET (1..k) /\ g = [s \in SUBSET (1..k) |-> Folded(g, s)]
        OBVIOUS
    <2>2. k \in Nat /\ k + 1 \in Nat /\ 1..k \subseteq 1..k + 1
        OBVIOUS
    <2> DEFINE h == [s \in SUBSET (1..k + 1) |->
                       IF s \in SUBSET (1..k) THEN g[s] ELSE Expand(g[s \ {k + 1}], messages[k + 1])]
    <2>3. \A s \in SUBSET (1..k) : h[s] = g[s]
        BY <2>2
    <2>4. ASSUME NEW s \in SUBSET (1..k + 1) PROVE h[s] = Folded(h, s)
        <3>1. CASE s \in SUBSET (1..k)
            <4>1. h[s] = Folded(g, s)
                BY <2>1, <2>3, <3>1
            <4>2. s \ {Max(s)} \in SUBSET (1..k)
                BY <3>1
            <4>3. h[s \ {Max(s)}] = g[s \ {Max(s)}]
                BY <2>3, <4>2
            <4> HIDE DEF h
            <4>. QED
                BY <4>1, <4>3
        <3>2. CASE s \notin SUBSET (1..k)
            <4>1. \A x \in 1..k + 1 : x \in 1..k \/ x = k + 1
                BY <2>2
            <4>2. k + 1 \in s
                BY <3>2, <4>1
            <4>3. Max(s) = k + 1
                BY <2>2, <4>2, MaxOfInterval
            <4>4. s \ {k + 1} \in SUBSET (1..k)
                BY <4>1
            <4>5. h[s] = Expand(g[s \ {k + 1}], messages[k + 1])
                BY <3>2
            <4>6. h[s \ {k + 1}] = g[s \ {k + 1}]
                BY <2>3, <4>4
            <4> HIDE DEF h
            <4>. QED
                BY <4>2, <4>3, <4>5, <4>6
        <3>. QED
            BY <3>1, <3>2
    <2>5. DOMAIN h = SUBSET (1..k + 1)
        OBVIOUS
    <2>6. h = [s \in DOMAIN h |-> h[s]]
        OBVIOUS
    <2> HIDE DEF h
    <2>7. h = [s \in SUBSET (1..k + 1) |-> Folded(h, s)]
        BY <2>4, <2>5, <2>6
    <2>8. Upto(k + 1)
        BY <2>5, <2>7
    <2>. QED
        BY <2>2, <2>8
<1>4. iter = [s \in SUBSET (1..n) |-> Folded(iter, s)]
    <2>1. S = Nat
        <3>1. S \in SUBSET Nat
            OBVIOUS
        <3> HIDE DEF S
        <3>. QED
            BY <1>2, <1>3, <3>1, FromZeroOn
    <2>2. Upto(n)
        BY <2>1
    <2>. QED
        BY <2>2
<1> HIDE DEF iter, S
<1> DEFINE so == [j \in 0..n |-> iter[1..j]]
<1>5. so[0] = <<>> /\ so[n] = ConvertMessages(messages)
    <2>1. 1..0 = {} /\ {} \in SUBSET (1..n) /\ 0 \in 0..n /\ n \in 0..n
        OBVIOUS
    <2>2. iter[{}] = <<>>
        BY <1>4, <2>1
    <2>. QED
        BY <1>1, <2>1, <2>2
<1>6. ASSUME NEW j \in 0..n - 1 PROVE so[j + 1] = Expand(so[j], messages[j + 1])
    <2>1. j \in Nat /\ j \in 0..n /\ j + 1 \in 0..n /\ 1..j + 1 \in SUBSET (1..n) /\ j + 1 \in 1..j + 1
        OBVIOUS
    <2>2. Max(1..j + 1) = j + 1
        BY <2>1, MaxOfInterval
    <2>3. (1..j + 1) \ {j + 1} = 1..j
        BY <2>1
    <2>4. iter[1..j + 1] = Expand(iter[(1..j + 1) \ {Max(1..j + 1)}], messages[Max(1..j + 1)])
        <3>1. iter[1..j + 1] = Folded(iter, 1..j + 1)
            BY <1>4, <2>1
        <3>2. 1..j + 1 # {}
            BY <2>1
        <3>. QED
            BY <3>1, <3>2
    <2>5. so[j + 1] = iter[1..j + 1] /\ so[j] = iter[1..j]
        BY <2>1
    <2>. QED
        BY <2>2, <2>3, <2>4, <2>5
<1> HIDE DEF so
<1>. QED
    BY <1>5, <1>6

(* The turns of a conversation and the messages of a request.              *)
Turns == [role : {"user", "assistant"}, text : BOOLEAN, calls : Seq(EditorCalls)]
Lines == [role : {"system", "user", "assistant", "tool"}, calls : Seq(EditorCalls)]

ResultOf(call) == [role |-> "tool", calls |-> <<call>>]

Answered(lines, i) ==
  \A k \in DOMAIN lines[i].calls :
     i + k \in DOMAIN lines /\ lines[i + k] = ResultOf(lines[i].calls[k])

(* A request converted up to a turn: its calls have their results right    *)
(* behind them, but for those of this turn, which are its end.             *)
ConvertedUpTo(lines, said) ==
  /\ lines \in Seq(Lines) /\ lines # <<>> /\ lines[1].role = "system"
  /\ \A i \in DOMAIN lines : lines[i].role = "assistant" =>
       \/ Answered(lines, i)
       \/ i = Len(lines) /\ said.role = "assistant" /\ lines[i].calls = said.calls

LEMMA ResultsOf ==
  ASSUME NEW calls \in Seq(EditorCalls)
  PROVE  LET results == [i \in DOMAIN calls |-> ResultOf(calls[i])]
         IN  /\ results \in Seq(Lines) /\ Len(results) = Len(calls)
             /\ \A k \in 1..Len(calls) : results[k] = ResultOf(calls[k])
<1>1. Len(calls) \in Nat /\ DOMAIN calls = 1..Len(calls)
    BY LenProperties
<1>2. \A i \in 1..Len(calls) : ResultOf(calls[i]) \in Lines
    <2> TAKE i \in 1..Len(calls)
    <2>1. <<calls[i]>> \in Seq(EditorCalls)
        BY ElementOfSeq
    <2>. QED
        BY <2>1 DEF ResultOf, Lines
<1>. QED
    BY <1>1, <1>2

LEMMA Adjoined ==
  ASSUME NEW S, NEW s \in Seq(S), NEW t \in Seq(S)
  PROVE  /\ s \o t \in Seq(S) /\ Len(s \o t) = Len(s) + Len(t) /\ Len(s) \in Nat /\ Len(t) \in Nat
         /\ \A i \in 1..Len(s) : (s \o t)[i] = s[i]
         /\ \A i \in 1..Len(t) : (s \o t)[Len(s) + i] = t[i]
<1>1. Len(s) \in Nat /\ Len(t) \in Nat
    BY LenProperties
<1>2. /\ s \o t \in Seq(S) /\ Len(s \o t) = Len(s) + Len(t)
      /\ \A i \in 1 .. Len(s) + Len(t) : (s \o t)[i] = IF i <= Len(s) THEN s[i] ELSE t[i - Len(s)]
    BY ConcatProperties
<1>3. ASSUME NEW i \in 1..Len(s) PROVE (s \o t)[i] = s[i]
    <2>1. i \in 1 .. Len(s) + Len(t) /\ i <= Len(s)
        BY <1>1
    <2>. QED
        BY <1>2, <2>1
<1>4. ASSUME NEW i \in 1..Len(t) PROVE (s \o t)[Len(s) + i] = t[i]
    <2>1. Len(s) + i \in 1 .. Len(s) + Len(t) /\ ~(Len(s) + i <= Len(s)) /\ Len(s) + i - Len(s) = i
        BY <1>1
    <2>. QED
        BY <1>2, <2>1
<1>. QED
    BY <1>1, <1>2, <1>3, <1>4

(* What is put behind the lines of a request leaves answered what was.     *)
LEMMA StaysAnswered ==
  ASSUME NEW lines \in Seq(Lines), NEW more \in Seq(Lines),
         NEW i \in 1..Len(lines), Answered(lines, i)
  PROVE  Answered(lines \o more, i) /\ (lines \o more)[i] = lines[i]
<1>1. /\ lines \o more \in Seq(Lines) /\ Len(lines \o more) = Len(lines) + Len(more)
      /\ Len(lines) \in Nat /\ Len(more) \in Nat
      /\ \A k \in 1..Len(lines) : (lines \o more)[k] = lines[k]
    BY Adjoined
<1>2. DOMAIN lines = 1..Len(lines) /\ DOMAIN (lines \o more) = 1..Len(lines) + Len(more)
    BY <1>1, LenProperties
<1>3. \A k \in DOMAIN lines[i].calls : i + k \in 1..Len(lines)
    BY <1>2 DEF Answered
<1>4. \A k \in 1..Len(lines) : k \in 1..Len(lines) + Len(more)
    BY <1>1
<1>. QED
    BY <1>1, <1>2, <1>3, <1>4 DEF Answered

LEMMA FirstTurn ==
  ConvertedUpTo(Expand(<<>>, Said("user", TRUE, NoCalls)), Said("user", TRUE, NoCalls))
<1> DEFINE m == Said("user", TRUE, NoCalls)
           results == [i \in DOMAIN m.calls |-> [role |-> "tool", calls |-> <<m.calls[i]>>]]
           line == [role |-> "system", calls |-> NoCalls]
<1>1. m.role = "user" /\ m.text = TRUE /\ m.calls = <<>>
    BY DEF Said, NoCalls
<1>2. results = <<>>
    <2>1. <<>> \in Seq(EditorCalls) /\ Len(<<>>) = 0
        BY EmptySeq
    <2>2. results = [i \in DOMAIN m.calls |-> ResultOf(m.calls[i])]
        BY DEF ResultOf
    <2>3. results \in Seq(Lines) /\ Len(results) = 0
        <3> HIDE DEF m, results
        <3>. QED
            BY <1>1, <2>1, <2>2, ResultsOf
    <2> HIDE DEF results
    <2>. QED
        BY <2>3, EmptySeq
<1>3. Expand(<<>>, m) = <<>> \o results \o <<line>>
    <2> HIDE DEF m
    <2> DEFINE prompted == \E i \in DOMAIN <<>> : <<>>[i].role = "system"
               role == IF ~prompted /\ m.calls = NoCalls THEN "system" ELSE "user"
               text == IF m.text THEN <<[role |-> role, calls |-> NoCalls]>> ELSE <<>>
    <2>1. Expand(<<>>, m) = <<>> \o results \o text
        BY <1>1 DEF Expand
    <2>2. role = "system"
        <3>1. m.calls = NoCalls
            BY <1>1 DEF NoCalls
        <3>2. ~prompted
            OBVIOUS
        <3> HIDE DEF prompted
        <3>. QED
            BY <3>1, <3>2
    <2> HIDE DEF role
    <2>3. text = <<line>>
        BY <1>1, <2>2
    <2> HIDE DEF results, text, line
    <2>. QED
        BY <2>1, <2>3
<1> HIDE DEF results, m
<1>4. line \in Lines /\ <<line>> \in Seq(Lines)
    BY DEF Lines, NoCalls
<1>5. Expand(<<>>, m) = <<line>>
    <2>1. <<>> \o <<>> = <<>> /\ <<>> \o <<line>> = <<line>>
        BY <1>4, ConcatEmptySeq, EmptySeq
    <2>. QED
        BY <1>2, <1>3, <2>1
<1>6. line.role = "system" /\ <<line>>[1] = line /\ DOMAIN <<line>> = {1} /\ <<line>> # <<>>
    OBVIOUS
<1> HIDE DEF line
<1>7. ConvertedUpTo(<<line>>, m)
    BY <1>4, <1>6 DEF ConvertedUpTo
<1>. QED
    BY <1>5, <1>7 DEF m

LEMMA NextTurn ==
  ASSUME NEW said \in Turns, NEW lines, ConvertedUpTo(lines, said),
         NEW next \in Turns,
         said.role = "assistant" => next.role = "user" /\ next.calls = said.calls
  PROVE  ConvertedUpTo(Expand(lines, next), next)
<1>1. /\ lines \in Seq(Lines) /\ lines # <<>> /\ lines[1].role = "system" /\ Len(lines) \in Nat
      /\ DOMAIN lines = 1..Len(lines) /\ 1 \in 1..Len(lines)
    <2>1. lines \in Seq(Lines) /\ lines # <<>> /\ lines[1].role = "system"
        BY DEF ConvertedUpTo
    <2>2. Len(lines) \in Nat /\ Len(lines) # 0 /\ DOMAIN lines = 1..Len(lines)
        BY <2>1, LenProperties, EmptySeq
    <2>. QED
        BY <2>1, <2>2
<1>2. \A i \in 1..Len(lines) : lines[i].role = "assistant" =>
         \/ Answered(lines, i)
         \/ i = Len(lines) /\ said.role = "assistant" /\ lines[i].calls = said.calls
    BY <1>1 DEF ConvertedUpTo
<1>3. next.calls \in Seq(EditorCalls) /\ next.role \in {"user", "assistant"}
    BY DEF Turns
<1>4. CASE next.role = "user"
    <2> DEFINE results == [i \in DOMAIN next.calls |-> ResultOf(next.calls[i])]
               role == IF ~(\E i \in DOMAIN lines : lines[i].role = "system") /\ next.calls = NoCalls
                       THEN "system" ELSE "user"
               text == IF next.text THEN <<[role |-> role, calls |-> NoCalls]>> ELSE <<>>
               more == results \o text
    <2>1. /\ results \in Seq(Lines) /\ Len(results) = Len(next.calls)
          /\ \A k \in 1..Len(next.calls) : results[k] = ResultOf(next.calls[k])
        BY <1>3, ResultsOf
    <2>2. Expand(lines, next) = lines \o results \o text
        BY <1>4 DEF Expand, ResultOf
    <2>3. text \in Seq(Lines) /\ \A i \in DOMAIN text : text[i].role # "assistant"
        <3>1. role \in {"system", "user"}
            OBVIOUS
        <3> HIDE DEF role
        <3>2. [role |-> role, calls |-> NoCalls] \in Lines /\ [role |-> role, calls |-> NoCalls].role # "assistant"
            BY <3>1 DEF Lines, NoCalls
        <3>. QED
            BY <3>2
    <2> HIDE DEF results, text
    <2>4. /\ more \in Seq(Lines) /\ Len(more) = Len(results) + Len(text)
          /\ Len(results) \in Nat /\ Len(text) \in Nat
          /\ \A i \in 1..Len(results) : more[i] = results[i]
          /\ \A i \in 1..Len(text) : more[Len(results) + i] = text[i]
        <3>1. results \in Seq(Lines) /\ text \in Seq(Lines)
            BY <2>1, <2>3
        <3> HIDE DEF more
        <3>2. more = results \o text
            BY DEF more
        <3>. QED
            BY ONLY <3>1, <3>2, Adjoined
    <2>5. Expand(lines, next) = lines \o more
        BY <1>1, <2>1, <2>2, <2>3, ConcatAssociative
    <2> HIDE DEF more
    <2>6. /\ lines \o more \in Seq(Lines) /\ Len(lines \o more) = Len(lines) + Len(more)
          /\ Len(more) \in Nat
          /\ \A i \in 1..Len(lines) : (lines \o more)[i] = lines[i]
          /\ \A i \in 1..Len(more) : (lines \o more)[Len(lines) + i] = more[i]
        <3>1. lines \in Seq(Lines) /\ more \in Seq(Lines)
            BY <1>1, <2>4
        <3>. QED
            BY ONLY <3>1, Adjoined
    <2>7. DOMAIN (lines \o more) = 1..Len(lines) + Len(more)
        BY <2>6, LenProperties
    <2>8. lines \o more # <<>> /\ (lines \o more)[1].role = "system"
        <3>1. Len(lines \o more) # 0
            BY <1>1, <2>6
        <3>. QED
            BY <1>1, <2>6, <3>1
    <2>9. \A i \in 1..Len(more) : more[i].role # "assistant"
        <3> TAKE i \in 1..Len(more)
        <3>1. CASE i \in 1..Len(results)
            <4>1. more[i] = ResultOf(next.calls[i])
                BY <2>1, <2>4, <3>1
            <4>2. \A call : ResultOf(call).role # "assistant"
                BY DEF ResultOf
            <4>. QED
                BY <4>1, <4>2
        <3>2. CASE i \notin 1..Len(results)
            <4>1. i - Len(results) \in 1..Len(text) /\ Len(results) + (i - Len(results)) = i
                BY <2>4, <3>2
            <4>2. DOMAIN text = 1..Len(text)
                BY <2>3, LenProperties
            <4>. QED
                BY <2>3, <2>4, <4>1, <4>2
        <3>. QED
            BY <3>1, <3>2
    <2>10. ASSUME NEW i \in 1..Len(lines) + Len(more), (lines \o more)[i].role = "assistant"
           PROVE  Answered(lines \o more, i)
        <3>1. i \in 1..Len(lines)
            <4>1. ASSUME i \notin 1..Len(lines) PROVE FALSE
                <5>1. i - Len(lines) \in 1..Len(more) /\ Len(lines) + (i - Len(lines)) = i
                    BY <1>1, <2>6, <4>1
                <5>2. (lines \o more)[i] = more[i - Len(lines)]
                    BY <2>6, <5>1
                <5>. QED
                    BY <2>9, <2>10, <5>1, <5>2
            <4>. QED
                BY <4>1
        <3>2. lines[i].role = "assistant"
            BY <2>6, <2>10, <3>1
        <3>3. CASE Answered(lines, i)
            BY <1>1, <2>4, <3>1, <3>3, StaysAnswered
        <3>4. CASE i = Len(lines) /\ said.role = "assistant" /\ lines[i].calls = said.calls
            <4>1. (lines \o more)[i].calls = next.calls
                BY <2>6, <3>1, <3>4
            <4>2. DOMAIN next.calls = 1..Len(next.calls) /\ Len(next.calls) \in Nat
                BY <1>3, LenProperties
            <4>3. ASSUME NEW k \in 1..Len(next.calls)
                  PROVE  /\ i + k \in 1..Len(lines) + Len(more)
                         /\ (lines \o more)[i + k] = ResultOf(next.calls[k])
                <5>1. k \in 1..Len(results) /\ k \in 1..Len(more)
                    BY <2>1, <2>4, <4>2
                <5>2. (lines \o more)[Len(lines) + k] = results[k]
                    BY <2>4, <2>6, <5>1
                <5>. QED
                    BY <1>1, <2>1, <2>6, <3>4, <4>2, <5>1, <5>2
            <4>. QED
                BY <2>7, <4>1, <4>2, <4>3 DEF Answered
        <3>. QED
            BY <1>2, <3>1, <3>2, <3>3, <3>4
    <2>. QED
        BY <2>5, <2>6, <2>7, <2>8, <2>10 DEF ConvertedUpTo
<1>5. CASE next.role = "assistant"
    <2> DEFINE line == [role |-> "assistant", calls |-> next.calls]
    <2>1. Expand(lines, next) = Append(lines, line)
        BY <1>5 DEF Expand
    <2>2. line \in Lines /\ line.calls = next.calls
        BY <1>3 DEF Lines
    <2> HIDE DEF line
    <2>3. lines \o <<line>> = Append(lines, line) /\ <<line>> \in Seq(Lines) /\ Len(<<line>>) = 1 /\ <<line>>[1] = line
        BY <1>1, <2>2, AppendIsConcat
    <2>4. /\ lines \o <<line>> \in Seq(Lines) /\ Len(lines \o <<line>>) = Len(lines) + 1
          /\ \A i \in 1..Len(lines) : (lines \o <<line>>)[i] = lines[i]
          /\ (lines \o <<line>>)[Len(lines) + 1] = line
        <3>1. /\ lines \o <<line>> \in Seq(Lines) /\ Len(lines \o <<line>>) = Len(lines) + Len(<<line>>)
              /\ \A i \in 1..Len(lines) : (lines \o <<line>>)[i] = lines[i]
              /\ \A i \in 1..Len(<<line>>) : (lines \o <<line>>)[Len(lines) + i] = <<line>>[i]
            BY <1>1, <2>3, Adjoined
        <3>2. 1 \in 1..1
            OBVIOUS
        <3>. QED
            BY <2>3, <3>1, <3>2
    <2>5. DOMAIN (lines \o <<line>>) = 1..Len(lines) + 1
        BY <2>4, LenProperties
    <2>6. lines \o <<line>> # <<>> /\ (lines \o <<line>>)[1].role = "system"
        <3>1. Len(lines \o <<line>>) # 0
            BY <1>1, <2>4
        <3>. QED
            BY <1>1, <2>4, <3>1
    <2>7. ASSUME NEW i \in 1..Len(lines) + 1, (lines \o <<line>>)[i].role = "assistant"
          PROVE  \/ Answered(lines \o <<line>>, i)
                 \/ i = Len(lines) + 1 /\ (lines \o <<line>>)[i].calls = next.calls
        <3>1. CASE i = Len(lines) + 1
            BY <2>2, <2>4, <3>1
        <3>2. CASE i \in 1..Len(lines)
            <4>1. Answered(lines, i)
                BY <1>2, <1>5, <2>4, <2>7, <3>2
            <4>. QED
                BY <1>1, <2>3, <3>2, <4>1, StaysAnswered
        <3>. QED
            BY <1>1, <3>1, <3>2
    <2>. QED
        BY <1>5, <2>1, <2>3, <2>4, <2>5, <2>6, <2>7 DEF ConvertedUpTo
<1>. QED
    BY <1>3, <1>4, <1>5

(* The turns of a conversation: instructions, and behind every answer a    *)
(* turn with the results of its calls.                                     *)
TakesTurns(turns) ==
  /\ turns \in Seq(Turns) /\ turns # <<>> /\ turns[1] = Said("user", TRUE, NoCalls)
  /\ \A i \in 1..Len(turns) - 1 : turns[i].role = "assistant" =>
       turns[i + 1].role = "user" /\ turns[i + 1].calls = turns[i].calls

LEMMA ConversionAnswers ==
  ASSUME NEW turns, TakesTurns(turns)
  PROVE  ConvertedUpTo(ConvertMessages(turns), Last(turns))
<1>1. /\ turns \in Seq(Turns) /\ Len(turns) \in Nat /\ Len(turns) >= 1 /\ DOMAIN turns = 1..Len(turns)
      /\ turns[1] = Said("user", TRUE, NoCalls)
      /\ \A i \in 1..Len(turns) : turns[i] \in Turns
    <2>1. turns \in Seq(Turns) /\ turns # <<>> /\ turns[1] = Said("user", TRUE, NoCalls)
        BY DEF TakesTurns
    <2>2. Len(turns) \in Nat /\ Len(turns) # 0 /\ DOMAIN turns = 1..Len(turns)
        BY <2>1, LenProperties, EmptySeq
    <2>3. \A i \in 1..Len(turns) : turns[i] \in Turns
        BY <2>1, ElementOfSeq
    <2>. QED
        BY <2>1, <2>2, <2>3
<1>2. PICK so : /\ so[0] = <<>> /\ so[Len(turns)] = ConvertMessages(turns)
                /\ \A j \in 0..Len(turns) - 1 : so[j + 1] = Expand(so[j], turns[j + 1])
    BY <1>1, Converting
<1> DEFINE S == {j \in Nat : j + 1 \in 1..Len(turns) => ConvertedUpTo(so[j + 1], turns[j + 1])}
<1>3. 0 \in S
    <2>1. so[0 + 1] = Expand(so[0], turns[0 + 1]) /\ 0 + 1 = 1
        BY <1>1, <1>2
    <2>2. ConvertedUpTo(so[1], turns[1])
        BY <1>1, <1>2, <2>1, FirstTurn
    <2>. QED
        BY <2>2
<1>4. ASSUME NEW j \in S PROVE j + 1 \in S
    <2>1. ASSUME j + 1 + 1 \in 1..Len(turns) PROVE ConvertedUpTo(so[j + 1 + 1], turns[j + 1 + 1])
        <3>1. j \in Nat /\ j + 1 \in 1..Len(turns) /\ j + 1 \in 1..Len(turns) - 1 /\ j + 1 \in 0..Len(turns) - 1
            BY <1>1, <2>1
        <3>2. ConvertedUpTo(so[j + 1], turns[j + 1])
            BY <3>1
        <3>3. so[j + 1 + 1] = Expand(so[j + 1], turns[j + 1 + 1])
            BY <1>2, <3>1
        <3>4. turns[j + 1].role = "assistant" =>
                turns[j + 1 + 1].role = "user" /\ turns[j + 1 + 1].calls = turns[j + 1].calls
            BY <3>1 DEF TakesTurns
        <3>5. turns[j + 1] \in Turns /\ turns[j + 1 + 1] \in Turns
            BY <1>1, <2>1, <3>1
        <3>. QED
            BY ONLY <3>2, <3>3, <3>4, <3>5, NextTurn
    <2>. QED
        BY <2>1
<1>5. S = Nat
    <2>1. S \in SUBSET Nat
        OBVIOUS
    <2> HIDE DEF S
    <2>. QED
        BY <1>3, <1>4, <2>1, FromZeroOn
<1>6. Len(turns) - 1 \in Nat /\ Len(turns) - 1 + 1 = Len(turns) /\ Len(turns) \in 1..Len(turns)
    BY <1>1
<1>7. Len(turns) - 1 \in S
    <2> HIDE DEF S
    <2>. QED
        BY <1>5, <1>6
<1>. QED
    BY <1>2, <1>6, <1>7 DEF Last

LEMMA TurnTaken ==
  ASSUME NEW turns, TakesTurns(turns), NEW next \in Turns,
         Last(turns).role = "assistant" => next.role = "user" /\ next.calls = Last(turns).calls
  PROVE  /\ TakesTurns(Append(turns, next))
         /\ Last(Append(turns, next)) = next /\ Len(Append(turns, next)) >= 2
<1>1. /\ turns \in Seq(Turns) /\ turns # <<>> /\ turns[1] = Said("user", TRUE, NoCalls)
      /\ \A i \in 1..Len(turns) - 1 : turns[i].role = "assistant" =>
           turns[i + 1].role = "user" /\ turns[i + 1].calls = turns[i].calls
    BY DEF TakesTurns
<1>2. Len(turns) \in Nat /\ Len(turns) >= 1
    <2>1. Len(turns) \in Nat \ {0}
        BY ONLY <1>1, EmptySeq
    <2>. QED
        BY <2>1
<1> DEFINE more == Append(turns, next)
<1>3. /\ more \in Seq(Turns) /\ more # <<>> /\ Len(more) = Len(turns) + 1
      /\ \A i \in 1..Len(turns) : more[i] = turns[i]
      /\ more[Len(turns) + 1] = next
    <2>1. turns \in Seq(Turns)
        BY <1>1
    <2>. QED
        BY ONLY <2>1, next \in Turns, AppendProperties
<1> HIDE DEF more
<1>4. more[1] = Said("user", TRUE, NoCalls)
    <2>1. 1 \in 1..Len(turns)
        BY <1>2
    <2>2. more[1] = turns[1]
        BY <1>3, <2>1
    <2>. QED
        BY <1>1, <2>2
<1>5. ASSUME NEW i \in 1..Len(more) - 1, more[i].role = "assistant"
      PROVE  more[i + 1].role = "user" /\ more[i + 1].calls = more[i].calls
    <2>0. i \in 1..Len(turns) /\ more[i] = turns[i]
        BY <1>2, <1>3
    <2>1. CASE i = Len(turns)
        BY <1>3, <1>5, <2>0, <2>1 DEF Last
    <2>2. CASE i # Len(turns)
        <3>1. i \in 1..Len(turns) - 1 /\ i + 1 \in 1..Len(turns)
            BY <1>2, <2>0, <2>2
        <3>2. more[i + 1] = turns[i + 1]
            BY <1>3, <3>1
        <3>. QED
            BY <1>1, <1>5, <2>0, <3>1, <3>2
    <2>. QED
        BY <2>1, <2>2
<1>6. TakesTurns(more)
    BY <1>3, <1>4, <1>5 DEF TakesTurns
<1>7. Last(more) = next /\ Len(more) >= 2
    BY <1>2, <1>3 DEF Last
<1>. QED
    BY <1>6, <1>7 DEF more

LEMMA TurnTakenBack ==
  ASSUME NEW turns, TakesTurns(turns), Len(turns) >= 2
  PROVE  TakesTurns(Front(turns))
<1>1. /\ turns \in Seq(Turns) /\ turns # <<>> /\ turns[1] = Said("user", TRUE, NoCalls)
      /\ \A i \in 1..Len(turns) - 1 : turns[i].role = "assistant" =>
           turns[i + 1].role = "user" /\ turns[i + 1].calls = turns[i].calls
    BY DEF TakesTurns
<1>2. Len(turns) \in Nat /\ \A i \in 1..Len(turns) : turns[i] \in Turns
    BY <1>1, LenProperties, ElementOfSeq
<1> DEFINE less == SubSeq(turns, 1, Len(turns) - 1)
<1>3. /\ less \in Seq(Turns) /\ Len(less) = Len(turns) - 1
      /\ \A i \in 1..Len(turns) - 1 : less[i] = turns[i]
    <2>1. 1 \in Int /\ Len(turns) - 1 \in Int /\ 1 <= Len(turns) - 1 /\ \A i \in 1..Len(turns) - 1 : turns[i] \in Turns
        BY <1>2
    <2>2. /\ less \in Seq(Turns)
          /\ Len(less) = IF 1 <= Len(turns) - 1 THEN Len(turns) - 1 - 1 + 1 ELSE 0
          /\ \A i \in 1 .. Len(turns) - 1 - 1 + 1 : less[i] = turns[1 + i - 1]
        BY ONLY <2>1, SubSeqProperties
    <2>3. Len(less) = Len(turns) - 1 - 1 + 1 /\ Len(turns) - 1 - 1 + 1 = Len(turns) - 1
        BY <1>2, <2>1, <2>2
    <2>4. ASSUME NEW i \in 1..Len(turns) - 1 PROVE less[i] = turns[i]
        <3>1. 1 + i - 1 = i /\ i \in 1 .. Len(turns) - 1 - 1 + 1
            BY <2>3
        <3>. QED
            BY <2>2, <3>1
    <2>. QED
        BY <2>2, <2>3, <2>4
<1>4. less # <<>> /\ less[1] = Said("user", TRUE, NoCalls)
    <2>1. 1 \in 1..Len(turns) - 1 /\ Len(less) # 0
        BY <1>2, <1>3
    <2>. QED
        BY <1>1, <1>3, <2>1, EmptySeq
<1>5. \A i \in 1..Len(less) - 1 : i \in 1..Len(turns) - 1 /\ i + 1 \in 1..Len(turns) - 1
    BY <1>2, <1>3
<1> HIDE DEF less
<1>6. TakesTurns(less)
    BY <1>1, <1>3, <1>4, <1>5 DEF TakesTurns
<1>. QED
    BY <1>6 DEF Front, less

(***************************************************************************)
(* The calls of an answer, as they are told, held and reported.            *)
(***************************************************************************)
CallOf(n, k) == [name |-> n, args |-> [i \in 1..k |-> n]]
ReportableCalls == {CallOf(n, k) : n \in EditorCalls, k \in Nat}

(* What is buffered is a call that was told, as far as it was; it is not   *)
(* whole, or has no arguments.                                             *)
BuffersHold ==
  \A i \in DOMAIN buffers : \E n \in EditorCalls :
    /\ i = Index(n) /\ i \notin completed /\ told[n] > 0
    /\ buffers[i] = CallOf(n, told[n] - 1)
    /\ Told(n) => Pieces[n] = 0

(* A call that was begun is completed or buffered; without numbers, the    *)
(* buffer may be another's once it is all told.                            *)
BegunAreHeld ==
  \A n \in EditorCalls : told[n] > 0 /\ Index(n) \notin completed =>
    /\ Index(n) \in DOMAIN buffers
    /\ ~Told(n) => buffers[Index(n)].name = n

ToldInOrder == ~indexed => \A m, n \in EditorCalls : m < n /\ told[n] > 0 => Told(m)

Reports(k, n) ==
  /\ reported[k].name = n /\ Index(n) \in completed
  /\ \/ Told(n) /\ reported[k] = CallOf(n, Pieces[n])
     \/ finished /\ OnlyNamed(n) /\ reported[k] = CallOf(n, 0)
ReportedAreTold ==
  /\ reported \in Seq(ReportableCalls)
  /\ \A k \in 1..Len(reported) : \E n \in EditorCalls : Reports(k, n)
  /\ \A j, k \in 1..Len(reported) : reported[j].name = reported[k].name => j = k

CompletedAreReported ==
  /\ indexed => \A n \in EditorCalls :
       n \in completed /\ (finished => Told(n) \/ OnlyNamed(n)) => \E k \in 1..Len(reported) : reported[k].name = n
  /\ finished => DOMAIN buffers = {}

StreamInv ==
  /\ indexed \in BOOLEAN /\ finished \in BOOLEAN
  /\ told \in [EditorCalls -> Nat] /\ \A n \in EditorCalls : told[n] <= Pieces[n] + 1
  /\ BuffersHold /\ BegunAreHeld /\ ToldInOrder /\ ReportedAreTold /\ CompletedAreReported

(* A request is the conversation converted, whose last turn is a person's. *)
ConversationInv ==
  /\ TakesTurns(conversation)
  /\ Waiting => /\ request = ConvertMessages(conversation)
                /\ Len(conversation) >= 2 /\ Last(conversation).role = "user"

EditorChatInv == ConversationInv /\ StreamInv

LEMMA ConversationStarts ==
  ASSUME EditorInit PROVE ConversationInv
<1>1. conversation = <<Said("user", TRUE, NoCalls)>> /\ ~Waiting
    BY DEF EditorInit, Waiting
<1>2. Said("user", TRUE, NoCalls) \in Turns
    <2>1. NoCalls \in Seq(EditorCalls)
        BY EmptySeq DEF NoCalls
    <2>. QED
        BY <2>1 DEF Said, Turns
<1> DEFINE one == Said("user", TRUE, NoCalls)
<1> HIDE DEF one
<1>3. <<one>> \in Seq(Turns) /\ <<one>> # <<>> /\ <<one>>[1] = one /\ Len(<<one>>) = 1
    <2>1. one \in Turns
        BY <1>2 DEF one
    <2>. QED
        BY <2>1
<1>4. TakesTurns(<<one>>)
    <2>1. 1..Len(<<one>>) - 1 = {}
        BY <1>3
    <2>. QED
        BY <1>3, <2>1 DEF TakesTurns, one
<1>. QED
    BY <1>1, <1>4 DEF ConversationInv, one

LEMMA ConversationKept ==
  ASSUME ConversationInv, ReportedAreTold, [EditorNext]_editorVars
  PROVE  ConversationInv'
<1>1. TakesTurns(conversation)
    BY DEF ConversationInv
<1>2. CASE Asks
    <2>1. PICK text \in BOOLEAN :
            LET said == Said("user", text, IF Last(conversation).role = "assistant"
                                           THEN Last(conversation).calls ELSE NoCalls)
            IN  /\ conversation' = Append(conversation, said)
                /\ request' = ConvertMessages(conversation')
        BY <1>2 DEF Asks
    <2>2. PICK said : said = Said("user", text, IF Last(conversation).role = "assistant"
                                           THEN Last(conversation).calls ELSE NoCalls)
        OBVIOUS
    <2>3. conversation' = Append(conversation, said) /\ request' = ConvertMessages(conversation')
        BY <2>1, <2>2
    <2>4. Last(conversation) \in Turns
        <3>1. conversation \in Seq(Turns) /\ conversation # <<>>
            BY <1>1 DEF TakesTurns
        <3>2. Len(conversation) \in Nat \ {0}
            BY ONLY <3>1, EmptySeq
        <3>3. Len(conversation) \in 1..Len(conversation)
            BY <3>2
        <3>. QED
            BY <3>1, <3>3, ElementOfSeq DEF Last
    <2>5. NoCalls \in Seq(EditorCalls)
        BY EmptySeq DEF NoCalls
    <2>6. said \in Turns /\ said.role = "user"
          /\ (Last(conversation).role = "assistant" => said.calls = Last(conversation).calls)
        BY <2>2, <2>4, <2>5 DEF Said, Turns
    <2>7. /\ TakesTurns(conversation')
          /\ Last(conversation') = said /\ Len(conversation') >= 2
        BY <1>1, <2>3, <2>6, TurnTaken
    <2>. QED
        BY <2>3, <2>6, <2>7 DEF ConversationInv
<1>3. CASE StreamDone
    <2> DEFINE names == [k \in DOMAIN reported |-> reported[k].name]
    <2>1. names \in Seq(EditorCalls)
        <3>1. Len(reported) \in Nat /\ DOMAIN reported = 1..Len(reported)
            BY LenProperties DEF ReportedAreTold
        <3>2. \A k \in 1..Len(reported) : reported[k].name \in EditorCalls
            BY DEF ReportedAreTold, Reports
        <3>. QED
            BY <3>1, <3>2
    <2> HIDE DEF names
    <2>2. conversation' = Append(conversation, Said("assistant", TRUE, names)) /\ ~Waiting' /\ Waiting
        BY <1>3 DEF StreamDone, Waiting, names
    <2>3. Said("assistant", TRUE, names) \in Turns
        BY <2>1 DEF Said, Turns
    <2>4. Last(conversation).role # "assistant"
        BY <2>2 DEF ConversationInv
    <2>5. TakesTurns(conversation')
        BY <1>1, <2>2, <2>3, <2>4, TurnTaken
    <2>. QED
        BY <2>2, <2>5 DEF ConversationInv
<1>4. CASE Cancelled
    <2>1. conversation' = Front(conversation) /\ ~Waiting' /\ Waiting
        BY <1>4 DEF Cancelled, Waiting
    <2>2. TakesTurns(conversation')
        BY <1>1, <2>1, TurnTakenBack DEF ConversationInv
    <2>. QED
        BY <2>1, <2>2 DEF ConversationInv
<1>5. CASE UNCHANGED <<conversation, request>>
    BY <1>5 DEF ConversationInv, Waiting
<1>6. (\E n \in EditorCalls : Fragment(n)) \/ Finishes \/ UNCHANGED editorVars => UNCHANGED <<conversation, request>>
    BY DEF Fragment, Finishes, editorVars
<1>. QED
    BY <1>2, <1>3, <1>4, <1>5, <1>6 DEF EditorNext

LEMMA RequestsAnswer ==
  ASSUME ConversationInv PROVE RequestAnswersCalls
<1>1. ASSUME Waiting
      PROVE  /\ request[1].role = "system"
             /\ \A i \in DOMAIN request : request[i].role = "assistant" => Answered(request, i)
    <2>1. ConvertedUpTo(request, Last(conversation)) /\ Last(conversation).role # "assistant"
        BY <1>1, ConversionAnswers DEF ConversationInv
    <2>. QED
        BY <2>1 DEF ConvertedUpTo
<1>. QED
    BY <1>1 DEF RequestAnswersCalls, Answered, ResultOf

LEMMA PieceCounts ==
  \A n \in EditorCalls : Pieces[n] \in Nat /\ n \in Nat \ {0}
<1>1. Pieces \in Seq(Nat)
    BY EditorAssumption
<1>2. Len(Pieces) \in Nat /\ EditorCalls = 1..Len(Pieces)
    BY <1>1, LenProperties DEF EditorCalls
<1>. QED
    BY <1>1, <1>2, ElementOfSeq

LEMMA WholeArguments ==
  ASSUME NEW n \in EditorCalls, NEW k \in Nat
  PROVE  Whole([i \in 1..k |-> n]) <=> k = Pieces[n] /\ k > 0
<1>1. ASSUME Whole([i \in 1..k |-> n]) PROVE k = Pieces[n] /\ k > 0
    <2>1. PICK m \in EditorCalls : Pieces[m] > 0 /\ [i \in 1..k |-> n] = [i \in 1 .. Pieces[m] |-> m]
        BY <1>1 DEF Whole
    <2>2. Pieces[m] \in Nat /\ Pieces[m] > 0
        BY <2>1, PieceCounts
    <2>3. 1..k = 1..Pieces[m]
        BY <2>1
    <2>4. 1 \in 1..Pieces[m] /\ Pieces[m] \in 1..Pieces[m]
        BY <2>2
    <2>5. k = Pieces[m]
        <3>1. 1 \in 1..k /\ Pieces[m] \in 1..k
            BY <2>3, <2>4
        <3>2. k \in 1..Pieces[m]
            BY <2>3, <3>1
        <3>. QED
            BY <2>2, <3>1, <3>2
    <2>6. n = m
        BY <2>1, <2>3, <2>4
    <2>. QED
        BY <2>2, <2>5, <2>6
<1>2. ASSUME k = Pieces[n], k > 0 PROVE Whole([i \in 1..k |-> n])
    BY <1>2 DEF Whole
<1>. QED
    BY <1>1, <1>2

LEMMA CallGrows ==
  ASSUME NEW n \in EditorCalls, NEW k \in Nat
  PROVE  /\ [CallOf(n, k) EXCEPT !.args = Append(@, n)] = CallOf(n, k + 1)
         /\ \A x : [[name |-> x, args |-> <<>>] EXCEPT !.name = n] = CallOf(n, 0)
         /\ CallOf(n, 0).args = <<>>
<1> DEFINE args == [i \in 1..k |-> n]
           more == [i \in 1..k + 1 |-> n]
<1>1. args \in Seq(EditorCalls) /\ Len(args) = k /\ more \in Seq(EditorCalls) /\ Len(more) = k + 1
      /\ (\A i \in 1..k : args[i] = n) /\ (\A i \in 1..k + 1 : more[i] = n)
    OBVIOUS
<1>2. CallOf(n, k) = [name |-> n, args |-> args] /\ CallOf(n, k + 1) = [name |-> n, args |-> more]
    BY DEF CallOf
<1> HIDE DEF args, more
<1>3. Append(args, n) = more
    <2>1. /\ Append(args, n) \in Seq(EditorCalls) /\ Len(Append(args, n)) = k + 1
          /\ \A i \in 1..k : Append(args, n)[i] = args[i]
          /\ Append(args, n)[k + 1] = n
        <3>1. args \in Seq(EditorCalls) /\ n \in EditorCalls /\ Len(args) = k
            BY <1>1
        <3>. QED
            BY ONLY <3>1, AppendProperties
    <2>2. ASSUME NEW i \in 1..k + 1 PROVE Append(args, n)[i] = more[i]
        <3>1. i \in 1..k \/ i = k + 1
            OBVIOUS
        <3>. QED
            BY <1>1, <2>1, <3>1
    <2>. QED
        BY <1>1, <2>1, <2>2, SeqEqual
<1>4. [i \in 1..0 |-> n] = <<>>
    <2> DEFINE none == [i \in 1..0 |-> n]
    <2>1. none \in Seq(EditorCalls) /\ Len(none) = 0
        OBVIOUS
    <2> HIDE DEF none
    <2>2. none = <<>>
        BY <2>1, EmptySeq
    <2>. QED
        BY <2>2 DEF none
<1>5. CallOf(n, 0) = [name |-> n, args |-> <<>>]
    BY <1>4 DEF CallOf
<1>6. [[name |-> n, args |-> args] EXCEPT !.args = Append(@, n)] = [name |-> n, args |-> Append(args, n)]
    OBVIOUS
<1>7. \A x : [[name |-> x, args |-> <<>>] EXCEPT !.name = n] = [name |-> n, args |-> <<>>]
    OBVIOUS
<1>8. CallOf(n, 0).args = <<>>
    BY <1>5
<1>. QED
    BY <1>2, <1>3, <1>5, <1>6, <1>7, <1>8

NothingToldYet ==
  /\ indexed \in BOOLEAN /\ finished = FALSE /\ told = Untold /\ buffers = <<>> /\ completed = {}
  /\ reported = NoCalls

LEMMA StreamStarts == NothingToldYet => StreamInv
<1> SUFFICES ASSUME NothingToldYet PROVE StreamInv
    OBVIOUS
<1> USE DEF NothingToldYet
<1>1. DOMAIN buffers = {} /\ reported = <<>> /\ reported \in Seq(ReportableCalls) /\ 1..Len(reported) = {}
    <2>1. <<>> \in Seq(ReportableCalls) /\ Len(<<>>) = 0 /\ 1..0 = {}
        BY EmptySeq
    <2>. QED
        BY <2>1 DEF NoCalls
<1>2. told \in [EditorCalls -> Nat] /\ \A n \in EditorCalls : told[n] = 0
    BY DEF Untold
<1>3. \A n \in EditorCalls : told[n] <= Pieces[n] + 1 /\ ~(told[n] > 0)
    BY <1>2, PieceCounts
<1>4. BuffersHold /\ BegunAreHeld /\ ToldInOrder
    BY <1>1, <1>3 DEF BuffersHold, BegunAreHeld, ToldInOrder
<1>5. ReportedAreTold /\ CompletedAreReported
    BY <1>1 DEF ReportedAreTold, CompletedAreReported
<1>6. finished \in BOOLEAN
    OBVIOUS
<1>. QED
    BY <1>2, <1>3, <1>4, <1>5, <1>6 DEF StreamInv

(* A fragment of a call goes behind what was told of it.                   *)
LEMMA FragmentFollows ==
  ASSUME StreamInv, NEW n \in EditorCalls, MayTell(n), Index(n) \notin completed
  PROVE  Buffer(n) = CallOf(n, told[n])
<1>1. told[n] \in Nat /\ ~Told(n) /\ n \in Nat /\ n # 0
    BY PieceCounts DEF StreamInv, MayTell
<1>2. \A i \in DOMAIN buffers : \E m \in EditorCalls :
        /\ i = Index(m) /\ told[m] > 0 /\ told[m] \in Nat
        /\ buffers[i] = CallOf(m, told[m] - 1)
        /\ Told(m) => Pieces[m] = 0
    BY DEF StreamInv, BuffersHold
<1>3. CASE told[n] = 0
    <2> DEFINE old == IF Index(n) \in DOMAIN buffers THEN buffers[Index(n)] ELSE [name |-> 0, args |-> <<>>]
    <2>1. \E x : old = [name |-> x, args |-> <<>>]
        <3>1. CASE Index(n) \in DOMAIN buffers
            <4>1. PICK m \in EditorCalls :
                    /\ Index(n) = Index(m) /\ told[m] > 0
                    /\ buffers[Index(n)] = CallOf(m, told[m] - 1)
                    /\ Told(m) => Pieces[m] = 0
                BY <1>2, <3>1
            <4>2. m # n /\ ~indexed
                BY <1>1, <1>3, <4>1 DEF Index
            <4>3. m \in Nat /\ Pieces[m] \in Nat /\ told[m] \in Nat
                BY PieceCounts DEF StreamInv
            <4>4. Told(m)
                <5>1. CASE m < n
                    BY <4>2, <5>1 DEF MayTell
                <5>2. CASE n < m
                    BY <1>1, <4>1, <4>2, <5>2 DEF StreamInv, ToldInOrder
                <5>. QED
                    BY <1>1, <4>2, <4>3, <5>1, <5>2
            <4>5. told[m] - 1 = 0
                BY <4>1, <4>3, <4>4 DEF Told
            <4>6. buffers[Index(n)] = CallOf(m, 0)
                BY <4>1, <4>5
            <4>7. buffers[Index(n)] = [name |-> m, args |-> <<>>]
                BY <4>6, CallGrows DEF CallOf
            <4>. QED
                BY <3>1, <4>7
        <3>. QED
            BY <3>1
    <2>2. Buffer(n) = [old EXCEPT !.name = n]
        BY <1>3 DEF Buffer
    <2> HIDE DEF old
    <2>3. Buffer(n) = CallOf(n, 0)
        BY <2>1, <2>2, CallGrows
    <2>. QED
        BY <1>3, <2>3
<1>4. CASE told[n] # 0
    <2>1. Index(n) \in DOMAIN buffers /\ buffers[Index(n)].name = n
        BY <1>1, <1>4 DEF StreamInv, BegunAreHeld
    <2>2. PICK m \in EditorCalls : buffers[Index(n)] = CallOf(m, told[m] - 1)
        BY <1>2, <2>1
    <2>3. m = n
        BY <2>1, <2>2 DEF CallOf
    <2>4. Buffer(n) = [CallOf(n, told[n] - 1) EXCEPT !.args = Append(@, n)]
        BY <1>4, <2>1, <2>2, <2>3 DEF Buffer
    <2>5. PICK k \in Nat : told[n] - 1 = k /\ told[n] = k + 1
        <3>1. told[n] - 1 \in Nat /\ told[n] = (told[n] - 1) + 1
            BY <1>1, <1>4
        <3>. QED
            BY <3>1
    <2>6. [CallOf(n, k) EXCEPT !.args = Append(@, n)] = CallOf(n, k + 1)
        BY CallGrows
    <2>. QED
        BY <2>4, <2>5, <2>6
<1>. QED
    BY <1>3, <1>4

LEMMA FragmentKeeps ==
  ASSUME StreamInv, NEW n \in EditorCalls, Fragment(n)
  PROVE  StreamInv'
<1>1. /\ MayTell(n) /\ told' = [told EXCEPT ![n] = @ + 1] /\ indexed' = indexed /\ finished' = finished
      /\ told \in [EditorCalls -> Nat] /\ ~finished /\ ~Told(n)
    BY DEF Fragment, MayTell, StreamInv
<1>2. /\ told' \in [EditorCalls -> Nat] /\ told'[n] = told[n] + 1
      /\ \A m \in EditorCalls : m # n => told'[m] = told[m]
    BY <1>1
<1>3. /\ told[n] \in Nat /\ told[n] <= Pieces[n] /\ Pieces[n] \in Nat
      /\ \A m \in EditorCalls : told[m] \in Nat /\ Pieces[m] \in Nat /\ m \in Nat
    <2>1. told[n] <= Pieces[n] + 1 /\ told[n] # Pieces[n] + 1
        BY <1>1 DEF StreamInv, Told
    <2>. QED
        BY <1>1, <2>1, PieceCounts
<1>4. \A m \in EditorCalls : m # n => (Told(m)' <=> Told(m))
    BY <1>2 DEF Told
<1>5. \A m \in EditorCalls : Told(m) => Told(m)' /\ m # n
    BY <1>1, <1>4
<1>6. \A m \in EditorCalls : Index(m)' = Index(m)
    BY <1>1 DEF Index
<1>7. \A m \in EditorCalls : told'[m] <= Pieces[m] + 1
    BY <1>2, <1>3 DEF StreamInv
<1>8. ToldInOrder'
    <2> SUFFICES ASSUME ~indexed, NEW m \in EditorCalls, NEW k \in EditorCalls, m < k, told'[k] > 0
                 PROVE  Told(m)'
        BY <1>1 DEF ToldInOrder
    <2>1. CASE k = n
        BY <1>1, <1>5, <2>1 DEF MayTell
    <2>2. CASE k # n
        BY <1>2, <1>5, <2>2 DEF StreamInv, ToldInOrder
    <2>. QED
        BY <2>1, <2>2
<1>r. /\ reported \in Seq(ReportableCalls) /\ Len(reported) \in Nat
      /\ \A k \in 1..Len(reported) : \E m \in EditorCalls :
           reported[k].name = m /\ Told(m) /\ Index(m) \in completed /\ reported[k] = CallOf(m, Pieces[m])
      /\ \A j, k \in 1..Len(reported) : reported[j].name = reported[k].name => j = k
    <2>1. ReportedAreTold /\ ~finished
        BY <1>1 DEF StreamInv
    <2>2. reported \in Seq(ReportableCalls) /\ Len(reported) \in Nat
        BY <2>1, LenProperties DEF ReportedAreTold
    <2>. QED
        BY <2>1, <2>2 DEF ReportedAreTold, Reports
<1> DEFINE Others(i) == \E m \in EditorCalls :
              /\ m # n /\ i = Index(m) /\ told[m] > 0
              /\ buffers[i] = CallOf(m, told[m] - 1)
              /\ Told(m) => Pieces[m] = 0
<1>9. \A i \in DOMAIN buffers : i \notin completed /\ (i = Index(n) \/ Others(i))
    BY DEF StreamInv, BuffersHold
<1>10. ASSUME NEW i \in DOMAIN buffers, i # Index(n), i \notin completed', i \in DOMAIN buffers', buffers'[i] = buffers[i]
       PROVE  \E m \in EditorCalls :
                /\ i = Index(m)' /\ i \notin completed' /\ told'[m] > 0
                /\ buffers'[i] = CallOf(m, told'[m] - 1)
                /\ Told(m)' => Pieces[m] = 0
    <2>1. PICK m \in EditorCalls :
              /\ m # n /\ i = Index(m) /\ told[m] > 0
              /\ buffers[i] = CallOf(m, told[m] - 1)
              /\ Told(m) => Pieces[m] = 0
        BY <1>9, <1>10
    <2>. QED
        BY <1>2, <1>4, <1>6, <1>10, <2>1
<1>11. CASE Index(n) \in completed /\ UNCHANGED <<buffers, completed, reported>>
    <2>1. BuffersHold'
        <3>1. \A i \in DOMAIN buffers : i # Index(n)
            BY <1>9, <1>11
        <3>2. buffers' = buffers /\ completed' = completed
            BY <1>11
        <3>3. \A i \in DOMAIN buffers' : \E m \in EditorCalls :
                /\ i = Index(m)' /\ i \notin completed' /\ told'[m] > 0
                /\ buffers'[i] = CallOf(m, told'[m] - 1)
                /\ Told(m)' => Pieces[m] = 0
            BY <1>9, <1>10, <3>1, <3>2
        <3>. QED
            BY <3>3 DEF BuffersHold
    <2>2. BegunAreHeld'
        <3>1. ASSUME NEW m \in EditorCalls, told'[m] > 0, Index(m)' \notin completed'
              PROVE  Index(m)' \in DOMAIN buffers' /\ (~Told(m)' => buffers'[Index(m)'].name = m)
            <4>1. m # n
                BY <1>6, <1>11, <3>1
            <4>2. told[m] > 0 /\ Index(m) \notin completed /\ (Told(m)' <=> Told(m))
                BY <1>2, <1>4, <1>6, <1>11, <3>1, <4>1
            <4>3. Index(m) \in DOMAIN buffers /\ (~Told(m) => buffers[Index(m)].name = m)
                BY <4>2 DEF StreamInv, BegunAreHeld
            <4>. QED
                BY <1>6, <1>11, <4>2, <4>3
        <3>. QED
            BY <3>1 DEF BegunAreHeld
    <2>3. ReportedAreTold'
        <3>1. reported' = reported /\ completed' = completed
            BY <1>11
        <3>2. ASSUME NEW k \in 1..Len(reported) PROVE \E m \in EditorCalls : Reports(k, m)'
            <4>1. PICK m \in EditorCalls :
                    reported[k].name = m /\ Told(m) /\ Index(m) \in completed /\ reported[k] = CallOf(m, Pieces[m])
                BY <1>r
            <4>. QED
                BY <1>5, <1>6, <3>1, <4>1 DEF Reports
        <3>. QED
            BY <1>r, <3>1, <3>2 DEF ReportedAreTold
    <2>4. CompletedAreReported'
        BY <1>1, <1>11 DEF StreamInv, CompletedAreReported
    <2>. QED
        BY <1>1, <1>2, <1>7, <1>8, <2>1, <2>2, <2>3, <2>4 DEF StreamInv
<1>12. Index(n) \notin completed => Buffer(n) = CallOf(n, told[n])
    BY <1>1, FragmentFollows
<1>13. Index(n) \notin completed => (Whole(Buffer(n).args) <=> told[n] = Pieces[n] /\ told[n] > 0)
    <2>1. CallOf(n, told[n]).args = [i \in 1..told[n] |-> n]
        BY DEF CallOf
    <2>. QED
        BY <1>3, <1>12, <2>1, WholeArguments
<1>14. CASE /\ Index(n) \notin completed /\ Whole(Buffer(n).args)
            /\ reported' = Append(reported, Buffer(n))
            /\ completed' = completed \union {Index(n)}
            /\ buffers' = Restrict(buffers, DOMAIN buffers \ {Index(n)})
    <2>1. told[n] = Pieces[n] /\ told[n] > 0 /\ Buffer(n) = CallOf(n, Pieces[n])
        BY <1>12, <1>13, <1>14
    <2>2. Told(n)' /\ Buffer(n) \in ReportableCalls /\ Buffer(n).name = n
        <3>1. Told(n)'
            BY <1>2, <2>1 DEF Told
        <3>2. Buffer(n) \in ReportableCalls
            BY <1>3, <2>1 DEF ReportableCalls
        <3>3. Buffer(n).name = n
            BY <2>1 DEF CallOf
        <3>. QED
            BY <3>1, <3>2, <3>3
    <2>3. DOMAIN buffers' = DOMAIN buffers \ {Index(n)}
          /\ \A i \in DOMAIN buffers' : buffers'[i] = buffers[i]
        BY <1>14 DEF Restrict
    <2>4. BuffersHold'
        <3>1. \A i \in DOMAIN buffers' : i \in DOMAIN buffers /\ i # Index(n) /\ i \notin completed'
            BY <1>9, <1>14, <2>3
        <3>2. \A i \in DOMAIN buffers' : \E m \in EditorCalls :
                /\ i = Index(m)' /\ i \notin completed' /\ told'[m] > 0
                /\ buffers'[i] = CallOf(m, told'[m] - 1)
                /\ Told(m)' => Pieces[m] = 0
            BY <1>10, <2>3, <3>1
        <3>. QED
            BY <3>2 DEF BuffersHold
    <2>5. BegunAreHeld'
        <3>1. ASSUME NEW m \in EditorCalls, told'[m] > 0, Index(m)' \notin completed'
              PROVE  Index(m)' \in DOMAIN buffers' /\ (~Told(m)' => buffers'[Index(m)'].name = m)
            <4>1. m # n /\ Index(m) # Index(n) /\ Index(m) \notin completed
                BY <1>6, <1>14, <3>1
            <4>2. told[m] > 0 /\ (Told(m)' <=> Told(m))
                BY <1>2, <1>4, <3>1, <4>1
            <4>3. Index(m) \in DOMAIN buffers /\ (~Told(m) => buffers[Index(m)].name = m)
                BY <4>1, <4>2 DEF StreamInv, BegunAreHeld
            <4>. QED
                BY <1>6, <2>3, <4>1, <4>2, <4>3
        <3>. QED
            BY <3>1 DEF BegunAreHeld
    <2>6. /\ reported \in Seq(ReportableCalls) /\ Len(reported) \in Nat
          /\ reported' \in Seq(ReportableCalls) /\ Len(reported') = Len(reported) + 1
          /\ \A k \in 1..Len(reported) : reported'[k] = reported[k]
          /\ reported'[Len(reported) + 1] = Buffer(n)
        <3>. QED
            BY <1>14, <1>r, <2>2, AppendProperties, LenProperties
    <2>7. \A k \in 1..Len(reported) :
            /\ reported[k].name \in EditorCalls
            /\ Told(reported[k].name) /\ Index(reported[k].name) \in completed
        BY <1>r
    <2>8. \A k \in 1..Len(reported') : k \in 1..Len(reported) \/ k = Len(reported) + 1
        BY <2>6
    <2>9. \A k \in 1..Len(reported) : reported'[k].name # n
        BY <1>14, <2>6, <2>7
    <2>10. ReportedAreTold'
        <3>1. \A k \in 1..Len(reported') : \E m \in EditorCalls : Reports(k, m)'
            <4> TAKE k \in 1..Len(reported')
            <4>1. CASE k \in 1..Len(reported)
                <5>1. PICK m \in EditorCalls :
                        reported[k].name = m /\ Told(m) /\ Index(m) \in completed /\ reported[k] = CallOf(m, Pieces[m])
                    BY <1>r, <4>1
                <5>2. reported'[k] = reported[k]
                    BY <2>6, <4>1
                <5>. QED
                    BY <1>5, <1>6, <1>14, <5>1, <5>2 DEF Reports
            <4>2. CASE k = Len(reported) + 1
                <5>1. reported'[k] = Buffer(n)
                    BY <2>6, <4>2
                <5>. QED
                    BY <1>6, <1>14, <2>1, <2>2, <5>1 DEF Reports
            <4>. QED
                BY <2>8, <4>1, <4>2
        <3>2. ASSUME NEW j \in 1..Len(reported'), NEW k \in 1..Len(reported'),
                     reported'[j].name = reported'[k].name
              PROVE  j = k
            <4>1. CASE j \in 1..Len(reported) /\ k \in 1..Len(reported)
                BY <1>r, <2>6, <3>2, <4>1
            <4>2. CASE j = Len(reported) + 1 /\ k \in 1..Len(reported)
                BY <2>2, <2>6, <2>9, <3>2, <4>2
            <4>3. CASE k = Len(reported) + 1 /\ j \in 1..Len(reported)
                BY <2>2, <2>6, <2>9, <3>2, <4>3
            <4>. QED
                BY <2>8, <4>1, <4>2, <4>3
        <3>. QED
            BY <2>6, <3>1, <3>2 DEF ReportedAreTold
    <2>11. CompletedAreReported'
        <3>1. ASSUME indexed, NEW m \in EditorCalls, m \in completed'
              PROVE  \E k \in 1..Len(reported') : reported'[k].name = m
            <4>1. CASE m \in completed
                <5>1. PICK k \in 1..Len(reported) : reported[k].name = m
                    BY <1>1, <3>1, <4>1 DEF StreamInv, CompletedAreReported
                <5>2. k \in 1..Len(reported') /\ reported'[k].name = m
                    BY <2>6, <5>1
                <5>. QED
                    BY <5>2
            <4>2. CASE m \notin completed
                <5>1. m = n
                    BY <1>14, <3>1, <4>2 DEF Index
                <5>2. Len(reported) + 1 \in 1..Len(reported')
                    BY <2>6
                <5>. QED
                    BY <2>2, <2>6, <5>1, <5>2
            <4>. QED
                BY <4>1, <4>2
        <3>. QED
            BY <1>1, <3>1 DEF CompletedAreReported
    <2>. QED
        BY <1>1, <1>2, <1>7, <1>8, <2>4, <2>5, <2>10, <2>11 DEF StreamInv
<1>15. CASE /\ Index(n) \notin completed /\ ~Whole(Buffer(n).args)
            /\ buffers' = [i \in DOMAIN buffers \union {Index(n)} |->
                             IF i = Index(n) THEN Buffer(n) ELSE buffers[i]]
            /\ UNCHANGED <<completed, reported>>
    <2>1. told[n] = Pieces[n] => Pieces[n] = 0
        BY <1>3, <1>13, <1>15
    <2>2. /\ Buffer(n) = CallOf(n, told[n]) /\ Buffer(n).name = n
          /\ completed' = completed /\ reported' = reported
        BY <1>12, <1>15 DEF CallOf
    <2>3. /\ DOMAIN buffers' = DOMAIN buffers \union {Index(n)}
          /\ buffers'[Index(n)] = Buffer(n)
          /\ \A i \in DOMAIN buffers : i # Index(n) => buffers'[i] = buffers[i]
        BY <1>15
    <2>4. BuffersHold'
        <3>1. ASSUME NEW i \in DOMAIN buffers'
              PROVE  \E m \in EditorCalls :
                /\ i = Index(m)' /\ i \notin completed' /\ told'[m] > 0
                /\ buffers'[i] = CallOf(m, told'[m] - 1)
                /\ Told(m)' => Pieces[m] = 0
            <4>1. CASE i = Index(n)
                <5>1. told'[n] - 1 = told[n] /\ told'[n] > 0 /\ (Told(n)' => told[n] = Pieces[n])
                    BY <1>2, <1>3 DEF Told
                <5>. QED
                    BY <1>6, <1>15, <2>1, <2>2, <2>3, <4>1, <5>1
            <4>2. CASE i # Index(n)
                BY <1>9, <1>10, <2>2, <2>3, <4>2
            <4>. QED
                BY <4>1, <4>2
        <3>. QED
            BY <3>1 DEF BuffersHold
    <2>5. BegunAreHeld'
        <3>1. ASSUME NEW m \in EditorCalls, told'[m] > 0, Index(m)' \notin completed'
              PROVE  Index(m)' \in DOMAIN buffers' /\ (~Told(m)' => buffers'[Index(m)'].name = m)
            <4>1. CASE m = n
                BY <1>6, <2>2, <2>3, <4>1
            <4>2. CASE m # n
                <5>1. told[m] > 0 /\ (Told(m)' <=> Told(m)) /\ Index(m) \notin completed
                    BY <1>2, <1>4, <1>6, <2>2, <3>1, <4>2
                <5>2. Index(m) \in DOMAIN buffers /\ (~Told(m) => buffers[Index(m)].name = m)
                    BY <5>1 DEF StreamInv, BegunAreHeld
                <5>3. CASE Index(m) # Index(n)
                    BY <1>6, <2>3, <5>1, <5>2, <5>3
                <5>4. CASE Index(m) = Index(n)
                    <6>1. ~indexed
                        BY <4>2, <5>4 DEF Index
                    <6>2. Told(m)
                        <7>1. CASE m < n
                            BY <1>1, <6>1, <7>1 DEF MayTell
                        <7>2. CASE n < m
                            BY <1>1, <5>1, <6>1, <7>2 DEF StreamInv, ToldInOrder
                        <7>. QED
                            BY <1>3, <4>2, <7>1, <7>2
                    <6>. QED
                        BY <1>6, <2>3, <5>1, <5>2, <6>2
                <5>. QED
                    BY <5>3, <5>4
            <4>. QED
                BY <4>1, <4>2
        <3>. QED
            BY <3>1 DEF BegunAreHeld
    <2>6. ReportedAreTold'
        <3>1. reported' = reported /\ completed' = completed
            BY <2>2
        <3>2. ASSUME NEW k \in 1..Len(reported) PROVE \E m \in EditorCalls : Reports(k, m)'
            <4>1. PICK m \in EditorCalls :
                    reported[k].name = m /\ Told(m) /\ Index(m) \in completed /\ reported[k] = CallOf(m, Pieces[m])
                BY <1>r
            <4>. QED
                BY <1>5, <1>6, <3>1, <4>1 DEF Reports
        <3>. QED
            BY <1>r, <3>1, <3>2 DEF ReportedAreTold
    <2>7. CompletedAreReported'
        BY <1>1, <2>2 DEF StreamInv, CompletedAreReported
    <2>. QED
        BY <1>1, <1>2, <1>7, <1>8, <2>4, <2>5, <2>6, <2>7 DEF StreamInv
<1>. QED
    BY <1>11, <1>14, <1>15 DEF Fragment

LEMMA FinishKeeps ==
  ASSUME StreamInv, Finishes
  PROVE  StreamInv'
<1>1. /\ told' = told /\ indexed' = indexed /\ finished' = TRUE
      /\ completed' = completed \union DOMAIN buffers /\ buffers' = <<>>
      /\ told \in [EditorCalls -> Nat] /\ ~finished
    BY DEF Finishes, FlushAll, StreamInv
<1>2. DOMAIN buffers' = {}
    BY <1>1
<1>4. \A m \in EditorCalls : Index(m)' = Index(m) /\ (Told(m)' <=> Told(m)) /\ (OnlyNamed(m)' <=> OnlyNamed(m))
    BY <1>1 DEF Index, Told, OnlyNamed
<1>5. ASSUME NEW i \in DOMAIN buffers
      PROVE  /\ i \notin completed
             /\ \E m \in EditorCalls :
                  /\ i = Index(m)
                  /\ i \in Flushed => OnlyNamed(m) /\ buffers[i] = CallOf(m, 0)
                  /\ Told(m) \/ OnlyNamed(m) => i \in Flushed
    <2>1. PICK m \in EditorCalls :
             /\ i = Index(m) /\ i \notin completed /\ told[m] > 0
             /\ buffers[i] = CallOf(m, told[m] - 1)
             /\ Told(m) => Pieces[m] = 0
        BY DEF StreamInv, BuffersHold
    <2>2. told[m] \in Nat /\ told[m] - 1 \in Nat /\ Pieces[m] \in Nat
        BY <1>1, <2>1, PieceCounts
    <2>3. CallOf(m, told[m] - 1).args = [j \in 1..told[m] - 1 |-> m]
        BY DEF CallOf
    <2>4. ~Whole(buffers[i].args)
        <3>1. ASSUME Whole(buffers[i].args) PROVE told[m] - 1 = Pieces[m] /\ told[m] - 1 > 0
            BY <2>1, <2>2, <2>3, <3>1, WholeArguments
        <3>. QED
            BY <2>1, <2>2, <3>1 DEF Told
    <2>5. buffers[i].args = <<>> => told[m] - 1 = 0
        <3>1. DOMAIN buffers[i].args = 1..told[m] - 1
            BY <2>1, <2>3
        <3>2. DOMAIN <<>> = {}
            OBVIOUS
        <3>3. 1..told[m] - 1 = {} => told[m] - 1 = 0
            BY <2>2
        <3>. QED
            BY <3>1, <3>2, <3>3
    <2>6. OnlyNamed(m) <=> told[m] - 1 = 0
        BY <2>2 DEF OnlyNamed
    <2>7. i \in Flushed => OnlyNamed(m) /\ buffers[i] = CallOf(m, 0)
        BY <2>1, <2>4, <2>5, <2>6 DEF Flushed
    <2>8. Told(m) => OnlyNamed(m)
        BY <2>1, <2>2 DEF Told, OnlyNamed
    <2>9. OnlyNamed(m) => i \in Flushed
        BY <2>1, <2>6, CallGrows DEF Flushed
    <2>. QED
        BY <2>1, <2>7, <2>8, <2>9
<1>6. IsFiniteSet(Flushed)
    <2>1. Len(Pieces) \in Nat /\ EditorCalls = 1..Len(Pieces)
        <3>1. Pieces \in Seq(Nat)
            BY EditorAssumption
        <3>. QED
            BY <3>1, LenProperties DEF EditorCalls
    <2>2. IsFiniteSet(0..Len(Pieces))
        BY <2>1, FS_Interval
    <2>3. Flushed \subseteq 0..Len(Pieces)
        <3>1. ASSUME NEW i \in Flushed PROVE i \in 0..Len(Pieces)
            <4>1. PICK m \in EditorCalls : i = Index(m)
                BY <1>5 DEF Flushed
            <4>. QED
                BY <2>1, <4>1 DEF Index
        <3>. QED
            BY <3>1
    <2>. QED
        BY <2>2, <2>3, FS_Subset
<1>7. PICK c \in Nat : c = Cardinality(Flushed)
    BY <1>6, FS_CardinalityType
<1>8. PICK order \in Bijection(1..c, Flushed) : reported' = reported \o [k \in DOMAIN order |-> buffers[order[k]]]
    BY <1>7 DEF Finishes, FlushAll
<1>9. /\ DOMAIN order = 1..c
      /\ \A k \in 1..c : order[k] \in Flushed /\ order[k] \in DOMAIN buffers
      /\ \A j, k \in 1..c : order[j] = order[k] => j = k
      /\ \A i \in Flushed : \E k \in 1..c : order[k] = i
    <2>1. /\ order \in [1..c -> Flushed]
          /\ \A j, k \in 1..c : order[j] = order[k] => j = k
          /\ \A i \in Flushed : \E k \in 1..c : order[k] = i
        BY DEF Bijection, Injection, Surjection, IsInjective
    <2>2. Flushed \subseteq DOMAIN buffers
        BY DEF Flushed
    <2>. QED
        BY <1>5, <2>1, <2>2
<1> DEFINE added == [k \in DOMAIN order |-> buffers[order[k]]]
<1>10. \A k \in 1..c : added[k] = buffers[order[k]]
    BY <1>9
<1>11. \A k \in 1..c : \E m \in EditorCalls :
         /\ added[k] = CallOf(m, 0) /\ added[k].name = m /\ OnlyNamed(m)
         /\ order[k] = Index(m) /\ Index(m) \notin completed /\ Index(m) \in completed'
    <2> TAKE k \in 1..c
    <2>1. order[k] \in DOMAIN buffers /\ order[k] \in Flushed
        BY <1>9
    <2>2. PICK m \in EditorCalls : order[k] = Index(m) /\ OnlyNamed(m) /\ buffers[order[k]] = CallOf(m, 0)
        BY <1>5, <2>1
    <2>3. added[k] = CallOf(m, 0)
        BY <1>10, <2>2
    <2>4. CallOf(m, 0).name = m
        BY DEF CallOf
    <2>5. Index(m) \notin completed /\ Index(m) \in completed'
        BY <1>1, <1>5, <2>1, <2>2
    <2>. QED
        BY <2>2, <2>3, <2>4, <2>5
<1>12. added \in Seq(ReportableCalls) /\ Len(added) = c
    <2>0. \A m \in EditorCalls : CallOf(m, 0) \in ReportableCalls
        <3>1. 0 \in Nat
            OBVIOUS
        <3>. QED
            BY <3>1 DEF ReportableCalls
    <2>1. \A k \in 1..c : added[k] \in ReportableCalls
        BY ONLY <1>11, <2>0
    <2>2. DOMAIN added = 1..c /\ added = [k \in 1..c |-> added[k]]
        BY <1>9
    <2> HIDE DEF added
    <2>. QED
        BY <2>1, <2>2
<1> HIDE DEF added
<1>13. reported \in Seq(ReportableCalls) /\ ReportedAreTold
    BY DEF StreamInv, ReportedAreTold
<1>14. /\ reported' \in Seq(ReportableCalls) /\ Len(reported') = Len(reported) + c
       /\ Len(reported) \in Nat
       /\ \A k \in 1..Len(reported) : reported'[k] = reported[k]
       /\ \A k \in 1..c : reported'[Len(reported) + k] = added[k]
    <2>1. reported' = reported \o added
        BY <1>8 DEF added
    <2>2. /\ reported \o added \in Seq(ReportableCalls) /\ Len(reported \o added) = Len(reported) + Len(added)
          /\ Len(reported) \in Nat
          /\ \A i \in 1..Len(reported) : (reported \o added)[i] = reported[i]
          /\ \A i \in 1..Len(added) : (reported \o added)[Len(reported) + i] = added[i]
        <3>1. reported \in Seq(ReportableCalls) /\ added \in Seq(ReportableCalls)
            BY <1>12, <1>13
        <3>. QED
            BY ONLY <3>1, Adjoined
    <2>. QED
        BY <1>12, <2>1, <2>2
<1>15. \A k \in 1..Len(reported) : \E m \in EditorCalls :
         /\ reported'[k].name = m /\ Told(m) /\ Index(m) \in completed
         /\ reported'[k] = CallOf(m, Pieces[m])
    BY <1>1, <1>13, <1>14 DEF ReportedAreTold, Reports
<1>16. ASSUME NEW k \in 1..Len(reported')
       PROVE  k \in 1..Len(reported) \/ \E l \in 1..c : k = Len(reported) + l
    <2>1. CASE k \notin 1..Len(reported)
        <3>1. k - Len(reported) \in 1..c /\ k = Len(reported) + (k - Len(reported))
            BY <1>14, <2>1
        <3>. QED
            BY <3>1
    <2>. QED
        BY <2>1
<1>17. ReportedAreTold'
    <2>1. \A k \in 1..Len(reported') : \E m \in EditorCalls : Reports(k, m)'
        <3> TAKE k \in 1..Len(reported')
        <3>1. CASE k \in 1..Len(reported)
            BY <1>1, <1>4, <1>15, <3>1 DEF Reports
        <3>2. CASE k \notin 1..Len(reported)
            <4>1. PICK l \in 1..c : k = Len(reported) + l
                BY <1>16, <3>2
            <4>2. reported'[k] = added[l]
                BY <1>14, <4>1
            <4>. QED
                BY <1>1, <1>4, <1>11, <4>2 DEF Reports
        <3>. QED
            BY <3>1, <3>2
    <2>2. ASSUME NEW k \in 1..Len(reported), NEW l \in 1..c PROVE reported'[k].name # added[l].name
        BY <1>11, <1>15
    <2>3. ASSUME NEW j \in 1..c, NEW l \in 1..c, added[j].name = added[l].name PROVE j = l
        BY <1>9, <1>11, <2>3
    <2>4. ASSUME NEW j \in 1..Len(reported'), NEW k \in 1..Len(reported'),
                 reported'[j].name = reported'[k].name
          PROVE  j = k
        <3>1. CASE j \in 1..Len(reported) /\ k \in 1..Len(reported)
            BY <1>13, <1>14, <2>4, <3>1 DEF ReportedAreTold
        <3>2. CASE j \in 1..Len(reported) /\ k \notin 1..Len(reported)
            <4>1. PICK l \in 1..c : k = Len(reported) + l
                BY <1>16, <3>2
            <4>. QED
                BY <1>14, <2>2, <2>4, <3>2, <4>1
        <3>3. CASE k \in 1..Len(reported) /\ j \notin 1..Len(reported)
            <4>1. PICK l \in 1..c : j = Len(reported) + l
                BY <1>16, <3>3
            <4>. QED
                BY <1>14, <2>2, <2>4, <3>3, <4>1
        <3>4. CASE j \notin 1..Len(reported) /\ k \notin 1..Len(reported)
            <4>1. PICK h \in 1..c : j = Len(reported) + h
                BY <1>16, <3>4
            <4>2. PICK l \in 1..c : k = Len(reported) + l
                BY <1>16, <3>4
            <4>3. added[h].name = added[l].name
                BY <1>14, <2>4, <4>1, <4>2
            <4>. QED
                BY <2>3, <4>1, <4>2, <4>3
        <3>. QED
            BY <3>1, <3>2, <3>3, <3>4
    <2>. QED
        BY <1>14, <2>1, <2>4 DEF ReportedAreTold
<1>18. CompletedAreReported'
    <2>1. ASSUME indexed, NEW m \in EditorCalls, m \in completed', Told(m) \/ OnlyNamed(m)
          PROVE  \E k \in 1..Len(reported') : reported'[k].name = m
        <3>1. CASE m \in completed
            <4>1. PICK k \in 1..Len(reported) : reported[k].name = m
                BY <1>1, <2>1, <3>1 DEF StreamInv, CompletedAreReported
            <4>2. k \in 1..Len(reported') /\ reported'[k].name = m
                BY <1>14, <4>1
            <4>. QED
                BY <4>2
        <3>2. CASE m \in DOMAIN buffers
            <4>0. m \in Flushed
                <5>1. PICK l \in EditorCalls : m = Index(l) /\ (Told(l) \/ OnlyNamed(l) => m \in Flushed)
                    BY <1>5, <3>2
                <5>. QED
                    BY <2>1, <5>1 DEF Index
            <4>1. PICK k \in 1..c : order[k] = m
                BY <1>9, <4>0
            <4>2. added[k].name = m
                BY <1>11, <2>1, <4>1 DEF Index
            <4>3. Len(reported) + k \in 1..Len(reported')
                BY <1>14
            <4>. QED
                BY <1>14, <4>2, <4>3
        <3>. QED
            BY <1>1, <2>1, <3>1, <3>2
    <2>. QED
        BY <1>1, <1>2, <1>4, <2>1 DEF CompletedAreReported
<1>19. BuffersHold'
    BY <1>2 DEF BuffersHold
<1>20. BegunAreHeld'
    <2>1. ASSUME NEW m \in EditorCalls, told'[m] > 0 PROVE Index(m)' \in completed'
        BY <1>1, <1>4, <2>1 DEF StreamInv, BegunAreHeld
    <2>. QED
        BY <2>1 DEF BegunAreHeld
<1>21. ToldInOrder'
    BY <1>1, <1>4 DEF StreamInv, ToldInOrder
<1>22. \A m \in EditorCalls : told'[m] <= Pieces[m] + 1
    BY <1>1 DEF StreamInv
<1>23. indexed' \in BOOLEAN /\ finished' \in BOOLEAN
    BY <1>1 DEF StreamInv
<1>. QED
    BY <1>1, <1>17, <1>18, <1>19, <1>20, <1>21, <1>22, <1>23 DEF StreamInv

LEMMA StreamKept == StreamInv /\ [EditorNext]_editorVars => StreamInv'
<1> SUFFICES ASSUME StreamInv, [EditorNext]_editorVars PROVE StreamInv'
    OBVIOUS
<1>1. CASE Asks
    <2>1. NothingToldYet'
        BY <1>1 DEF Asks, NothingToldYet, StreamInv, Untold, NoCalls, EditorCalls
    <2>. QED
        BY <2>1, StreamStarts, PTL
<1>2. ASSUME NEW n \in EditorCalls, Fragment(n) PROVE StreamInv'
    BY <1>2, FragmentKeeps
<1>3. CASE Finishes
    BY <1>3, FinishKeeps
<1>4. CASE StreamDone \/ Cancelled \/ UNCHANGED editorVars
    <2>1. UNCHANGED <<indexed, told, buffers, completed, reported, finished>>
        BY <1>4 DEF StreamDone, Cancelled, editorVars
    <2>. QED
        BY <2>1 DEF StreamInv, BuffersHold, BegunAreHeld, ToldInOrder, ReportedAreTold, CompletedAreReported,
                    Told, Index, Reports, OnlyNamed
<1>. QED
    BY <1>1, <1>2, <1>3, <1>4 DEF EditorNext

LEMMA CallsStayWhole ==
  ASSUME StreamInv PROVE CallsAreWhole
<1>1. reported \in Seq(ReportableCalls) /\ ReportedAreTold /\ DOMAIN reported = 1..Len(reported)
    BY LenProperties DEF StreamInv, ReportedAreTold
<1>2. ASSUME NEW k \in DOMAIN reported
      PROVE  \E n \in EditorCalls :
               /\ reported[k].name = n
               /\ \/ Told(n) /\ reported[k].args = [i \in 1 .. Pieces[n] |-> n]
                  \/ finished /\ OnlyNamed(n) /\ reported[k].args = <<>>
    <2>1. PICK n \in EditorCalls : Reports(k, n)
        BY <1>1 DEF ReportedAreTold
    <2>2. CallOf(n, Pieces[n]).args = [i \in 1 .. Pieces[n] |-> n] /\ CallOf(n, 0).args = <<>>
        BY CallGrows DEF CallOf
    <2>. QED
        BY <2>1, <2>2 DEF Reports
<1>3. ASSUME finished, indexed
      PROVE  {reported[k].name : k \in DOMAIN reported} = {n \in EditorCalls : Told(n) \/ OnlyNamed(n)}
    <2>1. \A k \in DOMAIN reported : reported[k].name \in {n \in EditorCalls : Told(n) \/ OnlyNamed(n)}
        BY <1>2
    <2>2. ASSUME NEW n \in EditorCalls, Told(n) \/ OnlyNamed(n) PROVE \E k \in DOMAIN reported : reported[k].name = n
        <3>1. told[n] > 0
            BY <2>2, PieceCounts DEF Told, OnlyNamed
        <3>2. n \in completed
            BY <1>3, <3>1 DEF StreamInv, BegunAreHeld, CompletedAreReported, Index
        <3>. QED
            BY <1>1, <1>3, <2>2, <3>2 DEF StreamInv, CompletedAreReported
    <2>. QED
        BY <2>1, <2>2
<1>4. ASSUME NEW k \in DOMAIN reported
      PROVE  LET n == reported[k].name
             IN  \/ Told(n) /\ reported[k].args = [i \in 1 .. Pieces[n] |-> n]
                 \/ finished /\ OnlyNamed(n) /\ reported[k].args = <<>>
    BY <1>2
<1>5. \A j, k \in DOMAIN reported : reported[j].name = reported[k].name => j = k
    BY <1>1 DEF ReportedAreTold
<1>. QED
    BY <1>3, <1>4, <1>5 DEF CallsAreWhole

(* The editor is told of a call of a tool once, and only whole, or as {}   *)
(* when the answer was cut behind its name; where the provider numbers the *)
(* calls, of every such one; and a request carries the results of every    *)
(* answer right behind it.                                                 *)
THEOREM CallsStayKept == EditorSpec => []EditorKeepsCalls
<1>1. EditorInit => EditorChatInv
    <2> SUFFICES ASSUME EditorInit PROVE EditorChatInv
        OBVIOUS
    <2>1. NothingToldYet
        BY DEF EditorInit, NothingToldYet
    <2>. QED
        BY <2>1, StreamStarts, ConversationStarts DEF EditorChatInv
<1>2. EditorChatInv /\ [EditorNext]_editorVars => EditorChatInv'
    <2> SUFFICES ASSUME EditorChatInv, [EditorNext]_editorVars PROVE EditorChatInv'
        OBVIOUS
    <2>1. StreamInv'
        BY StreamKept DEF EditorChatInv
    <2>2. ConversationInv'
        BY ConversationKept DEF EditorChatInv, StreamInv
    <2>. QED
        BY <2>1, <2>2 DEF EditorChatInv
<1>3. EditorChatInv => EditorKeepsCalls
    BY CallsStayWhole, RequestsAnswer DEF EditorChatInv, EditorKeepsCalls
<1>. QED
    BY <1>1, <1>2, <1>3, PTL DEF EditorSpec

=============================================================================
