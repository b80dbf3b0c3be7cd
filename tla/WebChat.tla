------------------------------ MODULE WebChat ------------------------------
(***************************************************************************)
(* The chat page of the web client.  One list of messages is on the screen *)
(* and several asynchronous functions write it: the load of a chat that    *)
(* was opened, the stream of an answer, a new chat and a deletion.  Of a   *)
(* message the model keeps the role and the chat its text belongs to.      *)
(***************************************************************************)
EXTENDS Naturals, Sequences, SequencesExt

CONSTANTS
  Chats,       \* ids of chats, saved or yet to be drawn (randomUUID)
  NoChat,      \* currentChatId is null
  MaxScreen    \* bound: messages on the screen before one more is sent

ASSUME WebAssumption == NoChat \notin Chats /\ MaxScreen \in Nat

VARIABLES
  known,        \* ids the client may click on
  currentChatId,
  messages,     \* what is on the screen
  opening,        \* opened chats whose messages have not come yet
  deleting,     \* deletions sent and not answered
  stream,       \* the running sendMessage
  astray        \* history: a load failed, or was overtaken by another action

webVars == <<known, currentChatId, messages, opening, deleting, stream, astray>>

NoStream == [at |-> "off"]
streaming == stream # NoStream

Message(role, c) == [role |-> role, chat |-> c]

WebInit ==
  /\ known \in SUBSET Chats
  /\ currentChatId = NoChat /\ messages = <<>>
  /\ opening = {} /\ deleting = {} /\ stream = NoStream /\ astray = FALSE

\* Something moves the screen while the messages of a chat are on their way.
Overtakes == astray' = (astray \/ opening # {})

---------------------------------------------------------------------------
\* The id is set at once and the messages later; a stream keeps it out.
MayOpenAnyTime == TRUE  \* Mutant: opened in the middle of a stream.
MayOpen == ~streaming
OpenChat(c) ==
  /\ MayOpen /\ c \in known /\ c \notin opening
  /\ currentChatId' = c /\ opening' = opening \union {c}
  /\ Overtakes /\ UNCHANGED <<known, messages, deleting, stream>>

\* Whatever chat is the current one by now.
Opened(c) ==
  /\ c \in opening /\ opening' = opening \ {c}
  /\ messages' \in {<<>>, <<Message("user", c)>>, <<Message("user", c), Message("assistant", c)>>}
  /\ UNCHANGED <<known, currentChatId, deleting, stream, astray>>

\* The id stays and so does what was on the screen.
OpenFails(c) ==
  /\ c \in opening /\ opening' = opening \ {c}
  /\ astray' = TRUE
  /\ UNCHANGED <<known, currentChatId, messages, deleting, stream>>

CreateNewChat(c) ==
  /\ ~streaming /\ c \notin known
  /\ currentChatId' = c /\ messages' = <<>> /\ known' = known \union {c}
  /\ Overtakes /\ UNCHANGED <<opening, deleting, stream>>

\* A deletion may be asked for and answered in the middle of a stream.
AsksToDelete(c) ==
  /\ c \in known \ deleting
  /\ deleting' = deleting \union {c}
  /\ UNCHANGED <<known, currentChatId, messages, opening, stream, astray>>

Deleted(c) ==
  /\ c \in deleting /\ deleting' = deleting \ {c}
  /\ IF currentChatId = c
     THEN currentChatId' = NoChat /\ messages' = <<>> /\ Overtakes
     ELSE UNCHANGED <<currentChatId, messages, astray>>
  /\ UNCHANGED <<known, opening, stream>>

DeleteFails(c) ==
  /\ c \in deleting /\ deleting' = deleting \ {c}
  /\ UNCHANGED <<known, currentChatId, messages, opening, stream, astray>>

---------------------------------------------------------------------------
\* The question and an empty answer are shown, and the request sent, without
\* an await; without a chat one is drawn.
SendMessage(c) ==
  /\ ~streaming /\ Len(messages) <= MaxScreen
  /\ IF currentChatId = NoChat THEN c \notin known ELSE c = currentChatId
  /\ currentChatId' = c /\ known' = known \union {c}
  /\ messages' = messages \o <<Message("user", c), Message("assistant", c)>>
  /\ stream' = [at |-> "asked", chat |-> c, aborted |-> FALSE]
  /\ Overtakes /\ UNCHANGED <<opening, deleting>>

\* Text of the stream goes into the last message, if that is an answer.
UpdateLastAssistant ==
  IF messages # <<>> /\ Last(messages).role = "assistant"
  THEN messages' = [messages EXCEPT ![Len(messages)].chat = stream.chat]
  ELSE UNCHANGED messages

\* Headers come; of an agent as of a model the text is read in chunks, and
\* the screen is painted between two.
StreamStarts ==
  /\ stream.at = "asked" /\ ~stream.aborted
  /\ stream' = [stream EXCEPT !.at = "read"]
  /\ UNCHANGED <<known, currentChatId, messages, opening, deleting, astray>>

ReadsChunk ==
  /\ stream.at = "read"
  /\ UpdateLastAssistant
  /\ UNCHANGED <<known, currentChatId, opening, deleting, stream, astray>>

\* The stream is over, for an error or an abort its text tells so.  Without
\* content the reasoning is shown instead.
AnswerEnds ==
  /\ streaming
  /\ \/ stream.at = "read" /\ UNCHANGED messages
     \/ UpdateLastAssistant
  /\ stream' = NoStream
  /\ UNCHANGED <<known, currentChatId, opening, deleting, astray>>

\* The reader is cancelled; the function goes on until it notices.
CancelStream ==
  /\ streaming /\ ~stream.aborted
  /\ stream' = [stream EXCEPT !.aborted = TRUE]
  /\ UNCHANGED <<known, currentChatId, messages, opening, deleting, astray>>

WebNext ==
  \/ \E c \in Chats : \/ OpenChat(c) \/ Opened(c) \/ OpenFails(c) \/ CreateNewChat(c)
                      \/ AsksToDelete(c) \/ Deleted(c) \/ DeleteFails(c) \/ SendMessage(c)
  \/ StreamStarts \/ ReadsChunk \/ AnswerEnds \/ CancelStream

WebSpec == WebInit /\ [][WebNext]_webVars

---------------------------------------------------------------------------
\* As long as no load of messages failed or was overtaken, the screen, which
\* is the history the next question is sent with, holds the messages of the
\* current chat only: streams, deletions and new chats do not mix two chats.
ScreenIsOneChat ==
  ~astray /\ opening = {} => \A m \in ToSet(messages) : m.chat = currentChatId
=============================================================================
