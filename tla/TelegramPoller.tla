--------------------------- MODULE TelegramPoller ---------------------------
(***************************************************************************)
(* The Telegram poller: it reads the newest messages of a chat, applies    *)
(* the commands of those after the last one it handled to a list of tasks, *)
(* sends a receipt for each, and saves the list and the last id in two     *)
(* focus keys, one after the other.  One of the two lists is enough.       *)
(***************************************************************************)
EXTENDS Integers, FiniteSets, Sequences

CONSTANTS
  MaxMessages,  \* bound: messages in the chat
  PageLimit,    \* messages read at a time
  MaxDeaths    \* bound: deaths of the process

ASSUME PollerAssumption ==
  MaxMessages \in Nat /\ PageLimit \in Nat \ {0} /\ MaxDeaths \in Nat

VARIABLES
  chat,      \* the commands sent so far; a message's id is its place
  saved,     \* focus key tasks.state: numbers of the open tasks, in order
  lastId,    \* focus key tg.poller.last_id
  poll,      \* the poll in progress
  deaths,
  applied    \* history: messages whose commands went into `saved`

pollerVars == <<chat, saved, lastId, poll, deaths, applied>>

Commands == {[kind |-> "add"], [kind |-> "other"]}
              \union {[kind |-> "done", id |-> n] : n \in 1..MaxMessages}
Resting == [at |-> "idle"]

PollerTypeOK ==
  /\ \A i \in DOMAIN chat : chat[i] \in Commands
  /\ \A i \in DOMAIN saved : saved[i] \in 1..MaxMessages * (MaxDeaths + 1)
  /\ \A i, j \in DOMAIN saved : i < j => saved[i] < saved[j]
  /\ lastId \in 0..Len(chat) /\ deaths \in 0..MaxDeaths
  /\ applied \subseteq DOMAIN chat

PollerInit == /\ chat = <<>> /\ saved = <<>> /\ lastId = 0
              /\ poll = Resting /\ deaths = 0 /\ applied = {}

(* applyCommand: a new task is numbered after the greatest open one. *)
NextNumber(list) == IF list = <<>> THEN 1 ELSE list[Len(list)] + 1
ApplyCommand(list, cmd) ==
  CASE cmd.kind = "add"  -> Append(list, NextNumber(list))
    [] cmd.kind = "done" -> SelectSeq(list, LAMBDA n : n # cmd.id)
    [] OTHER             -> list

MessageArrives == /\ Len(chat) < MaxMessages
                  /\ \E cmd \in Commands : chat' = Append(chat, cmd)
                  /\ UNCHANGED <<saved, lastId, poll, deaths, applied>>

(* A poll is skipped while one goes on; the last id is read before the     *)
(* inbox, the list after it.                                               *)
PollBegins == /\ poll = Resting
              /\ poll' = [at |-> "reading", last |-> lastId]
              /\ UNCHANGED <<chat, saved, lastId, deaths, applied>>

Page(last) == {i \in DOMAIN chat : i > last /\ i > Len(chat) - PageLimit}

InboxIsRead ==
  /\ poll.at = "reading"
  /\ poll' = IF Page(poll.last) = {} THEN Resting
             ELSE [at |-> "applying", fresh |-> Page(poll.last), todo |-> Page(poll.last),
                   list |-> saved]
  /\ UNCHANGED <<chat, saved, lastId, deaths, applied>>
InboxFails == /\ poll.at = "reading" /\ poll' = Resting
              /\ UNCHANGED <<chat, saved, lastId, deaths, applied>>

(* One command, and its receipt, which may fail without consequence. *)
CommandApplied ==
  /\ poll.at = "applying" /\ poll.todo # {}
  /\ LET i == CHOOSE i \in poll.todo : \A j \in poll.todo : i <= j
     IN  poll' = [poll EXCEPT !.todo = @ \ {i}, !.list = ApplyCommand(@, chat[i])]
  /\ UNCHANGED <<chat, saved, lastId, deaths, applied>>

Last(set) == CHOOSE i \in set : \A j \in set : j <= i

(* The list is saved, then the id: two statements, two commits. *)
IdComesFirst == /\ lastId' = Last(poll.fresh)
                /\ UNCHANGED <<saved, applied>>
StateIsWritten == /\ saved' = poll.list
                  /\ applied' = applied \union poll.fresh
                  /\ UNCHANGED lastId
HandledUpTo(fresh) == Last(fresh)

PollSaves == /\ poll.at = "applying" /\ poll.todo = {}
             /\ StateIsWritten
             /\ poll' = [at |-> "saved", fresh |-> poll.fresh, list |-> poll.list]
             /\ UNCHANGED <<chat, deaths>>
PollEnds == /\ poll.at = "saved"
            /\ lastId' = HandledUpTo(poll.fresh)
            /\ poll' = Resting
            /\ UNCHANGED <<chat, saved, deaths, applied>>

PollerDies == /\ deaths < MaxDeaths /\ deaths' = deaths + 1
              /\ poll' = Resting
              /\ UNCHANGED <<chat, saved, lastId, applied>>

PollerNext == MessageArrives \/ PollBegins \/ InboxIsRead \/ InboxFails \/ CommandApplied
              \/ PollSaves \/ PollEnds \/ PollerDies

PollerSpec == PollerInit /\ [][PollerNext]_pollerVars

---------------------------------------------------------------------------
(* Newer messages pushed the command off the page before it was read. *)
PushedOut(i) == i + PageLimit <= Len(chat)

(* No command is skipped: the last id never passes one that the saved list *)
(* lacks, whenever the process dies, unless it was off the page.           *)
NothingIsSkipped == \A i \in 1..lastId : i \in applied \/ PushedOut(i)

=============================================================================
