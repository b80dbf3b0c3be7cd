----------------------------- MODULE EditorChat -----------------------------
(***************************************************************************)
(* The editor extension: a conversation of the editor is converted to the  *)
(* messages of a request, and the streamed answer is reported back, calls  *)
(* of tools put together from their fragments.  The editor runs the calls  *)
(* it was told of and answers them in its next message.  A call is known   *)
(* by its number; the arguments of call n are Pieces[n] fragments, which   *)
(* parse as JSON only when all are there.                                  *)
(***************************************************************************)
EXTENDS Naturals, Sequences, SequencesExt, FiniteSets, Functions

CONSTANTS
  Pieces,      \* <<fragments of call 1, of call 2, ...>>, 0 for no arguments
  MaxTurns     \* bound: requests of a conversation

ASSUME EditorAssumption == MaxTurns \in Nat /\ Pieces \in Seq(Nat)

VARIABLES
  conversation, \* what the editor hands over, oldest first
  request,      \* the converted messages, empty between requests
  indexed,      \* the provider numbers the calls of a stream
  told,         \* call -> the messages the server has streamed of it
  buffers,      \* index -> [name, args], of calls not yet whole
  completed,    \* indices that take no more fragments
  reported,     \* the calls the editor was told of
  finished      \* the server has sent a finish reason

editorVars == <<conversation, request, indexed, told, buffers, completed, reported, finished>>

EditorCalls == DOMAIN Pieces
NoCalls == <<>>
Untold == [n \in EditorCalls |-> 0]
Said(role, text, calls) == [role |-> role, text |-> text, calls |-> calls]

---------------------------------------------------------------------------
\* One message of the editor: the results it bundles become messages of their
\* own before its text, and the first text without any is the system prompt.
ExpandTextFirst(sofar, m) ==  \* Mutant: the results go behind the text.
  IF m.role = "user"
  THEN (IF m.text THEN Append(sofar, [role |-> IF sofar = <<>> THEN "system" ELSE "user", calls |-> NoCalls]) ELSE sofar)
       \o [i \in DOMAIN m.calls |-> [role |-> "tool", calls |-> <<m.calls[i]>>]]
  ELSE Append(sofar, [role |-> "assistant", calls |-> m.calls])
Expand(sofar, m) ==
  LET results == [i \in DOMAIN m.calls |-> [role |-> "tool", calls |-> <<m.calls[i]>>]]
      prompted == \E i \in DOMAIN sofar : sofar[i].role = "system"
      role == IF ~prompted /\ m.calls = NoCalls THEN "system" ELSE "user"
      text == IF m.text THEN <<[role |-> role, calls |-> NoCalls]>> ELSE <<>>
  IN  IF m.role = "user" THEN sofar \o results \o text
      ELSE Append(sofar, [role |-> "assistant", calls |-> m.calls])

ConvertMessages(messages) == FoldLeft(Expand, <<>>, messages)

\* The instructions come first.
EditorInit ==
  /\ conversation = <<Said("user", TRUE, NoCalls)>>
  /\ indexed \in BOOLEAN
  /\ request = <<>> /\ told = Untold /\ buffers = <<>> /\ completed = {}
  /\ reported = NoCalls /\ finished = FALSE

Waiting == request # <<>>

\* A turn of the person, or the results of every call of the last answer.
Asks ==
  /\ ~Waiting
  /\ Cardinality({i \in DOMAIN conversation : conversation[i].role = "assistant"}) < MaxTurns
  /\ \E text \in BOOLEAN :
       LET turn == Said("user", text, IF Last(conversation).role = "assistant"
                                      THEN Last(conversation).calls ELSE NoCalls)
       IN  /\ text \/ turn.calls # NoCalls
           /\ conversation' = Append(conversation, turn)
           /\ request' = ConvertMessages(conversation')
  /\ told' = Untold /\ buffers' = <<>> /\ completed' = {} /\ reported' = NoCalls /\ finished' = FALSE
  /\ UNCHANGED indexed

---------------------------------------------------------------------------
\* The server streams the name of a call and then each fragment; without
\* numbers, a call is over before the next one begins.
Told(n) == told[n] = Pieces[n] + 1
MayTell(n) ==
  /\ ~finished /\ ~Told(n)
  /\ \A m \in EditorCalls : m < n => Told(m) \/ (indexed /\ told[m] > 0)

Whole(args) == \E n \in EditorCalls : Pieces[n] > 0 /\ args = [i \in 1 .. Pieces[n] |-> n]

\* A fragment goes to the buffer of its index, 0 where it has none, and the
\* call is reported as soon as its arguments parse.
Index(n) == IF indexed THEN n ELSE 0
Buffer(n) ==
  LET old == IF Index(n) \in DOMAIN buffers THEN buffers[Index(n)] ELSE [name |-> 0, args |-> <<>>]
  IN  IF told[n] = 0 THEN [old EXCEPT !.name = n] ELSE [old EXCEPT !.args = Append(@, n)]

Fragment(n) ==
  /\ Waiting /\ MayTell(n) /\ told' = [told EXCEPT ![n] = @ + 1]
  /\ \/ /\ Index(n) \in completed
        /\ UNCHANGED <<buffers, completed, reported>>
     \/ /\ Index(n) \notin completed /\ Whole(Buffer(n).args)
        /\ reported' = Append(reported, Buffer(n))
        /\ completed' = completed \union {Index(n)}
        /\ buffers' = Restrict(buffers, DOMAIN buffers \ {Index(n)})
     \/ /\ Index(n) \notin completed /\ ~Whole(Buffer(n).args)
        /\ buffers' = [i \in DOMAIN buffers \union {Index(n)} |->
                         IF i = Index(n) THEN Buffer(n) ELSE buffers[i]]
        /\ UNCHANGED <<completed, reported>>
  /\ UNCHANGED <<conversation, request, indexed, finished>>

\* At a finish reason or [DONE] what is buffered is reported, no arguments
\* taken for {}, and what does not parse is dropped.
Flushed == {i \in DOMAIN buffers : buffers[i].args = <<>> \/ Whole(buffers[i].args)}
FlushAll ==
  /\ \E order \in Bijection(1 .. Cardinality(Flushed), Flushed) :
       /\ \A j, k \in DOMAIN order : j < k => order[j] < order[k]
       /\ reported' = reported \o [k \in DOMAIN order |-> buffers[order[k]]]
  /\ completed' = completed \union DOMAIN buffers
  /\ buffers' = <<>>

\* A finish reason, or [DONE]; the proxy sends that after an error chunk too,
\* which is ignored here, so calls may be half told.
Finishes ==
  /\ Waiting /\ ~finished /\ finished' = TRUE
  /\ FlushAll
  /\ UNCHANGED <<conversation, request, indexed, told>>

\* The stream ends, finished or not.
StreamDone ==
  /\ Waiting
  /\ conversation' = Append(conversation,
                            Said("assistant", TRUE, [k \in DOMAIN reported |-> reported[k].name]))
  /\ request' = <<>>
  /\ UNCHANGED <<indexed, told, buffers, completed, reported, finished>>

\* The person cancels; the turn is as if it had not been asked.
Cancelled ==
  /\ Waiting
  /\ request' = <<>> /\ conversation' = Front(conversation)
  /\ UNCHANGED <<indexed, told, buffers, completed, reported, finished>>

EditorNext == Asks \/ (\E n \in EditorCalls : Fragment(n)) \/ Finishes \/ StreamDone \/ Cancelled

EditorSpec == EditorInit /\ [][EditorNext]_editorVars

---------------------------------------------------------------------------
\* Every call the editor is told of is one that was streamed, with its own
\* name and all its arguments, and no call twice.  Of one that a cut answer
\* left half told it hears only when not one fragment of its arguments had
\* come: it is then reported with none, as {} (provider.ts:250), never with
\* some of them or another's.  Where the provider numbers the calls and the
\* answer ends, no other call is lost.
OnlyNamed(n) == told[n] = 1
CallsAreWhole ==
  /\ \A k \in DOMAIN reported :
       LET n == reported[k].name
       IN  \/ Told(n) /\ reported[k].args = [i \in 1 .. Pieces[n] |-> n]
           \/ finished /\ OnlyNamed(n) /\ reported[k].args = <<>>
  /\ \A j, k \in DOMAIN reported : reported[j].name = reported[k].name => j = k
  /\ finished /\ indexed =>
       {reported[k].name : k \in DOMAIN reported} = {n \in EditorCalls : Told(n) \/ OnlyNamed(n)}

\* The request starts with the system prompt, and the results of the calls of
\* an answer stand right behind it, all of them, before any text.
RequestAnswersCalls ==
  Waiting =>
    /\ request[1].role = "system"
    /\ \A i \in DOMAIN request : request[i].role = "assistant" =>
         \A k \in DOMAIN request[i].calls :
           /\ i + k \in DOMAIN request
           /\ request[i + k] = [role |-> "tool", calls |-> <<request[i].calls[k]>>]

EditorKeepsCalls == CallsAreWhole /\ RequestAnswersCalls
=============================================================================
