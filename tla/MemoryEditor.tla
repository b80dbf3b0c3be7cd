---------------------------- MODULE MemoryEditor ----------------------------
(***************************************************************************)
(* The editor beside the lists of the memory page.  A row of a list is     *)
(* copied when it is selected; its fields are typed over and sent whole;   *)
(* the answer replaces the copy and the list is loaded again.  One editor  *)
(* serves row after row while its saves, deletions and loads are still in  *)
(* flight, and the night or another client changes and deletes rows.  A    *)
(* text is known by the row it is about and a number; the fields of a row  *)
(* (title, tags and so on) are one text.  Rows in FocusKeys are entries of *)
(* the focus: they are put, not patched, and their answer is not read.     *)
(***************************************************************************)
EXTENDS Naturals, Sequences, SequencesExt

CONSTANTS
  Rows,
  FocusKeys,
  NoRow,
  MaxTexts,      \* bound on the texts written or typed
  MaxRequests    \* bound on the requests in flight

ASSUME EditorRowsAssumption ==
  FocusKeys \subseteq Rows /\ NoRow \notin Rows /\ {MaxTexts, MaxRequests} \subseteq Nat

VARIABLES
  stored,     \* row -> its text on the server
  listed,     \* row -> its text as the list was loaded
  selected,   \* the row in the editor and the copy of its text
  fields,     \* what the fields of the editor hold
  dirty,      \* whether they were typed in since
  modal,      \* confirmDelete: the row the dialog asks about
  requests,   \* requests in flight
  texts,      \* texts so far
  deleted     \* history: rows of a table that were deleted

editorPageVars == <<stored, listed, selected, fields, dirty, modal, requests, texts, deleted>>

NoText == [of |-> NoRow, v |-> 0]
Nothing == [row |-> NoRow, text |-> NoText]
NewText(r) == [of |-> r, v |-> texts + 1]

\* The copy a click on the list makes.
Copy(r) == [row |-> r, text |-> listed[r]]

Sent(request) ==
  Len(requests) < MaxRequests /\ requests' = Append(requests, request)

EditorPageInit ==
  /\ stored = [r \in Rows |-> [of |-> r, v |-> 0]]
  /\ listed = stored
  /\ selected = Nothing /\ fields = NoText /\ dirty = FALSE /\ modal = NoRow
  /\ requests = <<>> /\ texts = 0 /\ deleted = {}

-----------------------------------------------------------------------------
\* Mutant: an editor that is open already keeps its fields.
KeepsFields(copy) ==
  /\ dirty' = FALSE
  /\ fields' = IF selected = Nothing THEN copy.text ELSE fields

\* The watcher on the selected row: resetFrom.
ResetFrom(copy) == fields' = copy.text /\ dirty' = FALSE

Select(copy) == selected' = copy /\ ResetFrom(copy)

Selects(r) ==
  /\ listed[r] # NoText
  /\ Select(Copy(r))
  /\ UNCHANGED <<stored, listed, modal, requests, texts, deleted>>

\* The cross of the editor, or another tab.
Closes ==
  /\ selected # Nothing /\ Select(Nothing)
  /\ UNCHANGED <<stored, listed, modal, requests, texts, deleted>>

Types ==
  /\ selected # Nothing /\ texts < MaxTexts
  /\ fields' = NewText(selected.row) /\ texts' = texts + 1
  /\ dirty' = TRUE
  /\ UNCHANGED <<stored, listed, selected, modal, requests, deleted>>

\* All fields go, whichever of them were typed.
BuildPatch == [kind |-> "save", row |-> selected.row, text |-> fields, at |-> "sent"]

\* handleSave: the button is dead before the answer.
Saves ==
  /\ selected # Nothing /\ dirty
  /\ Sent(BuildPatch)
  /\ dirty' = FALSE
  /\ UNCHANGED <<stored, listed, selected, fields, modal, texts, deleted>>

\* The cross of a row in the list or the button of the editor.
AsksToRemove(r) ==
  /\ listed[r] # NoText \/ selected.row = r
  /\ modal = NoRow /\ modal' = r
  /\ UNCHANGED <<stored, listed, selected, fields, dirty, requests, texts, deleted>>

CancelsDelete ==
  /\ modal # NoRow /\ modal' = NoRow
  /\ UNCHANGED <<stored, listed, selected, fields, dirty, requests, texts, deleted>>

\* The dialog stays open until the answer; a second click sends a second one.
ConfirmsDelete ==
  /\ modal # NoRow
  /\ Sent([kind |-> "delete", row |-> modal, at |-> "sent"])
  /\ UNCHANGED <<stored, listed, selected, fields, dirty, modal, texts, deleted>>

-----------------------------------------------------------------------------
Becomes(i, at) == requests' = [requests EXCEPT ![i].at = at]

\* Mutant: a patch writes a row whether it is there or not.
AlwaysThere(r) == TRUE

\* A patch or a deletion of a row that is gone is answered 404.
Patchable(r) == r \in FocusKeys \/ stored[r] # NoText

ServerSaves(i) ==
  /\ requests[i].kind = "save" /\ Patchable(requests[i].row)
  /\ stored' = [stored EXCEPT ![requests[i].row] = requests[i].text]
  /\ Becomes(i, "made")
  /\ UNCHANGED deleted

Removes(r) ==
  /\ stored' = [stored EXCEPT ![r] = NoText]
  /\ deleted' = IF r \in FocusKeys THEN deleted ELSE deleted \cup {r}

ServerDeletes(i) ==
  /\ requests[i].kind = "delete" /\ Patchable(requests[i].row)
  /\ Removes(requests[i].row)
  /\ Becomes(i, "made")

ServerLists(i) ==
  /\ requests[i].kind = "load"
  /\ requests' = [requests EXCEPT ![i].at = "made", ![i].got = stored]
  /\ UNCHANGED <<stored, deleted>>

\* 404, 422 or no network.
Refused(i) == Becomes(i, "refused") /\ UNCHANGED <<stored, deleted>>

ServerHandles(i) ==
  /\ i \in DOMAIN requests /\ requests[i].at = "sent"
  /\ ServerSaves(i) \/ ServerDeletes(i) \/ ServerLists(i) \/ Refused(i)
  /\ UNCHANGED <<listed, selected, fields, dirty, modal, texts>>

-----------------------------------------------------------------------------
\* Whoever waited for request i goes on: the list is loaded.  A deletion
\* closes its dialog once that load is over.
ThenLoads(i, closes) ==
  requests' = Append(RemoveAt(requests, i),
                     [kind |-> "load", closes |-> closes, got |-> listed, at |-> "sent"])

SaveAnswered(i) ==
  /\ requests[i].kind = "save" /\ requests[i].at = "made"
  /\ LET r == requests[i].row IN
       IF selected.row = r /\ r \notin FocusKeys
       THEN Select([row |-> r, text |-> requests[i].text])
       ELSE UNCHANGED <<selected, fields, dirty>>
  /\ ThenLoads(i, FALSE)
  /\ UNCHANGED <<listed, modal>>

DeleteAnswered(i) ==
  /\ requests[i].kind = "delete" /\ requests[i].at = "made"
  /\ IF selected.row = requests[i].row THEN Select(Nothing)
     ELSE UNCHANGED <<selected, fields, dirty>>
  /\ ThenLoads(i, TRUE)
  /\ UNCHANGED <<listed, modal>>

LoadOver(i) ==
  /\ requests[i].kind = "load" /\ requests[i].at # "sent"
  /\ listed' = IF requests[i].at = "made" THEN requests[i].got ELSE listed
  /\ modal' = IF requests[i].closes THEN NoRow ELSE modal
  /\ requests' = RemoveAt(requests, i)
  /\ UNCHANGED <<selected, fields, dirty>>

\* Nobody catches the error of a save or of a deletion.
RefusalAnswered(i) ==
  /\ requests[i].kind # "load" /\ requests[i].at = "refused"
  /\ requests' = RemoveAt(requests, i)
  /\ UNCHANGED <<listed, selected, fields, dirty, modal>>

Answered(i) ==
  /\ i \in DOMAIN requests
  /\ SaveAnswered(i) \/ DeleteAnswered(i) \/ LoadOver(i) \/ RefusalAnswered(i)
  /\ UNCHANGED <<stored, texts, deleted>>

\* The night, a tool or another client.
SomebodyWrites(r) ==
  /\ stored[r] # NoText /\ texts < MaxTexts
  /\ stored' = [stored EXCEPT ![r] = NewText(r)] /\ texts' = texts + 1
  /\ UNCHANGED <<listed, selected, fields, dirty, modal, requests, deleted>>

SomebodyDeletes(r) ==
  /\ stored[r] # NoText /\ Removes(r)
  /\ UNCHANGED <<listed, selected, fields, dirty, modal, requests, texts>>

EditorPageNext ==
  \/ \E r \in Rows : Selects(r) \/ AsksToRemove(r) \/ SomebodyWrites(r) \/ SomebodyDeletes(r)
  \/ Closes \/ Types \/ Saves \/ CancelsDelete \/ ConfirmsDelete
  \/ \E i \in 1 .. MaxRequests : ServerHandles(i) \/ Answered(i)

EditorPageSpec == EditorPageInit /\ [][EditorPageNext]_editorPageVars

-----------------------------------------------------------------------------
\* However selections, edits, saves, their answers and deletions overlap, no
\* row is ever given the text of another, neither on the server nor in the
\* fields, and a row of a table that was deleted is not brought back by a
\* save that was on its way.
EditsStayWithTheirRow ==
  /\ \A r \in Rows : stored[r] \in {NoText} \cup [of : {r}, v : 0 .. texts]
  /\ selected # Nothing => fields.of = selected.row
  /\ \A r \in deleted : stored[r] = NoText
=============================================================================
