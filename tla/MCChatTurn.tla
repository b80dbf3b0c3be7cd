----------------------------- MODULE MCChatTurn -----------------------------
(***************************************************************************)
(* A chat from both ends: the turn on the server, with what it stores, and *)
(* the clients: the chat page, the list pages and the memory editor of the *)
(* web and the extension of the code editor.  A client takes what a server *)
(* may answer as its inputs and no two share a variable, so every          *)
(* behaviour here moves only the one it has picked.                        *)
(***************************************************************************)
EXTENDS ChatTurn, WebChat, ListPages, MemoryEditor, EditorChat

CONSTANTS q1, q2

VARIABLE picked

MCPieces == <<0, 2, 1>>

\* Bound: as the server makes one change, one mutation is in flight.
OneMutation == \A v, w \in Views : v # w => mutating[v] = "no" \/ mutating[w] = "no"

clientVars == <<webVars, listVars, editorPageVars, editorVars>>
allVars == <<vars, clientVars, picked>>

MCInit == /\ Init /\ WebInit /\ ListsInit /\ EditorPageInit /\ EditorInit
          /\ picked \in {"turn", "web", "lists", "rows", "editor"}
          \* A client that was not picked keeps one of its initial states.
          /\ picked = "web" \/ known = {}
          /\ picked = "lists" \/ (page = "memory" /\ query = CHOOSE q \in Queries : TRUE)
          /\ picked = "editor" \/ indexed

MCNext ==
  /\ UNCHANGED picked
  /\ \/ picked = "turn" /\ Next /\ UNCHANGED clientVars
     \/ picked = "web" /\ WebNext /\ UNCHANGED <<vars, listVars, editorPageVars, editorVars>>
     \/ picked = "lists" /\ ListsNext /\ OneMutation' /\ UNCHANGED <<vars, webVars, editorPageVars, editorVars>>
     \/ picked = "rows" /\ EditorPageNext /\ UNCHANGED <<vars, webVars, listVars, editorVars>>
     \/ picked = "editor" /\ EditorNext /\ UNCHANGED <<vars, webVars, listVars, editorPageVars>>

MCFairness == \A r \in Requests : WF_vars(picked = "turn" /\ Step(r))

MCSpec == MCInit /\ [][MCNext]_allVars /\ MCFairness

=============================================================================
