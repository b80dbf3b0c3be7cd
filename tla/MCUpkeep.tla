------------------------------ MODULE MCUpkeep ------------------------------
(***************************************************************************)
(* The run of a night over the log, and five of its steps with everybody    *)
(* who writes the tables they work on: the tasks, layer2_context,           *)
(* layer1_focus, the window of log embeddings, and the facts told across    *)
(* the tables.  No two are about the same rows (of layer2_context one       *)
(* module judges single rows, the other what they tell; of the prune of     *)
(* layer1_focus the run has an action of its own) and each awaits only its  *)
(* own calls, so a behaviour of all is any interleaving of one of each;     *)
(* every behaviour here moves only the one it has picked.                   *)
(***************************************************************************)
EXTENDS TaskBoard, ContextPrune, FocusPrune, LogWindow, MemoryLayers, NightCycle

VARIABLE picked

MCRows == {1, 2}
MCCategoryOf == [f \in LayerFacts |-> f]  \* each of its own

vars == <<boardVars, contextVars, focusVars, windowVars, layerVars, nightVars, picked>>

Init == /\ BoardInit /\ ContextInit /\ FocusInit /\ WindowInit /\ LayersInit /\ NightInit
        /\ picked \in {"board", "context", "focus", "window", "layers", "night"}
        \* Any directives and state, for the behaviours that are about them.
        /\ \A k \in Keys : picked # "focus" \/ k \in Owned => focus[k] = Absent
        /\ picked # "window" => cap = 0

Next == /\ UNCHANGED picked
        /\ \/ /\ picked = "board" /\ BoardNext
              /\ UNCHANGED <<contextVars, focusVars, windowVars, layerVars, nightVars>>
           \/ /\ picked = "context" /\ ContextNext
              /\ UNCHANGED <<boardVars, focusVars, windowVars, layerVars, nightVars>>
           \/ /\ picked = "focus" /\ FocusNext
              /\ UNCHANGED <<boardVars, contextVars, windowVars, layerVars, nightVars>>
           \/ /\ picked = "window" /\ WindowNext
              /\ UNCHANGED <<boardVars, contextVars, focusVars, layerVars, nightVars>>
           \/ /\ picked = "layers" /\ LayersNext
              /\ UNCHANGED <<boardVars, contextVars, focusVars, windowVars, nightVars>>
           \/ /\ picked = "night" /\ NightNext
              /\ UNCHANGED <<boardVars, contextVars, focusVars, windowVars, layerVars>>

Spec == Init /\ [][Next]_vars
=============================================================================
