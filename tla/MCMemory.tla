------------------------------ MODULE MCMemory ------------------------------
(***************************************************************************)
(* The memory of the agents: who writes shared memory and who tidies it,   *)
(* what a request is given of it, what is kept of an exchange, and the     *)
(* report that quotes it.  The readers take any change of a row as it may  *)
(* come, so no two share a variable and every behaviour moves only the one *)
(* it has picked.                                                          *)
(***************************************************************************)
EXTENDS MCSharedMemory, Recall, Extraction, ReportText

VARIABLE picked

\* Bounds: either both requests are under way at once, within two seconds, or
\* one beside which a user has edited a row (both, within one second), or one
\* at a time, and no edits, while the seconds last for rows to get older than
\* the window.
Busy == Cardinality({w \in Writers : writer[w].pc # "idle"})

\* Rows in every state at once; a directive or none.
MCStatus == [r \in Entries |-> CASE r \in Shared -> "pending" [] OTHER -> "active"]

readerVars == <<recallVars, exchange, report>>

MCInit ==
  /\ Init /\ RecallInit /\ ExtractionInit /\ ReportInit
  /\ picked \in {"writers", "ageing", "recall", "extraction", "report"}
  \* What was not picked keeps one of its initial states.
  /\ (picked = "recall" \/ (status = MCStatus /\ vectors = Entries /\ focus))

MCNext ==
  /\ UNCHANGED picked
  /\ \/ /\ picked = "writers" /\ Next /\ UNCHANGED readerVars
        /\ now' <= 2 /\ (edits' = 0 \/ Busy' <= 1 \/ now' = 1)
     \/ picked = "ageing" /\ Next /\ Busy' <= 1 /\ UNCHANGED <<edits, readerVars>>
     \/ picked = "recall" /\ RecallNext /\ UNCHANGED <<vars, exchange, report>>
     \/ picked = "extraction" /\ ExtractionNext /\ UNCHANGED <<vars, recallVars, report>>
     \/ picked = "report" /\ ReportNext /\ UNCHANGED <<vars, recallVars, exchange>>

MCSpec == MCInit /\ [][MCNext]_<<vars, readerVars, picked>>
=============================================================================
