----------------------------- MODULE ReportText -----------------------------
(***************************************************************************)
(* A report on its way to Telegram: sendReport collects what the memory    *)
(* knows of its topic, puts it above the text and cuts the whole to what a *)
(* message may hold.  A part is a heading with what stands below it; of    *)
(* its words only the length is kept, and whether the report is among them.*)
(***************************************************************************)
EXTENDS Naturals, FiniteSetsExt

CONSTANTS
  ContextMax,   \* CONTEXT_MAX_BYTES
  ReportMax,    \* REPORT_MAX_BYTES
  MaxLength     \* bound: the length of a part and of a text

ASSUME ReportAssumption == {ContextMax, ReportMax, MaxLength} \subseteq Nat

VARIABLES report   \* the text, the context collected for it, and what is sent

Parts == [head : {"facts", "logs", "rag", "text"}, length : 0 .. 2 * MaxLength, text : BOOLEAN]
Length(parts) == MapThenSumSet(LAMBDA p : p.length, parts)
HasText(parts) == \E p \in parts : p.text
Heads(parts) == {p.head : p \in parts}

\* The order the sections stand in, and the order in which they are given up.
Place == [facts |-> 1, logs |-> 2, rag |-> 3]
FactsFirst == [facts |-> 1, logs |-> 2, rag |-> 3, text |-> 9]  \* Mutant: in the order they stand in.
Priority == [logs |-> 1, rag |-> 2, facts |-> 3, text |-> 9]

\* Sections are given up until the rest fits; what has no heading of its own
\* goes with the section it stands in.
Truncated(parts, max) ==
  LET From(n) == {p \in parts : Priority[p.head] > n}
      fits == {n \in 0 .. 3 : Length(From(n)) <= max}
  IN IF fits = {} THEN {} ELSE From(Min(fits))

Alone(length) == {[head |-> "text", length |-> length, text |-> TRUE]}

\* The text is put below the last section of the context.
Joined(context, length) ==
  IF context = {} THEN Alone(length)
  ELSE LET last == CHOOSE p \in context : \A q \in context : Place[q.head] <= Place[p.head]
       IN (context \ {last}) \union {[last EXCEPT !.length = @ + length, !.text = TRUE]}

OrText(parts, length) == IF parts = {} THEN Alone(length) ELSE parts

ReportInit == report = [at |-> "idle"]

\* Facts, events and what a search finds: each may be missing or fail.
Collects ==
  /\ report.at = "idle"
  /\ \E length \in 1 .. MaxLength, heads \in SUBSET DOMAIN Place : \E size \in [heads -> 1 .. MaxLength] :
       report' = [at |-> "collected", length |-> length,
                  context |-> {[head |-> h, length |-> size[h], text |-> FALSE] : h \in heads}]

\* Without a context, or with the enrichment switched off, the bare text.
Sends ==
  /\ report.at = "collected"
  /\ LET joined == Joined(Truncated(report.context, ContextMax), report.length) IN
     report' = [at |-> "sent", length |-> report.length, context |-> report.context,
                sent |-> IF report.context = {} THEN Alone(report.length)
                         ELSE OrText(Truncated(joined, ReportMax), report.length)]

NextReport == report.at = "sent" /\ report' = [at |-> "idle"]

ReportNext == Collects \/ Sends \/ NextReport
ReportSpec == ReportInit /\ [][ReportNext]_report

---------------------------------------------------------------------------
(* What is sent is within the limit unless the text alone is beyond it,    *)
(* and the facts are given up last: no event and no search result is sent  *)
(* without the facts that were there (rag/report-context.ts).              *)
ReportFits ==
  report.at = "sent" =>
    /\ Length(report.sent) <= ReportMax \/ report.sent = Alone(report.length)
    /\ {"logs", "rag"} \intersect Heads(report.sent) # {} /\ "facts" \in Heads(report.context)
         => "facts" \in Heads(report.sent)

(* The context is put above the report, which itself is always sent        *)
(* (telegram-report.ts).                                                   *)
ReportIsSent == report.at = "sent" => HasText(report.sent)
=============================================================================
