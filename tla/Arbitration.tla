----------------------------- MODULE Arbitration -----------------------------
(***************************************************************************)
(* The common room: specialists are asked in parallel, each under a timer, *)
(* and the team lead makes one answer of what they said, under a timer of  *)
(* its own.  A chat enters it when its message calls for it, a run of the  *)
(* agent through the tool consult_specialists, whose own timeout aborts    *)
(* the whole of it.  A call of a model may answer with or without text,    *)
(* fail, never come back, and ignore that it was aborted.  The same role   *)
(* may be asked twice, so specialists are known by their seat.            *)
(***************************************************************************)
EXTENDS Naturals, Sequences, FiniteSets, Functions

CONSTANTS
  Consultations    \* the rooms the tool asks for: records of agents and category

Specialists == {"coder", "critic", "generalist", "chaos"}
Categories == {"code", "architecture", "review", "reasoning"}

\* What the schema of the tool lets through; asked for nobody, it asks all.
ASSUME RoomAssumption ==
  \A c \in Consultations :
    c.agents \in Seq(Specialists) \ {<<>>} /\ c.category \in Categories

VARIABLES
  room,       \* the configuration, and whether somebody can abort it
  phase,      \* "idle", "asking", "synthesis", "done" or "thrown"
  heard,      \* seat -> what its ask gave: "waiting", "text", "nothing" or "timedOut"
  open,       \* calls the router has not ended
  aborts,       \* calls whose signal is aborted
  aborted,    \* whether the tool gave up
  verdict     \* what the room returns and the seats it is made from

roomVars == <<room, phase, heard, open, aborts, aborted, verdict>>

Teamlead == 0
Undecided == [kind |-> "none", from |-> {}]
Over == phase \in {"done", "thrown"}

\* DEFAULT_WEIGHTS in tenths.
WeightsOf == [coder      |-> [code |-> 15, architecture |-> 8, review |-> 10, reasoning |-> 7],
              critic     |-> [code |-> 8, architecture |-> 10, review |-> 15, reasoning |-> 15],
              generalist |-> [code |-> 10, architecture |-> 13, review |-> 10, reasoning |-> 10],
              chaos      |-> [code |-> 5, architecture |-> 14, review |-> 6, reasoning |-> 12]]

\* The words of a message by what they ask for, in the order they are looked for.
EverySpecialist == <<"coder", "critic", "generalist", "chaos">>
Triggers == <<[word |-> "discuss", agents |-> EverySpecialist, category |-> "architecture"],
              [word |-> "design", agents |-> EverySpecialist, category |-> "architecture"],
              [word |-> "review", agents |-> <<"coder", "critic">>, category |-> "review"],
              [word |-> "trouble", agents |-> <<"coder", "generalist">>, category |-> "reasoning"]>>
Words == {Triggers[i].word : i \in DOMAIN Triggers}
Matches(words) == {i \in DOMAIN Triggers : Triggers[i].word \in words}

\* The room for a message that has some of these words.
Classify(words) ==
  LET t == Triggers[CHOOSE i \in Matches(words) : \A j \in Matches(words) : i <= j]
  IN  [agents |-> t.agents, category |-> t.category, abortable |-> FALSE]

Rooms == {Classify(words) : words \in (SUBSET Words) \ {{}}}
         \cup {[agents |-> c.agents, category |-> c.category, abortable |-> TRUE] :
                 c \in Consultations}

Seats == DOMAIN room.agents
WeightOf(i) == WeightsOf[room.agents[i]][room.category]

NoRoom == [agents |-> <<>>, category |-> "none", abortable |-> FALSE]

RoomInit ==
  /\ room = NoRoom /\ phase = "idle"
  /\ heard = <<>> /\ open = {} /\ aborts = {} /\ aborted = FALSE
  /\ verdict = Undecided

-----------------------------------------------------------------------------
Convenes(r) ==
  /\ phase = "idle" /\ phase' = "asking"
  /\ room' = r
  /\ heard' = [i \in DOMAIN r.agents |-> "waiting"]
  /\ open' = DOMAIN r.agents
  /\ UNCHANGED <<aborts, aborted, verdict>>

\* A specialist that fails is one that says nothing.
SpecialistAnswers(i, said) ==
  /\ phase = "asking" /\ heard[i] = "waiting"
  /\ heard' = [heard EXCEPT ![i] = said]
  /\ open' = open \ {i}
  /\ UNCHANGED <<room, phase, aborts, aborted, verdict>>

AbortsNobody(S) == aborts' = aborts  \* Mutant: a timer does not abort its call.
AbortsCalls(S) == aborts' = aborts \cup S

SpecialistTimesOut(i) ==
  /\ phase = "asking" /\ heard[i] = "waiting"
  /\ heard' = [heard EXCEPT ![i] = "timedOut"]
  /\ AbortsCalls({i})
  /\ UNCHANGED <<room, phase, open, aborted, verdict>>

\* A call that lost its race ends, heeding the signal or not: nobody listens.
EndsUnheard(i) ==
  /\ i \in open /\ (IF i = Teamlead THEN Over ELSE heard[i] # "waiting")
  /\ open' = open \ {i}
  /\ UNCHANGED <<room, phase, heard, aborts, aborted, verdict>>

\* The tool's timeout: every call that is open is told to stop.
GivesUp ==
  /\ room.abortable /\ ~aborted /\ phase \in {"asking", "synthesis"}
  /\ aborted' = TRUE
  /\ AbortsCalls(open)
  /\ UNCHANGED <<room, phase, heard, open, verdict>>

-----------------------------------------------------------------------------
Everybody == Seats  \* Mutant: a specialist that said nothing counts.
Valid == {i \in Seats : heard[i] = "text"}

RoomReturns(kind, from) == phase' = "done" /\ verdict' = [kind |-> kind, from |-> from]

\* allSettled: with one answer or none there is nothing to synthesise.
\* The call of the team lead takes the signal of the tool as it is.
AllSettled ==
  /\ phase = "asking" /\ "waiting" \notin Range(heard)
  /\ IF Cardinality(Valid) <= 1
     THEN /\ RoomReturns("said", Valid)
          /\ UNCHANGED <<open, aborts>>
     ELSE /\ phase' = "synthesis" /\ open' = open \cup {Teamlead}
          /\ aborts' = IF aborted THEN aborts \cup {Teamlead} ELSE aborts
          /\ UNCHANGED verdict
  /\ UNCHANGED <<room, heard, aborted>>

\* The answer may be empty: it is returned as it is.
TeamleadAnswers(kind) ==
  /\ phase = "synthesis"
  /\ RoomReturns(kind, Valid)
  /\ open' = open \ {Teamlead}
  /\ UNCHANGED <<room, heard, aborts, aborted>>

\* A failure that comes before the timer is thrown out of the room.
TeamleadFails ==
  /\ phase = "synthesis" /\ phase' = "thrown"
  /\ open' = open \ {Teamlead}
  /\ UNCHANGED <<room, heard, aborts, aborted, verdict>>

Heavier(i, j) == WeightOf(i) > WeightOf(j) \/ (WeightOf(i) = WeightOf(j) /\ i < j)
Top2 == {i \in Valid : Cardinality({j \in Valid : Heavier(j, i)}) < 2}

SynthesisTimesOut ==
  /\ phase = "synthesis"
  /\ RoomReturns("fallback", Top2)
  /\ AbortsCalls({Teamlead})
  /\ UNCHANGED <<room, heard, open, aborted>>

RoomNext ==
  \/ \E r \in Rooms : Convenes(r)
  \/ \E i \in Seats : \/ SpecialistTimesOut(i)
                     \/ \E said \in {"text", "nothing"} : SpecialistAnswers(i, said)
  \/ \E i \in Seats \cup {Teamlead} : EndsUnheard(i)
  \/ GivesUp \/ AllSettled
  \/ \E kind \in {"synthesis", "empty"} : TeamleadAnswers(kind)
  \/ TeamleadFails \/ SynthesisTimesOut

\* Timers fire and what was settled goes on; no model ever has to answer.
RoomFairness ==
  /\ WF_roomVars(\E i \in Seats : SpecialistTimesOut(i))
  /\ WF_roomVars(AllSettled \/ SynthesisTimesOut)

RoomSpec == RoomInit /\ [][RoomNext]_roomVars /\ RoomFairness

-----------------------------------------------------------------------------
\* When the room is over, it speaks for nobody but specialists whose text came
\* in time: for the only one, for all of two or more, or, when the team lead
\* was too slow, for two such that nobody left out weighs more; and no call is
\* left running that has not been told to stop.
RoomHearsInTime ==
  /\ \A i \in verdict.from : heard[i] = "text"
  /\ phase = "done" /\ verdict.kind # "fallback" =>
       /\ verdict.from = {i \in Seats : heard[i] = "text"}
       /\ verdict.kind = "said" <=> Cardinality(verdict.from) <= 1
  /\ verdict.kind = "fallback" =>
       /\ Cardinality(verdict.from) = 2
       /\ \A i \in verdict.from, j \in Seats \ verdict.from :
            heard[j] = "text" => WeightOf(j) <= WeightOf(i)
  /\ Over => open \subseteq aborts

\* That holds whichever timers, answers and aborts come first, and every room
\* comes to an end though no model ever answers.
AlwaysInTime == [][RoomHearsInTime']_roomVars
RoomKeepsTime == AlwaysInTime /\ (phase = "asking" ~> Over)
=============================================================================
