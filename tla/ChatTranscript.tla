--------------------------- MODULE ChatTranscript ---------------------------
(***************************************************************************)
(* What a chat promises its reader, without streams and models: a request  *)
(* puts its question into the transcript and is then either answered, by   *)
(* one message in one step, or closed without an answer.  The transcript   *)
(* only grows, unless the user clears it.                                  *)
(***************************************************************************)
EXTENDS Naturals, Sequences, TLAPS

CONSTANT Requests

VARIABLES
    transcript, \* the messages of the chat
    phase       \* of each request

tvars == <<transcript, phase>>

Message == [role : {"user", "assistant"}, req : Requests]

TranscriptTypeOK ==
    /\ transcript \in Seq(Message)
    /\ phase \in [Requests -> {"new", "open", "answered", "closed"}]

Ask(r) ==
    /\ phase[r] = "new"
    /\ phase' = [phase EXCEPT ![r] = "open"]
    /\ \/ transcript' = Append(transcript, [role |-> "user", req |-> r])
       \/ UNCHANGED transcript          \* a question without text

Answer(r) ==
    /\ phase[r] = "open"
    /\ phase' = [phase EXCEPT ![r] = "answered"]
    /\ transcript' = Append(transcript, [role |-> "assistant", req |-> r])

Close(r) ==
    /\ phase[r] = "open"
    /\ phase' = [phase EXCEPT ![r] = "closed"]
    /\ UNCHANGED transcript

Clear ==
    /\ transcript' = <<>>
    /\ UNCHANGED phase

\* The process restarts: what was open stays without an answer.
Lose ==
    /\ phase' = [r \in Requests |-> IF phase[r] = "open" THEN "closed" ELSE phase[r]]
    /\ UNCHANGED transcript

TInit ==
    /\ transcript = <<>>
    /\ phase = [r \in Requests |-> "new"]

TNext ==
    \/ \E r \in Requests : Ask(r) \/ Answer(r) \/ Close(r)
    \/ Clear
    \/ Lose

TFairness == \A r \in Requests : WF_tvars(Answer(r) \/ Close(r))

TSafety == TInit /\ [][TNext]_tvars

TSpec == TSafety /\ TFairness

\* An answer in the transcript is that of an answered request, and its only one.
OneAnswer ==
    /\ \A i \in 1..Len(transcript) :
          transcript[i].role = "assistant" => phase[transcript[i].req] = "answered"
    /\ \A i, j \in 1..Len(transcript) :
          transcript[i] = transcript[j] => i = j

-----------------------------------------------------------------------------
(* Proofs.                                                                  *)

\* A request that has not come has left no message.
NoneBeforeAsking ==
    \A i \in 1..Len(transcript) : phase[transcript[i].req] # "new"

TranscriptInv == TranscriptTypeOK /\ OneAnswer /\ NoneBeforeAsking

LEMMA MessageShape ==
    ASSUME TranscriptTypeOK, NEW i \in 1..Len(transcript)
    PROVE  /\ transcript[i] \in Message
           /\ transcript[i].req \in Requests
           /\ transcript[i].role \in {"user", "assistant"}
           /\ transcript[i] = [role |-> transcript[i].role, req |-> transcript[i].req]
<1>1. transcript[i] \in Message
    BY DEF TranscriptTypeOK
<1> QED
    BY <1>1 DEF Message

\* Whichever message a request adds, it is the first of its role and request.
LEMMA Appended ==
    ASSUME TranscriptInv, NEW r \in Requests, NEW role \in {"user", "assistant"},
           transcript' = Append(transcript, [role |-> role, req |-> r]),
           phase' \in [Requests -> {"new", "open", "answered", "closed"}],
           phase[r] = IF role = "user" THEN "new" ELSE "open",
           phase'[r] = IF role = "user" THEN "open" ELSE "answered",
           \A q \in Requests : q # r => phase'[q] = phase[q]
    PROVE  TranscriptInv'
<1> DEFINE message == [role |-> role, req |-> r]
<1>1. message \in Message /\ transcript \in Seq(Message)
    BY DEF Message, TranscriptInv, TranscriptTypeOK
<1>2. /\ transcript' \in Seq(Message)
      /\ Len(transcript') = Len(transcript) + 1
      /\ \A i \in 1..Len(transcript) : transcript'[i] = transcript[i]
      /\ transcript'[Len(transcript) + 1] = message
    BY <1>1
<1>3. \A i \in 1..Len(transcript) : transcript[i] # message
    BY MessageShape DEF TranscriptInv, OneAnswer, NoneBeforeAsking
<1>4. ASSUME NEW i \in 1..Len(transcript')
      PROVE  /\ transcript'[i].role = "assistant" => phase'[transcript'[i].req] = "answered"
             /\ phase'[transcript'[i].req] # "new"
    <2>1. CASE i \in 1..Len(transcript)
        <3>1. /\ transcript[i].req \in Requests
              /\ phase[transcript[i].req] # "new"
              /\ transcript[i].role = "assistant" => phase[transcript[i].req] = "answered"
            BY <2>1, MessageShape DEF TranscriptInv, OneAnswer, NoneBeforeAsking
        <3>2. \A q \in Requests : /\ phase[q] # "new" => phase'[q] # "new"
                                  /\ phase[q] = "answered" => phase'[q] = "answered"
            OBVIOUS
        <3> QED
            BY <1>2, <2>1, <3>1, <3>2
    <2>2. CASE i = Len(transcript) + 1
        BY <1>2, <2>2
    <2> QED
        BY <1>1, <1>2, <2>1, <2>2
<1>5. ASSUME NEW i \in 1..Len(transcript'), NEW j \in 1..Len(transcript'),
             transcript'[i] = transcript'[j]
      PROVE  i = j
    BY <1>1, <1>2, <1>3, <1>5 DEF TranscriptInv, OneAnswer
<1> QED
    BY <1>2, <1>4, <1>5 DEF TranscriptInv, TranscriptTypeOK, OneAnswer, NoneBeforeAsking

\* A change of phases that brings nothing back to new and keeps the answered.
LEMMA Rephased ==
    ASSUME TranscriptInv, transcript' = transcript,
           phase' \in [Requests -> {"new", "open", "answered", "closed"}],
           \A q \in Requests : /\ phase[q] # "new" => phase'[q] # "new"
                               /\ phase[q] = "answered" => phase'[q] = "answered"
    PROVE  TranscriptInv'
<1>1. ASSUME NEW i \in 1..Len(transcript)
      PROVE  /\ transcript[i].role = "assistant" => phase'[transcript[i].req] = "answered"
             /\ phase'[transcript[i].req] # "new"
    <2>1. /\ transcript[i].req \in Requests
          /\ phase[transcript[i].req] # "new"
          /\ transcript[i].role = "assistant" => phase[transcript[i].req] = "answered"
        BY MessageShape DEF TranscriptInv, OneAnswer, NoneBeforeAsking
    <2>2. \A q \in Requests : /\ phase[q] # "new" => phase'[q] # "new"
                              /\ phase[q] = "answered" => phase'[q] = "answered"
        OBVIOUS
    <2> QED
        BY <2>1, <2>2
<1> QED
    BY <1>1 DEF TranscriptInv, TranscriptTypeOK, OneAnswer, NoneBeforeAsking

LEMMA TranscriptInvStep ==
    ASSUME TranscriptInv, [TNext]_tvars
    PROVE  TranscriptInv'
<1>t. transcript \in Seq(Message) /\ phase \in [Requests -> {"new", "open", "answered", "closed"}]
    BY DEF TranscriptInv, TranscriptTypeOK
<1>1. ASSUME NEW r \in Requests, Ask(r)
      PROVE  TranscriptInv'
    <2>1. /\ phase' \in [Requests -> {"new", "open", "answered", "closed"}]
          /\ phase[r] = "new" /\ phase'[r] = "open"
          /\ \A q \in Requests : q # r => phase'[q] = phase[q]
        BY <1>t, <1>1 DEF Ask
    <2>2. CASE transcript' = transcript
        BY <2>1, <2>2, Rephased
    <2>3. CASE transcript' = Append(transcript, [role |-> "user", req |-> r])
        BY <2>1, <2>3, Appended
    <2> QED
        BY <1>1, <2>2, <2>3 DEF Ask
<1>2. ASSUME NEW r \in Requests, Answer(r)
      PROVE  TranscriptInv'
    <2>1. /\ phase' \in [Requests -> {"new", "open", "answered", "closed"}]
          /\ phase[r] = "open" /\ phase'[r] = "answered"
          /\ \A q \in Requests : q # r => phase'[q] = phase[q]
        BY <1>t, <1>2 DEF Answer
    <2> QED
        BY <1>2, <2>1, Appended DEF Answer
<1>3. ASSUME NEW r \in Requests, Close(r)
      PROVE  TranscriptInv'
    BY <1>t, <1>3, Rephased DEF Close
<1>4. CASE Clear
    BY <1>t, <1>4 DEF Clear, TranscriptInv, TranscriptTypeOK, OneAnswer, NoneBeforeAsking
<1>5. CASE Lose
    BY <1>t, <1>5, Rephased DEF Lose
<1>6. CASE UNCHANGED tvars
    BY <1>t, <1>6, Rephased DEF tvars
<1> QED
    BY <1>1, <1>2, <1>3, <1>4, <1>5, <1>6 DEF TNext

\* However requests interleave, clear and crash, a request has at most one
\* answer in the transcript, and only if it is answered.
THEOREM TranscriptOneAnswer == TSafety => []OneAnswer
<1>1. TInit => TranscriptInv
    BY DEF TInit, TranscriptInv, TranscriptTypeOK, OneAnswer, NoneBeforeAsking, Message
<1>2. TranscriptInv => OneAnswer
    BY DEF TranscriptInv
<1> QED
    BY <1>1, <1>2, TranscriptInvStep, PTL DEF TSafety

=============================================================================
