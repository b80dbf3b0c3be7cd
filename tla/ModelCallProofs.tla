--------------------------- MODULE ModelCallProofs ---------------------------
(***************************************************************************)
(* Proofs about the model router, for any calls, providers and routes: its *)
(* types, and that a caller gets what the requests made for it came to.    *)
(* About the room of specialists, who ask models through it: the room      *)
(* speaks for those it heard in time, and leaves no call running untold.   *)
(* About the agent's loop: its transcript stays whole however often it is  *)
(* compressed, and nothing runs after done.  About the limiter of a        *)
(* provider: no window has more starts than it may, nobody is overtaken.   *)
(* And about the splitter of reasoning: a stream, however it is cut, is    *)
(* split as the complete answer would be.                                  *)
(***************************************************************************)
EXTENDS RateLimiter, ModelRouter, Arbitration, AgentLoop, ThinkStream, FunctionTheorems,
        FiniteSetTheorems, WellFoundedInduction, SequenceTheorems, TLAPS

LEMMA RouterTypeStart == RouterInit => RouterTypeOK
<1> SUFFICES ASSUME RouterInit PROVE RouterTypeOK
    OBVIOUS
<1> USE RouterAssumption DEF RouterInit
<1>1. route \in [Calls -> Routes]
    OBVIOUS
<1>2. answers \in [Calls -> [Attempts -> Replies \cup {NoAnswer}]]
    OBVIOUS
<1>3. \A f \in {slots, upstream, backoffs} : f \in [Providers -> Nat]
    OBVIOUS
<1>4. gone \in [Calls -> BOOLEAN] /\ outcome \in [Calls -> Outcomes]
    BY DEF Outcomes
<1>5. /\ pc \in [Calls -> Places] /\ kind \in [Calls -> {"chat", "stream"}]
      /\ \A c \in Calls : pc[c] \notin {"fbqueued", "fallback"}
    BY DEF Places
<1>. QED
    BY <1>1, <1>2, <1>3, <1>4, <1>5 DEF RouterTypeOK

\* What a call still needs is known: its provider counts, and so does its
\* fallback once there is one.
LEMMA KnownProviders ==
    ASSUME RouterTypeOK, NEW c \in Calls
    PROVE  Primary(c) \in Providers /\ (HasFallback(c) => Fallback(c) \in Providers)
BY RouterAssumption DEF RouterTypeOK, Primary, Fallback, HasFallback

LEMMA CountersCount ==
    ASSUME NEW f \in [Providers -> Nat], NEW p \in Providers
    PROVE  Incremented(f, p) \in [Providers -> Nat]
BY DEF Incremented

\* The steps that only move a call, count for its providers and settle it.
MovesOf(c) ==
    /\ \E place \in Places :
         /\ pc' = [pc EXCEPT ![c] = place]
         /\ place \in {"fbqueued", "fallback"} => HasFallback(c)
    /\ \A f \in {slots', upstream', backoffs'} : f \in [Providers -> Nat]
    /\ \E result \in Outcomes : outcome' = [outcome EXCEPT ![c] = result]
    /\ \E m \in Attempts, a \in Replies \cup {NoAnswer} : answers' = [answers EXCEPT ![c][m] = a]
    /\ UNCHANGED <<kind, route>>
    /\ gone' \in [Calls -> BOOLEAN]

LEMMA MovesKeepTypes ==
    ASSUME RouterTypeOK, NEW c \in Calls, MovesOf(c)
    PROVE  RouterTypeOK'
<1>1. pc' \in [Calls -> Places] /\ outcome' \in [Calls -> Outcomes]
    BY DEF RouterTypeOK, MovesOf
<1>2. answers' \in [Calls -> [Attempts -> Replies \cup {NoAnswer}]]
    BY DEF RouterTypeOK, MovesOf
<1>3. \A d \in Calls : pc'[d] \in {"fbqueued", "fallback"} => HasFallback(d)'
    BY DEF RouterTypeOK, MovesOf, HasFallback, Fallback
<1>. QED
    BY <1>1, <1>2, <1>3 DEF RouterTypeOK, MovesOf

-----------------------------------------------------------------------------
\* The ways on: with or without a slot, settled, or to the fallback.
LEMMA SendsMove ==
    ASSUME RouterTypeOK, NEW c \in Calls, NEW p \in Providers, NEW place \in Places,
           WithSlot(c, p, place) \/ WithoutSlot(c, p, place)
    PROVE  /\ pc' = [pc EXCEPT ![c] = place]
           /\ slots' \in [Providers -> Nat] /\ upstream' \in [Providers -> Nat]
<1>1. slots \in [Providers -> Nat] /\ upstream \in [Providers -> Nat]
    BY DEF RouterTypeOK
<1>2. Incremented(slots, p) \in [Providers -> Nat] /\ Incremented(upstream, p) \in [Providers -> Nat]
    BY <1>1, CountersCount
<1>3. CASE WithSlot(c, p, place)
    BY <1>2, <1>3 DEF WithSlot
<1>4. CASE WithoutSlot(c, p, place)
    BY <1>1, <1>2, <1>4 DEF WithoutSlot
<1>. QED
    BY <1>3, <1>4

LEMMA SettleMoves ==
    ASSUME RouterTypeOK, NEW c \in Calls, NEW result \in Outcomes, Settle(c, result)
    PROVE  /\ pc' = [pc EXCEPT ![c] = "settled"] /\ outcome' = [outcome EXCEPT ![c] = result]
           /\ slots' \in [Providers -> Nat] /\ upstream' \in [Providers -> Nat]
BY DEF RouterTypeOK, Settle

LEMMA ToFallbackMoves ==
    ASSUME RouterTypeOK, NEW c \in Calls, ToFallback(c)
    PROVE  /\ \/ /\ HasFallback(c) /\ pc' = [pc EXCEPT ![c] = "fbqueued"]
                 /\ outcome' = outcome
              \/ /\ ~HasFallback(c) /\ pc' = [pc EXCEPT ![c] = "settled"]
                 /\ outcome' = [outcome EXCEPT ![c] = "exhausted"]
           /\ slots' \in [Providers -> Nat] /\ upstream' \in [Providers -> Nat]
BY DEF RouterTypeOK, ToFallback, Settle

LEMMA HandledCounts ==
    ASSUME RouterTypeOK, NEW p \in Providers, NEW a, Handled(p, a)
    PROVE  backoffs' \in [Providers -> Nat]
<1>1. backoffs \in [Providers -> Nat]
    BY DEF RouterTypeOK
<1>. QED
    BY <1>1, CountersCount DEF Handled

-----------------------------------------------------------------------------
(* What is known of a chat at each place: which answers it has had.         *)
Refused == {"429", "bad", "5xx"}
Nothing(c) == \A m \in Attempts : answers[c][m] = NoAnswer

Rests(c) == outcome[c] = "none" /\ answers[c]["fallback"] = NoAnswer

CallOK(c) ==
    /\ pc[c] = "new" => Rests(c) /\ Nothing(c)
    /\ kind[c] = "chat" =>
          /\ pc[c] \in {"queued", "primary"} => Rests(c) /\ Nothing(c)
          /\ pc[c] = "retry" => /\ Rests(c) /\ answers[c]["primary"] = "5xx"
                               /\ answers[c]["retry"] = NoAnswer
          /\ pc[c] \in {"fbqueued", "fallback"} =>
                /\ Rests(c) /\ answers[c]["primary"] \in Refused
                /\ IF answers[c]["primary"] = "5xx"
                   THEN answers[c]["retry"] \in Refused \cup {"auth"}
                   ELSE answers[c]["retry"] = NoAnswer
          /\ outcome[c] = "ok" <=> \E m \in Attempts : answers[c][m] = "ok"
          /\ answers[c]["primary"] = "auth" =>
                /\ outcome[c] = "auth"
                /\ answers[c]["retry"] = NoAnswer /\ answers[c]["fallback"] = NoAnswer
          /\ outcome[c] = "exhausted" =>
                /\ HasFallback(c) <=> answers[c]["fallback"] \in Errors
                /\ answers[c]["primary"] = "5xx" <=> answers[c]["retry"] \in Errors

RouterInv == RouterTypeOK /\ \A c \in Calls : CallOK(c)

\* A step of call c leaves the other calls as they were.
LEMMA OthersStay ==
    ASSUME RouterTypeOK, NEW c \in Calls, MovesOf(c), NEW d \in Calls, d # c, CallOK(d)
    PROVE  CallOK(d)'
<1>1. /\ pc'[d] = pc[d] /\ outcome'[d] = outcome[d] /\ answers'[d] = answers[d]
      /\ kind' = kind /\ route' = route
    BY DEF RouterTypeOK, MovesOf
<1>. QED
    BY <1>1 DEF CallOK, Rests, Nothing, HasFallback, Fallback

LEMMA OneCallMoves ==
    ASSUME RouterInv, NEW c \in Calls, MovesOf(c), CallOK(c)'
    PROVE  RouterInv'
BY MovesKeepTypes, OthersStay DEF RouterInv

LEMMA RouterStart == RouterInit => RouterInv
<1> SUFFICES ASSUME RouterInit, NEW c \in Calls PROVE CallOK(c)
    BY RouterTypeStart DEF RouterInv
<1>1. outcome[c] = "none" /\ \A m \in Attempts : answers[c][m] = NoAnswer
    BY DEF RouterInit
<1>2. pc[c] = "new"
    BY DEF RouterInit
<1>. QED
    BY <1>1, <1>2 DEF CallOK, Rests, Nothing, Attempts, NoAnswer, Errors, Replies

-----------------------------------------------------------------------------
(* One lemma per action of a chat.                                          *)

LEMMA SubmitKeeps ==
    ASSUME RouterInv, NEW c \in Calls, NEW k \in Kinds, NEW rt \in Routes, Submit(c, k, rt)
    PROVE  RouterInv'
<1> USE RouterAssumption
<1>1. /\ pc[c] = "new" /\ pc' = [pc EXCEPT ![c] = "queued"]
      /\ kind' = [kind EXCEPT ![c] = k] /\ route' = [route EXCEPT ![c] = rt]
      /\ UNCHANGED <<gone, outcome, slots, upstream, backoffs, answers>>
    BY DEF Submit
<1>2. kind' \in [Calls -> {"chat", "stream"}] /\ route' \in [Calls -> Routes]
    BY <1>1 DEF RouterInv, RouterTypeOK
<1>3. pc' \in [Calls -> Places]
    BY <1>1 DEF RouterInv, RouterTypeOK, Places
<1>4. \A d \in Calls : pc'[d] \in {"fbqueued", "fallback"} => HasFallback(d)'
    BY <1>1 DEF RouterInv, RouterTypeOK, HasFallback, Fallback
<1>5. RouterTypeOK'
    BY <1>1, <1>2, <1>3, <1>4 DEF RouterInv, RouterTypeOK
<1>6. CallOK(c)'
    <2>1. Rests(c) /\ Nothing(c) /\ pc'[c] = "queued"
        BY <1>1 DEF RouterInv, RouterTypeOK, CallOK
    <2>. QED
        BY <2>1, <1>1 DEF CallOK, Rests, Nothing, Attempts, NoAnswer
<1>7. ASSUME NEW d \in Calls, d # c PROVE CallOK(d)'
    <2>1. /\ CallOK(d) /\ pc'[d] = pc[d] /\ kind'[d] = kind[d] /\ route'[d] = route[d]
          /\ UNCHANGED <<outcome, answers>>
        BY <1>1, <1>7 DEF RouterInv, RouterTypeOK
    <2>. QED
        BY <2>1 DEF CallOK, Rests, Nothing, HasFallback, Fallback
<1>. QED
    BY <1>5, <1>6, <1>7 DEF RouterInv

LEMMA PrimaryKeeps ==
    ASSUME RouterInv, NEW c \in Calls, NEW a \in Replies, PrimaryAnswers(c, a)
    PROVE  RouterInv'
<1>1. /\ kind[c] = "chat" /\ pc[c] = "primary" /\ RouterTypeOK /\ Rests(c) /\ Nothing(c)
      /\ UNCHANGED <<kind, route, gone>>
      /\ answers' = [answers EXCEPT ![c]["primary"] = a]
    BY DEF PrimaryAnswers, Answered, RouterInv, CallOK
<1>2. backoffs' \in [Providers -> Nat]
    BY <1>1, KnownProviders, HandledCounts DEF PrimaryAnswers
<1>3. \/ /\ a \in {"ok", "thrown", "auth"} /\ Settle(c, a)
      \/ /\ a = "5xx" /\ WithoutSlot(c, Primary(c), "retry") /\ UNCHANGED outcome
      \/ /\ a \in {"429", "bad"} /\ ToFallback(c)
    BY DEF PrimaryAnswers, ShortCircuits, Retries, Replies
<1>4. /\ answers'[c]["primary"] = a /\ answers'[c]["retry"] = NoAnswer
      /\ answers'[c]["fallback"] = NoAnswer
    BY <1>1 DEF RouterTypeOK, Nothing, Rests, Attempts
<1>5. CASE a \in {"ok", "thrown", "auth"} /\ Settle(c, a)
    <2>1. /\ pc' = [pc EXCEPT ![c] = "settled"] /\ outcome' = [outcome EXCEPT ![c] = a]
          /\ slots' \in [Providers -> Nat] /\ upstream' \in [Providers -> Nat]
        BY <1>1, <1>5, SettleMoves DEF Outcomes
    <2>2. MovesOf(c)
        BY <1>1, <1>2, <1>5, <2>1 DEF MovesOf, Places, Outcomes, Attempts, RouterTypeOK
    <2>3. pc'[c] = "settled" /\ outcome'[c] = a
        BY <1>1, <2>1 DEF RouterTypeOK
    <2>4. CallOK(c)'
        BY <1>4, <1>5, <2>3 DEF CallOK, Attempts, NoAnswer
    <2>. QED
        BY <2>2, <2>4, OneCallMoves
<1>6. CASE a = "5xx" /\ WithoutSlot(c, Primary(c), "retry") /\ UNCHANGED outcome
    <2>1. /\ pc' = [pc EXCEPT ![c] = "retry"]
          /\ slots' \in [Providers -> Nat] /\ upstream' \in [Providers -> Nat]
        BY <1>1, <1>6, KnownProviders, SendsMove DEF Places
    <2>2. outcome' = [outcome EXCEPT ![c] = outcome[c]] /\ outcome[c] \in Outcomes
        BY <1>1, <1>6 DEF RouterTypeOK
    <2>3. MovesOf(c)
        BY <1>1, <1>2, <2>1, <2>2 DEF MovesOf, Places, Attempts, RouterTypeOK
    <2>4. pc'[c] = "retry" /\ outcome'[c] = "none"
        BY <1>1, <1>6, <2>1 DEF RouterTypeOK, Rests
    <2>5. CallOK(c)'
        BY <1>4, <1>6, <2>4 DEF CallOK, Rests, Attempts, NoAnswer
    <2>. QED
        BY <2>3, <2>5, OneCallMoves
<1>7. CASE a \in {"429", "bad"} /\ ToFallback(c)
    <2>1. /\ \/ /\ HasFallback(c) /\ pc' = [pc EXCEPT ![c] = "fbqueued"]
                /\ outcome' = [outcome EXCEPT ![c] = "none"]
             \/ /\ ~HasFallback(c) /\ pc' = [pc EXCEPT ![c] = "settled"]
                /\ outcome' = [outcome EXCEPT ![c] = "exhausted"]
          /\ slots' \in [Providers -> Nat] /\ upstream' \in [Providers -> Nat]
        BY <1>1, <1>7, ToFallbackMoves DEF Rests, RouterTypeOK
    <2>2. MovesOf(c)
        BY <1>1, <1>2, <2>1 DEF MovesOf, Places, Outcomes, Attempts, RouterTypeOK
    <2>3. \/ HasFallback(c) /\ pc'[c] = "fbqueued" /\ outcome'[c] = "none"
          \/ ~HasFallback(c) /\ pc'[c] = "settled" /\ outcome'[c] = "exhausted"
        BY <1>1, <2>1 DEF RouterTypeOK
    <2>4. HasFallback(c)' <=> HasFallback(c)
        BY <1>1 DEF HasFallback, Fallback
    <2>5. CallOK(c)'
        BY <1>4, <1>7, <2>3, <2>4 DEF CallOK, Rests, Refused, Attempts, NoAnswer, Errors, Replies
    <2>. QED
        BY <2>2, <2>5, OneCallMoves
<1>. QED
    BY <1>3, <1>5, <1>6, <1>7

LEMMA RetryKeeps ==
    ASSUME RouterInv, NEW c \in Calls, NEW a \in Replies, RetryAnswers(c, a)
    PROVE  RouterInv'
<1>1. /\ pc[c] = "retry" /\ RouterTypeOK /\ CallOK(c) /\ UNCHANGED <<kind, route, gone, backoffs>>
      /\ answers' = [answers EXCEPT ![c]["retry"] = a]
      /\ IF a \in {"ok", "thrown"} THEN Settle(c, a) ELSE ToFallback(c)
    BY DEF RetryAnswers, Answered, RouterInv
<1>2. /\ answers'[c]["retry"] = a /\ answers'[c]["primary"] = answers[c]["primary"]
      /\ answers'[c]["fallback"] = answers[c]["fallback"]
    BY <1>1 DEF RouterTypeOK, Attempts
<1>3. CASE a \in {"ok", "thrown"}
    <2>1. /\ pc' = [pc EXCEPT ![c] = "settled"] /\ outcome' = [outcome EXCEPT ![c] = a]
          /\ slots' \in [Providers -> Nat] /\ upstream' \in [Providers -> Nat]
        BY <1>1, <1>3, SettleMoves DEF Outcomes
    <2>2. MovesOf(c)
        BY <1>1, <1>3, <2>1 DEF MovesOf, Places, Outcomes, Attempts, RouterTypeOK
    <2>3. pc'[c] = "settled" /\ outcome'[c] = a
        BY <1>1, <2>1 DEF RouterTypeOK
    <2>4. CallOK(c)'
        BY <1>1, <1>2, <1>3, <2>3 DEF CallOK, Rests, Attempts, NoAnswer
    <2>. QED
        BY <2>2, <2>4, OneCallMoves
<1>4. CASE a \notin {"ok", "thrown"}
    <2>1. /\ \/ /\ HasFallback(c) /\ pc' = [pc EXCEPT ![c] = "fbqueued"]
                /\ outcome' = [outcome EXCEPT ![c] = outcome[c]] /\ outcome[c] \in Outcomes
             \/ /\ ~HasFallback(c) /\ pc' = [pc EXCEPT ![c] = "settled"]
                /\ outcome' = [outcome EXCEPT ![c] = "exhausted"]
          /\ slots' \in [Providers -> Nat] /\ upstream' \in [Providers -> Nat]
        BY <1>1, <1>4, ToFallbackMoves DEF RouterTypeOK
    <2>2. MovesOf(c)
        BY <1>1, <2>1 DEF MovesOf, Places, Outcomes, Attempts, RouterTypeOK
    <2>3. \/ HasFallback(c) /\ pc'[c] = "fbqueued" /\ outcome'[c] = outcome[c]
          \/ ~HasFallback(c) /\ pc'[c] = "settled" /\ outcome'[c] = "exhausted"
        BY <1>1, <2>1 DEF RouterTypeOK
    <2>4. HasFallback(c)' <=> HasFallback(c)
        BY <1>1 DEF HasFallback, Fallback
    <2>5. a \in Refused \cup {"auth"}
        BY <1>4 DEF Refused, Replies
    <2>6. CallOK(c)'
        BY <1>1, <1>2, <2>3, <2>4, <2>5
        DEF CallOK, Rests, Refused, Attempts, NoAnswer, Errors, Replies
    <2>. QED
        BY <2>2, <2>6, OneCallMoves
<1>. QED
    BY <1>3, <1>4

LEMMA FallbackKeeps ==
    ASSUME RouterInv, NEW c \in Calls, NEW a \in Replies, FallbackAnswers(c, a)
    PROVE  RouterInv'
<1> DEFINE result == IF a \in {"ok", "thrown"} THEN a ELSE "exhausted"
<1>1. /\ kind[c] = "chat" /\ pc[c] = "fallback" /\ RouterTypeOK /\ CallOK(c)
      /\ UNCHANGED <<kind, route, gone, backoffs>>
      /\ answers' = [answers EXCEPT ![c]["fallback"] = a]
      /\ Settle(c, result) /\ result \in Outcomes
    BY DEF FallbackAnswers, AfterFallback, Answered, RouterInv, Outcomes
<1>2. /\ answers'[c]["fallback"] = a /\ answers'[c]["primary"] = answers[c]["primary"]
      /\ answers'[c]["retry"] = answers[c]["retry"]
    BY <1>1 DEF RouterTypeOK, Attempts
<1>3. /\ pc' = [pc EXCEPT ![c] = "settled"] /\ outcome' = [outcome EXCEPT ![c] = result]
      /\ slots' \in [Providers -> Nat] /\ upstream' \in [Providers -> Nat]
    BY <1>1, SettleMoves
<1>4. MovesOf(c)
    BY <1>1, <1>3 DEF MovesOf, Places, Attempts, RouterTypeOK
<1>5. pc'[c] = "settled" /\ outcome'[c] = result
    BY <1>1, <1>3 DEF RouterTypeOK
<1>6. HasFallback(c)' /\ HasFallback(c)
    BY <1>1 DEF RouterTypeOK, HasFallback, Fallback
<1>7. CallOK(c)'
    BY <1>1, <1>2, <1>5, <1>6 DEF CallOK, Rests, Refused, Attempts, NoAnswer, Errors, Replies
<1>. QED
    BY <1>4, <1>7, OneCallMoves

\* A stream, whose outcome the property leaves alone, and a chat that only
\* starts a request.
LEMMA StartsKeep ==
    ASSUME RouterInv, NEW c \in Calls, Start(c) \/ StartFallback(c)
    PROVE  RouterInv'
<1>1. RouterTypeOK /\ CallOK(c) /\ UNCHANGED <<kind, route, gone, outcome, backoffs, answers>>
    BY DEF Start, StartFallback, RouterInv
<1>2. \/ pc[c] = "queued" /\ WithSlot(c, Primary(c), "primary")
      \/ pc[c] = "fbqueued" /\ HasFallback(c) /\ WithSlot(c, Fallback(c), "fallback")
    BY <1>1 DEF Start, StartFallback, RouterTypeOK
<1>3. /\ \/ pc[c] = "queued" /\ pc' = [pc EXCEPT ![c] = "primary"]
         \/ pc[c] = "fbqueued" /\ HasFallback(c) /\ pc' = [pc EXCEPT ![c] = "fallback"]
      /\ slots' \in [Providers -> Nat] /\ upstream' \in [Providers -> Nat]
    BY <1>1, <1>2, KnownProviders, SendsMove DEF Places
<1>4. /\ outcome' = [outcome EXCEPT ![c] = outcome[c]] /\ outcome[c] \in Outcomes
      /\ answers' = [answers EXCEPT ![c]["primary"] = answers[c]["primary"]]
      /\ answers[c]["primary"] \in Replies \cup {NoAnswer}
    BY <1>1 DEF RouterTypeOK, Attempts
<1>5. MovesOf(c)
    BY <1>1, <1>3, <1>4 DEF MovesOf, Places, Attempts, RouterTypeOK
<1>6. CallOK(c)'
    <2>1. \/ pc[c] = "queued" /\ pc'[c] = "primary"
          \/ pc[c] = "fbqueued" /\ pc'[c] = "fallback"
        BY <1>1, <1>3 DEF RouterTypeOK
    <2>. QED
        BY <1>1, <2>1 DEF CallOK, Rests, Nothing, HasFallback, Fallback
<1>. QED
    BY <1>5, <1>6, OneCallMoves

LEMMA StreamKeeps ==
    ASSUME RouterInv, NEW c \in Calls,
           \/ ClientLeaves(c) \/ ChunkAfterCancel(c) \/ EndsAfterCancel(c)
           \/ \E a \in Replies : StreamEnds(c, a)
    PROVE  RouterInv'
<1>1. kind[c] = "stream" /\ pc[c] \in {"primary", "fallback"} /\ RouterTypeOK
    BY DEF ClientLeaves, ChunkAfterCancel, EndsAfterCancel, StreamEnds, Streaming, RouterInv
<1>n. /\ pc = [pc EXCEPT ![c] = pc[c]] /\ pc[c] \in Places
      /\ outcome = [outcome EXCEPT ![c] = outcome[c]] /\ outcome[c] \in Outcomes
      /\ answers = [answers EXCEPT ![c]["primary"] = answers[c]["primary"]]
      /\ answers[c]["primary"] \in Replies \cup {NoAnswer} /\ "primary" \in Attempts
    BY <1>1 DEF RouterTypeOK, Attempts
<1>b. \A f \in {slots, upstream, backoffs} : f \in [Providers -> Nat]
    BY <1>1 DEF RouterTypeOK
<1>2. CASE ClientLeaves(c)
    <2>1. gone' \in [Calls -> BOOLEAN]
        BY <1>1, <1>2 DEF ClientLeaves, RouterTypeOK
    <2>2. UNCHANGED <<pc, kind, route, outcome, slots, upstream, backoffs, answers>>
        BY <1>2 DEF ClientLeaves
    <2>3. RouterTypeOK'
        BY <1>1, <2>1, <2>2 DEF RouterTypeOK, HasFallback, Fallback
    <2>4. \A d \in Calls : CallOK(d)'
        BY <2>2 DEF RouterInv, CallOK, Rests, Nothing, HasFallback, Fallback
    <2>. QED
        BY <2>3, <2>4 DEF RouterInv
<1>3. ASSUME MovesOf(c), pc'[c] # "new" PROVE RouterInv'
    <2>1. kind'[c] = "stream"
        BY <1>1, <1>3 DEF MovesOf
    <2>2. CallOK(c)'
        BY <1>3, <2>1 DEF CallOK
    <2>. QED
        BY <1>3, <2>2, OneCallMoves
<1>4. ASSUME NEW result \in Outcomes, Settle(c, result), UNCHANGED <<kind, route, gone, backoffs>>,
             NEW m \in Attempts, NEW a \in Replies \cup {NoAnswer},
             answers' = [answers EXCEPT ![c][m] = a]
      PROVE  RouterInv'
    <2>1. /\ pc' = [pc EXCEPT ![c] = "settled"] /\ outcome' = [outcome EXCEPT ![c] = result]
          /\ slots' \in [Providers -> Nat] /\ upstream' \in [Providers -> Nat]
        BY <1>1, <1>4, SettleMoves
    <2>2. MovesOf(c)
        BY <1>1, <1>4, <2>1 DEF MovesOf, Places, RouterTypeOK
    <2>3. pc'[c] # "new"
        BY <1>1, <2>1 DEF RouterTypeOK
    <2>. QED
        BY <1>3, <2>2, <2>3
<1>5. ASSUME NEW a \in Replies, StreamEnds(c, a) PROVE RouterInv'
    <2>1. pc[c] \in Attempts /\ (IF a = "ok" THEN "ok" ELSE "errorFrame") \in Outcomes
        BY <1>1 DEF Attempts, Outcomes
    <2>2. /\ Settle(c, IF a = "ok" THEN "ok" ELSE "errorFrame")
          /\ answers' = [answers EXCEPT ![c][pc[c]] = a]
          /\ UNCHANGED <<kind, route, gone, backoffs>>
        BY <1>5 DEF StreamEnds, Answered
    <2>. QED
        BY <1>4, <2>1, <2>2
<1>6. CASE EndsAfterCancel(c)
    <2>1. Settle(c, "left") /\ UNCHANGED <<kind, route, gone, backoffs, answers>> /\ "left" \in Outcomes
        BY <1>6 DEF EndsAfterCancel, Outcomes
    <2>. QED
        BY <1>4, <1>n, <2>1
<1>7. CASE ChunkAfterCancel(c)
    <2>1. UNCHANGED <<kind, route, gone, backoffs, answers>> /\ "left" \in Outcomes
        BY <1>7 DEF ChunkAfterCancel, Outcomes
    <2>2. CASE Settle(c, "left")
        BY <1>4, <1>n, <2>1, <2>2
    <2>3. CASE HasFallback(c) /\ WithoutSlot(c, Fallback(c), "fallback") /\ UNCHANGED outcome
        <3>1. /\ pc' = [pc EXCEPT ![c] = "fallback"]
              /\ slots' \in [Providers -> Nat] /\ upstream' \in [Providers -> Nat]
            BY <1>1, <2>3, KnownProviders, SendsMove DEF Places
        <3>2. MovesOf(c)
            BY <1>1, <1>n, <1>b, <2>1, <2>3, <3>1 DEF MovesOf, Places, RouterTypeOK
        <3>3. pc'[c] # "new"
            BY <1>1, <3>1 DEF RouterTypeOK
        <3>. QED
            BY <1>3, <3>2, <3>3
    <2>. QED
        BY <1>7, <2>2, <2>3 DEF ChunkAfterCancel
<1>. QED
    BY <1>2, <1>5, <1>6, <1>7

LEMMA RouterStep == RouterInv /\ [RouterNext]_routerVars => RouterInv'
<1> SUFFICES ASSUME RouterInv, [RouterNext]_routerVars PROVE RouterInv'
    OBVIOUS
<1>1. CASE RouterNext
    BY <1>1, SubmitKeeps, StartsKeep, PrimaryKeeps, RetryKeeps, FallbackKeeps, StreamKeeps
    DEF RouterNext
<1>2. CASE UNCHANGED routerVars
    BY <1>2 DEF routerVars, RouterInv, RouterTypeOK, CallOK, Rests, Nothing, HasFallback, Fallback
<1>. QED
    BY <1>1, <1>2

LEMMA RouterInvariant == RouterSpec => []RouterInv
BY RouterStart, RouterStep, PTL DEF RouterSpec

-----------------------------------------------------------------------------
\* Calls, routes, counters and answers keep their types, and only a call that
\* has a fallback ever waits for one or asks it.
THEOREM RouterTypeCorrect == RouterSpec => []RouterTypeOK
<1>1. RouterInv => RouterTypeOK
    BY DEF RouterInv
<1>. QED
    BY RouterInvariant, <1>1, PTL

\* A caller gets the result of the last request made for it: a success of any
\* attempt, the authorisation error of the first one, and exhaustion only when
\* retry and fallback were asked as far as there are any.
THEOREM CallersGetTheirAnswer == RouterSpec => []OutcomeFollowsAnswers
<1>1. RouterInv => OutcomeFollowsAnswers
    BY DEF RouterInv, CallOK, OutcomeFollowsAnswers, Sent, Attempts, NoAnswer
<1>. QED
    BY RouterInvariant, <1>1, PTL
(***************************************************************************)
(* The room of specialists.                                                *)
(***************************************************************************)

(* In a finite set that is ordered, told by the set of those before each   *)
(* member, nobody is before the first.                                     *)
LEMMA FirstOfAll ==
  ASSUME NEW S, IsFiniteSet(S), S # {},
         NEW before \in [S -> SUBSET S],
         \A i \in S : i \notin before[i],
         \A i, k \in S : k \in before[i] => before[k] \subseteq before[i]
  PROVE  \E i \in S : before[i] = {}
<1> DEFINE F == {before[i] : i \in S}
<1>1. IsWellFoundedOn(StrictSubsetOrdering(S), FiniteSubsetsOf(S))
    BY FS_StrictSubsetOrderingWellFounded
<1>2. F \subseteq FiniteSubsetsOf(S) /\ F # {}
    BY FS_FiniteSubsetsOfFinite
<1>3. PICK x \in F : \A y \in F : ~(<<y, x>> \in StrictSubsetOrdering(S))
    <2> HIDE DEF F
    <2>. QED
        BY <1>1, <1>2, WFMin
<1>4. PICK i \in S : x = before[i]
    OBVIOUS
<1>5. ASSUME NEW k \in before[i] PROVE FALSE
    <2>1. before[k] \subseteq before[i] /\ before[k] # before[i] /\ before[k] \in F
        BY <1>5
    <2>2. <<before[k], before[i]>> \in StrictSubsetOrdering(S)
        BY <1>4, <2>1 DEF StrictSubsetOrdering
    <2>. QED
        BY <1>3, <1>4, <2>1, <2>2
<1>. QED
    BY <1>4, <1>5

(* What the room knows of its calls: nobody is heard after all were        *)
(* settled, and a call that goes on unheard has been told to stop.         *)
RoomRecords == [agents : Seq(Specialists), category : Categories, abortable : BOOLEAN]

RoomTypeOK ==
  /\ phase \in {"idle", "asking", "synthesis", "done", "thrown"}
  /\ phase = "idle" => room = NoRoom
  /\ phase # "idle" => room \in RoomRecords
  /\ heard \in [Seats -> {"waiting", "text", "nothing", "timedOut"}]
  /\ open \in SUBSET (Seats \cup {Teamlead}) /\ aborted \in BOOLEAN

CallsAreTold ==
  /\ \A i \in Seats \cap open : heard[i] # "waiting" => i \in aborts
  /\ Teamlead \in open => phase = "synthesis" \/ (Over /\ Teamlead \in aborts)

NobodyIsLate ==
  /\ phase \in {"synthesis", "done", "thrown"} => \A i \in Seats : heard[i] # "waiting"
  /\ phase = "synthesis" => Cardinality(Valid) >= 2
  /\ phase # "done" => verdict = Undecided

RoomInv == RoomTypeOK /\ CallsAreTold /\ NobodyIsLate /\ RoomHearsInTime

LEMMA SeatsAreFinite ==
  ASSUME room \in RoomRecords
  PROVE  /\ Seats \subseteq Nat \ {Teamlead} /\ IsFiniteSet(Seats)
         /\ \A i \in Seats : room.agents[i] \in Specialists /\ WeightOf(i) \in Nat
<1>1. room.agents \in Seq(Specialists) /\ room.category \in Categories
    BY DEF RoomRecords
<1>2. Seats = 1..Len(room.agents) /\ Len(room.agents) \in Nat
    BY <1>1, LenProperties DEF Seats
<1>3. \A i \in Seats : room.agents[i] \in Specialists
    BY <1>1, <1>2, ElementOfSeq
<1>4. \A s \in Specialists, c \in Categories : WeightsOf[s][c] \in Nat
    BY DEF Specialists, Categories, WeightsOf
<1>. QED
    <2>1. IsFiniteSet(Seats)
        BY <1>2, FS_Interval
    <2>2. \A i \in Seats : i \in Nat \ {0}
        BY <1>2
    <2>3. \A i \in Seats : WeightOf(i) \in Nat
        BY <1>1, <1>3, <1>4 DEF WeightOf
    <2>. QED
        BY <1>3, <2>1, <2>2, <2>3 DEF Teamlead

(* Of any specialists there is one that none of them outweighs.            *)
LEMMA Heaviest ==
  ASSUME room \in RoomRecords, NEW S \in SUBSET Seats, S # {}
  PROVE  \E i \in S : \A j \in S : ~Heavier(j, i)
<1> DEFINE above == [i \in S |-> {j \in S : Heavier(j, i)}]
<1>1. IsFiniteSet(S) /\ \A i \in S : i \in Nat /\ WeightOf(i) \in Nat
    BY SeatsAreFinite, FS_Subset
<1>2. above \in [S -> SUBSET S] /\ \A i \in S : i \notin above[i]
    BY <1>1 DEF Heavier
<1>3. \A i, k \in S : k \in above[i] => above[k] \subseteq above[i]
    BY <1>1 DEF Heavier
<1>4. PICK i \in S : above[i] = {}
    <2> HIDE DEF above
    <2>. QED
        BY <1>1, <1>2, <1>3, FirstOfAll
<1>. QED
    BY <1>4

(* The two the fallback quotes: the heaviest, and the heaviest besides.    *)
LEMMA TopTwo ==
  ASSUME room \in RoomRecords, Cardinality(Valid) >= 2
  PROVE  /\ Top2 \subseteq Valid /\ Cardinality(Top2) = 2
         /\ \A i \in Top2, j \in Valid \ Top2 : WeightOf(j) <= WeightOf(i)
<1>1. /\ IsFiniteSet(Valid) /\ Valid \subseteq Seats
      /\ \A i \in Valid : i \in Nat /\ WeightOf(i) \in Nat
    BY SeatsAreFinite, FS_Subset DEF Valid
<1>2. Cardinality(Valid) \in Nat /\ Valid # {}
    BY <1>1, FS_CardinalityType, FS_EmptySet
<1>3. PICK a \in Valid : \A j \in Valid : ~Heavier(j, a)
    BY <1>1, <1>2, Heaviest
<1>4. IsFiniteSet(Valid \ {a}) /\ Cardinality(Valid \ {a}) = Cardinality(Valid) - 1
    BY <1>1, FS_RemoveElement
<1>5. Valid \ {a} # {}
    BY <1>2, <1>4, FS_EmptySet
<1>6. PICK b \in Valid \ {a} : \A j \in Valid \ {a} : ~Heavier(j, b)
    BY <1>1, <1>5, Heaviest
<1>7. \A i, j \in Valid : i # j => Heavier(i, j) \/ Heavier(j, i)
    BY <1>1 DEF Heavier
<1> DEFINE above(i) == {j \in Valid : Heavier(j, i)}
<1>8. above(a) = {} /\ Cardinality(above(a)) = 0
    BY <1>3, FS_EmptySet
<1>9. Cardinality(above(b)) < 2
    <2>1. above(b) \in SUBSET {a}
        BY <1>6
    <2>2. IsFiniteSet({a}) /\ Cardinality({a}) = 1
        BY FS_Singleton
    <2> HIDE DEF above
    <2>3. Cardinality(above(b)) <= 1 /\ Cardinality(above(b)) \in Nat
        BY <2>1, <2>2, FS_Subset, FS_CardinalityType
    <2>. QED
        BY <2>3
<1>10. IsFiniteSet({a, b}) /\ Cardinality({a, b}) = 2
    <2>1. IsFiniteSet({a}) /\ Cardinality({a}) = 1 /\ b \notin {a} /\ {a} \cup {b} = {a, b}
        BY FS_Singleton
    <2>2. Cardinality({a} \cup {b}) = 1 + 1 /\ IsFiniteSet({a} \cup {b})
        BY <2>1, FS_AddElement
    <2>. QED
        BY <2>1, <2>2
<1>11. ASSUME NEW k \in Valid \ {a, b} PROVE ~(Cardinality(above(k)) < 2)
    <2>1. {a, b} \in SUBSET above(k)
        BY <1>3, <1>6, <1>7
    <2>2. IsFiniteSet(above(k))
        BY <1>1, FS_Subset
    <2> HIDE DEF above
    <2>3. 2 <= Cardinality(above(k)) /\ Cardinality(above(k)) \in Nat
        BY <1>10, <2>1, <2>2, FS_Subset, FS_CardinalityType
    <2>. QED
        BY <2>3
<1>12. Top2 = {i \in Valid : Cardinality(above(i)) < 2}
    BY DEF Top2
<1> HIDE DEF above
<1>13. Top2 = {a, b}
    BY <1>8, <1>9, <1>11, <1>12
<1>14. \A i, j \in Valid : ~Heavier(j, i) => WeightOf(j) <= WeightOf(i)
    BY <1>1 DEF Heavier
<1>. QED
    BY <1>3, <1>6, <1>10, <1>13, <1>14

(* Every room that is convened is one of specialists for a category.       *)
LEMMA RoomsAreRooms == Rooms \subseteq RoomRecords
<1>1. ASSUME NEW words \in (SUBSET Words) \ {{}} PROVE Classify(words) \in RoomRecords
    <2> DEFINE M == Matches(words)
               t == CHOOSE i \in M : \A j \in M : i <= j
    <2>1. DOMAIN Triggers = {1, 2, 3, 4}
        BY DEF Triggers
    <2>2. M # {} /\ M \subseteq {1, 2, 3, 4}
        BY <2>1 DEF Matches, Words
    <2>3. \E i \in M : \A j \in M : i <= j
        <3> HIDE DEF M
        <3>1. CASE 1 \in M
            BY <2>2, <3>1
        <3>2. CASE 1 \notin M /\ 2 \in M
            BY <2>2, <3>2
        <3>3. CASE 1 \notin M /\ 2 \notin M /\ 3 \in M
            BY <2>2, <3>3
        <3>4. CASE 1 \notin M /\ 2 \notin M /\ 3 \notin M
            <4>1. M = {4}
                BY <2>2, <3>4
            <4>. QED
                BY <4>1
        <3>. QED
            BY <3>1, <3>2, <3>3, <3>4
    <2>4. t \in {1, 2, 3, 4}
        <3> HIDE DEF M
        <3>. QED
            BY <2>2, <2>3
    <2>5. EverySpecialist \in Seq(Specialists)
        BY DEF EverySpecialist, Specialists
    <2>6. \A i \in {1, 2, 3, 4} : Triggers[i].agents \in Seq(Specialists) /\ Triggers[i].category \in Categories
        <3>1. <<"coder", "critic">> \in Seq(Specialists) /\ <<"coder", "generalist">> \in Seq(Specialists)
            BY DEF Specialists
        <3>2. \A i \in {1, 2, 3, 4} : Triggers[i].agents \in {EverySpecialist, <<"coder", "critic">>, <<"coder", "generalist">>}
            <4> DEFINE all == EverySpecialist
            <4> HIDE DEF all
            <4>. QED
                BY DEF Triggers
        <3>3. \A i \in {1, 2, 3, 4} : Triggers[i].category \in Categories
            BY DEF Triggers, Categories
        <3>. QED
            BY <2>5, <3>1, <3>2, <3>3
    <2>7. Classify(words) = [agents |-> Triggers[t].agents, category |-> Triggers[t].category, abortable |-> FALSE]
        BY DEF Classify
    <2> HIDE DEF t
    <2>. QED
        BY <2>4, <2>6, <2>7 DEF RoomRecords
<1>2. \A c \in Consultations : [agents |-> c.agents, category |-> c.category, abortable |-> TRUE] \in RoomRecords
    BY RoomAssumption DEF RoomRecords
<1>. QED
    BY <1>1, <1>2 DEF Rooms

LEMMA RoomStart == RoomInit => RoomInv
<1> SUFFICES ASSUME RoomInit PROVE RoomInv
    OBVIOUS
<1> USE DEF RoomInit
<1>1. Seats = {}
    BY DEF Seats, NoRoom
<1>2. RoomTypeOK /\ CallsAreTold /\ NobodyIsLate
    <2>1. heard \in [Seats -> {"waiting", "text", "nothing", "timedOut"}]
        BY <1>1
    <2>. QED
        BY <1>1, <2>1 DEF RoomTypeOK, CallsAreTold, NobodyIsLate, Over, Teamlead
<1>3. RoomHearsInTime
    BY <1>1 DEF RoomHearsInTime, Undecided, Over
<1>. QED
    BY <1>2, <1>3 DEF RoomInv

(* Steps that leave the room and what was heard as they are.               *)
LEMMA SameRoom ==
  ASSUME UNCHANGED <<room, heard>>
  PROVE  Seats' = Seats /\ Valid' = Valid /\ Top2' = Top2 /\ \A i : WeightOf(i)' = WeightOf(i)
<1>1. Seats' = Seats /\ \A i : WeightOf(i)' = WeightOf(i)
    BY DEF Seats, WeightOf
<1>2. Valid' = Valid
    BY <1>1 DEF Valid
<1>. QED
    BY <1>1, <1>2 DEF Top2, Heavier

(* While nothing is decided, nothing is said.                              *)
LEMMA RoomSaysNothing ==
  ASSUME verdict' = Undecided, phase' # "done", phase' = "thrown" => open' \subseteq aborts'
  PROVE  RoomHearsInTime'
<1>1. verdict'.from = {} /\ verdict'.kind = "none"
    BY DEF Undecided
<1>. QED
    BY <1>1 DEF RoomHearsInTime, Over

LEMMA RoomConvenes ==
  ASSUME RoomInv, NEW r \in Rooms, Convenes(r)
  PROVE  RoomInv'
<1> USE DEF Convenes
<1>1. r \in RoomRecords /\ Seats' = DOMAIN r.agents
    BY RoomsAreRooms DEF Seats
<1>2. heard' \in [Seats' -> {"waiting", "text", "nothing", "timedOut"}] /\ \A i \in Seats' : heard'[i] = "waiting"
    BY <1>1
<1>3. RoomTypeOK'
    BY <1>1, <1>2 DEF RoomInv, RoomTypeOK
<1>4. CallsAreTold'
    <2>1. Teamlead \notin open'
        <3>1. r.agents \in Seq(Specialists)
            BY <1>1 DEF RoomRecords
        <3>2. Teamlead \notin DOMAIN r.agents
            BY <3>1, LenProperties DEF Teamlead
        <3>. QED
            BY <3>2
    <2>. QED
        BY <1>2, <2>1 DEF CallsAreTold
<1>5. verdict' = Undecided
    BY DEF RoomInv, NobodyIsLate
<1>. QED
    BY <1>3, <1>4, <1>5, RoomSaysNothing DEF RoomInv, NobodyIsLate

(* A specialist that answers, or whose timer fires.                        *)
LEMMA RoomHears ==
  ASSUME RoomInv, NEW i \in Seats,
         SpecialistTimesOut(i) \/ \E said \in {"text", "nothing"} : SpecialistAnswers(i, said)
  PROVE  RoomInv'
<1>1. /\ phase = "asking" /\ heard[i] = "waiting" /\ UNCHANGED <<room, phase, aborted, verdict>>
      /\ \E said \in {"text", "nothing", "timedOut"} : heard' = [heard EXCEPT ![i] = said]
    BY DEF SpecialistTimesOut, SpecialistAnswers
<1>2. \/ open' = open \ {i} /\ aborts' = aborts
      \/ open' = open /\ aborts' = aborts \cup {i}
    BY DEF SpecialistTimesOut, SpecialistAnswers, AbortsCalls
<1>3. Seats' = Seats
    BY <1>1 DEF Seats
<1>4. RoomTypeOK'
    BY <1>1, <1>2, <1>3 DEF RoomInv, RoomTypeOK
<1>5. CallsAreTold'
    BY <1>1, <1>2, <1>3 DEF RoomInv, RoomTypeOK, CallsAreTold, Over
<1>6. verdict' = Undecided
    BY <1>1 DEF RoomInv, NobodyIsLate
<1>. QED
    BY <1>1, <1>4, <1>5, <1>6, RoomSaysNothing DEF RoomInv, NobodyIsLate

(* A call that ends unheard, and the tool that gives up.                   *)
LEMMA RoomIgnores ==
  ASSUME RoomInv, GivesUp \/ \E i \in Seats \cup {Teamlead} : EndsUnheard(i)
  PROVE  RoomInv'
<1>1. UNCHANGED <<room, phase, heard, verdict>>
    BY DEF GivesUp, EndsUnheard
<1>2. open' \subseteq open /\ aborts \subseteq aborts' /\ aborted' \in BOOLEAN
    BY DEF GivesUp, EndsUnheard, AbortsCalls, RoomInv, RoomTypeOK
<1>3. Seats' = Seats /\ Valid' = Valid /\ \A i : WeightOf(i)' = WeightOf(i)
    BY <1>1, SameRoom
<1>4. RoomTypeOK'
    BY <1>1, <1>2, <1>3 DEF RoomInv, RoomTypeOK
<1>5. CallsAreTold'
    BY <1>1, <1>2, <1>3 DEF RoomInv, CallsAreTold, Over
<1>6. NobodyIsLate'
    BY <1>1, <1>3 DEF RoomInv, NobodyIsLate
<1>7. RoomHearsInTime'
    BY <1>1, <1>2, <1>3 DEF RoomInv, RoomHearsInTime, Over
<1>. QED
    BY <1>4, <1>5, <1>6, <1>7 DEF RoomInv

(* All specialists are settled.                                            *)
LEMMA RoomSettles ==
  ASSUME RoomInv, AllSettled
  PROVE  RoomInv'
<1>1. /\ phase = "asking" /\ UNCHANGED <<room, heard, aborted>>
      /\ \A i \in Seats : heard[i] # "waiting"
    BY DEF AllSettled, RoomInv, RoomTypeOK, Range
<1>2. Seats' = Seats /\ Valid' = Valid
    BY <1>1, SameRoom
<1>3. room \in RoomRecords /\ IsFiniteSet(Valid) /\ Cardinality(Valid) \in Nat /\ Teamlead \notin Seats
    BY <1>1, SeatsAreFinite, FS_Subset, FS_CardinalityType DEF RoomInv, RoomTypeOK, Valid
<1>4. open \subseteq aborts /\ Teamlead \notin open
    BY <1>1 DEF RoomInv, RoomTypeOK, CallsAreTold, Over
<1>5. CASE Cardinality(Valid) <= 1
    <2>1. /\ phase' = "done" /\ UNCHANGED <<open, aborts>>
          /\ verdict' = [kind |-> "said", from |-> Valid]
        BY <1>5 DEF AllSettled, RoomReturns
    <2>2. RoomTypeOK' /\ CallsAreTold' /\ NobodyIsLate'
        BY <1>1, <1>2, <1>4, <2>1 DEF RoomInv, RoomTypeOK, CallsAreTold, NobodyIsLate, Over
    <2>3. verdict'.kind = "said" /\ verdict'.from = Valid
        BY <2>1
    <2>4. RoomHearsInTime'
        BY <1>1, <1>2, <1>4, <1>5, <2>1, <2>3 DEF RoomHearsInTime, Over, Valid
    <2>. QED
        BY <2>2, <2>4 DEF RoomInv
<1>6. CASE ~(Cardinality(Valid) <= 1)
    <2>1. /\ phase' = "synthesis" /\ open' = open \cup {Teamlead} /\ aborts \subseteq aborts'
          /\ verdict' = verdict
        BY <1>6 DEF AllSettled
    <2>2. RoomTypeOK'
        BY <1>1, <1>2, <2>1 DEF RoomInv, RoomTypeOK
    <2>3. CallsAreTold'
        BY <1>1, <1>2, <1>3, <1>4, <2>1 DEF CallsAreTold
    <2>4. verdict' = Undecided
        BY <1>1, <2>1 DEF RoomInv, NobodyIsLate
    <2>5. Cardinality(Valid) >= 2
        BY <1>3, <1>6
    <2>6. NobodyIsLate'
        BY <1>1, <1>2, <2>1, <2>4, <2>5 DEF NobodyIsLate
    <2>. QED
        BY <2>1, <2>2, <2>3, <2>4, <2>6, RoomSaysNothing DEF RoomInv
<1>. QED
    BY <1>5, <1>6

(* The team lead answers, fails or is too slow.                            *)
LEMMA RoomConcludes ==
  ASSUME RoomInv,
         \/ TeamleadFails \/ SynthesisTimesOut
         \/ \E made \in {"synthesis", "empty"} : TeamleadAnswers(made)
  PROVE  RoomInv'
<1>1. /\ phase = "synthesis" /\ UNCHANGED <<room, heard, aborted>>
      /\ phase' \in {"done", "thrown"} /\ open' \subseteq open
    BY DEF TeamleadFails, SynthesisTimesOut, TeamleadAnswers, RoomReturns
<1>2. Seats' = Seats /\ Valid' = Valid /\ Top2' = Top2 /\ \A i : WeightOf(i)' = WeightOf(i)
    BY <1>1, SameRoom
<1>3. /\ room \in RoomRecords /\ Cardinality(Valid) >= 2 /\ verdict = Undecided
      /\ \A i \in Seats : heard[i] # "waiting"
    BY <1>1 DEF RoomInv, RoomTypeOK, NobodyIsLate
<1>4. IsFiniteSet(Valid) /\ Cardinality(Valid) \in Nat
    BY <1>3, SeatsAreFinite, FS_Subset, FS_CardinalityType DEF Valid
<1>5. open' \subseteq aborts' /\ aborts \subseteq aborts'
    BY <1>3 DEF RoomInv, RoomTypeOK, CallsAreTold, TeamleadFails, SynthesisTimesOut,
                TeamleadAnswers, AbortsCalls
<1>6. RoomTypeOK'
    BY <1>1, <1>2 DEF RoomInv, RoomTypeOK
<1>7. CallsAreTold'
    BY <1>1, <1>5 DEF CallsAreTold, Over
<1>8. CASE TeamleadFails
    <2>1. phase' = "thrown" /\ verdict' = Undecided
        BY <1>3, <1>8 DEF TeamleadFails
    <2>2. RoomHearsInTime'
        BY <1>5, <2>1, RoomSaysNothing
    <2>. QED
        BY <1>1, <1>2, <1>3, <1>6, <1>7, <2>1, <2>2 DEF RoomInv, NobodyIsLate
<1>9. CASE SynthesisTimesOut
    <2>1. phase' = "done" /\ verdict' = [kind |-> "fallback", from |-> Top2]
        BY <1>9 DEF SynthesisTimesOut, RoomReturns
    <2>2. verdict'.kind = "fallback" /\ verdict'.from = Top2
        BY <2>1
    <2>3. /\ Top2 \subseteq Valid /\ Cardinality(Top2) = 2
          /\ \A i \in Top2, j \in Valid \ Top2 : WeightOf(j) <= WeightOf(i)
        BY <1>3, TopTwo
    <2>4. RoomHearsInTime'
        BY <1>1, <1>2, <1>5, <2>1, <2>2, <2>3 DEF RoomHearsInTime, Over, Valid
    <2>. QED
        BY <1>1, <1>2, <1>3, <1>6, <1>7, <2>1, <2>4 DEF RoomInv, NobodyIsLate
<1>10. CASE \E made \in {"synthesis", "empty"} : TeamleadAnswers(made)
    <2>1. PICK made \in {"synthesis", "empty"} : TeamleadAnswers(made)
        BY <1>10
    <2>2. phase' = "done" /\ verdict' = [kind |-> made, from |-> Valid]
        BY <2>1 DEF TeamleadAnswers, RoomReturns
    <2>3. verdict'.kind = made /\ verdict'.from = Valid
        BY <2>2
    <2>4. ~(Cardinality(Valid) <= 1)
        BY <1>3, <1>4
    <2>5. RoomHearsInTime'
        BY <1>1, <1>2, <1>5, <2>2, <2>3, <2>4 DEF RoomHearsInTime, Over, Valid
    <2>. QED
        BY <1>1, <1>2, <1>3, <1>6, <1>7, <2>2, <2>5 DEF RoomInv, NobodyIsLate
<1>. QED
    BY <1>8, <1>9, <1>10

LEMMA RoomStep == RoomInv /\ [RoomNext]_roomVars => RoomInv'
<1> SUFFICES ASSUME RoomInv, [RoomNext]_roomVars PROVE RoomInv'
    OBVIOUS
<1>1. CASE RoomNext
    BY <1>1, RoomConvenes, RoomHears, RoomIgnores, RoomSettles, RoomConcludes DEF RoomNext
<1>2. CASE UNCHANGED roomVars
    <2>1. UNCHANGED <<room, phase, heard, open, aborts, aborted, verdict>>
        BY <1>2 DEF roomVars
    <2>2. Seats' = Seats /\ Valid' = Valid /\ \A i : WeightOf(i)' = WeightOf(i)
        BY <2>1, SameRoom
    <2>. QED
        BY <2>1, <2>2 DEF RoomInv, RoomTypeOK, CallsAreTold, NobodyIsLate, RoomHearsInTime, Over
<1>. QED
    BY <1>1, <1>2

\* For any rooms the schema of the tool lets through, and whichever timers,
\* answers and aborts come first: the room speaks for nobody who was not heard
\* in time, its fallback quotes two that nobody left out outweighs, and no call
\* outlives it untold.
THEOREM RoomSpeaksInTime == RoomSpec => AlwaysInTime
<1>1. RoomInv /\ RoomInv' => RoomHearsInTime'
    BY DEF RoomInv
<1>2. RoomSpec => []RoomInv
    BY RoomStart, RoomStep, PTL DEF RoomSpec
<1>. QED
    BY <1>1, <1>2, PTL DEF AlwaysInTime

(* Least and greatest of some positions of a sequence.                     *)
LEMMA EndsOfPositions ==
  ASSUME NEW n \in Nat, NEW S \in SUBSET (1..n), S # {}
  PROVE  /\ Min(S) \in S /\ \A i \in S : Min(S) <= i
         /\ Max(S) \in S /\ \A i \in S : i <= Max(S)
<1>0. IsFiniteSet(S) /\ \A i \in S : i \in Int
    <2>1. IsFiniteSet(1..n)
        BY FS_Interval
    <2>2. \A i \in S : i \in Int
        OBVIOUS
    <2>. QED
        BY <2>1, <2>2, FS_Subset
<1>1. \E i \in S : \A j \in S : i <= j
    <2> DEFINE before == [i \in S |-> {j \in S : j < i}]
    <2>1. PICK i \in S : before[i] = {}
        <3>1. before \in [S -> SUBSET S]
            OBVIOUS
        <3>2. \A i \in S : i \notin before[i]
            BY <1>0
        <3>3. ASSUME NEW i \in S, NEW k \in before[i], NEW j \in before[k]
              PROVE  j \in before[i]
            BY <1>0
        <3> HIDE DEF before
        <3>. QED
            BY <1>0, <3>1, <3>2, <3>3, FirstOfAll
    <2>. QED
        BY <1>0, <2>1
<1>2. \E i \in S : \A j \in S : i >= j
    <2> DEFINE before == [i \in S |-> {j \in S : j > i}]
    <2>1. PICK i \in S : before[i] = {}
        <3>1. before \in [S -> SUBSET S]
            OBVIOUS
        <3>2. \A i \in S : i \notin before[i]
            BY <1>0
        <3>3. ASSUME NEW i \in S, NEW k \in before[i], NEW j \in before[k]
              PROVE  j \in before[i]
            BY <1>0
        <3> HIDE DEF before
        <3>. QED
            BY <1>0, <3>1, <3>2, <3>3, FirstOfAll
    <2>. QED
        BY <1>0, <2>1
<1>3. Min(S) \in S /\ \A i \in S : Min(S) <= i
    BY <1>1 DEF Min
<1>4. Max(S) \in S /\ \A i \in S : Max(S) >= i
    BY <1>2 DEF Max
<1>. QED
    BY <1>3, <1>4

(* Sequences put together and cut out, position by position.               *)
LEMMA Joined ==
  ASSUME NEW S, NEW s \in Seq(S), NEW t \in Seq(S)
  PROVE  /\ s \o t \in Seq(S) /\ Len(s \o t) = Len(s) + Len(t)
         /\ \A i \in 1..Len(s) : (s \o t)[i] = s[i]
         /\ \A i \in 1..Len(t) : (s \o t)[Len(s) + i] = t[i]
<1>1. Len(s) \in Nat /\ Len(t) \in Nat
    BY LenProperties
<1>2. /\ s \o t \in Seq(S) /\ Len(s \o t) = Len(s) + Len(t)
      /\ \A i \in 1 .. Len(s) + Len(t) :
            (s \o t)[i] = IF i <= Len(s) THEN s[i] ELSE t[i - Len(s)]
    BY ConcatProperties
<1> DEFINE joined == s \o t
<1>3. ASSUME NEW i \in 1..Len(s) PROVE joined[i] = s[i]
    BY <1>1, <1>2
<1>4. ASSUME NEW i \in 1..Len(t) PROVE joined[Len(s) + i] = t[i]
    <2>1. Len(s) + i \in 1..Len(s) + Len(t) /\ ~(Len(s) + i <= Len(s)) /\ (Len(s) + i) - Len(s) = i
        BY <1>1
    <2>. QED
        BY <1>2, <2>1
<1>. QED
    BY <1>2, <1>3, <1>4

LEMMA CutOut ==
  ASSUME NEW S, NEW s \in Seq(S), NEW a \in Nat \ {0}, NEW b \in 0..Len(s), a <= b + 1
  PROVE  /\ SubSeq(s, a, b) \in Seq(S) /\ Len(SubSeq(s, a, b)) = b - a + 1
         /\ \A i \in 1..b - a + 1 : SubSeq(s, a, b)[i] = s[a - 1 + i]
<1>1. Len(s) \in Nat /\ a \in Int /\ b \in Int
    BY LenProperties
<1>2. \A i \in a..b : s[i] \in S
    BY <1>1, ElementOfSeq
<1>3. /\ SubSeq(s, a, b) \in Seq(S)
      /\ Len(SubSeq(s, a, b)) = IF a <= b THEN b - a + 1 ELSE 0
      /\ \A i \in 1 .. b - a + 1 : SubSeq(s, a, b)[i] = s[a + i - 1]
    BY <1>1, <1>2, SubSeqProperties
<1>4. Len(SubSeq(s, a, b)) = b - a + 1
    BY <1>1, <1>3
<1>5. \A i \in 1..b - a + 1 : a + i - 1 = a - 1 + i
    BY <1>1
<1>. QED
    BY <1>3, <1>4, <1>5

(***************************************************************************)
(* The agent's loop.                                                       *)
(***************************************************************************)

Messages == [role : {"system", "user", "assistant", "tool"}, step : 0..MaxSteps, n : 0..MaxCalls]
Entries == [role : {"user", "assistant", "tool"}, step : 1..MaxSteps, n : 0..MaxCalls]

(* What leads the history in the transcript, and what follows it.          *)
LeadLength == IF covered = 0 THEN 2 ELSE 3
NoteLength == IF stage = "asking" THEN 1 ELSE 0

(* The transcript, position by position.                                   *)
InPlace ==
  /\ messages \in Seq(Messages) /\ history \in Seq(Entries) /\ covered \in 0..Len(history)
  /\ Len(messages) = LeadLength + (Len(history) - covered) + NoteLength
  /\ messages[1] = SystemPrompt /\ messages[2] = Task
  /\ covered # 0 => \E t \in 2..step : messages[3] = Summary(t)
  /\ \A i \in 1..Len(history) - covered : messages[LeadLength + i] = history[covered + i]
  /\ stage = "asking" => messages[Len(messages)] = BudgetNote(step)

(* A history in which results follow their calls in order, as far as they  *)
(* have come.                                                              *)
ResultsFollow ==
  \A i \in DOMAIN history :
     /\ history[i].role = "user" => history[i].n = 0
     /\ history[i].role = "tool" => history[i].n >= 1 /\ AnswersACall(history, i)
     /\ history[i].role = "assistant" =>
           \A k \in 1..history[i].n :
               i + k <= Len(history) => history[i + k] = ToolResult(history[i].step, k)

(* The summary does not part a call from its results.                      *)
CutIsClean == covered < Len(history) => history[covered + 1].role # "tool"

HasResults(i) == history[i].role = "assistant" => i + history[i].n <= Len(history)

(* Between answers of the model no call is open; while one is worked on,   *)
(* its calls before the next have their results.                           *)
NothingOpen ==
  stage \in {"ready", "compressing", "asking"} =>
     turn = NoTurn /\ \A i \in DOMAIN history : HasResults(i)

OneOpen ==
  stage \in {"tools", "running"} =>
     /\ step >= 1
     /\ turn.next >= 1 /\ turn.next <= turn.calls /\ (turn.done = 0 \/ turn.done >= turn.next)
     /\ LET a == Len(history) - turn.next + 1
        IN /\ a > covered /\ a <= Len(history)
           /\ history[a] = Assistant(step, turn.calls)
           /\ \A i \in DOMAIN history : i # a => HasResults(i)
     /\ \A i \in DOMAIN history :
           history[i].role = "tool" /\ history[i].step = step => history[i].n < turn.next

StepsInOrder ==
  /\ \A i \in DOMAIN history : history[i].step <= step
  /\ stage \in {"compressing", "asking"} =>
        step >= 1 /\ \A i \in DOMAIN history : history[i].step < step
  /\ stage = "compressing" => Middle(messages) # <<>>

Scalars ==
  /\ mode \in {"run", "stream"} /\ stage \in Stages /\ step \in 0..MaxSteps
  /\ over \in BOOLEAN /\ chatKnown \in BOOLEAN
  /\ turn \in [calls : 0..MaxCalls, done : 0..MaxCalls, next : 0..MaxCalls]
  /\ late \subseteq (1..MaxSteps) \X (1..MaxCalls)
  /\ lastSaid \in 0..step
  /\ stopped \in Reasons
  /\ recordedAnswer \in [kind : AnswerKinds, step : 0..MaxSteps]

LoopInv ==
  Scalars /\ InPlace /\ ResultsFollow /\ CutIsClean /\ NothingOpen /\ OneOpen /\ StepsInOrder

LEMMA MessageKinds ==
  /\ MaxSteps \in Nat /\ MaxSteps >= 1 /\ MaxCalls \in Nat /\ MaxCalls >= 1
  /\ \A t \in 0..MaxSteps, k \in 0..MaxCalls :
        /\ Message("system", t, k) \in Messages /\ Message("user", t, k) \in Messages
        /\ Message("assistant", t, k) \in Messages /\ Message("tool", t, k) \in Messages
  /\ \A t \in 1..MaxSteps, k \in 0..MaxCalls :
        /\ Message("user", t, k) \in Entries
        /\ Message("assistant", t, k) \in Entries /\ Message("tool", t, k) \in Entries
  /\ \A role, t, k : /\ Message(role, t, k).role = role /\ Message(role, t, k).step = t
                     /\ Message(role, t, k).n = k
<1>1. /\ MaxSteps \in Nat /\ MaxSteps >= 1 /\ MaxCalls \in Nat /\ MaxCalls >= 1
    BY AgentAssumption
<1>. QED
    BY <1>1 DEF Message, Messages, Entries

(* The head is the prompt and the task, so the tail starts behind it and   *)
(* never with a result.                                                    *)
LEMMA Compression ==
  ASSUME LoopInv
  PROVE  /\ HeadEnd(messages) = 2
         /\ TailStart(messages) \in 3..Len(messages) + 1
         /\ TailStart(messages) <= Len(messages) => messages[TailStart(messages)].role # "tool"
<1>1. messages \in Seq(Messages) /\ Len(messages) \in Nat /\ Len(messages) >= 2
      /\ messages[1] = SystemPrompt /\ messages[2] = Task
    <2>1. Len(messages) \in Nat /\ Len(history) \in Nat /\ covered \in 0..Len(history)
        BY LenProperties DEF LoopInv, InPlace
    <2>2. LeadLength \in {2, 3} /\ NoteLength \in {0, 1}
        BY DEF LeadLength, NoteLength
    <2>3. /\ messages \in Seq(Messages)
          /\ Len(messages) = LeadLength + (Len(history) - covered) + NoteLength
          /\ messages[1] = SystemPrompt /\ messages[2] = Task
        BY DEF LoopInv, InPlace
    <2>. QED
        BY <2>1, <2>2, <2>3
<1>2. messages[1].role = "system" /\ messages[2].role = "user" /\ DOMAIN messages = 1..Len(messages)
    BY <1>1, MessageKinds DEF SystemPrompt, Task
<1>3. HeadEnd(messages) = 2
    <2> DEFINE others == {i \in DOMAIN messages : messages[i].role # "system"}
    <2>1. others \in SUBSET (1..Len(messages)) /\ 2 \in others /\ 1 \notin others
        BY <1>1, <1>2
    <2>2. Min(others) \in others /\ Min(others) <= 2
        <3> HIDE DEF others
        <3>. QED
            BY <1>1, <2>1, EndsOfPositions
    <2>3. Min(others) = 2
        <3>1. \A i \in others : i \in Nat /\ i >= 2
            BY <1>1, <1>2
        <3> HIDE DEF others
        <3>. QED
            BY <2>2, <3>1
    <2>. QED
        BY <2>1, <2>3 DEF HeadEnd
<1> DEFINE near == Max({HeadEnd(messages), Len(messages) - KeepRecent})
           recent == near + 1 .. Len(messages)
           starts == {i \in recent : ~CannotStartTail(messages[i])}
           users == {i \in HeadEnd(messages) + 1 .. Len(messages) : messages[i].role = "user"}
<1>4. near \in Nat /\ near >= 2
    <2> DEFINE pair == {2, Len(messages) - KeepRecent}
    <2>1. \E x \in pair : \A y \in pair : x >= y
        BY <1>1, AgentAssumption
    <2>2. Max(pair) \in pair /\ \A y \in pair : Max(pair) >= y
        BY <2>1 DEF Max
    <2>. QED
        BY <1>1, <1>3, <2>2, AgentAssumption
<1>5. /\ starts \in SUBSET (1..Len(messages))
      /\ \A i \in starts : i \in 3..Len(messages) /\ messages[i].role # "tool"
    <2> HIDE DEF near
    <2>. QED
        BY <1>1, <1>4 DEF CannotStartTail
<1>6. /\ users \in SUBSET (1..Len(messages))
      /\ \A i \in users : i \in 3..Len(messages) /\ messages[i].role # "tool"
    BY <1>1, <1>3
<1>7. TailStart(messages) = IF starts # {} THEN Min(starts)
                            ELSE IF users # {} THEN Max(users) ELSE Len(messages) + 1
    BY DEF TailStart
<1> HIDE DEF starts, users
<1>8. starts # {} => Min(starts) \in starts
    BY <1>1, <1>5, EndsOfPositions
<1>9. users # {} => Max(users) \in users
    BY <1>1, <1>6, EndsOfPositions
<1>10. /\ TailStart(messages) \in 3..Len(messages) + 1
       /\ \/ TailStart(messages) = Len(messages) + 1
          \/ messages[TailStart(messages)].role # "tool"
    <2>1. CASE starts # {}
        <3>1. TailStart(messages) \in starts
            BY <1>7, <1>8, <2>1
        <3>2. TailStart(messages) \in 3..Len(messages) /\ messages[TailStart(messages)].role # "tool"
            BY <1>5, <3>1
        <3>. QED
            BY <1>1, <3>2
    <2>2. CASE starts = {} /\ users # {}
        <3>1. TailStart(messages) \in users
            BY <1>7, <1>9, <2>2
        <3>2. TailStart(messages) \in 3..Len(messages) /\ messages[TailStart(messages)].role # "tool"
            BY <1>6, <3>1
        <3>. QED
            BY <1>1, <3>2
    <2>3. CASE starts = {} /\ users = {}
        BY <1>1, <1>7, <2>3
    <2>. QED
        BY <2>1, <2>2, <2>3
<1>. QED
    BY <1>1, <1>3, <1>10


LEMMA LoopStart == LoopInit => LoopInv
<1> SUFFICES ASSUME LoopInit PROVE LoopInv
    OBVIOUS
<1> USE DEF LoopInit
<1>1. messages = <<SystemPrompt, Task>> /\ SystemPrompt \in Messages /\ Task \in Messages
    BY MessageKinds DEF SystemPrompt, Task
<1>2. InPlace
    <2>1. messages \in Seq(Messages) /\ Len(messages) = 2
          /\ messages[1] = SystemPrompt /\ messages[2] = Task
        BY <1>1
    <2>2. history \in Seq(Entries) /\ Len(history) = 0 /\ covered = 0
        OBVIOUS
    <2>3. LeadLength = 2 /\ NoteLength = 0
        BY DEF LeadLength, NoteLength
    <2>. QED
        BY <2>1, <2>2, <2>3 DEF InPlace
<1>3. Scalars
    BY MessageKinds DEF Scalars, Stages, NoTurn, Reasons, AnswerKinds
<1>. QED
    BY <1>2, <1>3 DEF LoopInv, ResultsFollow, CutIsClean, NothingOpen, OneOpen, StepsInOrder, HasResults

(* What the loop knows of its transcript does not change while only the    *)
(* answer in work moves.                                                   *)
LEMMA SamePlaces ==
  ASSUME InPlace, UNCHANGED <<messages, history, covered>>, step' = step,
         stage # "asking", stage' # "asking"
  PROVE  InPlace'
BY DEF InPlace, LeadLength, NoteLength

(* What a step pushes follows the history, in both.                        *)
LEMMA PushedInPlace ==
  ASSUME InPlace, stage = "asking", NEW msgs \in Seq(Entries), Push(msgs),
         UNCHANGED <<step, covered>>, stage' # "asking"
  PROVE  /\ InPlace' /\ Len(history') = Len(history) + Len(msgs)
         /\ \A i \in DOMAIN history : history'[i] = history[i]
         /\ \A i \in DOMAIN msgs : history'[Len(history) + i] = msgs[i]
<1>1. /\ messages \in Seq(Messages) /\ history \in Seq(Entries) /\ covered \in 0..Len(history)
      /\ Len(history) \in Nat /\ Len(messages) \in Nat /\ Len(msgs) \in Nat
      /\ LeadLength \in {2, 3} /\ LeadLength' = LeadLength
      /\ Len(messages) = LeadLength + (Len(history) - covered) + 1
    BY DEF InPlace, LeadLength, NoteLength
<1>2. msgs \in Seq(Messages)
    <2>1. MaxSteps \in Nat /\ MaxCalls \in Nat
        BY MessageKinds
    <2>2. \A m \in Entries : m \in Messages
        BY <2>1 DEF Entries, Messages
    <2>. QED
        BY <2>2
<1>3. /\ history' \in Seq(Entries) /\ Len(history') = Len(history) + Len(msgs)
      /\ \A i \in 1..Len(history) : history'[i] = history[i]
      /\ \A i \in 1..Len(msgs) : history'[Len(history) + i] = msgs[i]
    BY <1>1 DEF Push
<1>4. /\ WithoutNote \in Seq(Messages) /\ Len(WithoutNote) = Len(messages) - 1
      /\ \A i \in 1..Len(messages) - 1 : WithoutNote[i] = messages[i]
    BY <1>1 DEF WithoutNote, Front
<1>5. /\ messages' \in Seq(Messages) /\ Len(messages') = Len(messages) - 1 + Len(msgs)
      /\ \A i \in 1..Len(messages) - 1 : messages'[i] = messages[i]
      /\ \A i \in 1..Len(msgs) : messages'[Len(messages) - 1 + i] = msgs[i]
    <2>1. messages' = WithoutNote \o msgs
        BY DEF Push
    <2> HIDE DEF WithoutNote
    <2>2. /\ messages' \in Seq(Messages) /\ Len(messages') = Len(WithoutNote) + Len(msgs)
          /\ \A i \in 1..Len(WithoutNote) + Len(msgs) :
                messages'[i] = IF i <= Len(WithoutNote) THEN WithoutNote[i]
                               ELSE msgs[i - Len(WithoutNote)]
        BY <1>2, <1>4, <2>1, ConcatProperties
    <2> DEFINE kept == Len(messages) - 1
    <2>3. kept \in Nat /\ Len(WithoutNote) = kept
        BY <1>1, <1>4
    <2>4. ASSUME NEW i \in 1..kept PROVE messages'[i] = messages[i]
        <3>1. i \in 1..kept + Len(msgs) /\ i <= kept /\ WithoutNote[i] = messages[i]
            BY <1>1, <1>4, <2>3
        <3>. QED
            BY <2>2, <2>3, <3>1
    <2>5. ASSUME NEW i \in 1..Len(msgs) PROVE messages'[kept + i] = msgs[i]
        <3>1. kept + i \in 1..kept + Len(msgs) /\ ~(kept + i <= kept) /\ (kept + i) - kept = i
            BY <1>1, <2>3
        <3>. QED
            BY <2>2, <2>3, <3>1
    <2>. QED
        BY <2>2, <2>3, <2>4, <2>5
<1>6. Len(messages') = LeadLength' + (Len(history') - covered') + NoteLength'
    BY <1>1, <1>3, <1>5 DEF NoteLength
<1>7. messages'[1] = SystemPrompt /\ messages'[2] = Task
      /\ (covered # 0 => \E t \in 2..step : messages'[3] = Summary(t))
    <2>1. messages[1] = SystemPrompt /\ messages[2] = Task
          /\ (covered # 0 => LeadLength = 3 /\ \E t \in 2..step : messages[3] = Summary(t))
        BY DEF InPlace, LeadLength
    <2>2. messages'[1] = messages[1] /\ messages'[2] = messages[2]
          /\ (LeadLength = 3 => messages'[3] = messages[3])
        <3>1. /\ 1 \in 1..Len(messages) - 1 /\ 2 \in 1..Len(messages) - 1
              /\ (LeadLength = 3 => 3 \in 1..Len(messages) - 1)
            BY <1>1
        <3>. QED
            BY <1>5, <3>1
    <2>. QED
        BY <2>1, <2>2
<1>8. ASSUME NEW i \in 1..Len(history') - covered
      PROVE  messages'[LeadLength + i] = history'[covered + i]
    <2>1. CASE i <= Len(history) - covered
        <3>1. messages[LeadLength + i] = history[covered + i]
            BY <1>1, <2>1 DEF InPlace
        <3>2. LeadLength + i \in 1..Len(messages) - 1 /\ covered + i \in 1..Len(history)
            BY <1>1, <2>1
        <3>. QED
            BY <1>3, <1>5, <3>1, <3>2
    <2>2. CASE i > Len(history) - covered
        <3> DEFINE j == i - (Len(history) - covered)
        <3>1. /\ j \in 1..Len(msgs) /\ covered + i = Len(history) + j
              /\ LeadLength + i = Len(messages) - 1 + j
            BY <1>1, <1>3, <2>2
        <3> HIDE DEF j
        <3>2. messages'[LeadLength + i] = msgs[j] /\ history'[covered + i] = msgs[j]
            BY <1>3, <1>5, <3>1
        <3>. QED
            BY <3>2
    <2>. QED
        BY <1>1, <1>3, <2>1, <2>2
<1>9. covered' = covered /\ step' = step /\ covered' \in 0..Len(history')
    BY <1>1, <1>3
<1>10. InPlace'
    <2>1. \A i \in 1..Len(history') - covered' : messages'[LeadLength' + i] = history'[covered' + i]
        BY <1>1, <1>8, <1>9
    <2>2. covered' # 0 => \E t \in 2..step' : messages'[3] = Summary(t)
        BY <1>7, <1>9
    <2>. QED
        BY <1>3, <1>5, <1>6, <1>7, <1>9, <2>1, <2>2 DEF InPlace
<1>11. DOMAIN history = 1..Len(history) /\ DOMAIN msgs = 1..Len(msgs)
    BY <1>1, LenProperties
<1>. QED
    BY <1>3, <1>10, <1>11


(* The result of a call follows both.                                      *)
LEMMA AnswerInPlace ==
  ASSUME InPlace, stage # "asking", stage' # "asking", NEW r \in Entries,
         messages' = Append(messages, r), history' = Append(history, r),
         UNCHANGED <<step, covered>>
  PROVE  /\ InPlace' /\ Len(history') = Len(history) + 1
         /\ \A i \in DOMAIN history : history'[i] = history[i]
         /\ history'[Len(history) + 1] = r
<1>1. /\ messages \in Seq(Messages) /\ history \in Seq(Entries) /\ covered \in 0..Len(history)
      /\ Len(history) \in Nat /\ Len(messages) \in Nat
      /\ LeadLength \in {2, 3} /\ LeadLength' = LeadLength
      /\ Len(messages) = LeadLength + (Len(history) - covered)
    BY DEF InPlace, LeadLength, NoteLength
<1>2. r \in Messages
    <2>1. MaxSteps \in Nat /\ MaxCalls \in Nat
        BY MessageKinds
    <2>. QED
        BY <2>1 DEF Entries, Messages
<1>3. /\ history' \in Seq(Entries) /\ Len(history') = Len(history) + 1
      /\ \A i \in 1..Len(history) : history'[i] = history[i]
      /\ history'[Len(history) + 1] = r
    BY <1>1, AppendProperties
<1>4. /\ messages' \in Seq(Messages) /\ Len(messages') = Len(messages) + 1
      /\ \A i \in 1..Len(messages) : messages'[i] = messages[i]
      /\ messages'[Len(messages) + 1] = r
    BY <1>1, <1>2, AppendProperties
<1>5. Len(messages') = LeadLength' + (Len(history') - covered') + NoteLength'
    BY <1>1, <1>3, <1>4 DEF NoteLength
<1>6. messages'[1] = SystemPrompt /\ messages'[2] = Task
      /\ (covered' # 0 => \E t \in 2..step' : messages'[3] = Summary(t))
    <2>1. messages[1] = SystemPrompt /\ messages[2] = Task
          /\ (covered # 0 => LeadLength = 3 /\ \E t \in 2..step : messages[3] = Summary(t))
        BY DEF InPlace, LeadLength
    <2>2. messages'[1] = messages[1] /\ messages'[2] = messages[2]
          /\ (LeadLength = 3 => messages'[3] = messages[3])
        BY <1>1, <1>4
    <2>. QED
        BY <2>1, <2>2
<1>7. ASSUME NEW i \in 1..Len(history') - covered
      PROVE  messages'[LeadLength + i] = history'[covered + i]
    <2>0. Len(history') = Len(history) + 1
        BY <1>3
    <2>3. i \in Nat /\ 1 <= i /\ i <= Len(history) + 1 - covered
        BY <1>1, <2>0
    <2>1. CASE i <= Len(history) - covered
        <3>0. i \in 1..Len(history) - covered
            BY <1>1, <2>1, <2>3
        <3>1. messages[LeadLength + i] = history[covered + i]
            BY <3>0 DEF InPlace
        <3>2. LeadLength + i \in 1..Len(messages) /\ covered + i \in 1..Len(history)
            BY <1>1, <2>1
        <3>. QED
            BY <1>3, <1>4, <3>1, <3>2
    <2>2. CASE i > Len(history) - covered
        <3>1. covered + i = Len(history) + 1 /\ LeadLength + i = Len(messages) + 1
            BY <1>1, <2>2, <2>3
        <3>. QED
            BY <1>3, <1>4, <3>1
    <2>. QED
        BY <1>1, <2>1, <2>2, <2>3
<1>8. InPlace'
    <2>1. \A i \in 1..Len(history') - covered' : messages'[LeadLength' + i] = history'[covered' + i]
        BY <1>1, <1>7
    <2>2. covered' = covered /\ covered' \in 0..Len(history')
        BY <1>1, <1>3
    <2>. QED
        BY <1>3, <1>4, <1>5, <1>6, <2>1, <2>2 DEF InPlace
<1>9. DOMAIN history = 1..Len(history)
    BY <1>1, LenProperties
<1>. QED
    BY <1>3, <1>8, <1>9

(* The request closes with the note.                                       *)
LEMMA AskInPlace ==
  ASSUME InPlace, stage # "asking", step \in Nat, step' \in 0..MaxSteps, step' >= step, Ask,
         UNCHANGED <<history, covered>>
  PROVE  InPlace'
<1>1. /\ messages \in Seq(Messages) /\ history \in Seq(Entries) /\ covered \in 0..Len(history)
      /\ Len(history) \in Nat /\ Len(messages) \in Nat
      /\ LeadLength \in {2, 3} /\ LeadLength' = LeadLength
      /\ Len(messages) = LeadLength + (Len(history) - covered)
    BY DEF InPlace, LeadLength, NoteLength
<1>2. BudgetNote(step') \in Messages
    BY MessageKinds DEF BudgetNote
<1>3. /\ messages' \in Seq(Messages) /\ Len(messages') = Len(messages) + 1
      /\ \A i \in 1..Len(messages) : messages'[i] = messages[i]
      /\ messages'[Len(messages) + 1] = BudgetNote(step')
    BY <1>1, <1>2, AppendProperties DEF Ask
<1>4. Len(messages') = LeadLength' + (Len(history') - covered') + NoteLength'
    BY <1>1, <1>3 DEF NoteLength, Ask
<1>5. messages'[1] = SystemPrompt /\ messages'[2] = Task
      /\ (covered' # 0 => \E t \in 2..step' : messages'[3] = Summary(t))
    <2>1. messages[1] = SystemPrompt /\ messages[2] = Task
          /\ (covered # 0 => LeadLength = 3 /\ \E t \in 2..step : messages[3] = Summary(t))
        BY DEF InPlace, LeadLength
    <2>2. messages'[1] = messages[1] /\ messages'[2] = messages[2]
          /\ (LeadLength = 3 => messages'[3] = messages[3])
        <3>1. /\ 1 \in 1..Len(messages) /\ 2 \in 1..Len(messages)
              /\ LeadLength = 3 => 3 \in 1..Len(messages)
            BY <1>1
        <3>. QED
            BY <1>3, <3>1
    <2>3. \A t \in 2..step : t \in 2..step'
        OBVIOUS
    <2>. QED
        BY <2>1, <2>2, <2>3
<1>6. \A i \in 1..Len(history') - covered' : messages'[LeadLength' + i] = history'[covered' + i]
    <2>1. \A i \in 1..Len(history) - covered : messages[LeadLength + i] = history[covered + i]
        BY DEF InPlace
    <2>2. \A i \in 1..Len(history) - covered : LeadLength + i \in 1..Len(messages)
        BY <1>1
    <2>. QED
        BY <1>1, <1>3, <2>1, <2>2
<1>7. messages'[Len(messages')] = BudgetNote(step')
    BY <1>3
<1>. QED
    BY <1>1, <1>3, <1>4, <1>5, <1>6, <1>7 DEF InPlace


(* What a compression takes away is a summary, if there was one, and the   *)
(* messages of steps that follow it.                                       *)
LEMMA MiddleCounts ==
  ASSUME LoopInv, stage = "compressing"
  PROVE  /\ TailStart(messages) >= 4
         /\ Cardinality(FromSteps(Middle(messages))) = TailStart(messages) - 1 - LeadLength
<1> DEFINE ts == TailStart(messages)
           middle == Middle(messages)
<1>1. /\ messages \in Seq(Messages) /\ history \in Seq(Entries) /\ covered \in 0..Len(history)
      /\ Len(history) \in Nat /\ Len(messages) \in Nat
      /\ LeadLength \in {2, 3}
      /\ Len(messages) = LeadLength + (Len(history) - covered)
    BY DEF LoopInv, InPlace, LeadLength, NoteLength
<1>2. HeadEnd(messages) = 2 /\ ts \in 3..Len(messages) + 1
    BY Compression
<1> HIDE DEF ts
<1>3. middle = SubSeq(messages, 3, ts - 1)
    BY <1>2 DEF Middle, ts
<1>4. middle # <<>>
    BY DEF LoopInv, StepsInOrder
<1> HIDE DEF middle
<1>5. ts >= 4
    <2>1. CASE ts = 3
        <3>1. middle = <<>>
            BY <1>1, <1>3, <2>1, SubSeqProperties
        <3>. QED
            BY <1>4, <3>1
    <2>. QED
        BY <1>1, <1>2, <2>1
<1>6. /\ middle \in Seq(Messages) /\ DOMAIN middle = 1..ts - 3
      /\ \A i \in 1..ts - 3 : middle[i] = messages[2 + i]
    BY <1>1, <1>2, <1>3, <1>5, SubSeqProperties
<1>7. ASSUME NEW i \in 1..ts - 3 PROVE i > LeadLength - 2 <=> middle[i].role # "system"
    <2>1. CASE i > LeadLength - 2
        <3> DEFINE j == 2 + i - LeadLength
        <3>1. j \in 1..Len(history) - covered /\ 2 + i = LeadLength + j
            BY <1>1, <1>2, <2>1
        <3> HIDE DEF j
        <3>2. messages[LeadLength + j] = history[covered + j] /\ covered + j \in 1..Len(history)
            BY <1>1, <3>1 DEF LoopInv, InPlace
        <3>3. history[covered + j] \in Entries
            BY <1>1, <3>2, ElementOfSeq
        <3>4. middle[i] = history[covered + j]
            BY <1>6, <3>1, <3>2
        <3>. QED
            BY <2>1, <3>3, <3>4 DEF Entries
    <2>2. CASE ~(i > LeadLength - 2)
        <3>1. LeadLength = 3 /\ i = 1
            BY <1>1, <2>2
        <3>2. PICK t \in 2..step : messages[3] = Summary(t)
            BY <3>1 DEF LoopInv, InPlace, LeadLength
        <3>3. middle[i] = Summary(t)
            BY <1>6, <3>1, <3>2
        <3>. QED
            BY <2>2, <3>3, MessageKinds DEF Summary
    <2>. QED
        BY <2>1, <2>2
<1>8. FromSteps(middle) = LeadLength - 1 .. ts - 3
    BY <1>1, <1>2, <1>5, <1>6, <1>7 DEF FromSteps
<1>9. Cardinality(LeadLength - 1 .. ts - 3) = ts - 1 - LeadLength
    <2>1. LeadLength - 1 \in Int /\ ts - 3 \in Int
        BY <1>1, <1>2
    <2>2. Cardinality(LeadLength - 1 .. ts - 3) =
             IF LeadLength - 1 > ts - 3 THEN 0 ELSE (ts - 3) - (LeadLength - 1) + 1
        BY <2>1, FS_Interval
    <2>. QED
        BY <1>1, <1>2, <1>5, <2>2
<1>. QED
    BY <1>5, <1>8, <1>9 DEF ts, middle

LEMMA CompressedInPlace ==
  ASSUME LoopInv, Compressed
  PROVE  InPlace' /\ CutIsClean'
<1> DEFINE ts == TailStart(messages)
           total == Len(messages)
           tail == KeptTail(messages)
<1>1. /\ messages \in Seq(Messages) /\ history \in Seq(Entries) /\ covered \in 0..Len(history)
      /\ Len(history) \in Nat /\ total \in Nat
      /\ LeadLength \in {2, 3}
      /\ total = LeadLength + (Len(history) - covered)
      /\ messages[1] = SystemPrompt /\ messages[2] = Task
      /\ \A i \in 1..Len(history) - covered : messages[LeadLength + i] = history[covered + i]
    BY DEF LoopInv, InPlace, LeadLength, NoteLength, Compressed
<1>2. HeadEnd(messages) = 2 /\ ts \in 4..total + 1
      /\ (ts <= total => messages[ts].role # "tool")
    BY <1>1, Compression, MiddleCounts DEF Compressed
<1>3. covered' = covered + (ts - 1 - LeadLength)
    BY MiddleCounts DEF Compressed
<1>4. step \in 2..MaxSteps /\ UNCHANGED <<step, history>> /\ stage' = "asking"
    <2>1. Len(history) >= 1
        BY <1>1, <1>2 DEF LeadLength
    <2>2. history[1] \in Entries /\ 1 \in DOMAIN history
        BY <1>1, <2>1, ElementOfSeq, LenProperties
    <2>3. history[1].step \in 1..MaxSteps /\ history[1].step < step
        BY <2>2 DEF Entries, LoopInv, StepsInOrder, Compressed
    <2>. QED
        BY <2>3, MessageKinds DEF LoopInv, Scalars, Compressed
<1>5. Summary(step) \in Messages /\ BudgetNote(step) \in Messages
    BY <1>4, MessageKinds DEF Summary, BudgetNote
<1>6. messages' = KeptHead(messages) \o <<Summary(step)>> \o tail \o <<BudgetNote(step)>>
    BY DEF Compressed
<1>7. /\ KeptHead(messages) \in Seq(Messages) /\ Len(KeptHead(messages)) = 2
      /\ KeptHead(messages)[1] = SystemPrompt /\ KeptHead(messages)[2] = Task
    <2>1. KeptHead(messages) = SubSeq(messages, 1, 2)
        BY <1>2 DEF KeptHead
    <2>. QED
        BY <1>1, <1>2, <2>1, SubSeqProperties
<1> HIDE DEF ts, total
<1>8. /\ tail \in Seq(Messages) /\ Len(tail) = total - ts + 1
      /\ \A i \in 1..total - ts + 1 : tail[i] = messages[ts - 1 + i]
    <2>1. tail = SubSeq(messages, ts, total)
        BY DEF KeptTail, ts, total
    <2>2. ts \in Nat \ {0} /\ total \in 0..Len(messages) /\ ts <= total + 1
        BY <1>1, <1>2 DEF total
    <2> HIDE DEF tail
    <2>3. messages \in Seq(Messages)
        BY <1>1
    <2>. QED
        BY ONLY <2>1, <2>2, <2>3, CutOut
<1> HIDE DEF tail
<1> DEFINE lead == KeptHead(messages) \o <<Summary(step)>>
           body == lead \o tail
<1>9. /\ lead \in Seq(Messages) /\ Len(lead) = 3
      /\ lead[1] = SystemPrompt /\ lead[2] = Task /\ lead[3] = Summary(step)
    <2>1. /\ <<Summary(step)>> \in Seq(Messages) /\ Len(<<Summary(step)>>) = 1
          /\ <<Summary(step)>>[1] = Summary(step)
        BY <1>5
    <2> DEFINE one == <<Summary(step)>>
    <2> HIDE DEF one
    <2>2. /\ lead \in Seq(Messages) /\ Len(lead) = 3
          /\ \A i \in 1..2 : lead[i] = KeptHead(messages)[i]
          /\ \A i \in 1..1 : lead[2 + i] = one[i]
        BY <1>7, <2>1, Joined DEF one
    <2>. QED
        BY <1>7, <2>1, <2>2 DEF one
<1> HIDE DEF lead
<1>10. /\ body \in Seq(Messages) /\ Len(body) = 3 + (total - ts + 1)
       /\ \A i \in 1..3 : body[i] = lead[i]
       /\ \A i \in 1..total - ts + 1 : body[3 + i] = tail[i]
    <2>1. lead \in Seq(Messages) /\ tail \in Seq(Messages)
        BY <1>8, <1>9
    <2>2. /\ body \in Seq(Messages) /\ Len(body) = Len(lead) + Len(tail)
          /\ \A i \in 1..Len(lead) : body[i] = lead[i]
          /\ \A i \in 1..Len(tail) : body[Len(lead) + i] = tail[i]
        BY ONLY <2>1, Joined
    <2> HIDE DEF body
    <2>. QED
        BY <1>8, <1>9, <2>2
<1>11. messages' = body \o <<BudgetNote(step)>>
    BY <1>6 DEF lead
<1> HIDE DEF body
<1>12. /\ messages' \in Seq(Messages) /\ Len(messages') = 3 + (total - ts + 1) + 1
       /\ messages'[1] = SystemPrompt /\ messages'[2] = Task /\ messages'[3] = Summary(step)
       /\ \A i \in 1..total - ts + 1 : messages'[3 + i] = tail[i]
       /\ messages'[Len(messages')] = BudgetNote(step)
    <2>1. total - ts + 1 \in Nat
        BY <1>1, <1>2
    <2>2. /\ messages' \in Seq(Messages) /\ Len(messages') = Len(body) + 1
          /\ \A i \in 1..Len(body) : messages'[i] = body[i]
          /\ messages'[Len(body) + 1] = BudgetNote(step)
        BY <1>5, <1>10, <1>11, AppendProperties, AppendIsConcat
    <2>3. \A i \in 1..3 : i \in 1..Len(body)
        BY <1>10, <2>1
    <2>4. \A i \in 1..total - ts + 1 : 3 + i \in 1..Len(body)
        BY <1>10, <2>1
    <2>. QED
        BY <1>9, <1>10, <2>1, <2>2, <2>3, <2>4
<1>13. covered' \in 1..Len(history) /\ LeadLength' = 3 /\ NoteLength' = 1
       /\ total - ts + 1 = Len(history) - covered'
    <2>1. covered = 0 => LeadLength = 2
        BY DEF LeadLength
    <2>2. covered' \in 1..Len(history) /\ total - ts + 1 = Len(history) - covered'
        BY <1>1, <1>2, <1>3, <2>1
    <2>. QED
        BY <1>1, <1>4, <2>2 DEF LeadLength, NoteLength
<1>14. ASSUME NEW i \in 1..Len(history) - covered'
       PROVE  messages[ts - 1 + i] = history[covered' + i]
    <2> DEFINE j == ts - 1 - LeadLength + i
    <2>1. j \in 1..Len(history) - covered /\ ts - 1 + i = LeadLength + j /\ covered' + i = covered + j
        <3>1. i \in Nat /\ i >= 1 /\ i <= total - ts + 1
            BY <1>1, <1>2, <1>13
        <3>. QED
            BY <1>1, <1>2, <1>3, <3>1
    <2> HIDE DEF j
    <2>. QED
        BY <1>1, <2>1
<1>15. InPlace'
    <2>1. \A i \in 1..Len(history) - covered' : messages'[3 + i] = history[covered' + i]
        BY <1>8, <1>12, <1>13, <1>14
    <2>2. \E t \in 2..step' : messages'[3] = Summary(t)
        BY <1>4, <1>12
    <2>. QED
        BY <1>1, <1>4, <1>12, <1>13, <2>1, <2>2 DEF InPlace
<1>16. CutIsClean'
    <2>1. covered' < Len(history) => history[covered' + 1] = messages[ts] /\ ts <= total
        <3>1. ASSUME covered' < Len(history)
              PROVE  history[covered' + 1] = messages[ts] /\ ts <= total
            <4>1. 1 \in 1..Len(history) - covered' /\ ts - 1 + 1 = ts
                BY <1>1, <1>2, <1>13, <3>1
            <4>2. messages[ts - 1 + 1] = history[covered' + 1]
                BY <1>14, <4>1
            <4>. QED
                BY <1>1, <1>2, <1>13, <3>1, <4>1, <4>2
        <3>. QED
            BY <3>1
    <2>. QED
        BY <1>2, <1>4, <2>1 DEF CutIsClean
<1>. QED
    BY <1>15, <1>16


-----------------------------------------------------------------------------
LEMMA LateEnds == ASSUME LoopInv, NEW c \in late, LateHandlerEnds(c) PROVE LoopInv'
<1>1. InPlace' /\ Scalars'
    <2>1. InPlace'
        BY DEF LoopInv, LateHandlerEnds, InPlace, LeadLength, NoteLength
    <2>2. late' \subseteq late
        BY DEF LateHandlerEnds
    <2>3. Scalars'
        BY <2>2 DEF LoopInv, LateHandlerEnds, Scalars, recorded
    <2>. QED
        BY <2>1, <2>3
<1>2. /\ ResultsFollow' /\ CutIsClean' /\ NothingOpen' /\ OneOpen' /\ StepsInOrder'
    BY DEF LoopInv, LateHandlerEnds, ResultsFollow, CutIsClean, NothingOpen, OneOpen,
           StepsInOrder, HasResults, AnswersACall
<1>. QED
    BY <1>1, <1>2 DEF LoopInv

(* A history that stays, and with it whose calls are open.                 *)
LEMMA HistoryStays ==
  ASSUME LoopInv, UNCHANGED history
  PROVE  /\ ResultsFollow' /\ \A i \in DOMAIN history' : HasResults(i)' <=> HasResults(i)
         /\ (UNCHANGED covered => CutIsClean')
BY DEF LoopInv, ResultsFollow, AnswersACall, HasResults, CutIsClean

LEMMA StartKeeps == ASSUME LoopInv, StartStep PROVE LoopInv'
<1>1. step \in Nat /\ step' = step + 1 /\ step' \in 1..MaxSteps /\ step' >= step
    BY MessageKinds DEF LoopInv, Scalars, StartStep, HasStepsLeft
<1>2. /\ stage = "ready" /\ stage' \in {"compressing", "asking"}
      /\ UNCHANGED <<mode, turn, late, lastSaid, stopped, chatKnown, rows, recordedAnswer, history, covered>>
      /\ over' \in BOOLEAN
    BY DEF StartStep, Ask, recorded, LoopInv, Scalars
<1>3. Scalars'
    BY <1>1, <1>2 DEF LoopInv, Scalars, Stages
<1>4. InPlace'
    <2>1. CASE stage' = "compressing"
        <3>1. UNCHANGED messages
            BY <2>1 DEF StartStep, Ask
        <3>2. \A t \in 2..step : t \in 2..step'
            BY <1>1
        <3>. QED
            BY <1>2, <2>1, <3>1, <3>2 DEF LoopInv, InPlace, LeadLength, NoteLength
    <2>2. CASE stage' = "asking"
        <3>1. Ask
            BY <2>2 DEF StartStep
        <3>. QED
            BY <1>1, <1>2, <3>1, AskInPlace DEF LoopInv
    <2>. QED
        BY <1>2, <2>1, <2>2
<1>5. ResultsFollow' /\ CutIsClean' /\ NothingOpen'
    BY <1>2, HistoryStays DEF LoopInv, NothingOpen
<1>6. OneOpen'
    BY <1>2 DEF OneOpen
<1>7. StepsInOrder'
    <2>1. \A i \in DOMAIN history : history[i].step \in Nat
        <3>1. \A e \in Entries : e.step \in Nat
            BY DEF Entries
        <3>2. \A i \in DOMAIN history : history[i] \in Entries
            BY ElementOfSeq, LenProperties DEF LoopInv, InPlace
        <3>. QED
            BY <3>1, <3>2
    <2>2. \A i \in DOMAIN history' : history'[i].step < step'
        BY <1>1, <1>2, <2>1 DEF LoopInv, StepsInOrder
    <2>3. stage' = "compressing" => Middle(messages') # <<>>
        BY <1>2 DEF StartStep, Ask
    <2>. QED
        BY <1>1, <1>2, <2>1, <2>2, <2>3 DEF StepsInOrder
<1>. QED
    BY <1>3, <1>4, <1>5, <1>6, <1>7 DEF LoopInv

LEMMA CompressionKeeps == ASSUME LoopInv, Compressed \/ KeptOriginal PROVE LoopInv'
<1>1. /\ stage = "compressing" /\ stage' = "asking"
      /\ UNCHANGED <<mode, step, turn, late, lastSaid, stopped, chatKnown, rows, recordedAnswer, history>>
      /\ over' \in BOOLEAN
    BY DEF Compressed, KeptOriginal, Ask, recorded, LoopInv, Scalars
<1>2. InPlace' /\ CutIsClean'
    <2>1. CASE Compressed
        BY <2>1, CompressedInPlace
    <2>2. CASE KeptOriginal
        <3>1. Ask /\ UNCHANGED covered
            BY <2>2 DEF KeptOriginal
        <3>2. step \in Nat /\ step' \in 0..MaxSteps /\ step' >= step
            BY <1>1, MessageKinds DEF LoopInv, Scalars
        <3>. QED
            BY <1>1, <3>1, <3>2, AskInPlace, HistoryStays DEF LoopInv
    <2>. QED
        BY <2>1, <2>2
<1>3. Scalars'
    BY <1>1 DEF LoopInv, Scalars, Stages
<1>4. ResultsFollow' /\ NothingOpen'
    BY <1>1, HistoryStays DEF LoopInv, NothingOpen
<1>5. OneOpen' /\ StepsInOrder'
    BY <1>1 DEF LoopInv, OneOpen, StepsInOrder
<1>. QED
    BY <1>2, <1>3, <1>4, <1>5 DEF LoopInv


(* What an answer of the model adds: no results, and calls at its end.     *)
LEMMA SayingKeeps ==
  ASSUME LoopInv, stage = "asking", NEW msgs \in Seq(Entries), Push(msgs),
         UNCHANGED <<step, covered>>, stage' # "asking",
         \A i \in DOMAIN msgs :
            /\ msgs[i].step = step
            /\ \/ msgs[i].role = "user" /\ msgs[i].n = 0
               \/ msgs[i].role = "assistant" /\ (msgs[i].n = 0 \/ i = Len(msgs))
  PROVE  /\ InPlace' /\ ResultsFollow' /\ CutIsClean'
         /\ Len(history') = Len(history) + Len(msgs)
         /\ \A i \in DOMAIN history' :
               \/ i \in DOMAIN history /\ history'[i] = history[i] /\ HasResults(i)'
               \/ \E j \in DOMAIN msgs : i = Len(history) + j /\ history'[i] = msgs[j]
         /\ \A i \in DOMAIN msgs : history'[Len(history) + i] = msgs[i]
<1>1. /\ InPlace' /\ Len(history') = Len(history) + Len(msgs)
      /\ \A i \in DOMAIN history : history'[i] = history[i]
      /\ \A i \in DOMAIN msgs : history'[Len(history) + i] = msgs[i]
    BY PushedInPlace DEF LoopInv
<1>2. /\ Len(history) \in Nat /\ Len(msgs) \in Nat /\ history' \in Seq(Entries)
      /\ history \in Seq(Entries) /\ covered \in 0..Len(history)
    BY <1>1, LenProperties DEF LoopInv, InPlace
<1>3. /\ DOMAIN history = 1..Len(history) /\ DOMAIN msgs = 1..Len(msgs)
      /\ DOMAIN history' = 1..Len(history) + Len(msgs)
    BY <1>1, <1>2, LenProperties
<1>4. ASSUME NEW i \in DOMAIN history'
      PROVE  i \in DOMAIN history \/ \E j \in DOMAIN msgs : i = Len(history) + j
    <2>1. CASE i > Len(history)
        <3>1. i - Len(history) \in DOMAIN msgs /\ i = Len(history) + (i - Len(history))
            BY <1>2, <1>3, <2>1
        <3>. QED
            BY <3>1
    <2>. QED
        BY <1>2, <1>3, <2>1
<1>5. ASSUME NEW i \in DOMAIN history
      PROVE  /\ HasResults(i)' /\ (history[i].role = "user" => history[i].n = 0)
             /\ history[i].role = "tool" => history[i].n >= 1 /\ AnswersACall(history, i)'
             /\ history[i].role = "assistant" =>
                   \A k \in 1..history[i].n : history'[i + k] = ToolResult(history[i].step, k)
    <2>1. history[i].n \in Nat /\ i \in Nat
        <3>1. \A e \in Entries : e.n \in Nat
            BY DEF Entries
        <3>. QED
            BY <1>2, <1>3, <3>1, ElementOfSeq
    <2>2. HasResults(i) /\ HasResults(i)'
        <3>1. HasResults(i)
            BY DEF LoopInv, NothingOpen
        <3>. QED
            BY <1>1, <1>2, <2>1, <3>1 DEF HasResults
    <2>3. history[i].role = "tool" => history[i].n >= 1 /\ AnswersACall(history, i)'
        <3>1. history[i].role = "tool" => history[i].n >= 1 /\ AnswersACall(history, i)
            BY DEF LoopInv, ResultsFollow
        <3>. QED
            BY <1>1, <1>2, <1>3, <2>1, <3>1 DEF AnswersACall
    <2>4. ASSUME history[i].role = "assistant", NEW k \in 1..history[i].n
          PROVE  history'[i + k] = ToolResult(history[i].step, k)
        <3>1. i + k \in DOMAIN history
            BY <1>2, <1>3, <2>1, <2>2, <2>4 DEF HasResults
        <3>2. history[i + k] = ToolResult(history[i].step, k)
            BY <1>2, <1>3, <2>4, <3>1 DEF LoopInv, ResultsFollow
        <3>. QED
            BY <1>1, <3>1, <3>2
    <2>. QED
        BY <2>2, <2>3, <2>4 DEF LoopInv, ResultsFollow
<1>6. ResultsFollow'
    <2> SUFFICES ASSUME NEW i \in DOMAIN history'
                 PROVE  /\ history'[i].role = "user" => history'[i].n = 0
                        /\ history'[i].role = "tool" => history'[i].n >= 1 /\ AnswersACall(history, i)'
                        /\ history'[i].role = "assistant" =>
                              \A k \in 1..history'[i].n :
                                  i + k <= Len(history') =>
                                     history'[i + k] = ToolResult(history'[i].step, k)
        BY DEF ResultsFollow
    <2>1. CASE i \in DOMAIN history
        BY <1>1, <1>5, <2>1
    <2>2. CASE i \notin DOMAIN history
        <3>1. PICK j \in DOMAIN msgs : i = Len(history) + j
            BY <1>4, <2>2
        <3>2. history'[i] = msgs[j]
            BY <1>1, <3>1
        <3>3. msgs[j].role # "tool" /\ (msgs[j].role = "user" => msgs[j].n = 0)
            BY <3>1
        <3>4. msgs[j].role = "assistant" /\ msgs[j].n # 0 => i = Len(history')
            BY <1>1, <3>1
        <3>5. msgs[j].n \in Nat /\ i \in Nat
            <4>1. \A e \in Entries : e.n \in Nat
                BY DEF Entries
            <4>. QED
                BY <1>2, <1>3, <3>1, <4>1, ElementOfSeq
        <3>. QED
            BY <1>1, <1>2, <3>2, <3>3, <3>4, <3>5
    <2>. QED
        BY <2>1, <2>2
<1>7. CutIsClean'
    <2>1. CASE covered < Len(history)
        <3>1. covered + 1 \in DOMAIN history
            BY <1>2, <1>3, <2>1
        <3>. QED
            BY <1>1, <2>1, <3>1 DEF LoopInv, CutIsClean
    <2>2. CASE covered = Len(history) /\ Len(msgs) >= 1
        <3>1. 1 \in DOMAIN msgs /\ history'[covered + 1] = msgs[1]
            BY <1>1, <1>2, <1>3, <2>2
        <3>. QED
            BY <3>1 DEF CutIsClean
    <2>3. CASE covered = Len(history) /\ Len(msgs) = 0
        BY <1>1, <1>2, <2>3 DEF CutIsClean
    <2>. QED
        BY <1>2, <2>1, <2>2, <2>3
<1>. QED
    BY <1>1, <1>4, <1>5, <1>6, <1>7


LEMMA AskingIsTyped ==
  ASSUME LoopInv, stage = "asking"
  PROVE  /\ step \in 1..MaxSteps /\ turn = NoTurn /\ DOMAIN history = 1..Len(history)
         /\ Len(history) \in Nat /\ covered \in 0..Len(history)
         /\ \A i \in DOMAIN history : history[i].step < step /\ history[i].step <= step
<1>1. step \in 1..MaxSteps /\ turn = NoTurn
    BY DEF LoopInv, Scalars, StepsInOrder, NothingOpen
<1>2. DOMAIN history = 1..Len(history) /\ Len(history) \in Nat /\ covered \in 0..Len(history)
    BY LenProperties DEF LoopInv, InPlace
<1>3. \A i \in DOMAIN history : history[i].step < step /\ history[i].step <= step
    BY DEF LoopInv, StepsInOrder
<1>. QED
    BY <1>1, <1>2, <1>3

LEMMA SilenceKeeps == ASSUME LoopInv, RequestThrows \/ NoChoice PROVE LoopInv'
<1> DEFINE none == <<>>
<1>1. /\ stage = "asking" /\ stage' \in {"ended", "finishing"} /\ Push(none)
      /\ stopped' \in {"thrown", "error"}
      /\ UNCHANGED <<mode, step, over, turn, late, lastSaid, chatKnown, rows, recordedAnswer, covered>>
    BY DEF RequestThrows, NoChoice, recorded
<1>2. none \in Seq(Entries) /\ DOMAIN none = {} /\ Len(none) = 0
    BY EmptySeq
<1> HIDE DEF none
<1>3. /\ InPlace' /\ ResultsFollow' /\ CutIsClean'
      /\ \A i \in DOMAIN history' : i \in DOMAIN history /\ history'[i] = history[i]
    BY <1>1, <1>2, SayingKeeps
<1>4. Scalars'
    BY <1>1 DEF LoopInv, Scalars, Stages, Reasons
<1>5. NothingOpen' /\ OneOpen' /\ StepsInOrder'
    BY <1>1, <1>3, AskingIsTyped DEF NothingOpen, OneOpen, StepsInOrder
<1>. QED
    BY <1>3, <1>4, <1>5 DEF LoopInv

LEMMA NudgeKeeps == ASSUME LoopInv, SaysContent \/ SaysNothing PROVE LoopInv'
<1> DEFINE said == Assistant(step, 0)
           nudge == Nudge(step)
<1>1. PICK msgs \in {<<said, nudge>>, <<nudge>>} :
         /\ stage = "asking" /\ stage' = "ready" /\ Push(msgs) /\ lastSaid' \in {lastSaid, step}
         /\ UNCHANGED <<mode, step, over, turn, late, stopped, chatKnown, rows, recordedAnswer, covered>>
    BY DEF SaysContent, SaysNothing, NowSaid, recorded
<1>2. /\ step \in 1..MaxSteps /\ turn = NoTurn /\ Len(history) \in Nat
      /\ \A i \in DOMAIN history : history[i].step <= step
    BY <1>1, AskingIsTyped
<1>3. /\ said \in Entries /\ said.role = "assistant" /\ said.step = step /\ said.n = 0
      /\ nudge \in Entries /\ nudge.role = "user" /\ nudge.step = step /\ nudge.n = 0
    BY <1>2, MessageKinds DEF Assistant, Nudge
<1> HIDE DEF said, nudge
<1>4. /\ msgs \in Seq(Entries) /\ DOMAIN msgs = 1..Len(msgs) /\ Len(msgs) \in 1..2
      /\ \A i \in DOMAIN msgs : msgs[i] \in {said, nudge}
    <2>1. CASE msgs = <<said, nudge>>
        BY <1>3, <2>1
    <2>2. CASE msgs = <<nudge>>
        BY <1>3, <2>2
    <2>. QED
        BY <1>1, <2>1, <2>2
<1>5. \A i \in DOMAIN msgs :
         /\ msgs[i].step = step /\ msgs[i].n = 0
         /\ msgs[i].role = "user" \/ msgs[i].role = "assistant"
    BY <1>3, <1>4
<1>6. /\ InPlace' /\ ResultsFollow' /\ CutIsClean'
      /\ Len(history') = Len(history) + Len(msgs)
      /\ \A i \in DOMAIN history' :
            \/ i \in DOMAIN history /\ history'[i] = history[i] /\ HasResults(i)'
            \/ \E j \in DOMAIN msgs : i = Len(history) + j /\ history'[i] = msgs[j]
    BY <1>1, <1>4, <1>5, SayingKeeps
<1>7. Scalars'
    BY <1>1, <1>2 DEF LoopInv, Scalars, Stages
<1>8. NothingOpen'
    <2>1. ASSUME NEW i \in DOMAIN history' PROVE HasResults(i)'
        <3>1. CASE i \in DOMAIN history /\ history'[i] = history[i] /\ HasResults(i)'
            BY <3>1
        <3>2. CASE \E j \in DOMAIN msgs : i = Len(history) + j /\ history'[i] = msgs[j]
            <4>1. PICK j \in DOMAIN msgs : i = Len(history) + j /\ history'[i] = msgs[j]
                BY <3>2
            <4>2. history'[i].n = 0 /\ i <= Len(history') /\ i \in Nat
                BY <1>2, <1>4, <1>5, <1>6, <4>1
            <4>. QED
                BY <4>2 DEF HasResults
        <3>. QED
            BY <1>6, <3>1, <3>2
    <2>2. turn' = NoTurn
        BY <1>1, <1>2
    <2>. QED
        BY <2>1, <2>2 DEF NothingOpen
<1>9. OneOpen'
    BY <1>1 DEF OneOpen
<1>10. StepsInOrder'
    <2>1. \A i \in DOMAIN history' : history'[i].step <= step
        BY <1>2, <1>5, <1>6
    <2>. QED
        BY <1>1, <2>1 DEF StepsInOrder
<1>. QED
    BY <1>6, <1>7, <1>8, <1>9, <1>10 DEF LoopInv

LEMMA CallingKeeps ==
  ASSUME LoopInv, NEW calls \in 1..MaxCalls, NEW d \in 0..calls, CallsTools(calls, d)
  PROVE  LoopInv'
<1> DEFINE call == Assistant(step, calls)
           msgs == <<call>>
<1>1. /\ stage = "asking" /\ stage' = "tools" /\ Push(msgs)
      /\ turn' = [calls |-> calls, done |-> d, next |-> 1]
      /\ UNCHANGED <<mode, step, over, late, lastSaid, stopped, chatKnown, rows, recordedAnswer, covered>>
    BY DEF CallsTools, recorded
<1>2. /\ step \in 1..MaxSteps /\ Len(history) \in Nat /\ covered \in 0..Len(history)
      /\ DOMAIN history = 1..Len(history)
      /\ \A i \in DOMAIN history : history[i].step < step /\ history[i].step <= step
    BY <1>1, AskingIsTyped
<1>3. /\ call \in Entries /\ call.role = "assistant" /\ call.step = step /\ call.n = calls
    <2>1. calls \in 0..MaxCalls
        BY MessageKinds
    <2>2. call \in Entries
        BY <1>2, <2>1, MessageKinds DEF Assistant
    <2>. QED
        BY <2>2 DEF Assistant, Message
<1> HIDE DEF call
<1>4. /\ msgs \in Seq(Entries) /\ DOMAIN msgs = {1} /\ Len(msgs) = 1 /\ msgs[1] = call
    BY <1>3
<1> HIDE DEF msgs
<1>5. /\ InPlace' /\ ResultsFollow' /\ CutIsClean'
      /\ Len(history') = Len(history) + 1
      /\ \A i \in DOMAIN history' :
            \/ i \in DOMAIN history /\ history'[i] = history[i] /\ HasResults(i)'
            \/ \E j \in DOMAIN msgs : i = Len(history) + j /\ history'[i] = msgs[j]
      /\ history'[Len(history) + 1] = call
    BY <1>1, <1>3, <1>4, SayingKeeps
<1>6. turn'.calls = calls /\ turn'.done = d /\ turn'.next = 1
    BY <1>1
<1>7. Scalars'
    <2>1. turn' \in [calls : 0..MaxCalls, done : 0..MaxCalls, next : 0..MaxCalls]
        BY <1>1, MessageKinds
    <2>. QED
        BY <1>1, <2>1 DEF LoopInv, Scalars, Stages
<1>8. \A i \in DOMAIN history' :
         \/ i \in DOMAIN history /\ history'[i] = history[i] /\ HasResults(i)'
         \/ i = Len(history) + 1 /\ history'[i] = call
    BY <1>4, <1>5
<1>9. OneOpen'
    <2>1. Len(history') - turn'.next + 1 = Len(history) + 1
        BY <1>2, <1>5, <1>6
    <2>2. Assistant(step', turn'.calls) = call
        BY <1>1, <1>6 DEF call
    <2>3. \A i \in DOMAIN history' : i # Len(history) + 1 => HasResults(i)'
        BY <1>8
    <2>4. \A i \in DOMAIN history' :
             history'[i].role = "tool" /\ history'[i].step = step' => history'[i].n < turn'.next
        BY <1>1, <1>2, <1>3, <1>8
    <2>5. d = 0 \/ d >= 1
        OBVIOUS
    <2>. QED
        BY <1>1, <1>2, <1>5, <1>6, <2>1, <2>2, <2>3, <2>4, <2>5 DEF OneOpen
<1>10. NothingOpen'
    BY <1>1 DEF NothingOpen
<1>11. StepsInOrder'
    <2>1. \A i \in DOMAIN history' : history'[i].step <= step'
        BY <1>1, <1>2, <1>3, <1>8
    <2>. QED
        BY <1>1, <2>1 DEF StepsInOrder
<1>. QED
    BY <1>5, <1>7, <1>9, <1>10, <1>11 DEF LoopInv


(* The answer of a call in work, whatever became of the call.              *)
LEMMA AnswerKeeps ==
  ASSUME LoopInv, stage \in {"tools", "running"}, Answer,
         UNCHANGED <<mode, step, over, lastSaid, chatKnown, recordedAnswer, covered>>,
         late' \subseteq late \cup {<<step, turn.next>>}
  PROVE  LoopInv'
<1>0. PICK at, last : at = Len(history) - turn.next + 1 /\ last = Len(history) + 1
    OBVIOUS
<1> DEFINE result == ToolResult(step, turn.next)
<1>1. /\ step \in 1..MaxSteps /\ turn.next \in 1..MaxCalls /\ turn.next <= turn.calls
      /\ turn.calls \in 0..MaxCalls /\ turn.done \in 0..MaxCalls
      /\ turn.done = 0 \/ turn.done >= turn.next
      /\ Len(history) \in Nat /\ covered \in 0..Len(history) /\ DOMAIN history = 1..Len(history)
      /\ history \in Seq(Entries)
    <2>1. turn \in [calls : 0..MaxCalls, done : 0..MaxCalls, next : 0..MaxCalls]
          /\ step \in 0..MaxSteps
        BY DEF LoopInv, Scalars
    <2>2. /\ step >= 1 /\ turn.next >= 1 /\ turn.next <= turn.calls
          /\ turn.done = 0 \/ turn.done >= turn.next
        BY DEF LoopInv, OneOpen
    <2>3. history \in Seq(Entries) /\ covered \in 0..Len(history) /\ Len(history) \in Nat
          /\ DOMAIN history = 1..Len(history)
        BY LenProperties DEF LoopInv, InPlace
    <2>. QED
        BY <2>1, <2>2, <2>3
<1>2. /\ at > covered /\ at <= Len(history) /\ history[at] = Assistant(step, turn.calls)
      /\ \A i \in DOMAIN history : i # at => HasResults(i)
      /\ \A i \in DOMAIN history :
            /\ history[i].role = "tool" /\ history[i].step = step => history[i].n < turn.next
            /\ history[i].step <= step
    BY <1>0 DEF LoopInv, OneOpen, StepsInOrder
<1>3. at \in DOMAIN history /\ history[at].role = "assistant"
      /\ history[at].step = step /\ history[at].n = turn.calls
    <2>1. at \in 1..Len(history)
        BY <1>0, <1>1, <1>2
    <2>. QED
        BY <1>1, <1>2, <2>1 DEF Assistant, Message
<1>4. result \in Entries /\ result.role = "tool" /\ result.step = step /\ result.n = turn.next
    <2>1. turn.next \in 0..MaxCalls
        BY <1>1, MessageKinds
    <2>2. result \in Entries
        BY <1>1, <2>1, MessageKinds DEF ToolResult
    <2>. QED
        BY <2>2 DEF ToolResult, Message
<1>5. messages' = Append(messages, result) /\ history' = Append(history, result)
      /\ stage' \in {"finishing", "ready", "tools"}
    BY DEF Answer
<1> HIDE DEF result
<1>6. /\ InPlace' /\ Len(history') = Len(history) + 1
      /\ \A i \in DOMAIN history : history'[i] = history[i]
      /\ history'[Len(history) + 1] = result
    BY <1>4, <1>5, AnswerInPlace DEF LoopInv
<1>7. DOMAIN history' = 1..Len(history) + 1
      /\ \A i \in DOMAIN history' : i \in DOMAIN history \/ i = Len(history) + 1
    <2>1. history' \in Seq(Entries)
        BY <1>6 DEF InPlace
    <2>2. DOMAIN history' = 1..Len(history')
        BY <2>1, LenProperties
    <2>. QED
        BY <1>1, <1>6, <2>2
<1>8. \A i \in DOMAIN history : history[i].n \in Nat /\ i \in Nat
    <2>1. \A e \in Entries : e.n \in Nat
        BY DEF Entries
    <2>. QED
        BY <1>1, <2>1, ElementOfSeq
<1>9. at + turn.next = Len(history) + 1 /\ at \in Nat /\ last \in Nat
    BY <1>0, <1>1, <1>2
<1>10. ResultsFollow'
    <2> SUFFICES ASSUME NEW i \in DOMAIN history'
                 PROVE  /\ history'[i].role = "user" => history'[i].n = 0
                        /\ history'[i].role = "tool" => history'[i].n >= 1 /\ AnswersACall(history, i)'
                        /\ history'[i].role = "assistant" =>
                              \A k \in 1..history'[i].n :
                                  i + k <= Len(history') =>
                                     history'[i + k] = ToolResult(history'[i].step, k)
        BY DEF ResultsFollow
    <2>1. CASE i \in DOMAIN history
        <3>1. history[i].role = "user" => history[i].n = 0
            BY <2>1 DEF LoopInv, ResultsFollow
        <3>2. history[i].role = "tool" => history[i].n >= 1 /\ AnswersACall(history, i)'
            <4>1. history[i].role = "tool" => history[i].n >= 1 /\ AnswersACall(history, i)
                BY <2>1 DEF LoopInv, ResultsFollow
            <4>. QED
                BY <1>1, <1>6, <1>7, <1>8, <2>1, <4>1 DEF AnswersACall
        <3>3. ASSUME history[i].role = "assistant", NEW k \in 1..history[i].n, i + k <= Len(history')
              PROVE  history'[i + k] = ToolResult(history[i].step, k)
            <4>1. CASE i + k <= Len(history)
                <5>1. history[i + k] = ToolResult(history[i].step, k)
                    BY <2>1, <3>3, <4>1 DEF LoopInv, ResultsFollow
                <5>2. i + k \in DOMAIN history
                    BY <1>1, <1>8, <2>1, <4>1
                <5>. QED
                    BY <1>6, <5>1, <5>2
            <4>2. CASE i + k = Len(history) + 1
                <5>1. i = at
                    BY <1>1, <1>2, <1>8, <2>1, <3>3, <4>2 DEF HasResults
                <5>2. k = turn.next
                    BY <1>1, <1>8, <1>9, <2>1, <4>2, <5>1
                <5>. QED
                    BY <1>3, <1>6, <4>2, <5>1, <5>2 DEF result
            <4>. QED
                BY <1>1, <1>6, <1>8, <2>1, <3>3, <4>1, <4>2
        <3>. QED
            BY <1>6, <2>1, <3>1, <3>2, <3>3
    <2>2. CASE i = Len(history) + 1
        <3>1. history'[i] = result
            BY <1>6, <2>2
        <3>2. i - turn.next = at
            BY <1>1, <1>9, <2>2
        <3>3. AnswersACall(history, i)'
            BY <1>1, <1>3, <1>4, <1>6, <1>7, <3>1, <3>2 DEF AnswersACall
        <3>. QED
            BY <1>1, <1>4, <3>1, <3>3
    <2>. QED
        BY <1>7, <2>1, <2>2
<1>11. CutIsClean'
    <2>1. covered < Len(history) /\ covered + 1 \in DOMAIN history
        BY <1>1, <1>2, <1>9
    <2>. QED
        BY <1>6, <2>1 DEF LoopInv, CutIsClean
<1>12. Scalars'
    <2>1. late' \subseteq (1..MaxSteps) \X (1..MaxCalls)
        BY <1>1 DEF LoopInv, Scalars
    <2>2. stopped' \in Reasons
        BY DEF Answer, LoopInv, Scalars, Reasons
    <2>3. turn' \in [calls : 0..MaxCalls, done : 0..MaxCalls, next : 0..MaxCalls]
        <3>1. turn \in [calls : 0..MaxCalls, done : 0..MaxCalls, next : 0..MaxCalls]
            BY DEF LoopInv, Scalars
        <3>2. CASE turn' = turn
            BY <3>1, <3>2
        <3>3. CASE turn' = NoTurn
            BY <3>3, MessageKinds DEF NoTurn
        <3>4. CASE turn.next # turn.calls /\ turn' = [turn EXCEPT !.next = @ + 1]
            <4>1. turn.next + 1 \in 0..MaxCalls
                BY <1>1, <3>4, MessageKinds
            <4>. QED
                BY <3>1, <3>4, <4>1
        <3>. QED
            BY <3>2, <3>3, <3>4 DEF Answer
    <2>. QED
        BY <1>5, <2>1, <2>2, <2>3 DEF LoopInv, Scalars, Stages
<1>13. \A i \in DOMAIN history' : history'[i].step <= step
    BY <1>1, <1>2, <1>4, <1>6, <1>7
<1>14. \A i \in DOMAIN history : i # at => HasResults(i)'
    BY <1>1, <1>2, <1>6, <1>8 DEF HasResults
<1>15. HasResults(last)'
    BY <1>0, <1>4, <1>6 DEF HasResults
<1>16. NothingOpen' /\ OneOpen' /\ StepsInOrder'
    <2>1. CASE stage' = "finishing"
        BY <1>13, <2>1 DEF NothingOpen, OneOpen, StepsInOrder
    <2>2. CASE turn.next = turn.calls /\ stage' = "ready" /\ turn' = NoTurn
        <3>1. HasResults(at)'
            BY <1>1, <1>3, <1>6, <1>9, <2>2 DEF HasResults
        <3>. QED
            BY <1>0, <1>7, <1>13, <1>14, <1>15, <2>2, <3>1 DEF NothingOpen, OneOpen, StepsInOrder
    <2>3. CASE /\ turn.next # turn.calls /\ ~IsDone(turn.next) /\ stage' = "tools"
               /\ turn' = [turn EXCEPT !.next = @ + 1]
        <3>1. turn \in [calls : 0..MaxCalls, done : 0..MaxCalls, next : 0..MaxCalls]
            BY DEF LoopInv, Scalars
        <3>2. turn'.next = turn.next + 1 /\ turn'.calls = turn.calls /\ turn'.done = turn.done
            BY <2>3, <3>1
        <3>3. /\ turn'.next >= 1 /\ turn'.next <= turn'.calls
              /\ turn'.done = 0 \/ turn'.done >= turn'.next
            BY <1>1, <2>3, <3>2 DEF IsDone
        <3>4. Len(history') - turn'.next + 1 = at
            BY <1>0, <1>1, <1>6, <3>2
        <3>5. at > covered' /\ at <= Len(history') /\ history'[at] = Assistant(step', turn'.calls)
            BY <1>1, <1>2, <1>3, <1>6, <1>9, <3>2
        <3>6. \A i \in DOMAIN history' : i # at => HasResults(i)'
            BY <1>0, <1>7, <1>14, <1>15
        <3>7. \A i \in DOMAIN history' :
                 history'[i].role = "tool" /\ history'[i].step = step' => history'[i].n < turn'.next
            BY <1>1, <1>2, <1>4, <1>6, <1>7, <1>8, <3>2
        <3>8. OneOpen'
            BY <1>1, <3>3, <3>4, <3>5, <3>6, <3>7 DEF OneOpen
        <3>. QED
            BY <1>13, <2>3, <3>8 DEF NothingOpen, StepsInOrder
    <2>. QED
        BY <2>1, <2>2, <2>3 DEF Answer
<1>. QED
    BY <1>6, <1>10, <1>11, <1>12, <1>16 DEF LoopInv


LEMMA HandlerKeeps == ASSUME LoopInv, HandlerStarts PROVE LoopInv'
<1>1. InPlace'
    BY SamePlaces DEF LoopInv, HandlerStarts
<1>2. Scalars'
    BY DEF LoopInv, HandlerStarts, Scalars, Stages, recorded
<1>3. ResultsFollow' /\ CutIsClean'
    BY HistoryStays DEF HandlerStarts
<1>4. NothingOpen' /\ OneOpen' /\ StepsInOrder'
    BY DEF LoopInv, HandlerStarts, NothingOpen, OneOpen, StepsInOrder, HasResults
<1>. QED
    BY <1>1, <1>2, <1>3, <1>4 DEF LoopInv

LEMMA EndingKeeps ==
  ASSUME LoopInv, LoopEnds \/ \E empty \in BOOLEAN, k \in 0..5 : Finalise(empty, k)
  PROVE  LoopInv'
<1>1. /\ stage \in {"ready", "finishing"} /\ stage' \in {"finishing", "ended"}
      /\ UNCHANGED <<mode, step, over, messages, turn, late, lastSaid, chatKnown, history, covered>>
      /\ stopped' \in {"max_steps", "thrown", stopped}
      /\ recordedAnswer' \in {recordedAnswer, FinalAnswer}
    BY DEF LoopEnds, Finalise, recorded
<1>2. InPlace'
    BY <1>1, SamePlaces DEF LoopInv
<1>3. Scalars'
    <2>1. step \in 0..MaxSteps /\ lastSaid \in 0..MaxSteps /\ 0 \in 0..MaxSteps
        BY MessageKinds DEF LoopInv, Scalars
    <2>2. FinalAnswer \in [kind : AnswerKinds, step : 0..MaxSteps]
        BY <2>1 DEF FinalAnswer, AnswerKinds
    <2>. QED
        BY <1>1, <2>2 DEF LoopInv, Scalars, Stages, Reasons
<1>4. ResultsFollow' /\ CutIsClean'
    BY <1>1, HistoryStays
<1>5. NothingOpen' /\ OneOpen' /\ StepsInOrder'
    BY <1>1 DEF LoopInv, NothingOpen, OneOpen, StepsInOrder
<1>. QED
    BY <1>2, <1>3, <1>4, <1>5 DEF LoopInv

LEMMA LoopStep == LoopInv /\ [LoopNext]_loopVars => LoopInv'
<1> SUFFICES ASSUME LoopInv, [LoopNext]_loopVars PROVE LoopInv'
    OBVIOUS
<1>1. CASE StartStep
    BY <1>1, StartKeeps
<1>2. CASE Compressed \/ KeptOriginal
    BY <1>2, CompressionKeeps
<1>3. CASE RequestThrows \/ NoChoice
    BY <1>3, SilenceKeeps
<1>4. CASE SaysContent \/ SaysNothing
    BY <1>4, NudgeKeeps
<1>5. ASSUME NEW calls \in 1..MaxCalls, NEW d \in 0..calls, CallsTools(calls, d) PROVE LoopInv'
    BY <1>5, CallingKeeps
<1>6. CASE CallRefused \/ HandlerEnds \/ TimesOut
    BY <1>6, AnswerKeeps DEF CallRefused, HandlerEnds, TimesOut, recorded
<1>7. CASE HandlerStarts
    BY <1>7, HandlerKeeps
<1>8. CASE LoopEnds \/ \E empty \in BOOLEAN, k \in 0..5 : Finalise(empty, k)
    BY <1>8, EndingKeeps
<1>9. ASSUME NEW c \in late, LateHandlerEnds(c) PROVE LoopInv'
    BY <1>9, LateEnds
<1>10. CASE UNCHANGED loopVars
    <2>1. InPlace' /\ Scalars'
        BY <1>10 DEF loopVars, LoopInv, InPlace, Scalars, LeadLength, NoteLength
    <2>2. ResultsFollow' /\ CutIsClean'
        BY <1>10, HistoryStays DEF loopVars
    <2>3. NothingOpen' /\ OneOpen' /\ StepsInOrder'
        BY <1>10 DEF loopVars, LoopInv, NothingOpen, OneOpen, StepsInOrder, HasResults
    <2>. QED
        BY <2>1, <2>2, <2>3 DEF LoopInv
<1>. QED
    BY <1>1, <1>2, <1>3, <1>4, <1>5, <1>6, <1>7, <1>8, <1>9, <1>10 DEF LoopNext, LoopProgress

LEMMA LoopInvariant == LoopSpec => []LoopInv
BY LoopStart, LoopStep, PTL DEF LoopSpec

(* What is sent is well formed: of the history a request holds all calls   *)
(* that are not summarised, and with each of them its results.             *)
LEMMA RequestsAreWellFormed == LoopInv => RequestIsWellFormed
<1> SUFFICES ASSUME LoopInv, stage = "asking", NEW i \in DOMAIN messages
             PROVE  /\ messages[i].role = "assistant" =>
                          \A k \in 1..messages[i].n :
                              /\ i + k \in DOMAIN messages
                              /\ messages[i + k] = ToolResult(messages[i].step, k)
                    /\ messages[i].role = "tool" => AnswersACall(messages, i)
                    /\ messages[i] = BudgetNote(messages[i].step) <=> i = Len(messages)
    BY DEF RequestIsWellFormed
<1>1. /\ messages \in Seq(Messages) /\ history \in Seq(Entries) /\ covered \in 0..Len(history)
      /\ Len(history) \in Nat /\ Len(messages) \in Nat
      /\ DOMAIN messages = 1..Len(messages) /\ DOMAIN history = 1..Len(history)
      /\ LeadLength \in {2, 3} /\ (LeadLength = 3 => covered # 0)
      /\ Len(messages) = LeadLength + (Len(history) - covered) + 1
    BY LenProperties DEF LoopInv, InPlace, LeadLength, NoteLength
<1>2. /\ messages[1] = SystemPrompt /\ messages[2] = Task
      /\ LeadLength = 3 => \E t \in 2..step : messages[3] = Summary(t)
      /\ \A j \in 1..Len(history) - covered : messages[LeadLength + j] = history[covered + j]
      /\ messages[Len(messages)] = BudgetNote(step)
    BY <1>1 DEF LoopInv, InPlace
<1>3. CASE i <= LeadLength
    <2>1. messages[i].role = "system" \/ messages[i] = Task
        BY <1>1, <1>2, <1>3, MessageKinds DEF SystemPrompt, Summary
    <2>2. messages[i].role # "assistant" /\ messages[i].role # "tool"
          /\ ~(messages[i].role = "user" /\ messages[i].n = 1)
        BY <2>1, MessageKinds DEF Task
    <2>3. messages[i] # BudgetNote(messages[i].step)
        BY <2>2, MessageKinds DEF BudgetNote
    <2>. QED
        BY <1>1, <1>3, <2>2, <2>3
<1>4. CASE i = Len(messages)
    BY <1>2, <1>4, MessageKinds DEF BudgetNote
<1>5. CASE i > LeadLength /\ i < Len(messages)
    <2>1. PICK j \in 1..Len(history) - covered : i = LeadLength + j
        <3>1. i - LeadLength \in 1..Len(history) - covered /\ i = LeadLength + (i - LeadLength)
            BY <1>1, <1>5
        <3>. QED
            BY <3>1
    <2>2. PICK h \in DOMAIN history : h = covered + j /\ messages[i] = history[h] /\ h > covered
        BY <1>1, <1>2, <2>1
    <2>3. history[h] \in Entries /\ history[h].n \in Nat
        <3>1. \A e \in Entries : e.n \in Nat
            BY DEF Entries
        <3>2. history[h] \in Entries
            BY <1>1, ElementOfSeq
        <3>. QED
            BY <3>1, <3>2
    \* An entry that far behind this one, or before it, is in the request too.
    <2>4. ASSUME NEW g \in DOMAIN history, g > covered
          PROVE  /\ i + (g - h) \in DOMAIN messages
                 /\ messages[i + (g - h)] = history[g]
        <3>0. g \in 1..Len(history) /\ j \in Nat /\ i = LeadLength + j /\ h = covered + j
            BY <1>1, <2>1, <2>2
        <3>1. g \in 1..Len(history) /\ j \in Nat /\ i = LeadLength + j /\ h = covered + j
            BY <1>1, <2>1, <2>2
        <3>2. PICK d \in Nat : g = covered + d /\ d >= 1 /\ d <= Len(history) - covered
            <4>1. g - covered \in Nat /\ g = covered + (g - covered) /\ g - covered >= 1
                  /\ g - covered <= Len(history) - covered
                BY <1>1, <2>4, <3>1
            <4>. QED
                BY <4>1
        <3>3. i + (g - h) = LeadLength + d
            BY <1>1, <3>1, <3>2
        <3>4. LeadLength + d \in 1..Len(messages) /\ d \in 1..Len(history) - covered
            BY <1>1, <3>2
        <3>5. messages[LeadLength + d] = history[covered + d]
            BY <1>2, <3>4
        <3>. QED
            BY <1>1, <3>2, <3>3, <3>4, <3>5
    <2>5. ASSUME history[h].role = "assistant", NEW k \in 1..history[h].n
          PROVE  i + k \in DOMAIN messages /\ messages[i + k] = ToolResult(history[h].step, k)
        <3>1. h + k \in DOMAIN history /\ h + k > covered
            <4>1. h + history[h].n <= Len(history)
                BY <2>5 DEF LoopInv, NothingOpen, HasResults
            <4>2. h \in Nat /\ h >= 1 /\ h > covered /\ k \in Nat /\ 1 <= k /\ k <= history[h].n
                BY <1>1, <2>2, <2>3
            <4>. QED
                BY <1>1, <2>3, <4>1, <4>2
        <3>2. history[h + k] = ToolResult(history[h].step, k)
            BY <1>1, <2>5, <3>1 DEF LoopInv, ResultsFollow
        <3>3. i + ((h + k) - h) = i + k
            BY <1>1
        <3>. QED
            BY <2>4, <3>1, <3>2, <3>3
    <2>6. ASSUME history[h].role = "tool" PROVE AnswersACall(messages, i)
        <3>1. history[h].n >= 1 /\ AnswersACall(history, h)
            BY <2>6 DEF LoopInv, ResultsFollow
        <3> DEFINE a == h - history[h].n
        <3>2. /\ a \in DOMAIN history /\ history[a].role = "assistant"
              /\ history[a].step = history[h].step /\ history[a].n >= history[h].n
            BY <3>1 DEF AnswersACall
        <3>3. a + history[h].n = h /\ a \in Nat
            BY <1>1, <2>3, <3>2
        <3> HIDE DEF a
        <3>4. history[a].n \in Nat
            <4>1. \A e \in Entries : e.n \in Nat
                BY DEF Entries
            <4>. QED
                BY <1>1, <3>2, <4>1, ElementOfSeq
        <3>5. a > covered
            <4>1. SUFFICES ASSUME a <= covered PROVE FALSE
                BY <1>1, <3>3
            <4> DEFINE k == covered + 1 - a
            <4>2. k \in 1..history[a].n /\ a + k = covered + 1 /\ covered + 1 <= Len(history)
                <5>1. /\ a \in Nat /\ covered \in Nat /\ h \in Nat /\ Len(history) \in Nat
                      /\ h > covered /\ h <= Len(history) /\ a <= covered
                    BY <1>1, <2>2, <2>3, <3>3, <4>1
                <5>2. \E n \in Nat : n = history[h].n /\ a + n = h /\ history[a].n >= n
                    <6>1. \A e \in Entries : e.n \in Nat
                        BY DEF Entries
                    <6>2. history[h].n \in Nat
                        BY <1>1, <2>2, <2>3, <6>1, ElementOfSeq
                    <6>. QED
                        BY <3>2, <3>3, <6>2
                <5>3. 1 <= k /\ k \in Nat /\ a + k = covered + 1 /\ covered + 1 <= Len(history)
                    BY ONLY <5>1 DEF k
                <5>4. k <= history[a].n
                    BY ONLY <3>4, <5>1, <5>2 DEF k
                <5>. QED
                    BY ONLY <3>4, <5>3, <5>4
            <4> HIDE DEF k
            <4>3. history[covered + 1] = ToolResult(history[a].step, k)
                BY <1>1, <3>2, <4>2 DEF LoopInv, ResultsFollow
            <4>4. history[covered + 1].role = "tool"
                BY <4>3, MessageKinds DEF ToolResult
            <4>. QED
                BY <1>1, <4>2, <4>4 DEF LoopInv, CutIsClean
        <3>6. i + (a - h) = i - history[h].n
            BY <1>1, <2>3, <3>3
        <3>7. i - history[h].n \in DOMAIN messages /\ messages[i - history[h].n] = history[a]
            BY <2>4, <3>2, <3>5, <3>6
        <3>. QED
            BY <2>2, <3>2, <3>7 DEF AnswersACall
    <2>7. messages[i] # BudgetNote(messages[i].step)
        <3>1. history[h].role = "user" => history[h].n = 0
            BY DEF LoopInv, ResultsFollow
        <3>. QED
            BY <2>2, <3>1, MessageKinds DEF BudgetNote
    <2>. QED
        BY <1>5, <2>2, <2>5, <2>6, <2>7
<1>. QED
    BY <1>1, <1>3, <1>4, <1>5


(* The transcript as the sequence it is.                                   *)
LEMMA TranscriptStands == LoopInv => TranscriptIsWhole
<1> SUFFICES ASSUME LoopInv PROVE TranscriptIsWhole
    OBVIOUS
<1> DEFINE note == IF stage = "asking" THEN <<BudgetNote(step)>> ELSE <<>>
           kept == SubSeq(history, covered + 1, Len(history))
           rest == kept \o note
<1>1. /\ messages \in Seq(Messages) /\ history \in Seq(Entries) /\ covered \in 0..Len(history)
      /\ Len(history) \in Nat
      /\ Len(messages) = LeadLength + (Len(history) - covered) + NoteLength
      /\ messages[1] = SystemPrompt /\ messages[2] = Task
      /\ covered # 0 => \E t \in 2..step : messages[3] = Summary(t)
      /\ \A i \in 1..Len(history) - covered : messages[LeadLength + i] = history[covered + i]
      /\ stage = "asking" => messages[Len(messages)] = BudgetNote(step)
      /\ LeadLength \in {2, 3} /\ NoteLength \in {0, 1} /\ step \in 0..MaxSteps
    BY LenProperties DEF LoopInv, InPlace, Scalars, LeadLength, NoteLength
<1>2. /\ kept \in Seq(Messages) /\ Len(kept) = Len(history) - covered
      /\ \A i \in 1..Len(history) - covered : kept[i] = history[covered + i]
    <2>1. MaxSteps \in Nat /\ MaxCalls \in Nat
        BY MessageKinds
    <2>2. \A m \in Entries : m \in Messages
        BY <2>1 DEF Entries, Messages
    <2>3. history \in Seq(Messages)
        BY <1>1, <2>2, SeqMonotonic
    <2>4. PICK from \in Nat \ {0}, to \in 0..Len(history) :
             from = covered + 1 /\ to = Len(history) /\ from <= to + 1
        <3>1. covered + 1 \in Nat \ {0} /\ Len(history) \in 0..Len(history)
              /\ covered + 1 <= Len(history) + 1
            BY <1>1
        <3>. QED
            BY <3>1
    <2>5. /\ SubSeq(history, from, to) \in Seq(Messages)
          /\ Len(SubSeq(history, from, to)) = to - from + 1
          /\ \A i \in 1..to - from + 1 : SubSeq(history, from, to)[i] = history[from - 1 + i]
        BY ONLY <2>3, <2>4, CutOut
    <2>6. kept = SubSeq(history, from, to) /\ to - from + 1 = Len(history) - covered
          /\ from - 1 = covered
        BY <1>1, <2>4
    <2>. QED
        BY <2>5, <2>6
<1>3. /\ note \in Seq(Messages) /\ Len(note) = NoteLength
      /\ stage = "asking" => note[1] = BudgetNote(step)
    <2>1. BudgetNote(step) \in Messages
        BY <1>1, MessageKinds DEF BudgetNote
    <2>. QED
        BY <2>1 DEF NoteLength
<1> HIDE DEF kept, note
<1>4. /\ rest \in Seq(Messages) /\ Len(rest) = Len(kept) + Len(note)
      /\ \A i \in 1..Len(kept) : rest[i] = kept[i]
      /\ \A i \in 1..Len(note) : rest[Len(kept) + i] = note[i]
    <2>1. kept \in Seq(Messages) /\ note \in Seq(Messages)
        BY <1>2, <1>3
    <2>. QED
        BY ONLY <2>1, Joined DEF rest
<1> HIDE DEF rest
<1>5. ASSUME NEW lead \in Seq(Messages), Len(lead) = LeadLength,
             \A i \in 1..LeadLength : lead[i] = messages[i]
      PROVE  messages = lead \o rest
    <2>0. PICK whole : whole = lead \o rest
        OBVIOUS
    <2>1. /\ whole \in Seq(Messages) /\ Len(whole) = Len(lead) + Len(rest)
          /\ \A i \in 1..Len(lead) : whole[i] = lead[i]
          /\ \A i \in 1..Len(rest) : whole[Len(lead) + i] = rest[i]
        <3>1. lead \in Seq(Messages) /\ rest \in Seq(Messages)
            BY <1>4, <1>5
        <3>. QED
            BY ONLY <2>0, <3>1, Joined
    <2>2. Len(messages) = Len(whole)
        BY <1>1, <1>2, <1>3, <1>4, <1>5, <2>1
    <2>3. ASSUME NEW i \in 1..Len(messages) PROVE messages[i] = whole[i]
        <3>1. CASE i <= LeadLength
            BY <1>1, <1>5, <2>1, <3>1
        <3>2. CASE i > LeadLength
            <4> DEFINE j == i - LeadLength
            <4>1. j \in 1..Len(rest) /\ LeadLength + j = i /\ i \in Nat
                <5>1. Len(messages) = LeadLength + Len(rest) /\ Len(rest) \in Nat
                    BY <1>1, <1>2, <1>3, <1>4
                <5>2. LeadLength \in Nat /\ i \in Nat /\ i <= LeadLength + Len(rest)
                    BY <1>1, <5>1
                <5>. QED
                    BY ONLY <3>2, <5>1, <5>2 DEF j
            <4>2. whole[i] = rest[j]
                <5> HIDE DEF j
                <5>. QED
                    BY <1>5, <2>1, <4>1
            <4>3. CASE j <= Len(history) - covered
                <5>1. j \in 1..Len(history) - covered
                    BY <1>1, <4>1, <4>3
                <5>2. rest[j] = history[covered + j]
                    BY <1>2, <1>4, <5>1
                <5>3. messages[LeadLength + j] = history[covered + j]
                    BY <1>1, <5>1
                <5>. QED
                    BY <4>1, <4>2, <5>2, <5>3
            <4>4. CASE j > Len(history) - covered
                <5>1. NoteLength = 1 /\ j = Len(kept) + 1 /\ i = Len(messages)
                    <6>1. /\ Len(rest) = Len(history) - covered + NoteLength
                          /\ Len(kept) = Len(history) - covered
                        BY <1>1, <1>2, <1>3, <1>4
                    <6>2. j \in Nat /\ j <= Len(history) - covered + NoteLength
                        BY <1>1, <4>1, <6>1
                    <6> HIDE DEF j
                    <6>3. NoteLength = 1 /\ j = Len(history) - covered + 1
                        BY <1>1, <4>4, <6>2
                    <6>. QED
                        BY <1>1, <4>1, <6>1, <6>3
                <5>2. stage = "asking"
                    BY <5>1 DEF NoteLength
                <5>3. rest[j] = note[1]
                    BY <1>3, <1>4, <5>1
                <5>. QED
                    BY <1>1, <1>3, <4>2, <5>1, <5>2, <5>3
            <4>5. j \in Int /\ Len(history) - covered \in Int
                BY <1>1
            <4> HIDE DEF j
            <4>. QED
                BY <4>3, <4>4, <4>5
        <3>3. i \in Int /\ LeadLength \in Int
            BY <1>1
        <3>. QED
            BY <3>1, <3>2, <3>3
    <2>. QED
        BY <1>1, <2>0, <2>1, <2>2, <2>3, SeqEqual
<1>6. CASE covered = 0
    <2> DEFINE lead == <<SystemPrompt, Task>>
    <2>1. LeadLength = 2 /\ SystemPrompt \in Messages /\ Task \in Messages
        BY <1>6, MessageKinds DEF LeadLength, SystemPrompt, Task
    <2>2. /\ lead \in Seq(Messages) /\ Len(lead) = LeadLength
          /\ \A i \in 1..LeadLength : lead[i] = messages[i]
        BY <1>1, <2>1
    <2>3. messages = lead \o rest
        BY <1>5, <2>2
    <2>. QED
        BY <1>6, <2>3, RequestsAreWellFormed DEF TranscriptIsWhole, rest, kept, note
<1>7. CASE covered # 0
    <2>1. PICK t \in 2..step : messages[3] = Summary(t)
        BY <1>1, <1>7
    <2> DEFINE lead == <<SystemPrompt, Task, Summary(t)>>
    <2>2. /\ LeadLength = 3 /\ SystemPrompt \in Messages /\ Task \in Messages
          /\ Summary(t) \in Messages
        <3>1. t \in 0..MaxSteps /\ 0 \in 0..MaxSteps /\ 0 \in 0..MaxCalls
            BY <1>1, MessageKinds
        <3>. QED
            BY <1>7, <3>1, MessageKinds DEF LeadLength, SystemPrompt, Task, Summary
    <2>3. /\ lead \in Seq(Messages) /\ Len(lead) = LeadLength
          /\ \A i \in 1..LeadLength : lead[i] = messages[i]
        BY <1>1, <2>1, <2>2
    <2>4. messages = lead \o rest
        BY <1>5, <2>3
    <2>. QED
        BY <1>7, <2>4, RequestsAreWellFormed DEF TranscriptIsWhole, rest, kept, note
<1>. QED
    BY <1>6, <1>7

(* However often it is compressed, the transcript is whole: nothing of the *)
(* run is lost from it but what its one summary stands for, and every      *)
(* request is one that providers accept.                                   *)
THEOREM TranscriptStaysWhole == LoopSpec => []TranscriptIsWhole
BY LoopInvariant, TranscriptStands, PTL

(* Once a call of done has its result, no other handler and no other       *)
(* request is started.                                                     *)
THEOREM DoneStaysDone == LoopSpec => DoneEndsTheRun
<1>1. ASSUME LoopInv, [LoopNext]_loopVars
      PROVE  [turn.done # 0 /\ ToolResult(step, turn.done) \in Range(history) =>
                 stage' \notin {"asking", "tools", "running"}]_loopVars
    <2> SUFFICES ASSUME LoopNext, turn.done # 0, ToolResult(step, turn.done) \in Range(history)
                 PROVE  stage' \notin {"asking", "tools", "running"}
        BY <1>1
    <2>1. PICK i \in DOMAIN history : history[i] = ToolResult(step, turn.done)
        BY DEF Range
    <2>2. stage \notin {"ready", "compressing", "asking"}
        BY <1>1 DEF LoopInv, NothingOpen, NoTurn
    <2>3. stage \notin {"tools", "running"}
        <3>1. SUFFICES ASSUME stage \in {"tools", "running"} PROVE FALSE
            OBVIOUS
        <3>2. history[i].role = "tool" /\ history[i].step = step /\ history[i].n = turn.done
            BY <2>1, MessageKinds DEF ToolResult
        <3>3. history[i].n < turn.next /\ turn.done >= turn.next
            BY <1>1, <2>1, <3>1, <3>2 DEF LoopInv, OneOpen
        <3>4. turn.done \in Nat /\ turn.next \in Nat
            BY <1>1 DEF LoopInv, Scalars
        <3>. QED
            BY <3>2, <3>3, <3>4
    <2>4. stage \in {"finishing", "ended"}
        BY <1>1, <2>2, <2>3 DEF LoopInv, Scalars, Stages
    <2>5. stage' \in {stage, "ended"}
        BY <2>4 DEF LoopNext, LoopProgress, StartStep, LoopEnds, Compressed, KeptOriginal, RequestThrows,
                    NoChoice, SaysContent, SaysNothing, CallsTools, CallRefused, HandlerStarts, TimesOut,
                    Finalise, HandlerEnds, LateHandlerEnds
    <2>. QED
        BY <2>4, <2>5
<1>. QED
    BY <1>1, LoopInvariant, PTL DEF LoopSpec, DoneEndsTheRun

(* The loop's variables keep their types.                                  *)
THEOREM LoopTypeCorrect == LoopSpec => []LoopTypeOK
<1>1. LoopInv => LoopTypeOK
    <2> SUFFICES ASSUME LoopInv PROVE LoopTypeOK
        OBVIOUS
    <2>1. /\ \A i \in DOMAIN messages : messages[i] \in Messages
          /\ \A i \in DOMAIN history : history[i] \in Entries
        BY ElementOfSeq, LenProperties DEF LoopInv, InPlace
    <2>2. \A m \in Entries : m \in Messages
        <3>1. MaxSteps \in Nat /\ MaxCalls \in Nat
            BY MessageKinds
        <3>. QED
            BY <3>1 DEF Entries, Messages
    <2>3. \A s \in {messages, history} : \A i \in DOMAIN s : s[i] \in Messages
        BY <2>1, <2>2
    <2>. QED
        BY <2>3 DEF LoopTypeOK, LoopInv, Scalars, InPlace, Messages
<1>. QED
    BY LoopInvariant, <1>1, PTL

(***************************************************************************)
(* The limiter.                                                            *)
(***************************************************************************)

(* A finite set of integers has a greatest and a least member.             *)
LEMMA Extremes ==
  ASSUME NEW S \in SUBSET Int, IsFiniteSet(S), S # {}
  PROVE  /\ Max(S) \in S /\ \A k \in S : Max(S) >= k
         /\ Min(S) \in S /\ \A k \in S : Min(S) <= k
<1> DEFINE above == [i \in S |-> {k \in S : k > i}]
           below == [i \in S |-> {k \in S : k < i}]
<1>1. PICK hi \in S : above[hi] = {}
    <2>1. \A i \in S : i \in Int
        OBVIOUS
    <2>3. above \in [S -> SUBSET S] /\ \A i \in S : i \notin above[i]
        <3>1. \A i \in S : ~(i > i)
            BY <2>1
        <3>. QED
            BY <3>1
    <2>2. \A i, k \in S : k \in above[i] => above[k] \subseteq above[i]
        <3>1. \A i, k, l \in S : k > i /\ l > k => l > i
            BY <2>1
        <3>. QED
            BY <3>1
    <2> HIDE DEF above
    <2>. QED
        BY <2>2, <2>3, FirstOfAll
<1>2. PICK lo \in S : below[lo] = {}
    <2>1. \A i \in S : i \in Int
        OBVIOUS
    <2>3. below \in [S -> SUBSET S] /\ \A i \in S : i \notin below[i]
        <3>1. \A i \in S : ~(i < i)
            BY <2>1
        <3>. QED
            BY <3>1
    <2>2. \A i, k \in S : k \in below[i] => below[k] \subseteq below[i]
        <3>1. \A i, k, l \in S : k < i /\ l < k => l < i
            BY <2>1
        <3>. QED
            BY <3>1
    <2> HIDE DEF below
    <2>. QED
        BY <2>2, <2>3, FirstOfAll
<1>3. \A k \in S : hi >= k /\ lo <= k
    BY <1>1, <1>2
<1>. QED
    BY <1>3 DEF Max, Min

(* What the limiter keeps beside its order: the requests that have come    *)
(* hold tickets of those before them, what has not been started is in no   *)
(* window, and every start still in the window has a timestamp of its own  *)
(* that leaves the window when it does.                                    *)
InWindow == {r \in Requests : age[r] > 0}

TicketsAreGiven ==
  /\ IsFiniteSet(Submitted)
  /\ \A r \in Submitted : ticket[r] < Cardinality(Submitted)

NotYetStarted == \A r \in Requests : status[r] \in {"new", "queued"} => age[r] = 0

StartsAreStamped ==
  \E stamp \in Injection(InWindow, 1..Load) :
     \A r \in InWindow : timestamps[stamp[r]] = age[r]

LimiterInv ==
  LimiterTypeOK /\ QueueInOrder /\ TicketsAreGiven /\ NotYetStarted /\ StartsAreStamped

LEMMA Ranks ==
  /\ \A p \in Priorities : Rank(p) \in Nat /\ Limit(p) \in 1..MaxRpm
  /\ \A p, q \in Priorities : Rank(p) = Rank(q) => p = q
<1>1. \A p \in Priorities : p = "critical" \/ p = "normal" \/ p = "low"
    BY DEF Priorities
<1>2. /\ Rank("critical") = 0 /\ Rank("normal") = 1 /\ Rank("low") = 2
      /\ Limit("critical") = MaxRpm /\ Limit("normal") = NormalLimit /\ Limit("low") = LowLimit
    BY DEF Rank, Limit
<1>3. {MaxRpm, NormalLimit, LowLimit} \subseteq 1..MaxRpm
    BY LimiterAssumption
<1>. QED
    BY <1>1, <1>2, <1>3

LEMMA LimiterTypes ==
  ASSUME LimiterTypeOK
  PROVE  /\ Load \in Nat /\ DOMAIN timestamps = 1..Load
         /\ \A i \in 1..Load : timestamps[i] \in Lifetimes
         /\ Len(queue) \in Nat /\ DOMAIN queue = 1..Len(queue)
         /\ \A i \in 1..Len(queue) : queue[i] \in Requests
<1>1. timestamps \in Seq(Lifetimes) /\ queue \in Seq(Requests)
    BY DEF LimiterTypeOK
<1>. QED
    BY <1>1, LenProperties, ElementOfSeq DEF Load

LEMMA SleepIsBounded ==
  ASSUME NEW times \in Seq(Lifetimes), times # <<>>
  PROVE  UntilSlot(times) \in 0..(Window + MinWait + Slack)
<1>1. times[1] \in 1..Window
    <2>1. Len(times) \in Nat /\ Len(times) # 0
        BY LenProperties, EmptySeq
    <2>2. 1 \in 1..Len(times)
        BY <2>1
    <2>. QED
        BY <2>1, <2>2, ElementOfSeq DEF Lifetimes
<1> DEFINE S == {MinWait, times[1] + Slack}
<1>2. S \in SUBSET Int /\ S # {} /\ \A k \in S : k \in 0..(Window + MinWait + Slack)
    BY <1>1, LimiterAssumption
<1>3. IsFiniteSet(S)
    <2>1. IsFiniteSet({MinWait})
        BY FS_Singleton
    <2>2. IsFiniteSet({MinWait} \cup {times[1] + Slack})
        BY <2>1, FS_AddElement
    <2>3. S = {MinWait} \cup {times[1] + Slack}
        OBVIOUS
    <2>. QED
        BY <2>2, <2>3
<1>4. Max(S) \in S
    <2> HIDE DEF S
    <2>. QED
        BY <1>2, <1>3, Extremes
<1>. QED
    BY <1>2, <1>4 DEF UntilSlot

(* One turn of the drain loop starts a prefix of the queue, for which      *)
(* there is room.                                                          *)
LEMMA RunnableIsAPrefix ==
  ASSUME LimiterTypeOK
  PROVE  /\ Runnable \in 0..Len(queue) /\ Load + Runnable <= MaxRpm
         /\ Runnable < Len(queue) => Load + Runnable > 0
<1> USE DEF CanRun
<1> DEFINE K == {k \in 0..Len(queue) : \A i \in 1..k : CanRun(prio[queue[i]], Load + i - 1)}
<1>1. /\ Load \in Nat /\ Len(queue) \in Nat /\ Load <= MaxRpm /\ MaxRpm \in Nat
      /\ \A i \in 1..Len(queue) : prio[queue[i]] \in Priorities
    BY LimiterTypes, LimiterAssumption DEF LimiterTypeOK
<1>2. K \in SUBSET Int /\ 0 \in K
    BY <1>1
<1>3. IsFiniteSet(K)
    <2>1. IsFiniteSet(0..Len(queue)) /\ K \in SUBSET (0..Len(queue))
        BY <1>1, FS_Interval
    <2> HIDE DEF K
    <2>. QED
        BY <2>1, FS_Subset
<1>4. Runnable \in K /\ \A k \in K : Runnable >= k
    <2>1. Runnable = Max(K)
        BY DEF Runnable
    <2> HIDE DEF K
    <2>. QED
        BY <1>2, <1>3, <2>1, Extremes
<1>5. CASE Runnable = 0
    <2>1. ASSUME 0 < Len(queue), Load = 0 PROVE FALSE
        <3>1. CanRun(prio[queue[1]], Load + 1 - 1)
            BY <1>1, <2>1, Ranks
        <3>2. 1 \in K
            BY <1>1, <2>1, <3>1
        <3>. QED
            BY <1>4, <1>5, <3>2
    <2>. QED
        BY <1>1, <1>4, <1>5, <2>1
<1>6. CASE Runnable # 0
    <2>1. Runnable \in 1..Len(queue) /\ Load + Runnable - 1 < Limit(prio[queue[Runnable]])
        BY <1>1, <1>4, <1>6
    <2>2. Limit(prio[queue[Runnable]]) \in 1..MaxRpm
        BY <1>1, <2>1, Ranks
    <2>. QED
        BY <1>1, <2>1, <2>2
<1>. QED
    BY <1>5, <1>6

(* insertSorted finds a place behind everybody who goes first.             *)
LEMMA Inserted ==
  ASSUME LimiterTypeOK, NEW r \in Requests, NEW p \in Priorities
  PROVE  \E at \in 1..(Len(queue) + 1) :
           /\ InsertSorted(r, p) =
                [i \in 1..(Len(queue) + 1) |->
                   IF i < at THEN queue[i] ELSE IF i = at THEN r ELSE queue[i - 1]]
           /\ \A i \in 1..(at - 1) : Rank(prio[queue[i]]) <= Rank(p)
           /\ at <= Len(queue) => Rank(prio[queue[at]]) > Rank(p)
<1> DEFINE at == IF Behind(p) = {} THEN Len(queue) + 1 ELSE Min(Behind(p))
<1>1. /\ Len(queue) \in Nat /\ queue \in Seq(Requests) /\ Rank(p) \in Nat
      /\ \A i \in 1..Len(queue) : Rank(prio[queue[i]]) \in Nat
    BY LimiterTypes, Ranks DEF LimiterTypeOK
<1>2. Behind(p) \in SUBSET Int /\ IsFiniteSet(Behind(p)) /\ Behind(p) \subseteq 1..Len(queue)
    <2>1. Behind(p) \in SUBSET (1..Len(queue))
        BY DEF Behind
    <2>2. IsFiniteSet(Behind(p))
        <3>1. IsFiniteSet(1..Len(queue))
            BY <1>1, FS_Interval
        <3>. QED
            BY <2>1, <3>1, FS_Subset
    <2>. QED
        BY <1>1, <2>1, <2>2
<1>3. Behind(p) # {} => Min(Behind(p)) \in Behind(p) /\ \A k \in Behind(p) : Min(Behind(p)) <= k
    BY <1>2, Extremes
<1>4. /\ at \in 1..(Len(queue) + 1)
      /\ \A i \in 1..(at - 1) : i \notin Behind(p)
      /\ at <= Len(queue) => at \in Behind(p)
    BY <1>1, <1>2, <1>3
<1>5. InsertSorted(r, p) = SubSeq(queue, 1, at - 1) \o <<r>> \o SubSeq(queue, at, Len(queue))
    BY DEF InsertSorted
<1> HIDE DEF at
<1>6. InsertSorted(r, p) =
        [i \in 1..(Len(queue) + 1) |->
           IF i < at THEN queue[i] ELSE IF i = at THEN r ELSE queue[i - 1]]
    <2> DEFINE front == SubSeq(queue, 1, at - 1)
               back == SubSeq(queue, at, Len(queue))
    <2>1. /\ front \in Seq(Requests) /\ Len(front) = at - 1
          /\ \A i \in 1..(at - 1) : front[i] = queue[i]
        BY <1>1, <1>4, SubSeqProperties
    <2>2. /\ back \in Seq(Requests) /\ Len(back) = Len(queue) + 1 - at
          /\ \A i \in 1..(Len(queue) + 1 - at) : back[i] = queue[at + i - 1]
        BY <1>1, <1>4, SubSeqProperties
    <2> HIDE DEF front, back
    <2>3. <<r>> \in Seq(Requests) /\ Len(<<r>>) = 1
        OBVIOUS
    <2> DEFINE new == InsertSorted(r, p)
    <2>4. /\ front \o <<r>> \in Seq(Requests) /\ Len(front \o <<r>>) = at
          /\ \A i \in 1..at : (front \o <<r>>)[i] = IF i < at THEN queue[i] ELSE r
        <3>1. /\ front \o <<r>> \in Seq(Requests) /\ Len(front \o <<r>>) = Len(front) + 1
              /\ \A i \in 1..(Len(front) + 1) : (front \o <<r>>)[i] =
                    IF i <= Len(front) THEN front[i] ELSE <<r>>[i - Len(front)]
            BY <2>1, <2>3, ConcatProperties
        <3>2. at \in Nat /\ Len(front) + 1 = at /\ at - Len(front) = 1 /\ <<r>>[1] = r
            BY <1>1, <1>4, <2>1
        <3>3. \A i \in 1..at : (front \o <<r>>)[i] = IF i < at THEN front[i] ELSE <<r>>[i - Len(front)]
            BY <3>1, <3>2
        <3>4. \A i \in 1..at : (front \o <<r>>)[i] = IF i < at THEN queue[i] ELSE r
            <4> TAKE i \in 1..at
            <4>1. CASE i < at
                BY <2>1, <3>2, <3>3, <4>1
            <4>2. CASE i = at
                BY <3>2, <3>3, <4>2
            <4>. QED
                BY <3>2, <4>1, <4>2
        <3>. QED
            BY <3>1, <3>2, <3>4
    <2>5. new = (front \o <<r>>) \o back
        BY <1>5, <2>1, <2>2, <2>3 DEF front, back
    <2>6. /\ new \in Seq(Requests) /\ Len(new) = at + (Len(queue) + 1 - at)
          /\ \A i \in 1..(at + (Len(queue) + 1 - at)) : new[i] =
                IF i <= at THEN (front \o <<r>>)[i] ELSE back[i - at]
        <3> DEFINE most == front \o <<r>>
        <3>1. most \in Seq(Requests) /\ Len(most) = at
            BY <2>4
        <3> HIDE DEF most
        <3>2. /\ most \o back \in Seq(Requests) /\ Len(most \o back) = Len(most) + Len(back)
              /\ \A i \in 1..(Len(most) + Len(back)) : (most \o back)[i] =
                    IF i <= Len(most) THEN most[i] ELSE back[i - Len(most)]
            BY <2>2, <3>1, ConcatProperties
        <3>3. new = most \o back
            BY <2>5 DEF most
        <3> HIDE DEF new
        <3>. QED
            BY <2>2, <3>1, <3>2, <3>3 DEF most
    <2> HIDE DEF new
    <2>7. Len(new) = Len(queue) + 1 /\ DOMAIN new = 1..(Len(queue) + 1) /\ new = [i \in DOMAIN new |-> new[i]]
        BY <1>1, <1>4, <2>6, LenProperties
    <2>8. \A i \in 1..(Len(queue) + 1) :
            new[i] = IF i < at THEN queue[i] ELSE IF i = at THEN r ELSE queue[i - 1]
        <3> TAKE i \in 1..(Len(queue) + 1)
        <3>4. at + (Len(queue) + 1 - at) = Len(queue) + 1
            BY <1>1, <1>4
        <3>1. new[i] = IF i <= at THEN (front \o <<r>>)[i] ELSE back[i - at]
            BY <2>6, <3>4
        <3>2. CASE i <= at
            BY <1>1, <1>4, <2>4, <3>1, <3>2
        <3>3. CASE i > at
            <4>1. i - at \in 1..(Len(queue) + 1 - at) /\ at + (i - at) - 1 = i - 1
                BY <1>1, <1>4, <3>3
            <4>2. back[i - at] = queue[i - 1]
                BY <2>2, <4>1
            <4>. QED
                BY <1>1, <1>4, <3>1, <3>3, <4>2
        <3>. QED
            BY <1>1, <1>4, <3>2, <3>3
    <2>. QED
        BY <2>7, <2>8 DEF new
<1>7. /\ \A i \in 1..(at - 1) : Rank(prio[queue[i]]) <= Rank(p)
      /\ at <= Len(queue) => Rank(prio[queue[at]]) > Rank(p)
    BY <1>1, <1>4 DEF Behind
<1>. QED
    BY <1>4, <1>6, <1>7

(* A step that leaves the queue and what it says of those who wait alone   *)
(* leaves it in order.                                                     *)
LEMMA QueueUntouched ==
  ASSUME LimiterTypeOK, QueueInOrder, UNCHANGED <<queue, draining>>,
         \A r \in Requests : status'[r] = "queued" <=> status[r] = "queued",
         \A r \in Requests : status[r] = "queued" => prio'[r] = prio[r] /\ ticket'[r] = ticket[r]
  PROVE  QueueInOrder'
<1>1. InQueue' = InQueue /\ InQueue = {r \in Requests : status[r] = "queued"}
    BY DEF InQueue, QueueInOrder
<1>2. InQueue' = {r \in Requests : status'[r] = "queued"}
    BY <1>1
<1>3. \A i \in 1..Len(queue) : prio'[queue[i]] = prio[queue[i]] /\ ticket'[queue[i]] = ticket[queue[i]]
    BY <1>1 DEF InQueue
<1>. QED
    BY <1>2, <1>3 DEF QueueInOrder

LEMMA EnqueueKeepsOrder ==
  ASSUME LimiterTypeOK, QueueInOrder, TicketsAreGiven,
         NEW r \in Requests, NEW p \in Priorities, Enqueue(r, p)
  PROVE  /\ QueueInOrder'
         /\ queue' \in Seq(Requests)
<1>1. PICK at \in 1..(Len(queue) + 1) :
        /\ InsertSorted(r, p) =
             [i \in 1..(Len(queue) + 1) |->
                IF i < at THEN queue[i] ELSE IF i = at THEN r ELSE queue[i - 1]]
        /\ \A i \in 1..(at - 1) : Rank(prio[queue[i]]) <= Rank(p)
        /\ at <= Len(queue) => Rank(prio[queue[at]]) > Rank(p)
    BY Inserted
<1>2. /\ queue' = InsertSorted(r, p) /\ draining' = TRUE
      /\ status[r] = "new" /\ status' = [status EXCEPT ![r] = "queued"]
      /\ prio' = [prio EXCEPT ![r] = p]
      /\ ticket' = [ticket EXCEPT ![r] = Cardinality(Submitted)]
    BY DEF Enqueue
<1>3. /\ Len(queue) \in Nat /\ \A i \in 1..Len(queue) : queue[i] \in Requests
      /\ status \in [Requests -> {"new", "queued", "running", "done", "limited"}]
      /\ prio \in [Requests -> Priorities] /\ ticket \in [Requests -> Nat]
    BY LimiterTypes DEF LimiterTypeOK
<1>4. \A i \in 1..Len(queue) : queue[i] # r /\ status[queue[i]] = "queued"
    BY <1>2 DEF QueueInOrder, InQueue
<1>5. /\ Len(queue') = Len(queue) + 1 /\ DOMAIN queue' = 1..(Len(queue) + 1)
      /\ \A i \in 1..(Len(queue) + 1) :
            queue'[i] = IF i < at THEN queue[i] ELSE IF i = at THEN r ELSE queue[i - 1]
    BY <1>1, <1>2, <1>3
<1>6. queue' \in Seq(Requests)
    <2>1. \A i \in 1..(Len(queue) + 1) : queue'[i] \in Requests
        <3> TAKE i \in 1..(Len(queue) + 1)
        <3>1. i \in Int /\ (i < at => i \in 1..Len(queue)) /\ (i > at => i - 1 \in 1..Len(queue))
            BY <1>3
        <3>2. queue'[i] = IF i < at THEN queue[i] ELSE IF i = at THEN r ELSE queue[i - 1]
            BY <1>5
        <3>. QED
            BY <1>3, <3>1, <3>2
    <2>. QED
        BY <1>1, <1>2, <1>3, <1>5, <2>1
<1>7. /\ prio'[r] = p /\ ticket'[r] = Cardinality(Submitted)
      /\ \A i \in 1..Len(queue) : /\ prio'[queue[i]] = prio[queue[i]]
                                  /\ ticket'[queue[i]] = ticket[queue[i]]
                                  /\ ticket[queue[i]] < Cardinality(Submitted)
    <2>1. \A i \in 1..Len(queue) : queue[i] \in Submitted
        BY <1>3, <1>4 DEF Submitted
    <2>. QED
        BY <1>2, <1>3, <1>4, <2>1 DEF TicketsAreGiven
<1>8. InQueue' = {q \in Requests : status'[q] = "queued"}
    <2>1. InQueue' = InQueue \cup {r}
        <3>1. \A x : x \in InQueue' <=> \E i \in 1..(Len(queue) + 1) : x = queue'[i]
            BY <1>5 DEF InQueue
        <3>2. \A i \in 1..(Len(queue) + 1) : queue'[i] \in InQueue \cup {r}
            BY <1>3, <1>5 DEF InQueue
        <3>3. r \in InQueue'
            BY <1>5, <3>1
        <3>4. ASSUME NEW i \in 1..Len(queue) PROVE queue[i] \in InQueue'
            <4>1. CASE i < at
                BY <1>3, <1>5, <3>1, <4>1
            <4>2. CASE i >= at
                <5>1. i + 1 \in 1..(Len(queue) + 1) /\ queue'[i + 1] = queue[i]
                    BY <1>3, <1>5, <4>2
                <5>. QED
                    BY <3>1, <5>1
            <4>. QED
                BY <1>3, <4>1, <4>2
        <3>. QED
            <4>1. \A x : x \in InQueue <=> \E i \in 1..Len(queue) : x = queue[i]
                BY DEF InQueue
            <4>2. \A x : x \in InQueue' => x \in InQueue \cup {r}
                BY <3>1, <3>2
            <4>3. \A x : x \in InQueue => x \in InQueue'
                BY <3>4, <4>1
            <4>. QED
                BY <3>3, <4>2, <4>3
    <2>2. InQueue = {q \in Requests : status[q] = "queued"}
        BY DEF QueueInOrder
    <2>. QED
        BY <1>2, <1>3, <2>1, <2>2
<1>9. ASSUME NEW i \in 1..Len(queue'), NEW j \in 1..Len(queue'), i < j
      PROVE  \/ Rank(prio'[queue'[i]]) < Rank(prio'[queue'[j]])
             \/ /\ prio'[queue'[i]] = prio'[queue'[j]]
                /\ ticket'[queue'[i]] < ticket'[queue'[j]]
    <2>0. \A k, l \in 1..Len(queue) : k < l =>
             \/ Rank(prio[queue[k]]) < Rank(prio[queue[l]])
             \/ prio[queue[k]] = prio[queue[l]] /\ ticket[queue[k]] < ticket[queue[l]]
        BY DEF QueueInOrder
    <2>1. \A k \in 1..Len(queue) : prio[queue[k]] \in Priorities /\ Rank(prio[queue[k]]) \in Nat
        BY <1>3, Ranks
    <2>2. CASE i # at /\ j # at
        <3> DEFINE k == IF i < at THEN i ELSE i - 1
                   l == IF j < at THEN j ELSE j - 1
        <3>1. k \in 1..Len(queue) /\ l \in 1..Len(queue) /\ k < l
            BY <1>3, <1>5, <1>9, <2>2
        <3>2. queue'[i] = queue[k] /\ queue'[j] = queue[l]
            BY <1>5, <2>2
        <3> HIDE DEF k, l
        <3>. QED
            BY <1>7, <2>0, <3>1, <3>2
    <2>3. CASE j = at
        <3>1. i \in 1..(at - 1) /\ i \in 1..Len(queue) /\ queue'[i] = queue[i] /\ queue'[j] = r
            BY <1>3, <1>5, <1>9, <2>3
        <3>2. Rank(prio[queue[i]]) <= Rank(p)
            BY <1>1, <3>1
        <3>3. Rank(prio[queue[i]]) < Rank(p) \/ prio[queue[i]] = p
            BY <2>1, <3>1, <3>2, Ranks
        <3>. QED
            BY <1>7, <3>1, <3>3
    <2>4. CASE i = at
        <3>1. j - 1 \in at..Len(queue) /\ j - 1 \in 1..Len(queue) /\ queue'[j] = queue[j - 1]
              /\ queue'[i] = r
            BY <1>3, <1>5, <1>9, <2>4
        <3>2. at \in 1..Len(queue) /\ Rank(prio[queue[at]]) > Rank(p)
            BY <1>1, <1>3, <3>1
        <3>3. Rank(prio[queue[at]]) <= Rank(prio[queue[j - 1]])
            <4>1. CASE j - 1 = at
                BY <2>1, <3>2, <4>1
            <4>2. CASE j - 1 > at
                <5>1. \/ Rank(prio[queue[at]]) < Rank(prio[queue[j - 1]])
                      \/ prio[queue[at]] = prio[queue[j - 1]]
                    BY <2>0, <3>1, <3>2, <4>2
                <5>. QED
                    BY <2>1, <3>1, <3>2, <5>1
            <4>. QED
                BY <3>1, <4>1, <4>2
        <3>4. Rank(p) < Rank(prio[queue[j - 1]])
            BY <2>1, <3>1, <3>2, <3>3, Ranks
        <3>. QED
            BY <1>7, <3>1, <3>4
    <2>. QED
        BY <2>2, <2>3, <2>4
<1>. QED
    BY <1>2, <1>6, <1>8, <1>9 DEF QueueInOrder

(* One turn of the drain loop.                                             *)
LEMMA DrainKeepsOrder ==
  ASSUME LimiterTypeOK, QueueInOrder, Drain
  PROVE  /\ QueueInOrder'
         /\ queue' \in Seq(Requests)
<1> DEFINE n == Runnable
           started == {queue[i] : i \in 1..n}
<1>1. n \in 0..Len(queue)
    BY RunnableIsAPrefix
<1>2. /\ queue' = SubSeq(queue, n + 1, Len(queue))
      /\ status' = [r \in Requests |-> IF r \in started THEN "running" ELSE status[r]]
      /\ (draining' <=> n < Len(queue)) /\ UNCHANGED <<prio, ticket>>
    BY DEF Drain, StaysAwake
<1> HIDE DEF n
<1>3. Len(queue) \in Nat /\ \A i \in 1..Len(queue) : queue[i] \in Requests
    BY LimiterTypes
<1>4. /\ queue' \in Seq(Requests) /\ Len(queue') = Len(queue) - n
      /\ \A i \in 1..(Len(queue) - n) : queue'[i] = queue[n + i]
    <2>1. \A i \in (n + 1)..Len(queue) : queue[i] \in Requests
        BY <1>1, <1>3
    <2>2. /\ SubSeq(queue, n + 1, Len(queue)) \in Seq(Requests)
          /\ Len(SubSeq(queue, n + 1, Len(queue))) =
               IF n + 1 <= Len(queue) THEN Len(queue) - (n + 1) + 1 ELSE 0
          /\ \A i \in 1..(Len(queue) - (n + 1) + 1) :
               SubSeq(queue, n + 1, Len(queue))[i] = queue[n + 1 + i - 1]
        BY <1>1, <1>3, <2>1, SubSeqProperties
    <2>3. /\ Len(queue) - (n + 1) + 1 = Len(queue) - n
          /\ (IF n + 1 <= Len(queue) THEN Len(queue) - (n + 1) + 1 ELSE 0) = Len(queue) - n
          /\ \A i \in 1..(Len(queue) - n) : n + 1 + i - 1 = n + i
        BY <1>1, <1>3
    <2>4. \A i \in 1..(Len(queue) - n) : SubSeq(queue, n + 1, Len(queue))[i] = queue[n + 1 + i - 1]
        BY <2>2, <2>3
    <2>5. \A i \in 1..(Len(queue) - n) : SubSeq(queue, n + 1, Len(queue))[i] = queue[n + i]
        BY <2>3, <2>4
    <2>. QED
        BY <1>2, <2>2, <2>3, <2>5
<1>5. \A i, j \in 1..Len(queue) : i < j =>
         \/ Rank(prio[queue[i]]) < Rank(prio[queue[j]])
         \/ prio[queue[i]] = prio[queue[j]] /\ ticket[queue[i]] < ticket[queue[j]]
    BY DEF QueueInOrder
<1>6. \A i, j \in 1..Len(queue) : queue[i] = queue[j] => i = j
    <2>1. \A i \in 1..Len(queue) : Rank(prio[queue[i]]) \in Nat /\ ticket[queue[i]] \in Nat
        BY <1>3, Ranks DEF LimiterTypeOK
    <2>2. \A i, j \in 1..Len(queue) : i < j => queue[i] # queue[j]
        <3> TAKE i, j \in 1..Len(queue)
        <3>1. i < j => Rank(prio[queue[i]]) # Rank(prio[queue[j]]) \/ ticket[queue[i]] # ticket[queue[j]]
            BY <1>5, <2>1
        <3>. QED
            BY <3>1
    <2>. QED
        BY <1>3, <2>2
<1>7. InQueue' = {r \in Requests : status'[r] = "queued"}
    <2>1. \A x : x \in InQueue' <=> \E i \in 1..(Len(queue) - n) : x = queue[n + i]
        BY <1>4 DEF InQueue
    <2>2. \A x : x \in Requests /\ status[x] = "queued" <=> \E i \in 1..Len(queue) : x = queue[i]
        BY DEF QueueInOrder, InQueue
    <2>3. \A x : x \in Requests /\ status'[x] = "queued"
                   <=> x \in Requests /\ status[x] = "queued" /\ x \notin started
        BY <1>2
    <2>4. ASSUME NEW x \in InQueue' PROVE x \in Requests /\ status'[x] = "queued"
        <3>1. PICK i \in 1..(Len(queue) - n) : x = queue[n + i]
            BY <2>1
        <3>2. n + i \in 1..Len(queue) /\ \A k \in 1..n : k \in 1..Len(queue) /\ k # n + i
            BY <1>1, <1>3
        <3>3. x \notin started
            BY <1>6, <3>1, <3>2
        <3>. QED
            BY <2>2, <2>3, <3>1, <3>2, <3>3
    <2>5. ASSUME NEW x \in Requests, status'[x] = "queued" PROVE x \in InQueue'
        <3>1. PICK k \in 1..Len(queue) : x = queue[k]
            BY <2>2, <2>3, <2>5
        <3>2. k \notin 1..n
            BY <2>3, <2>5, <3>1
        <3>3. k - n \in 1..(Len(queue) - n) /\ n + (k - n) = k
            BY <1>1, <1>3, <3>2
        <3>. QED
            BY <2>1, <3>1, <3>3
    <2>. QED
        BY <2>4, <2>5
<1>8. ASSUME NEW i \in 1..Len(queue'), NEW j \in 1..Len(queue'), i < j
      PROVE  \/ Rank(prio'[queue'[i]]) < Rank(prio'[queue'[j]])
             \/ /\ prio'[queue'[i]] = prio'[queue'[j]]
                /\ ticket'[queue'[i]] < ticket'[queue'[j]]
    <2>1. n + i \in 1..Len(queue) /\ n + j \in 1..Len(queue) /\ n + i < n + j
        BY <1>1, <1>3, <1>4, <1>8
    <2>2. queue'[i] = queue[n + i] /\ queue'[j] = queue[n + j]
        BY <1>4
    <2>. QED
        BY <1>2, <1>5, <2>1, <2>2
<1>9. queue' # <<>> => draining'
    <2>1. queue' # <<>> => Len(queue') # 0
        BY <1>4, EmptySeq
    <2>. QED
        BY <1>1, <1>2, <1>3, <1>4, <2>1
<1>. QED
    BY <1>4, <1>7, <1>8, <1>9 DEF QueueInOrder

(* Starts put a timestamp each behind the others.                          *)
LEMMA RecordedTypes ==
  ASSUME LimiterTypeOK, NEW n \in Nat, timestamps' = Recorded(n), Load + n <= MaxRpm
  PROVE  /\ timestamps' \in Seq(Lifetimes) /\ Load' = Load + n /\ Load' <= MaxRpm
         /\ OldestFirst(timestamps')
         /\ \A i \in 1..Load : timestamps'[i] = timestamps[i]
         /\ \A i \in 1..n : timestamps'[Load + i] = Window
<1>1. /\ timestamps \in Seq(Lifetimes) /\ Load \in Nat /\ DOMAIN timestamps = 1..Load
      /\ \A i \in 1..Load : timestamps[i] \in Lifetimes
    BY LimiterTypes DEF LimiterTypeOK
<1>2. Window \in Lifetimes /\ \A l \in Lifetimes : l \in Nat /\ l <= Window
    BY LimiterAssumption DEF Lifetimes
<1> DEFINE fresh == [i \in 1..n |-> Window]
<1>3. fresh \in Seq(Lifetimes) /\ Len(fresh) = n /\ \A i \in 1..n : fresh[i] = Window
    BY <1>2
<1> HIDE DEF fresh
<1>4. /\ timestamps \o fresh \in Seq(Lifetimes) /\ Len(timestamps \o fresh) = Load + n
      /\ \A i \in 1..(Load + n) : (timestamps \o fresh)[i] =
            IF i <= Load THEN timestamps[i] ELSE fresh[i - Load]
    BY <1>1, <1>3, ConcatProperties DEF Load
<1>5. timestamps' = timestamps \o fresh
    BY DEF Recorded, fresh
<1>6. /\ timestamps' \in Seq(Lifetimes) /\ Load' = Load + n
      /\ \A i \in 1..(Load + n) : timestamps'[i] = IF i <= Load THEN timestamps[i] ELSE Window
    <2>1. \A i \in 1..(Load + n) : ~(i <= Load) => i - Load \in 1..n
        BY <1>1
    <2>. QED
        BY <1>3, <1>4, <1>5, <2>1 DEF Load
<1>7. OldestFirst(timestamps')
    <2>1. DOMAIN timestamps' = 1..(Load + n)
        BY <1>6, LenProperties DEF Load
    <2>2. \A i, j \in 1..Load : i < j => timestamps[i] <= timestamps[j]
        BY <1>1 DEF LimiterTypeOK, OldestFirst
    <2>3. ASSUME NEW i \in 1..(Load + n), NEW j \in 1..(Load + n), i < j
          PROVE  timestamps'[i] <= timestamps'[j]
        <3>1. CASE j <= Load
            BY <1>1, <1>6, <2>2, <2>3, <3>1
        <3>2. CASE j > Load
            <4>1. timestamps'[j] = Window
                BY <1>1, <1>6, <3>2
            <4>2. timestamps'[i] \in Lifetimes
                BY <1>1, <1>2, <1>6
            <4>. QED
                BY <1>2, <4>1, <4>2
        <3>. QED
            BY <1>1, <3>1, <3>2
    <2>. QED
        BY <2>1, <2>3 DEF OldestFirst
<1>8. /\ \A i \in 1..Load : timestamps'[i] = timestamps[i]
      /\ \A i \in 1..n : timestamps'[Load + i] = Window
    <2>1. /\ \A i \in 1..Load : i \in 1..(Load + n) /\ i <= Load
          /\ \A i \in 1..n : Load + i \in 1..(Load + n) /\ ~(Load + i <= Load)
        BY <1>1
    <2>. QED
        BY <1>6, <2>1
<1>. QED
    BY <1>6, <1>7, <1>8

(* Each of them is the timestamp of its request.                           *)
LEMMA StartsGetStamps ==
  ASSUME LimiterTypeOK, StartsAreStamped, NEW n \in Nat, timestamps' = Recorded(n),
         Load + n <= MaxRpm,
         NEW S \in SUBSET Requests, NEW place \in Injection(S, 1..n),
         \A r \in S : age[r] = 0,
         age' = [r \in Requests |-> IF r \in S THEN Window ELSE age[r]]
  PROVE  StartsAreStamped'
<1>1. PICK stamp \in Injection(InWindow, 1..Load) : \A r \in InWindow : timestamps[stamp[r]] = age[r]
    BY DEF StartsAreStamped
<1>2. /\ stamp \in [InWindow -> 1..Load] /\ place \in [S -> 1..n]
      /\ \A a, b \in InWindow : stamp[a] = stamp[b] => a = b
      /\ \A a, b \in S : place[a] = place[b] => a = b
    BY Fun_InjectionProperties
<1>3. /\ Load' = Load + n /\ Load \in Nat
      /\ \A i \in 1..Load : timestamps'[i] = timestamps[i]
      /\ \A i \in 1..n : timestamps'[Load + i] = Window
    BY RecordedTypes, LimiterTypes
<1>4. InWindow' = InWindow \cup S /\ \A r \in InWindow : r \notin S
    <2>1. Window > 0 /\ ~(0 > 0)
        BY LimiterAssumption
    <2>. QED
        BY <2>1 DEF InWindow
<1> DEFINE later == [r \in InWindow' |-> IF r \in S THEN Load + place[r] ELSE stamp[r]]
<1>5. later \in [InWindow' -> 1..Load']
    <2>1. \A r \in S : Load + place[r] \in 1..(Load + n)
        BY <1>2, <1>3
    <2>2. \A r \in InWindow : stamp[r] \in 1..(Load + n)
        BY <1>2, <1>3
    <2>. QED
        BY <1>3, <1>4, <2>1, <2>2
<1>6. ASSUME NEW a \in InWindow', NEW b \in InWindow', later[a] = later[b] PROVE a = b
    <2>1. \A r \in S : Load + place[r] > Load /\ place[r] \in Nat
        BY <1>2, <1>3
    <2>2. \A r \in InWindow : stamp[r] \in Nat /\ stamp[r] <= Load
        BY <1>2, <1>3
    <2>3. CASE a \in S /\ b \in S
        <3>1. Load + place[a] = Load + place[b]
            BY <1>6, <2>3
        <3>2. place[a] = place[b]
            BY <1>3, <2>1, <2>3, <3>1
        <3>. QED
            BY <1>2, <2>3, <3>2
    <2>4. CASE a \in InWindow /\ b \in InWindow
        BY <1>2, <1>4, <1>6, <2>4
    <2>5. CASE a \in S /\ b \in InWindow
        BY <1>3, <1>4, <1>6, <2>1, <2>2, <2>5
    <2>6. CASE a \in InWindow /\ b \in S
        BY <1>3, <1>4, <1>6, <2>1, <2>2, <2>6
    <2>. QED
        BY <1>4, <2>3, <2>4, <2>5, <2>6
<1>7. \A r \in InWindow' : timestamps'[later[r]] = age'[r]
    <2>1. \A r \in S : timestamps'[Load + place[r]] = Window /\ age'[r] = Window
        BY <1>2, <1>3
    <2>2. \A r \in InWindow : timestamps'[stamp[r]] = timestamps[stamp[r]] /\ age'[r] = age[r]
        BY <1>2, <1>3, <1>4 DEF InWindow
    <2>. QED
        BY <1>1, <1>4, <2>1, <2>2
<1>8. later \in Injection(InWindow', 1..Load')
    <2> HIDE DEF later
    <2>. QED
        BY <1>5, <1>6, Fun_IsInj
<1>. QED
    <2> HIDE DEF later
    <2>. QED
        BY <1>7, <1>8 DEF StartsAreStamped

(* What backoff429 fills the window up with.                               *)
LEMMA PhantomsLeaveTheWindow ==
  ASSUME NEW free \in 1..MaxRpm, NEW i \in 1..free
  PROVE  (Window * i) \div free \in Lifetimes
<1>1. free \in Nat \ {0} /\ free <= Window /\ Window \in Nat /\ i \in Nat \ {0} /\ i <= free
    BY LimiterAssumption
<1>2. Window * i >= Window /\ Window * i <= Window * free /\ Window * i \in Nat
    BY <1>1
<1> DEFINE product == Window * i
           q == product \div free
<1>3. product \in Nat /\ product >= free /\ product <= Window * free
    BY <1>1, <1>2
<1> HIDE DEF product
<1>4. q \in Int /\ free * q <= product /\ product < free * (q + 1)
    BY <1>1, <1>3
<1> HIDE DEF q
<1>5. q > 0
    <2>1. ASSUME q <= 0 PROVE FALSE
        <3>1. free * (q + 1) <= free
            BY <1>1, <1>4, <2>1
        <3>. QED
            BY <1>1, <1>3, <1>4, <3>1
    <2>. QED
        BY <1>4, <2>1
<1>6. q <= Window
    <2>1. ASSUME q >= Window + 1 PROVE FALSE
        <3>1. free * q >= free * (Window + 1)
            BY <1>1, <1>4, <2>1
        <3>2. free * (Window + 1) = Window * free + free
            BY <1>1
        <3>3. free * q \in Int /\ Window * free \in Int
            BY <1>1, <1>4
        <3>. QED
            BY <1>1, <1>3, <1>4, <3>1, <3>2, <3>3
    <2>. QED
        BY <1>1, <1>4, <2>1
<1>. QED
    BY <1>1, <1>4, <1>5, <1>6 DEF q, product, Lifetimes

LEMMA FilledTypes ==
  ASSUME LimiterTypeOK, Load < MaxRpm
  PROVE  /\ Filled \in Seq(Lifetimes) /\ Len(Filled) = MaxRpm
         /\ \A i \in 1..Load : Filled[i] = timestamps[i]
<1> DEFINE free == MaxRpm - Load
           phantoms == [i \in 1..free |-> (Window * i) \div free]
<1>1. /\ timestamps \in Seq(Lifetimes) /\ Load \in Nat /\ MaxRpm \in Nat /\ free \in 1..MaxRpm
      /\ Load + free = MaxRpm
    BY LimiterTypes, LimiterAssumption DEF LimiterTypeOK
<1>2. Filled = timestamps \o phantoms
    BY DEF Filled
<1> HIDE DEF free
<1>3. \A i \in 1..free : (Window * i) \div free \in Lifetimes
    BY <1>1, PhantomsLeaveTheWindow
<1>4. phantoms \in Seq(Lifetimes) /\ Len(phantoms) = free
    BY <1>1, <1>3
<1> HIDE DEF phantoms
<1>5. /\ timestamps \o phantoms \in Seq(Lifetimes) /\ Len(timestamps \o phantoms) = Load + free
      /\ \A i \in 1..(Load + free) : (timestamps \o phantoms)[i] =
            IF i <= Load THEN timestamps[i] ELSE phantoms[i - Load]
    BY <1>1, <1>4, ConcatProperties DEF Load
<1>6. \A i \in 1..Load : i \in 1..(Load + free) /\ i <= Load
    BY <1>1
<1>. QED
    BY <1>1, <1>2, <1>5, <1>6

(* A sorted copy has every timestamp still, in another place.              *)
LEMMA BackingOffKeepsStamps ==
  ASSUME LimiterTypeOK, StartsAreStamped, Load < MaxRpm,
         NEW order \in Bijection(1..MaxRpm, 1..MaxRpm),
         timestamps' = [i \in 1..MaxRpm |-> Filled[order[i]]], UNCHANGED age
  PROVE  /\ timestamps' \in Seq(Lifetimes) /\ Load' = MaxRpm
         /\ StartsAreStamped'
<1>1. /\ Filled \in Seq(Lifetimes) /\ Len(Filled) = MaxRpm /\ MaxRpm \in Nat /\ Load \in Nat
      /\ \A i \in 1..Load : Filled[i] = timestamps[i]
    BY FilledTypes, LimiterTypes, LimiterAssumption
<1>2. /\ order \in [1..MaxRpm -> 1..MaxRpm]
      /\ \A i \in 1..MaxRpm : \E k \in 1..MaxRpm : order[k] = i
    BY Fun_BijectionProperties
<1>3. \A i \in 1..MaxRpm : Filled[order[i]] \in Lifetimes
    BY <1>1, <1>2, ElementOfSeq
<1>4. timestamps' \in Seq(Lifetimes) /\ Load' = MaxRpm
    <2>1. timestamps' \in Seq(Lifetimes) /\ Len(timestamps') = MaxRpm
        BY <1>1, <1>3
    <2>. QED
        BY <2>1 DEF Load
<1>5. PICK stamp \in Injection(InWindow, 1..Load) : \A r \in InWindow : timestamps[stamp[r]] = age[r]
    BY DEF StartsAreStamped
<1>6. /\ stamp \in [InWindow -> 1..Load]
      /\ \A a, b \in InWindow : stamp[a] = stamp[b] => a = b
    BY Fun_InjectionProperties
<1> DEFINE moved == [r \in InWindow |-> CHOOSE k \in 1..MaxRpm : order[k] = stamp[r]]
<1>7. \A r \in InWindow : moved[r] \in 1..MaxRpm /\ order[moved[r]] = stamp[r]
    <2>1. \A r \in InWindow : stamp[r] \in 1..MaxRpm
        BY <1>1, <1>6
    <2>. QED
        BY <1>2, <2>1
<1>8. moved \in [InWindow -> 1..MaxRpm]
    BY <1>7
<1> HIDE DEF moved
<1>9. moved \in Injection(InWindow, 1..MaxRpm)
    <2>1. \A a, b \in InWindow : moved[a] = moved[b] => a = b
        BY <1>6, <1>7
    <2>. QED
        BY <1>8, <2>1, Fun_IsInj
<1>10. \A r \in InWindow : timestamps'[moved[r]] = age[r]
    BY <1>1, <1>5, <1>6, <1>7
<1>. QED
    <2>1. InWindow' = InWindow /\ age' = age
        BY DEF InWindow
    <2>2. moved \in Injection(InWindow', 1..Load') /\ \A r \in InWindow' : timestamps'[moved[r]] = age'[r]
        BY <1>4, <1>9, <1>10, <2>1
    <2>. QED
        BY <1>4, <2>2 DEF StartsAreStamped

(* With a tick the oldest that are due leave, and the others come closer.  *)
LEMMA TickTypes ==
  ASSUME LimiterTypeOK, LimiterTick
  PROVE  /\ Expired \in 0..Load /\ \A i \in 1..Expired : timestamps[i] = 1
         /\ Load' = Load - Expired /\ timestamps' \in Seq(Lifetimes) /\ OldestFirst(timestamps')
         /\ \A i \in 1..(Load - Expired) : timestamps'[i] = timestamps[i + Expired] - 1
<1>1. /\ Load \in Nat /\ DOMAIN timestamps = 1..Load
      /\ \A i \in 1..Load : timestamps[i] \in Lifetimes
      /\ \A i, j \in 1..Load : i < j => timestamps[i] <= timestamps[j]
    BY LimiterTypes DEF LimiterTypeOK, OldestFirst
<1> DEFINE K == {k \in 0..Load : \A i \in 1..k : timestamps[i] = 1}
<1>2. IsFiniteSet(K) /\ K \in SUBSET Int /\ 0 \in K
    <2>1. IsFiniteSet(0..Load) /\ K \in SUBSET (0..Load) /\ 0 \in K
        BY <1>1, FS_Interval
    <2>2. K \in SUBSET Int
        BY <1>1
    <2> HIDE DEF K
    <2>. QED
        BY <2>1, <2>2, FS_Subset
<1>3. Expired \in K /\ \A k \in K : Expired >= k
    <2>1. Expired = Max(K)
        BY DEF Expired
    <2> HIDE DEF K
    <2>. QED
        BY <1>2, <2>1, Extremes
<1>4. Expired \in 0..Load /\ \A i \in 1..Expired : timestamps[i] = 1
    BY <1>3
<1>5. \A i \in 1..(Load - Expired) : timestamps[i + Expired] - 1 \in Lifetimes
    <2>1. Expired < Load => timestamps[Expired + 1] # 1
        <3>1. ASSUME Expired < Load, timestamps[Expired + 1] = 1 PROVE FALSE
            <4>1. Expired + 1 \in 0..Load
                BY <1>1, <1>4, <3>1
            <4>2. \A i \in 1..(Expired + 1) : i \in 1..Expired \/ i = Expired + 1
                BY <1>4
            <4>3. Expired + 1 \in K
                BY <1>4, <3>1, <4>1, <4>2
            <4>. QED
                BY <1>3, <1>4, <4>3
        <3>. QED
            BY <3>1
    <2> TAKE i \in 1..(Load - Expired)
    <2>2. Expired < Load /\ i + Expired \in 1..Load /\ Expired + 1 \in 1..Load
        BY <1>1, <1>4
    <2>3. timestamps[Expired + 1] <= timestamps[i + Expired]
        <3>1. CASE i = 1
            <4>1. i + Expired = Expired + 1 /\ timestamps[Expired + 1] \in Int
                BY <1>1, <1>4, <2>2, <3>1, LimiterAssumption DEF Lifetimes
            <4>. QED
                BY <4>1
        <3>2. CASE i > 1
            BY <1>1, <1>4, <2>2, <3>2
        <3>. QED
            BY <3>1, <3>2
    <2>. QED
        BY <1>1, <2>1, <2>2, <2>3, LimiterAssumption DEF Lifetimes
<1>6. timestamps' = [i \in 1..(Load - Expired) |-> timestamps[i + Expired] - 1]
    BY DEF LimiterTick
<1>7. Load - Expired \in Nat
    BY <1>1, <1>4
<1>8. /\ timestamps' \in Seq(Lifetimes) /\ Len(timestamps') = Load - Expired
      /\ DOMAIN timestamps' = 1..(Load - Expired)
    BY <1>5, <1>6, <1>7
<1>9. OldestFirst(timestamps')
    <2>1. ASSUME NEW i \in 1..(Load - Expired), NEW j \in 1..(Load - Expired), i < j
          PROVE  timestamps'[i] <= timestamps'[j]
        <3>1. i + Expired \in 1..Load /\ j + Expired \in 1..Load /\ i + Expired < j + Expired
            BY <1>1, <1>4, <2>1
        <3>2. timestamps[i + Expired] <= timestamps[j + Expired]
            BY <1>1, <3>1
        <3>. QED
            BY <1>1, <1>6, <3>1, <3>2 DEF Lifetimes
    <2>. QED
        BY <1>8, <2>1 DEF OldestFirst
<1>. QED
    BY <1>4, <1>6, <1>8, <1>9 DEF Load

LEMMA TickKeepsStamps ==
  ASSUME LimiterTypeOK, StartsAreStamped, LimiterTick
  PROVE  StartsAreStamped'
<1>1. /\ Expired \in 0..Load /\ Load \in Nat /\ \A i \in 1..Expired : timestamps[i] = 1
      /\ Load' = Load - Expired
      /\ \A i \in 1..(Load - Expired) : timestamps'[i] = timestamps[i + Expired] - 1
    BY TickTypes, LimiterTypes
<1>2. PICK stamp \in Injection(InWindow, 1..Load) : \A r \in InWindow : timestamps[stamp[r]] = age[r]
    BY DEF StartsAreStamped
<1>3. /\ stamp \in [InWindow -> 1..Load]
      /\ \A a, b \in InWindow : stamp[a] = stamp[b] => a = b
    BY Fun_InjectionProperties
<1>4. \A r \in Requests : /\ age[r] \in 0..Window
                          /\ age'[r] = IF age[r] = 0 THEN 0 ELSE age[r] - 1
    BY DEF LimiterTypeOK, LimiterTick
<1>5. \A r \in InWindow' : r \in InWindow /\ age[r] > 1 /\ age'[r] = age[r] - 1
    BY <1>4, LimiterAssumption DEF InWindow
<1>6. \A r \in InWindow' : stamp[r] - Expired \in 1..(Load - Expired)
    <2> TAKE r \in InWindow'
    <2>1. stamp[r] \in 1..Load /\ timestamps[stamp[r]] = age[r] /\ age[r] # 1 /\ age[r] \in Int
        BY <1>2, <1>3, <1>4, <1>5 DEF InWindow
    <2>2. stamp[r] \notin 1..Expired
        BY <1>1, <2>1
    <2>. QED
        BY <1>1, <2>1, <2>2
<1> DEFINE moved == [r \in InWindow' |-> stamp[r] - Expired]
<1>7. moved \in [InWindow' -> 1..Load']
    BY <1>1, <1>6
<1>8. \A a, b \in InWindow' : moved[a] = moved[b] => a = b
    <2> TAKE a, b \in InWindow'
    <2>1. /\ stamp[a] \in Int /\ stamp[b] \in Int /\ Expired \in Int
          /\ moved[a] = stamp[a] - Expired /\ moved[b] = stamp[b] - Expired
        BY <1>1, <1>3, <1>5
    <2>2. moved[a] = moved[b] => stamp[a] = stamp[b]
        BY <2>1
    <2>. QED
        BY <1>3, <1>5, <2>2
<1>9. \A r \in InWindow' : timestamps'[moved[r]] = age'[r]
    <2> TAKE r \in InWindow'
    <2>1. stamp[r] - Expired \in 1..(Load - Expired) /\ (stamp[r] - Expired) + Expired = stamp[r]
        BY <1>1, <1>3, <1>5, <1>6
    <2>2. timestamps'[stamp[r] - Expired] = timestamps[stamp[r]] - 1
        BY <1>1, <2>1
    <2>. QED
        BY <1>2, <1>5, <2>2
<1> HIDE DEF moved
<1>10. moved \in Injection(InWindow', 1..Load')
    BY <1>7, <1>8, Fun_IsInj
<1>. QED
    BY <1>9, <1>10 DEF StartsAreStamped

(* A request that comes takes the next ticket.                             *)
LEMMA ComingTakesATicket ==
  ASSUME LimiterTypeOK, TicketsAreGiven, NEW r \in Requests, status[r] = "new",
         NEW place \in {"running", "queued"}, status' = [status EXCEPT ![r] = place],
         ticket' = [ticket EXCEPT ![r] = Cardinality(Submitted)]
  PROVE  TicketsAreGiven' /\ ticket' \in [Requests -> Nat]
<1>1. IsFiniteSet(Submitted) /\ Cardinality(Submitted) \in Nat /\ r \notin Submitted
    BY FS_CardinalityType DEF TicketsAreGiven, Submitted
<1>2. Submitted' = Submitted \cup {r}
    BY DEF Submitted, LimiterTypeOK
<1>3. IsFiniteSet(Submitted') /\ Cardinality(Submitted') = Cardinality(Submitted) + 1
    BY <1>1, <1>2, FS_AddElement
<1>4. /\ ticket'[r] = Cardinality(Submitted) /\ ticket \in [Requests -> Nat]
      /\ \A q \in Submitted : ticket'[q] = ticket[q]
    BY <1>1 DEF Submitted, LimiterTypeOK
<1>5. \A q \in Submitted' : ticket'[q] < Cardinality(Submitted')
    BY <1>1, <1>2, <1>3, <1>4 DEF TicketsAreGiven, Submitted
<1>6. ticket' \in [Requests -> Nat]
    BY <1>1, <1>4
<1>. QED
    BY <1>3, <1>5, <1>6 DEF TicketsAreGiven

LEMMA RunNowKeeps ==
  ASSUME LimiterInv, NEW r \in Requests, NEW p \in Priorities, RunNow(r, p)
  PROVE  LimiterInv'
<1> USE DEF LimiterInv
<1>1. /\ status[r] = "new" /\ CanRun(p, Load) /\ timestamps' = Recorded(1)
      /\ status' = [status EXCEPT ![r] = "running"] /\ age' = [age EXCEPT ![r] = Window]
      /\ prio' = [prio EXCEPT ![r] = p] /\ ticket' = [ticket EXCEPT ![r] = Cardinality(Submitted)]
      /\ UNCHANGED <<queue, draining, wakeIn>>
    BY DEF RunNow
<1>2. Load + 1 <= MaxRpm /\ Load \in Nat /\ Window \in Nat
    <2>1. Limit(p) \in 1..MaxRpm /\ Load \in Nat /\ MaxRpm \in Nat
        BY Ranks, LimiterTypes, LimiterAssumption
    <2>. QED
        BY <1>1, <2>1, LimiterAssumption DEF CanRun
<1>3. /\ timestamps' \in Seq(Lifetimes) /\ Load' <= MaxRpm /\ OldestFirst(timestamps')
    BY <1>1, <1>2, RecordedTypes
<1>4. TicketsAreGiven' /\ ticket' \in [Requests -> Nat]
    BY <1>1, ComingTakesATicket
<1>5. LimiterTypeOK'
    BY <1>1, <1>2, <1>3, <1>4 DEF LimiterTypeOK
<1>6. QueueInOrder'
    <2>1. \A q \in Requests : status'[q] = "queued" <=> status[q] = "queued"
        BY <1>1 DEF LimiterTypeOK
    <2>2. \A q \in Requests : status[q] = "queued" => prio'[q] = prio[q] /\ ticket'[q] = ticket[q]
        BY <1>1 DEF LimiterTypeOK
    <2>. QED
        BY <1>1, <2>1, <2>2, QueueUntouched
<1>7. NotYetStarted'
    BY <1>1 DEF NotYetStarted, LimiterTypeOK
<1>8. StartsAreStamped'
    <2> DEFINE place == [x \in {r} |-> 1]
    <2>1. place \in Injection({r}, 1..1)
        <3>1. place \in [{r} -> 1..1] /\ \A a, b \in {r} : place[a] = place[b] => a = b
            OBVIOUS
        <3> HIDE DEF place
        <3>. QED
            BY <3>1, Fun_IsInj
    <2>2. \A q \in {r} : age[q] = 0
        BY <1>1 DEF NotYetStarted
    <2>3. age' = [q \in Requests |-> IF q \in {r} THEN Window ELSE age[q]]
        BY <1>1 DEF LimiterTypeOK
    <2> HIDE DEF place
    <2>4. 1 \in Nat /\ {r} \in SUBSET Requests /\ StartsAreStamped /\ LimiterTypeOK
        OBVIOUS
    <2>. QED
        BY ONLY <1>1, <1>2, <2>1, <2>2, <2>3, <2>4, StartsGetStamps
<1>. QED
    BY <1>4, <1>5, <1>6, <1>7, <1>8

LEMMA EnqueueKeeps ==
  ASSUME LimiterInv, NEW r \in Requests, NEW p \in Priorities, Enqueue(r, p)
  PROVE  LimiterInv'
<1> USE DEF LimiterInv
<1>1. /\ status[r] = "new" /\ ~CanRun(p, Load) /\ draining' = TRUE
      /\ wakeIn' = IF draining THEN wakeIn ELSE UntilSlot(timestamps)
      /\ status' = [status EXCEPT ![r] = "queued"]
      /\ prio' = [prio EXCEPT ![r] = p] /\ ticket' = [ticket EXCEPT ![r] = Cardinality(Submitted)]
      /\ UNCHANGED <<timestamps, age>>
    BY DEF Enqueue
<1>2. QueueInOrder' /\ queue' \in Seq(Requests)
    BY EnqueueKeepsOrder
<1>3. TicketsAreGiven' /\ ticket' \in [Requests -> Nat]
    BY <1>1, ComingTakesATicket
<1>4. wakeIn' \in 0..(Window + MinWait + Slack)
    <2>1. timestamps \in Seq(Lifetimes) /\ Load \in Nat /\ Limit(p) \in 1..MaxRpm
        BY Ranks, LimiterTypes DEF LimiterTypeOK
    <2>2. Load > 0
        BY <1>1, <2>1 DEF CanRun
    <2>3. timestamps # <<>>
        BY <2>1, <2>2, EmptySeq DEF Load
    <2>4. UntilSlot(timestamps) \in 0..(Window + MinWait + Slack)
        BY <2>1, <2>3, SleepIsBounded
    <2>. QED
        BY <1>1, <2>4 DEF LimiterTypeOK
<1>5. LimiterTypeOK'
    BY <1>1, <1>2, <1>3, <1>4 DEF LimiterTypeOK, Load
<1>6. NotYetStarted'
    BY <1>1 DEF NotYetStarted, LimiterTypeOK
<1>7. StartsAreStamped'
    BY <1>1 DEF StartsAreStamped, InWindow, Load
<1>. QED
    BY <1>2, <1>3, <1>5, <1>6, <1>7

LEMMA DrainKeeps ==
  ASSUME LimiterInv, Drain
  PROVE  LimiterInv'
<1> USE DEF LimiterInv
<1> DEFINE n == Runnable
           started == {queue[i] : i \in 1..n}
<1>1. /\ timestamps' = Recorded(n)
      /\ status' = [r \in Requests |-> IF r \in started THEN "running" ELSE status[r]]
      /\ age' = [r \in Requests |-> IF r \in started THEN Window ELSE age[r]]
      /\ draining' = (n < Len(queue))
      /\ wakeIn' = IF n < Len(queue) THEN UntilSlot(timestamps') ELSE 0
      /\ UNCHANGED <<prio, ticket>>
    BY DEF Drain, StaysAwake
<1>2. /\ n \in 0..Len(queue) /\ Load + n <= MaxRpm /\ (n < Len(queue) => Load + n > 0)
      /\ Len(queue) \in Nat /\ \A i \in 1..Len(queue) : queue[i] \in Requests
    BY RunnableIsAPrefix, LimiterTypes
<1> HIDE DEF n
<1>3. \A r \in started : r \in Requests /\ status[r] = "queued"
    <2>1. \A i \in 1..n : i \in 1..Len(queue)
        BY <1>2
    <2>. QED
        BY <2>1 DEF QueueInOrder, InQueue
<1>4. QueueInOrder' /\ queue' \in Seq(Requests)
    BY DrainKeepsOrder
<1>5. /\ timestamps' \in Seq(Lifetimes) /\ Load' = Load + n /\ Load' <= MaxRpm
      /\ OldestFirst(timestamps')
    BY <1>1, <1>2, RecordedTypes
<1>6. wakeIn' \in 0..(Window + MinWait + Slack)
    <2>1. CASE n < Len(queue)
        <3>1. timestamps' # <<>>
            BY <1>2, <1>5, <2>1, EmptySeq DEF Load
        <3>2. UntilSlot(timestamps') \in 0..(Window + MinWait + Slack)
            BY <1>5, <3>1, SleepIsBounded
        <3>. QED
            BY <1>1, <2>1, <3>2
    <2>2. CASE ~(n < Len(queue))
        BY <1>1, <2>2, LimiterAssumption
    <2>. QED
        BY <2>1, <2>2
<1>7. LimiterTypeOK'
    <2>1. status' \in [Requests -> {"new", "queued", "running", "done", "limited"}]
        BY <1>1 DEF LimiterTypeOK
    <2>2. age' \in [Requests -> 0..Window]
        BY <1>1, LimiterAssumption DEF LimiterTypeOK
    <2>3. draining' \in BOOLEAN
        BY <1>1
    <2>. QED
        BY <1>1, <1>4, <1>5, <1>6, <2>1, <2>2, <2>3 DEF LimiterTypeOK
<1>8. TicketsAreGiven'
    <2>1. Submitted' = Submitted
        BY <1>1, <1>3 DEF Submitted
    <2>. QED
        BY <1>1, <2>1 DEF TicketsAreGiven
<1>9. NotYetStarted'
    BY <1>1 DEF NotYetStarted
<1>10. StartsAreStamped'
    <2> DEFINE place == [r \in started |-> CHOOSE i \in 1..n : queue[i] = r]
    <2>1. \A r \in started : place[r] \in 1..n /\ queue[place[r]] = r
        OBVIOUS
    <2>2. place \in [started -> 1..n] /\ \A a, b \in started : place[a] = place[b] => a = b
        BY <2>1
    <2>3. place \in Injection(started, 1..n)
        <3> HIDE DEF place, started
        <3>. QED
            BY <2>2, Fun_IsInj
    <2>4. started \in SUBSET Requests /\ n \in Nat /\ \A r \in started : age[r] = 0
        BY <1>2, <1>3 DEF NotYetStarted
    <2> HIDE DEF place, started
    <2>. QED
        BY <1>1, <1>2, <2>3, <2>4, StartsGetStamps
<1>. QED
    BY <1>4, <1>7, <1>8, <1>9, <1>10

(* The other steps leave the queue to itself.                              *)
LEMMA SettlingKeeps ==
  ASSUME LimiterInv, NEW r \in Requests, Finish(r) \/ TooManyRequests(r)
  PROVE  LimiterInv'
<1> USE DEF LimiterInv
<1>1. PICK ending \in {"done", "limited"} :
        status[r] = "running" /\ status' = [status EXCEPT ![r] = ending]
    BY DEF Finish, TooManyRequests
<1>2. UNCHANGED <<queue, draining, wakeIn, prio, ticket, age>>
    BY DEF Finish, TooManyRequests
<1>3. \A q \in Requests : /\ status'[q] \in {"new", "queued"} <=> status[q] \in {"new", "queued"}
                          /\ status'[q] = "queued" <=> status[q] = "queued"
                          /\ status'[q] = "new" <=> status[q] = "new"
    BY <1>1 DEF LimiterTypeOK
<1>4. status' \in [Requests -> {"new", "queued", "running", "done", "limited"}]
    BY <1>1 DEF LimiterTypeOK
<1>5. QueueInOrder'
    BY <1>2, <1>3, QueueUntouched
<1>6. TicketsAreGiven' /\ NotYetStarted'
    BY <1>2, <1>3 DEF TicketsAreGiven, NotYetStarted, Submitted
<1>7. CASE UNCHANGED timestamps
    BY <1>2, <1>4, <1>5, <1>6, <1>7 DEF LimiterTypeOK, StartsAreStamped, InWindow, Load
<1>8. CASE TooManyRequests(r) /\ Load < MaxRpm
    <2>1. PICK order \in Bijection(1..MaxRpm, 1..MaxRpm) :
            /\ timestamps' = [i \in 1..MaxRpm |-> Filled[order[i]]]
            /\ OldestFirst(timestamps')
        <3>1. Load \in Nat /\ MaxRpm \in Nat
            BY LimiterTypes, LimiterAssumption
        <3>. QED
            BY <1>8, <3>1 DEF TooManyRequests
    <2>2. timestamps' \in Seq(Lifetimes) /\ Load' = MaxRpm /\ StartsAreStamped'
        BY <1>2, <1>8, <2>1, BackingOffKeepsStamps
    <2>3. LimiterTypeOK'
        BY <1>2, <1>4, <2>1, <2>2, LimiterAssumption DEF LimiterTypeOK
    <2>. QED
        BY <1>5, <1>6, <2>2, <2>3
<1>. QED
    BY <1>7, <1>8 DEF Finish, TooManyRequests

LEMMA TickKeeps ==
  ASSUME LimiterInv, LimiterTick
  PROVE  LimiterInv'
<1> USE DEF LimiterInv
<1>1. /\ wakeIn' = IF wakeIn = 0 THEN 0 ELSE wakeIn - 1
      /\ age' = [r \in Requests |-> IF age[r] = 0 THEN 0 ELSE age[r] - 1]
      /\ UNCHANGED <<queue, draining, status, prio, ticket>>
    BY DEF LimiterTick
<1>2. /\ timestamps' \in Seq(Lifetimes) /\ OldestFirst(timestamps') /\ Load' <= MaxRpm
    <2>1. /\ Expired \in 0..Load /\ Load' = Load - Expired /\ Load \in Nat /\ Load <= MaxRpm
          /\ timestamps' \in Seq(Lifetimes) /\ OldestFirst(timestamps')
        BY TickTypes, LimiterTypes DEF LimiterTypeOK
    <2>. QED
        BY <2>1, LimiterAssumption
<1>3. LimiterTypeOK'
    <2>1. wakeIn' \in 0..(Window + MinWait + Slack)
        BY <1>1, LimiterAssumption DEF LimiterTypeOK
    <2>2. age' \in [Requests -> 0..Window]
        BY <1>1, LimiterAssumption DEF LimiterTypeOK
    <2>. QED
        BY <1>1, <1>2, <2>1, <2>2 DEF LimiterTypeOK
<1>4. QueueInOrder'
    BY <1>1, QueueUntouched
<1>5. TicketsAreGiven' /\ NotYetStarted'
    BY <1>1 DEF TicketsAreGiven, NotYetStarted, Submitted
<1>. QED
    BY <1>3, <1>4, <1>5, TickKeepsStamps

LEMMA LimiterInvariant == LimiterSpec => []LimiterInv
<1>1. LimiterInit => LimiterInv
    <2> SUFFICES ASSUME LimiterInit PROVE LimiterInv
        OBVIOUS
    <2> USE DEF LimiterInit
    <2>1. timestamps \in Seq(Lifetimes) /\ Load = 0 /\ OldestFirst(timestamps) /\ queue \in Seq(Requests)
        BY EmptySeq DEF Load, OldestFirst
    <2>2. LimiterTypeOK
        <3>1. MaxRpm \in Nat /\ 0 \in 0..(Window + MinWait + Slack) /\ 0 \in 0..Window
            BY LimiterAssumption
        <3>2. /\ status \in [Requests -> {"new", "queued", "running", "done", "limited"}]
              /\ prio \in [Requests -> Priorities] /\ ticket \in [Requests -> Nat]
              /\ age \in [Requests -> 0..Window]
            BY <3>1 DEF Priorities
        <3>3. wakeIn \in 0..(Window + MinWait + Slack)
            BY <3>1
        <3>4. Load <= MaxRpm
            BY <2>1, <3>1
        <3>5. draining \in BOOLEAN
            OBVIOUS
        <3>. QED
            BY ONLY <2>1, <3>2, <3>3, <3>4, <3>5 DEF LimiterTypeOK
    <2>3. QueueInOrder
        <3>1. Len(queue) = 0
            BY EmptySeq
        <3>. QED
            BY <3>1 DEF QueueInOrder, InQueue
    <2>4. TicketsAreGiven
        <3>1. Submitted = {}
            BY DEF Submitted
        <3>. QED
            BY <3>1, FS_EmptySet DEF TicketsAreGiven
    <2>5. NotYetStarted
        BY DEF NotYetStarted
    <2>6. StartsAreStamped
        <3>1. InWindow = {}
            BY DEF InWindow
        <3> DEFINE nothing == [r \in {} |-> 1]
        <3>2. nothing \in [{} -> 1..Load] /\ \A a, b \in {} : nothing[a] = nothing[b] => a = b
            OBVIOUS
        <3> HIDE DEF nothing
        <3>3. nothing \in Injection({}, 1..Load)
            BY <3>2, Fun_IsInj
        <3>. QED
            BY <3>1, <3>3 DEF StartsAreStamped
    <2>. QED
        BY <2>2, <2>3, <2>4, <2>5, <2>6 DEF LimiterInv
<1>2. LimiterInv /\ [LimiterNext]_limiterVars => LimiterInv'
    <2> SUFFICES ASSUME LimiterInv, [LimiterNext]_limiterVars PROVE LimiterInv'
        OBVIOUS
    <2>1. ASSUME NEW r \in Requests, NEW p \in Priorities, RunNow(r, p) PROVE LimiterInv'
        BY <2>1, RunNowKeeps
    <2>2. ASSUME NEW r \in Requests, NEW p \in Priorities, Enqueue(r, p) PROVE LimiterInv'
        BY <2>2, EnqueueKeeps
    <2>3. ASSUME NEW r \in Requests, Finish(r) \/ TooManyRequests(r) PROVE LimiterInv'
        BY <2>3, SettlingKeeps
    <2>4. CASE Drain
        BY <2>4, DrainKeeps
    <2>5. CASE LimiterTick
        BY <2>5, TickKeeps
    <2>6. CASE UNCHANGED limiterVars
        <3>1. UNCHANGED <<timestamps, queue, draining, wakeIn, status, prio, ticket, age>>
            BY <2>6 DEF limiterVars
        <3>2. LimiterTypeOK' /\ NotYetStarted'
            BY <3>1 DEF LimiterInv, LimiterTypeOK, NotYetStarted, Load
        <3>3. QueueInOrder'
            BY <3>1 DEF LimiterInv, QueueInOrder, InQueue
        <3>4. TicketsAreGiven' /\ StartsAreStamped'
            BY <3>1 DEF LimiterInv, TicketsAreGiven, Submitted, StartsAreStamped, InWindow, Load
        <3>. QED
            BY <3>2, <3>3, <3>4 DEF LimiterInv
    <2>. QED
        BY <2>1, <2>2, <2>3, <2>4, <2>5, <2>6 DEF LimiterNext
<1>. QED
    BY <1>1, <1>2, PTL DEF LimiterSpec

(* What is counted from the starts is bounded by what the limiter counts.  *)
LEMMA LimitIsKept == LimiterInv => LimitHolds
<1> SUFFICES ASSUME LimiterInv PROVE NeverOverLimit
    BY DEF LimiterInv, LimitHolds
<1>1. PICK stamp \in Injection(InWindow, 1..Load) : \A r \in InWindow : timestamps[stamp[r]] = age[r]
    BY DEF LimiterInv, StartsAreStamped
<1>2. Load \in Nat /\ Load <= MaxRpm /\ MaxRpm \in Nat
    BY LimiterTypes, LimiterAssumption DEF LimiterInv, LimiterTypeOK
<1>3. IsFiniteSet(1..Load) /\ Cardinality(1..Load) = Load
    BY <1>2, FS_Interval
<1>4. IsFiniteSet(InWindow) /\ Cardinality(InWindow) <= Cardinality(1..Load)
    BY <1>3, FS_Injection
<1>5. Cardinality(InWindow) \in Nat
    BY <1>4, FS_CardinalityType
<1>. QED
    BY <1>2, <1>3, <1>4, <1>5 DEF NeverOverLimit, InWindow

(* However starts at once, starts of the drain loop and 429s interleave:   *)
(* the types of schedule, drain and backoff429 are kept.                   *)
THEOREM LimiterTypeCorrect == LimiterSpec => []LimiterTypeOK
<1>1. LimiterInv => LimiterTypeOK
    BY DEF LimiterInv
<1>. QED
    BY LimiterInvariant, <1>1, PTL

(* No window of WINDOW_MS holds the starts of more than maxRpm requests,   *)
(* and who waits is queued once, in order of priority and arrival, with a  *)
(* drain loop that will look (schedule, drain, insertSorted, backoff429).  *)
THEOREM LimitStaysKept == LimiterSpec => []LimitHolds
BY LimiterInvariant, LimitIsKept, PTL

(* Induction, of a set of numbers.                                         *)
LEMMA FromZeroOn ==
  ASSUME NEW S \in SUBSET Nat, 0 \in S, \A n \in S : n + 1 \in S
  PROVE  S = Nat
<1> DEFINE T == Nat \ S
<1>1. ASSUME T # {} PROVE FALSE
    <2>1. PICK x \in T : \A y \in T : ~(<<y, x>> \in OpToRel(<, Nat))
        <3>1. T \subseteq Nat
            OBVIOUS
        <3> HIDE DEF T
        <3>. QED
            BY <1>1, <3>1, NatLessThanWellFounded, WFMin
    <2>2. x \in Nat /\ x # 0 /\ x \notin S
        OBVIOUS
    <2>3. x - 1 \in Nat /\ x - 1 < x /\ (x - 1) + 1 = x
        BY <2>2
    <2>4. x - 1 \in S
        <3>1. <<x - 1, x>> \in OpToRel(<, Nat)
            BY <2>2, <2>3 DEF OpToRel
        <3>. QED
            BY <2>1, <2>3, <3>1
    <2>. QED
        BY <2>2, <2>3, <2>4
<1>. QED
    BY <1>1

(***************************************************************************)
(* The splitter of tags.                                                   *)
(***************************************************************************)

(* What goes on with a rest that is smaller each time comes to an end, and *)
(* there is a function that says to which.                                 *)
Descends(D, V, size, rest, halts, end) ==
  /\ size \in [D -> Nat] /\ rest \in [D -> D] /\ halts \in [D -> BOOLEAN] /\ end \in [D -> V]
  /\ \A t \in D : ~halts[t] => size[rest[t]] < size[t]

LEMMA LoopsEnd ==
  ASSUME NEW D, NEW V, NEW size, NEW rest, NEW halts, NEW end, Descends(D, V, size, rest, halts, end)
  PROVE  \E f : f \in [D -> V] /\ \A t \in D : f[t] = IF halts[t] THEN end[t] ELSE f[rest[t]]
<1> size \in [D -> Nat] /\ rest \in [D -> D] /\ halts \in [D -> BOOLEAN] /\ end \in [D -> V]
    BY DEF Descends
<1> DEFINE ends == {t \in D : halts[t]}
<1>00. \A t \in D : t \notin ends => size[rest[t]] < size[t]
    BY DEF Descends
<1>01. \A t \in D : t \in ends <=> halts[t]
    OBVIOUS
<1> HIDE DEF ends
<1> DEFINE Upto(k) == {t \in D : size[t] <= k}
           Fits(g, k) == /\ g \in [Upto(k) -> V]
                         /\ \A t \in Upto(k) : g[t] = IF t \in ends THEN end[t] ELSE g[rest[t]]
           S == {k \in Nat : \E g : Fits(g, k)}
<1>0. /\ \A t \in D : size[t] \in Nat /\ rest[t] \in D /\ end[t] \in V
      /\ \A k \in Nat : \A t \in Upto(k) : t \in ends \/ rest[t] \in Upto(k)
      /\ \A k \in Nat : \A t \in Upto(k + 1) : t \in ends \/ rest[t] \in Upto(k)
      /\ \A t \in D : size[t] = 0 => t \in ends
    <2>1. \A t \in D : size[t] \in Nat /\ rest[t] \in D /\ end[t] \in V
        OBVIOUS
    <2>2. ASSUME NEW k \in Nat, NEW t \in D, t \notin ends, size[t] <= k + 1
          PROVE  size[rest[t]] <= k
        BY <1>00, <2>1, <2>2
    <2>3. ASSUME NEW k \in Nat, NEW t \in D, t \notin ends, size[t] <= k
          PROVE  size[rest[t]] <= k
        BY <1>00, <2>1, <2>3
    <2>4. ASSUME NEW t \in D, size[t] = 0 PROVE t \in ends
        BY <1>00, <2>1, <2>4
    <2>. QED
        BY <2>1, <2>2, <2>3, <2>4
<1>1. S = Nat
    <2>1. 0 \in S
        <3> DEFINE g == [t \in Upto(0) |-> end[t]]
        <3>1. \A t \in Upto(0) : t \in ends
            BY <1>0
        <3>2. Fits(g, 0)
            BY <1>0, <3>1
        <3> HIDE DEF g, Fits
        <3>. QED
            BY <3>2
    <2>2. ASSUME NEW k \in S PROVE k + 1 \in S
        <3>1. PICK g : Fits(g, k)
            OBVIOUS
        <3> DEFINE h == [t \in Upto(k + 1) |-> IF t \in ends THEN end[t] ELSE g[rest[t]]]
        <3>2. \A t \in Upto(k + 1) : h[t] \in V
            BY <1>0, <3>1
        <3>3. \A t \in Upto(k) : t \in Upto(k + 1) /\ h[t] = g[t]
            <4>1. \A t \in Upto(k) : t \in Upto(k + 1)
                BY <1>0
            <4>. QED
                BY <3>1, <4>1
        <3>4. \A t \in Upto(k + 1) : h[t] = IF t \in ends THEN end[t] ELSE h[rest[t]]
            BY <1>0, <3>3
        <3>5. h \in [Upto(k + 1) -> V]
            BY <3>2
        <3> HIDE DEF h
        <3>6. Fits(h, k + 1)
            BY <3>4, <3>5
        <3> HIDE DEF Fits
        <3>. QED
            BY <3>6
    <2>3. S \in SUBSET Nat
        OBVIOUS
    <2> HIDE DEF S
    <2>. QED
        BY <2>1, <2>2, <2>3, FromZeroOn
<1>2. ASSUME NEW j \in Nat, NEW k \in Nat, NEW g, NEW h, Fits(g, j), Fits(h, k)
      PROVE  \A t \in Upto(j) \intersect Upto(k) : g[t] = h[t]
    <2> DEFINE A == {n \in Nat : \A t \in Upto(j) \intersect Upto(k) : size[t] <= n => g[t] = h[t]}
    <2>1. 0 \in A
        <3>1. ASSUME NEW t \in Upto(j) \intersect Upto(k), size[t] <= 0 PROVE g[t] = h[t]
            <4>1. t \in ends
                BY <1>0, <3>1
            <4>. QED
                BY <1>2, <4>1
        <3>. QED
            BY <3>1
    <2>2. ASSUME NEW n \in A PROVE n + 1 \in A
        <3>1. ASSUME NEW t \in Upto(j) \intersect Upto(k), size[t] <= n + 1 PROVE g[t] = h[t]
            <4>1. CASE t \in ends
                BY <1>2, <4>1
            <4>2. CASE t \notin ends
                <5>1. rest[t] \in Upto(j) \intersect Upto(k) /\ size[rest[t]] <= n
                    BY <1>0, <3>1, <4>2
                <5>. QED
                    BY <1>2, <4>2, <5>1
            <4>. QED
                BY <4>1, <4>2
        <3>. QED
            BY <3>1
    <2>3. A = Nat
        <3>1. A \in SUBSET Nat
            OBVIOUS
        <3> HIDE DEF A
        <3>. QED
            BY <2>1, <2>2, <3>1, FromZeroOn
    <2>4. ASSUME NEW t \in Upto(j) \intersect Upto(k) PROVE g[t] = h[t]
        <3>1. j \in A /\ size[t] <= j
            BY <2>3
        <3>. QED
            BY <3>1
    <2>. QED
        BY <2>4
<1> DEFINE G(k) == CHOOSE g : Fits(g, k)
           f == [t \in D |-> G(size[t])[t]]
<1>3. \A k \in Nat : Fits(G(k), k)
    <2>1. \A k \in Nat : \E g : Fits(g, k)
        BY <1>1
    <2> HIDE DEF Fits
    <2>. QED
        BY <2>1
<1>4. \A t \in D : t \in Upto(size[t]) /\ size[t] \in Nat
    BY <1>0
<1> HIDE DEF G, Fits
<1>5. f \in [D -> V]
    <2>1. \A t \in D : G(size[t])[t] \in V
        BY <1>3, <1>4 DEF Fits
    <2>. QED
        BY <2>1
<1>6. ASSUME NEW t \in D PROVE f[t] = IF t \in ends THEN end[t] ELSE f[rest[t]]
    <2>1. f[t] = G(size[t])[t] /\ Fits(G(size[t]), size[t]) /\ t \in Upto(size[t])
        BY <1>3, <1>4
    <2>2. CASE t \in ends
        BY <2>1, <2>2 DEF Fits
    <2>3. CASE t \notin ends
        <3>1. rest[t] \in D /\ rest[t] \in Upto(size[t]) /\ rest[t] \in Upto(size[rest[t]])
            BY <1>0, <1>4, <2>1, <2>3
        <3>2. G(size[t])[rest[t]] = G(size[rest[t]])[rest[t]]
            BY <1>2, <1>3, <1>4, <3>1
        <3>3. f[rest[t]] = G(size[rest[t]])[rest[t]]
            BY <3>1
        <3>. QED
            BY <2>1, <2>3, <3>2, <3>3 DEF Fits
    <2>. QED
        BY <2>2, <2>3
<1>. QED
    BY <1>01, <1>5, <1>6

LEMMA Adjoined ==
  ASSUME NEW S, NEW s \in Seq(S), NEW t \in Seq(S)
  PROVE  /\ s \o t \in Seq(S) /\ Len(s \o t) = Len(s) + Len(t) /\ Len(s) \in Nat /\ Len(t) \in Nat
         /\ \A i \in 1..Len(s) : (s \o t)[i] = s[i]
         /\ \A i \in 1..Len(t) : (s \o t)[Len(s) + i] = t[i]
<1>1. Len(s) \in Nat /\ Len(t) \in Nat
    BY LenProperties
<1>2. /\ s \o t \in Seq(S) /\ Len(s \o t) = Len(s) + Len(t)
      /\ \A i \in 1 .. Len(s) + Len(t) : (s \o t)[i] = IF i <= Len(s) THEN s[i] ELSE t[i - Len(s)]
    BY ConcatProperties
<1>3. ASSUME NEW i \in 1..Len(s) PROVE (s \o t)[i] = s[i]
    <2>1. i \in 1 .. Len(s) + Len(t) /\ i <= Len(s)
        BY <1>1
    <2>. QED
        BY <1>2, <2>1
<1>4. ASSUME NEW i \in 1..Len(t) PROVE (s \o t)[Len(s) + i] = t[i]
    <2>1. Len(s) + i \in 1 .. Len(s) + Len(t) /\ ~(Len(s) + i <= Len(s)) /\ Len(s) + i - Len(s) = i
        BY <1>1
    <2>. QED
        BY <1>2, <2>1
<1>. QED
    BY <1>1, <1>2, <1>3, <1>4

(* A part of a text.                                                       *)
LEMMA Part ==
  ASSUME NEW S, NEW s \in Seq(S), NEW a \in Nat \ {0}, NEW b \in Nat, a <= b + 1, b <= Len(s)
  PROVE  /\ SubSeq(s, a, b) \in Seq(S) /\ Len(SubSeq(s, a, b)) = b - a + 1
         /\ \A i \in 1 .. b - a + 1 : SubSeq(s, a, b)[i] = s[a - 1 + i]
<1>1. Len(s) \in Nat /\ a \in Int /\ b \in Int
    BY LenProperties
<1>2. \A i \in a..b : s[i] \in S
    <2>1. \A i \in a..b : i \in 1..Len(s)
        BY <1>1
    <2>. QED
        BY <2>1, ElementOfSeq
<1>3. /\ SubSeq(s, a, b) \in Seq(S)
      /\ Len(SubSeq(s, a, b)) = IF a <= b THEN b - a + 1 ELSE 0
      /\ \A i \in 1 .. b - a + 1 : SubSeq(s, a, b)[i] = s[a + i - 1]
    BY <1>1, <1>2, SubSeqProperties
<1>4. Len(SubSeq(s, a, b)) = b - a + 1
    BY <1>3
<1>5. \A i \in 1 .. b - a + 1 : a + i - 1 = a - 1 + i
    OBVIOUS
<1>. QED
    BY <1>3, <1>4, <1>5

LEMMA Uncut ==
  ASSUME NEW S, NEW s \in Seq(S), NEW t \in Seq(S)
  PROVE  SubSeq(s \o t, 1, Len(s)) = s /\ From(s \o t, Len(s) + 1) = t
<1> DEFINE st == s \o t
<1>1. /\ st \in Seq(S) /\ Len(st) = Len(s) + Len(t) /\ Len(s) \in Nat /\ Len(t) \in Nat
      /\ \A i \in 1..Len(s) : st[i] = s[i]
      /\ \A i \in 1..Len(t) : st[Len(s) + i] = t[i]
    BY Adjoined
<1> HIDE DEF st
<1>2. SubSeq(st, 1, Len(s)) = s
    <2>1. 1 \in Nat \ {0} /\ 1 <= Len(s) + 1 /\ Len(s) <= Len(st) /\ Len(s) - 1 + 1 = Len(s)
        BY <1>1
    <2>2. /\ SubSeq(st, 1, Len(s)) \in Seq(S) /\ Len(SubSeq(st, 1, Len(s))) = Len(s)
          /\ \A i \in 1 .. Len(s) - 1 + 1 : SubSeq(st, 1, Len(s))[i] = st[1 - 1 + i]
        BY <1>1, <2>1, Part
    <2>3. \A i \in 1..Len(s) : SubSeq(st, 1, Len(s))[i] = s[i]
        <3>1. \A i \in 1..Len(s) : 1 - 1 + i = i
            OBVIOUS
        <3>. QED
            BY <1>1, <2>1, <2>2, <3>1
    <2>. QED
        BY <2>2, <2>3, SeqEqual
<1>3. SubSeq(st, Len(s) + 1, Len(st)) = t
    <2>1. Len(s) + 1 \in Nat \ {0} /\ Len(s) + 1 <= Len(st) + 1 /\ Len(st) \in Nat /\ Len(st) - (Len(s) + 1) + 1 = Len(t)
          /\ Len(st) <= Len(st)
        BY <1>1
    <2>2. /\ SubSeq(st, Len(s) + 1, Len(st)) \in Seq(S) /\ Len(SubSeq(st, Len(s) + 1, Len(st))) = Len(t)
          /\ \A i \in 1 .. Len(t) : SubSeq(st, Len(s) + 1, Len(st))[i] = st[Len(s) + 1 - 1 + i]
        BY <1>1, <2>1, Part
    <2>3. \A i \in 1..Len(t) : SubSeq(st, Len(s) + 1, Len(st))[i] = t[i]
        <3>1. Len(s) + 1 - 1 = Len(s)
            BY <1>1
        <3>. QED
            BY <1>1, <2>2, <3>1
    <2>. QED
        BY <2>2, <2>3, SeqEqual
<1>. QED
    BY <1>2, <1>3 DEF From, st

LEMMA UncutTwo ==
  ASSUME NEW S, NEW s \in Seq(S), NEW t \in Seq(S), NEW u \in Seq(S)
  PROVE  SubSeq(s \o (t \o u), 1, Len(s \o t)) = s \o t /\ From(s \o (t \o u), Len(s \o t) + 1) = u
<1>1. s \o t \in Seq(S)
    BY Adjoined
<1>2. (s \o t) \o u = s \o (t \o u)
    BY ConcatAssociative
<1>3. \A v \in Seq(S) : SubSeq(v \o u, 1, Len(v)) = v /\ From(v \o u, Len(v) + 1) = u
    BY Uncut
<1>. QED
    BY <1>1, <1>2, <1>3

(* A text is what stands before a place and what stands from there on.     *)
LEMMA CutAt ==
  ASSUME NEW S, NEW s \in Seq(S), NEW n \in 0..Len(s)
  PROVE  /\ s = SubSeq(s, 1, n) \o From(s, n + 1)
         /\ SubSeq(s, 1, n) \in Seq(S) /\ From(s, n + 1) \in Seq(S)
         /\ Len(SubSeq(s, 1, n)) = n /\ Len(From(s, n + 1)) = Len(s) - n
<1>1. /\ Len(s) \in Nat /\ n \in Nat /\ n <= Len(s) /\ 1 <= n + 1 /\ n + 1 \in Nat \ {0} /\ 1 \in Nat \ {0}
      /\ n + 1 <= Len(s) + 1 /\ Len(s) <= Len(s)
    BY LenProperties
<1> DEFINE a == SubSeq(s, 1, n)
           b == SubSeq(s, n + 1, Len(s))
<1>2. a \in Seq(S) /\ Len(a) = n - 1 + 1 /\ \A i \in 1 .. n - 1 + 1 : a[i] = s[1 - 1 + i]
    BY <1>1, Part
<1>3. b \in Seq(S) /\ Len(b) = Len(s) - (n + 1) + 1
      /\ \A i \in 1 .. Len(s) - (n + 1) + 1 : b[i] = s[n + 1 - 1 + i]
    BY <1>1, Part
<1> HIDE DEF a, b
<1>4. n - 1 + 1 = n /\ Len(s) - (n + 1) + 1 = Len(s) - n /\ n + 1 - 1 = n
    BY <1>1
<1>5. Len(a) = n /\ Len(b) = Len(s) - n
    BY <1>2, <1>3, <1>4
<1>6. /\ a \o b \in Seq(S) /\ Len(a \o b) = Len(s)
      /\ \A i \in 1..Len(a) : (a \o b)[i] = a[i]
      /\ \A i \in 1..Len(b) : (a \o b)[Len(a) + i] = b[i]
    <2>1. /\ a \o b \in Seq(S) /\ Len(a \o b) = Len(a) + Len(b)
          /\ \A i \in 1..Len(a) : (a \o b)[i] = a[i]
          /\ \A i \in 1..Len(b) : (a \o b)[Len(a) + i] = b[i]
        BY <1>2, <1>3, Adjoined
    <2>2. Len(a) + Len(b) = Len(s)
        BY <1>1, <1>5
    <2>. QED
        BY <2>1, <2>2
<1>7. ASSUME NEW i \in 1..Len(s) PROVE (a \o b)[i] = s[i]
    <2>1. CASE i \in 1..n
        <3>1. 1 - 1 + i = i
            OBVIOUS
        <3>. QED
            BY <1>2, <1>4, <1>5, <1>6, <2>1, <3>1
    <2>2. CASE i \notin 1..n
        <3>1. i - n \in 1..Len(s) - n /\ n + (i - n) = i
            BY <1>1, <2>2
        <3>2. (a \o b)[i] = b[i - n]
            BY <1>5, <1>6, <3>1
        <3>. QED
            BY <1>3, <1>4, <3>1, <3>2
    <2>. QED
        BY <2>1, <2>2
<1>8. a \o b = s
    BY <1>6, <1>7, SeqEqual
<1>. QED
    BY <1>2, <1>3, <1>5, <1>8 DEF a, b, From

LEMMA FoundIff ==
  ASSUME NEW S, NEW tag \in Seq(S), NEW text \in Seq(S), tag # <<>>, NEW i
  PROVE  i \in Found(tag, text) <=> /\ i \in Nat \ {0} /\ i - 1 + Len(tag) <= Len(text)
                                   /\ \A k \in 1..Len(tag) : text[i - 1 + k] = tag[k]
<1>1. Len(tag) \in Nat /\ Len(tag) # 0 /\ Len(text) \in Nat
    BY LenProperties, EmptySeq
<1>2. i \in 1 .. (Len(text) - Len(tag) + 1) <=> i \in Nat \ {0} /\ i - 1 + Len(tag) <= Len(text)
    BY <1>1
<1>3. ASSUME i \in Nat \ {0}, i - 1 + Len(tag) <= Len(text)
      PROVE  Occurs(tag, text, i) <=> \A k \in 1..Len(tag) : text[i - 1 + k] = tag[k]
    <2>1. PICK b : b = i + Len(tag) - 1 /\ b \in Nat /\ b <= Len(text) /\ i <= b + 1 /\ b - i + 1 = Len(tag)
        BY <1>1, <1>3
    <2> DEFINE part == SubSeq(text, i, b)
    <2>2. /\ part \in Seq(S) /\ Len(part) = Len(tag)
          /\ \A k \in 1..Len(tag) : part[k] = text[i - 1 + k]
        <3>1. /\ part \in Seq(S) /\ Len(part) = b - i + 1
              /\ \A k \in 1 .. b - i + 1 : part[k] = text[i - 1 + k]
            BY <1>3, <2>1, Part
        <3> HIDE DEF part
        <3>. QED
            BY <2>1, <3>1
    <2> HIDE DEF part
    <2>3. part = tag <=> \A k \in 1..Len(tag) : part[k] = tag[k]
        BY <2>2, SeqEqual
    <2>. QED
        BY <2>1, <2>2, <2>3 DEF Occurs, part
<1>. QED
    BY <1>2, <1>3 DEF Found

LEMMA FirstFound ==
  ASSUME NEW S, NEW tag \in Seq(S), NEW text \in Seq(S), tag # <<>>
  PROVE  /\ Found(tag, text) = {} => IndexOf(tag, text) = 0
         /\ Found(tag, text) # {} => /\ IndexOf(tag, text) \in Found(tag, text)
                                     /\ \A i \in Found(tag, text) : IndexOf(tag, text) <= i
         /\ IndexOf(tag, text) = 0 => Found(tag, text) = {}
<1> DEFINE F == Found(tag, text)
<1>1. F \subseteq Nat \ {0}
    BY FoundIff
<1>2. ASSUME F # {} PROVE \E i \in F : \A j \in F : i <= j
    <2> HIDE DEF F
    <2>1. PICK i \in F : \A j \in F : ~(<<j, i>> \in OpToRel(<, Nat))
        BY <1>1, <1>2, NatLessThanWellFounded, WFMin
    <2>2. \A j \in F : j \in Nat /\ i \in Nat
        BY <1>1
    <2>3. \A j \in F : ~(j < i)
        BY <2>1, <2>2 DEF OpToRel
    <2>. QED
        BY <2>2, <2>3
<1> HIDE DEF F
<1>3. IndexOf(tag, text) = IF F = {} THEN 0 ELSE CHOOSE i \in F : \A j \in F : i <= j
    BY DEF IndexOf, F
<1>. QED
    BY <1>1, <1>2, <1>3 DEF F

LEMMA IndexIs ==
  ASSUME NEW S, NEW tag \in Seq(S), NEW text \in Seq(S), tag # <<>>,
         NEW i \in Found(tag, text), \A j \in Found(tag, text) : i <= j
  PROVE  IndexOf(tag, text) = i
<1>1. Found(tag, text) \subseteq Nat
    BY FoundIff
<1>2. IndexOf(tag, text) \in Found(tag, text) /\ IndexOf(tag, text) <= i
    BY FirstFound
<1>. QED
    BY <1>1, <1>2

(* A place of a tag is one of the same letters elsewhere, and moves with   *)
(* what is put before them.                                                *)
LEMMA FoundAlike ==
  ASSUME NEW S, NEW tag \in Seq(S), NEW x \in Seq(S), NEW y \in Seq(S), tag # <<>>,
         NEW n \in Nat, n <= Len(x), n <= Len(y), \A k \in 1..n : x[k] = y[k],
         NEW i \in Found(tag, x), i - 1 + Len(tag) <= n
  PROVE  i \in Found(tag, y)
<1>1. Len(tag) \in Nat /\ Len(x) \in Nat /\ Len(y) \in Nat
    BY LenProperties
<1>2. i \in Nat \ {0} /\ i - 1 + Len(tag) <= Len(x) /\ \A k \in 1..Len(tag) : x[i - 1 + k] = tag[k]
    BY FoundIff
<1>3. \A k \in 1..Len(tag) : i - 1 + k \in 1..n
    BY <1>1, <1>2
<1>4. \A k \in 1..Len(tag) : y[i - 1 + k] = tag[k]
    BY <1>2, <1>3
<1>5. i - 1 + Len(tag) <= Len(y)
    BY <1>1, <1>2
<1>. QED
    BY <1>2, <1>4, <1>5, FoundIff

LEMMA FoundBehind ==
  ASSUME NEW S, NEW tag \in Seq(S), NEW u \in Seq(S), NEW x \in Seq(S), tag # <<>>
  PROVE  /\ \A i \in Found(tag, x) : Len(u) + i \in Found(tag, u \o x)
         /\ \A i \in Found(tag, u \o x) : i > Len(u) => i - Len(u) \in Found(tag, x)
<1> DEFINE ux == u \o x
<1>1. /\ ux \in Seq(S) /\ Len(ux) = Len(u) + Len(x) /\ Len(u) \in Nat /\ Len(x) \in Nat
      /\ \A i \in 1..Len(x) : ux[Len(u) + i] = x[i]
    BY Adjoined
<1> HIDE DEF ux
<1>2. Len(tag) \in Nat
    BY LenProperties
<1>3. ASSUME NEW i \in Found(tag, x) PROVE Len(u) + i \in Found(tag, ux)
    <2>1. i \in Nat \ {0} /\ i - 1 + Len(tag) <= Len(x) /\ \A k \in 1..Len(tag) : x[i - 1 + k] = tag[k]
        BY FoundIff
    <2>2. \A k \in 1..Len(tag) : i - 1 + k \in 1..Len(x) /\ Len(u) + i - 1 + k = Len(u) + (i - 1 + k)
        BY <1>1, <1>2, <2>1
    <2>3. \A k \in 1..Len(tag) : ux[Len(u) + i - 1 + k] = tag[k]
        BY <1>1, <2>1, <2>2
    <2>4. PICK j : j = Len(u) + i /\ j \in Nat \ {0} /\ j - 1 + Len(tag) <= Len(ux)
        BY <1>1, <1>2, <2>1
    <2>5. \A k \in 1..Len(tag) : ux[j - 1 + k] = tag[k]
        <3>1. \A k \in 1..Len(tag) : j - 1 + k = Len(u) + i - 1 + k
            BY <1>1, <2>1, <2>4
        <3>. QED
            BY <2>3, <3>1
    <2>6. j \in Found(tag, ux)
        BY <1>1, <2>4, <2>5, FoundIff
    <2>. QED
        BY <2>4, <2>6
<1>4. ASSUME NEW i \in Found(tag, ux), i > Len(u) PROVE i - Len(u) \in Found(tag, x)
    <2>1. i \in Nat \ {0} /\ i - 1 + Len(tag) <= Len(ux) /\ \A k \in 1..Len(tag) : ux[i - 1 + k] = tag[k]
        BY <1>1, FoundIff
    <2>2. i - Len(u) \in Nat \ {0} /\ i - Len(u) - 1 + Len(tag) <= Len(x)
        BY <1>1, <1>2, <1>4, <2>1
    <2>3. \A k \in 1..Len(tag) : i - Len(u) - 1 + k \in 1..Len(x) /\ Len(u) + (i - Len(u) - 1 + k) = i - 1 + k
        BY <1>1, <1>2, <2>1, <2>2
    <2>4. \A k \in 1..Len(tag) : x[i - Len(u) - 1 + k] = tag[k]
        BY <1>1, <2>1, <2>3
    <2>. QED
        BY <2>2, <2>4, FoundIff
<1>. QED
    BY <1>3, <1>4 DEF ux

(* A text is what stands before a tag, the tag, and what stands behind it. *)
LEMMA CutAtTag ==
  ASSUME NEW S, NEW tag \in Seq(S), NEW text \in Seq(S), tag # <<>>, NEW i \in Found(tag, text)
  PROVE  \E a, b : /\ a = SubSeq(text, 1, i - 1) /\ b = From(text, i + Len(tag))
                   /\ a \in Seq(S) /\ b \in Seq(S) /\ text = a \o (tag \o b)
                   /\ Len(a) = i - 1 /\ Len(b) = Len(text) - Len(tag) - Len(a)
                   /\ i \in Nat \ {0} /\ Len(tag) \in Nat \ {0}
<1>1. Len(tag) \in Nat \ {0} /\ Len(text) \in Nat
    BY LenProperties, EmptySeq
<1>2. i \in Nat \ {0} /\ i - 1 + Len(tag) <= Len(text)
    BY FoundIff
<1>3. PICK n : n = i - 1 /\ n \in 0..Len(text) /\ n + 1 = i /\ n \in Nat
    BY <1>1, <1>2
<1>4. PICK a, c : /\ a = SubSeq(text, 1, n) /\ text = a \o c /\ a \in Seq(S) /\ c \in Seq(S)
                  /\ Len(a) = n /\ Len(c) = Len(text) - n
    <2>1. /\ text = SubSeq(text, 1, n) \o From(text, n + 1)
          /\ SubSeq(text, 1, n) \in Seq(S) /\ From(text, n + 1) \in Seq(S)
          /\ Len(SubSeq(text, 1, n)) = n /\ Len(From(text, n + 1)) = Len(text) - n
        <3>1. n \in 0..Len(text)
            BY <1>3
        <3>. QED
            BY <3>1, CutAt
    <2>. QED
        BY <2>1, Zenon
<1>5. PICK m : m = n + Len(tag) /\ m \in 0..Len(text) /\ m + 1 = i + Len(tag)
    BY <1>1, <1>2, <1>3
<1>6. PICK d, b : /\ b = From(text, m + 1) /\ text = d \o b /\ d \in Seq(S) /\ b \in Seq(S)
                  /\ Len(d) = m /\ Len(b) = Len(text) - m
    <2>1. /\ text = SubSeq(text, 1, m) \o From(text, m + 1)
          /\ SubSeq(text, 1, m) \in Seq(S) /\ From(text, m + 1) \in Seq(S)
          /\ Len(SubSeq(text, 1, m)) = m /\ Len(From(text, m + 1)) = Len(text) - m
        <3>1. m \in 0..Len(text)
            BY <1>5
        <3>. QED
            BY <3>1, CutAt
    <2>. QED
        BY <2>1, Zenon
<1>7. d = a \o tag
    <2>1. /\ a \o tag \in Seq(S) /\ Len(a \o tag) = m
          /\ \A k \in 1..n : (a \o tag)[k] = a[k]
          /\ \A k \in 1..Len(tag) : (a \o tag)[n + k] = tag[k]
        <3>1. /\ a \o tag \in Seq(S) /\ Len(a \o tag) = Len(a) + Len(tag)
              /\ \A k \in 1..Len(a) : (a \o tag)[k] = a[k]
              /\ \A k \in 1..Len(tag) : (a \o tag)[Len(a) + k] = tag[k]
            BY <1>4, Adjoined
        <3>. QED
            BY <1>4, <1>5, <3>1
    <2>2. \A k \in 1..Len(tag) : text[n + k] = tag[k]
        BY <1>3, FoundIff
    <2>3. \A k \in 1..m : text[k] = d[k]
        <3>1. \A k \in 1..Len(d) : (d \o b)[k] = d[k]
            BY <1>6, Adjoined
        <3>. QED
            BY <1>6, <3>1
    <2>4. \A k \in 1..n : text[k] = a[k]
        <3>1. \A k \in 1..Len(a) : (a \o c)[k] = a[k]
            BY <1>4, Adjoined
        <3>. QED
            BY <1>4, <3>1
    <2>5. ASSUME NEW k \in 1..m PROVE d[k] = (a \o tag)[k]
        <3>1. CASE k \in 1..n
            BY <2>1, <2>3, <2>4, <3>1
        <3>2. CASE k \notin 1..n
            <4>1. k - n \in 1..Len(tag) /\ n + (k - n) = k
                BY <1>1, <1>3, <1>5, <3>2
            <4>. QED
                BY <2>1, <2>2, <2>3, <4>1
        <3>. QED
            BY <3>1, <3>2
    <2>6. d \in Seq(S) /\ Len(d) = Len(a \o tag)
        BY <1>6, <2>1
    <2>7. \A k \in 1..Len(d) : d[k] = (a \o tag)[k]
        BY <1>6, <2>5
    <2>. QED
        BY <2>1, <2>6, <2>7, SeqEqual
<1>8. text = a \o (tag \o b)
    <2>1. a \in Seq(S) /\ b \in Seq(S)
        BY <1>4, <1>6
    <2>2. (a \o tag) \o b = a \o (tag \o b)
        BY <2>1, ConcatAssociative
    <2>. QED
        BY <1>6, <1>7, <2>2
<1>9. Len(a) = i - 1 /\ Len(b) = Len(text) - Len(tag) - Len(a)
    <2>1. Len(text) - m = Len(text) - Len(tag) - n
        BY <1>1, <1>3, <1>5
    <2>. QED
        BY <1>3, <1>4, <1>6, <2>1
<1>10. a = SubSeq(text, 1, i - 1) /\ b = From(text, i + Len(tag))
    BY <1>3, <1>4, <1>5, <1>6
<1>11. a \in Seq(S) /\ b \in Seq(S)
    BY <1>4, <1>6
<1>. QED
    BY <1>1, <1>2, <1>8, <1>9, <1>10, <1>11

(* The first place of a tag stays it whatever follows behind.              *)
LEMMA FirstStays ==
  ASSUME NEW S, NEW tag \in Seq(S), NEW x \in Seq(S), tag # <<>>, IndexOf(tag, x) # 0,
         NEW r \in Seq(S)
  PROVE  IndexOf(tag, SubSeq(x, 1, IndexOf(tag, x) - 1) \o (tag \o r)) = IndexOf(tag, x)
<1>1. PICK i \in Found(tag, x) : i = IndexOf(tag, x) /\ \A j \in Found(tag, x) : i <= j
    BY FirstFound
<1>0. PICK a, b : /\ a = SubSeq(x, 1, i - 1) /\ b = From(x, i + Len(tag))
                  /\ a \in Seq(S) /\ b \in Seq(S) /\ x = a \o (tag \o b)
                  /\ Len(a) = i - 1 /\ Len(b) = Len(x) - Len(tag) - Len(a)
                  /\ i \in Nat \ {0} /\ Len(tag) \in Nat \ {0}
    <2>1. i \in Found(tag, x) /\ tag \in Seq(S) /\ x \in Seq(S) /\ tag # <<>>
        BY <1>1
    <2>. QED
        BY <2>1, CutAtTag
<1>2. /\ a \in Seq(S) /\ b \in Seq(S) /\ x = a \o (tag \o b)
      /\ Len(a) = i - 1 /\ i \in Nat \ {0} /\ Len(tag) \in Nat \ {0} /\ Len(x) \in Nat
    <2>1. Len(x) \in Nat
        BY LenProperties
    <2>. QED
        BY <1>0, <2>1
<1> DEFINE at == a \o tag
           y == a \o (tag \o r)
<1>3. at \in Seq(S) /\ Len(at) = i - 1 + Len(tag)
    BY <1>2, Adjoined
<1>4. x = at \o b /\ y = at \o r
    <2>0. a \in Seq(S) /\ b \in Seq(S)
        BY <1>2
    <2>1. (a \o tag) \o b = a \o (tag \o b)
        BY <2>0, ConcatAssociative
    <2>2. (a \o tag) \o r = a \o (tag \o r)
        BY <2>0, ConcatAssociative
    <2>. QED
        BY <1>2, <2>1, <2>2
<1> HIDE DEF at, y
<1>5. /\ y \in Seq(S) /\ Len(at) <= Len(y) /\ Len(at) <= Len(x) /\ Len(at) \in Nat /\ Len(y) \in Nat
      /\ \A k \in 1..Len(at) : x[k] = y[k]
    <2>1. /\ x \in Seq(S) /\ Len(x) = Len(at) + Len(b) /\ Len(at) \in Nat /\ Len(b) \in Nat
          /\ \A k \in 1..Len(at) : x[k] = at[k]
        <3>1. at \in Seq(S) /\ b \in Seq(S)
            BY <1>2, <1>3
        <3>2. /\ at \o b \in Seq(S) /\ Len(at \o b) = Len(at) + Len(b) /\ Len(at) \in Nat /\ Len(b) \in Nat
              /\ \A k \in 1..Len(at) : (at \o b)[k] = at[k]
            BY ONLY <3>1, Adjoined
        <3>. QED
            BY <1>4, <3>2
    <2>2. /\ y \in Seq(S) /\ Len(y) = Len(at) + Len(r) /\ Len(r) \in Nat
          /\ \A k \in 1..Len(at) : y[k] = at[k]
        <3>1. at \in Seq(S) /\ r \in Seq(S)
            BY <1>3
        <3>2. /\ at \o r \in Seq(S) /\ Len(at \o r) = Len(at) + Len(r) /\ Len(r) \in Nat
              /\ \A k \in 1..Len(at) : (at \o r)[k] = at[k]
            BY ONLY <3>1, Adjoined
        <3>. QED
            BY <1>4, <3>2
    <2>. QED
        BY <2>1, <2>2
<1>6. i \in Found(tag, y)
    <2>1. i - 1 + Len(tag) <= Len(at)
        BY <1>2, <1>3
    <2>. QED
        BY <1>5, <2>1, FoundAlike
<1>7. ASSUME NEW j \in Found(tag, y) PROVE i <= j
    <2>1. j \in Nat \ {0}
        BY <1>5, FoundIff
    <2>2. CASE j < i
        <3>1. j - 1 + Len(tag) <= Len(at)
            BY <1>2, <1>3, <2>1, <2>2
        <3>2. \A k \in 1..Len(at) : y[k] = x[k]
            BY <1>5
        <3>3. j \in Found(tag, x)
            BY <1>5, <3>1, <3>2, FoundAlike
        <3>. QED
            BY <1>1, <3>3
    <2>. QED
        BY <1>2, <2>1, <2>2
<1>8. IndexOf(tag, y) = i
    BY <1>5, <1>6, <1>7, IndexIs
<1>. QED
    BY <1>0, <1>1, <1>8 DEF y

(* No tag begins in what was passed on, whatever comes behind.             *)
NoneBegins(tag, u, w) ==
  \A r \in Seq(Letters) : \A i \in Found(tag, u \o (w \o r)) : i > Len(u)

LEMMA NoneBeginsYet ==
  ASSUME NEW tag \in Seq(Letters), tag # <<>>, NEW w \in Seq(Letters)
  PROVE  NoneBegins(tag, <<>>, w)
<1> SUFFICES ASSUME NEW r \in Seq(Letters), NEW i \in Found(tag, <<>> \o (w \o r))
             PROVE  i > Len(<<>>)
    BY DEF NoneBegins
<1>1. w \o r \in Seq(Letters)
    BY Adjoined
<1>2. <<>> \o (w \o r) \in Seq(Letters)
    BY <1>1, Adjoined, EmptySeq
<1>3. i \in Nat \ {0}
    BY <1>2, FoundIff
<1>. QED
    BY <1>3, EmptySeq

LEMMA MoreComes ==
  ASSUME NEW tag, NEW u \in Seq(Letters), NEW w \in Seq(Letters), NEW delta \in Seq(Letters),
         NoneBegins(tag, u, w)
  PROVE  NoneBegins(tag, u, w \o delta)
<1> SUFFICES ASSUME NEW r \in Seq(Letters), NEW i \in Found(tag, u \o ((w \o delta) \o r))
             PROVE  i > Len(u)
    BY DEF NoneBegins
<1>1. (w \o delta) \o r = w \o (delta \o r)
    BY ConcatAssociative
<1>2. delta \o r \in Seq(Letters)
    BY Adjoined
<1>. QED
    BY <1>1, <1>2 DEF NoneBegins

LEMMA BeginsBehind ==
  ASSUME NEW tag, NEW u \in Seq(Letters), NEW w \in Seq(Letters), NoneBegins(tag, u, w),
         NEW i \in Found(tag, u \o w)
  PROVE  i > Len(u)
<1>1. w \o <<>> = w /\ <<>> \in Seq(Letters)
    BY ConcatEmptySeq, EmptySeq
<1>. QED
    BY <1>1 DEF NoneBegins

LEMMA NoneAtAll ==
  ASSUME NEW tag \in Seq(Letters), tag # <<>>, NEW u \in Seq(Letters), NEW w \in Seq(Letters),
         NoneBegins(tag, u, w), Found(tag, w) = {}
  PROVE  Found(tag, u \o w) = {}
<1>1. ASSUME NEW i \in Found(tag, u \o w) PROVE FALSE
    <2>1. i > Len(u)
        BY BeginsBehind
    <2>2. i - Len(u) \in Found(tag, w)
        BY <2>1, FoundBehind
    <2>. QED
        BY <2>2
<1>. QED
    BY <1>1

(* So the first tag of what comes is the first of all.                     *)
LEMMA FirstBehind ==
  ASSUME NEW tag, NEW u, NEW text, NEW r, tag \in Seq(Letters), tag # <<>>, u \in Seq(Letters),
         text \in Seq(Letters), r \in Seq(Letters), NoneBegins(tag, u, text),
         NEW at \in Found(tag, text), \A i \in Found(tag, text) : at <= i
  PROVE  /\ u \o SubSeq(text, 1, at - 1) \in Seq(Letters)
         /\ Len(u \o SubSeq(text, 1, at - 1)) = Len(u) + at - 1
         /\ IndexOf(tag, (u \o SubSeq(text, 1, at - 1)) \o (tag \o r)) = Len(u) + at
<1>1. PICK a, b : /\ a = SubSeq(text, 1, at - 1) /\ b = From(text, at + Len(tag))
                  /\ a \in Seq(Letters) /\ b \in Seq(Letters) /\ text = a \o (tag \o b)
                  /\ Len(a) = at - 1 /\ Len(b) = Len(text) - Len(tag) - Len(a)
                  /\ at \in Nat \ {0} /\ Len(tag) \in Nat \ {0}
    BY CutAtTag
<1>2. PICK x : x = u \o text /\ x \in Seq(Letters) /\ Len(u) \in Nat
    BY Adjoined
<1>3. \A i \in Found(tag, text) : at <= i
    OBVIOUS
<1>4. PICK j : j = Len(u) + at /\ j \in Nat \ {0}
    BY <1>1, <1>2
<1>5. j \in Found(tag, x)
    BY <1>2, <1>4, FoundBehind
<1>6. ASSUME NEW i \in Found(tag, x) PROVE j <= i
    <2>1. i > Len(u) /\ i \in Nat
        BY <1>2, BeginsBehind, FoundIff
    <2>2. i - Len(u) \in Found(tag, text)
        BY <1>2, <2>1, FoundBehind
    <2>3. at <= i - Len(u)
        BY <1>3, <2>2
    <2>. QED
        BY <1>1, <1>2, <1>4, <2>1, <2>3
<1>7. IndexOf(tag, x) = j
    BY <1>2, <1>5, <1>6, IndexIs
<1>8. IndexOf(tag, SubSeq(x, 1, j - 1) \o (tag \o r)) = j
    <2>1. IndexOf(tag, x) # 0
        BY <1>4, <1>7
    <2>0. x \in Seq(Letters)
        BY <1>2
    <2>2. IndexOf(tag, SubSeq(x, 1, IndexOf(tag, x) - 1) \o (tag \o r)) = IndexOf(tag, x)
        BY <2>0, <2>1, FirstStays
    <2>. QED
        BY <1>7, <2>2
<1>9. PICK c : c = u \o a /\ c \in Seq(Letters) /\ Len(c) = Len(u) + Len(a)
    <2>1. a \in Seq(Letters)
        BY <1>1
    <2>2. u \o a \in Seq(Letters) /\ Len(u \o a) = Len(u) + Len(a)
        BY <2>1, Adjoined
    <2>. QED
        BY <2>2, Zenon
<1>10. SubSeq(x, 1, j - 1) = c
    <2>1. a \in Seq(Letters) /\ b \in Seq(Letters)
        BY <1>1
    <2>2. tag \o b \in Seq(Letters)
        BY <2>1, Adjoined
    <2>3. SubSeq(u \o (a \o (tag \o b)), 1, Len(u \o a)) = u \o a
        <3>1. \A p \in Seq(Letters) : SubSeq(u \o (a \o p), 1, Len(u \o a)) = u \o a
            BY ONLY u \in Seq(Letters), <2>1, UncutTwo
        <3>. QED
            BY ONLY <2>2, <3>1
    <2>4. Len(c) = j - 1
        BY <1>1, <1>2, <1>4, <1>9
    <2>. QED
        BY <1>1, <1>2, <1>9, <2>3, <2>4
<1>11. Len(c) = Len(u) + at - 1
    BY <1>1, <1>2, <1>9
<1>. QED
    BY <1>1, <1>4, <1>8, <1>9, <1>10, <1>11

(* What is held back is the longest end that may begin a tag.              *)
LEMMA LongestIsHeld ==
  ASSUME NEW tag \in Seq(Letters), NEW text \in Seq(Letters)
  PROVE  /\ Hold(text, tag) \in 0..Len(text)
         /\ \A n \in 1 .. Len(tag) - 1 :
              n <= Len(text) /\ From(text, Len(text) - n + 1) = SubSeq(tag, 1, n) => n <= Hold(text, tag)
<1> DEFINE fits == {n \in 1..(Len(tag) - 1) : n <= Len(text)
                                         /\ From(text, Len(text) - n + 1) = SubSeq(tag, 1, n)}
           longest == CHOOSE n \in fits : \A m \in fits : m <= n
<1>1. Len(tag) \in Nat /\ Len(text) \in Nat
    BY LenProperties
<1>2. Hold(text, tag) = IF fits = {} THEN 0 ELSE longest
    BY DEF Hold
<1>3. fits \subseteq 1..Len(text) /\ fits \subseteq Nat
    BY <1>1
<1>4. ASSUME fits # {} PROVE \E n \in fits : \A m \in fits : m <= n
    <2> DEFINE less == {k \in Nat : \E n \in fits : k + n = Len(text)}
    <2>1. less # {}
        <3>1. PICK n \in fits : TRUE
            BY <1>4
        <3>2. n \in 1..Len(text)
            BY <1>3, <3>1
        <3>3. Len(text) - n \in Nat /\ (Len(text) - n) + n = Len(text)
            BY <1>1, <3>2
        <3> HIDE DEF fits
        <3>. QED
            BY <3>1, <3>3
    <2>2. less \subseteq Nat
        OBVIOUS
    <2> HIDE DEF less
    <2>3. PICK k \in less : \A j \in less : ~(<<j, k>> \in OpToRel(<, Nat))
        BY <2>1, <2>2, NatLessThanWellFounded, WFMin
    <2>4. \A j \in less : ~(j < k)
        BY <2>2, <2>3 DEF OpToRel
    <2>5. PICK n \in fits : k + n = Len(text)
        BY DEF less
    <2>6. ASSUME NEW m \in fits PROVE m <= n
        <3>1. m \in 1..Len(text) /\ n \in 1..Len(text)
            BY <1>3
        <3>2. PICK j \in Nat : j + m = Len(text)
            <4>1. Len(text) - m \in Nat /\ (Len(text) - m) + m = Len(text)
                BY <1>1, <3>1
            <4>. QED
                BY <4>1
        <3>3. j \in less
            BY <3>2 DEF less
        <3>4. ~(j < k) /\ k \in Nat
            BY <2>2, <2>4, <3>3
        <3> HIDE DEF fits
        <3>. QED
            BY <1>1, <2>5, <3>1, <3>2, <3>4
    <2>. QED
        BY <2>5, <2>6
<1>5. fits # {} => longest \in fits /\ \A m \in fits : m <= longest
    <2> HIDE DEF fits
    <2>. QED
        BY <1>4
<1>6. \A n \in 1 .. Len(tag) - 1 :
              n <= Len(text) /\ From(text, Len(text) - n + 1) = SubSeq(tag, 1, n) => n \in fits
    OBVIOUS
<1> HIDE DEF fits, longest
<1>7. Hold(text, tag) \in 0..Len(text)
    <2>1. CASE fits = {}
        BY <1>1, <1>2, <2>1
    <2>2. CASE fits # {}
        <3>1. longest \in 1..Len(text) /\ Hold(text, tag) = longest
            BY <1>2, <1>3, <1>5, <2>2
        <3>. QED
            BY <1>1, <3>1
    <2>. QED
        BY <2>1, <2>2
<1>8. ASSUME NEW n \in 1 .. Len(tag) - 1, n <= Len(text),
             From(text, Len(text) - n + 1) = SubSeq(tag, 1, n)
      PROVE  n <= Hold(text, tag)
    <2>1. n \in fits
        BY <1>6, <1>8
    <2>. QED
        BY <1>2, <1>5, <2>1
<1>. QED
    BY <1>7, <1>8

(* Nothing that is passed on at the end of a delta may begin a tag, and    *)
(* what is held back has none.                                             *)
LEMMA HoldsEnough ==
  ASSUME NEW tag, NEW u, NEW text, tag \in Seq(Letters), tag # <<>>, u \in Seq(Letters),
         text \in Seq(Letters), NoneBegins(tag, u, text), Found(tag, text) = {},
         NEW n, n = Len(text) - Hold(text, tag)
  PROVE  /\ n \in 0..Len(text)
         /\ NoneBegins(tag, u \o SubSeq(text, 1, n), From(text, n + 1))
         /\ Found(tag, From(text, n + 1)) = {}
<1>1. /\ Hold(text, tag) \in 0..Len(text) /\ Len(text) \in Nat /\ Len(tag) \in Nat \ {0} /\ Len(u) \in Nat
      /\ \A m \in 1 .. Len(tag) - 1 :
           m <= Len(text) /\ From(text, Len(text) - m + 1) = SubSeq(tag, 1, m) => m <= Hold(text, tag)
    <2>1. Len(text) \in Nat /\ Len(tag) \in Nat \ {0} /\ Len(u) \in Nat
        BY LenProperties, EmptySeq
    <2>. QED
        BY <2>1, LongestIsHeld
<1>2. n \in 0..Len(text) /\ n \in Nat
    BY <1>1
<1>3. PICK a, w : /\ a = SubSeq(text, 1, n) /\ w = From(text, n + 1) /\ text = a \o w
                  /\ a \in Seq(Letters) /\ w \in Seq(Letters) /\ Len(a) = n
    <2>1. /\ text = SubSeq(text, 1, n) \o From(text, n + 1)
          /\ SubSeq(text, 1, n) \in Seq(Letters) /\ From(text, n + 1) \in Seq(Letters)
          /\ Len(SubSeq(text, 1, n)) = n
        BY ONLY <1>2, text \in Seq(Letters), CutAt
    <2>. QED
        BY <2>1, Zenon
<1>4. a \in Seq(Letters) /\ w \in Seq(Letters)
    BY <1>3
<1>5. Len(u \o a) = Len(u) + n /\ u \o a \in Seq(Letters)
    <2>1. Len(u \o a) = Len(u) + Len(a) /\ u \o a \in Seq(Letters)
        BY ONLY <1>4, u \in Seq(Letters), Adjoined
    <2>. QED
        BY ONLY <1>3, <2>1
<1>9. \A q \in Seq(Letters) : (u \o a) \o q = u \o (a \o q)
    BY ONLY <1>4, u \in Seq(Letters), ConcatAssociative
<1>6. ASSUME NEW r \in Seq(Letters), NEW i \in Found(tag, (u \o a) \o (w \o r)) PROVE i > Len(u) + n
    <2>1. PICK x : /\ x = text \o r /\ x \in Seq(Letters) /\ Len(x) = Len(text) + Len(r) /\ Len(r) \in Nat
                   /\ \A k \in 1..Len(text) : x[k] = text[k]
        <3>1. /\ text \o r \in Seq(Letters) /\ Len(text \o r) = Len(text) + Len(r) /\ Len(r) \in Nat
              /\ \A k \in 1..Len(text) : (text \o r)[k] = text[k]
            BY ONLY text \in Seq(Letters), r \in Seq(Letters), Adjoined
        <3>. QED
            BY <3>1, Zenon
    <2>2. x \in Seq(Letters)
        BY <2>1
    <2>3. (u \o a) \o (w \o r) = u \o x
        <3>1. w \o r \in Seq(Letters)
            BY ONLY <1>4, r \in Seq(Letters), Adjoined
        <3>2. (u \o a) \o (w \o r) = u \o (a \o (w \o r))
            BY ONLY <1>9, <3>1
        <3>3. (a \o w) \o r = a \o (w \o r)
            BY ONLY <1>4, r \in Seq(Letters), ConcatAssociative
        <3>. QED
            BY <1>3, <2>1, <3>2, <3>3
    <2>4. i \in Found(tag, u \o x)
        BY <2>3
    <2>5. i > Len(u)
        BY <2>1, <2>4 DEF NoneBegins
    <2>6. PICK j : j = i - Len(u) /\ j \in Found(tag, x)
        <3>1. i - Len(u) \in Found(tag, x)
            BY ONLY <2>2, <2>4, <2>5, tag \in Seq(Letters), tag # <<>>, u \in Seq(Letters), FoundBehind
        <3>. QED
            BY <3>1
    <2>7. /\ j \in Nat \ {0} /\ j - 1 + Len(tag) <= Len(x) /\ \A k \in 1..Len(tag) : x[j - 1 + k] = tag[k]
        <3>1. j \in Found(tag, x)
            BY <2>6
        <3>. QED
            BY ONLY <2>2, <3>1, tag \in Seq(Letters), tag # <<>>, FoundIff
    <2>8. i \in Nat
        <3>1. u \o x \in Seq(Letters)
            BY ONLY <2>2, u \in Seq(Letters), Adjoined
        <3>. QED
            BY ONLY <2>4, <3>1, tag \in Seq(Letters), tag # <<>>, FoundIff
    <2>9. ASSUME j <= n PROVE FALSE
        <3>1. CASE j - 1 + Len(tag) <= Len(text)
            <4>1. j \in Found(tag, x) /\ Len(text) <= Len(x) /\ Len(text) <= Len(text)
                BY <1>1, <2>1, <2>6
            <4>2. j \in Found(tag, text)
                BY ONLY <1>1, <2>1, <2>2, <3>1, <4>1, tag \in Seq(Letters), tag # <<>>, text \in Seq(Letters),
                   FoundAlike
            <4>. QED
                BY <4>2
        <3>2. CASE ~(j - 1 + Len(tag) <= Len(text))
            <4>1. PICK m : m = Len(text) - j + 1 /\ m \in 1 .. Len(tag) - 1 /\ m <= Len(text) /\ m \in Nat
                           /\ Len(text) - m + 1 = j /\ j <= Len(text) /\ j \in Nat \ {0} /\ m <= Len(tag)
                BY <1>1, <1>2, <2>7, <2>9, <3>2
            <4>2. /\ SubSeq(text, j, Len(text)) \in Seq(Letters) /\ Len(SubSeq(text, j, Len(text))) = m
                  /\ \A k \in 1..m : SubSeq(text, j, Len(text))[k] = text[j - 1 + k]
                <5>1. j \in Nat \ {0} /\ j <= Len(text) + 1 /\ Len(text) <= Len(text) /\ Len(text) - j + 1 = m
                    BY <1>1, <4>1
                <5>2. /\ SubSeq(text, j, Len(text)) \in Seq(Letters)
                      /\ Len(SubSeq(text, j, Len(text))) = Len(text) - j + 1
                      /\ \A k \in 1 .. Len(text) - j + 1 : SubSeq(text, j, Len(text))[k] = text[j - 1 + k]
                    BY ONLY <1>1, <5>1, text \in Seq(Letters), Part
                <5>. QED
                    BY ONLY <5>1, <5>2
            <4>3. /\ SubSeq(tag, 1, m) \in Seq(Letters) /\ Len(SubSeq(tag, 1, m)) = m
                  /\ \A k \in 1..m : SubSeq(tag, 1, m)[k] = tag[k]
                <5>1. 1 \in Nat \ {0} /\ 1 <= m + 1 /\ m <= Len(tag) /\ m \in Nat /\ m - 1 + 1 = m
                      /\ \A k \in 1..m : 1 - 1 + k = k
                    BY ONLY <1>1, <4>1
                <5>2. /\ SubSeq(tag, 1, m) \in Seq(Letters) /\ Len(SubSeq(tag, 1, m)) = m - 1 + 1
                      /\ \A k \in 1 .. m - 1 + 1 : SubSeq(tag, 1, m)[k] = tag[1 - 1 + k]
                    BY ONLY <5>1, tag \in Seq(Letters), Part
                <5>. QED
                    BY ONLY <5>1, <5>2
            <4>4. ASSUME NEW k \in 1..m PROVE text[j - 1 + k] = tag[k]
                <5>1. j - 1 + k \in 1..Len(text) /\ k \in 1..Len(tag)
                    BY <1>1, <4>1
                <5>. QED
                    BY <2>1, <2>7, <5>1
            <4>5. SubSeq(text, j, Len(text)) = SubSeq(tag, 1, m)
                <5>1. \A k \in 1..m : SubSeq(text, j, Len(text))[k] = SubSeq(tag, 1, m)[k]
                    BY ONLY <4>2, <4>3, <4>4
                <5>. QED
                    BY ONLY <4>2, <4>3, <5>1, SeqEqual
            <4>6. m <= Hold(text, tag)
                <5>1. From(text, Len(text) - m + 1) = SubSeq(tag, 1, m)
                    BY <4>1, <4>5 DEF From
                <5>. QED
                    BY <1>1, <4>1, <5>1
            <4>. QED
                BY <1>1, <1>2, <2>9, <4>1, <4>6
        <3>. QED
            BY <3>1, <3>2
    <2>. QED
        BY <1>1, <1>2, <2>6, <2>7, <2>8, <2>9
<1>7. ASSUME NEW k \in Found(tag, w) PROVE FALSE
    <2>1. Len(a) + k \in Found(tag, a \o w)
        BY ONLY <1>4, <1>7, tag \in Seq(Letters), tag # <<>>, FoundBehind
    <2>. QED
        BY <1>3, <2>1
<1>8. NoneBegins(tag, u \o a, w)
    BY <1>5, <1>6 DEF NoneBegins
<1>. QED
    BY <1>2, <1>3, <1>7, <1>8

(* What the two loops do at each turn.                                     *)
LEMMA BehindTag ==
  ASSUME NEW tag \in Seq(Letters), tag # <<>>, NEW text \in Seq(Letters), IndexOf(tag, text) # 0
  PROVE  /\ IndexOf(tag, text) \in Found(tag, text)
         /\ \A i \in Found(tag, text) : IndexOf(tag, text) <= i
         /\ IndexOf(tag, text) \in Nat \ {0}
         /\ SubSeq(text, 1, IndexOf(tag, text) - 1) \in Seq(Letters)
         /\ From(text, IndexOf(tag, text) + Len(tag)) \in Seq(Letters)
         /\ Len(From(text, IndexOf(tag, text) + Len(tag))) < Len(text)
<1>1. PICK i \in Found(tag, text) : i = IndexOf(tag, text) /\ \A j \in Found(tag, text) : i <= j
    BY FirstFound
<1>2. PICK a, b : /\ a = SubSeq(text, 1, i - 1) /\ b = From(text, i + Len(tag))
                  /\ a \in Seq(Letters) /\ b \in Seq(Letters) /\ text = a \o (tag \o b)
                  /\ Len(a) = i - 1 /\ Len(b) = Len(text) - Len(tag) - Len(a)
                  /\ i \in Nat \ {0} /\ Len(tag) \in Nat \ {0}
    <2>1. i \in Found(tag, text)
        BY <1>1
    <2>. QED
        BY <2>1, CutAtTag
<1>3. Len(text) \in Nat
    BY LenProperties
<1>4. Len(b) < Len(text)
    BY <1>2, <1>3
<1>. QED
    BY <1>1, <1>2, <1>4

FeedStep(F, s) ==
  LET tag == IF s.in THEN CloseTag ELSE OpenTag
      at  == IndexOf(tag, s.text)
      n   == Len(s.text) - Hold(s.text, tag)
  IN  IF at = 0 THEN Out(s, n, s.in, n + 1) ELSE F[Out(s, at - 1, ~s.in, at + Len(tag))]

LEMMA FeedUnfolds == \A s \in Splits : Feed[s] = FeedStep(Feed, s)
<1> DEFINE Is(g) == g = [s \in Splits |-> FeedStep(g, s)]
           TagOf(s) == IF s.in THEN CloseTag ELSE OpenTag
           At(s) == IndexOf(TagOf(s), s.text)
           N(s) == Len(s.text) - Hold(s.text, TagOf(s))
           size == [s \in Splits |-> Len(s.text)]
           halts == [s \in Splits |-> At(s) = 0]
           end == [s \in Splits |-> Out(s, N(s), s.in, N(s) + 1)]
           more(s) == Out(s, At(s) - 1, ~s.in, At(s) + Len(TagOf(s)))
           rest == [s \in Splits |-> IF At(s) = 0 THEN s ELSE more(s)]
<1>1. \A s \in Splits : /\ s.text \in Seq(Letters) /\ Len(s.text) \in Nat
                        /\ TagOf(s) \in Seq(Letters) /\ TagOf(s) # <<>>
    <2>1. \A s \in Splits : s.text \in Seq(Letters) /\ TagOf(s) \in Seq(Letters) /\ TagOf(s) # <<>>
        BY ThinkAssumption DEF Splits
    <2>. QED
        BY <2>1, LenProperties
<1>2. ASSUME NEW s \in Splits, At(s) # 0
      PROVE  more(s) \in Splits /\ Len(more(s).text) < Len(s.text)
    <2>1. /\ SubSeq(s.text, 1, At(s) - 1) \in Seq(Letters)
          /\ From(s.text, At(s) + Len(TagOf(s))) \in Seq(Letters)
          /\ Len(From(s.text, At(s) + Len(TagOf(s)))) < Len(s.text)
        BY <1>1, <1>2, BehindTag
    <2>2. s.vis \o SubSeq(s.text, 1, At(s) - 1) \in Seq(Letters) /\ s.thk \o SubSeq(s.text, 1, At(s) - 1) \in Seq(Letters)
        <3>1. s.vis \in Seq(Letters) /\ s.thk \in Seq(Letters)
            BY DEF Splits
        <3>. QED
            BY <2>1, <3>1, Adjoined
    <2>3. more(s).text = From(s.text, At(s) + Len(TagOf(s)))
        BY DEF Out, Splits
    <2>4. more(s) \in Splits
        BY <2>1, <2>2 DEF Out, Splits
    <2>. QED
        BY <2>1, <2>3, <2>4
<1>3. /\ size \in [Splits -> Nat] /\ rest \in [Splits -> Splits] /\ halts \in [Splits -> BOOLEAN]
      /\ end \in [Splits -> {end[s] : s \in Splits}]
    <2>1. size \in [Splits -> Nat]
        BY <1>1
    <2>2. rest \in [Splits -> Splits]
        <3>1. \A s \in Splits : (IF At(s) = 0 THEN s ELSE more(s)) \in Splits
            BY <1>2
        <3> HIDE DEF more, At
        <3>. QED
            BY <3>1
    <2>3. end \in [Splits -> {end[s] : s \in Splits}]
        <3> DEFINE V == {end[s] : s \in Splits}
        <3>1. DOMAIN end = Splits /\ end = [s \in Splits |-> end[s]]
            OBVIOUS
        <3> HIDE DEF end
        <3>2. \A s \in Splits : end[s] \in V
            OBVIOUS
        <3> HIDE DEF V
        <3>3. end \in [Splits -> V]
            BY <3>1, <3>2
        <3>. QED
            BY <3>3 DEF V
    <2>. QED
        BY <2>1, <2>2, <2>3
<1>4. \A s \in Splits : ~halts[s] => size[rest[s]] < size[s]
    <2>1. ASSUME NEW s \in Splits, ~halts[s] PROVE size[rest[s]] < size[s]
        <3>1. At(s) # 0
            BY <2>1
        <3>2. more(s) \in Splits /\ Len(more(s).text) < Len(s.text)
            BY <1>2, <3>1
        <3> HIDE DEF more, At
        <3>3. rest[s] = more(s)
            BY <3>1
        <3>4. size[more(s)] = Len(more(s).text) /\ size[s] = Len(s.text)
            BY <3>2
        <3>. QED
            BY <3>2, <3>3, <3>4
    <2>. QED
        BY <2>1
<1>5. PICK f : /\ f = [s \in Splits |-> f[s]]
               /\ \A s \in Splits : f[s] = IF halts[s] THEN end[s] ELSE f[rest[s]]
    <2> DEFINE V == {end[s] : s \in Splits}
    <2>1. end \in [Splits -> V]
        BY <1>3
    <2>3. size \in [Splits -> Nat] /\ rest \in [Splits -> Splits] /\ halts \in [Splits -> BOOLEAN]
        BY <1>3
    <2> HIDE DEF size, rest, halts, end, V
    <2>4. Descends(Splits, V, size, rest, halts, end)
        BY ONLY <1>4, <2>1, <2>3 DEF Descends
    <2>5. \E f : f \in [Splits -> V] /\ \A s \in Splits : f[s] = IF halts[s] THEN end[s] ELSE f[rest[s]]
        BY <2>4, LoopsEnd
    <2>. QED
        BY <2>5
<1>6. Is(f)
    <2>1. ASSUME NEW s \in Splits PROVE f[s] = FeedStep(f, s)
        <3>1. halts[s] <=> At(s) = 0
            OBVIOUS
        <3>2. end[s] = Out(s, N(s), s.in, N(s) + 1)
              /\ (At(s) # 0 => rest[s] = more(s))
            OBVIOUS
        <3>3. f[s] = IF At(s) = 0 THEN end[s] ELSE f[rest[s]]
            BY <1>5, <3>1
        <3> HIDE DEF end, rest
        <3>. QED
            BY <3>2, <3>3 DEF FeedStep
    <2> HIDE DEF FeedStep
    <2>. QED
        BY <1>5, <2>1
<1>7. Feed = CHOOSE g : Is(g)
    BY DEF Feed, FeedStep
<1>8. Is(Feed)
    <2> HIDE DEF Is
    <2>. QED
        BY <1>6, <1>7
<1> HIDE DEF FeedStep
<1>. QED
    BY <1>8

OnceStep(F, s) ==
  LET opens == IndexOf(OpenTag, s.text)
      inner == From(s.text, opens + Len(OpenTag))
      close == IndexOf(CloseTag, inner)
  IN  IF opens = 0 \/ close = 0 THEN [vis |-> s.vis \o s.text, thk |-> s.thk]
      ELSE F[[text |-> From(inner, close + Len(CloseTag)),
              vis |-> s.vis \o SubSeq(s.text, 1, opens - 1),
              thk |-> s.thk \o SubSeq(inner, 1, close - 1)]]

LEMMA OnceUnfolds == \A s \in Wholes : Once[s] = OnceStep(Once, s)
<1> DEFINE Is(g) == g = [s \in Wholes |-> OnceStep(g, s)]
           Open(s) == IndexOf(OpenTag, s.text)
           Inner(s) == From(s.text, Open(s) + Len(OpenTag))
           Close(s) == IndexOf(CloseTag, Inner(s))
           size == [s \in Wholes |-> Len(s.text)]
           halts == [s \in Wholes |-> Open(s) = 0 \/ Close(s) = 0]
           end == [s \in Wholes |-> [vis |-> s.vis \o s.text, thk |-> s.thk]]
           more(s) == [text |-> From(Inner(s), Close(s) + Len(CloseTag)),
                       vis |-> s.vis \o SubSeq(s.text, 1, Open(s) - 1),
                       thk |-> s.thk \o SubSeq(Inner(s), 1, Close(s) - 1)]
           rest == [s \in Wholes |-> IF halts[s] THEN s ELSE more(s)]
<1>1. /\ \A s \in Wholes : s.text \in Seq(Letters) /\ Len(s.text) \in Nat
      /\ OpenTag \in Seq(Letters) /\ OpenTag # <<>> /\ CloseTag \in Seq(Letters) /\ CloseTag # <<>>
    <2>1. \A s \in Wholes : s.text \in Seq(Letters)
        BY DEF Wholes
    <2>. QED
        BY <2>1, LenProperties, ThinkAssumption
<1>2. ASSUME NEW s \in Wholes, Open(s) # 0, Close(s) # 0
      PROVE  more(s) \in Wholes /\ Len(more(s).text) < Len(s.text)
    <2>1. /\ SubSeq(s.text, 1, Open(s) - 1) \in Seq(Letters)
          /\ Inner(s) \in Seq(Letters) /\ Len(Inner(s)) < Len(s.text)
        BY <1>1, <1>2, BehindTag
    <2> DEFINE inner == Inner(s)
    <2>2. inner \in Seq(Letters) /\ IndexOf(CloseTag, inner) # 0
        BY <1>2, <2>1
    <2>3. /\ SubSeq(inner, 1, Close(s) - 1) \in Seq(Letters)
          /\ From(inner, Close(s) + Len(CloseTag)) \in Seq(Letters)
          /\ Len(From(inner, Close(s) + Len(CloseTag))) < Len(inner)
        <3> HIDE DEF inner
        <3>1. /\ SubSeq(inner, 1, IndexOf(CloseTag, inner) - 1) \in Seq(Letters)
              /\ From(inner, IndexOf(CloseTag, inner) + Len(CloseTag)) \in Seq(Letters)
              /\ Len(From(inner, IndexOf(CloseTag, inner) + Len(CloseTag))) < Len(inner)
            BY <1>1, <2>2, BehindTag
        <3>. QED
            BY <3>1 DEF inner
    <2>4. /\ s.vis \o SubSeq(s.text, 1, Open(s) - 1) \in Seq(Letters)
          /\ s.thk \o SubSeq(inner, 1, Close(s) - 1) \in Seq(Letters)
        <3>1. s.vis \in Seq(Letters) /\ s.thk \in Seq(Letters)
            BY DEF Wholes
        <3> HIDE DEF inner
        <3>. QED
            BY <2>1, <2>3, <3>1, Adjoined
    <2>5. more(s) \in Wholes
        BY <2>3, <2>4 DEF Wholes
    <2>6. Len(more(s).text) < Len(s.text)
        <3>1. more(s).text = From(inner, Close(s) + Len(CloseTag))
            OBVIOUS
        <3>2. Len(more(s).text) \in Nat /\ Len(inner) \in Nat /\ Len(s.text) \in Nat
            <4>1. more(s).text \in Seq(Letters)
                BY <2>3, <3>1
            <4> HIDE DEF inner, more
            <4>. QED
                BY <1>1, <2>2, <4>1, LenProperties
        <3>. QED
            BY <2>1, <2>3, <3>1, <3>2
    <2>. QED
        BY <2>5, <2>6
<1>3. /\ size \in [Wholes -> Nat] /\ rest \in [Wholes -> Wholes] /\ halts \in [Wholes -> BOOLEAN]
    <2>1. size \in [Wholes -> Nat]
        BY <1>1
    <2>2. rest \in [Wholes -> Wholes]
        <3>1. \A s \in Wholes : halts[s] <=> Open(s) = 0 \/ Close(s) = 0
            OBVIOUS
        <3>2. \A s \in Wholes : (IF halts[s] THEN s ELSE more(s)) \in Wholes
            BY <1>2, <3>1
        <3> HIDE DEF more, halts
        <3>. QED
            BY <3>2
    <2>. QED
        BY <2>1, <2>2
<1>4. \A s \in Wholes : ~halts[s] => size[rest[s]] < size[s]
    <2>1. ASSUME NEW s \in Wholes, ~halts[s] PROVE size[rest[s]] < size[s]
        <3>1. Open(s) # 0 /\ Close(s) # 0
            BY <2>1
        <3>2. more(s) \in Wholes /\ Len(more(s).text) < Len(s.text)
            BY <1>2, <3>1
        <3> HIDE DEF more, halts
        <3>3. rest[s] = more(s)
            BY <2>1
        <3>4. size[more(s)] = Len(more(s).text) /\ size[s] = Len(s.text)
            BY <3>2
        <3>. QED
            BY <3>2, <3>3, <3>4
    <2>. QED
        BY <2>1
<1>5. PICK f : /\ f = [s \in Wholes |-> f[s]]
               /\ \A s \in Wholes : f[s] = IF halts[s] THEN end[s] ELSE f[rest[s]]
    <2> DEFINE V == {end[s] : s \in Wholes}
    <2>1. end \in [Wholes -> V]
        <3>1. DOMAIN end = Wholes /\ end = [s \in Wholes |-> end[s]]
            OBVIOUS
        <3> HIDE DEF end
        <3>2. \A s \in Wholes : end[s] \in V
            OBVIOUS
        <3> HIDE DEF V
        <3>. QED
            BY <3>1, <3>2
    <2> HIDE DEF size, rest, halts, end, V
    <2>2. Descends(Wholes, V, size, rest, halts, end)
        BY ONLY <1>3, <1>4, <2>1 DEF Descends
    <2>3. \E f : f \in [Wholes -> V] /\ \A s \in Wholes : f[s] = IF halts[s] THEN end[s] ELSE f[rest[s]]
        BY <2>2, LoopsEnd
    <2>. QED
        BY <2>3
<1>6. Is(f)
    <2>1. ASSUME NEW s \in Wholes PROVE f[s] = OnceStep(f, s)
        <3>1. halts[s] <=> Open(s) = 0 \/ Close(s) = 0
            OBVIOUS
        <3>2. /\ end[s] = [vis |-> s.vis \o s.text, thk |-> s.thk]
              /\ ~halts[s] => rest[s] = more(s)
            OBVIOUS
        <3>3. f[s] = IF halts[s] THEN end[s] ELSE f[rest[s]]
            BY <1>5
        <3> HIDE DEF end, rest, halts
        <3>4. CASE halts[s]
            BY <3>1, <3>2, <3>3, <3>4 DEF OnceStep
        <3>5. CASE ~halts[s]
            <4>1. f[s] = f[more(s)]
                BY <3>2, <3>3, <3>5
            <4>. QED
                BY <3>1, <3>5, <4>1 DEF OnceStep
        <3>. QED
            BY <3>4, <3>5
    <2> HIDE DEF OnceStep
    <2>. QED
        BY <1>5, <2>1
<1>7. Once = CHOOSE g : Is(g)
    BY DEF Once, OnceStep, Wholes
<1>8. Is(Once)
    <2> HIDE DEF Is
    <2>. QED
        BY <1>6, <1>7
<1> HIDE DEF OnceStep
<1>. QED
    BY <1>8

(* The answer up to here has been split, whatever follows.                 *)
Begin(text) == [text |-> text, vis |-> <<>>, thk |-> <<>>]
Parsed(done, v, t) ==
  \A rest \in Seq(Letters) : Once[Begin(done \o rest)] = Once[[text |-> rest, vis |-> v, thk |-> t]]

(* A tag stands behind p, whatever follows, and is the first.              *)
FirstAfter(tag, p) == \A r \in Seq(Letters) : IndexOf(tag, p \o (tag \o r)) = Len(p) + 1

LEMMA AnswerEnds ==
  ASSUME NEW text \in Seq(Letters), NEW v \in Seq(Letters), NEW t \in Seq(Letters),
         IndexOf(OpenTag, text) = 0 \/ IndexOf(CloseTag, From(text, IndexOf(OpenTag, text) + Len(OpenTag))) = 0
  PROVE  Once[[text |-> text, vis |-> v, thk |-> t]] = [vis |-> v \o text, thk |-> t]
<1> DEFINE s == [text |-> text, vis |-> v, thk |-> t]
<1>1. s \in Wholes
    BY DEF Wholes
<1>2. Once[s] = OnceStep(Once, s)
    BY <1>1, OnceUnfolds
<1>. QED
    BY <1>2 DEF OnceStep

AtTags(p, q, v, t, rest) ==
  /\ p \in Seq(Letters) /\ q \in Seq(Letters) /\ v \in Seq(Letters) /\ t \in Seq(Letters)
  /\ rest \in Seq(Letters) /\ FirstAfter(OpenTag, p) /\ FirstAfter(CloseTag, q)

GoesOn(p, q, v, t, rest) ==
  Once[[text |-> p \o (OpenTag \o (q \o (CloseTag \o rest))), vis |-> v, thk |-> t]]
    = Once[[text |-> rest, vis |-> v \o p, thk |-> t \o q]]

LEMMA SplitAtTags ==
  ASSUME NEW p, NEW q, NEW v, NEW t, NEW rest, AtTags(p, q, v, t, rest)
  PROVE  GoesOn(p, q, v, t, rest)
<1>0. /\ p \in Seq(Letters) /\ q \in Seq(Letters) /\ v \in Seq(Letters) /\ t \in Seq(Letters)
      /\ rest \in Seq(Letters) /\ FirstAfter(OpenTag, p) /\ FirstAfter(CloseTag, q)
    BY DEF AtTags
<1> p \in Seq(Letters)
    BY <1>0
<1> q \in Seq(Letters)
    BY <1>0
<1> rest \in Seq(Letters)
    BY <1>0
<1> v \in Seq(Letters) /\ t \in Seq(Letters) /\ FirstAfter(OpenTag, p) /\ FirstAfter(CloseTag, q)
    BY <1>0
<1>1. /\ OpenTag \in Seq(Letters) /\ CloseTag \in Seq(Letters)
      /\ Len(OpenTag) \in Nat \ {0} /\ Len(CloseTag) \in Nat \ {0} /\ Len(p) \in Nat /\ Len(q) \in Nat
    BY ThinkAssumption, LenProperties, EmptySeq
<1>2. PICK inner : inner = q \o (CloseTag \o rest) /\ inner \in Seq(Letters)
    <2>1. CloseTag \o rest \in Seq(Letters)
        BY ONLY <1>1, rest \in Seq(Letters), Adjoined
    <2>2. q \o (CloseTag \o rest) \in Seq(Letters)
        BY ONLY <2>1, q \in Seq(Letters), Adjoined
    <2>. QED
        BY <2>2
<1>3. PICK text : text = p \o (OpenTag \o inner) /\ text \in Seq(Letters)
    <2>0. inner \in Seq(Letters)
        BY <1>2
    <2>1. OpenTag \o inner \in Seq(Letters)
        BY ONLY <1>1, <2>0, Adjoined
    <2>2. p \o (OpenTag \o inner) \in Seq(Letters)
        BY ONLY <2>1, p \in Seq(Letters), Adjoined
    <2>. QED
        BY <2>2
<1>4. IndexOf(OpenTag, text) = Len(p) + 1 /\ IndexOf(CloseTag, inner) = Len(q) + 1
    BY <1>2, <1>3 DEF FirstAfter
<1>5. SubSeq(text, 1, Len(p)) = p /\ From(text, Len(p) + 1 + Len(OpenTag)) = inner
    <2>0. inner \in Seq(Letters)
        BY <1>2
    <2>1. OpenTag \o inner \in Seq(Letters)
        BY ONLY <1>1, <2>0, Adjoined
    <2>2. SubSeq(p \o (OpenTag \o inner), 1, Len(p)) = p
        BY ONLY <2>1, p \in Seq(Letters), Uncut
    <2>3. From(p \o (OpenTag \o inner), Len(p \o OpenTag) + 1) = inner
        BY ONLY <1>1, <2>0, p \in Seq(Letters), UncutTwo
    <2>4. Len(p \o OpenTag) = Len(p) + Len(OpenTag)
        BY ONLY <1>1, p \in Seq(Letters), Adjoined
    <2>5. Len(p) + 1 + Len(OpenTag) = Len(p \o OpenTag) + 1
        BY <1>1, <2>4
    <2>. QED
        BY <1>3, <2>2, <2>3, <2>5
<1>6. SubSeq(inner, 1, Len(q)) = q /\ From(inner, Len(q) + 1 + Len(CloseTag)) = rest
    <2>1. CloseTag \o rest \in Seq(Letters)
        BY ONLY <1>1, rest \in Seq(Letters), Adjoined
    <2>2. SubSeq(q \o (CloseTag \o rest), 1, Len(q)) = q
        BY ONLY <2>1, q \in Seq(Letters), Uncut
    <2>3. From(q \o (CloseTag \o rest), Len(q \o CloseTag) + 1) = rest
        BY ONLY <1>1, rest \in Seq(Letters), q \in Seq(Letters), UncutTwo
    <2>4. Len(q \o CloseTag) = Len(q) + Len(CloseTag)
        BY ONLY <1>1, q \in Seq(Letters), Adjoined
    <2>5. Len(q) + 1 + Len(CloseTag) = Len(q \o CloseTag) + 1
        BY <1>1, <2>4
    <2>. QED
        BY <1>2, <2>2, <2>3, <2>5
<1> DEFINE s == [text |-> text, vis |-> v, thk |-> t]
<1>7. s \in Wholes
    BY <1>3 DEF Wholes
<1>8. Once[s] = OnceStep(Once, s)
    BY <1>7, OnceUnfolds
<1>9. /\ Len(p) + 1 # 0 /\ Len(q) + 1 # 0 /\ Len(p) + 1 - 1 = Len(p) /\ Len(q) + 1 - 1 = Len(q)
    BY <1>1
<1>10. OnceStep(Once, s) = Once[[text |-> rest, vis |-> v \o p, thk |-> t \o q]]
    <2> DEFINE opens == IndexOf(OpenTag, s.text)
               in == From(s.text, opens + Len(OpenTag))
               close == IndexOf(CloseTag, in)
    <2>1. s.text = text /\ s.vis = v /\ s.thk = t
        OBVIOUS
    <2> HIDE DEF s
    <2>2. opens = Len(p) + 1
        BY <1>4, <2>1
    <2> HIDE DEF opens
    <2>3. in = inner
        BY <1>5, <2>1, <2>2
    <2> HIDE DEF in
    <2>4. close = Len(q) + 1
        BY <1>4, <2>3
    <2> HIDE DEF close
    <2>5. OnceStep(Once, s) = IF opens = 0 \/ close = 0 THEN [vis |-> s.vis \o s.text, thk |-> s.thk]
                              ELSE Once[[text |-> From(in, close + Len(CloseTag)),
                                         vis |-> s.vis \o SubSeq(s.text, 1, opens - 1),
                                         thk |-> s.thk \o SubSeq(in, 1, close - 1)]]
        BY DEF OnceStep, opens, in, close
    <2>6. /\ From(in, close + Len(CloseTag)) = rest /\ SubSeq(in, 1, close - 1) = q
          /\ SubSeq(s.text, 1, opens - 1) = p
        <3>1. opens - 1 = Len(p) /\ close - 1 = Len(q)
            BY <1>9, <2>2, <2>4
        <3>. QED
            BY <1>5, <1>6, <2>1, <2>3, <2>4, <3>1
    <2>7. ~(opens = 0 \/ close = 0)
        BY <1>9, <2>2, <2>4
    <2>. QED
        BY <2>1, <2>5, <2>6, <2>7
<1>. QED
    BY <1>2, <1>3, <1>8, <1>10 DEF GoesOn

ComesNext(tag, u, text) ==
  /\ tag \in Seq(Letters) /\ tag # <<>> /\ u \in Seq(Letters) /\ text \in Seq(Letters)
  /\ NoneBegins(tag, u, text) /\ IndexOf(tag, text) # 0

CutInTwo(tag, u, text, a, b) ==
  /\ a \in Seq(Letters) /\ b \in Seq(Letters) /\ text = a \o (tag \o b)
  /\ FirstAfter(tag, u \o a)

LEMMA TagComes ==
  ASSUME NEW tag, NEW u, NEW text, ComesNext(tag, u, text)
  PROVE  CutInTwo(tag, u, text, SubSeq(text, 1, IndexOf(tag, text) - 1), From(text, IndexOf(tag, text) + Len(tag)))
<1> /\ tag \in Seq(Letters) /\ tag # <<>> /\ u \in Seq(Letters) /\ text \in Seq(Letters)
    /\ NoneBegins(tag, u, text) /\ IndexOf(tag, text) # 0
    BY DEF ComesNext
<1>1. PICK i \in Found(tag, text) : i = IndexOf(tag, text) /\ \A j \in Found(tag, text) : i <= j
    BY FirstFound
<1>2. PICK a, b : /\ a = SubSeq(text, 1, i - 1) /\ b = From(text, i + Len(tag))
                  /\ a \in Seq(Letters) /\ b \in Seq(Letters) /\ text = a \o (tag \o b)
                  /\ Len(a) = i - 1 /\ Len(b) = Len(text) - Len(tag) - Len(a)
                  /\ i \in Nat \ {0} /\ Len(tag) \in Nat \ {0}
    <2>1. i \in Found(tag, text)
        BY <1>1
    <2>. QED
        BY <2>1, CutAtTag
<1>3. Len(u) \in Nat
    BY LenProperties
<1>4. ASSUME NEW r \in Seq(Letters) PROVE IndexOf(tag, (u \o a) \o (tag \o r)) = Len(u \o a) + 1
    <2>1. i \in Found(tag, text) /\ \A j \in Found(tag, text) : i <= j
        BY <1>1
    <2>2. /\ Len(u \o SubSeq(text, 1, i - 1)) = Len(u) + i - 1
          /\ IndexOf(tag, (u \o SubSeq(text, 1, i - 1)) \o (tag \o r)) = Len(u) + i
        BY <2>1, FirstBehind
    <2>3. Len(u) + i = Len(u) + i - 1 + 1
        BY <1>2, <1>3
    <2>. QED
        BY <1>2, <2>2, <2>3
<1>5. FirstAfter(tag, u \o a)
    BY <1>4 DEF FirstAfter
<1>6. CutInTwo(tag, u, text, a, b)
    BY <1>2, <1>5 DEF CutInTwo
<1>. QED
    BY <1>1, <1>2, <1>6

(* The two sides of the splitter, and what each says of all that was sent. *)
Outside(total, text, vis, thk) ==
  \E done, v, u \in Seq(Letters) :
    /\ Parsed(done, v, thk) /\ vis = v \o u
    /\ total = done \o (u \o text) /\ NoneBegins(OpenTag, u, text)

Inside(total, text, vis, thk) ==
  \E done, v, t, p, u \in Seq(Letters) :
    /\ Parsed(done, v, t) /\ FirstAfter(OpenTag, p) /\ vis = v \o p /\ thk = t \o u
    /\ total = done \o (p \o (OpenTag \o (u \o text))) /\ NoneBegins(CloseTag, u, text)

LEMMA Opens ==
  ASSUME NEW total, NEW text, NEW vis, NEW thk, text \in Seq(Letters), thk \in Seq(Letters),
         Outside(total, text, vis, thk), NEW i, i = IndexOf(OpenTag, text), i # 0
  PROVE  Inside(total, From(text, i + Len(OpenTag)), vis \o SubSeq(text, 1, i - 1), thk)
<1>1. OpenTag \in Seq(Letters) /\ OpenTag # <<>> /\ CloseTag \in Seq(Letters) /\ CloseTag # <<>>
    BY ThinkAssumption
<1>2. PICK done, v, u :
             /\ done \in Seq(Letters) /\ v \in Seq(Letters) /\ u \in Seq(Letters)
             /\ Parsed(done, v, thk) /\ vis = v \o u
             /\ total = done \o (u \o text) /\ NoneBegins(OpenTag, u, text)
    BY DEF Outside
<1>3. PICK a, b : /\ a = SubSeq(text, 1, i - 1) /\ b = From(text, i + Len(OpenTag))
                  /\ a \in Seq(Letters) /\ b \in Seq(Letters) /\ text = a \o (OpenTag \o b)
                  /\ FirstAfter(OpenTag, u \o a)
    <2>1. ComesNext(OpenTag, u, text)
        BY <1>1, <1>2 DEF ComesNext
    <2>2. CutInTwo(OpenTag, u, text, SubSeq(text, 1, i - 1), From(text, i + Len(OpenTag)))
        BY <2>1, TagComes
    <2>3. \A x, y : CutInTwo(OpenTag, u, text, x, y)
                    => x \in Seq(Letters) /\ y \in Seq(Letters) /\ text = x \o (OpenTag \o y) /\ FirstAfter(OpenTag, u \o x)
        BY DEF CutInTwo
    <2>. QED
        BY ONLY <2>2, <2>3
<1>4. a \in Seq(Letters) /\ b \in Seq(Letters) /\ OpenTag \o b \in Seq(Letters) /\ u \o a \in Seq(Letters)
    <2>1. a \in Seq(Letters) /\ b \in Seq(Letters)
        BY <1>3
    <2>2. OpenTag \o b \in Seq(Letters)
        BY ONLY <1>1, <2>1, Adjoined
    <2>3. u \o a \in Seq(Letters)
        <3>1. u \in Seq(Letters)
            BY <1>2
        <3>. QED
            BY ONLY <3>1, <2>1, Adjoined
    <2>. QED
        BY <2>1, <2>2, <2>3
<1>5. total = done \o ((u \o a) \o (OpenTag \o (<<>> \o b)))
    <2>1. (u \o a) \o (OpenTag \o b) = u \o (a \o (OpenTag \o b))
        <3>1. u \in Seq(Letters) /\ a \in Seq(Letters)
            BY <1>2, <1>4
        <3>2. OpenTag \o b \in Seq(Letters)
            BY <1>2, <1>4
        <3>3. \A x \in Seq(Letters) : (u \o a) \o x = u \o (a \o x)
            BY ONLY <3>1, ConcatAssociative
        <3>. QED
            BY ONLY <3>2, <3>3
    <2>2. <<>> \o b = b
        BY ONLY <1>4, ConcatEmptySeq
    <2>3. text = a \o (OpenTag \o b) /\ total = done \o (u \o text)
        BY <1>2, <1>3
    <2>. QED
        BY ONLY <2>1, <2>2, <2>3
<1>6. vis \o a = v \o (u \o a)
    <2>1. (v \o u) \o a = v \o (u \o a)
        <3>1. v \in Seq(Letters) /\ u \in Seq(Letters) /\ a \in Seq(Letters)
            BY <1>2, <1>4
        <3>. QED
            BY ONLY <3>1, ConcatAssociative
    <2>. QED
        BY <1>2, <2>1
<1>7. thk = thk \o <<>> /\ <<>> \in Seq(Letters)
    BY ConcatEmptySeq, EmptySeq
<1>8. NoneBegins(CloseTag, <<>>, b)
    BY ONLY <1>1, <1>4, NoneBeginsYet
<1>9. Inside(total, b, vis \o a, thk)
    <2>1. /\ Parsed(done, v, thk) /\ FirstAfter(OpenTag, u \o a) /\ vis \o a = v \o (u \o a)
          /\ thk = thk \o <<>> /\ total = done \o ((u \o a) \o (OpenTag \o (<<>> \o b)))
          /\ NoneBegins(CloseTag, <<>>, b)
        BY <1>2, <1>3, <1>5, <1>6, <1>7, <1>8
    <2>. QED
        BY <1>2, <1>4, <1>7, <2>1, Zenon DEF Inside
<1>. QED
    BY <1>3, <1>9

LEMMA Closes ==
  ASSUME NEW total, NEW text, NEW vis, NEW thk, text \in Seq(Letters),
         Inside(total, text, vis, thk), NEW i, i = IndexOf(CloseTag, text), i # 0
  PROVE  Outside(total, From(text, i + Len(CloseTag)), vis, thk \o SubSeq(text, 1, i - 1))
<1>1. OpenTag \in Seq(Letters) /\ OpenTag # <<>> /\ CloseTag \in Seq(Letters) /\ CloseTag # <<>>
    BY ThinkAssumption
<1>2. PICK done, v, t, p, u :
             /\ done \in Seq(Letters) /\ v \in Seq(Letters) /\ t \in Seq(Letters)
             /\ p \in Seq(Letters) /\ u \in Seq(Letters)
             /\ Parsed(done, v, t) /\ FirstAfter(OpenTag, p) /\ vis = v \o p /\ thk = t \o u
             /\ total = done \o (p \o (OpenTag \o (u \o text))) /\ NoneBegins(CloseTag, u, text)
    BY DEF Inside
<1>0. /\ done \in Seq(Letters) /\ v \in Seq(Letters) /\ t \in Seq(Letters)
      /\ p \in Seq(Letters) /\ u \in Seq(Letters)
    BY <1>2
<1>3. PICK a, b : /\ a = SubSeq(text, 1, i - 1) /\ b = From(text, i + Len(CloseTag))
                  /\ a \in Seq(Letters) /\ b \in Seq(Letters) /\ text = a \o (CloseTag \o b)
                  /\ FirstAfter(CloseTag, u \o a)
    <2>1. ComesNext(CloseTag, u, text)
        BY <1>1, <1>2 DEF ComesNext
    <2>2. CutInTwo(CloseTag, u, text, SubSeq(text, 1, i - 1), From(text, i + Len(CloseTag)))
        BY <2>1, TagComes
    <2>3. \A x, y : CutInTwo(CloseTag, u, text, x, y)
                    => x \in Seq(Letters) /\ y \in Seq(Letters) /\ text = x \o (CloseTag \o y) /\ FirstAfter(CloseTag, u \o x)
        BY DEF CutInTwo
    <2>. QED
        BY ONLY <2>2, <2>3
<1>4. a \in Seq(Letters) /\ b \in Seq(Letters)
    BY <1>3
<1>5. PICK q : q = u \o a /\ q \in Seq(Letters) /\ FirstAfter(CloseTag, q)
    <2>1. u \o a \in Seq(Letters)
        BY ONLY <1>0, <1>4, Adjoined
    <2>. QED
        BY <1>3, <2>1
<1> DEFINE BothTags(r) == p \o (OpenTag \o (q \o (CloseTag \o r)))
           tail == p \o (OpenTag \o (q \o CloseTag))
<1>6. /\ tail \in Seq(Letters) /\ \A r \in Seq(Letters) : tail \o r = BothTags(r)
    <2>1. q \o CloseTag \in Seq(Letters)
        BY ONLY <1>1, <1>5, Adjoined
    <2>2. OpenTag \o (q \o CloseTag) \in Seq(Letters)
        BY ONLY <1>1, <2>1, Adjoined
    <2>3. tail \in Seq(Letters)
        BY ONLY <1>0, <2>2, Adjoined
    <2>4. ASSUME NEW r, r \in Seq(Letters) PROVE tail \o r = BothTags(r)
        <3>1. (q \o CloseTag) \o r = q \o (CloseTag \o r)
            <4>1. q \in Seq(Letters) /\ CloseTag \in Seq(Letters) /\ r \in Seq(Letters)
                BY <1>1, <1>5, <2>4
            <4>. QED
                BY ONLY <4>1, ConcatAssociative
        <3>2. (OpenTag \o (q \o CloseTag)) \o r = OpenTag \o ((q \o CloseTag) \o r)
            <4>1. OpenTag \in Seq(Letters) /\ r \in Seq(Letters)
                BY <1>1, <2>1, <2>4
            <4>2. q \o CloseTag \in Seq(Letters)
                BY <1>1, <2>1, <2>4
            <4>3. \A x \in Seq(Letters) : (OpenTag \o x) \o r = OpenTag \o (x \o r)
                BY ONLY <4>1, ConcatAssociative
            <4>. QED
                BY ONLY <4>2, <4>3
        <3>3. (p \o (OpenTag \o (q \o CloseTag))) \o r = p \o ((OpenTag \o (q \o CloseTag)) \o r)
            <4>1. p \in Seq(Letters) /\ r \in Seq(Letters)
                BY <1>0, <2>2, <2>4
            <4>2. OpenTag \o (q \o CloseTag) \in Seq(Letters)
                BY <1>0, <2>2, <2>4
            <4>3. \A x \in Seq(Letters) : (p \o x) \o r = p \o (x \o r)
                BY ONLY <4>1, ConcatAssociative
            <4>. QED
                BY ONLY <4>2, <4>3
        <3>. QED
            BY ONLY <3>1, <3>2, <3>3
    <2>. QED
        BY <2>3, <2>4
<1>7. Parsed(done \o tail, v \o p, t \o q)
    <2>1. ASSUME NEW r, r \in Seq(Letters)
          PROVE  Once[Begin((done \o tail) \o r)] = Once[[text |-> r, vis |-> v \o p, thk |-> t \o q]]
        <3>1. (done \o tail) \o r = done \o (tail \o r)
            <4> HIDE DEF tail
            <4>1. done \in Seq(Letters) /\ tail \in Seq(Letters) /\ r \in Seq(Letters)
                BY <1>0, <1>6, <2>1
            <4>. QED
                BY ONLY <4>1, ConcatAssociative
        <3>2. tail \o r \in Seq(Letters)
            <4> HIDE DEF tail
            <4>. QED
                BY ONLY <1>6, r \in Seq(Letters), Adjoined
        <3>3. Once[Begin(done \o (tail \o r))] = Once[[text |-> tail \o r, vis |-> v, thk |-> t]]
            <4> HIDE DEF tail
            <4>. QED
                BY <1>2, <3>2 DEF Parsed
        <3>4. Once[[text |-> BothTags(r), vis |-> v, thk |-> t]] = Once[[text |-> r, vis |-> v \o p, thk |-> t \o q]]
            <4>1. AtTags(p, q, v, t, r)
                BY <1>2, <1>5, <2>1 DEF AtTags
            <4>2. GoesOn(p, q, v, t, r)
                BY <4>1, SplitAtTags
            <4>. QED
                BY <4>2 DEF GoesOn
        <3>. QED
            BY <1>6, <2>1, <3>1, <3>3, <3>4
    <2>. QED
        BY <2>1 DEF Parsed
<1>8. total = (done \o tail) \o (<<>> \o b)
    <2>1. <<>> \o b = b
        BY ONLY <1>4, ConcatEmptySeq
    <2>2. (done \o tail) \o b = done \o (tail \o b)
        <3> HIDE DEF tail
        <3>1. done \in Seq(Letters) /\ tail \in Seq(Letters) /\ b \in Seq(Letters)
            BY <1>0, <1>4, <1>6
        <3>. QED
            BY ONLY <3>1, ConcatAssociative
    <2>3. tail \o b = BothTags(b)
        BY <1>4, <1>6
    <2>4. u \o text = q \o (CloseTag \o b)
        <3>1. CloseTag \o b \in Seq(Letters)
            BY ONLY <1>1, <1>4, Adjoined
        <3>2. (u \o a) \o (CloseTag \o b) = u \o (a \o (CloseTag \o b))
            <4>1. u \in Seq(Letters) /\ a \in Seq(Letters)
                BY <1>0, <1>4, <3>1
            <4>2. CloseTag \o b \in Seq(Letters)
                BY <1>0, <1>4, <3>1
            <4>3. \A x \in Seq(Letters) : (u \o a) \o x = u \o (a \o x)
                BY ONLY <4>1, ConcatAssociative
            <4>. QED
                BY ONLY <4>2, <4>3
        <3>. QED
            BY <1>3, <1>5, <3>1, <3>2
    <2>. QED
        BY <1>2, <2>1, <2>2, <2>3, <2>4
<1>9. thk \o a = t \o q
    <2>1. (t \o u) \o a = t \o (u \o a)
        <3>1. t \in Seq(Letters) /\ u \in Seq(Letters) /\ a \in Seq(Letters)
            BY <1>0, <1>4
        <3>. QED
            BY ONLY <3>1, ConcatAssociative
    <2>. QED
        BY <1>2, <1>5, <2>1
<1>10. vis = (v \o p) \o <<>> /\ v \o p \in Seq(Letters) /\ <<>> \in Seq(Letters)
    <2>1. v \o p \in Seq(Letters)
        BY ONLY <1>0, Adjoined
    <2>. QED
        BY <1>2, <2>1, ConcatEmptySeq, EmptySeq
<1>11. done \o tail \in Seq(Letters)
    <2> HIDE DEF tail
    <2>. QED
        BY ONLY <1>0, <1>6, Adjoined
<1>12. NoneBegins(OpenTag, <<>>, b)
    BY ONLY <1>1, <1>4, NoneBeginsYet
<1>13. Outside(total, b, vis, thk \o a)
    <2> HIDE DEF tail
    <2>. QED
        BY <1>7, <1>8, <1>9, <1>10, <1>11, <1>12 DEF Outside
<1>. QED
    BY <1>3, <1>13

LEMMA HeldOutside ==
  ASSUME NEW total, NEW text, NEW vis, NEW thk, text \in Seq(Letters), Outside(total, text, vis, thk),
         Found(OpenTag, text) = {}, NEW n, n = Len(text) - Hold(text, OpenTag)
  PROVE  /\ Outside(total, From(text, n + 1), vis \o SubSeq(text, 1, n), thk)
         /\ Found(OpenTag, From(text, n + 1)) = {} /\ n \in 0..Len(text)
<1>1. OpenTag \in Seq(Letters) /\ OpenTag # <<>>
    BY ThinkAssumption
<1>2. PICK done, v, u :
             /\ done \in Seq(Letters) /\ v \in Seq(Letters) /\ u \in Seq(Letters)
             /\ Parsed(done, v, thk) /\ vis = v \o u
             /\ total = done \o (u \o text) /\ NoneBegins(OpenTag, u, text)
    BY DEF Outside
<1>3. /\ n \in 0..Len(text) /\ NoneBegins(OpenTag, u \o SubSeq(text, 1, n), From(text, n + 1))
      /\ Found(OpenTag, From(text, n + 1)) = {}
    <2>1. NoneBegins(OpenTag, u, text) /\ u \in Seq(Letters)
        BY <1>2
    <2>. QED
        BY <1>1, <2>1, HoldsEnough
<1>4. PICK a, w : /\ a = SubSeq(text, 1, n) /\ w = From(text, n + 1) /\ text = a \o w
                  /\ a \in Seq(Letters) /\ w \in Seq(Letters)
    <2>1. n \in 0..Len(text)
        BY <1>3
    <2>2. /\ text = SubSeq(text, 1, n) \o From(text, n + 1)
          /\ SubSeq(text, 1, n) \in Seq(Letters) /\ From(text, n + 1) \in Seq(Letters)
        BY ONLY <2>1, text \in Seq(Letters), CutAt
    <2>. QED
        BY <2>2, Zenon
<1>5. total = done \o ((u \o a) \o w)
    <2>1. u \in Seq(Letters) /\ a \in Seq(Letters) /\ w \in Seq(Letters)
        BY <1>2, <1>4
    <2>2. (u \o a) \o w = u \o (a \o w)
        BY ONLY <2>1, ConcatAssociative
    <2>. QED
        BY <1>2, <1>4, <2>2
<1>6. vis \o a = v \o (u \o a)
    <2>1. v \in Seq(Letters) /\ u \in Seq(Letters) /\ a \in Seq(Letters)
        BY <1>2, <1>4
    <2>2. (v \o u) \o a = v \o (u \o a)
        BY ONLY <2>1, ConcatAssociative
    <2>. QED
        BY <1>2, <2>2
<1>7. u \o a \in Seq(Letters)
    <2>1. u \in Seq(Letters) /\ a \in Seq(Letters)
        BY <1>2, <1>4
    <2>. QED
        BY ONLY <2>1, Adjoined
<1>8. Outside(total, w, vis \o a, thk)
    BY <1>2, <1>3, <1>4, <1>5, <1>6, <1>7, Zenon DEF Outside
<1>. QED
    BY <1>3, <1>4, <1>8

LEMMA HeldInside ==
  ASSUME NEW total, NEW text, NEW vis, NEW thk, text \in Seq(Letters), Inside(total, text, vis, thk),
         Found(CloseTag, text) = {}, NEW n, n = Len(text) - Hold(text, CloseTag)
  PROVE  /\ Inside(total, From(text, n + 1), vis, thk \o SubSeq(text, 1, n))
         /\ Found(CloseTag, From(text, n + 1)) = {} /\ n \in 0..Len(text)
<1>1. CloseTag \in Seq(Letters) /\ CloseTag # <<>>
    BY ThinkAssumption
<1>2. PICK done, v, t, p, u :
             /\ done \in Seq(Letters) /\ v \in Seq(Letters) /\ t \in Seq(Letters)
             /\ p \in Seq(Letters) /\ u \in Seq(Letters)
             /\ Parsed(done, v, t) /\ FirstAfter(OpenTag, p) /\ vis = v \o p /\ thk = t \o u
             /\ total = done \o (p \o (OpenTag \o (u \o text))) /\ NoneBegins(CloseTag, u, text)
    BY DEF Inside
<1>3. /\ n \in 0..Len(text) /\ NoneBegins(CloseTag, u \o SubSeq(text, 1, n), From(text, n + 1))
      /\ Found(CloseTag, From(text, n + 1)) = {}
    <2>1. NoneBegins(CloseTag, u, text) /\ u \in Seq(Letters)
        BY <1>2
    <2>. QED
        BY <1>1, <2>1, HoldsEnough
<1>4. PICK a, w : /\ a = SubSeq(text, 1, n) /\ w = From(text, n + 1) /\ text = a \o w
                  /\ a \in Seq(Letters) /\ w \in Seq(Letters)
    <2>1. n \in 0..Len(text)
        BY <1>3
    <2>2. /\ text = SubSeq(text, 1, n) \o From(text, n + 1)
          /\ SubSeq(text, 1, n) \in Seq(Letters) /\ From(text, n + 1) \in Seq(Letters)
        BY ONLY <2>1, text \in Seq(Letters), CutAt
    <2>. QED
        BY <2>2, Zenon
<1>5. total = done \o (p \o (OpenTag \o ((u \o a) \o w)))
    <2>1. u \in Seq(Letters) /\ a \in Seq(Letters) /\ w \in Seq(Letters)
        BY <1>2, <1>4
    <2>2. (u \o a) \o w = u \o (a \o w)
        BY ONLY <2>1, ConcatAssociative
    <2>. QED
        BY <1>2, <1>4, <2>2
<1>6. thk \o a = t \o (u \o a)
    <2>1. t \in Seq(Letters) /\ u \in Seq(Letters) /\ a \in Seq(Letters)
        BY <1>2, <1>4
    <2>2. (t \o u) \o a = t \o (u \o a)
        BY ONLY <2>1, ConcatAssociative
    <2>. QED
        BY <1>2, <2>2
<1>7. u \o a \in Seq(Letters)
    <2>1. u \in Seq(Letters) /\ a \in Seq(Letters)
        BY <1>2, <1>4
    <2>. QED
        BY ONLY <2>1, Adjoined
<1>8. Inside(total, w, vis, thk \o a)
    BY <1>2, <1>3, <1>4, <1>5, <1>6, <1>7, Zenon DEF Inside
<1>. QED
    BY <1>3, <1>4, <1>8

(* A delta more.                                                           *)
LEMMA MoreOutside ==
  ASSUME NEW total, NEW text, NEW vis, NEW thk, NEW delta, text \in Seq(Letters), delta \in Seq(Letters),
         Outside(total, text, vis, thk)
  PROVE  Outside(total \o delta, text \o delta, vis, thk)
<1>1. PICK done, v, u :
             /\ done \in Seq(Letters) /\ v \in Seq(Letters) /\ u \in Seq(Letters)
             /\ Parsed(done, v, thk) /\ vis = v \o u
             /\ total = done \o (u \o text) /\ NoneBegins(OpenTag, u, text)
    BY DEF Outside
<1>2. (done \o (u \o text)) \o delta = done \o (u \o (text \o delta))
    <2>1. u \in Seq(Letters) /\ text \in Seq(Letters) /\ delta \in Seq(Letters)
        BY <1>1
    <2>2. (u \o text) \o delta = u \o (text \o delta)
        BY ONLY <2>1, ConcatAssociative
    <2>3. u \o text \in Seq(Letters)
        BY ONLY <2>1, Adjoined
    <2>4. done \in Seq(Letters)
        BY <1>1
    <2>5. \A x \in Seq(Letters) : (done \o x) \o delta = done \o (x \o delta)
        BY ONLY <2>4, delta \in Seq(Letters), ConcatAssociative
    <2>. QED
        BY ONLY <2>2, <2>3, <2>5
<1>3. NoneBegins(OpenTag, u, text \o delta)
    <2>1. u \in Seq(Letters) /\ NoneBegins(OpenTag, u, text)
        BY <1>1
    <2>. QED
        BY ONLY <2>1, text \in Seq(Letters), delta \in Seq(Letters), MoreComes
<1>4. total \o delta = done \o (u \o (text \o delta))
    BY <1>1, <1>2
<1>. QED
    BY <1>1, <1>3, <1>4, Zenon DEF Outside

LEMMA MoreInside ==
  ASSUME NEW total, NEW text, NEW vis, NEW thk, NEW delta, text \in Seq(Letters), delta \in Seq(Letters),
         Inside(total, text, vis, thk)
  PROVE  Inside(total \o delta, text \o delta, vis, thk)
<1>1. PICK done, v, t, p, u :
             /\ done \in Seq(Letters) /\ v \in Seq(Letters) /\ t \in Seq(Letters)
             /\ p \in Seq(Letters) /\ u \in Seq(Letters)
             /\ Parsed(done, v, t) /\ FirstAfter(OpenTag, p) /\ vis = v \o p /\ thk = t \o u
             /\ total = done \o (p \o (OpenTag \o (u \o text))) /\ NoneBegins(CloseTag, u, text)
    BY DEF Inside
<1>2. (done \o (p \o (OpenTag \o (u \o text)))) \o delta = done \o (p \o (OpenTag \o (u \o (text \o delta))))
    <2>1. u \in Seq(Letters) /\ text \in Seq(Letters) /\ delta \in Seq(Letters)
        BY <1>1
    <2>2. (u \o text) \o delta = u \o (text \o delta)
        BY ONLY <2>1, ConcatAssociative
    <2>3. u \o text \in Seq(Letters)
        BY ONLY <2>1, Adjoined
    <2>4. ASSUME NEW y, y \in Seq(Letters) PROVE \A x \in Seq(Letters) : (y \o x) \o delta = y \o (x \o delta)
        BY ONLY <2>4, delta \in Seq(Letters), ConcatAssociative
    <2>5. done \in Seq(Letters) /\ p \in Seq(Letters) /\ OpenTag \in Seq(Letters)
        BY <1>1, ThinkAssumption
    <2>6. OpenTag \o (u \o text) \in Seq(Letters)
        BY ONLY <2>3, <2>5, Adjoined
    <2>7. p \o (OpenTag \o (u \o text)) \in Seq(Letters)
        BY ONLY <2>5, <2>6, Adjoined
    <2>8. (OpenTag \o (u \o text)) \o delta = OpenTag \o ((u \o text) \o delta)
        BY ONLY <2>3, <2>4, <2>5
    <2>9. (p \o (OpenTag \o (u \o text))) \o delta = p \o ((OpenTag \o (u \o text)) \o delta)
        BY ONLY <2>4, <2>5, <2>6
    <2>10. (done \o (p \o (OpenTag \o (u \o text)))) \o delta = done \o ((p \o (OpenTag \o (u \o text))) \o delta)
        BY ONLY <2>4, <2>5, <2>7
    <2>. QED
        BY ONLY <2>2, <2>8, <2>9, <2>10
<1>3. NoneBegins(CloseTag, u, text \o delta)
    <2>1. u \in Seq(Letters) /\ NoneBegins(CloseTag, u, text)
        BY <1>1
    <2>. QED
        BY ONLY <2>1, text \in Seq(Letters), delta \in Seq(Letters), MoreComes
<1>4. total \o delta = done \o (p \o (OpenTag \o (u \o (text \o delta))))
    BY <1>1, <1>2
<1>. QED
    BY <1>1, <1>3, <1>4, Zenon DEF Inside

(* A turn of feed, on either side.                                         *)
Kept(s, total) ==
  /\ s \in Splits
  /\ s.in => Inside(total, s.text, s.vis, s.thk)
  /\ ~s.in => Outside(total, s.text, s.vis, s.thk)
NoneLeft(s) == Found(IF s.in THEN CloseTag ELSE OpenTag, s.text) = {}

LEMMA FeedTurn ==
  ASSUME NEW total, NEW s, Kept(s, total)
  PROVE  \/ Kept(Feed[s], total) /\ NoneLeft(Feed[s])
         \/ \E m : Kept(m, total) /\ Len(m.text) < Len(s.text) /\ Feed[s] = Feed[m]
<1>1. /\ s \in Splits /\ s.text \in Seq(Letters) /\ s.vis \in Seq(Letters) /\ s.thk \in Seq(Letters)
      /\ s.in \in BOOLEAN
      /\ s.in => Inside(total, s.text, s.vis, s.thk)
      /\ ~s.in => Outside(total, s.text, s.vis, s.thk)
    BY DEF Kept, Splits
<1>2. /\ OpenTag \in Seq(Letters) /\ OpenTag # <<>> /\ CloseTag \in Seq(Letters) /\ CloseTag # <<>>
    BY ThinkAssumption
<1>3. PICK text, vis, thk : text = s.text /\ vis = s.vis /\ thk = s.thk
    OBVIOUS
<1>4. text \in Seq(Letters) /\ vis \in Seq(Letters) /\ thk \in Seq(Letters)
    BY <1>1, <1>3
<1>5. CASE s.in
    <2>1. s = [in |-> TRUE, text |-> text, vis |-> vis, thk |-> thk] /\ Inside(total, text, vis, thk)
        BY <1>1, <1>3, <1>5 DEF Splits
    <2>2. PICK i : i = IndexOf(CloseTag, text)
        OBVIOUS
    <2>3. CASE i = 0
        <3>1. PICK n : n = Len(text) - Hold(text, CloseTag)
            OBVIOUS
        <3>2. Found(CloseTag, text) = {}
            BY <1>2, <1>4, <2>2, <2>3, FirstFound
        <3>3. /\ Inside(total, From(text, n + 1), vis, thk \o SubSeq(text, 1, n))
              /\ Found(CloseTag, From(text, n + 1)) = {} /\ n \in 0..Len(text)
            BY <1>4, <2>1, <3>1, <3>2, HeldInside
        <3>4. SubSeq(text, 1, n) \in Seq(Letters) /\ From(text, n + 1) \in Seq(Letters)
            BY <1>4, <3>3, CutAt
        <3>5. thk \o SubSeq(text, 1, n) \in Seq(Letters)
            BY <1>4, <3>4, Adjoined
        <3> DEFINE f == [in |-> TRUE, text |-> From(text, n + 1), vis |-> vis, thk |-> thk \o SubSeq(text, 1, n)]
        <3>6. Feed[s] = f
            <4>1. Feed[s] = FeedStep(Feed, s)
                BY <1>1, FeedUnfolds
            <4>2. FeedStep(Feed, s) = Out(s, n, s.in, n + 1)
                BY <1>5, <1>3, <2>2, <2>3, <3>1 DEF FeedStep
            <4>3. Out(s, n, s.in, n + 1) = f
                BY <2>1 DEF Out
            <4>. QED
                BY <4>1, <4>2, <4>3
        <3>7. Kept(f, total) /\ NoneLeft(f)
            BY <1>4, <3>3, <3>4, <3>5 DEF Kept, NoneLeft, Splits
        <3>. QED
            BY <3>6, <3>7
    <2>4. CASE i # 0
        <3> DEFINE m == [in |-> FALSE, text |-> From(text, i + Len(CloseTag)), vis |-> vis,
                         thk |-> thk \o SubSeq(text, 1, i - 1)]
        <3>1. Outside(total, From(text, i + Len(CloseTag)), vis, thk \o SubSeq(text, 1, i - 1))
            BY <1>4, <2>1, <2>2, <2>4, Closes
        <3>2. /\ SubSeq(text, 1, i - 1) \in Seq(Letters) /\ From(text, i + Len(CloseTag)) \in Seq(Letters)
              /\ Len(From(text, i + Len(CloseTag))) < Len(text)
            BY <1>2, <1>4, <2>2, <2>4, BehindTag
        <3>3. thk \o SubSeq(text, 1, i - 1) \in Seq(Letters)
            BY <1>4, <3>2, Adjoined
        <3>4. Feed[s] = Feed[m]
            <4>1. Feed[s] = FeedStep(Feed, s)
                BY <1>1, FeedUnfolds
            <4>2. FeedStep(Feed, s)
                    = Feed[Out(s, i - 1, ~s.in, i + Len(CloseTag))]
                BY <1>5, <1>3, <2>2, <2>4 DEF FeedStep
            <4>3. Out(s, i - 1, ~s.in, i + Len(CloseTag)) = m
                BY <2>1 DEF Out
            <4>. QED
                BY <4>1, <4>2, <4>3
        <3>5. Kept(m, total) /\ Len(m.text) < Len(s.text)
            BY <1>3, <1>4, <3>1, <3>2, <3>3 DEF Kept, Splits
        <3> HIDE DEF m
        <3>. QED
            BY <3>4, <3>5
    <2>. QED
        BY <2>3, <2>4
<1>6. CASE ~s.in
    <2>1. s = [in |-> FALSE, text |-> text, vis |-> vis, thk |-> thk] /\ Outside(total, text, vis, thk)
        BY <1>1, <1>3, <1>6 DEF Splits
    <2>2. PICK i : i = IndexOf(OpenTag, text)
        OBVIOUS
    <2>3. CASE i = 0
        <3>1. PICK n : n = Len(text) - Hold(text, OpenTag)
            OBVIOUS
        <3>2. Found(OpenTag, text) = {}
            BY <1>2, <1>4, <2>2, <2>3, FirstFound
        <3>3. /\ Outside(total, From(text, n + 1), vis \o SubSeq(text, 1, n), thk)
              /\ Found(OpenTag, From(text, n + 1)) = {} /\ n \in 0..Len(text)
            BY <1>4, <2>1, <3>1, <3>2, HeldOutside
        <3>4. SubSeq(text, 1, n) \in Seq(Letters) /\ From(text, n + 1) \in Seq(Letters)
            BY <1>4, <3>3, CutAt
        <3>5. vis \o SubSeq(text, 1, n) \in Seq(Letters)
            BY <1>4, <3>4, Adjoined
        <3> DEFINE f == [in |-> FALSE, text |-> From(text, n + 1), vis |-> vis \o SubSeq(text, 1, n), thk |-> thk]
        <3>6. Feed[s] = f
            <4>1. Feed[s] = FeedStep(Feed, s)
                BY <1>1, FeedUnfolds
            <4>2. FeedStep(Feed, s) = Out(s, n, s.in, n + 1)
                BY <1>6, <1>3, <2>2, <2>3, <3>1 DEF FeedStep
            <4>3. Out(s, n, s.in, n + 1) = f
                BY <2>1 DEF Out
            <4>. QED
                BY <4>1, <4>2, <4>3
        <3>7. Kept(f, total) /\ NoneLeft(f)
            BY <1>4, <3>3, <3>4, <3>5 DEF Kept, NoneLeft, Splits
        <3>. QED
            BY <3>6, <3>7
    <2>4. CASE i # 0
        <3> DEFINE m == [in |-> TRUE, text |-> From(text, i + Len(OpenTag)),
                         vis |-> vis \o SubSeq(text, 1, i - 1), thk |-> thk]
        <3>1. Inside(total, From(text, i + Len(OpenTag)), vis \o SubSeq(text, 1, i - 1), thk)
            BY <1>4, <2>1, <2>2, <2>4, Opens
        <3>2. /\ SubSeq(text, 1, i - 1) \in Seq(Letters) /\ From(text, i + Len(OpenTag)) \in Seq(Letters)
              /\ Len(From(text, i + Len(OpenTag))) < Len(text)
            BY <1>2, <1>4, <2>2, <2>4, BehindTag
        <3>3. vis \o SubSeq(text, 1, i - 1) \in Seq(Letters)
            BY <1>4, <3>2, Adjoined
        <3>4. Feed[s] = Feed[m]
            <4>1. Feed[s] = FeedStep(Feed, s)
                BY <1>1, FeedUnfolds
            <4>2. FeedStep(Feed, s)
                    = Feed[Out(s, i - 1, ~s.in, i + Len(OpenTag))]
                BY <1>6, <1>3, <2>2, <2>4 DEF FeedStep
            <4>3. Out(s, i - 1, ~s.in, i + Len(OpenTag)) = m
                BY <2>1 DEF Out
            <4>. QED
                BY <4>1, <4>2, <4>3
        <3>5. Kept(m, total) /\ Len(m.text) < Len(s.text)
            BY <1>3, <1>4, <3>1, <3>2, <3>3 DEF Kept, Splits
        <3> HIDE DEF m
        <3>. QED
            BY <3>4, <3>5
    <2>. QED
        BY <2>3, <2>4
<1>. QED
    BY <1>1, <1>5, <1>6

LEMMA FeedKeeps ==
  ASSUME NEW total, NEW s, Kept(s, total)
  PROVE  Kept(Feed[s], total) /\ NoneLeft(Feed[s])
<1> DEFINE S == {k \in Nat : \A x : Kept(x, total) /\ Len(x.text) <= k
                                     => Kept(Feed[x], total) /\ NoneLeft(Feed[x])}
<1>1. ASSUME NEW x, Kept(x, total) PROVE Len(x.text) \in Nat
    <2>1. x.text \in Seq(Letters)
        BY <1>1 DEF Kept, Splits
    <2>. QED
        BY <2>1, LenProperties
<1>2. 0 \in S
    <2>1. ASSUME NEW x, Kept(x, total), Len(x.text) <= 0
          PROVE  Kept(Feed[x], total) /\ NoneLeft(Feed[x])
        <3>1. ASSUME NEW m, Kept(m, total), Len(m.text) < Len(x.text) PROVE FALSE
            BY <1>1, <2>1, <3>1
        <3>. QED
            BY <2>1, <3>1, FeedTurn
    <2>. QED
        BY <2>1
<1>3. ASSUME NEW k \in S PROVE k + 1 \in S
    <2>1. ASSUME NEW x, Kept(x, total), Len(x.text) <= k + 1
          PROVE  Kept(Feed[x], total) /\ NoneLeft(Feed[x])
        <3>1. CASE \E m : Kept(m, total) /\ Len(m.text) < Len(x.text) /\ Feed[x] = Feed[m]
            <4>1. PICK m : Kept(m, total) /\ Len(m.text) < Len(x.text) /\ Feed[x] = Feed[m]
                BY <3>1
            <4>2. Len(m.text) <= k
                BY <1>1, <2>1, <4>1
            <4>. QED
                BY <4>1, <4>2
        <3>. QED
            BY <2>1, <3>1, FeedTurn
    <2>. QED
        BY <2>1
<1>4. S = Nat
    <2>1. S \in SUBSET Nat
        OBVIOUS
    <2> HIDE DEF S
    <2>. QED
        BY <1>2, <1>3, <2>1, FromZeroOn
<1>5. Len(s.text) \in S /\ Len(s.text) <= Len(s.text)
    BY <1>1, <1>4
<1>. QED
    BY <1>5

(* What is held back and what was passed on say where the splitter is in   *)
(* what was sent, and a held back end has no tag.                          *)
Splitter == [in |-> inThink, text |-> carry, vis |-> visible, thk |-> thinking]
SplitterInv == sent \in Seq(Letters) /\ Kept(Splitter, sent) /\ NoneLeft(Splitter)

LEMMA SplitterStarts == ASSUME ThinkInit PROVE SplitterInv
<1>0. OpenTag \in Seq(Letters) /\ OpenTag # <<>> /\ <<>> \in Seq(Letters)
    BY ThinkAssumption, EmptySeq
<1> DEFINE s == [in |-> FALSE, text |-> <<>>, vis |-> <<>>, thk |-> <<>>]
<1>1. Splitter = s /\ sent = <<>>
    BY DEF ThinkInit, Splitter
<1>2. \A r \in Seq(Letters) : <<>> \o r = r
    BY ConcatEmptySeq
<1>3. Parsed(<<>>, <<>>, <<>>)
    BY <1>2 DEF Parsed, Begin
<1>4. NoneBegins(OpenTag, <<>>, <<>>)
    BY ONLY <1>0, NoneBeginsYet
<1>5. <<>> = <<>> \o <<>> /\ <<>> = <<>> \o (<<>> \o <<>>)
    BY <1>0, <1>2
<1>6. Outside(<<>>, <<>>, <<>>, <<>>)
    BY <1>0, <1>3, <1>4, <1>5, Zenon DEF Outside
<1>7. s \in Splits /\ ~s.in /\ s.text = <<>> /\ s.vis = <<>> /\ s.thk = <<>>
    BY <1>0 DEF Splits
<1>8. Found(OpenTag, <<>>) = {}
    <2>1. Len(OpenTag) \in Nat \ {0} /\ Len(<<>>) = 0
        BY <1>0, LenProperties, EmptySeq
    <2>2. ASSUME NEW i \in Found(OpenTag, <<>>) PROVE FALSE
        <3>1. i \in Nat \ {0} /\ i - 1 + Len(OpenTag) <= Len(<<>>)
            BY ONLY <1>0, <2>2, FoundIff
        <3>. QED
            BY <2>1, <3>1
    <2>. QED
        BY <2>2
<1>9. Kept(s, <<>>) /\ NoneLeft(s)
    <2> HIDE DEF s
    <2>. QED
        BY <1>6, <1>7, <1>8 DEF Kept, NoneLeft
<1>. QED
    BY <1>0, <1>1, <1>9 DEF SplitterInv

LEMMA SplitterStep == ASSUME SplitterInv, [ThinkNext]_thinkVars PROVE SplitterInv'
<1>1. ASSUME NEW delta \in Deltas, DeltaArrives(delta) PROVE SplitterInv'
    <2>1. delta \in Seq(Letters)
        BY DEF Deltas
    <2>2. PICK s : s = [in |-> inThink, text |-> carry \o delta, vis |-> visible, thk |-> thinking]
        OBVIOUS
    <2>3. /\ inThink' = Feed[s].in /\ carry' = Feed[s].text /\ visible' = Feed[s].vis /\ thinking' = Feed[s].thk
          /\ sent' = sent \o delta
        BY <1>1, <2>2 DEF DeltaArrives
    <2>4. /\ sent \in Seq(Letters) /\ carry \in Seq(Letters) /\ visible \in Seq(Letters) /\ thinking \in Seq(Letters)
          /\ inThink \in BOOLEAN
          /\ inThink => Inside(sent, carry, visible, thinking)
          /\ ~inThink => Outside(sent, carry, visible, thinking)
        BY DEF SplitterInv, Splitter, Kept, Splits
    <2>5. sent \o delta \in Seq(Letters) /\ carry \o delta \in Seq(Letters)
        BY <2>1, <2>4, Adjoined
    <2>6. /\ inThink => Inside(sent \o delta, carry \o delta, visible, thinking)
          /\ ~inThink => Outside(sent \o delta, carry \o delta, visible, thinking)
        BY <2>1, <2>4, MoreInside, MoreOutside
    <2>7. Kept(s, sent \o delta)
        BY <2>2, <2>4, <2>5, <2>6 DEF Kept, Splits
    <2>8. Kept(Feed[s], sent \o delta) /\ NoneLeft(Feed[s])
        BY <2>7, FeedKeeps
    <2>9. Splitter' = Feed[s]
        <3>1. Feed[s] \in Splits
            BY <2>8 DEF Kept
        <3>2. Feed[s] = [in |-> Feed[s].in, text |-> Feed[s].text, vis |-> Feed[s].vis, thk |-> Feed[s].thk]
            BY <3>1 DEF Splits
        <3>. QED
            BY <2>3, <3>2 DEF Splitter
    <2>. QED
        BY <2>3, <2>5, <2>8, <2>9 DEF SplitterInv
<1>2. CASE ThinkEnds \/ UNCHANGED thinkVars
    BY <1>2 DEF ThinkEnds, thinkVars, SplitterInv, Splitter
<1>. QED
    BY <1>1, <1>2 DEF ThinkNext

LEMMA Agreeing ==
  ASSUME NEW answer, NEW last, answer = Once[[text |-> sent, vis |-> <<>>, thk |-> <<>>]],
         last = From(thinking, Len(answer.thk) + 1), answer.thk \o last = thinking,
         answer.vis = visible \o (IF inThink THEN OpenTag ELSE <<>>) \o last \o carry,
         ~inThink => last = <<>>
  PROVE  StreamSplitsLikeOnce
BY DEF StreamSplitsLikeOnce

LEMMA WholeIs ==
  ASSUME NEW w, NEW t, NEW last, Once[Begin(sent)] = [vis |-> w, thk |-> t], From(thinking, Len(t) + 1) = last,
         t \o last = thinking, ~inThink => last = <<>>,
         w = visible \o (IF inThink THEN OpenTag ELSE <<>>) \o last \o carry
  PROVE  StreamSplitsLikeOnce
<1>1. PICK answer : answer = Once[[text |-> sent, vis |-> <<>>, thk |-> <<>>]]
    OBVIOUS
<1>2. answer.thk = t /\ answer.vis = w
    BY <1>1 DEF Begin
<1>3. last = From(thinking, Len(answer.thk) + 1)
    BY <1>2
<1>4. answer.thk \o last = thinking /\ (~inThink => last = <<>>)
    BY <1>2
<1>5. answer.vis = visible \o (IF inThink THEN OpenTag ELSE <<>>) \o last \o carry
    BY <1>2
<1>. QED
    BY ONLY <1>1, <1>3, <1>4, <1>5, Agreeing

LEMMA SplitLikeOnce == SplitterInv => StreamSplitsLikeOnce
<1> SUFFICES ASSUME SplitterInv PROVE StreamSplitsLikeOnce
    OBVIOUS
<1>0. /\ OpenTag \in Seq(Letters) /\ OpenTag # <<>> /\ CloseTag \in Seq(Letters) /\ CloseTag # <<>>
      /\ <<>> \in Seq(Letters)
    BY ThinkAssumption, EmptySeq
<1>1. PICK all, text, vis, thk : all = sent /\ text = carry /\ vis = visible /\ thk = thinking
    OBVIOUS
<1>2. /\ all \in Seq(Letters) /\ text \in Seq(Letters) /\ vis \in Seq(Letters) /\ thk \in Seq(Letters)
      /\ inThink \in BOOLEAN
      /\ inThink => Inside(all, text, vis, thk) /\ Found(CloseTag, text) = {}
      /\ ~inThink => Outside(all, text, vis, thk) /\ Found(OpenTag, text) = {}
    BY <1>1 DEF SplitterInv, Splitter, Kept, NoneLeft, Splits
<1>3. CASE inThink
    <2>1. PICK done, v, t, p, u :
             /\ done \in Seq(Letters) /\ v \in Seq(Letters) /\ t \in Seq(Letters)
             /\ p \in Seq(Letters) /\ u \in Seq(Letters)
             /\ Parsed(done, v, t) /\ FirstAfter(OpenTag, p) /\ vis = v \o p /\ thk = t \o u
             /\ all = done \o (p \o (OpenTag \o (u \o text))) /\ NoneBegins(CloseTag, u, text)
        BY <1>2, <1>3 DEF Inside
    <2>2. u \in Seq(Letters) /\ p \in Seq(Letters) /\ v \in Seq(Letters) /\ t \in Seq(Letters)
        BY <2>1
    <2>3. PICK w : w = u \o text /\ w \in Seq(Letters) /\ Found(CloseTag, w) = {}
        <3>1. u \o text \in Seq(Letters)
            <4>1. u \in Seq(Letters) /\ text \in Seq(Letters)
                BY <1>2, <2>2
            <4>. QED
                BY ONLY <4>1, Adjoined
        <3>2. Found(CloseTag, u \o text) = {}
            <4>1. /\ u \in Seq(Letters) /\ text \in Seq(Letters) /\ NoneBegins(CloseTag, u, text)
                  /\ Found(CloseTag, text) = {} /\ CloseTag \in Seq(Letters) /\ CloseTag # <<>>
                BY <1>0, <1>2, <1>3, <2>1
            <4>. QED
                BY ONLY <4>1, NoneAtAll
        <3>. QED
            BY <3>1, <3>2
    <2>4. PICK x : x = OpenTag \o w /\ x \in Seq(Letters)
        <3>1. w \in Seq(Letters)
            BY <2>3
        <3>2. OpenTag \o w \in Seq(Letters)
            BY ONLY <1>0, <3>1, Adjoined
        <3>. QED
            BY <3>2
    <2>5. PICK y : y = p \o x /\ y \in Seq(Letters)
        <3>1. x \in Seq(Letters) /\ p \in Seq(Letters)
            BY <2>2, <2>4
        <3>2. p \o x \in Seq(Letters)
            BY ONLY <3>1, Adjoined
        <3>. QED
            BY <3>2
    <2>6. IndexOf(OpenTag, y) = Len(p) + 1
        BY <2>1, <2>3, <2>4, <2>5 DEF FirstAfter
    <2>7. From(y, Len(p) + 1 + Len(OpenTag)) = w
        <3>1. p \in Seq(Letters) /\ OpenTag \in Seq(Letters) /\ w \in Seq(Letters)
            BY <1>0, <2>2, <2>3
        <3>2. From(p \o (OpenTag \o w), Len(p \o OpenTag) + 1) = w
            BY ONLY <3>1, UncutTwo
        <3>3. Len(p \o OpenTag) = Len(p) + Len(OpenTag) /\ Len(p) \in Nat /\ Len(OpenTag) \in Nat
            BY ONLY <3>1, Adjoined
        <3>4. Len(p) + 1 + Len(OpenTag) = Len(p \o OpenTag) + 1
            BY ONLY <3>3
        <3>. QED
            BY <2>4, <2>5, <3>2, <3>4
    <2>8. IndexOf(CloseTag, w) = 0
        <3>1. w \in Seq(Letters) /\ Found(CloseTag, w) = {}
            BY <2>3
        <3>. QED
            BY ONLY <1>0, <3>1, FirstFound
    <2>9. Once[[text |-> y, vis |-> v, thk |-> t]] = [vis |-> v \o y, thk |-> t]
        <3>1. IndexOf(CloseTag, From(y, IndexOf(OpenTag, y) + Len(OpenTag))) = 0
            BY <2>6, <2>7, <2>8
        <3>2. y \in Seq(Letters) /\ v \in Seq(Letters) /\ t \in Seq(Letters)
            BY <2>2, <2>5
        <3>. QED
            BY ONLY <3>1, <3>2, AnswerEnds
    <2>10. Once[Begin(all)] = [vis |-> v \o y, thk |-> t]
        <3>1. Once[Begin(done \o y)] = Once[[text |-> y, vis |-> v, thk |-> t]]
            BY <2>1, <2>5 DEF Parsed
        <3>2. all = done \o y
            BY <2>1, <2>3, <2>4, <2>5
        <3>. QED
            BY <2>9, <3>1, <3>2
    <2>11. From(thk, Len(t) + 1) = u
        <3>1. From(t \o u, Len(t) + 1) = u
            BY ONLY <2>2, Uncut
        <3>. QED
            BY <2>1, <3>1
    <2>12. v \o y = ((vis \o OpenTag) \o u) \o text
        <3>1. \A a, b, c \in Seq(Letters) : (a \o b) \o c = a \o (b \o c)
            BY ConcatAssociative
        <3>2. v \o y = vis \o x
            <4>1. v \in Seq(Letters) /\ p \in Seq(Letters) /\ x \in Seq(Letters)
                BY <2>2, <2>4
            <4>2. (v \o p) \o x = v \o (p \o x)
                BY ONLY <4>1, ConcatAssociative
            <4>. QED
                BY <2>1, <2>5, <4>2
        <3>3. vis \o x = (vis \o OpenTag) \o w
            <4>1. vis \in Seq(Letters) /\ OpenTag \in Seq(Letters) /\ w \in Seq(Letters)
                BY <1>0, <1>2, <2>3
            <4>2. (vis \o OpenTag) \o w = vis \o (OpenTag \o w)
                BY ONLY <4>1, ConcatAssociative
            <4>. QED
                BY <2>4, <4>2
        <3>4. (vis \o OpenTag) \o w = ((vis \o OpenTag) \o u) \o text
            <4>1. vis \o OpenTag \in Seq(Letters)
                <5>1. vis \in Seq(Letters) /\ OpenTag \in Seq(Letters)
                    BY <1>0, <1>2
                <5>. QED
                    BY ONLY <5>1, Adjoined
            <4>2. u \in Seq(Letters) /\ text \in Seq(Letters)
                BY <1>2, <2>2
            <4>3. \A z \in Seq(Letters) : (z \o u) \o text = z \o (u \o text)
                BY ONLY <4>2, ConcatAssociative
            <4>. QED
                BY <2>3, <4>1, <4>3
        <3>. QED
            BY <3>2, <3>3, <3>4
    <2>. QED
        <3>1. /\ Once[Begin(sent)] = [vis |-> v \o y, thk |-> t] /\ From(thinking, Len(t) + 1) = u
              /\ t \o u = thinking
              /\ v \o y = visible \o (IF inThink THEN OpenTag ELSE <<>>) \o u \o carry
            BY <1>1, <1>3, <2>1, <2>10, <2>11, <2>12
        <3>. QED
            BY <1>3, <3>1, WholeIs
<1>4. CASE ~inThink
    <2>1. PICK done, v, u :
             /\ done \in Seq(Letters) /\ v \in Seq(Letters) /\ u \in Seq(Letters)
             /\ Parsed(done, v, thk) /\ vis = v \o u
             /\ all = done \o (u \o text) /\ NoneBegins(OpenTag, u, text)
        BY <1>2, <1>4 DEF Outside
    <2>2. PICK w : w = u \o text /\ w \in Seq(Letters) /\ Found(OpenTag, w) = {}
        <3>1. u \o text \in Seq(Letters)
            <4>1. u \in Seq(Letters) /\ text \in Seq(Letters)
                BY <1>2, <2>1
            <4>. QED
                BY ONLY <4>1, Adjoined
        <3>2. Found(OpenTag, u \o text) = {}
            <4>1. /\ u \in Seq(Letters) /\ text \in Seq(Letters) /\ NoneBegins(OpenTag, u, text)
                  /\ Found(OpenTag, text) = {} /\ OpenTag \in Seq(Letters) /\ OpenTag # <<>>
                BY <1>0, <1>2, <1>4, <2>1
            <4>. QED
                BY ONLY <4>1, NoneAtAll
        <3>. QED
            BY <3>1, <3>2
    <2>3. IndexOf(OpenTag, w) = 0
        <3>1. w \in Seq(Letters) /\ Found(OpenTag, w) = {}
            BY <2>2
        <3>. QED
            BY ONLY <1>0, <3>1, FirstFound
    <2>4. Once[[text |-> w, vis |-> v, thk |-> thk]] = [vis |-> v \o w, thk |-> thk]
        <3>1. w \in Seq(Letters) /\ v \in Seq(Letters) /\ thk \in Seq(Letters)
            BY <1>2, <2>1, <2>2
        <3>. QED
            BY ONLY <2>3, <3>1, AnswerEnds
    <2>5. Once[Begin(all)] = [vis |-> v \o w, thk |-> thk]
        <3>1. Once[Begin(done \o w)] = Once[[text |-> w, vis |-> v, thk |-> thk]]
            BY <2>1, <2>2 DEF Parsed
        <3>. QED
            BY <2>1, <2>2, <2>4, <3>1
    <2>6. thk \o <<>> = thk /\ vis \o <<>> = vis
        BY <1>2, ConcatEmptySeq
    <2>7. From(thk, Len(thk) + 1) = <<>>
        <3>1. From(thk \o <<>>, Len(thk) + 1) = <<>>
            <4>1. thk \in Seq(Letters) /\ <<>> \in Seq(Letters)
                BY <1>0, <1>2
            <4>. QED
                BY ONLY <4>1, Uncut
        <3>. QED
            BY <2>6, <3>1
    <2>8. v \o w = ((vis \o <<>>) \o <<>>) \o text
        <3>1. v \in Seq(Letters) /\ u \in Seq(Letters) /\ text \in Seq(Letters)
            BY <1>2, <2>1
        <3>2. (v \o u) \o text = v \o (u \o text)
            BY ONLY <3>1, ConcatAssociative
        <3>. QED
            BY <2>1, <2>2, <2>6, <3>2
    <2>. QED
        <3>1. /\ Once[Begin(sent)] = [vis |-> v \o w, thk |-> thk] /\ From(thinking, Len(thk) + 1) = <<>>
              /\ thk \o <<>> = thinking
              /\ v \o w = visible \o (IF inThink THEN OpenTag ELSE <<>>) \o <<>> \o carry
            BY <1>1, <1>4, <2>5, <2>6, <2>7, <2>8
        <3>. QED
            BY <3>1, WholeIs
<1>. QED
    BY <1>2, <1>3, <1>4

(* However the deltas are cut, the stream is split as the whole answer.    *)
THEOREM StreamIsSplitLikeOnce == ThinkSpec => []StreamSplitsLikeOnce
<1>1. ThinkInit => SplitterInv
    BY SplitterStarts
<1>2. SplitterInv /\ [ThinkNext]_thinkVars => SplitterInv'
    BY SplitterStep
<1>. QED
    BY <1>1, <1>2, SplitLikeOnce, PTL DEF ThinkSpec

=============================================================================
