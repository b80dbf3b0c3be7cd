----------------------------- MODULE ModelRouter -----------------------------
(***************************************************************************)
(* Calls of the model router (providers/src/model-router.ts and            *)
(* model-router/): dispatch with one retry and one fallback for chat, and  *)
(* the fallback stream.                                                    *)
(*                                                                         *)
(* Each call takes a route, a primary and maybe a fallback model, each on  *)
(* a provider.  A provider's limiter is here only its promise: it grants a *)
(* scheduled call a slot some time later (RateLimiter says when).  What    *)
(* matters is which upstream requests are made, with or without a slot,    *)
(* and which answers reach the limiter and the caller.                     *)
(***************************************************************************)
EXTENDS Integers, FiniteSets

CONSTANTS
    Calls,       \* calls of chat and chatStream
    Providers,
    NoProvider,  \* stands for a missing fallback
    Routes,      \* pairs of the providers of primary and fallback
    Kinds,       \* which of "chat" and "stream" are used
    MayLeave     \* whether clients disconnect from their stream

ASSUME RouterAssumption ==
    /\ NoProvider \notin Providers
    /\ Routes \subseteq Providers \X (Providers \cup {NoProvider}) /\ Routes # {}
    /\ Kinds \subseteq {"chat", "stream"}
    /\ MayLeave \in BOOLEAN

\* Answers of a provider: a response, the statuses the code distinguishes
\* ("bad" is any other 4xx and the 408 of withTimeout), and an exception that
\* is not a ProviderError, such as the caller's abort.
Replies == {"ok", "429", "auth", "bad", "5xx", "thrown"}
Errors == Replies \ {"ok"}
NoAnswer == "none"

VARIABLES
    pc,         \* where each call is
    kind,       \* chat or stream
    route,      \* its primary and fallback provider
    gone,       \* the client of the stream has disconnected
    outcome,    \* what the caller gets
    slots,      \* requests recorded by the limiter of each provider
    upstream,   \* requests sent to each provider
    backoffs,   \* calls of backoff429 on the limiter of each provider
    answers     \* history: the answers to each call, per attempt

routerVars == <<pc, kind, route, gone, outcome, slots, upstream, backoffs, answers>>

Attempts == {"primary", "retry", "fallback"}
Places == {"new", "queued", "primary", "retry", "fbqueued", "fallback", "settled"}
Outcomes == {"none", "ok", "auth", "exhausted", "thrown", "errorFrame", "left"}

Primary(c) == route[c][1]
Fallback(c) == route[c][2]
HasFallback(c) == Fallback(c) # NoProvider

-----------------------------------------------------------------------------
(* Requests to a provider and their answers.                                *)

Incremented(counter, p) == [counter EXCEPT ![p] = @ + 1]

\* The limiter of provider p records a slot and the call sends its request.
WithSlot(c, p, place) ==
    /\ pc' = [pc EXCEPT ![c] = place]
    /\ slots' = Incremented(slots, p)
    /\ upstream' = Incremented(upstream, p)

\* A request is sent without asking the limiter.
WithoutSlot(c, p, place) ==
    /\ pc' = [pc EXCEPT ![c] = place]
    /\ upstream' = Incremented(upstream, p)
    /\ UNCHANGED slots

Settle(c, result) ==
    /\ pc' = [pc EXCEPT ![c] = "settled"]
    /\ outcome' = [outcome EXCEPT ![c] = result]
    /\ UNCHANGED <<slots, upstream>>

\* History of an answer to attempt m of call c.
Answered(c, m, a) == answers' = [answers EXCEPT ![c][m] = a]

\* handleProviderError.
Handled(p, a) == backoffs' = IF a = "429" THEN Incremented(backoffs, p) ELSE backoffs

\* The fallback of a chat is scheduled on its own provider's limiter; without
\* a fallback the call fails with UpstreamExhaustedError.
ToFallback(c) ==
    IF HasFallback(c)
    THEN /\ pc' = [pc EXCEPT ![c] = "fbqueued"]
         /\ UNCHANGED <<slots, upstream, outcome>>
    ELSE Settle(c, "exhausted")

-----------------------------------------------------------------------------
\* chat and chatStream: schedule on the limiter of the primary's provider.
Submit(c, k, rt) ==
    /\ pc[c] = "new"
    /\ pc' = [pc EXCEPT ![c] = "queued"]
    /\ kind' = [kind EXCEPT ![c] = k]
    /\ route' = [route EXCEPT ![c] = rt]
    /\ UNCHANGED <<gone, outcome, slots, upstream, backoffs, answers>>

\* The limiter runs the call: the first request goes to the primary.
Start(c) ==
    /\ pc[c] = "queued"
    /\ WithSlot(c, Primary(c), "primary")
    /\ UNCHANGED <<kind, route, gone, outcome, backoffs, answers>>

-----------------------------------------------------------------------------
(* chat: runChatDispatch.                                                   *)

Retries(a) == a = "5xx"

\* Mutant: authorisation errors go on to the fallback.
NeverShortCircuits(a) == FALSE

\* 401 and 403 are rethrown.
ShortCircuits(a) == a = "auth"

PrimaryAnswers(c, a) ==
    /\ kind[c] = "chat" /\ pc[c] = "primary"
    /\ Answered(c, "primary", a)
    /\ Handled(Primary(c), a)
    /\ \/ a \in {"ok", "thrown"} /\ Settle(c, a)
       \/ ShortCircuits(a) /\ Settle(c, "auth")
       \/ Retries(a) /\ WithoutSlot(c, Primary(c), "retry") /\ UNCHANGED outcome
       \/ a \notin {"ok", "thrown"} /\ ~ShortCircuits(a) /\ ~Retries(a) /\ ToFallback(c)
    /\ UNCHANGED <<kind, route, gone>>

\* Any provider error of the retry leads to the fallback and is not handled.
RetryAnswers(c, a) ==
    /\ pc[c] = "retry"
    /\ Answered(c, "retry", a)
    /\ IF a \in {"ok", "thrown"} THEN Settle(c, a) ELSE ToFallback(c)
    /\ UNCHANGED <<kind, route, gone, backoffs>>

\* The limiter of the fallback's provider runs the call.
StartFallback(c) ==
    /\ pc[c] = "fbqueued"
    /\ WithSlot(c, Fallback(c), "fallback")
    /\ UNCHANGED <<kind, route, gone, outcome, backoffs, answers>>

\* The answer of the fallback ends the call.
AfterFallback(c, a) == Settle(c, IF a \in {"ok", "thrown"} THEN a ELSE "exhausted")

FallbackAnswers(c, a) ==
    /\ kind[c] = "chat" /\ pc[c] = "fallback"
    /\ Answered(c, "fallback", a)
    /\ AfterFallback(c, a)
    /\ UNCHANGED <<kind, route, gone, backoffs>>

-----------------------------------------------------------------------------
(* chatStream: createFallbackStream over createProxyStream.                 *)

Streaming(c) == kind[c] = "stream" /\ pc[c] \in {"primary", "fallback"}

\* The client cancels the stream; the router's stream has no cancel handler.
ClientLeaves(c) ==
    /\ MayLeave /\ Streaming(c) /\ ~gone[c]
    /\ gone' = [gone EXCEPT ![c] = TRUE]
    /\ UNCHANGED <<pc, kind, route, outcome, slots, upstream, backoffs, answers>>

\* The provider's stream ends.  createProxyStream turns every failure into
\* an error frame and a regular end, so the router takes it for a success.
StreamEnds(c, a) ==
    /\ Streaming(c) /\ ~gone[c]
    /\ Answered(c, pc[c], a)
    /\ Settle(c, IF a = "ok" THEN "ok" ELSE "errorFrame")
    /\ UNCHANGED <<kind, route, gone, backoffs>>

\* The next chunk for a client that has left: enqueue throws, which tryModel
\* takes for a failure of the model.
ChunkAfterCancel(c) ==
    /\ Streaming(c) /\ gone[c]
    /\ IF pc[c] = "primary" /\ HasFallback(c)
       THEN WithoutSlot(c, Fallback(c), "fallback") /\ UNCHANGED outcome
       ELSE Settle(c, "left")
    /\ UNCHANGED <<kind, route, gone, backoffs, answers>>

\* The provider's stream ends with no more chunks after the client has left.
EndsAfterCancel(c) ==
    /\ Streaming(c) /\ gone[c]
    /\ Settle(c, "left")
    /\ UNCHANGED <<kind, route, gone, backoffs, answers>>

-----------------------------------------------------------------------------
RouterInit ==
    /\ pc = [c \in Calls |-> "new"]
    /\ kind = [c \in Calls |-> "chat"]
    /\ route = [c \in Calls |-> CHOOSE rt \in Routes : TRUE]
    /\ gone = [c \in Calls |-> FALSE]
    /\ outcome = [c \in Calls |-> "none"]
    /\ slots = [p \in Providers |-> 0]
    /\ upstream = [p \in Providers |-> 0]
    /\ backoffs = [p \in Providers |-> 0]
    /\ answers = [c \in Calls |-> [m \in Attempts |-> NoAnswer]]

RouterNext ==
    \E c \in Calls :
        \/ \E k \in Kinds, rt \in Routes : Submit(c, k, rt)
        \/ Start(c) \/ StartFallback(c)
        \/ ClientLeaves(c) \/ ChunkAfterCancel(c) \/ EndsAfterCancel(c)
        \/ \E a \in Replies : \/ PrimaryAnswers(c, a) \/ RetryAnswers(c, a)
                              \/ FallbackAnswers(c, a) \/ StreamEnds(c, a)

RouterSpec == RouterInit /\ [][RouterNext]_routerVars

-----------------------------------------------------------------------------
(* Properties.                                                              *)

RouterTypeOK ==
    /\ pc \in [Calls -> Places]
    /\ kind \in [Calls -> {"chat", "stream"}]
    /\ route \in [Calls -> Routes]
    /\ gone \in [Calls -> BOOLEAN]
    /\ outcome \in [Calls -> Outcomes]
    /\ \A f \in {slots, upstream, backoffs} : f \in [Providers -> Nat]
    /\ answers \in [Calls -> [Attempts -> Replies \cup {NoAnswer}]]
    /\ \A c \in Calls : pc[c] \in {"fbqueued", "fallback"} => HasFallback(c)

Sent(c) == {m \in Attempts : answers[c][m] # NoAnswer}

\* A caller gets the result of the last request made for it: a success of any
\* attempt is returned, an authorisation error of the first one is not hidden
\* by later attempts, and exhaustion means that the last possible one failed.
OutcomeFollowsAnswers ==
    \A c \in Calls : kind[c] = "chat" =>
        /\ outcome[c] = "ok" <=> \E m \in Attempts : answers[c][m] = "ok"
        /\ answers[c]["primary"] = "auth" => outcome[c] = "auth" /\ Sent(c) = {"primary"}
        /\ outcome[c] = "exhausted" =>
              /\ HasFallback(c) <=> answers[c]["fallback"] \in Errors
              /\ answers[c]["primary"] = "5xx" <=> answers[c]["retry"] \in Errors

\* A stream whose primary fails is taken over by its fallback before the
\* client sees an error.
StreamFallsBack ==
    \A c \in Calls :
        kind[c] = "stream" /\ outcome[c] = "errorFrame" /\ HasFallback(c) =>
            answers[c]["fallback"] \in Errors

=============================================================================
