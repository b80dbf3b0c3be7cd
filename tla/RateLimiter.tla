----------------------------- MODULE RateLimiter -----------------------------
(***************************************************************************)
(* The sliding-window rate limiter with a priority queue that stands       *)
(* before every provider (providers/src/rate-limiter.ts).                  *)
(*                                                                         *)
(* A request runs at once when the window has room for its priority.       *)
(* Otherwise it is queued, and one drainer sleeps until it expects a slot. *)
(* A 429 answer fills the window with phantom requests.  Time is discrete  *)
(* and relative: a timestamp is what is left of its window, so no clock    *)
(* has to be bounded.  JavaScript runs each call to its first await, so    *)
(* schedule, backoff429 and one turn of the drain loop are atomic.         *)
(***************************************************************************)
EXTENDS Integers, Sequences, FiniteSets, FiniteSetsExt, Functions

CONSTANTS
    Requests,     \* the calls of schedule, each made at most once
    MaxRpm,       \* requests allowed in a window
    NormalLimit,  \* load at which normal requests wait: NORMAL_THROTTLE
    LowLimit,     \* load at which low requests wait: LOW_THROTTLE
    Window,       \* WINDOW_MS in ticks
    MinWait,      \* the least the drainer sleeps
    Slack         \* what the drainer adds to the expiry it waits for

ASSUME LimiterAssumption ==
    /\ MaxRpm \in Nat /\ NormalLimit \in Nat /\ LowLimit \in Nat
    /\ 0 < LowLimit /\ LowLimit <= NormalLimit /\ NormalLimit <= MaxRpm
    /\ Window \in Nat /\ MaxRpm <= Window
    /\ MinWait \in Nat \ {0} /\ Slack \in Nat

Priorities == {"critical", "normal", "low"}
Lifetimes == 1..Window

VARIABLES
    timestamps, \* timestamps, the oldest first: ticks until each leaves the window
    queue,      \* queue, the head first
    draining,   \* a drain loop is running, asleep between the steps
    wakeIn,     \* ticks until its sleep ends
    status,     \* where each request is
    prio,       \* its priority
    ticket,     \* history: how many requests were scheduled before it
    age         \* history: what is left of the window since it was started

limiterVars == <<timestamps, queue, draining, wakeIn, status, prio, ticket, age>>

-----------------------------------------------------------------------------
(* The window.                                                              *)

Load == Len(timestamps)

OldestFirst(times) == \A i, j \in DOMAIN times : i < j => times[i] <= times[j]

Limit(p) == CASE p = "critical" -> MaxRpm
              [] p = "normal"   -> NormalLimit
              [] p = "low"      -> LowLimit

\* Mutant: one request too many may run.
CanRunOneMore(p, load) == load <= Limit(p)

CanRun(p, load) == load < Limit(p)

\* record, n times in one step.
Recorded(n) == timestamps \o [i \in 1..n |-> Window]

\* backoff429: fill the free slots with phantoms spread over the window.
Filled ==
    LET free == MaxRpm - Load
    IN  timestamps \o [i \in 1..free |-> (Window * i) \div free]

\* prune: how many of the oldest leave the window with the next tick.
Expired == Max({k \in 0..Load : \A i \in 1..k : timestamps[i] = 1})

\* msUntilSlot when the window is not empty: the oldest timestamp expires.
UntilSlot(times) == Max({MinWait, times[1] + Slack})

-----------------------------------------------------------------------------
(* The queue.                                                               *)

Rank(p) == CASE p = "critical" -> 0 [] p = "normal" -> 1 [] p = "low" -> 2

\* Mutant: a request overtakes the requests of its own priority.
PlaceBeforeEquals(p) ==
    {i \in 1..Len(queue) : Rank(prio[queue[i]]) >= Rank(p)}

\* The places whose request has to stand behind one of priority p.
Behind(p) == {i \in 1..Len(queue) : Rank(prio[queue[i]]) > Rank(p)}

\* insertSorted: before the first such place, or at the end.
InsertSorted(r, p) ==
    LET at == IF Behind(p) = {} THEN Len(queue) + 1 ELSE Min(Behind(p))
    IN  SubSeq(queue, 1, at - 1) \o <<r>> \o SubSeq(queue, at, Len(queue))

\* How many requests one turn of the drain loop starts: the head as long as
\* it can run, every start adding to the load.
Runnable ==
    Max({k \in 0..Len(queue) : \A i \in 1..k : CanRun(prio[queue[i]], Load + i - 1)})

-----------------------------------------------------------------------------
Submitted == {r \in Requests : status[r] # "new"}

\* schedule when the window has room: record and execute.
RunNow(r, p) ==
    /\ status[r] = "new" /\ CanRun(p, Load)
    /\ timestamps' = Recorded(1)
    /\ status' = [status EXCEPT ![r] = "running"]
    /\ age' = [age EXCEPT ![r] = Window]
    /\ prio' = [prio EXCEPT ![r] = p]
    /\ ticket' = [ticket EXCEPT ![r] = Cardinality(Submitted)]
    /\ UNCHANGED <<queue, draining, wakeIn>>

\* schedule otherwise: queue it, and start the drain loop if none runs.  Its
\* head is then this request, which cannot run, so the loop goes to sleep.
Enqueue(r, p) ==
    /\ status[r] = "new" /\ ~CanRun(p, Load)
    /\ queue' = InsertSorted(r, p)
    /\ draining' = TRUE
    /\ wakeIn' = IF draining THEN wakeIn ELSE UntilSlot(timestamps)
    /\ status' = [status EXCEPT ![r] = "queued"]
    /\ prio' = [prio EXCEPT ![r] = p]
    /\ ticket' = [ticket EXCEPT ![r] = Cardinality(Submitted)]
    /\ UNCHANGED <<timestamps, age>>

\* Mutant: the loop ends when the head still cannot run.
StaysUnlessStarted(n) == n > 0 /\ n < Len(queue)

\* The loop goes on while the queue is not empty.
StaysAwake(n) == n < Len(queue)

\* The sleep of the drain loop ends: start what can run, then sleep again or
\* end the loop.
Drain ==
    /\ draining /\ wakeIn = 0
    /\ LET n == Runnable
           started == {queue[i] : i \in 1..n}
       IN  /\ timestamps' = Recorded(n)
           /\ queue' = SubSeq(queue, n + 1, Len(queue))
           /\ status' = [r \in Requests |-> IF r \in started THEN "running" ELSE status[r]]
           /\ age' = [r \in Requests |-> IF r \in started THEN Window ELSE age[r]]
           /\ draining' = StaysAwake(n)
           /\ wakeIn' = IF StaysAwake(n) THEN UntilSlot(timestamps') ELSE 0
    /\ UNCHANGED <<prio, ticket>>

\* The call of a request settles.
Finish(r) ==
    /\ status[r] = "running"
    /\ status' = [status EXCEPT ![r] = "done"]
    /\ UNCHANGED <<timestamps, queue, draining, wakeIn, prio, ticket, age>>

\* The provider answers 429 and the router calls backoff429, which sorts.
TooManyRequests(r) ==
    /\ status[r] = "running"
    /\ \/ /\ Load < MaxRpm
          /\ \E order \in Bijection(1..MaxRpm, 1..MaxRpm) :
                /\ timestamps' = [i \in 1..MaxRpm |-> Filled[order[i]]]
                /\ OldestFirst(timestamps')
       \/ Load >= MaxRpm /\ UNCHANGED timestamps
    /\ status' = [status EXCEPT ![r] = "limited"]
    /\ UNCHANGED <<queue, draining, wakeIn, prio, ticket, age>>

\* Time passes; prune drops the timestamps whose window ends.
LimiterTick ==
    /\ timestamps' = [i \in 1..(Load - Expired) |-> timestamps[i + Expired] - 1]
    /\ wakeIn' = IF wakeIn = 0 THEN 0 ELSE wakeIn - 1
    /\ age' = [r \in Requests |-> IF age[r] = 0 THEN 0 ELSE age[r] - 1]
    /\ UNCHANGED <<queue, draining, status, prio, ticket>>

-----------------------------------------------------------------------------
LimiterInit ==
    /\ timestamps = <<>>
    /\ queue = <<>>
    /\ draining = FALSE
    /\ wakeIn = 0
    /\ status = [r \in Requests |-> "new"]
    /\ prio = [r \in Requests |-> "low"]
    /\ ticket = [r \in Requests |-> 0]
    /\ age = [r \in Requests |-> 0]

LimiterNext ==
    \/ \E r \in Requests : \/ \E p \in Priorities : RunNow(r, p) \/ Enqueue(r, p)
                           \/ Finish(r) \/ TooManyRequests(r)
    \/ Drain
    \/ LimiterTick

\* Time passes and an expired timer fires in the end.
LimiterFairness == WF_limiterVars(LimiterTick) /\ WF_limiterVars(Drain)

LimiterSpec == LimiterInit /\ [][LimiterNext]_limiterVars /\ LimiterFairness

-----------------------------------------------------------------------------
(* Properties.                                                              *)

InQueue == {queue[i] : i \in 1..Len(queue)}

LimiterTypeOK ==
    /\ timestamps \in Seq(Lifetimes) /\ Load <= MaxRpm /\ OldestFirst(timestamps)
    /\ queue \in Seq(Requests)
    /\ draining \in BOOLEAN
    /\ wakeIn \in 0..(Window + MinWait + Slack)
    /\ status \in [Requests -> {"new", "queued", "running", "done", "limited"}]
    /\ prio \in [Requests -> Priorities]
    /\ ticket \in [Requests -> Nat]
    /\ age \in [Requests -> 0..Window]

NeverOverLimit == Cardinality({r \in Requests : age[r] > 0}) <= MaxRpm

QueueInOrder ==
    /\ InQueue = {r \in Requests : status[r] = "queued"}
    /\ \A i, j \in 1..Len(queue) : i < j =>
          \/ Rank(prio[queue[i]]) < Rank(prio[queue[j]])
          \/ /\ prio[queue[i]] = prio[queue[j]]
             /\ ticket[queue[i]] < ticket[queue[j]]
    /\ queue # <<>> => draining

\* However starts at once, starts of the drain loop and 429s interleave, no
\* window of WINDOW_MS holds the starts of more than MaxRpm requests, counted
\* from the starts and not from the limiter's timestamps; and who waits is
\* queued once, critical before normal before low, those of one priority in
\* the order they came, with a drain loop that will look at them again.
LimitHolds == NeverOverLimit /\ QueueInOrder

\* Every queued request is started in the end.
EveryRequestStarts == \A r \in Requests : (status[r] = "queued") ~> (status[r] # "queued")

=============================================================================
