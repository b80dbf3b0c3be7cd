-------------------------- MODULE SchedulersProofs ---------------------------
(***************************************************************************)
(* Proofs about the background work: the agent pool, the Telegram poller,  *)
(* the freelance scout, the browser client and the night cycle, for any    *)
(* number of rows, messages, leads, ticks, callers, launches, sessions and *)
(* batches.                                                                *)
(***************************************************************************)
EXTENDS NightCycle, AgentPool, TelegramPoller, FreelanceScout, BrowserClient,
        FiniteSetTheorems, TLAPS


(* A tick holds the rows it runs, and nobody holds any between ticks: that *)
(* is why the sweep, with which a tick begins, and a run never meet.       *)
PoolInv == /\ PoolTypeOK
           /\ tick = "idle" => held = {}
           /\ \A t \in held : status[t] = "running"

LEMMA PoolStart == PoolInit => PoolInv
<1> SUFFICES ASSUME PoolInit PROVE PoolInv
    OBVIOUS
<1> USE PoolAssumption DEF PoolInit
<1>1. status \in [PoolTasks -> PoolStatuses]
    BY DEF PoolStatuses
<1>2. slots \in [Types -> 0..MaxConcurrent]
    OBVIOUS
<1>3. throws \in 0..MaxThrows /\ poolBoots \in 0..MaxPoolBoots
    OBVIOUS
<1>. QED
    BY <1>1, <1>2, <1>3 DEF PoolInv, PoolTypeOK

LEMMA PoolStep == PoolInv /\ [PoolNext]_poolVars => PoolInv'
<1> SUFFICES ASSUME PoolInv, [PoolNext]_poolVars PROVE PoolInv'
    OBVIOUS
<1> USE PoolAssumption DEF PoolInv, PoolTypeOK, PoolStatuses, Finished
<1>1. ASSUME NEW t \in PoolTasks, Enqueue(t) PROVE PoolInv'
    BY <1>1 DEF Enqueue
<1>2. ASSUME NEW t \in PoolTasks, Claims(t) PROVE PoolInv'
    <2>1. status[t] = "pending" /\ TypeOf[t] \in Types
        BY <1>2 DEF Claims, IsNext, Due
    <2>2. CASE TypeOf[t] \in resting
        <3>1. /\ tick' = "running" /\ slots' = slots /\ held' = held
              /\ status' = [status EXCEPT ![t] = "noop"]
            BY <1>2, <2>2 DEF Claims
        <3>. QED
            BY <1>2, <2>1, <3>1 DEF Claims
    <2>3. CASE TypeOf[t] \notin resting
        <3>1. slots' \in [Types -> 0..MaxConcurrent]
            BY <1>2, <2>1, <2>3 DEF Claims
        <3>2. /\ status' = [status EXCEPT ![t] = "running"] /\ held' = held \union {t}
              /\ tick' = "claiming"
            BY <1>2, <2>3 DEF Claims
        <3>3. status' \in [PoolTasks -> PoolStatuses] /\ \A u \in held' : status'[u] = "running"
            BY <3>2
        <3>4. UNCHANGED <<later, old, resting, stopped, throws, poolBoots>>
            BY <1>2 DEF Claims
        <3>5. tick' # "idle" /\ held' \subseteq PoolTasks
            BY <3>2
        <3>. QED
            BY <3>1, <3>2, <3>3, <3>4, <3>5
    <2>. QED
        BY <2>2, <2>3
<1>3. ASSUME NEW t \in PoolTasks, ClaimThrows(t) PROVE PoolInv'
    <2>1. slots' \in [Types -> 0..MaxConcurrent]
        BY <1>3 DEF ClaimThrows
    <2>. QED
        BY <1>3, <2>1 DEF ClaimThrows
<1>4. ASSUME NEW t \in PoolTasks, RunEnds(t) PROVE PoolInv'
    <2>1. slots' \in [Types -> 0..MaxConcurrent]
        BY <1>4 DEF RunEnds, SlotIsFreed
    <2>2. resting' \subseteq Types
        BY <1>4 DEF RunEnds
    <2>. QED
        BY <1>4, <2>1, <2>2 DEF RunEnds
<1>5. ASSUME NEW t \in PoolTasks, ComesDue(t) \/ GrowsOld(t) PROVE PoolInv'
    BY <1>5 DEF ComesDue, GrowsOld
<1>6. ASSUME NEW overloaded \in BOOLEAN, TickBegins(overloaded) PROVE PoolInv'
    BY <1>6 DEF TickBegins, MayTick
<1>7. CASE ClaimsEnd \/ TickEnds
    BY <1>7 DEF ClaimsEnd, TickEnds
<1>8. CASE PoolStops
    BY <1>8 DEF PoolStops
<1>11. CASE PoolRestarts
    <2>1. slots' \in [Types -> 0..MaxConcurrent]
        BY <1>11 DEF PoolRestarts
    <2>2. poolBoots' \in 0..MaxPoolBoots
        BY <1>11 DEF PoolRestarts
    <2>3. stopped' \in BOOLEAN
        BY <1>11 DEF PoolRestarts
    <2>4. tick' = "idle" /\ held' = {} /\ resting' = {} /\ UNCHANGED <<status, later, old, throws>>
        BY <1>11 DEF PoolRestarts
    <2>. QED
        BY <2>1, <2>2, <2>3, <2>4
<1>9. ASSUME NEW y \in Types, CooldownEnds(y) PROVE PoolInv'
    BY <1>9 DEF CooldownEnds
<1>10. CASE UNCHANGED poolVars
    BY <1>10 DEF poolVars
<1>. QED
    BY <1>1, <1>2, <1>3, <1>4, <1>5, <1>6, <1>7, <1>8, <1>9, <1>10, <1>11 DEF PoolNext

LEMMA PoolInvariant == PoolSpec => []PoolInv
BY PoolStart, PoolStep, PTL DEF PoolSpec

\* The rows, slots and ticks of the pool keep their types; in particular no
\* more than MaxConcurrent slots of a type are ever taken.
THEOREM PoolTypeCorrect == PoolSpec => []PoolTypeOK
<1>1. PoolInv => PoolTypeOK
    BY DEF PoolInv
<1>. QED
    BY PoolInvariant, <1>1, PTL

LEMMA NothingFinishedChanges ==
    ASSUME PoolInv, PoolNext, NEW t \in PoolTasks, status[t] \in Finished
    PROVE  status'[t] = status[t]
<1> USE DEF PoolInv, PoolTypeOK, Finished
<1>1. ASSUME NEW u \in PoolTasks,
             Enqueue(u) \/ Claims(u) \/ ClaimThrows(u) \/ ComesDue(u) \/ GrowsOld(u)
      PROVE  status'[t] = status[t]
    BY <1>1 DEF Enqueue, Claims, IsNext, Due, ClaimThrows, ComesDue, GrowsOld
<1>2. ASSUME NEW u \in PoolTasks, RunEnds(u) PROVE status'[t] = status[t]
    BY <1>2 DEF RunEnds
<1>3. ASSUME NEW overloaded \in BOOLEAN, TickBegins(overloaded) PROVE status'[t] = status[t]
    BY <1>3 DEF TickBegins, Zombies
<1>4. CASE ClaimsEnd \/ TickEnds \/ PoolStops \/ PoolRestarts \/ \E y \in Types : CooldownEnds(y)
    BY <1>4 DEF ClaimsEnd, TickEnds, PoolStops, PoolRestarts, CooldownEnds
<1>. QED
    BY <1>1, <1>2, <1>3, <1>4 DEF PoolNext

\* A finished row stays as its run left it, whatever sweeps, runs, throwing
\* claims and poolBoots come after.
THEOREM FinishedRowsStay == PoolSpec => FinishedStays
<1>1. PoolInv /\ [PoolNext]_poolVars =>
        [\A t \in PoolTasks : status[t] \in Finished => status'[t] = status[t]]_poolVars
    BY NothingFinishedChanges
<1>. QED
    BY PoolInvariant, <1>1, PTL DEF PoolSpec, FinishedStays

---------------------------------------------------------------------------
(* What a poll holds was the page when the inbox was read: the n messages  *)
(* of then, those after the last id, as far as the page went.              *)
PageOf(n) == {i \in 1..n : i > lastId /\ i > n - PageLimit}

HoldsAPage == \E n \in 1..Len(chat) : n > lastId /\ poll.fresh = PageOf(n)

PollerInv ==
  /\ chat \in Seq(Commands) /\ lastId \in 0..Len(chat)
  /\ poll.at \in {"idle", "reading", "applying", "saved"}
  /\ poll.at = "reading" => poll.last = lastId
  /\ poll.at = "applying" =>
       /\ poll = [at |-> "applying", fresh |-> poll.fresh, todo |-> poll.todo, list |-> poll.list]
       /\ HoldsAPage
  /\ poll.at = "saved" => HoldsAPage /\ poll.fresh \subseteq applied
  /\ NothingIsSkipped

LEMMA LastOfPage ==
    ASSUME NEW n \in Nat, lastId \in Nat, n > lastId, NEW fresh, fresh = PageOf(n)
    PROVE  Last(fresh) = n
<1>1. n \in fresh /\ \A i \in fresh : i \in Nat /\ i <= n
    BY PollerAssumption DEF PageOf
<1>2. \A i : i \in fresh /\ (\A j \in fresh : j <= i) => i = n
    BY <1>1
<1>. QED
    BY <1>1, <1>2 DEF Last

LEMMA PollerStart == PollerInit => PollerInv
<1> SUFFICES ASSUME PollerInit PROVE PollerInv
    OBVIOUS
<1>1. chat \in Seq(Commands) /\ Len(chat) = 0 /\ lastId = 0 /\ poll.at = "idle"
    BY DEF PollerInit, Resting
<1>. QED
    BY <1>1 DEF PollerInv, NothingIsSkipped

(* A page found in a shorter chat is one in a longer chat as well.         *)
LEMMA ArrivalKeeps == PollerInv /\ MessageArrives => PollerInv'
<1> SUFFICES ASSUME PollerInv, MessageArrives PROVE PollerInv'
    OBVIOUS
<1>1. PICK cmd \in Commands : chat' = Append(chat, cmd)
    BY DEF MessageArrives
<1>2. UNCHANGED <<saved, lastId, poll, deaths, applied>>
    BY DEF MessageArrives
<1>3. chat' \in Seq(Commands) /\ Len(chat') = Len(chat) + 1 /\ Len(chat) \in Nat
    BY <1>1 DEF PollerInv
<1>4. HoldsAPage => HoldsAPage'
    BY <1>2, <1>3 DEF HoldsAPage, PageOf
<1>5. NothingIsSkipped'
    BY <1>2, <1>3, PollerAssumption DEF PollerInv, NothingIsSkipped, PushedOut
<1>. QED
    BY <1>2, <1>3, <1>4, <1>5 DEF PollerInv

LEMMA PollerStep == PollerInv /\ [PollerNext]_pollerVars => PollerInv'
<1> SUFFICES ASSUME PollerInv, [PollerNext]_pollerVars PROVE PollerInv'
    OBVIOUS
<1> USE PollerAssumption DEF PollerInv, NothingIsSkipped, PushedOut, Resting
<1>1. CASE PollBegins \/ InboxFails \/ PollerDies
    BY <1>1 DEF PollBegins, InboxFails, PollerDies
<1>2. CASE InboxIsRead
    <2>1. CASE Page(poll.last) = {}
        BY <1>2, <2>1 DEF InboxIsRead
    <2>2. CASE Page(poll.last) # {}
        <3>1. poll' = [at |-> "applying", fresh |-> Page(lastId), todo |-> Page(lastId),
                       list |-> saved]
            BY <1>2, <2>2 DEF InboxIsRead
        <3>2. UNCHANGED <<chat, saved, lastId, deaths, applied>>
            BY <1>2 DEF InboxIsRead
        <3>3. Page(lastId) = PageOf(Len(chat)) /\ Len(chat) > lastId /\ Len(chat) \in 1..Len(chat)
            BY <1>2, <2>2 DEF InboxIsRead, Page, PageOf
        <3>4. HoldsAPage'
            BY <3>1, <3>2, <3>3 DEF HoldsAPage, PageOf
        <3>. QED
            BY <3>1, <3>2, <3>4
    <2>. QED
        BY <2>1, <2>2
<1>3. CASE CommandApplied
    <2>1. PICK i : poll' = [poll EXCEPT !.todo = @ \ {i}, !.list = ApplyCommand(@, chat[i])]
        BY <1>3 DEF CommandApplied
    <2>2. /\ poll.at = "applying" /\ HoldsAPage /\ UNCHANGED <<chat, saved, lastId, applied>>
          /\ poll = [at |-> "applying", fresh |-> poll.fresh, todo |-> poll.todo,
                     list |-> poll.list]
        BY <1>3 DEF CommandApplied
    <2>3. /\ poll'.at = "applying" /\ poll'.fresh = poll.fresh
          /\ poll' = [at |-> "applying", fresh |-> poll'.fresh, todo |-> poll'.todo,
                      list |-> poll'.list]
        BY <2>1, <2>2
    <2>4. HoldsAPage'
        BY <2>2, <2>3 DEF HoldsAPage, PageOf
    <2>. QED
        BY <2>2, <2>3, <2>4
<1>4. CASE PollSaves
    <2>1. /\ poll.at = "applying" /\ HoldsAPage /\ UNCHANGED <<chat, lastId>>
          /\ poll' = [at |-> "saved", fresh |-> poll.fresh, list |-> poll.list]
          /\ applied' = applied \union poll.fresh
        BY <1>4 DEF PollSaves, StateIsWritten
    <2>2. HoldsAPage'
        BY <2>1 DEF HoldsAPage, PageOf
    <2>. QED
        BY <2>1, <2>2
<1>5. CASE PollEnds
    <2>1. /\ poll.at = "saved" /\ UNCHANGED <<chat, applied>> /\ poll' = [at |-> "idle"]
          /\ lastId' = Last(poll.fresh)
        BY <1>5 DEF PollEnds, HandledUpTo
    <2>2. PICK n \in 1..Len(chat) : n > lastId /\ poll.fresh = PageOf(n)
        BY <2>1 DEF HoldsAPage
    <2>3. lastId' = n
        BY <2>1, <2>2, LastOfPage
    <2>4. ASSUME NEW i \in 1..n PROVE i \in applied \/ i + PageLimit <= Len(chat)
        BY <2>1, <2>2 DEF PageOf
    <2>. QED
        BY <2>1, <2>2, <2>3, <2>4
<1>6. CASE UNCHANGED pollerVars
    BY <1>6 DEF pollerVars, HoldsAPage, PageOf
<1>. QED
    BY <1>1, <1>2, <1>3, <1>4, <1>5, <1>6, ArrivalKeeps DEF PollerNext

\* The last id never passes a command that the saved list lacks, whenever the
\* process dies between the two writes, unless the page had lost it already.
THEOREM PollerSkipsNothing == PollerSpec => []NothingIsSkipped
<1>1. PollerInv => NothingIsSkipped
    BY DEF PollerInv
<1>. QED
    BY PollerStart, PollerStep, <1>1, PTL DEF PollerSpec

---------------------------------------------------------------------------
(* The insert, which a second row of a url refuses, decides which of the   *)
(* ticks that evaluate the same lead goes on to alert.                     *)
ScoutInv ==
  /\ ScoutTypeOK
  /\ OneAlertPerLead
  /\ \A k \in Ticks : scout[k].at = "alerting" =>
                        scout[k].url \in leads /\ alerts[scout[k].url] = 0
  /\ \A j, k \in Ticks : /\ scout[j].at = "alerting" /\ scout[k].at = "alerting"
                          /\ scout[j].url = scout[k].url
                          => j = k

LEMMA ScoutStart == ScoutInit => ScoutInv
<1> SUFFICES ASSUME ScoutInit PROVE ScoutInv
    OBVIOUS
<1>1. scout \in [Ticks -> Reads]
    BY DEF ScoutInit, Quiet, Reads
<1>2. alerts \in [Urls -> Nat] /\ \A u \in Urls : alerts[u] = 0
    BY DEF ScoutInit
<1>3. starts \in 0..MaxStarts
    BY ScoutAssumption DEF ScoutInit
<1>4. \A k \in Ticks : scout[k].at = "idle"
    BY DEF ScoutInit, Quiet
<1>5. leads = {} /\ on \in BOOLEAN /\ blocked \in BOOLEAN
    BY DEF ScoutInit
<1>. QED
    BY <1>1, <1>2, <1>3, <1>4, <1>5 DEF ScoutInv, ScoutTypeOK, OneAlertPerLead

(* A tick that goes to where it does not alert disturbs nothing.           *)
LEMMA GoingOn ==
    ASSUME ScoutInv, NEW k \in Ticks, NEW to \in Reads \union Lists \union Works,
           to.at # "alerting", Goes(k, to), UNCHANGED <<leads, alerts>>,
           on' \in BOOLEAN, blocked' \in BOOLEAN, starts' \in 0..MaxStarts
    PROVE  ScoutInv'
<1>1. scout' \in [Ticks -> Reads \union Lists \union Works]
    BY DEF ScoutInv, ScoutTypeOK, Goes
<1>2. \A j \in Ticks : scout'[j].at = "alerting" => scout'[j] = scout[j]
    BY DEF ScoutInv, ScoutTypeOK, Goes
<1>3. ScoutTypeOK'
    BY <1>1 DEF ScoutInv, ScoutTypeOK
<1>4. OneAlertPerLead'
    BY DEF ScoutInv, OneAlertPerLead
<1>. QED
    BY <1>2, <1>3, <1>4 DEF ScoutInv

LEMMA ScoutStep == ScoutInv /\ [ScoutNext]_scoutVars => ScoutInv'
<1> SUFFICES ASSUME ScoutInv, [ScoutNext]_scoutVars PROVE ScoutInv'
    OBVIOUS
<1> USE ScoutAssumption
<1>q. Quiet \in Reads /\ [at |-> "fetching"] \in Reads
    BY DEF Quiet, Reads
<1>t. ASSUME NEW k \in Ticks, scout[k].at \notin {"idle", "fetching"}
      PROVE  scout[k].todo \subseteq Urls
    BY <1>t DEF ScoutInv, ScoutTypeOK, Reads, Lists, Works
<1>w. ASSUME NEW k \in Ticks, scout[k].at \in {"sleeping", "evaluating", "alerting"}
      PROVE  scout[k] \in Works
    BY <1>w DEF ScoutInv, ScoutTypeOK, Reads, Lists, Works
<1>b. on \in BOOLEAN /\ blocked \in BOOLEAN /\ starts \in 0..MaxStarts
    BY DEF ScoutInv, ScoutTypeOK
<1>l. ASSUME NEW todo, todo \subseteq Urls PROVE [at |-> "items", todo |-> todo] \in Lists
    BY <1>l DEF Lists
<1>1. CASE ScoutStarts
    <2>1. PICK k \in Ticks : Goes(k, IF blocked THEN Quiet ELSE [at |-> "fetching"])
        BY <1>1 DEF ScoutStarts
    <2>2. starts' \in 0..MaxStarts /\ on' \in BOOLEAN /\ UNCHANGED <<leads, alerts, blocked>>
        BY <1>1, <1>b DEF ScoutStarts
    <2>. QED
        BY <2>1, <2>2, <1>q, <1>b, GoingOn DEF Quiet
<1>2. CASE ScoutStops \/ PauseEnds
    <2>1. on' \in BOOLEAN /\ blocked' \in BOOLEAN /\ UNCHANGED <<leads, alerts, scout, starts>>
        BY <1>2, <1>b DEF ScoutStops, PauseEnds
    <2>. QED
        BY <2>1, <1>b DEF ScoutInv, ScoutTypeOK, OneAlertPerLead
<1>3. CASE ScoutDies
    <2>1. /\ \A k \in Ticks : scout'[k] \in Reads
          /\ scout' \in [Ticks -> Reads \union Lists \union Works]
        BY <1>3, <1>q DEF ScoutDies
    <2>2. starts' \in 0..MaxStarts /\ on' \in BOOLEAN /\ blocked' \in BOOLEAN
        <3>1. starts' \in 0..MaxStarts
            BY <1>3, <1>b DEF ScoutDies
        <3>2. on' \in BOOLEAN /\ blocked' \in BOOLEAN
            BY <1>3 DEF ScoutDies
        <3>. QED
            BY <3>1, <3>2
    <2>3. UNCHANGED <<leads, alerts>>
        BY <1>3 DEF ScoutDies
    <2>4. \A k \in Ticks : scout'[k].at # "alerting"
        BY <2>1 DEF Reads
    <2>5. ScoutTypeOK'
        BY <2>1, <2>2, <2>3 DEF ScoutInv, ScoutTypeOK
    <2>6. OneAlertPerLead'
        BY <2>3 DEF ScoutInv, OneAlertPerLead
    <2>7. \A k \in Ticks : scout'[k].at = "alerting" => FALSE
        BY <2>4
    <2>. QED
        BY <2>5, <2>6, <2>7 DEF ScoutInv
<1>4. ASSUME NEW k \in Ticks, TickFires(k) \/ FeedIsBlocked(k) \/ FeedFails(k) \/ ItemsEnd(k)
      PROVE  ScoutInv'
    <2>1. /\ Goes(k, Quiet) \/ Goes(k, [at |-> "fetching"])
          /\ UNCHANGED <<leads, alerts, on, starts>>
        BY <1>4 DEF TickFires, FeedIsBlocked, FeedFails, ItemsEnd
    <2>2. blocked' \in BOOLEAN
        BY <1>4, <1>b DEF TickFires, FeedIsBlocked, FeedFails, ItemsEnd
    <2>. QED
        BY <2>1, <2>2, <1>q, <1>b, GoingOn DEF Quiet
<1>5. ASSUME NEW k \in Ticks, FeedIsRead(k) PROVE ScoutInv'
    <2>1. PICK items \in SUBSET Urls : Goes(k, [at |-> "items", todo |-> items])
        BY <1>5 DEF FeedIsRead
    <2>2. UNCHANGED <<leads, alerts, on, starts, blocked>>
        BY <1>5 DEF FeedIsRead
    <2>. QED
        BY <2>1, <2>2, <1>l, <1>b, GoingOn
<1>6. ASSUME NEW k \in Ticks, NextItem(k) PROVE ScoutInv'
    <2>1. UNCHANGED <<leads, alerts, on, starts, blocked>> /\ scout[k].at = "items"
        BY <1>6 DEF NextItem
    <2>2. PICK u \in scout[k].todo :
            Goes(k, IF u \in leads THEN [at |-> "items", todo |-> scout[k].todo \ {u}]
                    ELSE [at |-> "sleeping", todo |-> scout[k].todo \ {u}, url |-> u,
                          start |-> starts])
        BY <1>6 DEF NextItem
    <2>3. u \in Urls /\ scout[k].todo \ {u} \subseteq Urls
        BY <2>1, <2>2, <1>t
    <2>4. [at |-> "sleeping", todo |-> scout[k].todo \ {u}, url |-> u, start |-> starts] \in Works
        BY <2>3, <1>b DEF Works
    <2>. QED
        BY <2>1, <2>2, <2>3, <2>4, <1>l, <1>b, GoingOn
<1>7. ASSUME NEW k \in Ticks, Wakes(k) PROVE ScoutInv'
    <2>1. /\ UNCHANGED <<leads, alerts, on, starts, blocked>> /\ scout[k].at = "sleeping"
          /\ Goes(k, Quiet) \/ Goes(k, [scout[k] EXCEPT !.at = "evaluating"])
        BY <1>7 DEF Wakes
    <2>2. /\ [scout[k] EXCEPT !.at = "evaluating"] \in Works
          /\ [scout[k] EXCEPT !.at = "evaluating"].at = "evaluating"
        BY <2>1, <1>w DEF Works
    <2>. QED
        BY <2>1, <2>2, <1>q, <1>b, GoingOn DEF Quiet
<1>8. ASSUME NEW k \in Ticks, LeadIsSaved(k) PROVE ScoutInv'
    <2> DEFINE u == scout[k].url
    <2>1. /\ scout[k] \in Works /\ u \in Urls /\ u \notin leads /\ leads' = leads \union {u}
          /\ UNCHANGED <<alerts, on, starts, blocked>>
          /\ scout' = [scout EXCEPT ![k] = [scout[k] EXCEPT !.at = "alerting"]]
        BY <1>8, <1>w DEF LeadIsSaved, CanInsert, Goes, Works
    <2>2. /\ [scout[k] EXCEPT !.at = "alerting"] \in Works
          /\ [scout[k] EXCEPT !.at = "alerting"].url = u
        BY <2>1 DEF Works
    <2>3. ScoutTypeOK'
        BY <2>1, <2>2 DEF ScoutInv, ScoutTypeOK
    <2>4. alerts[u] = 0
        BY <2>1 DEF ScoutInv, ScoutTypeOK, OneAlertPerLead
    <2>5. \A j \in Ticks \ {k} : scout'[j] = scout[j]
        BY <2>1 DEF ScoutInv, ScoutTypeOK
    <2>6. scout'[k].url = u
        BY <2>1, <2>2 DEF ScoutInv, ScoutTypeOK
    <2>7. OneAlertPerLead'
        BY <2>1 DEF ScoutInv, ScoutTypeOK, OneAlertPerLead
    <2>8. \A j \in Ticks : scout'[j].at = "alerting" =>
                           scout'[j].url \in leads' /\ alerts'[scout'[j].url] = 0
        BY <2>1, <2>4, <2>5, <2>6 DEF ScoutInv
    <2>9. \A j \in Ticks \ {k} : scout[j].at = "alerting" => scout[j].url # u
        BY <2>1 DEF ScoutInv
    <2>. QED
        BY <2>3, <2>5, <2>6, <2>7, <2>8, <2>9 DEF ScoutInv
<1>9. ASSUME NEW k \in Ticks, LeadIsPassed(k) PROVE ScoutInv'
    <2>1. /\ UNCHANGED <<leads, alerts, on, starts, blocked>> /\ scout[k].at = "evaluating"
          /\ Goes(k, [at |-> "items", todo |-> scout[k].todo])
        BY <1>9 DEF LeadIsPassed
    <2>. QED
        BY <2>1, <1>t, <1>l, <1>b, GoingOn
<1>10. ASSUME NEW k \in Ticks, Alerts(k) PROVE ScoutInv'
    <2> DEFINE u == scout[k].url
    <2>1. /\ scout[k].at = "alerting" /\ u \in Urls /\ u \in leads /\ alerts[u] = 0
          /\ alerts' = [alerts EXCEPT ![u] = @ + 1] \/ alerts' = alerts
          /\ UNCHANGED <<leads, on, starts, blocked>>
        BY <1>10, <1>w DEF Alerts, ScoutInv, Works
    <2>2. [at |-> "items", todo |-> scout[k].todo] \in Lists
        BY <2>1, <1>t, <1>l
    <2>3. scout' = [scout EXCEPT ![k] = [at |-> "items", todo |-> scout[k].todo]]
        BY <1>10 DEF Alerts, Goes
    <2>4. ScoutTypeOK'
        BY <2>1, <2>2, <2>3 DEF ScoutInv, ScoutTypeOK
    <2>5. OneAlertPerLead'
        BY <2>1 DEF ScoutInv, ScoutTypeOK, OneAlertPerLead
    <2>6. \A j \in Ticks : scout'[j].at = "alerting" => j # k /\ scout'[j] = scout[j]
        BY <2>3 DEF ScoutInv, ScoutTypeOK
    <2>7. \A j \in Ticks : scout'[j].at = "alerting" =>
                           scout[j].url # u /\ scout[j].url \in Urls
        BY <2>1, <2>6, <1>w DEF ScoutInv, Works
    <2>8. \A v \in Urls : v # u => alerts'[v] = alerts[v]
        BY <2>1 DEF ScoutInv, ScoutTypeOK
    <2>. QED
        BY <2>1, <2>4, <2>5, <2>6, <2>7, <2>8 DEF ScoutInv
<1>11. CASE UNCHANGED scoutVars
    BY <1>11 DEF scoutVars, ScoutInv, ScoutTypeOK, OneAlertPerLead
<1>. QED
    BY <1>1, <1>2, <1>3, <1>4, <1>5, <1>6, <1>7, <1>8, <1>9, <1>10, <1>11 DEF ScoutNext

\* However many ticks overlap and however often the scout is stopped, started
\* or dies, the owner is alerted once of a lead at most, and of stored ones only.
THEOREM OwnerAlertedOnce == ScoutSpec => []OneAlertPerLead
<1>1. ScoutInv => OneAlertPerLead
    BY DEF ScoutInv
<1>. QED
    BY ScoutStart, ScoutStep, <1>1, PTL DEF ScoutSpec

---------------------------------------------------------------------------
(* Until a close and a launch cross, the promise tells whose turn it is: a *)
(* launch underway holds it and the client has none, or the client's own   *)
(* launch holds it, and each process that runs is the one or the other.    *)
OneAtATime ==
  /\ browser # 0 => promise = browser /\ launch[browser] = "done"
  /\ \A k \in Launches : Underway(k) => promise = k /\ browser = 0
  /\ \A k \in alive : launch[k] = "up" \/ (launch[k] = "done" /\ browser = k)

BrowserInv == BrowserTypeOK /\ (~crossed => OneAtATime)

LEMMA BrowserStart == BrowserInit => BrowserInv
<1> SUFFICES ASSUME BrowserInit PROVE BrowserInv
    OBVIOUS
<1> USE BrowserAssumption DEF BrowserInit
<1>1. calls \in [Callers -> CallStates]
    BY DEF CallStates, Free
<1>2. launch \in [Launches -> {"none", "starting", "up", "done", "failed"}]
    OBVIOUS
<1>3. OneAtATime
    BY DEF OneAtATime, Underway
<1>4. crossed \in BOOLEAN
    OBVIOUS
<1>5. /\ alive \subseteq Launches /\ browser \in 0..MaxLaunches /\ promise \in 0..MaxLaunches
      /\ page \in {"none", "open", "closed"}
    OBVIOUS
<1>. QED
    BY <1>1, <1>2, <1>3, <1>4, <1>5 DEF BrowserInv, BrowserTypeOK

LEMMA BrowserTypes == BrowserTypeOK /\ [BrowserNext]_browserVars => BrowserTypeOK'
<1> SUFFICES ASSUME BrowserTypeOK, [BrowserNext]_browserVars PROVE BrowserTypeOK'
    OBVIOUS
<1> USE BrowserAssumption DEF BrowserTypeOK, Launches
<1>f. /\ Free \in CallStates /\ [at |-> "closing"] \in CallStates
      /\ \A k \in Launches : [at |-> "waiting", for |-> k] \in CallStates
      /\ \A k \in 0..MaxLaunches : [at |-> "acting", on |-> k] \in CallStates
      /\ \A k \in 0..MaxLaunches : [at |-> "killing", what |-> k] \in CallStates
    BY DEF CallStates, Free
<1>1. ASSUME NEW c \in Callers, Comes(c) PROVE BrowserTypeOK'
    <2>1. UNCHANGED <<alive, browser, page, crossed>>
        BY <1>1 DEF Comes
    <2>2. CASE MustLaunch
        <3>1. PICK k \in Launches :
                /\ launch' = [launch EXCEPT ![k] = "starting"] /\ promise' = k
                /\ calls' = [calls EXCEPT ![c] = [at |-> "waiting", for |-> k]]
            BY <1>1, <2>2 DEF Comes, Becomes
        <3>. QED
            BY <2>1, <3>1, <1>f
    <2>3. CASE ~MustLaunch
        <3>1. /\ UNCHANGED <<launch, promise>>
              /\ \/ calls' = [calls EXCEPT ![c] = [at |-> "acting", on |-> browser]]
                 \/ promise # 0 /\ calls' = [calls EXCEPT ![c] = [at |-> "waiting", for |-> promise]]
            BY <1>1, <2>3 DEF Comes, Becomes, MustLaunch
        <3>2. calls' \in [Callers -> CallStates]
            BY <3>1, <1>f
        <3>. QED
            BY <2>1, <3>1, <3>2
    <2>. QED
        BY <2>2, <2>3
<1>2. ASSUME NEW k \in Launches, ProcessStarts(k) \/ LaunchEnds(k) PROVE BrowserTypeOK'
    <2>1. CASE ProcessStarts(k)
        BY <2>1 DEF ProcessStarts
    <2>2. CASE LaunchEnds(k)
        BY <2>2 DEF LaunchEnds
    <2>. QED
        BY <1>2, <2>1, <2>2
<1>3. ASSUME NEW k \in Launches, LaunchFails(k) PROVE BrowserTypeOK'
    <2>1. crossed' \in BOOLEAN
        BY <1>3 DEF LaunchFails
    <2>. QED
        BY <1>3, <2>1 DEF LaunchFails
<1>4. ASSUME NEW c \in Callers, Resumes(c) PROVE BrowserTypeOK'
    <2>1. calls' \in [Callers -> CallStates]
        BY <1>4, <1>f DEF Resumes, Becomes
    <2>. QED
        BY <1>4, <2>1 DEF Resumes
<1>5. ASSUME NEW c \in Callers, Returns(c) \/ Closes(c) PROVE BrowserTypeOK'
    BY <1>5, <1>f DEF Returns, Closes, Becomes
<1>6. ASSUME NEW c \in Callers, ContextIsClosed(c) PROVE BrowserTypeOK'
    BY <1>6, <1>f DEF ContextIsClosed, Becomes
<1>7. ASSUME NEW c \in Callers, CloseEnds(c) PROVE BrowserTypeOK'
    <2>1. crossed' \in BOOLEAN
        BY <1>7 DEF CloseEnds
    <2>. QED
        BY <1>7, <2>1, <1>f DEF CloseEnds, Forgets, Becomes
<1>8. ASSUME NEW k \in Launches, Disconnects(k) PROVE BrowserTypeOK'
    BY <1>8 DEF Disconnects, Forgets
<1>9. CASE PageCloses \/ UNCHANGED browserVars
    BY <1>9 DEF PageCloses, browserVars
<1>. QED
    BY <1>1, <1>2, <1>3, <1>4, <1>5, <1>6, <1>7, <1>8, <1>9 DEF BrowserNext

(* History: once crossed, a run stays so.                                  *)
LEMMA StaysCrossed == BrowserTypeOK /\ [BrowserNext]_browserVars /\ ~crossed' => ~crossed
BY DEF BrowserTypeOK, BrowserNext, browserVars, ProcessStarts, LaunchEnds, LaunchFails, Disconnects,
   Comes, Resumes, Returns, Closes, ContextIsClosed, CloseEnds, PageCloses

LEMMA TurnsAreKept ==
    BrowserTypeOK /\ OneAtATime /\ [BrowserNext]_browserVars /\ ~crossed' => OneAtATime'
<1> SUFFICES ASSUME BrowserTypeOK, OneAtATime, [BrowserNext]_browserVars, ~crossed'
             PROVE  OneAtATime'
    OBVIOUS
<1> USE DEF BrowserTypeOK, OneAtATime, Underway, Launches
<1>1. ASSUME NEW c \in Callers, Comes(c) PROVE OneAtATime'
    <2>1. CASE MustLaunch
        <3>1. PICK k \in Launches : /\ launch[k] = "none" /\ promise' = k
                                    /\ launch' = [launch EXCEPT ![k] = "starting"]
            BY <1>1, <2>1 DEF Comes
        <3>2. UNCHANGED <<alive, browser>> /\ promise = 0
            BY <1>1, <2>1 DEF Comes, MustLaunch
        <3>3. browser = 0 /\ alive = {}
            BY <3>2
        <3>. QED
            BY <3>1, <3>2, <3>3
    <2>2. CASE ~MustLaunch
        BY <1>1, <2>2 DEF Comes
    <2>. QED
        BY <2>1, <2>2
<1>2. ASSUME NEW k \in Launches, ProcessStarts(k) PROVE OneAtATime'
    BY <1>2 DEF ProcessStarts
<1>3. ASSUME NEW k \in Launches, LaunchEnds(k) PROVE OneAtATime'
    BY <1>3 DEF LaunchEnds
<1>4. ASSUME NEW k \in Launches, LaunchFails(k) PROVE OneAtATime'
    <2>1. k \notin alive
        BY <1>4 DEF LaunchFails
    <2>. QED
        BY <1>4, <2>1 DEF LaunchFails
<1>5. ASSUME NEW c \in Callers, Resumes(c) \/ Returns(c) \/ Closes(c) \/ ContextIsClosed(c)
      PROVE  OneAtATime'
    BY <1>5 DEF Resumes, Returns, Closes, ContextIsClosed
<1>6. ASSUME NEW c \in Callers, CloseEnds(c) PROVE OneAtATime'
    <2>1. browser = 0 /\ \A k \in Launches : ~Underway(k)
        BY <1>6 DEF CloseEnds
    <2>. QED
        BY <1>6, <2>1 DEF CloseEnds, Forgets
<1>7. ASSUME NEW k \in Launches, Disconnects(k) PROVE OneAtATime'
    BY <1>7 DEF Disconnects, Forgets
<1>8. CASE PageCloses \/ UNCHANGED browserVars
    BY <1>8 DEF PageCloses, browserVars
<1>. QED
    BY <1>1, <1>2, <1>3, <1>4, <1>5, <1>6, <1>7, <1>8 DEF BrowserNext

LEMMA BrowserInvariant == BrowserSpec => []BrowserInv
<1>1. BrowserInv /\ [BrowserNext]_browserVars => BrowserInv'
    BY BrowserTypes, StaysCrossed, TurnsAreKept DEF BrowserInv
<1>. QED
    BY BrowserStart, <1>1, PTL DEF BrowserSpec

\* Until a close ends beside a launch, or a launch leaves its process behind,
\* one browser runs at most, and it is the client's or the one being launched.
THEOREM OneBrowserAtATime == BrowserSpec => []OneKnownBrowser
<1>1. BrowserInv => OneKnownBrowser
    <2> SUFFICES ASSUME BrowserInv, ~crossed
                 PROVE  /\ \A j, k \in alive : j = k
                        /\ \A k \in alive : browser = k \/ (promise = k /\ Underway(k))
        BY DEF OneKnownBrowser
    <2>1. alive \subseteq Launches /\ OneAtATime /\ 0 \notin Launches
        BY DEF BrowserInv, BrowserTypeOK, Launches
    <2>. QED
        BY <2>1 DEF OneAtATime, Underway
<1>. QED
    BY BrowserInvariant, <1>1, PTL

-----------------------------------------------------------------------------
(***************************************************************************)
(* The night cycle, however many runs overlap.                             *)
(***************************************************************************)
\* An entry the run has kept can fail once more only in its own batch.
Budget(r) ==
    \A i \in 1..Len(r.kept) :
        \/ r.kept[i].attempts <= MaxAttempts
        \/ r.todo = <<>> /\ r.kept[i].session \notin r.batch

RunOK(r) == r \in RunState /\ r.upto <= Len(log) /\ Budget(r)

TypeInv == NightTypeOK /\ \A c \in Cycles : RunOK(run[c])

-----------------------------------------------------------------------------
(* The helpers on the retry queue.                                          *)

LEMMA IsASeq ==
    ASSUME NEW S, NEW n \in Nat, NEW f \in [1..n -> S]
    PROVE  f \in Seq(S) /\ Len(f) = n
OBVIOUS

\* A queue that names the session keeps its entries and their order.
LEMMA UpsertSame ==
    ASSUME NEW q \in Seq(RetryEntry), NEW s \in SessionsOf(q)
    PROVE  /\ Len(UpsertRetry(q, s)) = Len(q)
           /\ \A i \in 1..Len(q) :
                 /\ UpsertRetry(q, s)[i].session = q[i].session
                 /\ UpsertRetry(q, s)[i].session # s => UpsertRetry(q, s)[i] = q[i]
<1> DEFINE f(i) == IF q[i].session = s THEN [q[i] EXCEPT !.attempts = @ + 1] ELSE q[i]
<1>1. \A i \in 1..Len(q) : f(i).session = q[i].session /\ (f(i).session # s => f(i) = q[i])
    BY DEF RetryEntry
<1>2. UpsertRetry(q, s) = [i \in 1..Len(q) |-> f(i)]
    BY DEF UpsertRetry
<1> HIDE DEF f
<1>3. [i \in 1..Len(q) |-> f(i)] \in [1..Len(q) -> {f(i) : i \in 1..Len(q)}]
    OBVIOUS
<1>4. Len(UpsertRetry(q, s)) = Len(q)
    BY <1>2, <1>3, IsASeq
<1> QED
    BY <1>1, <1>2, <1>4

\* Appending a failure, and dropping the head after it.
LEMMA AppendFailure ==
    ASSUME NEW q \in Seq(RetryEntry), NEW s \in Sessions
    PROVE  LET a == Append(q, FirstFailure(s))
           IN  /\ a \in Seq(RetryEntry) /\ Len(a) = Len(q) + 1
               /\ \A j \in 1..Len(q) : a[j] = q[j]
               /\ a[Len(q) + 1] = FirstFailure(s) /\ FirstFailure(s).session = s
               /\ Tail(a) \in Seq(RetryEntry) /\ Len(Tail(a)) = Len(q)
               /\ \A j \in 1..Len(q) : Tail(a)[j] = a[j + 1]
<1>1. FirstFailure(s) \in RetryEntry /\ FirstFailure(s).session = s
    BY NightAssumption DEF FirstFailure, RetryEntry
<1> QED
    BY <1>1

\* The queue stays a queue of entries when a session that has attempts left
\* in it fails again.
LEMMA UpsertType ==
    ASSUME NEW q \in Seq(RetryEntry), NEW s \in Sessions,
           \A i \in 1..Len(q) : q[i].session = s => q[i].attempts <= MaxAttempts
    PROVE  UpsertRetry(q, s) \in Seq(RetryEntry)
<1>1. CASE s \in SessionsOf(q)
    <2> DEFINE f(i) == IF q[i].session = s THEN [q[i] EXCEPT !.attempts = @ + 1] ELSE q[i]
    <2>1. \A i \in 1..Len(q) : f(i) \in RetryEntry
        <3> TAKE i \in 1..Len(q)
        <3>1. q[i] \in RetryEntry
            OBVIOUS
        <3>2. q[i].attempts \in Nat /\ (q[i].session = s => q[i].attempts + 1 \in 1..(MaxAttempts + 1))
            BY <3>1, NightAssumption DEF RetryEntry
        <3> QED
            BY <3>1, <3>2 DEF RetryEntry
    <2>2. UpsertRetry(q, s) = [i \in 1..Len(q) |-> f(i)]
        BY <1>1 DEF UpsertRetry
    <2> HIDE DEF f
    <2>3. [i \in 1..Len(q) |-> f(i)] \in [1..Len(q) -> RetryEntry]
        BY <2>1
    <2> QED
        BY <2>2, <2>3, IsASeq
<1>2. CASE s \notin SessionsOf(q)
    <2>1. UpsertRetry(q, s) \in {Append(q, FirstFailure(s)), Tail(Append(q, FirstFailure(s)))}
        BY <1>2 DEF UpsertRetry, Trimmed
    <2>2. Append(q, FirstFailure(s)) \in Seq(RetryEntry)
        BY AppendFailure
    <2>3. Tail(Append(q, FirstFailure(s))) \in Seq(RetryEntry)
        BY AppendFailure
    <2> QED
        BY <2>1, <2>2, <2>3, Zenon
<1> QED
    BY <1>1, <1>2

\* What UpsertRetry returns: every entry is an old one or is for s, every
\* session that was there or failed now is in it or was evicted.
LEMMA UpsertEntries ==
    ASSUME NEW q \in Seq(RetryEntry), NEW s \in Sessions
    PROVE  \A j \in 1..Len(UpsertRetry(q, s)) :
               \/ UpsertRetry(q, s)[j].session = s
               \/ \E i \in 1..Len(q) : UpsertRetry(q, s)[j] = q[i]
<1>1. CASE s \in SessionsOf(q)
    BY <1>1, UpsertSame
<1>2. CASE s \notin SessionsOf(q)
    <2> DEFINE a == Append(q, FirstFailure(s))
    <2>1. \A j \in 1..Len(a) : a[j].session = s \/ \E i \in 1..Len(q) : a[j] = q[i]
        BY AppendFailure
    <2>2. \A j \in 1..Len(Tail(a)) : j + 1 \in 1..Len(a) /\ Tail(a)[j] = a[j + 1]
        BY AppendFailure
    <2>3. UpsertRetry(q, s) = a \/ UpsertRetry(q, s) = Tail(a)
        BY <1>2 DEF UpsertRetry, Trimmed
    <2>5. CASE UpsertRetry(q, s) = a
        BY <2>1, <2>5
    <2>6. CASE UpsertRetry(q, s) = Tail(a)
        <3> TAKE j \in 1..Len(UpsertRetry(q, s))
        <3>1. j + 1 \in 1..Len(a) /\ UpsertRetry(q, s)[j] = a[j + 1]
            BY <2>2, <2>6
        <3> QED
            BY <2>1, <3>1
    <2> QED
        BY <2>3, <2>5, <2>6
<1> QED
    BY <1>1, <1>2

LEMMA UpsertCovers ==
    ASSUME NEW q \in Seq(RetryEntry), NEW s \in Sessions
    PROVE  SessionsOf(q) \cup {s} \subseteq SessionsOf(UpsertRetry(q, s)) \cup Evicted(q, s)
<1>1. CASE s \in SessionsOf(q)
    <2> DEFINE u == UpsertRetry(q, s)
    <2>1. Len(u) = Len(q) /\ \A i \in 1..Len(q) : u[i].session = q[i].session
        BY <1>1, UpsertSame
    <2> HIDE DEF u
    <2>2. SessionsOf(q) \subseteq SessionsOf(u)
        BY <2>1 DEF SessionsOf
    <2> QED
        BY <1>1, <2>2 DEF u
<1>2. CASE s \notin SessionsOf(q)
    <2> DEFINE a == Append(q, FirstFailure(s))
    <2>1. UpsertRetry(q, s) = Trimmed(a)
        BY <1>2 DEF UpsertRetry
    <2>2. CASE Len(q) + 1 <= MaxQueue
        BY <2>1, <2>2, AppendFailure DEF SessionsOf, Trimmed
    <2>3. CASE ~(Len(q) + 1 <= MaxQueue)
        <3>1. Len(q) \in Nat /\ Len(q) >= MaxQueue /\ Len(q) >= 1
            BY <2>3, NightAssumption
        <3>2. Evicted(q, s) = {q[1].session}
            BY <1>2, <3>1 DEF Evicted
        <3>3. UpsertRetry(q, s) = Tail(a)
            BY <2>1, <2>3, AppendFailure DEF Trimmed
        <3>4. \A i \in 2..Len(q) : q[i].session \in SessionsOf(Tail(a))
            <4> TAKE i \in 2..Len(q)
            <4>1. i - 1 \in 1..Len(q) /\ Tail(a)[i - 1] = q[i]
                BY AppendFailure, <3>1
            <4> QED
                BY <4>1, AppendFailure DEF SessionsOf
        <3>5. s \in SessionsOf(Tail(a))
            <4>1. Tail(a)[Len(q)].session = s
                BY <3>1, AppendFailure
            <4> QED
                BY <3>1, <4>1, AppendFailure DEF SessionsOf
        <3>6. \A i \in 1..Len(q) : q[i].session \in SessionsOf(Tail(a)) \cup {q[1].session}
            BY <3>4, <3>1
        <3> QED
            BY <3>2, <3>3, <3>5, <3>6 DEF SessionsOf
    <2> QED
        BY <2>2, <2>3
<1> QED
    BY <1>1, <1>2

-----------------------------------------------------------------------------
(* Type correctness.                                                        *)

LEMMA IdleOK == NightTypeOK => RunOK(IdleRun)
BY DEF RunOK, RunState, IdleRun, Budget, NightTypeOK

LEMMA TypeInit == NightInit => TypeInv
<1> SUFFICES ASSUME NightInit PROVE TypeInv
    OBVIOUS
<1>1. IdleRun \in RunState
    BY DEF IdleRun, RunState
<1>2. NightTypeOK
    BY <1>1, NightAssumption DEF NightInit, NightTypeOK, LogRows
<1> QED
    BY <1>2, IdleOK DEF TypeInv, NightInit

\* The new state of the run that takes a step.
LEMMA RunNext ==
    ASSUME TypeInv, NEW c \in Cycles
    PROVE  /\ DropExhausted(c) \/ RetrySucceeds(c) => RunOK(run'[c])
           /\ RetryFails(c) => RunOK(run'[c])
           /\ \A s \in Sessions :
                 /\ SessionSucceeds(c, s) => RunOK(run'[c])
                 /\ SessionFails(c, s) => RunOK(run'[c])
           /\ SaveQueue(c) => RunOK(run'[c]) /\ run[c].kept \in Seq(RetryEntry)
           /\ Trigger(c) => RunOK(run'[c])
           /\ FocusPruneTakesQueue(c) => RunOK(run'[c])
<1> DEFINE r == run[c]
<1>1. /\ r \in RunState /\ r.upto <= Len(log) /\ Budget(r)
      /\ r.todo \in Seq(RetryEntry) /\ r.kept \in Seq(RetryEntry) /\ r.batch \subseteq Sessions
      /\ run \in [Cycles -> RunState]
    BY DEF TypeInv, NightTypeOK, RunOK, RunState
<1>2. ASSUME DropExhausted(c) \/ RetrySucceeds(c)
      PROVE  RunOK(run'[c])
    <2>1. run'[c] = [r EXCEPT !.todo = Tail(r.todo)] /\ r.todo # <<>>
        BY <1>1, <1>2 DEF DropExhausted, RetrySucceeds
    <2>2. Tail(r.todo) \in Seq(RetryEntry)
        BY <1>1, <2>1
    <2> QED
        BY <1>1, <2>1, <2>2 DEF RunOK, RunState, Budget
<1>3. ASSUME RetryFails(c)
      PROVE  RunOK(run'[c])
    <2> DEFINE e == [Head(r.todo) EXCEPT !.attempts = @ + 1]
    <2>1. /\ run'[c] = [r EXCEPT !.todo = Tail(r.todo), !.kept = Append(r.kept, e)]
          /\ r.todo # <<>> /\ ~(Head(r.todo).attempts >= MaxAttempts)
        BY <1>1, <1>3 DEF RetryFails, Exhausted
    <2>2. Tail(r.todo) \in Seq(RetryEntry) /\ Head(r.todo) \in RetryEntry
        BY <1>1, <2>1
    <2>3. e \in RetryEntry /\ e.attempts <= MaxAttempts
        <3> DEFINE h == Head(r.todo)
        <3>1. h.session \in Sessions /\ h.attempts \in 1..(MaxAttempts + 1)
            BY <2>2 DEF RetryEntry
        <3>2. e = [session |-> h.session, attempts |-> h.attempts + 1]
            BY <2>2 DEF RetryEntry
        <3>3. h.attempts + 1 \in 1..MaxAttempts
            <4>1. ~(h.attempts >= MaxAttempts)
                BY <2>1
            <4> HIDE DEF h
            <4> QED
                BY <3>1, <4>1, NightAssumption
        <3> QED
            BY <3>1, <3>2, <3>3, NightAssumption DEF RetryEntry
    <2>4. Append(r.kept, e) \in Seq(RetryEntry)
        BY <1>1, <2>3
    <2>5. \A i \in 1..Len(Append(r.kept, e)) : Append(r.kept, e)[i].attempts <= MaxAttempts
        BY <1>1, <2>1, <2>3 DEF Budget
    <2> HIDE DEF e
    <2>6. run'[c] \in RunState
        BY <1>1, <2>1, <2>2, <2>4 DEF RunState
    <2> QED
        BY <1>1, <2>1, <2>4, <2>5, <2>6 DEF RunOK, RunState, Budget
<1>4. ASSUME NEW s \in Sessions, SessionSucceeds(c, s)
      PROVE  RunOK(run'[c])
    <2>1. run'[c] = [r EXCEPT !.batch = r.batch \ {s}]
        BY <1>1, <1>4 DEF SessionSucceeds
    <2> DEFINE b == r.batch \ {s}
    <2>2. b \subseteq Sessions /\ b \subseteq r.batch /\ run'[c] = [r EXCEPT !.batch = b]
        BY <1>1, <2>1
    <2> HIDE DEF b
    <2>3. run'[c] \in RunState
        BY <1>1, <2>2 DEF RunState
    <2>4. /\ run'[c].upto = r.upto /\ run'[c].todo = r.todo /\ run'[c].kept = r.kept
          /\ run'[c].batch = b
        BY <1>1, <2>2 DEF RunState
    <2>5. Budget(run'[c])
        BY <1>1, <2>2, <2>4 DEF Budget
    <2> QED
        BY <1>1, <2>3, <2>4, <2>5 DEF RunOK
<1>5. ASSUME NEW s \in Sessions, SessionFails(c, s)
      PROVE  RunOK(run'[c])
    <2> DEFINE k == UpsertRetry(r.kept, s)
    <2>1. /\ run'[c] = [r EXCEPT !.batch = r.batch \ {s}, !.kept = k]
          /\ r.todo = <<>> /\ s \in r.batch
        BY <1>1, <1>5 DEF SessionFails, InBatch
    <2>2. \A i \in 1..Len(r.kept) : r.kept[i].session = s => r.kept[i].attempts <= MaxAttempts
        BY <1>1, <2>1 DEF Budget
    <2>3. k \in Seq(RetryEntry)
        BY <1>1, <2>2, UpsertType
    <2>4. \A j \in 1..Len(k) : k[j].session = s \/ \E i \in 1..Len(r.kept) : k[j] = r.kept[i]
        BY <1>1, UpsertEntries
    <2> HIDE DEF k
    <2>5. run'[c] \in RunState
        BY <1>1, <2>1, <2>3 DEF RunState
    <2>6. /\ run'[c].kept = k /\ run'[c].todo = <<>>
          /\ run'[c].batch = r.batch \ {s} /\ run'[c].upto = r.upto
        BY <1>1, <2>1 DEF RunState
    <2>7. Budget(run'[c])
        <3> SUFFICES ASSUME NEW j \in 1..Len(k)
                     PROVE  k[j].attempts <= MaxAttempts \/ k[j].session \notin r.batch \ {s}
            BY <2>6 DEF Budget
        <3> QED
            BY <1>1, <2>4 DEF Budget
    <2> QED
        BY <1>1, <2>5, <2>6, <2>7 DEF RunOK
<1>6. ASSUME SaveQueue(c)
      PROVE  RunOK(run'[c])
    BY <1>1, <1>6 DEF SaveQueue, RunOK, RunState, Budget
<1>8. ASSUME FocusPruneTakesQueue(c)
      PROVE  RunOK(run'[c])
    BY <1>1, <1>8 DEF FocusPruneTakesQueue, RunOK, RunState, Budget
<1>7. ASSUME Trigger(c)
      PROVE  RunOK(run'[c])
    <2> DEFINE b == {log[i] : i \in (cursor + 1)..BatchEnd}
    <2>1. /\ BatchEnd \in Nat /\ BatchEnd <= Len(log) /\ cursor \in Nat
          /\ b \subseteq Sessions
        BY NightAssumption DEF BatchEnd, Min2, TypeInv, NightTypeOK
    <2>2. run'[c] = [pc |-> "sessions", from |-> cursor, upto |-> BatchEnd,
                     newest |-> Len(log), todo |-> queue, kept |-> <<>>, batch |-> b]
        BY <1>1, <1>7 DEF Trigger
    <2>3. queue \in Seq(RetryEntry)
        BY DEF TypeInv, NightTypeOK
    <2> HIDE DEF b
    <2> QED
        BY <2>1, <2>2, <2>3 DEF RunOK, RunState, Budget
<1> QED
    BY <1>1, <1>2, <1>3, <1>4, <1>5, <1>6, <1>7, <1>8

\* The types are preserved by every step, whatever runs overlap.
LEMMA TypeStep == TypeInv /\ [NightNext]_nightVars => TypeInv'
<1> SUFFICES ASSUME TypeInv, [NightNext]_nightVars PROVE TypeInv'
    OBVIOUS
<1> USE DEF LogRows
<1>t. /\ log \in Seq(Sessions) /\ Len(log) \in Nat /\ Len(log) <= MaxLogs
      /\ cursor \in 0..Len(log) /\ queue \in Seq(RetryEntry)
      /\ current \in Cycles \cup {NoCycle} /\ run \in [Cycles -> RunState] /\ nightFaults \in Nat
      /\ processed \subseteq LogRows /\ givenUp \subseteq LogRows
      /\ pruned \subseteq LogRows /\ overwritten \subseteq LogRows
      /\ reached \in 0..Len(log) /\ late \subseteq Cycles
      /\ \A c \in Cycles : RunOK(run[c]) /\ RunOK(IdleRun)
    BY IdleOK DEF TypeInv, NightTypeOK
<1>1. ASSUME NEW s \in Sessions, AppendLog(s) PROVE TypeInv'
    <2>1. log' \in Seq(Sessions) /\ Len(log') = Len(log) + 1 /\ Len(log') <= MaxLogs
        BY <1>1, <1>t, NightAssumption DEF AppendLog
    <2>2. UNCHANGED <<cursor, queue, current, run, nightFaults, nightLog>>
        BY <1>1 DEF AppendLog
    <2>3. \A c \in Cycles : RunOK(run[c])'
        BY SMTT(30), <1>t, <2>1, <2>2 DEF RunOK, RunState, Budget, nightLog
    <2> QED
        BY <1>t, <2>1, <2>2, <2>3 DEF TypeInv, NightTypeOK, nightLog
<1>2. ASSUME NEW c \in Cycles, run' = [run EXCEPT ![c] = run'[c]], RunOK(run'[c]), log' = log
      PROVE  run' \in [Cycles -> RunState] /\ \A d \in Cycles : RunOK(run[d])'
    BY <1>t, <1>2 DEF RunOK, Budget
<1>3. ASSUME NEW c \in Cycles, Trigger(c) \/ RunStep(c) \/ FocusPruneTakesQueue(c) \/ RunThrows(c) PROVE TypeInv'
    <2>1. CASE Trigger(c)
        BY <1>t, <1>2, <2>1, RunNext DEF Trigger, TypeInv, NightTypeOK, nightLog
    <2>2. CASE DropExhausted(c)
        BY <1>t, <1>2, <2>2, RunNext DEF DropExhausted, TypeInv, NightTypeOK, SessionRows
    <2>3. CASE RetrySucceeds(c)
        BY <1>t, <1>2, <2>3, RunNext DEF RetrySucceeds, TypeInv, NightTypeOK, Fetched, SessionRows
    <2>4. CASE RetryFails(c)
        BY <1>t, <1>2, <2>4, RunNext DEF RetryFails, TypeInv, NightTypeOK, nightLog
    <2>5. ASSUME NEW s \in Sessions, SessionSucceeds(c, s) PROVE TypeInv'
        BY <1>t, <1>2, <2>5, RunNext DEF SessionSucceeds, TypeInv, NightTypeOK, BatchRows, SessionRows
    <2>6. ASSUME NEW s \in Sessions, SessionFails(c, s) PROVE TypeInv'
        BY <1>t, <1>2, <2>6, RunNext DEF SessionFails, TypeInv, NightTypeOK
    <2>7. CASE SaveQueue(c)
        <3>1. RunOK(run'[c]) /\ queue' \in Seq(RetryEntry) /\ run' = [run EXCEPT ![c] = run'[c]]
            BY <1>t, <2>7, RunNext DEF SaveQueue
        <3>2. reached' \in 0..Len(log) /\ overwritten' \subseteq LogRows /\ late' \subseteq Cycles
            <4>1. run[c].upto \in 0..Len(log)
                BY <1>t DEF RunOK, RunState
            <4>2. reached' \in 0..Len(log)
                BY <1>t, <2>7, <4>1 DEF SaveQueue, Max2
            <4>3. Dropped(queue, run[c].kept) \subseteq LogRows
                BY <1>t DEF Dropped
            <4>4. overwritten' \subseteq LogRows
                BY <1>t, <2>7, <4>3 DEF SaveQueue
            <4> QED
                BY <1>t, <2>7, <4>2, <4>4 DEF SaveQueue, OutOfDate
        <3> QED
            BY <1>t, <1>2, <2>7, <3>1, <3>2 DEF SaveQueue, TypeInv, NightTypeOK
    <2>10. CASE FocusPruneTakesQueue(c)
        <3>1. RunOK(run'[c]) /\ queue' \in Seq(RetryEntry) /\ run' = [run EXCEPT ![c] = run'[c]]
            <4>1. queue' = <<>> /\ <<>> \in Seq(RetryEntry)
                BY <2>10 DEF FocusPruneTakesQueue
            <4>2. run' = [run EXCEPT ![c].pc = "pruned"]
                BY <2>10 DEF FocusPruneTakesQueue
            <4>3. run' = [run EXCEPT ![c] = run'[c]]
                BY <1>t, <4>2
            <4> QED
                BY <2>10, <4>1, <4>3, RunNext
        <3>2. pruned' \subseteq LogRows /\ late' \subseteq Cycles
            BY <1>t, <2>10 DEF FocusPruneTakesQueue, Dropped, OutOfDate
        <3> QED
            BY <1>t, <1>2, <2>10, <3>1, <3>2 DEF FocusPruneTakesQueue, TypeInv, NightTypeOK
    <2>8. CASE SaveCursor(c)
        <3>1. cursor' \in 0..Len(log)
            BY <1>t, <2>8, NightAssumption DEF SaveCursor, NextCursor, RunOK, RunState
        <3>2. run' \in [Cycles -> RunState] /\ \A d \in Cycles : RunOK(run[d])'
            BY <1>t, <1>2, <2>8 DEF SaveCursor
        <3>3. current' \in Cycles \cup {NoCycle}
            BY <1>t, <2>8 DEF SaveCursor, Ends
        <3> QED
            BY <1>t, <2>8, <3>1, <3>2, <3>3 DEF SaveCursor, TypeInv, NightTypeOK, nightLog
    <2>9. CASE RunThrows(c)
        <3>1. run' \in [Cycles -> RunState] /\ \A d \in Cycles : RunOK(run[d])'
            BY <1>t, <1>2, <2>9 DEF RunThrows
        <3>2. current' \in Cycles \cup {NoCycle}
            BY <1>t, <2>9 DEF RunThrows, Ends
        <3> QED
            BY <1>t, <2>9, <3>1, <3>2 DEF RunThrows, TypeInv, NightTypeOK, nightLog
    <2> QED
        BY <1>3, <2>1, <2>2, <2>3, <2>4, <2>5, <2>6, <2>7, <2>8, <2>9, <2>10 DEF RunStep
<1>4. CASE WatchdogFires
    <2>1. UNCHANGED <<log, cursor, queue, run, nightLog>> /\ current' = NoCycle /\ nightFaults' \in Nat
        BY <1>t, <1>4 DEF WatchdogFires
    <2> QED
        BY <1>t, <2>1 DEF TypeInv, NightTypeOK, RunOK, nightLog, Budget
<1>5. CASE NightRestart
    BY <1>t, <1>5 DEF NightRestart, TypeInv, NightTypeOK, RunOK, nightLog, Budget
<1>6. CASE UNCHANGED nightVars
    BY <1>t, <1>6 DEF nightVars, TypeInv, NightTypeOK, RunOK, nightLog, Budget
<1> QED
    BY <1>1, <1>3, <1>4, <1>5, <1>6 DEF NightNext

\* The log, the cursor, the queue and the state of every run keep their types,
\* however runs overlap: an entry never counts more than MaxAttempts + 1
\* failures, and the cursor never passes the end of the log.
THEOREM NightTypeCorrect == NightSpec => []NightTypeOK
<1>1. TypeInv => NightTypeOK
    BY DEF TypeInv
<1> QED
    BY <1>1, TypeInit, TypeStep, PTL DEF NightSpec

-----------------------------------------------------------------------------
(* Nothing is forgotten, whichever runs overlap.                            *)

HasEnded(i) == i \in processed \/ i \in givenUp \/ i \in pruned \/ i \in overwritten

Covered(i, names) == HasEnded(i) \/ log[i] \in names

\* What an unfinished run will account for: its batch; and, while its copy of
\* the queue is the queue that is saved, the sessions it read there.
CoversBatch(c) ==
    \A i \in (run[c].from + 1)..run[c].upto : Covered(i, run[c].batch \cup SessionsOf(run[c].kept))

CoversQueue(c) ==
    /\ reached <= run[c].newest
    /\ \A i \in 1..reached : log[i] \in SessionsOf(queue) =>
          Covered(i, SessionsOf(run[c].todo) \cup SessionsOf(run[c].kept))

RunCovers(c) ==
    /\ run[c].pc = "sessions" =>
          run[c].from <= reached /\ CoversBatch(c) /\ (c \notin late => CoversQueue(c))
    /\ run[c].pc \in {"post", "pruned"} => run[c].upto <= reached

\* A row that some batch has had stays accounted for, wherever the cursor is.
ReachedIsCovered == \A i \in 1..reached : Covered(i, SessionsOf(queue))

CoverInv ==
    TypeInv /\ cursor <= reached /\ ReachedIsCovered /\ \A c \in Cycles : RunCovers(c)

\* The session that a retry takes from the head of its entries.
LEMMA HeadAndTail ==
    ASSUME NEW q \in Seq(RetryEntry), q # <<>>
    PROVE  SessionsOf(q) = SessionsOf(Tail(q)) \cup {Head(q).session}
<1>1. /\ Len(q) \in Nat /\ Len(q) >= 1 /\ Head(q) = q[1]
      /\ Len(Tail(q)) = Len(q) - 1
      /\ \A j \in 1..(Len(q) - 1) : Tail(q)[j] = q[j + 1]
    OBVIOUS
<1>2. \A i \in 2..Len(q) : i - 1 \in 1..Len(Tail(q)) /\ Tail(q)[i - 1] = q[i]
    BY <1>1
<1>3. \A i \in 1..Len(q) : i = 1 \/ i \in 2..Len(q)
    BY <1>1
<1>4. \A j \in 1..Len(Tail(q)) : j + 1 \in 1..Len(q) /\ Tail(q)[j] = q[j + 1]
    BY <1>1
<1> QED
    BY <1>1, <1>2, <1>3, <1>4 DEF SessionsOf

LEMMA AppendSession ==
    ASSUME NEW q \in Seq(RetryEntry), NEW e
    PROVE  SessionsOf(Append(q, e)) = SessionsOf(q) \cup {e.session}
<1>1. /\ Len(Append(q, e)) = Len(q) + 1 /\ Len(q) \in Nat
      /\ \A j \in 1..Len(q) : Append(q, e)[j] = q[j]
      /\ Append(q, e)[Len(q) + 1] = e
    OBVIOUS
<1> QED
    BY <1>1 DEF SessionsOf

LEMMA CoverInit == NightInit => CoverInv
BY TypeInit DEF NightInit, CoverInv, ReachedIsCovered, RunCovers, IdleRun

\* A step inside a run, which leaves the queue to the others as it is.
LEMMA InsideRun ==
    ASSUME CoverInv, NEW c \in Cycles, run[c].pc = "sessions",
           UNCHANGED <<log, cursor, queue, reached, pruned, late, overwritten>>,
           processed \subseteq processed', givenUp \subseteq givenUp',
           run' = [run EXCEPT ![c] = run'[c]],
           run'[c].pc = "sessions", run'[c].from = run[c].from, run'[c].upto = run[c].upto,
           run'[c].newest = run[c].newest,
           CoversBatch(c)', c \notin late => CoversQueue(c)'
    PROVE  cursor' <= reached' /\ ReachedIsCovered' /\ \A d \in Cycles : RunCovers(d)'
<1>1. \A i, names : Covered(i, names) => Covered(i, names)'
    BY DEF Covered, HasEnded
<1>2. cursor' <= reached' /\ ReachedIsCovered'
    BY <1>1 DEF CoverInv, ReachedIsCovered, SessionsOf
<1>3. RunCovers(c)'
    BY DEF CoverInv, RunCovers
<1>4. ASSUME NEW d \in Cycles, d # c PROVE RunCovers(d)'
    <2>1. run'[d] = run[d] /\ RunCovers(d)
        BY <1>4 DEF CoverInv, TypeInv, NightTypeOK
    <2>2. CoversBatch(d) => CoversBatch(d)'
        BY <2>1, <1>1 DEF CoversBatch, SessionsOf, Covered, HasEnded
    <2>3. CoversQueue(d) => CoversQueue(d)'
        BY <2>1, <1>1 DEF CoversQueue, SessionsOf, Covered, HasEnded
    <2> QED
        BY <2>1, <2>2, <2>3 DEF RunCovers
<1> QED
    BY <1>2, <1>3, <1>4

\* The retry pass: an entry leaves the copy when its rows are processed, given
\* up or kept.
LEMMA RetryCovers ==
    ASSUME CoverInv, NEW c \in Cycles, DropExhausted(c) \/ RetrySucceeds(c) \/ RetryFails(c)
    PROVE  cursor' <= reached' /\ ReachedIsCovered' /\ \A d \in Cycles : RunCovers(d)'
<1> DEFINE r == run[c]
           h == Head(r.todo)
<1>1. /\ log \in Seq(Sessions) /\ Len(log) \in Nat /\ reached \in 0..Len(log)
      /\ run \in [Cycles -> RunState] /\ r \in RunState /\ RunCovers(c)
      /\ r.todo \in Seq(RetryEntry) /\ r.kept \in Seq(RetryEntry) /\ r.newest \in Nat
      /\ r.from \in Nat /\ r.upto \in Nat
      /\ r.pc = "sessions" /\ r.todo # <<>>
    BY DEF CoverInv, TypeInv, NightTypeOK, RunState, DropExhausted, RetrySucceeds, RetryFails
<1>2. /\ Tail(r.todo) \in Seq(RetryEntry) /\ h \in RetryEntry
      /\ SessionsOf(r.todo) = SessionsOf(Tail(r.todo)) \cup {h.session}
    BY <1>1, HeadAndTail
<1>3. CoversBatch(c) /\ (c \notin late => CoversQueue(c))
    BY <1>1 DEF RunCovers
<1>4. CASE DropExhausted(c) \/ RetrySucceeds(c)
    <2>1. run'[c] = [r EXCEPT !.todo = Tail(r.todo)]
        BY <1>1, <1>4 DEF DropExhausted, RetrySucceeds
    <2>2. /\ run'[c].pc = r.pc /\ run'[c].from = r.from /\ run'[c].upto = r.upto
          /\ run'[c].newest = r.newest
          /\ run'[c].todo = Tail(r.todo) /\ run'[c].kept = r.kept /\ run'[c].batch = r.batch
        BY <1>1, <2>1 DEF RunState
    <2>3. /\ UNCHANGED <<log, cursor, queue, reached, pruned, late, overwritten>>
          /\ processed \subseteq processed' /\ givenUp \subseteq givenUp'
          /\ run' = [run EXCEPT ![c] = run'[c]]
        BY <1>1, <1>4, <2>1 DEF DropExhausted, RetrySucceeds
    <2>4. ASSUME c \notin late, NEW i \in 1..reached, log[i] = h.session
          PROVE  i \in processed' \/ i \in givenUp'
        <3>1. i \in SessionRows(h.session) /\ i <= reached /\ i <= r.newest
            BY <1>1, <1>3, <2>4 DEF CoversQueue, SessionRows, LogRows
        <3>2. CASE DropExhausted(c)
            BY <3>1, <3>2 DEF DropExhausted
        <3>3. CASE RetrySucceeds(c)
            BY <3>1, <3>3 DEF RetrySucceeds
        <3> QED
            BY <1>4, <3>2, <3>3
    <2>5. CoversBatch(c)'
        BY <1>3, <2>2, <2>3 DEF CoversBatch, Covered, HasEnded
    <2>6. c \notin late => CoversQueue(c)'
        <3> SUFFICES ASSUME c \notin late PROVE CoversQueue(c)'
            OBVIOUS
        <3> HIDE DEF h
        <3>1. ASSUME NEW i \in 1..reached, log[i] \in SessionsOf(queue)
              PROVE  HasEnded(i)' \/ log[i] \in SessionsOf(Tail(r.todo)) \cup SessionsOf(r.kept)
            <4>1. Covered(i, SessionsOf(r.todo) \cup SessionsOf(r.kept))
                BY <1>3, <3>1 DEF CoversQueue
            <4> QED
                BY <1>2, <2>2, <2>3, <2>4, <4>1 DEF Covered, HasEnded
        <3> QED
            BY <1>3, <2>2, <2>3, <3>1 DEF CoversQueue, Covered, HasEnded
    <2> QED
        BY <1>1, <2>2, <2>3, <2>5, <2>6, InsideRun
<1>5. CASE RetryFails(c)
    <2> DEFINE e == [h EXCEPT !.attempts = @ + 1]
    <2>1. run'[c] = [r EXCEPT !.todo = Tail(r.todo), !.kept = Append(r.kept, e)]
        BY <1>1, <1>5 DEF RetryFails
    <2>2. e.session = h.session
        BY <1>2 DEF RetryEntry
    <2>3. SessionsOf(Append(r.kept, e)) = SessionsOf(r.kept) \cup {h.session}
        BY <1>1, <2>2, AppendSession
    <2> HIDE DEF e
    <2>4. /\ run'[c].kept = Append(r.kept, e) /\ run'[c].todo = Tail(r.todo)
          /\ run'[c].from = r.from /\ run'[c].upto = r.upto /\ run'[c].newest = r.newest
          /\ run'[c].batch = r.batch /\ run'[c].pc = "sessions"
        BY <1>1, <2>1 DEF RunState
    <2>5. /\ UNCHANGED <<log, cursor, queue, reached, processed, givenUp, pruned, late, overwritten>>
          /\ run' = [run EXCEPT ![c] = run'[c]]
        BY <1>1, <1>5 DEF RetryFails, nightLog
    <2>6. CoversBatch(c)'
        BY <1>3, <2>3, <2>4, <2>5 DEF CoversBatch, Covered, HasEnded
    <2>7. c \notin late => CoversQueue(c)'
        BY <1>2, <1>3, <2>3, <2>4, <2>5 DEF CoversQueue, Covered, HasEnded
    <2> QED
        BY <1>1, <2>4, <2>5, <2>6, <2>7, InsideRun
<1> QED
    BY <1>4, <1>5

\* The main batch.
LEMMA BatchCovers ==
    ASSUME CoverInv, NEW c \in Cycles, NEW s \in Sessions, SessionSucceeds(c, s) \/ SessionFails(c, s)
    PROVE  cursor' <= reached' /\ ReachedIsCovered' /\ \A d \in Cycles : RunCovers(d)'
<1> DEFINE r == run[c]
<1>1. /\ log \in Seq(Sessions) /\ Len(log) \in Nat /\ reached \in 0..Len(log)
      /\ run \in [Cycles -> RunState] /\ r \in RunState /\ RunCovers(c)
      /\ r.kept \in Seq(RetryEntry) /\ r.from \in Nat /\ r.upto \in Nat /\ r.upto <= Len(log)
      /\ r.pc = "sessions" /\ r.todo = <<>>
    BY DEF CoverInv, TypeInv, NightTypeOK, RunOK, RunState, SessionSucceeds, SessionFails, InBatch
<1>2. CoversBatch(c) /\ (c \notin late => CoversQueue(c))
    BY <1>1 DEF RunCovers
<1>3. CASE SessionSucceeds(c, s)
    <2>1. /\ run'[c] = [r EXCEPT !.batch = r.batch \ {s}]
          /\ processed' = processed \cup {i \in SessionRows(s) : r.from < i /\ i <= r.upto}
          /\ UNCHANGED <<log, cursor, queue, reached, givenUp, pruned, late, overwritten>>
          /\ run' = [run EXCEPT ![c] = run'[c]]
        BY <1>1, <1>3 DEF SessionSucceeds, BatchRows
    <2>2. /\ run'[c].pc = "sessions" /\ run'[c].from = r.from /\ run'[c].upto = r.upto
          /\ run'[c].newest = r.newest
          /\ run'[c].todo = r.todo /\ run'[c].kept = r.kept /\ run'[c].batch = r.batch \ {s}
        BY <1>1, <2>1 DEF RunState
    <2>3. \A i \in (r.from + 1)..r.upto : log[i] = s => i \in processed'
        BY <1>1, <2>1 DEF SessionRows, LogRows
    <2>4. CoversBatch(c)'
        BY <1>2, <2>1, <2>2, <2>3 DEF CoversBatch, Covered, HasEnded
    <2>5. c \notin late => CoversQueue(c)'
        BY <1>2, <2>1, <2>2 DEF CoversQueue, Covered, HasEnded
    <2> QED
        BY <1>1, <2>1, <2>2, <2>4, <2>5, InsideRun
<1>4. CASE SessionFails(c, s)
    <2> DEFINE k == UpsertRetry(r.kept, s)
               gone == Evicted(r.kept, s)
    <2>1. /\ run'[c] = [r EXCEPT !.batch = r.batch \ {s}, !.kept = k]
          /\ givenUp' = givenUp \cup {i \in LogRows : log[i] \in gone /\ (i <= r.upto \/ i <= reached)}
          /\ UNCHANGED <<log, cursor, queue, reached, processed, pruned, late, overwritten>>
          /\ run' = [run EXCEPT ![c] = run'[c]]
        BY <1>1, <1>4 DEF SessionFails
    <2>2. SessionsOf(r.kept) \cup {s} \subseteq SessionsOf(k) \cup gone
        BY <1>1, UpsertCovers
    <2> HIDE DEF k, gone
    <2>3. \A i \in 1..Len(log) : (i <= r.upto \/ i <= reached) /\ log[i] \in gone => i \in givenUp'
        BY <2>1 DEF LogRows
    <2>4. /\ run'[c].kept = k /\ run'[c].batch = r.batch \ {s} /\ run'[c].todo = r.todo
          /\ run'[c].from = r.from /\ run'[c].upto = r.upto /\ run'[c].newest = r.newest
          /\ run'[c].pc = "sessions"
        BY <1>1, <2>1 DEF RunState
    <2>5. CoversBatch(c)'
        <3> SUFFICES ASSUME NEW i \in (r.from + 1)..r.upto
                     PROVE  HasEnded(i)' \/ log[i] \in (r.batch \ {s}) \cup SessionsOf(k)
            BY <2>1, <2>4 DEF CoversBatch, Covered, HasEnded
        <3>1. Covered(i, r.batch \cup SessionsOf(r.kept))
            BY <1>2 DEF CoversBatch
        <3>2. i \in 1..Len(log) /\ i <= r.upto
            BY <1>1
        <3> QED
            BY <2>1, <2>2, <2>3, <3>1, <3>2 DEF Covered, HasEnded
    <2>6. c \notin late => CoversQueue(c)'
        <3> SUFFICES ASSUME c \notin late PROVE CoversQueue(c)'
            OBVIOUS
        <3>1. ASSUME NEW i \in 1..reached, log[i] \in SessionsOf(queue)
              PROVE  HasEnded(i)' \/ log[i] \in SessionsOf(r.todo) \cup SessionsOf(k)
            <4>1. Covered(i, SessionsOf(r.todo) \cup SessionsOf(r.kept))
                BY <1>2, <3>1 DEF CoversQueue
            <4>2. i \in 1..Len(log) /\ i <= reached
                BY <1>1
            <4> QED
                BY <2>1, <2>2, <2>3, <4>1, <4>2 DEF Covered, HasEnded
        <3> QED
            BY <1>2, <2>1, <2>4, <3>1 DEF CoversQueue, Covered, HasEnded
    <2> QED
        BY <1>1, <2>1, <2>4, <2>5, <2>6, InsideRun
<1> QED
    BY <1>3, <1>4

\* A run that comes to save its copy, which may be older than the queue.
LEMMA SaveCovers ==
    ASSUME CoverInv, NEW c \in Cycles, SaveQueue(c)
    PROVE  cursor' <= reached' /\ ReachedIsCovered' /\ \A d \in Cycles : RunCovers(d)'
<1> DEFINE r == run[c]
<1>1. /\ reached \in Nat /\ cursor \in Nat /\ cursor <= reached /\ ReachedIsCovered
      /\ run \in [Cycles -> RunState] /\ r \in RunState /\ RunCovers(c)
      /\ r.from \in Nat /\ r.upto \in Nat /\ r.from <= reached
      /\ r.pc = "sessions" /\ r.todo = <<>> /\ r.batch = {}
      /\ CoversBatch(c) /\ (c \notin late => CoversQueue(c))
    BY DEF CoverInv, TypeInv, NightTypeOK, RunState, SaveQueue, RunCovers
<1>2. /\ queue' = r.kept /\ run' = [run EXCEPT ![c].pc = "post"] /\ reached' = Max2(reached, r.upto)
      /\ overwritten' = IF c \in late THEN overwritten \cup Dropped(queue, r.kept) ELSE overwritten
      /\ late' = (late \ {c}) \cup OutOfDate(c)
      /\ UNCHANGED <<log, cursor, processed, givenUp, pruned>>
    BY DEF SaveQueue
<1>3. /\ reached' \in Nat /\ reached <= reached' /\ r.upto <= reached'
      /\ \A i \in 1..reached' : i \in 1..reached \/ i \in (r.from + 1)..r.upto
    BY <1>1, <1>2 DEF Max2
<1>4. ASSUME NEW i \in 1..reached PROVE Covered(i, SessionsOf(r.kept))'
    <2>1. Covered(i, SessionsOf(queue))
        BY <1>1 DEF ReachedIsCovered
    <2>2. CASE c \in late
        BY <1>2, <2>1, <2>2 DEF Covered, HasEnded, Dropped
    <2>3. CASE c \notin late
        <3>1. SessionsOf(r.todo) = {}
            BY <1>1 DEF SessionsOf
        <3>2. overwritten' = overwritten
            BY <1>2, <2>3
        <3> QED
            BY <1>1, <1>2, <2>1, <2>3, <3>1, <3>2 DEF CoversQueue, Covered, HasEnded
    <2> QED
        BY <2>2, <2>3
<1>5. ASSUME NEW i \in (r.from + 1)..r.upto PROVE Covered(i, SessionsOf(r.kept))'
    <2>1. Covered(i, SessionsOf(r.kept))
        BY <1>1 DEF CoversBatch, Covered, HasEnded
    <2>2. overwritten \subseteq overwritten'
        BY <1>2
    <2> QED
        BY <1>2, <2>1, <2>2 DEF Covered, HasEnded
<1>6. ReachedIsCovered'
    BY <1>2, <1>3, <1>4, <1>5 DEF ReachedIsCovered, Covered, HasEnded
<1>7. RunCovers(c)'
    <2>1. run'[c].pc = "post" /\ run'[c].upto = r.upto
        BY <1>1, <1>2 DEF RunState
    <2> QED
        BY <1>3, <2>1 DEF RunCovers
<1>8. ASSUME NEW d \in Cycles, d # c PROVE RunCovers(d)'
    <2>1. /\ run'[d] = run[d] /\ RunCovers(d) /\ run[d].from \in Nat /\ run[d].upto \in Nat
          /\ run[d].pc = "sessions" => d \in late'
        BY <1>1, <1>2, <1>8 DEF CoverInv, OutOfDate, RunState
    <2>2. overwritten \subseteq overwritten'
        BY <1>2
    <2>3. CoversBatch(d) => CoversBatch(d)'
        BY <1>2, <2>1, <2>2 DEF CoversBatch, SessionsOf, Covered, HasEnded
    <2> QED
        BY <1>1, <1>3, <2>1, <2>3 DEF RunCovers
<1> QED
    BY <1>1, <1>2, <1>3, <1>6, <1>7, <1>8

\* The focus prune of one run takes the queue from all.
LEMMA PruneCovers ==
    ASSUME CoverInv, NEW c \in Cycles, FocusPruneTakesQueue(c)
    PROVE  cursor' <= reached' /\ ReachedIsCovered' /\ \A d \in Cycles : RunCovers(d)'
<1>1. /\ queue' = <<>> /\ run' = [run EXCEPT ![c].pc = "pruned"] /\ run[c].pc = "post"
      /\ pruned' = pruned \cup Dropped(queue, <<>>) /\ late' = late \cup OutOfDate(c)
      /\ UNCHANGED <<log, cursor, reached, processed, givenUp, overwritten>>
    BY DEF FocusPruneTakesQueue
<1>2. /\ run \in [Cycles -> RunState] /\ cursor <= reached /\ ReachedIsCovered
      /\ \A d \in Cycles : RunCovers(d) /\ run[d] \in RunState
    BY DEF CoverInv, TypeInv, NightTypeOK
<1>3. SessionsOf(<<>>) = {}
    BY DEF SessionsOf
<1>4. ReachedIsCovered'
    <2> SUFFICES ASSUME NEW i \in 1..reached PROVE Covered(i, {})'
        BY <1>1, <1>3 DEF ReachedIsCovered
    <2>1. Covered(i, SessionsOf(queue))
        BY <1>2 DEF ReachedIsCovered
    <2> QED
        BY <1>1, <1>3, <2>1 DEF Covered, HasEnded, Dropped
<1>5. RunCovers(c)'
    BY <1>1, <1>2 DEF RunCovers, RunState
<1>6. ASSUME NEW d \in Cycles, d # c PROVE RunCovers(d)'
    <2>1. run'[d] = run[d] /\ RunCovers(d) /\ (run[d].pc = "sessions" => d \in late')
        BY <1>1, <1>2, <1>6 DEF OutOfDate
    <2>2. CoversBatch(d) => CoversBatch(d)'
        BY <1>1, <2>1 DEF CoversBatch, SessionsOf, Covered, HasEnded
    <2> QED
        BY <1>1, <2>1, <2>2 DEF RunCovers
<1> QED
    BY <1>1, <1>2, <1>4, <1>5, <1>6

LEMMA CoverStep == CoverInv /\ [NightNext]_nightVars => CoverInv'
<1> SUFFICES ASSUME CoverInv, [NightNext]_nightVars
             PROVE  cursor' <= reached' /\ ReachedIsCovered' /\ \A d \in Cycles : RunCovers(d)'
    BY TypeStep DEF CoverInv
<1>t. /\ log \in Seq(Sessions) /\ Len(log) \in Nat /\ cursor \in 0..Len(log) /\ reached \in 0..Len(log)
      /\ cursor <= reached /\ ReachedIsCovered
      /\ run \in [Cycles -> RunState]
      /\ \A d \in Cycles : /\ RunCovers(d) /\ run[d] \in RunState
                           /\ run[d].upto \in Nat /\ run[d].from \in Nat /\ run[d].upto <= Len(log)
    BY DEF CoverInv, TypeInv, NightTypeOK, RunOK, RunState
<1>1. ASSUME NEW s \in Sessions, AppendLog(s)
      PROVE  cursor' <= reached' /\ ReachedIsCovered' /\ \A d \in Cycles : RunCovers(d)'
    <2>1. /\ \A i \in 1..Len(log) : log'[i] = log[i]
          /\ UNCHANGED <<cursor, queue, run, reached, processed, givenUp, pruned, late, overwritten>>
        BY <1>1, <1>t DEF AppendLog, nightLog
    <2>3. ReachedIsCovered'
        BY <1>t, <2>1 DEF ReachedIsCovered, Covered, HasEnded, SessionsOf
    <2>4. \A d \in Cycles : RunCovers(d)'
        <3> TAKE d \in Cycles
        <3>1. run'[d] = run[d] /\ RunCovers(d) /\ run[d].upto <= Len(log) /\ run[d].upto \in Nat /\ run[d].from \in Nat
            BY <1>t, <2>1
        <3>2. CoversBatch(d) => CoversBatch(d)'
            BY <1>t, <2>1, <3>1 DEF CoversBatch, Covered, HasEnded, SessionsOf
        <3>3. CoversQueue(d) => CoversQueue(d)'
            <4>1. \A i \in 1..reached : i \in 1..Len(log)
                BY <1>t
            <4>2. UNCHANGED <<queue, reached, processed, givenUp, pruned, overwritten>> /\ run'[d] = run[d]
                BY <2>1, <3>1
            <4> QED
                BY <2>1, <4>1, <4>2 DEF CoversQueue, Covered, HasEnded, SessionsOf
        <3> QED
            BY <2>1, <3>1, <3>2, <3>3 DEF RunCovers
    <2> QED
        BY <1>t, <2>1, <2>3, <2>4
<1>2. ASSUME NEW c \in Cycles, Trigger(c)
      PROVE  cursor' <= reached' /\ ReachedIsCovered' /\ \A d \in Cycles : RunCovers(d)'
    <2>1. /\ run'[c] = [pc |-> "sessions", from |-> cursor, upto |-> BatchEnd,
                        newest |-> Len(log), todo |-> queue, kept |-> <<>>,
                        batch |-> {log[i] : i \in (cursor + 1)..BatchEnd}]
          /\ \A d \in Cycles : d # c => run'[d] = run[d]
          /\ late' = late \ {c}
          /\ UNCHANGED <<log, cursor, queue, reached, processed, givenUp, pruned, overwritten>>
        BY <1>2, <1>t DEF Trigger
    <2>2. BatchEnd \in Nat
        BY <1>t, NightAssumption DEF BatchEnd, Min2
    <2>3. CoversBatch(c)'
        BY <2>1, <2>2 DEF CoversBatch, Covered, HasEnded
    <2>4. CoversQueue(c)'
        BY <1>t, <2>1 DEF CoversQueue, Covered, HasEnded
    <2>5. RunCovers(c)'
        BY <1>t, <2>1, <2>3, <2>4 DEF RunCovers
    <2>6. \A d \in Cycles : d # c => RunCovers(d)'
        BY <1>t, <2>1 DEF RunCovers, CoversBatch, CoversQueue, Covered, HasEnded
    <2> QED
        BY <1>t, <2>1, <2>5, <2>6 DEF ReachedIsCovered, Covered, HasEnded
<1>3. ASSUME NEW c \in Cycles, RunThrows(c)
      PROVE  cursor' <= reached' /\ ReachedIsCovered' /\ \A d \in Cycles : RunCovers(d)'
    <2>1. /\ run'[c].pc = "idle" /\ \A d \in Cycles : d # c => run'[d] = run[d]
          /\ UNCHANGED <<log, cursor, queue, reached, processed, givenUp, pruned, late, overwritten>>
        BY <1>3, <1>t DEF RunThrows, IdleRun, nightLog
    <2> QED
        BY <1>t, <2>1 DEF ReachedIsCovered, RunCovers, CoversBatch, CoversQueue, Covered, HasEnded
<1>4. ASSUME NEW c \in Cycles, SaveCursor(c)
      PROVE  cursor' <= reached' /\ ReachedIsCovered' /\ \A d \in Cycles : RunCovers(d)'
    <2>1. /\ run'[c].pc = "idle" /\ \A d \in Cycles : d # c => run'[d] = run[d]
          /\ cursor' = run[c].upto /\ run[c].upto <= reached
          /\ UNCHANGED <<log, queue, reached, processed, givenUp, pruned, late, overwritten>>
        BY <1>4, <1>t DEF SaveCursor, NextCursor, IdleRun, RunCovers, nightLog
    <2> QED
        BY <1>t, <2>1 DEF ReachedIsCovered, RunCovers, CoversBatch, CoversQueue, Covered, HasEnded
<1>5. CASE NightRestart
    BY <1>5, <1>t DEF NightRestart, IdleRun, ReachedIsCovered, RunCovers, Covered, HasEnded, nightLog
<1>6. CASE WatchdogFires \/ UNCHANGED nightVars
    BY <1>6, <1>t DEF WatchdogFires, nightVars, nightLog, ReachedIsCovered, RunCovers, CoversBatch, CoversQueue, Covered, HasEnded
<1> QED
    BY <1>1, <1>2, <1>3, <1>4, <1>5, <1>6, RetryCovers, BatchCovers, SaveCovers, PruneCovers
       DEF NightNext, RunStep

\* No session whose scrub or translation failed is lost but in the two ways
\* that are named: each row the cursor has passed was processed, was given up
\* with its session, its session waits in the queue, or the queue was taken by
\* the focus prune or overwritten by a run that the watchdog had given up,
\* whatever fails, whichever runs overlap and whenever the process restarts.
THEOREM NothingForgotten == NightSpec => []NoForgottenRow
<1>1. CoverInv => NoForgottenRow
    <2> SUFFICES ASSUME CoverInv, NEW i \in 1..cursor PROVE Accounted(i)
        BY DEF NoForgottenRow
    <2>1. i \in 1..reached
        BY DEF CoverInv, TypeInv, NightTypeOK
    <2>2. Covered(i, SessionsOf(queue))
        BY <2>1 DEF CoverInv, ReachedIsCovered
    <2> QED
        BY <2>2 DEF Covered, HasEnded, Accounted
<1>2. CoverInv /\ [NightNext]_nightVars => CoverInv'
    BY CoverStep
<1> QED
    BY <1>1, <1>2, CoverInit, PTL DEF NightSpec

-----------------------------------------------------------------------------
(* The queue is a set of at most MaxQueue sessions, however runs overlap.   *)

Distinct(q) == \A i, j \in 1..Len(q) : q[i].session = q[j].session => i = j

RunShape(r) ==
    /\ Distinct(r.todo) /\ Distinct(r.kept)
    /\ SessionsOf(r.todo) \cap SessionsOf(r.kept) = {}
    /\ Len(r.todo) + Len(r.kept) <= MaxQueue

ShapeInv == TypeInv /\ QueueIsASet /\ \A c \in Cycles : RunShape(run[c])

LEMMA TailDistinct ==
    ASSUME NEW q \in Seq(RetryEntry), q # <<>>, Distinct(q)
    PROVE  /\ Distinct(Tail(q)) /\ Len(Tail(q)) = Len(q) - 1
           /\ Head(q).session \notin SessionsOf(Tail(q))
<1>1. /\ Len(q) \in Nat /\ Len(q) >= 1 /\ Head(q) = q[1]
      /\ Len(Tail(q)) = Len(q) - 1
      /\ \A j \in 1..Len(Tail(q)) : j + 1 \in 1..Len(q) /\ Tail(q)[j] = q[j + 1]
    OBVIOUS
<1>2. Distinct(Tail(q))
    <2> SUFFICES ASSUME NEW i \in 1..Len(Tail(q)), NEW j \in 1..Len(Tail(q)),
                        Tail(q)[i].session = Tail(q)[j].session
                 PROVE  i = j
        BY DEF Distinct
    <2>1. i + 1 = j + 1
        BY <1>1 DEF Distinct
    <2> QED
        BY <1>1, <2>1
<1>3. \A j \in 1..Len(Tail(q)) : Tail(q)[j].session # q[1].session
    <2> TAKE j \in 1..Len(Tail(q))
    <2>1. 1 \in 1..Len(q) /\ j + 1 # 1
        BY <1>1
    <2> QED
        BY <1>1, <2>1 DEF Distinct
<1> QED
    BY <1>1, <1>2, <1>3 DEF SessionsOf

LEMMA AppendDistinct ==
    ASSUME NEW q \in Seq(RetryEntry), NEW e, Distinct(q), e.session \notin SessionsOf(q)
    PROVE  Distinct(Append(q, e)) /\ Len(Append(q, e)) = Len(q) + 1
<1>1. /\ Len(Append(q, e)) = Len(q) + 1 /\ Len(q) \in Nat
      /\ \A j \in 1..Len(q) : Append(q, e)[j] = q[j]
      /\ Append(q, e)[Len(q) + 1] = e
    OBVIOUS
<1>2. \A j \in 1..Len(q) : q[j].session # e.session
    BY DEF SessionsOf
<1> QED
    BY <1>1, <1>2 DEF Distinct

LEMMA UpsertDistinct ==
    ASSUME NEW q \in Seq(RetryEntry), NEW s \in Sessions, Distinct(q), Len(q) <= MaxQueue
    PROVE  Distinct(UpsertRetry(q, s)) /\ Len(UpsertRetry(q, s)) <= MaxQueue
<1>1. CASE s \in SessionsOf(q)
    BY <1>1, UpsertSame DEF Distinct
<1>2. CASE s \notin SessionsOf(q)
    <2> DEFINE a == Append(q, FirstFailure(s))
    <2>1. a \in Seq(RetryEntry) /\ a # <<>> /\ Len(a) = Len(q) + 1 /\ Len(q) \in Nat
        BY AppendFailure
    <2>2. Distinct(a)
        BY <1>2, AppendFailure, AppendDistinct
    <2>3. UpsertRetry(q, s) = IF Len(a) <= MaxQueue THEN a ELSE Tail(a)
        BY <1>2 DEF UpsertRetry, Trimmed
    <2> HIDE DEF a
    <2>4. Distinct(Tail(a)) /\ Len(Tail(a)) = Len(a) - 1
        BY <2>1, <2>2, TailDistinct
    <2> QED
        BY <2>1, <2>2, <2>3, <2>4, NightAssumption
<1> QED
    BY <1>1, <1>2

LEMMA ShapeStep == ShapeInv /\ [NightNext]_nightVars => ShapeInv'
<1> SUFFICES ASSUME ShapeInv, [NightNext]_nightVars
             PROVE  QueueIsASet' /\ \A c \in Cycles : RunShape(run[c])'
    BY TypeStep DEF ShapeInv
<1>t. /\ queue \in Seq(RetryEntry) /\ QueueIsASet /\ Distinct(queue) /\ Len(queue) <= MaxQueue
      /\ run \in [Cycles -> RunState]
      /\ \A c \in Cycles : /\ run[c].todo \in Seq(RetryEntry) /\ run[c].kept \in Seq(RetryEntry)
                           /\ run[c] \in RunState /\ RunShape(run[c])
    BY DEF ShapeInv, TypeInv, NightTypeOK, RunState, QueueIsASet, Distinct
<1>i. RunShape(IdleRun)
    <2>1. IdleRun.todo = <<>> /\ IdleRun.kept = <<>> /\ Len(<<>>) = 0
        BY DEF IdleRun
    <2> QED
        BY <2>1, NightAssumption DEF RunShape, Distinct, SessionsOf
<1>1. ASSUME NEW c \in Cycles, run' = [run EXCEPT ![c] = run'[c]], RunShape(run'[c])
      PROVE  \A d \in Cycles : RunShape(run'[d])
    BY <1>t, <1>1
<1>2. ASSUME NEW c \in Cycles, Trigger(c) \/ RunStep(c) \/ FocusPruneTakesQueue(c) \/ RunThrows(c)
      PROVE  QueueIsASet' /\ \A d \in Cycles : RunShape(run'[d])
    <2> DEFINE r == run[c]
    <2>0. /\ r.todo \in Seq(RetryEntry) /\ r.kept \in Seq(RetryEntry) /\ r \in RunState
          /\ Distinct(r.todo) /\ Distinct(r.kept)
          /\ SessionsOf(r.todo) \cap SessionsOf(r.kept) = {}
          /\ Len(r.todo) + Len(r.kept) <= MaxQueue
        BY <1>t DEF RunShape
    <2>n. Len(r.todo) \in Nat /\ Len(r.kept) \in Nat /\ MaxQueue \in Nat
        BY <2>0, NightAssumption
    <2>m. /\ Len(r.kept) <= MaxQueue
          /\ (Len(r.todo) - 1) + Len(r.kept) <= MaxQueue
          /\ (Len(r.todo) - 1) + (Len(r.kept) + 1) <= MaxQueue
        <3> DEFINE n == Len(r.todo)
                   m == Len(r.kept)
        <3>1. n \in Nat /\ m \in Nat /\ MaxQueue \in Nat /\ n + m <= MaxQueue
            BY <2>0, <2>n
        <3>2. n = Len(r.todo) /\ m = Len(r.kept)
            OBVIOUS
        <3> HIDE DEF n, m
        <3>3. m <= MaxQueue /\ (n - 1) + m <= MaxQueue /\ (n - 1) + (m + 1) <= MaxQueue
            BY <3>1
        <3> QED
            BY <3>2, <3>3
    <2>1. CASE Trigger(c)
        <3>1. run'[c].todo = queue /\ run'[c].kept = <<>> /\ run' = [run EXCEPT ![c] = run'[c]]
            BY <1>t, <2>1 DEF Trigger
        <3>2. RunShape(run'[c])
            <4>1. Len(<<>>) = 0 /\ SessionsOf(<<>>) = {} /\ Distinct(<<>>) /\ Len(queue) \in Nat
                BY <1>t DEF SessionsOf, Distinct
            <4> QED
                BY <1>t, <3>1, <4>1, NightAssumption DEF RunShape
        <3> QED
            BY <1>1, <1>t, <2>1, <3>1, <3>2 DEF Trigger, QueueIsASet
    <2>2. ASSUME r.todo # <<>>, queue' = queue, run' = [run EXCEPT ![c] = run'[c]],
                 run'[c].todo = Tail(r.todo),
                 \/ run'[c].kept = r.kept
                 \/ \E e : e.session = Head(r.todo).session /\ run'[c].kept = Append(r.kept, e)
          PROVE  QueueIsASet' /\ \A d \in Cycles : RunShape(run'[d])
        <3>1. /\ Distinct(Tail(r.todo)) /\ Len(Tail(r.todo)) = Len(r.todo) - 1
              /\ Head(r.todo).session \notin SessionsOf(Tail(r.todo))
              /\ SessionsOf(r.todo) = SessionsOf(Tail(r.todo)) \cup {Head(r.todo).session}
            BY <2>0, <2>2, TailDistinct, HeadAndTail
        <3>n. /\ Len(Tail(r.todo)) + Len(r.kept) <= MaxQueue
              /\ Len(Tail(r.todo)) + (Len(r.kept) + 1) <= MaxQueue
            BY <2>m, <3>1
        <3>2. CASE run'[c].kept = r.kept
            <4>1. RunShape(run'[c])
                BY <2>0, <2>2, <3>1, <3>2, <3>n DEF RunShape
            <4> QED
                BY <1>1, <1>t, <2>2, <4>1 DEF QueueIsASet
        <3>3. ASSUME NEW e, e.session = Head(r.todo).session, run'[c].kept = Append(r.kept, e)
              PROVE  QueueIsASet' /\ \A d \in Cycles : RunShape(run'[d])
            <4>1. e.session \notin SessionsOf(r.kept)
                BY <2>0, <3>1, <3>3
            <4>2. /\ Distinct(Append(r.kept, e)) /\ Len(Append(r.kept, e)) = Len(r.kept) + 1
                  /\ SessionsOf(Append(r.kept, e)) = SessionsOf(r.kept) \cup {e.session}
                BY <2>0, <4>1, AppendDistinct, AppendSession
            <4>3. RunShape(run'[c])
                <5>1. (SessionsOf(r.kept) \cup {e.session}) \cap SessionsOf(Tail(r.todo)) = {}
                    BY <2>0, <3>1, <3>3
                <5> QED
                    BY <2>2, <3>1, <3>3, <3>n, <4>2, <5>1 DEF RunShape
            <4> QED
                BY <1>1, <1>t, <2>2, <4>3 DEF QueueIsASet
        <3> QED
            BY <2>2, <3>2, <3>3
    <2>3. CASE DropExhausted(c) \/ RetrySucceeds(c)
        BY <1>t, <2>2, <2>3 DEF DropExhausted, RetrySucceeds, RunState
    <2>4. CASE RetryFails(c)
        <3> DEFINE e == [Head(r.todo) EXCEPT !.attempts = @ + 1]
        <3>1. r.todo # <<>> /\ Head(r.todo) \in RetryEntry
            BY <2>0, <2>4 DEF RetryFails
        <3>2. e.session = Head(r.todo).session
            BY <3>1 DEF RetryEntry
        <3>3. /\ run' = [run EXCEPT ![c] = run'[c]] /\ queue' = queue
              /\ run'[c].todo = Tail(r.todo) /\ run'[c].kept = Append(r.kept, e)
            BY <1>t, <2>4 DEF RetryFails, RunState
        <3> HIDE DEF e
        <3> QED
            BY <2>2, <3>1, <3>2, <3>3
    <2>5. ASSUME NEW s \in Sessions, SessionSucceeds(c, s)
          PROVE  QueueIsASet' /\ \A d \in Cycles : RunShape(run'[d])
        BY <1>1, <1>t, <2>0, <2>5 DEF SessionSucceeds, RunShape, RunState, QueueIsASet
    <2>6. ASSUME NEW s \in Sessions, SessionFails(c, s)
          PROVE  QueueIsASet' /\ \A d \in Cycles : RunShape(run'[d])
        <3> DEFINE k == UpsertRetry(r.kept, s)
        <3>1. /\ run' = [run EXCEPT ![c] = run'[c]] /\ queue' = queue
              /\ run'[c].todo = <<>> /\ run'[c].kept = k
            BY <1>t, <2>0, <2>6 DEF SessionFails, InBatch, RunState
        <3>2. Len(r.kept) <= MaxQueue /\ k \in Seq(RetryEntry)
            <4>1. TypeInv' /\ run'[c].kept \in Seq(RetryEntry)
                BY TypeStep DEF ShapeInv, TypeInv, NightTypeOK, RunState
            <4> HIDE DEF k
            <4> QED
                BY <2>m, <3>1, <4>1
        <3>3. Distinct(k) /\ Len(k) <= MaxQueue
            BY <2>0, <3>2, UpsertDistinct
        <3> HIDE DEF k
        <3>4. Len(<<>>) = 0 /\ SessionsOf(<<>>) = {} /\ Distinct(<<>>) /\ Len(k) \in Nat
            BY <3>2 DEF SessionsOf, Distinct
        <3>5. RunShape(run'[c])
            BY <3>1, <3>3, <3>4, NightAssumption DEF RunShape
        <3> QED
            BY <1>1, <1>t, <3>1, <3>5 DEF QueueIsASet
    <2>7. CASE SaveQueue(c)
        <3>1. /\ run' = [run EXCEPT ![c] = run'[c]] /\ queue' = r.kept
              /\ run'[c].todo = r.todo /\ run'[c].kept = r.kept
            BY <1>t, <2>7 DEF SaveQueue, RunState
        <3>2. RunShape(run'[c])
            BY <2>0, <3>1 DEF RunShape
        <3>3. Len(r.kept) <= MaxQueue
            BY <2>m
        <3>4. QueueIsASet'
            BY <2>0, <3>1, <3>3 DEF QueueIsASet, Distinct
        <3> QED
            BY <1>1, <3>1, <3>2, <3>4
    <2>8. CASE SaveCursor(c) \/ RunThrows(c)
        BY <1>1, <1>i, <1>t, <2>8 DEF SaveCursor, RunThrows, QueueIsASet
    <2>9. CASE FocusPruneTakesQueue(c)
        <3>1. /\ run' = [run EXCEPT ![c] = run'[c]] /\ queue' = <<>> /\ Len(<<>>) = 0
              /\ run'[c].todo = r.todo /\ run'[c].kept = r.kept
            BY <1>t, <2>9 DEF FocusPruneTakesQueue, RunState
        <3>2. RunShape(run'[c])
            BY <2>0, <3>1 DEF RunShape
        <3>3. QueueIsASet'
            BY <3>1, NightAssumption DEF QueueIsASet
        <3> QED
            BY <1>1, <3>1, <3>2, <3>3
    <2> QED
        BY <1>2, <2>1, <2>3, <2>4, <2>5, <2>6, <2>7, <2>8, <2>9 DEF RunStep
<1>3. ASSUME NEW s \in Sessions, AppendLog(s)
      PROVE  QueueIsASet' /\ \A c \in Cycles : RunShape(run'[c])
    BY <1>3, <1>t DEF AppendLog, QueueIsASet
<1>4. CASE WatchdogFires \/ UNCHANGED nightVars
    BY <1>4, <1>t DEF WatchdogFires, nightVars, QueueIsASet
<1>5. CASE NightRestart
    BY <1>5, <1>i, <1>t DEF NightRestart, QueueIsASet
<1>6. QueueIsASet' /\ \A c \in Cycles : RunShape(run'[c])
    BY <1>2, <1>3, <1>4, <1>5 DEF NightNext
<1> QED
    BY <1>6 DEF RunShape, Distinct, SessionsOf

\* The saved queue names a session once and stays within its limit, even when
\* overlapping runs save their own copies of it over each other.
THEOREM QueueStaysASet == NightSpec => []QueueIsASet
<1>1. NightInit => ShapeInv
    <2> SUFFICES ASSUME NightInit PROVE QueueIsASet /\ \A c \in Cycles : RunShape(run[c])
        BY TypeInit DEF ShapeInv
    <2>1. IdleRun.todo = <<>> /\ IdleRun.kept = <<>> /\ Len(<<>>) = 0
        BY DEF IdleRun
    <2>2. RunShape(IdleRun)
        BY <2>1, NightAssumption DEF RunShape, Distinct, SessionsOf
    <2>3. QueueIsASet
        BY NightAssumption DEF NightInit, QueueIsASet
    <2> QED
        BY <2>2, <2>3 DEF NightInit
<1>2. ShapeInv => QueueIsASet
    BY DEF ShapeInv
<1> QED
    BY <1>1, <1>2, ShapeStep, PTL DEF NightSpec

=============================================================================
