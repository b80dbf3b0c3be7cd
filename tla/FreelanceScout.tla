--------------------------- MODULE FreelanceScout ---------------------------
(***************************************************************************)
(* The freelance scout: every tick reads the feed of a job board through   *)
(* the browser, has a model score each lead that is not stored yet, stores *)
(* the good ones and alerts the owner.  A lead takes a pause and up to two *)
(* calls, so a tick may go on when the next one begins, and when the scout *)
(* is stopped and started again.  One board stands for the three.          *)
(***************************************************************************)
EXTENDS Integers, FiniteSets

CONSTANTS
  Urls,       \* leads of the feed that pass the prefilter
  Ticks,      \* ticks that may go on at a time
  MaxStarts   \* bound: calls of start()

ASSUME ScoutAssumption == MaxStarts \in Nat \ {0}

VARIABLES
  leads,    \* urls in freelance_leads
  alerts,   \* url -> alerts sent
  scout,    \* tick -> where it is
  on,       \* started and not stopped
  starts,   \* how often it was; each start makes a new AbortController
  blocked   \* pausedUntil is ahead

scoutVars == <<leads, alerts, scout, on, starts, blocked>>

Quiet == [at |-> "idle"]

(* A tick reads the feed, goes through its items, or is busy with a lead. *)
Reads == [at : {"idle", "fetching"}]
Lists == [at : {"items"}, todo : SUBSET Urls]
Works == [at : {"sleeping", "evaluating", "alerting"}, todo : SUBSET Urls, url : Urls,
          start : 0..MaxStarts]

ScoutTypeOK == /\ leads \subseteq Urls /\ alerts \in [Urls -> Nat] /\ on \in BOOLEAN
               /\ starts \in 0..MaxStarts /\ blocked \in BOOLEAN
               /\ scout \in [Ticks -> Reads \union Lists \union Works]

ScoutInit == /\ leads = {} /\ alerts = [u \in Urls |-> 0]
             /\ scout = [k \in Ticks |-> Quiet]
             /\ on = FALSE /\ starts = 0 /\ blocked = FALSE

Goes(k, to) == scout' = [scout EXCEPT ![k] = to]

(* The signal a tick waits on is that of the start under which it began    *)
(* to wait; the loop itself asks the signal of the latest start.           *)
Aborted(k) == ~on \/ scout[k].start # starts

(* POST /start and /stop, and shutdown; a start ticks at once. *)
ScoutStarts == /\ ~on /\ starts < MaxStarts
               /\ on' = TRUE /\ starts' = starts + 1
               /\ \E k \in Ticks : /\ scout[k] = Quiet
                                    /\ Goes(k, IF blocked THEN Quiet ELSE [at |-> "fetching"])
               /\ UNCHANGED <<leads, alerts, blocked>>
ScoutStops == /\ on /\ on' = FALSE
              /\ UNCHANGED <<leads, alerts, scout, starts, blocked>>

TickFires(k) == /\ on /\ scout[k] = Quiet /\ ~blocked
                /\ Goes(k, [at |-> "fetching"])
                /\ UNCHANGED <<leads, alerts, on, starts, blocked>>

(* The feed is read, or the board wants no robots, or the page fails. *)
FeedIsRead(k) == /\ scout[k].at = "fetching"
                 /\ \E items \in SUBSET Urls :
                      Goes(k, [at |-> "items", todo |-> items])
                 /\ UNCHANGED <<leads, alerts, on, starts, blocked>>
FeedIsBlocked(k) == /\ scout[k].at = "fetching" /\ Goes(k, Quiet) /\ blocked' = TRUE
                    /\ UNCHANGED <<leads, alerts, on, starts>>
FeedFails(k) == /\ scout[k].at = "fetching" /\ Goes(k, Quiet)
                /\ UNCHANGED <<leads, alerts, on, starts, blocked>>

(* The next item: a stored one is passed over, the others wait a while. *)
ItemsEnd(k) == /\ scout[k].at = "items" /\ (scout[k].todo = {} \/ ~on)
               /\ Goes(k, Quiet)
               /\ UNCHANGED <<leads, alerts, on, starts, blocked>>
NextItem(k) ==
  /\ scout[k].at = "items" /\ on
  /\ \E u \in scout[k].todo :
       LET rest == scout[k].todo \ {u}
       IN  Goes(k, IF u \in leads THEN [at |-> "items", todo |-> rest]
                   ELSE [at |-> "sleeping", todo |-> rest, url |-> u, start |-> starts])
  /\ UNCHANGED <<leads, alerts, on, starts, blocked>>

(* An aborted sleep throws out of the tick. *)
Wakes(k) == /\ scout[k].at = "sleeping"
            /\ Goes(k, IF Aborted(k) THEN Quiet ELSE [scout[k] EXCEPT !.at = "evaluating"])
            /\ UNCHANGED <<leads, alerts, on, starts, blocked>>

(* An aborted or failing evaluation scores 0.  The insert of a url that is *)
(* there by now throws, which is caught, and nobody is alerted.            *)
ScoresWell(k) == ~Aborted(k)
CanInsertTwice(u) == u \in Urls
CanInsert(u) == u \notin leads

LeadIsSaved(k) ==
  /\ scout[k].at = "evaluating" /\ ScoresWell(k) /\ CanInsert(scout[k].url)
  /\ leads' = leads \union {scout[k].url}
  /\ Goes(k, [scout[k] EXCEPT !.at = "alerting"])
  /\ UNCHANGED <<alerts, on, starts, blocked>>
LeadIsPassed(k) ==
  /\ scout[k].at = "evaluating"
  /\ Goes(k, [at |-> "items", todo |-> scout[k].todo])
  /\ UNCHANGED <<leads, alerts, on, starts, blocked>>

(* The alert is best effort. *)
Alerts(k) == /\ scout[k].at = "alerting"
             /\ \/ alerts' = [alerts EXCEPT ![scout[k].url] = @ + 1]
                \/ alerts' = alerts
             /\ Goes(k, [at |-> "items", todo |-> scout[k].todo])
             /\ UNCHANGED <<leads, on, starts, blocked>>

PauseEnds == /\ blocked /\ blocked' = FALSE
             /\ UNCHANGED <<leads, alerts, scout, on, starts>>

(* The process dies and starts again. *)
ScoutDies == /\ starts < MaxStarts /\ starts' = starts + 1 /\ on' = TRUE
             /\ \E first \in Ticks :
                  scout' = [k \in Ticks |-> IF k = first THEN [at |-> "fetching"] ELSE Quiet]
             /\ blocked' = FALSE
             /\ UNCHANGED <<leads, alerts>>

ScoutNext == \/ ScoutStarts \/ ScoutStops \/ PauseEnds \/ ScoutDies
             \/ \E k \in Ticks : \/ TickFires(k) \/ FeedIsRead(k) \/ FeedIsBlocked(k)
                                 \/ FeedFails(k) \/ ItemsEnd(k) \/ NextItem(k) \/ Wakes(k)
                                 \/ LeadIsSaved(k) \/ LeadIsPassed(k) \/ Alerts(k)

ScoutSpec == ScoutInit /\ [][ScoutNext]_scoutVars

---------------------------------------------------------------------------
(* Ticks that overlap, a restarted scout and a process that died never     *)
(* alert twice of a lead, and only of one that is stored.                  *)
OneAlertPerLead == \A u \in Urls : alerts[u] <= IF u \in leads THEN 1 ELSE 0

=============================================================================
