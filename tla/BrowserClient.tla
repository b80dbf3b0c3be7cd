---------------------------- MODULE BrowserClient ----------------------------
(***************************************************************************)
(* The client of the browser that the web tools and the freelance scout    *)
(* share.  It launches on first use, callers that come meanwhile wait for  *)
(* the same launch, and it forgets the browser when that disconnects, when *)
(* a tool closes it and after a fatal error.  A launch and a close take    *)
(* several awaits, and nothing keeps one from running into the other.      *)
(* Scopes beside the page of the tools are left out.                       *)
(***************************************************************************)
EXTENDS Integers

CONSTANTS
  Callers,     \* calls that may go on at a time
  MaxLaunches  \* bound: launches

ASSUME BrowserAssumption == MaxLaunches \in Nat \ {0}

VARIABLES
  alive,     \* browser processes that run
  browser,   \* this.browser: the launch it is from, or 0
  page,      \* this.page
  promise,   \* this.launchPromise: the launch it is of, or 0
  launch,    \* how far each launch is
  calls,      \* what each caller does
  crossed    \* history: a close ended beside a launch, or a launch left its process

browserVars == <<alive, browser, page, promise, launch, calls, crossed>>

Launches == 1..MaxLaunches
Free == [at |-> "free"]
Underway(k) == launch[k] \in {"starting", "up"}

CallStates == [at : {"free", "closing"}] \union [at : {"waiting"}, for : Launches]
              \union [at : {"acting"}, on : 0..MaxLaunches]
              \union [at : {"killing"}, what : 0..MaxLaunches]

BrowserTypeOK ==
  /\ alive \subseteq Launches /\ browser \in 0..MaxLaunches /\ promise \in 0..MaxLaunches
  /\ page \in {"none", "open", "closed"} /\ crossed \in BOOLEAN
  /\ launch \in [Launches -> {"none", "starting", "up", "done", "failed"}]
  /\ calls \in [Callers -> CallStates]

BrowserInit == /\ alive = {} /\ browser = 0 /\ page = "none" /\ promise = 0
               /\ launch = [k \in Launches |-> "none"]
               /\ calls = [c \in Callers |-> Free] /\ crossed = FALSE

Becomes(c, to) == calls' = [calls EXCEPT ![c] = to]

(* The fields are reset; so is the promise of whatever launch. *)
Forgets == browser' = 0 /\ page' = "none" /\ promise' = 0

---------------------------------------------------------------------------
(* ensureLaunched: a promise that was kept stays, so a page that closed by *)
(* itself does not make a second browser.                                  *)
IsReady == browser # 0 /\ page = "open"
LaunchesAnyway == ~IsReady
MustLaunch == ~IsReady /\ promise = 0

Comes(c) ==
  /\ calls[c] = Free
  /\ IF MustLaunch
     THEN \E k \in Launches :
            /\ launch[k] = "none" /\ \A j \in Launches : j < k => launch[j] # "none"
            /\ launch' = [launch EXCEPT ![k] = "starting"] /\ promise' = k
            /\ Becomes(c, [at |-> "waiting", for |-> k])
     ELSE /\ Becomes(c, IF IsReady THEN [at |-> "acting", on |-> browser]
                        ELSE [at |-> "waiting", for |-> promise])
          /\ UNCHANGED <<launch, promise>>
  /\ UNCHANGED <<alive, browser, page, crossed>>

ProcessStarts(k) == /\ launch[k] = "starting"
                    /\ launch' = [launch EXCEPT ![k] = "up"]
                    /\ alive' = alive \union {k}
                    /\ UNCHANGED <<browser, page, promise, calls, crossed>>

(* Context and page are there; the fields are set over what they held. *)
LaunchEnds(k) == /\ launch[k] = "up" /\ k \in alive
                 /\ launch' = [launch EXCEPT ![k] = "done"]
                 /\ browser' = k /\ page' = "open"
                 /\ UNCHANGED <<alive, promise, calls, crossed>>

(* No process, or no context or page in it: that process is left alone. *)
LaunchFails(k) == /\ Underway(k)
                  /\ launch' = [launch EXCEPT ![k] = "failed"]
                  /\ promise' = 0
                  /\ crossed' = (crossed \/ k \in alive)
                  /\ UNCHANGED <<alive, browser, page, calls>>

Resumes(c) == /\ calls[c].at = "waiting" /\ launch[calls[c].for] \in {"done", "failed"}
              /\ Becomes(c, IF launch[calls[c].for] = "failed" THEN Free
                            ELSE [at |-> "acting", on |-> browser])
              /\ UNCHANGED <<alive, browser, page, promise, launch, crossed>>

(* A call returns, or closes the browser: asked to, or since it was gone. *)
Returns(c) == /\ calls[c].at = "acting" /\ Becomes(c, Free)
              /\ UNCHANGED <<alive, browser, page, promise, launch, crossed>>
Closes(c) == /\ calls[c].at = "acting" /\ Becomes(c, [at |-> "closing"])
             /\ UNCHANGED <<alive, browser, page, promise, launch, crossed>>

(* Scopes and context are closed; then the browser that is held by now. *)
ContextIsClosed(c) == /\ calls[c].at = "closing"
                      /\ page' = IF browser = 0 THEN page ELSE "closed"
                      /\ Becomes(c, [at |-> "killing", what |-> browser])
                      /\ UNCHANGED <<alive, browser, promise, launch, crossed>>
CloseEnds(c) == /\ calls[c].at = "killing" /\ calls[c].what \notin alive
                /\ Forgets
                /\ Becomes(c, Free)
                /\ crossed' = (crossed \/ browser # 0 \/ \E k \in Launches : Underway(k))
                /\ UNCHANGED <<alive, launch>>

---------------------------------------------------------------------------
(* A process ends, killed or by itself.  Whoever was launched in it hears  *)
(* of it, also when the client has another browser.                       *)
Disconnects(k) == /\ k \in alive /\ alive' = alive \ {k}
                  /\ IF launch[k] = "done" THEN Forgets ELSE UNCHANGED <<browser, page, promise>>
                  /\ UNCHANGED <<launch, calls, crossed>>

PageCloses == /\ page = "open" /\ page' = "closed"
              /\ UNCHANGED <<alive, browser, promise, launch, calls, crossed>>

BrowserNext ==
  \/ \E k \in Launches : ProcessStarts(k) \/ LaunchEnds(k) \/ LaunchFails(k) \/ Disconnects(k)
  \/ \E c \in Callers : \/ Comes(c) \/ Resumes(c) \/ Returns(c) \/ Closes(c)
                        \/ ContextIsClosed(c) \/ CloseEnds(c)
  \/ PageCloses

BrowserSpec == BrowserInit /\ [][BrowserNext]_browserVars

---------------------------------------------------------------------------
(* Unless a close ended beside a launch, there is one browser at most, and *)
(* the client knows it or is about to.                                     *)
OneKnownBrowser ==
  ~crossed => /\ \A j, k \in alive : j = k
              /\ \A k \in alive : browser = k \/ (promise = k /\ Underway(k))
=============================================================================
