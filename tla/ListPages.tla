----------------------------- MODULE ListPages -----------------------------
(***************************************************************************)
(* The list pages of the web client (memory, tasks, freelance leads).  A   *)
(* page shows the answer to a query: tab or mode, filters, page number; a  *)
(* query belongs to a view with a list of its own (a tab of memory, active *)
(* tasks or history).  Nothing numbers or cancels loads; the flag and the  *)
(* text of an error are for show.  The pages differ in what they load when *)
(* a mutation was answered: a layer of memory, the pending rows included,  *)
(* loads itself, whatever tab is open by then; tasks and leads load what   *)
(* the page asks for by then.                                              *)
(***************************************************************************)
EXTENDS Naturals, Sequences, SequencesExt

CONSTANTS
  Views,
  Filters,
  MaxLoads,     \* bound: loads in flight
  MaxVersion    \* bound: changes of the table on the server

ASSUME ListsAssumption == Views # {} /\ Filters # {} /\ MaxLoads \in Nat /\ MaxVersion \in Nat

VARIABLES
  page,       \* which of the pages it is
  query,      \* what the page asks for
  typed,      \* the search text of memory was edited and not yet asked for
  lists,      \* view -> the answer it shows: the filter and the version read
  loads,     \* loads in flight, oldest first
  mutating,   \* view -> a mutation in flight, and whether the server has made it
  version,    \* of the table on the server
  own,        \* history: view -> the version when its last mutation was answered
  spoilt     \* history: view -> its loads overtook each other, or the last failed

listVars == <<page, query, typed, lists, loads, mutating, version, own, spoilt>>

Queries == [view : Views, filter : Filters]
NotLoaded == [filter |-> "none", version |-> 0]
Unspoilt == [order |-> FALSE, failed |-> FALSE]

InFlight(v) == \E i \in DOMAIN loads : loads[i].query.view = v

\* A load of the query; the server reads no earlier than now.
Load(q) == [query |-> q, from |-> version]
Sends(q) ==
  /\ Len(loads) < MaxLoads /\ loads' = Append(loads, Load(q))
  /\ typed' = (typed /\ q.view # query'.view)
  /\ spoilt' = IF InFlight(q.view) THEN spoilt ELSE [spoilt EXCEPT ![q.view] = Unspoilt]

\* Mounting a page loads it.
ListsInit ==
  /\ page \in {"memory", "tasks"}
  /\ query \in Queries /\ typed = FALSE
  /\ lists = [v \in Views |-> NotLoaded]
  /\ version = 1 /\ own = [v \in Views |-> 0] /\ mutating = [v \in Views |-> "no"]
  /\ loads = <<Load(query)>>
  /\ spoilt = [v \in Views |-> Unspoilt]

---------------------------------------------------------------------------
\* The watcher of a page, the setter or the submitted search sends the load.
Chooses(q) ==
  /\ query' = q
  /\ Sends(q)
  /\ UNCHANGED <<page, lists, mutating, version, own>>

\* The search box of memory is the query's text before it is submitted.
TypesSearch(f) ==
  /\ page = "memory" /\ query' = [query EXCEPT !.filter = f] /\ typed' = TRUE
  /\ UNCHANGED <<page, lists, loads, mutating, version, own, spoilt>>

\* Load i leaves; an older one of its list may still be on its way.
Leaves(i, failed) ==
  /\ i \in DOMAIN loads /\ loads' = RemoveAt(loads, i)
  /\ spoilt' = [spoilt EXCEPT ![loads[i].query.view] =
        [order |-> @.order \/ \E j \in 1 .. i - 1 : loads[j].query.view = loads[i].query.view,
         failed |-> failed]]
  /\ UNCHANGED <<page, query, typed, mutating, version, own>>

\* Nobody looks whether the load is still wanted.
LoadAnswered(i, v) ==
  /\ Leaves(i, FALSE) /\ v \in loads[i].from .. version
  /\ lists' = [lists EXCEPT ![loads[i].query.view] =
                 [filter |-> loads[i].query.filter, version |-> v]]

LoadFails(i) == Leaves(i, TRUE) /\ UNCHANGED lists

---------------------------------------------------------------------------
\* A row of the list on the screen is saved, deleted, approved, rejected...
Mutates(v) ==
  /\ v = query.view /\ mutating[v] = "no"
  /\ mutating' = [mutating EXCEPT ![v] = "sent"]
  /\ UNCHANGED <<page, query, typed, lists, loads, version, own, spoilt>>

\* The server makes a change of this client, or somebody else's.
ServerChanges ==
  /\ version < MaxVersion /\ version' = version + 1
  /\ \/ UNCHANGED mutating
     \/ \E v \in Views : mutating[v] = "sent" /\ mutating' = [mutating EXCEPT ![v] = "made"]
  /\ UNCHANGED <<page, query, typed, lists, loads, own, spoilt>>

\* What is loaded when a mutation of view v was answered, and for which views.
ReloadedBare(v) == [view |-> query.view, filter |-> CHOOSE f \in Filters : TRUE]  \* Mutant: without the filters.
Reloaded(v) == IF page = "memory" THEN [query EXCEPT !.view = v] ELSE query
Concerned(v) == IF page = "memory" THEN {v} ELSE Views
MutationAnswered(v) ==
  /\ mutating[v] = "made" /\ mutating' = [mutating EXCEPT ![v] = "no"]
  /\ own' = [w \in Views |-> IF w \in Concerned(v) THEN version ELSE own[w]]
  /\ UNCHANGED query /\ Sends(Reloaded(v))
  /\ UNCHANGED <<page, lists, version>>

\* Made or not, nothing is loaded.
MutationFails(v) ==
  /\ mutating[v] # "no" /\ mutating' = [mutating EXCEPT ![v] = "no"]
  /\ UNCHANGED <<page, query, typed, lists, loads, version, own, spoilt>>

ListsNext ==
  \/ \E q \in Queries : Chooses(q)
  \/ \E f \in Filters : TypesSearch(f)
  \/ \E i \in 1 .. MaxLoads : LoadFails(i) \/ \E v \in 1 .. MaxVersion : LoadAnswered(i, v)
  \/ \E v \in Views : Mutates(v) \/ MutationAnswered(v) \/ MutationFails(v)
  \/ ServerChanges

ListsSpec == ListsInit /\ [][ListsNext]_listVars

---------------------------------------------------------------------------
\* When no load of the list on the screen is in flight, its loads did not
\* overtake each other, the last one did not fail and no search text waits to
\* be submitted, then the list is the one of the query that was chosen, and at
\* least as new as the client's last change of it: a change of tab, filter or
\* page in the middle of a mutation or a load is not lost, whatever happens to
\* the lists of the other tabs (useMemory.ts:113-123, layer.ts:48-72,
\* useTasksPage.ts:42-57).  A memory page promises no more: a row approved
\* among the pending ones need not be in the list of its layer.
ListIsCurrent ==
  LET v == query.view
  IN  ~typed /\ ~InFlight(v) /\ ~spoilt[v].order /\ ~spoilt[v].failed =>
        lists[v].filter = query.filter /\ lists[v].version >= own[v]
=============================================================================
