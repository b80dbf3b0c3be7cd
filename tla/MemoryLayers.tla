---------------------------- MODULE MemoryLayers ----------------------------
(***************************************************************************)
(* One fact may stand in three tables at once: layer2_context, shared_memory *)
(* and layer3_archive.  The night retires the older of two rows of different *)
(* tables that tell the same, promotes rows of the archive to shared memory, *)
(* draws a shared row out of a group of context rows, and its janitor        *)
(* deletes what has expired and archives the rest of what it removes; a      *)
(* person can restore that.  Steps inside one table are in SharedMemory and  *)
(* ContextPrune.  A text is the fact it tells; its category goes with it.    *)
(***************************************************************************)
EXTENDS Integers, FiniteSets

CONSTANTS
  LayerFacts,
  CategoryOf,      \* fact -> category
  WhitelistShared, \* the categories the legacy sweep leaves in shared memory
  MaxLayerRows,    \* bound: rows ever inserted
  MaxMoves         \* bound: ticks of the clock, and edits, deletions, changes
                   \* of status and expiries, together

NoFact == "none"

ASSUME LayersAssumption ==
  /\ MaxLayerRows \in Nat /\ MaxMoves \in Nat
  /\ LayerFacts # {} /\ LayerFacts \subseteq DOMAIN CategoryOf
  /\ NoFact \notin LayerFacts

VARIABLES
  layerRows,  \* id -> row; an archived or restored row keeps its number here
  clock,
  promote,    \* the promotion: where it is and the rows it has left
  reflect,    \* the fact a reflection is embedding, if any
  decisions,
  promised,   \* history: facts some row told readers
  decided     \* history: facts of rows that a person, an expiry or a loser of
              \* an edit took away

layerVars == <<layerRows, clock, promote, reflect, decisions, promised, decided>>

---------------------------------------------------------------------------
LayerIds == 1..MaxLayerRows
Layers == {"context", "shared", "archive"}
NoLayerRow == [layer |-> "none"]
Stored == {i \in LayerIds : layerRows[i] # NoLayerRow}
In(l) == {i \in Stored : layerRows[i].layer = l}

\* What readers are given of context and shared: active, not superseded, not
\* past its expiry.  The archive has none of these columns.
Shown(i) ==
  /\ i \in Stored
  /\ \/ layerRows[i].layer = "archive"
     \/ layerRows[i].active /\ ~layerRows[i].superseded /\ ~layerRows[i].lapsed

\* A row with its embedding; the archive starts without (restored rows, too).
LayerRow(l, f, active, v) ==
  [layer |-> l, fact |-> f, active |-> active, lapsed |-> FALSE,
   superseded |-> FALSE, updated |-> clock, vec |-> v, home |-> NoFact]

NoPromotion == [at |-> "off"]

LayersInit ==
  /\ layerRows = [i \in LayerIds |-> NoLayerRow]
  /\ clock = 0 /\ decisions = 0
  /\ promote = NoPromotion /\ reflect = NoFact
  /\ promised = {} /\ decided = {}

\* Whatever row becomes visible promises its fact.
Tells == promised' = promised \union {layerRows'[i].fact : i \in {j \in LayerIds : Shown(j)'}}

Decide(facts) ==
  /\ clock + decisions < MaxMoves
  /\ decisions' = decisions + 1
  /\ decided' = decided \union facts

Undecided == UNCHANGED <<decisions, decided>>

FreshId == Cardinality(Stored \union {i \in LayerIds : \E j \in Stored : i < j}) + 1

---------------------------------------------------------------------------
\* The service embeds the text first and stores row and embedding in one
\* transaction; the tool writes the archive and embeds afterwards or never.
WritesLayerRow(l, f) ==
  /\ FreshId \in LayerIds
  /\ \E active \in BOOLEAN, v \in {f} \union (IF l = "archive" THEN {NoFact} ELSE {}) :
       layerRows' = [layerRows EXCEPT ![FreshId] = LayerRow(l, f, active, v)]
  /\ Tells /\ Undecided /\ UNCHANGED <<clock, promote, reflect>>

\* PATCH changes the text and keeps the embedding.
Rewords(i, f) ==
  /\ i \in Stored /\ f # layerRows[i].fact
  /\ Decide({f, layerRows[i].fact})
  /\ layerRows' = [layerRows EXCEPT ![i].fact = f, ![i].updated = clock]
  /\ Tells /\ UNCHANGED <<clock, promote, reflect>>

DeletesLayerRow(i) ==
  /\ i \in Stored
  /\ Decide({layerRows[i].fact})
  /\ layerRows' = [layerRows EXCEPT ![i] = NoLayerRow]
  /\ UNCHANGED <<clock, promote, reflect, promised>>

\* A pending row is accepted or an active one rejected.
SetsStatusSafe(i) ==
  /\ i \in In("context") \union In("shared")
  /\ Decide(IF layerRows[i].active THEN {layerRows[i].fact} ELSE {})
  /\ layerRows' = [layerRows EXCEPT ![i].active = ~@, ![i].updated = clock]
  /\ Tells /\ UNCHANGED <<clock, promote, reflect>>

\* A row had an expiry and passes it.
Lapses(i) ==
  /\ i \in In("context") \union In("shared") /\ ~layerRows[i].lapsed
  /\ layerRows' = [layerRows EXCEPT ![i].lapsed = TRUE]
  /\ Decide({layerRows[i].fact})
  /\ UNCHANGED <<clock, promote, reflect, promised>>

Ticks ==
  /\ clock + decisions < MaxMoves /\ clock' = clock + 1
  /\ UNCHANGED <<layerRows, promote, reflect, decisions, promised, decided>>

---------------------------------------------------------------------------
\* The rows one pass compares: what readers are shown, and the archive.
CandidatesAll == {i \in Stored : layerRows[i].vec # NoFact}  \* Mutant: superseded rows, too.
CrossLayer == {i \in Stored : Shown(i) /\ layerRows[i].vec # NoFact}

SameFact(i, j) ==
  /\ layerRows[i].vec = layerRows[j].vec
  /\ CategoryOf[layerRows[i].fact] = CategoryOf[layerRows[j].fact]

\* The later one stays; at the same second context before archive before
\* shared, the order of the three calls and of their arguments.
Place == [context |-> 1, archive |-> 2, shared |-> 3]
Outlives(i, j) ==
  /\ layerRows[i].layer # layerRows[j].layer
  /\ \/ layerRows[i].updated > layerRows[j].updated
     \/ /\ layerRows[i].updated = layerRows[j].updated
        /\ Place[layerRows[i].layer] < Place[layerRows[j].layer]

\* A stale row of the archive only gets an edge.
Stale == {j \in CrossLayer : /\ layerRows[j].layer # "archive"
                             /\ \E i \in CrossLayer : SameFact(i, j) /\ Outlives(i, j)}

\* The three passes run without an await, and after them the candidates for
\* promotion are read: rows of the archive, any that
\* may have been used enough.
CrossLayerDedup ==
  /\ promote = NoPromotion
  /\ layerRows' = [i \in LayerIds |->
       IF i \in Stale THEN [layerRows[i] EXCEPT !.superseded = TRUE, !.updated = clock]
       ELSE layerRows[i]]
  /\ \E chosen \in SUBSET {i \in In("archive") : layerRows[i].vec # NoFact} :
       promote' = [at |-> "next", left |-> [i \in chosen |-> layerRows[i]]]
  /\ Undecided /\ UNCHANGED <<clock, reflect, promised>>

\* A shared row near the candidate, of any status: nothing to promote.
IsPromoteDup(row) ==
  \E i \in In("shared") :
    layerRows[i].vec = row.vec /\ CategoryOf[layerRows[i].fact] = CategoryOf[row.fact]

Promoting(i) == [promote EXCEPT !.left = [j \in DOMAIN promote.left \ {i} |-> promote.left[j]]]

\* The candidate is skipped, or its text is embedded once more.
PromoteChecks(i) ==
  /\ promote.at = "next" /\ i \in DOMAIN promote.left
  /\ promote' = IF IsPromoteDup(promote.left[i]) THEN Promoting(i)
                ELSE [at |-> "embed", left |-> Promoting(i).left, text |-> promote.left[i].fact]
  /\ Undecided /\ UNCHANGED <<layerRows, clock, reflect, promised>>

\* The shared row of what the archive said when the candidates were read; a
\* failed embedding passes to the next one.
Promotes ==
  /\ promote.at = "embed"
  /\ promote' = [at |-> "next", left |-> promote.left]
  /\ \/ layerRows' = layerRows
     \/ /\ FreshId \in LayerIds
        /\ layerRows' = [layerRows EXCEPT ![FreshId] = LayerRow("shared", promote.text, TRUE, promote.text)]
  /\ Tells /\ Undecided /\ UNCHANGED <<clock, reflect>>

PromoteEnds ==
  /\ promote.at = "next" /\ DOMAIN promote.left = {}
  /\ promote' = NoPromotion
  /\ Undecided /\ UNCHANGED <<layerRows, clock, reflect, promised>>

---------------------------------------------------------------------------
\* At night, or when a tool asks for it, a model draws one fact out of the
\* context rows of a category; where shared memory does not tell it yet, it
\* is embedded ...
ReflectAsks(f) ==
  /\ reflect = NoFact
  /\ \E i \in In("context") : Shown(i) /\ CategoryOf[layerRows[i].fact] = CategoryOf[f]
  /\ ~ \E i \in In("shared") : Shown(i) /\ layerRows[i].fact = f
  /\ reflect' = f
  /\ Undecided /\ UNCHANGED <<layerRows, clock, promote, promised>>

\* ... and inserted with the category of the context rows, or it fails.
Reflects ==
  /\ reflect # NoFact
  /\ reflect' = NoFact
  /\ \/ layerRows' = layerRows
     \/ /\ FreshId \in LayerIds
        /\ layerRows' = [layerRows EXCEPT ![FreshId] = LayerRow("shared", reflect, TRUE, reflect)]
  /\ Tells /\ Undecided /\ UNCHANGED <<clock, promote>>

---------------------------------------------------------------------------
Archived(i) ==
  [LayerRow("archive", layerRows[i].fact, TRUE, NoFact) EXCEPT !.home = layerRows[i].layer]

\* Phase A deletes what has expired, superseded or not.
JanitorExpires ==
  /\ promote = NoPromotion
  /\ \E i \in Stored : layerRows[i].lapsed
  /\ layerRows' = [i \in LayerIds |-> IF i \in Stored /\ layerRows[i].lapsed
                                      THEN NoLayerRow ELSE layerRows[i]]
  /\ Undecided /\ UNCHANGED <<clock, promote, reflect, promised>>

\* Phase C archives the shared rows of any other category, each with its layer
\* and category in the tags, in a transaction per row; it may die between two.
JanitorSweeps ==
  LET swept == {i \in In("shared") : CategoryOf[layerRows[i].fact] \notin WhitelistShared}
  IN  /\ promote = NoPromotion
      /\ \E S \in SUBSET swept \ {{}} :
           layerRows' = [i \in LayerIds |-> IF i \in S THEN Archived(i) ELSE layerRows[i]]
      /\ Tells /\ Undecided /\ UNCHANGED <<clock, promote, reflect>>

\* A person restores a row the janitor archived; it comes back active, with
\* its category and without an embedding.
RestoresFromArchive(i) ==
  /\ i \in In("archive") /\ layerRows[i].home # NoFact
  /\ layerRows' = [layerRows EXCEPT ![i] = LayerRow(@.home, @.fact, TRUE, NoFact)]
  /\ Tells /\ Undecided /\ UNCHANGED <<clock, promote, reflect>>

\* The process dies; the tables stay.
LayersCrash ==
  /\ promote # NoPromotion \/ reflect # NoFact
  /\ promote' = NoPromotion /\ reflect' = NoFact
  /\ Undecided /\ UNCHANGED <<layerRows, clock, promised>>

LayersNext ==
  \/ \E l \in Layers, f \in LayerFacts : WritesLayerRow(l, f)
  \/ \E i \in LayerIds :
       \/ DeletesLayerRow(i) \/ SetsStatusSafe(i) \/ Lapses(i)
       \/ RestoresFromArchive(i) \/ PromoteChecks(i)
       \/ \E f \in LayerFacts : Rewords(i, f)
  \/ \E f \in LayerFacts : ReflectAsks(f)
  \/ Reflects \/ CrossLayerDedup \/ Promotes \/ PromoteEnds
  \/ JanitorExpires \/ JanitorSweeps \/ Ticks \/ LayersCrash

LayersSpec == LayersInit /\ [][LayersNext]_layerVars

---------------------------------------------------------------------------
\* A fact that some row told is still told, in whichever layer, unless a row
\* of it was deleted, rejected, reworded or left to expire: retiring it for a
\* row of another layer, promoting, reflecting, sweeping and restoring, in any
\* order and over many nights, never hide every row of it.
FactIsHeld ==
  \A f \in promised \ decided : \E i \in Stored : Shown(i) /\ layerRows[i].fact = f
=============================================================================
