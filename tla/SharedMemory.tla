---------------------------- MODULE SharedMemory ----------------------------
(***************************************************************************)
(* Shared memory (table shared_memory with its embeddings) and everybody   *)
(* who writes to it: the memory tools of agents (write-shared), the post   *)
(* phase of a chat (extractors), routes of the user, and the night cycle   *)
(* with three steps of its own opinion about duplicates: pruning by a      *)
(* model, memory-dedup, and the janitor.                                   *)
(*                                                                         *)
(* A handler is cut where it awaits an embedding, a search or a model.     *)
(* One category is modelled, rows of different categories never meet.      *)
(* Of a text only its meaning counts (Fact) and how close two texts are    *)
(* (Cosine, in percent).  Layer 2 (context) is written and cleaned by the  *)
(* same code with other table names.                                       *)
(***************************************************************************)
EXTENDS Naturals, FiniteSets

CONSTANTS Texts, Fact, Cosine,   \* texts, what each says, how close two are
          Overlap,               \* pairs of texts that share five words
          Archived,              \* texts an earlier night has archived; they come back only from there
          Writers,               \* requests of agents and chats
          MaxRows,               \* bound: ids that are ever given
          FreshWindow,           \* seconds for which a row counts as fresh for the janitor
          MaxTime,               \* bound: seconds that pass
          MaxEdits,              \* bound: edits by hand, lapses included
          MaxVerdicts            \* bound: rows a night deletes by a model's verdict

\* Cosine and shared words join only texts that say the same: what the
\* thresholds below are for.
ASSUME SimilarSaySame ==
    /\ \A t, u \in Texts : Cosine[t][u] >= 85 \/ <<t, u>> \in Overlap => Fact[t] = Fact[u]
    /\ \A t, u \in Texts : Cosine[t][u] = Cosine[u][t]

ASSUME MemoryAssumption ==
    /\ {MaxRows, FreshWindow, MaxTime, MaxEdits, MaxVerdicts} \subseteq Nat
    /\ Archived \subseteq Texts
    /\ \A t, u \in Texts : Cosine[t][u] \in 0 .. 100

VARIABLES
    rows,      \* shared_memory by id; ids are given in the order of rowid
    vec,       \* vec_embeddings by id: the text that was embedded, or NoText
    archive,   \* layer3_archive: what the janitor put there
    writer,    \* per request: where it is and what it has read
    night,     \* the night cycle: step, snapshot, verdicts
    now,       \* unixepoch()
    edits,     \* counts for MaxEdits
    edited,    \* history: the facts that were edited into a row
    owed,      \* history: the facts that have been live and not been decided
    decided    \* history: the facts about which a user, an agent, a model or
               \* an expiry time has decided

vars == <<rows, vec, archive, writer, night, now, edits, edited, owed, decided>>

NoText == "no text"
\* A row is active, or held: pending or rejected.
Ids == 1 .. MaxRows
Facts == {Fact[t] : t \in Texts}
\* What is written, edited in or merged.
News == Texts \ Archived
NoRow == [there |-> FALSE, text |-> NoText, created |-> 0, updated |-> 0,
          status |-> "active", lapsed |-> FALSE, by |-> 0]
Expired == MaxRows + 1    \* the value 'expired' of superseded_by

StrictCosine == 92        \* of the janitor
ClusterCosine == 90       \* of memory-dedup
RejectCosine == 95        \* of write-shared
DuplicateCosine == 85     \* of write-shared and the post phase
SearchedByWriter == 3
SearchedByPost == 5
SearchedAtNight == 5

Present == {i \in Ids : rows[i].there}
Current(i) == rows[i].there /\ rows[i].by = 0 /\ ~rows[i].lapsed
Live(i) == Current(i) /\ rows[i].status = "active"
LiveFacts == {Fact[rows[i].text] : i \in {j \in Ids : Live(j)}}
Unused == {i \in Ids : vec[i] = NoText /\ ~rows[i].there}

\* The k embeddings nearest to a text, orphans included.
Nearest(t, k) ==
    LET Stored == {i \in Ids : vec[i] # NoText}
        Before(j, i) == \/ Cosine[t][vec[j]] > Cosine[t][vec[i]]
                        \/ Cosine[t][vec[j]] = Cosine[t][vec[i]] /\ j < i
    IN  {i \in Stored : Cardinality({j \in Stored : Before(j, i)}) < k}

Idle == [pc |-> "idle", how |-> "tool", text |-> NoText, old |-> 0, new |-> 0]
NoTexts == [i \in Ids |-> NoText]
Off == [pc |-> "off", ids |-> {}, text |-> NoTexts, row |-> 0, hits |-> {},
        deleted |-> 0, before |-> {}, quiet |-> TRUE, fresh |-> TRUE, inOrder |-> TRUE,
        swept |-> 0]

Init ==
    /\ rows = [i \in Ids |-> NoRow]
    /\ vec = [i \in Ids |-> NoText]
    /\ archive = {[id |-> 0, text |-> t] : t \in Archived}
    /\ writer = [w \in Writers |-> Idle]
    /\ night = Off
    /\ now = 1 /\ edits = 0 /\ edited = {}
    /\ owed = {} /\ decided = {}

\* Of D is decided now; what else is live after the step is owed.
Decides(D) ==
    /\ decided' = decided \cup D
    /\ owed' = (owed \cup LiveFacts') \ decided'
\* Whoever writes ends the quiet.
Unquiet == night' = [night EXCEPT !.quiet = FALSE]

\* insertShared: a new row of the next id.
NextId == Cardinality({i \in Ids : rows[i].there \/ rows[i].created > 0}) + 1
NewRow(t, s) == [there |-> TRUE, text |-> t, created |-> now, updated |-> now,
                 status |-> s, lapsed |-> FALSE, by |-> 0]
\* updateShared: no effect on a row that is gone.
Updated(r, f) == IF r.there THEN [f EXCEPT !.updated = now] ELSE r
Superseded(r, by) == Updated(r, [r EXCEPT !.by = by])
\* deleteShared of the table: the row alone.  The id is not given again.
Gone(r) == [NoRow EXCEPT !.created = r.created]

-----------------------------------------------------------------------------
(* Writers.                                                                *)

\* Mutant: whatever is nearest is a duplicate.
DuplicatesAny(t, k, c) ==
    LET Candidates == {i \in Nearest(t, k) : Current(i)}
    IN  {i \in Candidates : \A j \in Candidates : Cosine[t][vec[j]] <= Cosine[t][vec[i]]}

\* checkDuplicate: the nearest row that counts, by its stored embedding.
Duplicates(t, k, c) ==
    LET Candidates == {i \in Nearest(t, k) : Current(i)}
        Closest == {i \in Candidates :
                      \A j \in Candidates : Cosine[t][vec[j]] <= Cosine[t][vec[i]]}
    IN  {i \in Closest : Cosine[t][vec[i]] >= c}

\* write-shared asks for a duplicate.  In the mode "warn" a row that is
\* nearly the same only makes it log; one that is near is to be superseded.
\* An embedding that fails finds nothing.
ToolChecks(w, t) ==
    /\ writer[w].pc = "idle" /\ NextId <= MaxRows
    /\ \E old \in {i \in Duplicates(t, SearchedByWriter, DuplicateCosine) :
                     Cosine[t][vec[i]] < RejectCosine} \cup {0} :
         writer' = [writer EXCEPT ![w] = [Idle EXCEPT !.pc = "insert", !.text = t, !.old = old]]
    /\ UNCHANGED <<rows, vec, archive, night, now, edits, edited, owed, decided>>

\* The post phase validates the rows that the model wants to supersede.
PostValidates(w, t, i) ==
    /\ writer[w].pc = "idle" /\ NextId <= MaxRows
    /\ rows[i].there /\ rows[i].by = 0
    /\ writer' = [writer EXCEPT ![w] = [pc |-> "insert", how |-> "post", text |-> t,
                                        old |-> i, new |-> 0]]
    /\ UNCHANGED <<rows, vec, archive, night, now, edits, edited>>
    /\ Decides({Fact[rows[i].text]})

\* Merging keeps the longer text; the confidence decides about the status.
Merge(i, t) ==
    \E longer \in {rows[i].text, t}, s \in {"active", rows[i].status} :
        rows' = [rows EXCEPT ![i] = Updated(@, [@ EXCEPT !.text = longer, !.status = s])]

\* Without such rows it looks for a duplicate to merge into: one that shares
\* words, without any await ...
PostMergesWords(w, t, i) ==
    /\ writer[w].pc = "idle"
    /\ Live(i) /\ <<t, rows[i].text>> \in Overlap
    /\ Merge(i, t)
    /\ Unquiet /\ Decides({})
    /\ UNCHANGED <<vec, archive, writer, now, edits, edited>>

\* Mutant: the stored embedding is trusted.
PostLooksStored(w, t) ==
    /\ writer[w].pc = "idle" /\ NextId <= MaxRows
    /\ \A i \in Ids : Live(i) => <<t, rows[i].text>> \notin Overlap
    /\ LET found == Duplicates(t, SearchedByPost, DuplicateCosine) IN
       \E i \in IF found = {} THEN {0} ELSE found :
           writer' = [writer EXCEPT ![w] = [pc |-> IF i = 0 THEN "insert" ELSE "merge",
                                            how |-> "post", text |-> t, old |-> i, new |-> 0]]
    /\ UNCHANGED <<rows, vec, archive, night, now, edits, edited, owed, decided>>

\* ... or one of the nearest, whose text it embeds again to compare.
PostLooks(w, t) ==
    /\ writer[w].pc = "idle" /\ NextId <= MaxRows
    /\ \A i \in Ids : Live(i) => <<t, rows[i].text>> \notin Overlap
    /\ LET found == {i \in Nearest(t, SearchedByPost) :
                        Current(i) /\ Cosine[t][rows[i].text] >= DuplicateCosine} IN
       \E i \in IF found = {} THEN {0} ELSE found :
           writer' = [writer EXCEPT ![w] = [pc |-> IF i = 0 THEN "insert" ELSE "merge",
                                            how |-> "post", text |-> t, old |-> i, new |-> 0]]
    /\ UNCHANGED <<rows, vec, archive, night, now, edits, edited, owed, decided>>

\* Then it reads the row again, and inserts when it is gone.
PostMerges(w) ==
    LET i == writer[w].old IN
    /\ writer[w].pc = "merge"
    /\ IF rows[i].there
       THEN /\ Merge(i, writer[w].text)
            /\ vec' = [vec EXCEPT ![i] = writer[w].text]
            /\ writer' = [writer EXCEPT ![w] = Idle]
       ELSE /\ writer' = [writer EXCEPT ![w].pc = "insert", ![w].old = 0]
            /\ UNCHANGED <<rows, vec>>
    /\ Unquiet /\ Decides({})
    /\ UNCHANGED <<archive, now, edits, edited>>

\* Row and embedding in one transaction; in the post phase also the link.
Inserts(w) ==
    LET i == NextId IN
    /\ writer[w].pc = "insert" /\ i <= MaxRows
    /\ \E s \in {"active", "held"} :
         rows' = [j \in Ids |->
                    IF j = i THEN NewRow(writer[w].text, s)
                    ELSE IF j = writer[w].old /\ writer[w].how = "post"
                    THEN Superseded(rows[j], i) ELSE rows[j]]
    /\ vec' = [vec EXCEPT ![i] = writer[w].text]
    /\ writer' = [writer EXCEPT ![w] = IF @.how = "tool"
                                       THEN [@ EXCEPT !.pc = "relate", !.text = NoText, !.new = i]
                                       ELSE [Idle EXCEPT !.pc = "relate", !.new = i]]
    /\ Unquiet /\ Decides({})
    /\ UNCHANGED <<archive, now, edits, edited>>

InsertFails(w) ==
    /\ writer[w].pc = "insert"
    /\ writer' = [writer EXCEPT ![w] = Idle]
    /\ UNCHANGED <<rows, vec, archive, night, now, edits, edited, owed, decided>>

\* linkRelated: the tags of the neighbours evolve, which updates them.
Relates(w) ==
    /\ writer[w].pc = "relate"
    /\ \E S \in SUBSET (Present \ {writer[w].new}) :
         rows' = [i \in Ids |-> IF i \in S THEN Updated(rows[i], rows[i]) ELSE rows[i]]
    /\ writer' = [writer EXCEPT ![w] = IF @.old # 0
                                       THEN [@ EXCEPT !.pc = "link"] ELSE Idle]
    /\ Unquiet
    /\ UNCHANGED <<vec, archive, now, edits, edited, owed, decided>>

\* insertAndSupersede links the old row when all this is over.
Links(w) ==
    /\ writer[w].pc = "link"
    /\ rows' = [rows EXCEPT ![writer[w].old] = Superseded(@, writer[w].new)]
    /\ writer' = [writer EXCEPT ![w] = Idle]
    /\ Unquiet
    /\ UNCHANGED <<vec, archive, now, edits, edited, owed, decided>>

\* The process dies between insert and link: every request is forgotten.
Restart ==
    /\ \E w \in Writers : writer[w].pc = "link"
    /\ writer' = [w \in Writers |-> Idle]
    /\ night' = Off
    /\ UNCHANGED <<rows, vec, archive, now, edits, edited, owed, decided>>

-----------------------------------------------------------------------------
(* Users and agents that say what they want.                               *)

\* A request or the night has read this row and will write to it.
Awaited(i) == i \in night.ids \/ \E w \in Writers : writer[w].old = i

Edits == edits < MaxEdits /\ edits' = edits + 1

\* PATCH /shared/:id; the same text stands for new tags alone.  It gives up
\* the old fact, and risks the new one when a request is about to write.
Patches(i, t) ==
    /\ Edits
    /\ rows[i].there /\ rows[i].updated # now
    /\ rows' = [rows EXCEPT ![i] = Updated(@, [@ EXCEPT !.text = t])]
    /\ edited' = edited \cup ({Fact[t]} \ {Fact[rows[i].text]})
    /\ Unquiet /\ Decides(({Fact[rows[i].text]} \ {Fact[t]})
                          \cup (IF Awaited(i) THEN {Fact[t]} ELSE {}))
    /\ UNCHANGED <<vec, archive, writer, now>>

\* deleteMemory, or DELETE /shared/:id: row and embedding.
Deletes(i) ==
    /\ Edits
    /\ rows[i].there
    /\ rows' = [rows EXCEPT ![i] = Gone(@)]
    /\ vec' = [vec EXCEPT ![i] = NoText]
    /\ Unquiet
    /\ Decides({Fact[rows[i].text]})
    /\ UNCHANGED <<archive, writer, now, edited>>

\* PATCH /:layer/:id/status by the operator.
SetsStatus(i, s) ==
    /\ Edits
    /\ rows[i].there /\ rows[i].status # s
    /\ rows' = [rows EXCEPT ![i] = Updated(@, [@ EXCEPT !.status = s])]
    /\ Unquiet /\ Decides(IF s = "active" THEN {} ELSE {Fact[rows[i].text]})
    /\ UNCHANGED <<vec, archive, writer, now, edited>>

\* restoreFromArchive: a new row without an embedding.
Restores(a) ==
    LET i == NextId IN
    /\ Edits
    /\ i <= MaxRows
    /\ rows' = [rows EXCEPT ![i] = NewRow(a.text, "active")]
    /\ archive' = archive \ {a}
    /\ Unquiet /\ Decides({})
    /\ UNCHANGED <<vec, writer, now, edited>>

\* expires_at of a row has passed.
Lapses(i) ==
    /\ Edits
    /\ rows[i].there /\ ~rows[i].lapsed
    /\ rows' = [rows EXCEPT ![i].lapsed = TRUE]
    /\ Unquiet
    /\ Decides({Fact[rows[i].text]})
    /\ UNCHANGED <<vec, archive, writer, now, edited>>

Tick ==
    /\ now < MaxTime
    /\ now' = now + 1
    /\ UNCHANGED <<rows, vec, archive, writer, night, edits, edited, owed, decided>>

-----------------------------------------------------------------------------
(* The night.                                                              *)

\* pruneShared takes all rows, live or not.
NightBegins ==
    /\ night.pc \in {"off", "over"}
    /\ night' = [Off EXCEPT !.pc = "prune", !.ids = Present]
    /\ UNCHANGED <<rows, vec, archive, writer, now, edits, edited, owed, decided>>

\* It shows a row and some others to the model ...
PruneAsks(i) ==
    /\ night.pc = "prune" /\ i \in night.ids /\ night.deleted < MaxVerdicts
    /\ \E S \in SUBSET (night.ids \ {i}) :
         /\ S # {} /\ S \subseteq Present
         /\ night' = [night EXCEPT !.pc = "verdict", !.row = i, !.hits = S, !.ids = @ \ {i}]
    /\ UNCHANGED <<rows, vec, archive, writer, now, edits, edited, owed, decided>>

\* ... and deletes the one or the other, or merges it into the other.  No
\* embedding is deleted.
PruneObeys ==
    LET i == night.row IN
    /\ night.pc = "verdict"
    /\ \/ /\ night' = [night EXCEPT !.pc = "prune", !.row = 0, !.hits = {}]
          /\ UNCHANGED <<rows, owed, decided>>
       \/ \E gone \in night.hits \cup {i}, j \in night.hits, t \in News :
            /\ \E k \in {i, j} \cap Present : Fact[rows[k].text] = Fact[t]
            /\ rows' = [rows EXCEPT ![j] = IF gone = i /\ t # rows[j].text
                                           THEN Updated(@, [@ EXCEPT !.text = t]) ELSE @,
                                    ![gone] = Gone(@)]
            /\ night' = [night EXCEPT !.pc = "prune", !.row = 0, !.hits = {},
                                      !.deleted = @ + 1, !.ids = @ \ {gone, j}]
            /\ Decides({Fact[rows[k].text] : k \in {i, j, gone} \cap Present})
    /\ UNCHANGED <<vec, archive, writer, now, edits, edited>>

\* Every embedding is of what its row says.
Fresh == \A i \in Present : vec[i] # NoText => Fact[vec[i]] = Fact[rows[i].text]

\* No live row was overtaken by a row created with it or later, nor by a
\* dead one: updated_at tells the order of created_at.
InOrder ==
    \A i, j \in Present :
        Live(i) /\ i # j /\ rows[j].created >= rows[i].created
        => Live(j) /\ rows[j].updated > rows[i].updated

\* activeSharedRows of memory-dedup; before, quiet and inOrder are history.
DedupReads ==
    /\ night.pc = "prune"
    /\ night' = [Off EXCEPT !.pc = "dedup", !.ids = {i \in Ids : Live(i)},
                            !.text = [i \in Ids |-> rows[i].text],
                            !.before = LiveFacts, !.inOrder = InOrder,
                            !.fresh = Fresh]
    /\ UNCHANGED <<rows, vec, archive, writer, now, edits, edited, owed, decided>>

\* buildClusters over the rows that could be embedded: what close
\* neighbours with a stored embedding connect.
Clusters(ok) ==
    LET text == night.text
        Near(i, j) == /\ j \in Nearest(text[i], SearchedAtNight)
                      /\ Cosine[text[i]][text[j]] >= ClusterCosine
        Closed(S) == \A i \in S, j \in ok \ S : ~Near(i, j) /\ ~Near(j, i)
    IN  {{j \in ok : \A S \in SUBSET ok : i \in S /\ Closed(S) => j \in S} : i \in ok}

\* The row updated last wins, of several the first in the table.
Winner(C) == CHOOSE i \in C : \A j \in C \ {i} :
                \/ rows[j].updated < rows[i].updated
                \/ rows[j].updated = rows[i].updated /\ i < j

\* mergeSharedClusters reads the rows again, and does not ask whether they
\* are still live.  The winner gets the longest of the texts.
DedupMerges(ok) ==
    LET merged == {C \in {D \cap Present : D \in Clusters(ok)} : Cardinality(C) >= 2}
        Merged(i) == CHOOSE C \in merged : i \in C IN
    /\ night.pc = "dedup"
    /\ \E longest \in [merged -> Texts] :
         /\ \A C \in merged : longest[C] \in {rows[i].text : i \in C}
         /\ rows' = [i \in Ids |->
                       IF i \notin UNION merged THEN rows[i]
                       ELSE IF i = Winner(Merged(i))
                       THEN Updated(rows[i], [rows[i] EXCEPT !.text = longest[Merged(i)]])
                       ELSE Superseded(rows[i], Winner(Merged(i)))]
    /\ night' = [night EXCEPT !.pc = "expire", !.ids = {}, !.text = NoTexts]
    /\ Decides({})
    /\ UNCHANGED <<vec, archive, writer, now, edits, edited>>

\* markExpired.
MarksExpired ==
    /\ night.pc = "expire"
    /\ rows' = [i \in Ids |-> IF rows[i].lapsed /\ rows[i].by = 0
                              THEN Superseded(rows[i], Expired) ELSE rows[i]]
    /\ night' = [night EXCEPT !.pc = "janitor"]
    /\ UNCHANGED <<vec, archive, writer, now, edits, edited, owed, decided>>

\* Mutant: rows created in the same second do not meet.
PrecedesStrictly(i, j) == rows[i].created > rows[j].created

\* In the order of creation, the newest first, of several the one updated
\* last.
Precedes(i, j) ==
    \/ rows[i].created > rows[j].created
    \/ /\ rows[i].created = rows[j].created
       /\ rows[i].updated > rows[j].updated \/ (rows[i].updated = rows[j].updated /\ i < j)

\* The rows that survive of S: those that are not close to one that precedes
\* them and survives.  A row without a stored embedding gets a new one.
Survivors(S) ==
    LET Embedded(i) == IF vec[i] # NoText THEN vec[i] ELSE rows[i].text
        Close(i, j) == Cosine[Embedded(i)][Embedded(j)] >= StrictCosine
    IN  CHOOSE K \in SUBSET S : \A j \in S : j \in K <=> ~ \E i \in K : Precedes(i, j) /\ Close(i, j)

\* The rows that the janitor compares at time t.
Young(i, t) == rows[i].created + FreshWindow >= t

\* These are to be archived; swept is history, the time of this.
Takes(late) ==
    night' = [night EXCEPT !.pc = "archive", !.ids = late, !.swept = now,
                !.text = [i \in Ids |-> IF i \in late THEN rows[i].text ELSE NoText]]

\* Phase A deletes expired rows.  Phase B takes what is left of the last seven
\* days, dead rows too, but not those it failed to embed.
JanitorReads ==
    LET left == {i \in Present : ~rows[i].lapsed /\ Young(i, now)} IN
    /\ night.pc = "janitor"
    /\ rows' = [i \in Ids |-> IF rows[i].lapsed THEN Gone(rows[i]) ELSE rows[i]]
    /\ \E embedded \in SUBSET left :
         /\ \A i \in left : vec[i] # NoText => i \in embedded
         /\ Takes(embedded \ Survivors(embedded))
    /\ UNCHANGED <<vec, archive, writer, now, edits, edited, owed, decided>>

\* archiveRow: the others go to the archive, as they were when they were read.
JanitorArchives ==
    /\ night.pc = "archive"
    /\ rows' = [i \in Ids |-> IF i \in night.ids THEN Gone(rows[i]) ELSE rows[i]]
    /\ vec' = [i \in Ids |-> IF i \in night.ids THEN NoText ELSE vec[i]]
    /\ archive' = archive \cup {[id |-> i, text |-> night.text[i]] : i \in night.ids}
    /\ night' = [night EXCEPT !.pc = "over", !.ids = {}, !.text = NoTexts]
    /\ UNCHANGED <<writer, now, edits, edited, owed, decided>>

Night ==
    \/ NightBegins \/ PruneObeys \/ DedupReads \/ MarksExpired \/ JanitorReads \/ JanitorArchives
    \/ \E i \in Ids : PruneAsks(i)
    \/ \E ok \in SUBSET night.ids : DedupMerges(ok)

Write(w) ==
    \/ \E t \in News : \/ ToolChecks(w, t) \/ PostLooks(w, t)
                       \/ \E i \in Ids : PostValidates(w, t, i) \/ PostMergesWords(w, t, i)
    \/ PostMerges(w) \/ Inserts(w) \/ InsertFails(w) \/ Relates(w) \/ Links(w)

Manual ==
    \/ \E i \in Ids : Deletes(i) \/ Lapses(i) \/ \E t \in News : Patches(i, t)
    \/ \E i \in Ids, s \in {"active", "held"} : SetsStatus(i, s)
    \/ \E a \in archive : Restores(a)

Next == Night \/ Manual \/ Tick \/ Restart \/ \E w \in Writers : Write(w)

Spec == Init /\ [][Next]_vars

-----------------------------------------------------------------------------
(* Properties.                                                             *)

\* The parts of the state have their types.
TypeOK ==
    /\ rows \in [Ids -> [there : BOOLEAN, text : Texts \cup {NoText}, created : 0 .. MaxTime,
                         updated : 0 .. MaxTime, status : {"active", "held"},
                         lapsed : BOOLEAN, by : 0 .. Expired]]
    /\ vec \in [Ids -> Texts \cup {NoText}]
    /\ archive \subseteq [id : Ids \cup {0}, text : Texts]
    /\ \A w \in Writers : writer[w].pc \in {"idle", "insert", "merge", "relate", "link"}
    /\ night.pc \in {"off", "prune", "verdict", "dedup", "expire", "janitor", "archive", "over"}
    /\ owed \subseteq Facts /\ decided \subseteq Facts /\ edited \subseteq Facts
    /\ now \in 1 .. MaxTime /\ edits \in 0 .. MaxEdits

HasRow(f) == \E i \in Present : Fact[rows[i].text] = f
HasArchive(f) == \E a \in archive : Fact[a.text] = f

\* What nobody decided about is never lost: writers that supersede the same
\* row, a restart between insert and link, dedup and janitor on a table that
\* changed meanwhile leave of each fact that was live a row or an archived
\* copy to restore.
NothingLost == \A f \in owed : HasRow(f) \/ HasArchive(f)
NothingIsLost == [][NothingLost']_vars

\* A row is superseded by a row that says the same: a stale id, a winner read
\* before the table changed or a late link never retires one fact for another.
\* Except a fact that was edited into a row: its embedding stays the old one.
LinksJoinOneFact ==
    [][\A i, j \in Ids :
          rows[i].by # j /\ rows'[i].by = j /\ rows'[j].there
          => Fact[rows[i].text] \in decided \cup edited \cup {Fact[rows'[j].text]}]_vars

\* Both: a fact goes only where somebody decided that it goes.
FactsAreKept == NothingIsLost /\ LinksJoinOneFact

\* A night that nobody disturbs.
QuietNight == night.pc = "over" /\ night.quiet

\* It leaves no two rows of the janitor's seven days whose stored embeddings are
\* nearly the same, dead rows included, whatever rows memory-dedup failed to
\* embed.  Their texts may be: a winner of memory-dedup may get a longer text,
\* which nobody embeds.  An older row may stay beside a fresh one that says the
\* same when memory-dedup could not embed the one or the other.
QuietNightDedups ==
    QuietNight => \A i, j \in {k \in Present : vec[k] # NoText /\ Young(k, night.swept)} :
                      i # j => Cosine[vec[i]][vec[j]] < StrictCosine

\* If no row was updated out of the order of creation, and embeddings were of
\* what their rows said, it also leaves a live row of each fact.
QuietNightKeepsLive ==
    QuietNight /\ night.fresh /\ night.inOrder => night.before \subseteq LiveFacts

QuietNightConverges == QuietNightDedups /\ QuietNightKeepsLive

\* The winner that memory-dedup leaves of its duplicates outlives a night that
\* nobody disturbs (rows of one second aside).  It does not: memory-dedup keeps
\* the row that was updated last, the janitor the one that was created last.
WinnerStays ==
    QuietNight /\ night.fresh => \A i, j \in Ids :
        rows[i].there /\ rows[i].by = j /\ rows[i].created # rows[j].created => rows[j].there
=============================================================================
