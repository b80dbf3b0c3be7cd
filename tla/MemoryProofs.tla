---------------------------- MODULE MemoryProofs ----------------------------
(***************************************************************************)
(* Proofs about shared memory, for any number of rows, texts, requests,    *)
(* edits and nights: no fact is lost, and a quiet night converges.  And    *)
(* about the reports made from it.                                         *)
(***************************************************************************)
EXTENDS SharedMemory, ReportText, FiniteSetTheorems, WellFoundedInduction, TLAPS

(***************************************************************************)
(* What a fact is kept in.  A row that somebody awaits was read with a     *)
(* fact; it still says that, or all that was read of it and all it says is *)
(* decided about.                                                          *)
(***************************************************************************)
SharedRow == [there : BOOLEAN, text : Texts \cup {NoText}, created : Nat, updated : Nat,
              status : {"active", "held"}, lapsed : BOOLEAN, by : Nat]
Requests == [pc : {"idle", "insert", "merge", "relate", "link"}, how : {"tool", "post"},
             text : Texts \cup {NoText}, old : 0 .. MaxRows, new : 0 .. MaxRows]

Used(i) == rows[i].there \/ rows[i].created > 0
FactAt(i) == Fact[rows[i].text]

MemoryTypes ==
  /\ rows \in [Ids -> SharedRow]
  /\ \A i \in Ids : rows[i].there => rows[i].text \in Texts /\ rows[i].created > 0
  /\ vec \in [Ids -> Texts \cup {NoText}]
  /\ \A i \in Ids : ~Used(i) => vec[i] = NoText
  /\ archive \subseteq [id : Nat, text : Texts]
  /\ writer \in [Writers -> Requests]
  /\ now \in Nat \ {0}
  /\ \E n \in 0 .. MaxRows : \A i \in Ids : Used(i) <=> i <= n

RequestIsTyped(r) ==
  /\ r.old # 0 => Used(r.old)
  /\ r.pc = "merge" => r.old # 0
  /\ r.pc \in {"insert", "merge"} => r.text \in Texts
  /\ r.pc \in {"relate", "link"} => r.new # 0 /\ Used(r.new)

\* Nothing is superseded but by the same, or by somebody's decision.
RetiresItsOwn(r) ==
  r.old # 0 /\ rows[r.old].there =>
    /\ r.pc = "insert" => FactAt(r.old) \in decided \cup edited \cup {Fact[r.text]}
    /\ r.pc \in {"relate", "link"} /\ rows[r.new].there =>
         FactAt(r.old) \in decided \cup edited \cup {FactAt(r.new)}

NightReads == night.pc \in {"dedup", "archive"}
Nights == [pc : {"off", "prune", "verdict", "dedup", "expire", "janitor", "archive", "over"},
           ids : SUBSET Ids, text : [Ids -> Texts \cup {NoText}], row : Nat, hits : SUBSET Ids,
           deleted : Nat, before : SUBSET Facts,
           quiet : BOOLEAN, fresh : BOOLEAN, inOrder : BOOLEAN, swept : Nat]
NightTypes ==
  /\ night \in Nights
  /\ \A i \in night.ids : Used(i)
  /\ NightReads => \A i \in night.ids : night.text[i] \in Texts
  /\ night.pc = "verdict" => night.row \in Ids

\* The facts with which row i is awaited.
Told(i) ==
  {Fact[writer[w].text] : w \in {v \in Writers : writer[v].pc = "merge" /\ writer[v].old = i}}
  \cup {Fact[night.text[k]] : k \in {j \in night.ids : j = i /\ NightReads}}

Agreed(i) ==
  rows[i].there =>
    \/ \A f \in Told(i) : f = FactAt(i)
    \/ Told(i) \cup {FactAt(i)} \subseteq decided

\* An embedding is of what its row says, unless the row was edited.
Embedded(i) ==
  rows[i].there /\ vec[i] # NoText =>
    Fact[vec[i]] = FactAt(i) \/ FactAt(i) \in decided \cup edited

Holds(i, f) == rows[i].there /\ ~rows[i].lapsed /\ FactAt(i) = f
IsHeld(f) == (\E i \in Ids : Holds(i, f)) \/ HasArchive(f)

MemoryInv ==
  /\ MemoryTypes /\ NightTypes
  /\ \A w \in Writers : RequestIsTyped(writer[w]) /\ RetiresItsOwn(writer[w])
  /\ \A i \in Ids : Agreed(i) /\ Embedded(i)
  /\ owed \cap decided = {}
  /\ \A f \in owed : IsHeld(f)

(* The least of a finite set, by the sets of those before each member.     *)
LEMMA FirstOfAll ==
  ASSUME NEW S, IsFiniteSet(S), S # {},
         NEW before \in [S -> SUBSET S],
         \A i \in S : i \notin before[i],
         \A i, k \in S : k \in before[i] => before[k] \subseteq before[i]
  PROVE  \E i \in S : before[i] = {}
<1> DEFINE F == {before[i] : i \in S}
<1>1. IsWellFoundedOn(StrictSubsetOrdering(S), FiniteSubsetsOf(S))
    BY FS_StrictSubsetOrderingWellFounded
<1>2. F \subseteq FiniteSubsetsOf(S) /\ F # {}
    BY FS_FiniteSubsetsOfFinite
<1>3. PICK x \in F : \A y \in F : ~(<<y, x>> \in StrictSubsetOrdering(S))
    <2> HIDE DEF F
    <2>. QED
        BY <1>1, <1>2, WFMin
<1>4. PICK i \in S : x = before[i]
    OBVIOUS
<1>5. ASSUME NEW k \in before[i] PROVE FALSE
    <2>1. before[k] \subseteq before[i] /\ before[k] # before[i] /\ before[k] \in F
        BY <1>5
    <2>2. <<before[k], before[i]>> \in StrictSubsetOrdering(S)
        BY <1>4, <2>1 DEF StrictSubsetOrdering
    <2>. QED
        BY <1>3, <1>4, <2>1, <2>2
<1>. QED
    BY <1>4, <1>5

LEMMA IdsAreFinite == IsFiniteSet(Ids) /\ MaxRows \in Nat /\ Ids \subseteq Nat \ {0}
<1>1. MaxRows \in Nat
    BY MemoryAssumption
<1>. QED
    BY <1>1, FS_Interval DEF Ids

\* The id that is given next is the first that never was.
LEMMA NextIsUnused ==
  ASSUME MemoryTypes
  PROVE  /\ NextId \in Nat \ {0}
         /\ \A i \in Ids : Used(i) <=> i < NextId
         /\ NextId <= MaxRows => NextId \in Ids
<1>1. PICK n \in 0 .. MaxRows : \A i \in Ids : Used(i) <=> i <= n
    BY DEF MemoryTypes
<1>2. {i \in Ids : rows[i].there \/ rows[i].created > 0} = 1 .. n
    BY <1>1, MemoryAssumption DEF Used, Ids
<1>3. Cardinality(1 .. n) = n
    BY <1>1, MemoryAssumption, FS_Interval
<1>4. NextId = n + 1
    BY <1>2, <1>3 DEF NextId
<1>. QED
    BY <1>1, <1>4, MemoryAssumption DEF Ids

\* What a write leaves of a row.
WithText(r, t) == Updated(r, [r EXCEPT !.text = t])
WithBoth(r, t, s) == Updated(r, [r EXCEPT !.text = t, !.status = s])

LEMMA Rewritten ==
  ASSUME NEW r \in SharedRow, NEW t \in Texts, NEW s \in {"active", "held"}, now \in Nat
  PROVE  /\ WithBoth(r, t, s) \in SharedRow /\ (WithBoth(r, t, s).there <=> r.there)
         /\ (WithBoth(r, t, s).lapsed <=> r.lapsed) /\ WithBoth(r, t, s).by = r.by
         /\ WithBoth(r, t, s).created = r.created
         /\ r.there => WithBoth(r, t, s).text = t
<1>1. PICK q \in SharedRow : q = [r EXCEPT !.text = t]
    BY DEF SharedRow
<1>2. PICK p \in SharedRow : p = [q EXCEPT !.status = s]
    BY DEF SharedRow
<1>3. [r EXCEPT !.text = t, !.status = s] = p
    BY <1>1, <1>2
<1>4. /\ p.there = r.there /\ p.lapsed = r.lapsed /\ p.by = r.by /\ p.created = r.created /\ p.text = t
    BY <1>1, <1>2 DEF SharedRow
<1>5. Updated(r, p) = IF r.there THEN [p EXCEPT !.updated = now] ELSE r
    BY DEF Updated
<1>6. Updated(r, p) \in SharedRow
    BY <1>5 DEF SharedRow
<1>7. WithBoth(r, t, s) = Updated(r, p)
    BY <1>3 DEF WithBoth
<1>. QED
    BY <1>4, <1>5, <1>6, <1>7 DEF SharedRow

LEMMA TextWritten ==
  ASSUME NEW r \in SharedRow, NEW t \in Texts, now \in Nat
  PROVE  /\ WithText(r, t) \in SharedRow /\ (WithText(r, t).there <=> r.there)
         /\ (WithText(r, t).lapsed <=> r.lapsed) /\ WithText(r, t).by = r.by
         /\ WithText(r, t).created = r.created
         /\ r.there => WithText(r, t).text = t
         /\ ~r.there => WithText(r, t) = r
BY DEF SharedRow, Updated, WithText

LEMMA StatusWritten ==
  ASSUME NEW r \in SharedRow, NEW s \in {"active", "held"}, now \in Nat
  PROVE  LET q == Updated(r, [r EXCEPT !.status = s]) IN
         /\ q \in SharedRow /\ (q.there <=> r.there) /\ (q.lapsed <=> r.lapsed) /\ q.by = r.by
         /\ q.created = r.created /\ q.text = r.text
BY DEF SharedRow, Updated

LEMMA Touched ==
  ASSUME NEW r \in SharedRow, now \in Nat
  PROVE  LET q == Updated(r, r) IN
         /\ q \in SharedRow /\ (q.there <=> r.there) /\ (q.lapsed <=> r.lapsed) /\ q.by = r.by
         /\ q.created = r.created /\ q.text = r.text
BY DEF SharedRow, Updated

LEMMA LinkWritten ==
  ASSUME NEW r \in SharedRow, NEW i \in Nat, now \in Nat
  PROVE  LET q == Superseded(r, i) IN
         /\ q \in SharedRow /\ (q.there <=> r.there) /\ (q.lapsed <=> r.lapsed)
         /\ q.by = (IF r.there THEN i ELSE r.by)
         /\ q.created = r.created /\ q.text = r.text
BY DEF SharedRow, Updated, Superseded

LEMMA RowGone ==
  ASSUME NEW r \in SharedRow
  PROVE  Gone(r) \in SharedRow /\ ~Gone(r).there /\ Gone(r).created = r.created /\ Gone(r).by = 0
BY DEF SharedRow, Gone, NoRow

LEMMA RowMade ==
  ASSUME NEW t \in Texts, NEW s \in {"active", "held"}, now \in Nat \ {0}
  PROVE  /\ NewRow(t, s) \in SharedRow /\ NewRow(t, s).there /\ ~NewRow(t, s).lapsed
         /\ NewRow(t, s).text = t /\ NewRow(t, s).by = 0 /\ NewRow(t, s).created > 0
BY DEF SharedRow, NewRow

(***************************************************************************)
(* What every step does to the rows: an id is not given again, and a row   *)
(* that changes its fact gives up a fact that is decided about, for one    *)
(* that is too if somebody awaits the row.                                 *)
(***************************************************************************)
Moves ==
  /\ \A i \in Ids : Used(i) => Used(i)'
  /\ \A i \in Ids : Used(i) /\ rows'[i].there => rows[i].there
  /\ \A i \in Ids : rows[i].there /\ rows'[i].there /\ FactAt(i)' # FactAt(i) =>
       /\ FactAt(i) \in decided' /\ FactAt(i)' \in decided' \cup edited'
       /\ Awaited(i) => FactAt(i)' \in decided'
  /\ decided \subseteq decided' /\ edited \subseteq edited'

LEMMA RequestsStay ==
  ASSUME Moves, NEW r \in Requests, RequestIsTyped(r), RetiresItsOwn(r),
         r.old # 0 => Awaited(r.old)
  PROVE  RequestIsTyped(r)' /\ RetiresItsOwn(r)'
<1>1. /\ r.old # 0 => r.old \in Ids /\ Used(r.old)
      /\ r.pc \in {"relate", "link"} => r.new \in Ids /\ Used(r.new)
    BY MemoryAssumption DEF RequestIsTyped, Requests, Ids
<1>2. RequestIsTyped(r)'
    BY <1>1 DEF RequestIsTyped, Moves
<1>3. ASSUME r.old # 0, rows'[r.old].there, r.pc = "insert"
      PROVE  FactAt(r.old)' \in decided' \cup edited' \cup {Fact[r.text]}
    <2>1. rows[r.old].there /\ Awaited(r.old)
        BY <1>1, <1>3 DEF Moves
    <2>2. FactAt(r.old) \in decided \cup edited \cup {Fact[r.text]}
        BY <1>3, <2>1 DEF RetiresItsOwn
    <2>. QED
        BY <1>1, <1>3, <2>1, <2>2 DEF Moves
<1>4. ASSUME r.old # 0, rows'[r.old].there, r.pc \in {"relate", "link"}, rows'[r.new].there
      PROVE  FactAt(r.old)' \in decided' \cup edited' \cup {FactAt(r.new)'}
    <2>1. rows[r.old].there /\ rows[r.new].there /\ Awaited(r.old)
        BY <1>1, <1>4 DEF Moves
    <2>2. FactAt(r.old) \in decided \cup edited \cup {FactAt(r.new)}
        BY <1>4, <2>1 DEF RetiresItsOwn
    <2>3. CASE FactAt(r.old)' # FactAt(r.old)
        BY <1>1, <1>4, <2>1, <2>3 DEF Moves
    <2>4. CASE FactAt(r.new)' # FactAt(r.new) /\ FactAt(r.old)' = FactAt(r.old)
        BY <1>1, <1>4, <2>1, <2>2, <2>4 DEF Moves
    <2>5. CASE FactAt(r.new)' = FactAt(r.new) /\ FactAt(r.old)' = FactAt(r.old)
        BY <2>2, <2>5 DEF Moves
    <2>. QED
        BY <2>3, <2>4, <2>5
<1>5. RetiresItsOwn(r)'
    BY <1>3, <1>4 DEF RetiresItsOwn
<1>. QED
    BY <1>2, <1>5

LEMMA ToldIsAwaited ==
  ASSUME NEW i \in Ids, Told(i) # {}
  PROVE  Awaited(i)
BY DEF Told, Awaited

\* Who awaits row i after the step read it before, or reads it now.
Reads(i) ==
  rows'[i].there =>
    \/ Told(i)' = {}
    \/ rows[i].there /\ Told(i)' \subseteq Told(i)
    \/ rows[i].there /\ Told(i)' \subseteq Told(i) \cup {FactAt(i)} /\ FactAt(i)' = FactAt(i)

LEMMA AgreedStays ==
  ASSUME Moves, NEW i \in Ids, Agreed(i), Reads(i)
  PROVE  Agreed(i)'
<1> SUFFICES ASSUME rows'[i].there, Told(i)' # {}
             PROVE  \/ \A f \in Told(i)' : f = FactAt(i)'
                    \/ Told(i)' \cup {FactAt(i)'} \subseteq decided'
    BY DEF Agreed
<1>1. /\ rows[i].there /\ Told(i)' \subseteq Told(i) \cup {FactAt(i)}
      /\ FactAt(i)' = FactAt(i) \/ Told(i)' \subseteq Told(i)
    BY DEF Reads
<1>2. (\A f \in Told(i) : f = FactAt(i)) \/ Told(i) \cup {FactAt(i)} \subseteq decided
    BY <1>1 DEF Agreed
<1>3. CASE FactAt(i)' = FactAt(i)
    BY <1>1, <1>2, <1>3 DEF Moves
<1>4. CASE FactAt(i)' # FactAt(i)
    <2>1. Awaited(i)
        BY <1>1, <1>4, ToldIsAwaited
    <2>2. FactAt(i) \in decided' /\ FactAt(i)' \in decided' /\ decided \subseteq decided'
        BY <1>1, <1>4, <2>1 DEF Moves
    <2>. QED
        BY <1>1, <1>2, <1>4, <2>2
<1>. QED
    BY <1>3, <1>4

LEMMA EmbeddedStays ==
  ASSUME Moves, NEW i \in Ids, Embedded(i), vec'[i] \in {vec[i], NoText}, rows'[i].there => rows[i].there
  PROVE  Embedded(i)'
<1> SUFFICES ASSUME rows'[i].there, vec'[i] # NoText
             PROVE  Fact[vec'[i]] = FactAt(i)' \/ FactAt(i)' \in decided' \cup edited'
    BY DEF Embedded
<1>1. Fact[vec[i]] = FactAt(i) \/ FactAt(i) \in decided \cup edited
    BY DEF Embedded
<1>. QED
    BY <1>1 DEF Moves

\* Who is there and current keeps its fact, or is archived, or decided about.
KeepsFacts ==
  /\ \A i \in Ids : rows[i].there /\ ~rows[i].lapsed =>
       \/ rows'[i].there /\ ~rows'[i].lapsed /\ FactAt(i)' = FactAt(i)
       \/ FactAt(i) \in decided'
       \/ \E a \in archive' : Fact[a.text] = FactAt(i)
  /\ \A a \in archive : a \in archive' \/ \E i \in Ids : Holds(i, Fact[a.text])'
  /\ decided \subseteq decided'
  /\ UNCHANGED <<owed, decided>> \/ \E D : Decides(D)

LEMMA HeldStays ==
  ASSUME owed \cap decided = {}, \A f \in owed : IsHeld(f), KeepsFacts
  PROVE  owed' \cap decided' = {} /\ \A f \in owed' : IsHeld(f)'
<1>1. ASSUME NEW f \in owed, f \notin decided'
      PROVE  IsHeld(f)'
    <2>1. CASE \E i \in Ids : Holds(i, f)
        BY <1>1, <2>1 DEF KeepsFacts, Holds, IsHeld, HasArchive
    <2>2. CASE HasArchive(f)
        <3>1. PICK a \in archive : Fact[a.text] = f
            BY <2>2 DEF HasArchive
        <3>2. CASE a \in archive'
            BY <3>1, <3>2 DEF IsHeld, HasArchive
        <3>3. CASE \E i \in Ids : Holds(i, Fact[a.text])'
            BY <3>1, <3>3 DEF IsHeld, Holds
        <3>. QED
            BY <3>2, <3>3 DEF KeepsFacts
    <2>. QED
        BY <1>1, <2>1, <2>2 DEF IsHeld
<1>2. CASE UNCHANGED <<owed, decided>>
    BY <1>1, <1>2
<1>3. CASE \E D : Decides(D)
    <2>1. owed' = (owed \cup LiveFacts') \ decided'
        BY <1>3 DEF Decides
    <2>2. ASSUME NEW f \in LiveFacts' PROVE IsHeld(f)'
        BY <2>2 DEF LiveFacts, Live, Current, IsHeld, Holds, FactAt
    <2>. QED
        BY <1>1, <2>1, <2>2
<1>. QED
    BY <1>2, <1>3 DEF KeepsFacts

\* What is left to show of a step.
LEMMA Kept ==
  ASSUME MemoryInv, Moves, KeepsFacts, MemoryTypes', NightTypes',
         \A i \in Ids : Reads(i) /\ Embedded(i)',
         \A w \in Writers : \/ writer'[w] = writer[w]
                            \/ RequestIsTyped(writer[w])' /\ RetiresItsOwn(writer[w])'
  PROVE  MemoryInv'
<1>1. \A i \in Ids : Agreed(i)'
    BY AgreedStays DEF MemoryInv
<1>2. ASSUME NEW w \in Writers
      PROVE  RequestIsTyped(writer[w])' /\ RetiresItsOwn(writer[w])'
    <2>1. CASE writer'[w] = writer[w]
        <3>1. PICK r \in Requests : r = writer[w]
            BY DEF MemoryInv, MemoryTypes
        <3>2. RequestIsTyped(r) /\ RetiresItsOwn(r) /\ Awaited(r.old)
            BY <3>1 DEF MemoryInv, Awaited
        <3>3. RequestIsTyped(r)' /\ RetiresItsOwn(r)'
            BY <3>2, RequestsStay
        <3>. QED
            BY <2>1, <3>1, <3>3
    <2>. QED
        BY <2>1
<1>3. owed' \cap decided' = {} /\ \A f \in owed' : IsHeld(f)'
    BY HeldStays DEF MemoryInv
<1>. QED
    BY <1>1, <1>2, <1>3 DEF MemoryInv

(***************************************************************************)
(* Types after a step.                                                     *)
(***************************************************************************)
\* The rows after a step that gives the id n, or none.
RowsMove(n) ==
  /\ rows' \in [Ids -> SharedRow]
  /\ \A i \in Ids :
       IF i = n THEN rows'[i].there /\ rows'[i].created > 0 /\ rows'[i].text \in Texts
       ELSE /\ rows'[i].created = rows[i].created
            /\ rows'[i].there => rows[i].there /\ rows'[i].text \in Texts

LEMMA TypesMove ==
  ASSUME MemoryTypes, NEW n \in {0, NextId}, n <= MaxRows, RowsMove(n),
         vec' \in [Ids -> Texts \cup {NoText}],
         \A i \in Ids : vec'[i] = NoText \/ vec[i] # NoText \/ Used(i) \/ i = n,
         archive' \subseteq [id : Nat, text : Texts],
         writer' \in [Writers -> Requests],
         now' = now
  PROVE  MemoryTypes' /\ \A i \in Ids : Used(i)' <=> Used(i) \/ i = n
<1>1. PICK m \in 0 .. MaxRows : \A i \in Ids : Used(i) <=> i <= m
    BY DEF MemoryTypes
<1>2. \A i \in Ids : (Used(i) <=> rows[i].created > 0) /\ rows[i].created \in Nat /\ rows'[i].created \in Nat
    BY DEF MemoryTypes, Used, SharedRow, RowsMove
<1>3. \A i \in Ids : rows'[i].there => rows'[i].text \in Texts /\ rows'[i].created > 0
    BY <1>2 DEF RowsMove, Used
<1>4. \A i \in Ids : Used(i)' <=> Used(i) \/ i = n
    BY <1>2, <1>3 DEF RowsMove, Used
<1>5. PICK k \in 0 .. MaxRows : \A i \in Ids : Used(i)' <=> i <= k
    <2>1. CASE n = 0
        BY <1>1, <1>4, <2>1, IdsAreFinite
    <2>2. CASE n = NextId
        <3>1. n \in Ids /\ \A i \in Ids : Used(i) <=> i < n
            BY <2>2, NextIsUnused
        <3>2. n \in 0 .. MaxRows /\ \A i \in Ids : Used(i)' <=> i <= n
            BY <1>4, <3>1, MemoryAssumption DEF Ids
        <3>. QED
            BY <3>2
    <2>. QED
        BY <2>1, <2>2
<1>6. \A i \in Ids : ~Used(i)' => vec'[i] = NoText
    BY <1>4 DEF MemoryTypes
<1>7. rows' \in [Ids -> SharedRow] /\ now' \in Nat \ {0}
    BY DEF RowsMove, MemoryTypes
<1>. QED
    BY <1>3, <1>4, <1>5, <1>6, <1>7 DEF MemoryTypes

LEMMA NightStays ==
  ASSUME NightTypes, Unquiet, \A i \in Ids : Used(i) => Used(i)'
  PROVE  /\ NightTypes'
         /\ night'.pc = night.pc /\ night'.ids = night.ids /\ night'.text = night.text
<1>1. /\ night' \in Nights
      /\ night'.pc = night.pc /\ night'.ids = night.ids /\ night'.text = night.text
      /\ night'.row = night.row
    BY DEF NightTypes, Nights, Unquiet
<1>2. night.ids \subseteq Ids
    BY DEF NightTypes, Nights
<1>. QED
    BY <1>1, <1>2 DEF NightTypes, NightReads

LEMMA ToldShrinks ==
  ASSUME \A w \in Writers : writer'[w].pc = "merge" => writer'[w] = writer[w],
         NightReads' => /\ NightReads /\ night'.ids \subseteq night.ids
                        /\ \A k \in night'.ids : night'.text[k] = night.text[k],
         NEW i
  PROVE  Told(i)' \subseteq Told(i)
BY DEF Told

LEMMA MemoryStart == Init => MemoryInv
<1> SUFFICES ASSUME Init PROVE MemoryInv
    OBVIOUS
<1>1. NoRow \in SharedRow /\ ~NoRow.there /\ NoRow.created = 0
    BY DEF NoRow, SharedRow
<1>2. Idle \in Requests /\ Idle.old = 0 /\ Idle.pc = "idle"
    BY MemoryAssumption DEF Idle, Requests
<1>3. Off \in Nights /\ Off.pc = "off" /\ Off.ids = {}
    BY DEF Off, Nights, NoTexts
<1>4. \A i \in Ids : rows[i] = NoRow /\ ~Used(i) /\ vec[i] = NoText
    BY <1>1 DEF Init, Used
<1>5. MemoryTypes
    <2>1. 0 \in 0 .. MaxRows /\ \A i \in Ids : Used(i) <=> i <= 0
        BY <1>4, IdsAreFinite
    <2>2. archive \subseteq [id : Nat, text : Texts]
        BY MemoryAssumption DEF Init
    <2>. QED
        BY <1>1, <1>2, <1>4, <2>1, <2>2 DEF Init, MemoryTypes
<1>6. NightTypes
    BY <1>3 DEF Init, NightTypes, NightReads
<1>7. \A w \in Writers : RequestIsTyped(writer[w]) /\ RetiresItsOwn(writer[w])
    BY <1>2 DEF Init, RequestIsTyped, RetiresItsOwn
<1>8. \A i \in Ids : Agreed(i) /\ Embedded(i)
    BY <1>1, <1>4 DEF Agreed, Embedded
<1>. QED
    BY <1>5, <1>6, <1>7, <1>8 DEF MemoryInv, Init

(***************************************************************************)
(* Steps that read, or wait.                                               *)
(***************************************************************************)
LEMMA StillKept ==
  ASSUME MemoryInv, UNCHANGED <<rows, vec, archive, edited, owed, decided>>,
         writer' \in [Writers -> Requests], now' \in Nat \ {0}, NightTypes',
         \A i \in Ids : Reads(i),
         \A w \in Writers : \/ writer'[w] = writer[w]
                            \/ RequestIsTyped(writer'[w]) /\ RetiresItsOwn(writer'[w])
  PROVE  MemoryInv'
<1>1. Moves
    BY DEF Moves, FactAt, Used
<1>2. KeepsFacts
    BY DEF KeepsFacts, FactAt
<1>3. MemoryTypes'
    BY DEF MemoryInv, MemoryTypes, Used
<1>4. \A i \in Ids : Embedded(i)'
    BY DEF MemoryInv, Embedded, FactAt
<1>5. \A w \in Writers : \/ writer'[w] = writer[w]
                         \/ RequestIsTyped(writer[w])' /\ RetiresItsOwn(writer[w])'
    BY DEF RequestIsTyped, RetiresItsOwn, Used, FactAt
<1>. QED
    BY <1>1, <1>2, <1>3, <1>4, <1>5, Kept

LEMMA SameNight ==
  ASSUME NightTypes, UNCHANGED <<night, rows>>
  PROVE  NightTypes'
BY DEF NightTypes, NightReads, Used

LEMMA FewerTold ==
  ASSUME NEW i \in Ids, Told(i)' \subseteq Told(i), rows'[i].there => rows[i].there
  PROVE  Reads(i)
BY DEF Reads

LEMMA DuplicatesSaySame ==
  ASSUME MemoryInv, NEW t \in Texts, NEW k, NEW i \in Duplicates(t, k, DuplicateCosine)
  PROVE  i \in Ids /\ rows[i].there /\ FactAt(i) \in decided \cup edited \cup {Fact[t]}
<1>1. i \in Ids /\ rows[i].there /\ vec[i] # NoText /\ Cosine[t][vec[i]] >= DuplicateCosine
    BY DEF Duplicates, Nearest, Current
<1>2. vec[i] \in Texts
    BY <1>1 DEF MemoryInv, MemoryTypes
<1>3. Fact[t] = Fact[vec[i]]
    BY <1>1, <1>2, SimilarSaySame DEF DuplicateCosine
<1>. QED
    BY <1>1, <1>3 DEF MemoryInv, Embedded

LEMMA ToolChecksKept ==
  ASSUME MemoryInv, NEW w \in Writers, NEW t \in News, ToolChecks(w, t)
  PROVE  MemoryInv'
<1>1. PICK old, r : /\ old \in Duplicates(t, SearchedByWriter, DuplicateCosine) \/ old = 0
                    /\ r = [Idle EXCEPT !.pc = "insert", !.text = t, !.old = old]
                    /\ writer' = [writer EXCEPT ![w] = r]
    BY DEF ToolChecks
<1>2. r = [pc |-> "insert", how |-> "tool", text |-> t, old |-> old, new |-> 0]
    BY <1>1 DEF Idle
<1>3. t \in Texts
    BY DEF News
<1>4. old # 0 => old \in Ids /\ rows[old].there /\ FactAt(old) \in decided \cup edited \cup {Fact[t]}
    BY <1>1, <1>3, DuplicatesSaySame
<1>5. r \in Requests
    BY <1>2, <1>3, <1>4, MemoryAssumption DEF Requests, Ids
<1>6. /\ writer' \in [Writers -> Requests] /\ writer'[w] = r
      /\ \A v \in Writers \ {w} : writer'[v] = writer[v]
    BY <1>1, <1>5 DEF MemoryInv, MemoryTypes
<1>7. RequestIsTyped(r) /\ RetiresItsOwn(r)
    BY <1>2, <1>3, <1>4 DEF RequestIsTyped, RetiresItsOwn, Used
<1>8. \A i \in Ids : Reads(i)
    <2>1. \A v \in Writers : writer'[v].pc = "merge" => writer'[v] = writer[v]
        BY <1>2, <1>6
    <2>2. \A i \in Ids : Told(i)' \subseteq Told(i)
        BY <2>1, ToldShrinks DEF ToolChecks, NightReads
    <2>. QED
        BY <2>2, FewerTold DEF ToolChecks
<1>9. NightTypes'
    BY SameNight DEF MemoryInv, ToolChecks
<1>. QED
    BY <1>6, <1>7, <1>8, <1>9, StillKept DEF ToolChecks, MemoryInv, MemoryTypes

LEMMA PostLooksKept ==
  ASSUME MemoryInv, NEW w \in Writers, NEW t \in News, PostLooks(w, t)
  PROVE  MemoryInv'
<1>1. t \in Texts
    BY DEF News
<1>2. PICK i : /\ i = 0 \/ (i \in Ids /\ rows[i].there /\ Cosine[t][rows[i].text] >= DuplicateCosine)
               /\ writer' = [writer EXCEPT ![w] = [pc |-> IF i = 0 THEN "insert" ELSE "merge",
                                            how |-> "post", text |-> t, old |-> i, new |-> 0]]
    BY DEF PostLooks, Nearest, Current
<1>3. i # 0 => i \in Ids /\ rows[i].there /\ FactAt(i) = Fact[t]
    BY <1>1, <1>2, SimilarSaySame DEF MemoryInv, MemoryTypes, FactAt, DuplicateCosine
<1> DEFINE r == [pc |-> IF i = 0 THEN "insert" ELSE "merge",
                 how |-> "post", text |-> t, old |-> i, new |-> 0]
<1>4. r \in Requests
    BY <1>1, <1>3, MemoryAssumption DEF Requests, Ids
<1>5. /\ writer' \in [Writers -> Requests] /\ writer'[w] = r
      /\ \A v \in Writers \ {w} : writer'[v] = writer[v]
    <2> HIDE DEF r
    <2>. QED
        BY <1>2, <1>4 DEF MemoryInv, MemoryTypes, r
<1>6. RequestIsTyped(r) /\ RetiresItsOwn(r)
    BY <1>1, <1>3 DEF RequestIsTyped, RetiresItsOwn, Used
<1>7. ASSUME NEW k \in Ids PROVE Reads(k)
    <2>1. UNCHANGED <<rows, night>>
        BY DEF PostLooks
    <2>2. Told(k)' \subseteq Told(k) \cup {Fact[writer'[w].text] : x \in {y \in {w} : writer'[w].pc = "merge" /\ writer'[w].old = k}}
        BY <1>5, <2>1 DEF Told, NightReads
    <2>3. writer'[w].pc = "merge" /\ writer'[w].old = k => i = k /\ Fact[writer'[w].text] = FactAt(k) /\ rows[k].there
        BY <1>3, <1>5
    <2>4. CASE i = k
        BY <1>3, <2>1, <2>2, <2>3, <2>4, IdsAreFinite DEF Reads, FactAt
    <2>5. CASE i # k
        BY <2>1, <2>2, <2>3, <2>5 DEF Reads
    <2>. QED
        BY <2>4, <2>5
<1>8. NightTypes'
    BY SameNight DEF MemoryInv, PostLooks
<1>. QED
    <2> HIDE DEF r
    <2>. QED
        BY <1>5, <1>6, <1>7, <1>8, StillKept DEF PostLooks, MemoryInv, MemoryTypes

LEMMA InsertFailsKept ==
  ASSUME MemoryInv, NEW w \in Writers, InsertFails(w)
  PROVE  MemoryInv'
<1>1. Idle \in Requests /\ Idle.old = 0 /\ Idle.pc = "idle"
    BY MemoryAssumption DEF Idle, Requests
<1>2. /\ writer' \in [Writers -> Requests]
      /\ \A v \in Writers : writer'[v] = writer[v] \/ writer'[v] = Idle
    BY <1>1 DEF InsertFails, MemoryInv, MemoryTypes
<1>3. RequestIsTyped(Idle) /\ RetiresItsOwn(Idle)
    BY <1>1 DEF RequestIsTyped, RetiresItsOwn
<1>4. \A i \in Ids : Reads(i)
    <2>1. \A i \in Ids : Told(i)' \subseteq Told(i)
        BY <1>1, <1>2, ToldShrinks DEF InsertFails, NightReads
    <2>. QED
        BY <2>1, FewerTold DEF InsertFails
<1>5. NightTypes'
    BY SameNight DEF MemoryInv, InsertFails
<1>. QED
    BY <1>2, <1>3, <1>4, <1>5, StillKept DEF InsertFails, MemoryInv, MemoryTypes

LEMMA TickKept ==
  ASSUME MemoryInv, Tick
  PROVE  MemoryInv'
<1>1. now' \in Nat \ {0}
    BY DEF Tick, MemoryInv, MemoryTypes
<1>2. \A i \in Ids : Reads(i)
    BY DEF Tick, Reads, Told, NightReads
<1>3. NightTypes'
    BY SameNight DEF MemoryInv, Tick
<1>. QED
    BY <1>1, <1>2, <1>3, StillKept DEF Tick, MemoryInv, MemoryTypes

LEMMA RestartKept ==
  ASSUME MemoryInv, Restart
  PROVE  MemoryInv'
<1>1. Idle \in Requests /\ Idle.old = 0 /\ Idle.pc = "idle"
    BY MemoryAssumption DEF Idle, Requests
<1>2. Off \in Nights /\ Off.pc = "off" /\ Off.ids = {}
    BY DEF Off, Nights, NoTexts
<1>3. writer' \in [Writers -> Requests] /\ \A v \in Writers : writer'[v] = Idle
    BY <1>1 DEF Restart
<1>4. RequestIsTyped(Idle) /\ RetiresItsOwn(Idle)
    BY <1>1 DEF RequestIsTyped, RetiresItsOwn
<1>5. NightTypes'
    BY <1>2 DEF Restart, NightTypes, NightReads
<1>6. \A i \in Ids : Reads(i)
    BY <1>1, <1>2, <1>3 DEF Restart, Reads, Told
<1>. QED
    BY <1>3, <1>4, <1>5, <1>6, StillKept DEF Restart, MemoryInv, MemoryTypes

LEMMA NightBeginsKept ==
  ASSUME MemoryInv, NightBegins
  PROVE  MemoryInv'
<1>1. night' = [pc |-> "prune", ids |-> Present, text |-> NoTexts, row |-> 0, hits |-> {},
                deleted |-> 0, before |-> {}, quiet |-> TRUE, fresh |-> TRUE, inOrder |-> TRUE, swept |-> 0]
    BY DEF NightBegins, Off
<1>2. night' \in Nights /\ night'.pc = "prune" /\ night'.ids = Present
    BY <1>1 DEF Nights, NoTexts, Present
<1>3. NightTypes' /\ ~NightReads'
    BY <1>2 DEF NightBegins, NightTypes, NightReads, Present, Used
<1>4. \A i \in Ids : Told(i)' \subseteq Told(i)
    BY <1>3, ToldShrinks DEF NightBegins
<1>5. \A i \in Ids : Reads(i)
    BY <1>4, FewerTold DEF NightBegins
<1>. QED
    BY <1>3, <1>5, StillKept DEF NightBegins, MemoryInv, MemoryTypes

LEMMA PruneAsksKept ==
  ASSUME MemoryInv, NEW i \in Ids, PruneAsks(i)
  PROVE  MemoryInv'
<1>1. PICK S \in SUBSET (night.ids \ {i}) :
        night' = [night EXCEPT !.pc = "verdict", !.row = i, !.hits = S, !.ids = @ \ {i}]
    BY DEF PruneAsks
<1>2. PICK n \in Nights : n = night
    BY DEF MemoryInv, NightTypes
<1>3. night' = [n EXCEPT !.pc = "verdict", !.row = i, !.hits = S, !.ids = n.ids \ {i}]
    BY <1>1, <1>2
<1>4. night' = [pc |-> "verdict", ids |-> n.ids \ {i}, text |-> n.text, row |-> i, hits |-> S,
                deleted |-> n.deleted, before |-> n.before, quiet |-> n.quiet, fresh |-> n.fresh,
                inOrder |-> n.inOrder, swept |-> n.swept]
    BY <1>3 DEF Nights
<1>5. night' \in Nights /\ night'.pc = "verdict" /\ night'.row = i /\ night'.ids \subseteq night.ids
    <2>1. S \subseteq Ids /\ n.ids \subseteq Ids /\ i \in Nat
        BY <1>2, IdsAreFinite DEF Nights
    <2>. QED
        BY <1>2, <1>4, <2>1 DEF Nights
<1>6. NightTypes' /\ ~NightReads'
    BY <1>5 DEF PruneAsks, MemoryInv, NightTypes, NightReads, Used, Nights
<1>7. \A k \in Ids : Told(k)' \subseteq Told(k)
    BY <1>6, ToldShrinks DEF PruneAsks
<1>8. \A k \in Ids : Reads(k)
    BY <1>7, FewerTold DEF PruneAsks
<1>. QED
    BY <1>6, <1>8, StillKept DEF PruneAsks, MemoryInv, MemoryTypes

LEMMA DedupReadsKept ==
  ASSUME MemoryInv, DedupReads
  PROVE  MemoryInv'
<1> DEFINE live == {i \in Ids : Live(i)}
           text == [i \in Ids |-> rows[i].text]
<1>1. night' = [pc |-> "dedup", ids |-> live, text |-> text, row |-> 0, hits |-> {},
                deleted |-> 0, before |-> LiveFacts, quiet |-> TRUE, fresh |-> Fresh, inOrder |-> InOrder, swept |-> 0]
    BY DEF DedupReads, Off
<1>2. live \subseteq Ids /\ \A i \in live : rows[i].there /\ rows[i].text \in Texts
    BY DEF Live, Current, MemoryInv, MemoryTypes
<1>3. text \in [Ids -> Texts \cup {NoText}]
    BY DEF MemoryInv, MemoryTypes, SharedRow
<1>4. LiveFacts \subseteq Facts
    BY <1>2 DEF LiveFacts, Facts
<1>5. Fresh \in BOOLEAN /\ InOrder \in BOOLEAN
    BY Zenon DEF Fresh, InOrder
<1>6. night' \in Nights
    <2> HIDE DEF live, text
    <2>. QED
        BY <1>1, <1>2, <1>3, <1>4, <1>5 DEF Nights
<1>7. night'.pc = "dedup" /\ night'.ids = live /\ night'.text = text
    BY <1>1
<1>8. NightTypes'
    <2>1. \A i \in live : Used(i)'
        BY <1>2 DEF Used, DedupReads
    <2>. QED
        BY <1>2, <1>6, <1>7, <2>1 DEF NightTypes
<1>9. \A i \in Ids : Reads(i)
    <2>1. ASSUME NEW i \in Ids PROVE Told(i)' \subseteq Told(i) \cup {FactAt(i)}
        BY <1>2, <1>7 DEF Told, FactAt, DedupReads
    <2>. QED
        BY <2>1 DEF Reads, FactAt, DedupReads
<1>. QED
    BY <1>8, <1>9, StillKept DEF DedupReads, MemoryInv, MemoryTypes

(***************************************************************************)
(* Steps that write to one row.                                            *)
(***************************************************************************)
LEMMA PostValidatesKept ==
  ASSUME MemoryInv, NEW w \in Writers, NEW t \in News, NEW i \in Ids, PostValidates(w, t, i)
  PROVE  MemoryInv'
<1> DEFINE r == [pc |-> "insert", how |-> "post", text |-> t, old |-> i, new |-> 0]
<1>1. t \in Texts /\ r \in Requests
    BY MemoryAssumption DEF News, Requests, Ids
<1>2. /\ writer' \in [Writers -> Requests] /\ writer'[w] = r
      /\ \A v \in Writers \ {w} : writer'[v] = writer[v]
    <2>1. writer' = [writer EXCEPT ![w] = r]
        BY DEF PostValidates
    <2> HIDE DEF r
    <2>. QED
        BY <1>1, <2>1 DEF MemoryInv, MemoryTypes
<1>3. rows[i].there /\ FactAt(i) \in decided' /\ decided \subseteq decided'
    BY DEF PostValidates, Decides, FactAt
<1>4. UNCHANGED <<rows, vec, archive, night, now, edited>> /\ \E D : Decides(D)
    BY DEF PostValidates
<1>5. Moves /\ KeepsFacts
    BY <1>3, <1>4 DEF Moves, KeepsFacts, Used, FactAt
<1>6. MemoryTypes' /\ NightTypes'
    BY <1>2, <1>4, SameNight DEF MemoryInv, MemoryTypes, Used
<1>7. \A k \in Ids : Reads(k) /\ Embedded(k)'
    <2>1. \A v \in Writers : writer'[v].pc = "merge" => writer'[v] = writer[v]
        BY <1>2
    <2>2. \A k \in Ids : Told(k)' \subseteq Told(k)
        BY <1>4, <2>1, ToldShrinks DEF NightReads
    <2>3. \A k \in Ids : Reads(k)
        BY <1>4, <2>2, FewerTold
    <2>4. \A k \in Ids : Embedded(k)'
        BY <1>4, <1>5, EmbeddedStays DEF MemoryInv
    <2>. QED
        BY <2>3, <2>4
<1>8. RequestIsTyped(r)' /\ RetiresItsOwn(r)'
    BY <1>1, <1>3, <1>4 DEF RequestIsTyped, RetiresItsOwn, Used, FactAt
<1>. QED
    <2> HIDE DEF r
    <2>. QED
        BY <1>2, <1>5, <1>6, <1>7, <1>8, Kept

\* A row that is written to, or goes.
LEMMA OneRowKept ==
  ASSUME MemoryInv, NEW i \in Ids, NEW q \in SharedRow, rows' = [rows EXCEPT ![i] = q],
         q.created = rows[i].created,
         q.there => rows[i].there /\ q.text \in Texts,
         UNCHANGED <<archive, now>>, Unquiet,
         vec' \in [Ids -> Texts \cup {NoText}], \A k \in Ids \ {i} : vec'[k] = vec[k],
         vec'[i] \in {vec[i], NoText} \/ (rows[i].there /\ Embedded(i)'),
         UNCHANGED <<owed, decided>> \/ \E D : Decides(D),
         decided \subseteq decided', edited \subseteq edited',
         rows[i].there /\ q.there /\ Fact[q.text] # FactAt(i) =>
           /\ FactAt(i) \in decided' /\ Fact[q.text] \in decided' \cup edited'
           /\ Awaited(i) => Fact[q.text] \in decided',
         rows[i].there /\ ~rows[i].lapsed =>
           (q.there /\ ~q.lapsed /\ Fact[q.text] = FactAt(i)) \/ FactAt(i) \in decided',
         writer' \in [Writers -> Requests],
         \A w \in Writers : \/ writer'[w] = writer[w]
                            \/ /\ writer'[w].pc # "merge"
                               /\ RequestIsTyped(writer[w])' /\ RetiresItsOwn(writer[w])'
  PROVE  MemoryInv'
<1>1. /\ rows' \in [Ids -> SharedRow] /\ rows'[i] = q
      /\ \A k \in Ids \ {i} : rows'[k] = rows[k]
    BY DEF MemoryInv, MemoryTypes
<1>2. RowsMove(0)
    BY <1>1 DEF RowsMove, Ids, MemoryInv, MemoryTypes
<1>3. \A k \in Ids : vec'[k] = NoText \/ vec[k] # NoText \/ Used(k)
    BY DEF Used
<1>4. MemoryTypes' /\ \A k \in Ids : Used(k)' <=> Used(k)
    <2>1. 0 <= MaxRows /\ \A k \in Ids : k # 0
        BY MemoryAssumption DEF Ids
    <2>. QED
        BY <1>2, <1>3, <2>1, TypesMove DEF MemoryInv, MemoryTypes
<1>5. NightTypes' /\ night'.pc = night.pc /\ night'.ids = night.ids /\ night'.text = night.text
    BY <1>4, NightStays DEF MemoryInv
<1>6. Moves
    BY <1>1, <1>4 DEF Moves, FactAt
<1>7. KeepsFacts
    BY <1>1 DEF KeepsFacts, FactAt
<1>8. ASSUME NEW k \in Ids PROVE Reads(k) /\ Embedded(k)'
    <2>1. Told(k)' \subseteq Told(k)
        BY <1>5, ToldShrinks DEF NightReads
    <2>2. rows'[k].there => rows[k].there
        BY <1>1
    <2>3. Embedded(k)'
        BY <1>6, <2>2, EmbeddedStays DEF MemoryInv
    <2>. QED
        BY <2>1, <2>2, <2>3, FewerTold
<1>. QED
    BY <1>4, <1>5, <1>6, <1>7, <1>8, Kept

LEMMA PostMergesWordsKept ==
  ASSUME MemoryInv, NEW w \in Writers, NEW t \in News, NEW i \in Ids, PostMergesWords(w, t, i)
  PROVE  MemoryInv'
<1>1. PICK r \in SharedRow : r = rows[i]
    BY DEF MemoryInv, MemoryTypes
<1>2. r.there /\ r.text \in Texts /\ t \in Texts /\ Fact[t] = Fact[r.text] /\ now \in Nat
    BY <1>1, SimilarSaySame DEF PostMergesWords, Live, Current, MemoryInv, MemoryTypes, News
<1>3. \E longer \in {rows[i].text, t}, s \in {"active", rows[i].status} :
        rows' = [rows EXCEPT ![i] = WithBoth(rows[i], longer, s)]
    BY DEF PostMergesWords, Merge, WithBoth
<1>4. r.status \in {"active", "held"}
    BY DEF SharedRow
<1>5. PICK longer \in Texts, s \in {"active", "held"} :
        /\ Fact[longer] = Fact[r.text]
        /\ rows' = [rows EXCEPT ![i] = WithBoth(r, longer, s)]
    BY <1>1, <1>2, <1>3, <1>4
<1>6. PICK q : q = WithBoth(r, longer, s)
    OBVIOUS
<1>7. /\ q \in SharedRow /\ (q.there <=> r.there) /\ (q.lapsed <=> r.lapsed) /\ q.created = r.created
      /\ q.text = longer
    BY <1>2, <1>6, Rewritten
<1>8. UNCHANGED <<archive, now, vec, edited, writer>> /\ Unquiet /\ Decides({})
    BY DEF PostMergesWords
<1>9. decided \subseteq decided' /\ \E D : Decides(D)
    BY <1>8 DEF Decides
<1>10. FactAt(i) = Fact[r.text] /\ rows' = [rows EXCEPT ![i] = q]
    BY <1>1, <1>5, <1>6 DEF FactAt
<1>11. /\ q.created = rows[i].created /\ Fact[q.text] = FactAt(i)
       /\ q.there => rows[i].there /\ q.text \in Texts
       /\ rows[i].there /\ ~rows[i].lapsed => q.there /\ ~q.lapsed
    BY <1>1, <1>2, <1>5, <1>7, <1>10
<1>12. /\ vec' \in [Ids -> Texts \cup {NoText}] /\ vec' = vec
       /\ writer' \in [Writers -> Requests] /\ writer' = writer /\ edited' = edited
    BY <1>8 DEF MemoryInv, MemoryTypes
<1>. QED
    BY <1>7, <1>8, <1>9, <1>10, <1>11, <1>12, OneRowKept

LEMMA PatchesKept ==
  ASSUME MemoryInv, NEW i \in Ids, NEW t \in News, Patches(i, t)
  PROVE  MemoryInv'
<1>1. PICK r \in SharedRow : r = rows[i]
    BY DEF MemoryInv, MemoryTypes
<1>2. r.there /\ t \in Texts /\ now \in Nat
    BY <1>1 DEF Patches, News, MemoryInv, MemoryTypes
<1>q. /\ WithText(r, t) \in SharedRow /\ (WithText(r, t).there <=> r.there)
      /\ (WithText(r, t).lapsed <=> r.lapsed) /\ WithText(r, t).created = r.created
      /\ WithText(r, t).text = t
    BY <1>2, TextWritten
<1>3. PICK q \in SharedRow : /\ q = WithText(r, t)
                             /\ (q.there <=> r.there) /\ (q.lapsed <=> r.lapsed) /\ q.created = r.created
                             /\ q.text = t
    BY <1>q
<1>4. rows' = [rows EXCEPT ![i] = q]
    BY <1>1, <1>3 DEF Patches, WithText
<1>5. /\ UNCHANGED <<archive, now, vec, writer>> /\ Unquiet
      /\ edited' = edited \cup ({Fact[t]} \ {Fact[rows[i].text]})
      /\ Decides(({Fact[rows[i].text]} \ {Fact[t]}) \cup (IF Awaited(i) THEN {Fact[t]} ELSE {}))
    BY DEF Patches
<1>6. decided \subseteq decided' /\ \E D : Decides(D)
    BY <1>5 DEF Decides
<1>7. Fact[t] # FactAt(i) => FactAt(i) \in decided' /\ Fact[t] \in edited'
                             /\ (Awaited(i) => Fact[t] \in decided')
    BY <1>5 DEF Decides, FactAt
<1>. QED
    BY <1>1, <1>2, <1>3, <1>4, <1>5, <1>6, <1>7, OneRowKept DEF MemoryInv, MemoryTypes

LEMMA DeletesKept ==
  ASSUME MemoryInv, NEW i \in Ids, Deletes(i)
  PROVE  MemoryInv'
<1>1. PICK r \in SharedRow : r = rows[i]
    BY DEF MemoryInv, MemoryTypes
<1>2. PICK q \in SharedRow : q = Gone(r) /\ ~q.there /\ q.created = r.created
    BY RowGone
<1>3. rows' = [rows EXCEPT ![i] = q] /\ rows[i].there
    BY <1>1, <1>2 DEF Deletes
<1>4. /\ UNCHANGED <<archive, now, edited, writer>> /\ Unquiet
      /\ Decides({Fact[rows[i].text]}) /\ vec' = [vec EXCEPT ![i] = NoText]
    BY DEF Deletes
<1>5. FactAt(i) \in decided' /\ decided \subseteq decided' /\ \E D : Decides(D)
    BY <1>4 DEF Decides, FactAt
<1>6. /\ vec' \in [Ids -> Texts \cup {NoText}] /\ vec'[i] = NoText
      /\ \A k \in Ids \ {i} : vec'[k] = vec[k]
    BY <1>4 DEF MemoryInv, MemoryTypes
<1>. QED
    BY <1>1, <1>2, <1>3, <1>4, <1>5, <1>6, OneRowKept DEF MemoryInv, MemoryTypes

LEMMA SetsStatusKept ==
  ASSUME MemoryInv, NEW i \in Ids, NEW s \in {"active", "held"}, SetsStatus(i, s)
  PROVE  MemoryInv'
<1>1. PICK r \in SharedRow : r = rows[i]
    BY DEF MemoryInv, MemoryTypes
<1>2. r.there /\ r.text \in Texts /\ now \in Nat
    BY <1>1 DEF SetsStatus, MemoryInv, MemoryTypes
<1>3. PICK q \in SharedRow : /\ q = Updated(r, [r EXCEPT !.status = s])
                             /\ (q.there <=> r.there) /\ (q.lapsed <=> r.lapsed) /\ q.created = r.created
                             /\ q.text = r.text
    BY <1>2, StatusWritten
<1>4. rows' = [rows EXCEPT ![i] = q]
    BY <1>1, <1>3 DEF SetsStatus
<1>5. UNCHANGED <<archive, now, vec, edited, writer>> /\ Unquiet /\ \E D : Decides(D)
    BY DEF SetsStatus
<1>6. decided \subseteq decided'
    BY <1>5 DEF Decides
<1>7. FactAt(i) = Fact[r.text]
    BY <1>1 DEF FactAt
<1>. QED
    BY <1>1, <1>2, <1>3, <1>4, <1>5, <1>6, <1>7, OneRowKept DEF MemoryInv, MemoryTypes

LEMMA LapsesKept ==
  ASSUME MemoryInv, NEW i \in Ids, Lapses(i)
  PROVE  MemoryInv'
<1>1. PICK r \in SharedRow : r = rows[i]
    BY DEF MemoryInv, MemoryTypes
<1>2. r.there /\ r.text \in Texts
    BY <1>1 DEF Lapses, MemoryInv, MemoryTypes
<1>3. PICK p \in SharedRow : p = [r EXCEPT !.lapsed = TRUE]
    BY DEF SharedRow
<1>3a. PICK q \in SharedRow : /\ q = [r EXCEPT !.lapsed = TRUE]
                              /\ (q.there <=> r.there) /\ q.created = r.created /\ q.text = r.text
    BY <1>3 DEF SharedRow
<1>4. rows' = [rows EXCEPT ![i] = q]
    BY <1>1, <1>3a DEF Lapses
<1>5. /\ UNCHANGED <<archive, now, vec, edited, writer>> /\ Unquiet
      /\ Decides({Fact[rows[i].text]})
    BY DEF Lapses
<1>6. FactAt(i) \in decided' /\ decided \subseteq decided' /\ \E D : Decides(D)
    BY <1>5 DEF Decides, FactAt
<1>7. FactAt(i) = Fact[r.text]
    BY <1>1 DEF FactAt
<1>. QED
    BY <1>1, <1>2, <1>3a, <1>4, <1>5, <1>6, <1>7, OneRowKept DEF MemoryInv, MemoryTypes

LEMMA PostMergesKept ==
  ASSUME MemoryInv, NEW w \in Writers, PostMerges(w)
  PROVE  MemoryInv'
<1>1. PICK a \in Requests : a = writer[w]
    BY DEF MemoryInv, MemoryTypes
<1> DEFINE i == a.old
<1>2. a.pc = "merge" /\ i # 0 /\ i \in Ids /\ Used(i) /\ a.text \in Texts
    BY <1>1, MemoryAssumption DEF PostMerges, MemoryInv, RequestIsTyped, Requests, Ids
<1>3. Idle \in Requests /\ Idle.old = 0 /\ Idle.pc = "idle"
    BY MemoryAssumption DEF Idle, Requests
<1>4. UNCHANGED <<archive, now, edited>> /\ Unquiet /\ Decides({})
    BY DEF PostMerges
<1>5. decided \subseteq decided' /\ \E D : Decides(D)
    BY <1>4 DEF Decides
<1>6. CASE rows[i].there
    <2>1. PICK longer \in {rows[i].text, a.text}, s \in {"active", rows[i].status} :
            rows' = [rows EXCEPT ![i] = Updated(@, [@ EXCEPT !.text = longer, !.status = s])]
        BY <1>1, <1>6 DEF PostMerges, Merge
    <2>2. vec' = [vec EXCEPT ![i] = a.text] /\ writer' = [writer EXCEPT ![w] = Idle]
        BY <1>1, <1>6 DEF PostMerges
    <2>3. PICK r \in SharedRow : r = rows[i]
        BY <1>2 DEF MemoryInv, MemoryTypes
    <2>4. /\ longer \in Texts /\ s \in {"active", "held"} /\ now \in Nat /\ FactAt(i) = Fact[r.text]
          /\ longer \in {r.text, a.text}
        BY <1>2, <1>6, <2>3 DEF SharedRow, MemoryInv, MemoryTypes, FactAt
    <2>5. PICK q \in SharedRow : /\ q = WithBoth(r, longer, s)
                                 /\ (q.there <=> r.there) /\ (q.lapsed <=> r.lapsed) /\ q.created = r.created
                                 /\ q.text = longer
        BY <1>6, <2>3, <2>4, Rewritten
    <2>6. rows' = [rows EXCEPT ![i] = q]
        BY <2>1, <2>3, <2>5 DEF WithBoth
    <2>7. Fact[a.text] = Fact[r.text] \/ {Fact[a.text], Fact[r.text]} \subseteq decided
        <3>1. Fact[a.text] \in Told(i)
            BY <1>1, <1>2 DEF Told
        <3>. QED
            BY <1>2, <1>6, <2>4, <3>1 DEF MemoryInv, Agreed
    <2>8. vec' \in [Ids -> Texts \cup {NoText}] /\ vec'[i] = a.text /\ \A k \in Ids \ {i} : vec'[k] = vec[k]
        BY <1>2, <2>2 DEF MemoryInv, MemoryTypes
    <2>9. Embedded(i)'
        <3>1. rows'[i] = q
            BY <1>2, <2>6 DEF MemoryInv, MemoryTypes
        <3>2. FactAt(i)' = Fact[longer]
            BY <2>5, <3>1 DEF FactAt
        <3>. QED
            BY <1>5, <2>4, <2>7, <2>8, <3>2 DEF Embedded
    <2>10. /\ writer' \in [Writers -> Requests]
           /\ \A v \in Writers : writer'[v] = writer[v] \/ writer'[v] = Idle
        BY <1>3, <2>2 DEF MemoryInv, MemoryTypes
    <2>11. RequestIsTyped(Idle)' /\ RetiresItsOwn(Idle)'
        BY <1>3 DEF RequestIsTyped, RetiresItsOwn, Idle
    <2>12. \A v \in Writers : \/ writer'[v] = writer[v]
                              \/ /\ writer'[v].pc # "merge"
                                 /\ RequestIsTyped(writer[v])' /\ RetiresItsOwn(writer[v])'
        BY <1>3, <2>10, <2>11
    <2> HIDE DEF i
    <2>13. Fact[q.text] # FactAt(i) => FactAt(i) \in decided' /\ Fact[q.text] \in decided'
        BY <1>5, <2>4, <2>5, <2>7
    <2>14. i \in Ids /\ edited \subseteq edited' /\ q.created = rows[i].created
        BY <1>2, <1>4, <2>3, <2>5
    <2>15. q.there => rows[i].there /\ q.text \in Texts
        BY <1>6, <2>4, <2>5
    <2>16. rows[i].there /\ ~rows[i].lapsed =>
           (q.there /\ ~q.lapsed /\ Fact[q.text] = FactAt(i)) \/ FactAt(i) \in decided'
        BY <2>3, <2>5, <2>13
    <2>. QED
        BY <1>4, <1>5, <1>6, <2>6, <2>8, <2>9, <2>10, <2>12, <2>13, <2>14, <2>15, <2>16, OneRowKept
<1>7. CASE ~rows[i].there
    <2>1. UNCHANGED <<rows, vec>> /\ writer' = [writer EXCEPT ![w].pc = "insert", ![w].old = 0]
        BY <1>1, <1>7 DEF PostMerges
    <2>2. PICK p \in Requests : p = [a EXCEPT !.pc = "insert"]
        BY DEF Requests
    <2>3. PICK b \in Requests : b = [p EXCEPT !.old = 0]
        <3>1. 0 \in 0 .. MaxRows
            BY IdsAreFinite
        <3>. QED
            BY <3>1 DEF Requests
    <2>4. b.pc = "insert" /\ b.old = 0 /\ b.text = a.text
        BY <2>2, <2>3 DEF Requests
    <2>5. /\ writer' \in [Writers -> Requests] /\ writer'[w] = b
          /\ \A v \in Writers \ {w} : writer'[v] = writer[v]
        BY <1>1, <2>1, <2>2, <2>3 DEF MemoryInv, MemoryTypes
    <2>6. RequestIsTyped(b)' /\ RetiresItsOwn(b)'
        BY <1>2, <2>4 DEF RequestIsTyped, RetiresItsOwn
    <2>7. Moves /\ KeepsFacts
        BY <1>4, <1>5, <2>1 DEF Moves, KeepsFacts, Used, FactAt
    <2>8. MemoryTypes'
        BY <1>4, <2>1, <2>5 DEF MemoryInv, MemoryTypes, Used
    <2>9. NightTypes' /\ night'.pc = night.pc /\ night'.ids = night.ids /\ night'.text = night.text
        BY <1>4, <2>7, NightStays DEF MemoryInv, Moves
    <2>10. ASSUME NEW k \in Ids PROVE Reads(k) /\ Embedded(k)'
        <3>1. \A v \in Writers : writer'[v].pc = "merge" => writer'[v] = writer[v]
            BY <2>4, <2>5
        <3>2. Told(k)' \subseteq Told(k)
            BY <2>9, <3>1, ToldShrinks DEF NightReads
        <3>3. Embedded(k)'
            BY <2>1, <2>7, EmbeddedStays DEF MemoryInv
        <3>. QED
            BY <2>1, <3>2, <3>3, FewerTold
    <2>. QED
        BY <2>5, <2>6, <2>7, <2>8, <2>9, <2>10, Kept
<1>. QED
    BY <1>6, <1>7

(***************************************************************************)
(* Steps that leave every row what it says.                                *)
(***************************************************************************)
SaysSame(r, q) ==
  /\ q.created = r.created /\ q.text = r.text
  /\ q.there <=> r.there
  /\ q.lapsed <=> r.lapsed

LEMMA TouchedKept ==
  ASSUME MemoryInv, rows' \in [Ids -> SharedRow],
         \A i \in Ids : SaysSame(rows[i], rows'[i]),
         UNCHANGED <<vec, archive, now, edited>>,
         UNCHANGED <<owed, decided>> \/ \E D : Decides(D), decided \subseteq decided',
         (\A i \in Ids : Used(i) => Used(i)') => NightTypes',
         \A i \in Ids : Told(i)' \subseteq Told(i),
         writer' \in [Writers -> Requests],
         \A w \in Writers : \/ writer'[w] = writer[w]
                            \/ RequestIsTyped(writer[w])' /\ RetiresItsOwn(writer[w])'
  PROVE  MemoryInv'
<1>1. RowsMove(0)
    BY DEF RowsMove, Ids, MemoryInv, MemoryTypes, SaysSame
<1>2. MemoryTypes' /\ \A i \in Ids : Used(i)' <=> Used(i)
    <2>1. 0 <= MaxRows /\ \A k \in Ids : k # 0
        BY MemoryAssumption DEF Ids
    <2>. QED
        BY <1>1, <2>1, TypesMove DEF MemoryInv, MemoryTypes
<1>3. \A i \in Ids : FactAt(i)' = FactAt(i) /\ (rows'[i].there <=> rows[i].there) /\ (rows'[i].lapsed <=> rows[i].lapsed)
    BY DEF SaysSame, FactAt
<1>4. Moves /\ KeepsFacts
    BY <1>2, <1>3 DEF Moves, KeepsFacts
<1>5. \A i \in Ids : Reads(i) /\ Embedded(i)'
    BY <1>3, <1>4, FewerTold, EmbeddedStays DEF MemoryInv
<1>. QED
    BY <1>2, <1>4, <1>5, Kept

LEMMA ManyTouched ==
  ASSUME NEW r \in SharedRow, now \in Nat, NEW n \in Nat
  PROVE  /\ Updated(r, r) \in SharedRow /\ SaysSame(r, Updated(r, r))
         /\ Superseded(r, n) \in SharedRow /\ SaysSame(r, Superseded(r, n))
         /\ SaysSame(r, r)
BY Touched, LinkWritten DEF SaysSame

LEMMA RelatesKept ==
  ASSUME MemoryInv, NEW w \in Writers, Relates(w)
  PROVE  MemoryInv'
<1>1. PICK a \in Requests : a = writer[w]
    BY DEF MemoryInv, MemoryTypes
<1>2. PICK S : rows' = [i \in Ids |-> IF i \in S THEN Updated(rows[i], rows[i]) ELSE rows[i]]
    BY DEF Relates
<1>3. UNCHANGED <<vec, archive, now, edited, owed, decided>> /\ Unquiet /\ now \in Nat
    BY DEF Relates, MemoryInv, MemoryTypes
<1>4. \A i \in Ids : rows[i] \in SharedRow
    BY DEF MemoryInv, MemoryTypes
<1>5. rows' \in [Ids -> SharedRow] /\ \A i \in Ids : SaysSame(rows[i], rows'[i])
    <2>1. \A i \in Ids : /\ Updated(rows[i], rows[i]) \in SharedRow
                         /\ SaysSame(rows[i], Updated(rows[i], rows[i]))
                         /\ SaysSame(rows[i], rows[i])
        BY <1>3, <1>4, ManyTouched
    <2>. QED
        BY <1>2, <1>4, <2>1
<1>6. PICK b \in Requests : b = [a EXCEPT !.pc = "link"]
    BY DEF Requests
<1>7. /\ a.pc = "relate" /\ b.pc = "link" /\ b.old = a.old /\ b.new = a.new
    BY <1>1, <1>6 DEF Relates, Requests
<1>8. Idle \in Requests /\ Idle.old = 0 /\ Idle.pc = "idle"
    BY MemoryAssumption DEF Idle, Requests
<1>9. /\ writer' \in [Writers -> Requests]
      /\ writer'[w] = b \/ writer'[w] = Idle
      /\ \A v \in Writers \ {w} : writer'[v] = writer[v]
    <2>1. writer' = [writer EXCEPT ![w] = b] \/ writer' = [writer EXCEPT ![w] = Idle]
        BY <1>1, <1>6 DEF Relates
    <2>. QED
        BY <1>8, <2>1 DEF MemoryInv, MemoryTypes
<1>10. \A i \in Ids : /\ FactAt(i)' = FactAt(i) /\ (rows'[i].there <=> rows[i].there)
                      /\ Used(i)' <=> Used(i)
    BY <1>5 DEF SaysSame, FactAt, Used
<1>11. RequestIsTyped(Idle)' /\ RetiresItsOwn(Idle)'
    BY <1>8 DEF RequestIsTyped, RetiresItsOwn
<1>12. RequestIsTyped(b)' /\ RetiresItsOwn(b)'
    <2>1. RequestIsTyped(a) /\ RetiresItsOwn(a)
        BY <1>1 DEF MemoryInv
    <2>2. (a.old # 0 => a.old \in Ids) /\ (a.new # 0 => a.new \in Ids)
        BY MemoryAssumption DEF Requests, Ids
    <2>3. RequestIsTyped(b)'
        BY <1>7, <1>10, <2>1, <2>2 DEF RequestIsTyped
    <2>4. RetiresItsOwn(b)'
        BY <1>3, <1>7, <1>10, <2>1, <2>2 DEF RetiresItsOwn, RequestIsTyped
    <2>. QED
        BY <2>3, <2>4
<1>13. (\A i \in Ids : Used(i) => Used(i)') /\ NightTypes' /\ \A i \in Ids : Told(i)' \subseteq Told(i)
    <2>1. \A v \in Writers : writer'[v].pc = "merge" => writer'[v] = writer[v]
        BY <1>7, <1>8, <1>9
    <2>2. NightTypes' /\ night'.pc = night.pc /\ night'.ids = night.ids /\ night'.text = night.text
        BY <1>3, <1>10, NightStays DEF MemoryInv
    <2>. QED
        BY <1>10, <2>1, <2>2, ToldShrinks DEF NightReads
<1>. QED
    BY <1>3, <1>5, <1>9, <1>11, <1>12, <1>13, TouchedKept

LEMMA LinksKept ==
  ASSUME MemoryInv, NEW w \in Writers, Links(w)
  PROVE  MemoryInv'
<1>1. PICK a \in Requests : a = writer[w]
    BY DEF MemoryInv, MemoryTypes
<1>2. rows' = [rows EXCEPT ![a.old] = Superseded(@, a.new)]
    BY <1>1 DEF Links
<1>3. UNCHANGED <<vec, archive, now, edited, owed, decided>> /\ Unquiet /\ now \in Nat
    BY DEF Links, MemoryInv, MemoryTypes
<1>4. rows \in [Ids -> SharedRow] /\ \A i \in Ids : rows[i] \in SharedRow
    BY DEF MemoryInv, MemoryTypes
<1>5. rows' \in [Ids -> SharedRow] /\ \A i \in Ids : SaysSame(rows[i], rows'[i])
    <2>1. a.new \in Nat
        BY MemoryAssumption DEF Requests
    <2>2. \A i \in Ids : /\ Superseded(rows[i], a.new) \in SharedRow
                         /\ SaysSame(rows[i], Superseded(rows[i], a.new))
                         /\ SaysSame(rows[i], rows[i])
        BY <1>3, <1>4, <2>1, ManyTouched
    <2>. QED
        BY <1>2, <1>4, <2>2
<1>6. Idle \in Requests /\ Idle.old = 0 /\ Idle.pc = "idle"
    BY MemoryAssumption DEF Idle, Requests
<1>7. /\ writer' \in [Writers -> Requests]
      /\ \A v \in Writers : writer'[v] = writer[v] \/ writer'[v] = Idle
    BY <1>6 DEF Links, MemoryInv, MemoryTypes
<1>8. RequestIsTyped(Idle)' /\ RetiresItsOwn(Idle)'
    BY <1>6 DEF RequestIsTyped, RetiresItsOwn
<1>9. \A i \in Ids : Used(i)' <=> Used(i)
    BY <1>5 DEF SaysSame, Used
<1>10. NightTypes' /\ \A i \in Ids : Told(i)' \subseteq Told(i)
    <2>1. NightTypes' /\ night'.pc = night.pc /\ night'.ids = night.ids /\ night'.text = night.text
        BY <1>3, <1>9, NightStays DEF MemoryInv
    <2>. QED
        BY <1>6, <1>7, <2>1, ToldShrinks DEF NightReads
<1>. QED
    BY <1>3, <1>5, <1>7, <1>8, <1>10, TouchedKept

LEMMA MarksExpiredKept ==
  ASSUME MemoryInv, MarksExpired
  PROVE  MemoryInv'
<1>1. rows' = [i \in Ids |-> IF rows[i].lapsed /\ rows[i].by = 0
                              THEN Superseded(rows[i], Expired) ELSE rows[i]]
    BY DEF MarksExpired
<1>2. UNCHANGED <<vec, archive, now, edited, owed, decided, writer>> /\ now \in Nat
    BY DEF MarksExpired, MemoryInv, MemoryTypes
<1>3. \A i \in Ids : rows[i] \in SharedRow
    BY DEF MemoryInv, MemoryTypes
<1>4. rows' \in [Ids -> SharedRow] /\ \A i \in Ids : SaysSame(rows[i], rows'[i])
    <2>1. Expired \in Nat
        BY MemoryAssumption DEF Expired
    <2>2. \A i \in Ids : /\ Superseded(rows[i], Expired) \in SharedRow
                         /\ SaysSame(rows[i], Superseded(rows[i], Expired))
                         /\ SaysSame(rows[i], rows[i])
        BY <1>2, <1>3, <2>1, ManyTouched
    <2>. QED
        BY <1>1, <1>3, <2>2
<1>5. \A i \in Ids : Used(i)' <=> Used(i)
    BY <1>4 DEF SaysSame, Used
<1>6. night' \in Nights /\ night'.pc = "janitor" /\ night'.ids = night.ids
    BY DEF MarksExpired, MemoryInv, NightTypes, Nights
<1>7. NightTypes' /\ ~NightReads'
    <2>1. night.ids \subseteq Ids
        BY DEF MemoryInv, NightTypes, Nights
    <2>. QED
        BY <1>5, <1>6, <2>1 DEF NightTypes, NightReads, MemoryInv
<1>8. \A i \in Ids : Told(i)' \subseteq Told(i)
    BY <1>2, <1>7, ToldShrinks
<1>. QED
    BY <1>2, <1>4, <1>7, <1>8, TouchedKept DEF MemoryInv, MemoryTypes

(***************************************************************************)
(* Steps that make a row.                                                  *)
(***************************************************************************)
LEMMA NewRowKept ==
  ASSUME MemoryInv, NEW n \in Ids, n = NextId, NEW t \in Texts,
         rows' \in [Ids -> SharedRow],
         rows'[n].there, ~rows'[n].lapsed, rows'[n].text = t, rows'[n].created > 0,
         \A i \in Ids \ {n} : SaysSame(rows[i], rows'[i]),
         vec' \in [Ids -> Texts \cup {NoText}], vec'[n] \in {t, vec[n]},
         \A i \in Ids \ {n} : vec'[i] = vec[i],
         archive' \subseteq archive,
         \A a \in archive : a \in archive' \/ Fact[a.text] = Fact[t],
         UNCHANGED <<now, edited>>, Unquiet, Decides({}),
         writer' \in [Writers -> Requests],
         \A w \in Writers : \/ writer'[w] = writer[w]
                            \/ /\ writer'[w].pc # "merge"
                               /\ RequestIsTyped(writer[w])' /\ RetiresItsOwn(writer[w])'
  PROVE  MemoryInv'
<1>1. ~Used(n) /\ n <= MaxRows
    <2>1. MemoryTypes /\ n \in Nat
        BY IdsAreFinite DEF MemoryInv
    <2>. QED
        BY <2>1, NextIsUnused DEF Ids
<1>2. RowsMove(n)
    BY DEF RowsMove, MemoryInv, MemoryTypes, SaysSame
<1>3. MemoryTypes' /\ \A i \in Ids : Used(i)' <=> Used(i) \/ i = n
    <2>1. archive' \subseteq [id : Nat, text : Texts]
        BY DEF MemoryInv, MemoryTypes
    <2>. QED
        BY <1>1, <1>2, <2>1, TypesMove DEF MemoryInv, MemoryTypes
<1>4. NightTypes' /\ night'.pc = night.pc /\ night'.ids = night.ids /\ night'.text = night.text
    BY <1>3, NightStays DEF MemoryInv
<1>5. ~rows[n].there /\ vec[n] = NoText
    BY <1>1 DEF Used, MemoryInv, MemoryTypes
<1>6. \A i \in Ids \ {n} : /\ FactAt(i)' = FactAt(i) /\ (rows'[i].there <=> rows[i].there)
                           /\ rows'[i].lapsed <=> rows[i].lapsed
    BY DEF SaysSame, FactAt
<1>7. decided \subseteq decided'
    BY DEF Decides
<1>8. Moves
    BY <1>1, <1>3, <1>5, <1>6, <1>7 DEF Moves
<1>9. KeepsFacts
    <2>1. Holds(n, Fact[t])'
        BY DEF Holds, FactAt
    <2>2. \A i \in Ids : rows[i].there => i # n
        BY <1>5
    <2>. QED
        BY <1>6, <1>7, <2>1, <2>2 DEF KeepsFacts
<1>10. \A i \in Ids : Told(i)' \subseteq Told(i)
    <2>1. \A w \in Writers : writer'[w].pc = "merge" => writer'[w] = writer[w]
        OBVIOUS
    <2>. QED
        BY <1>4, <2>1, ToldShrinks DEF NightReads
<1>11. Told(n) = {}
    <2>1. \A w \in Writers : writer[w].old # n
        <3>1. n # 0
            BY DEF Ids
        <3>. QED
            BY <1>1, <3>1 DEF MemoryInv, RequestIsTyped
    <2>2. n \notin night.ids
        BY <1>1 DEF MemoryInv, NightTypes
    <2>. QED
        BY <2>1, <2>2 DEF Told
<1>12. ASSUME NEW i \in Ids PROVE Reads(i) /\ Embedded(i)'
    <2>1. CASE i = n
        <3>1. Told(i)' = {}
            BY <1>10, <1>11, <2>1
        <3>2. Embedded(i)'
            BY <1>5, <2>1 DEF Embedded, FactAt
        <3>. QED
            BY <3>1, <3>2 DEF Reads
    <2>2. CASE i # n
        BY <1>6, <1>8, <1>10, <2>2, FewerTold, EmbeddedStays DEF MemoryInv
    <2>. QED
        BY <2>1, <2>2
<1>. QED
    BY <1>3, <1>4, <1>8, <1>9, <1>12, Kept

LEMMA InsertsKept ==
  ASSUME MemoryInv, NEW w \in Writers, Inserts(w)
  PROVE  MemoryInv'
<1>1. PICK a \in Requests : a = writer[w]
    BY DEF MemoryInv, MemoryTypes
<1>2. PICK n \in Ids : n = NextId
    BY NextIsUnused DEF Inserts, MemoryInv
<1>3. PICK t \in Texts : t = a.text
    BY <1>1 DEF Inserts, MemoryInv, RequestIsTyped
<1>4. PICK s \in {"active", "held"} :
        rows' = [j \in Ids |-> IF j = n THEN NewRow(t, s)
                               ELSE IF j = a.old /\ a.how = "post"
                               THEN Superseded(rows[j], n) ELSE rows[j]]
    BY <1>1, <1>2, <1>3 DEF Inserts
<1>5. /\ a.pc = "insert" /\ RequestIsTyped(a) /\ RetiresItsOwn(a)
      /\ now \in Nat \ {0} /\ UNCHANGED <<archive, now, edited>> /\ Unquiet /\ Decides({})
      /\ n \in Nat /\ n # 0
    BY <1>1, IdsAreFinite DEF Inserts, MemoryInv, MemoryTypes
<1>6. PICK r : r = NewRow(t, s)
    OBVIOUS
<1>7. /\ r \in SharedRow /\ r.there /\ ~r.lapsed /\ r.text = t /\ r.created > 0
    BY <1>5, <1>6, RowMade
<1>8. /\ rows' \in [Ids -> SharedRow] /\ rows'[n] = r
      /\ \A i \in Ids \ {n} : SaysSame(rows[i], rows'[i])
    <2>1. \A i \in Ids : rows[i] \in SharedRow
        BY DEF MemoryInv, MemoryTypes
    <2>2. \A i \in Ids : /\ Superseded(rows[i], n) \in SharedRow
                         /\ SaysSame(rows[i], Superseded(rows[i], n))
                         /\ SaysSame(rows[i], rows[i])
        BY <1>5, <2>1, ManyTouched
    <2>. QED
        BY <1>4, <1>6, <1>7, <2>1, <2>2
<1>9. /\ vec' \in [Ids -> Texts \cup {NoText}] /\ vec'[n] = t
      /\ \A i \in Ids \ {n} : vec'[i] = vec[i]
    <2>1. vec' = [vec EXCEPT ![n] = t]
        BY <1>1, <1>2, <1>3 DEF Inserts
    <2>. QED
        BY <2>1 DEF MemoryInv, MemoryTypes
<1>10. PICK b \in Requests : /\ b.pc = "relate" /\ b.new = n /\ b.old \in {0, a.old}
                             /\ writer' = [writer EXCEPT ![w] = b]
    <2>1. n \in 0 .. MaxRows /\ 0 \in 0 .. MaxRows
        BY IdsAreFinite DEF Ids
    <2>2. CASE a.how = "tool"
        <3>1. PICK p \in Requests : p = [a EXCEPT !.pc = "relate"]
            BY DEF Requests
        <3>2. PICK q \in Requests : q = [p EXCEPT !.text = NoText]
            BY DEF Requests
        <3>3. PICK b \in Requests : b = [q EXCEPT !.new = n]
            BY <2>1 DEF Requests
        <3>4. b.pc = "relate" /\ b.new = n /\ b.old = a.old
            BY <3>1, <3>2, <3>3 DEF Requests
        <3>5. writer' = [writer EXCEPT ![w] = b]
            BY <1>1, <1>2, <2>2, <3>1, <3>2, <3>3 DEF Inserts
        <3>. QED
            BY <3>4, <3>5
    <2>3. CASE a.how # "tool"
        <3>1. PICK b : b = [Idle EXCEPT !.pc = "relate", !.new = n] /\ writer' = [writer EXCEPT ![w] = b]
            BY <1>1, <1>2, <2>3 DEF Inserts
        <3>2. b = [pc |-> "relate", how |-> "tool", text |-> NoText, old |-> 0, new |-> n]
            BY <3>1 DEF Idle
        <3>3. b \in Requests
            BY <2>1, <3>2 DEF Requests
        <3>. QED
            BY <3>1, <3>2, <3>3
    <2>. QED
        BY <2>2, <2>3
<1>11. /\ writer' \in [Writers -> Requests] /\ writer'[w] = b
       /\ \A v \in Writers \ {w} : writer'[v] = writer[v]
    BY <1>10 DEF MemoryInv, MemoryTypes
<1>12. ~Used(n)
    BY <1>2, NextIsUnused DEF MemoryInv, NextId
<1>13. RequestIsTyped(b)' /\ RetiresItsOwn(b)'
    <2>1. a.old # 0 => a.old \in Ids /\ a.old # n /\ Used(a.old)
        BY <1>5, <1>12, MemoryAssumption DEF Requests, Ids, RequestIsTyped
    <2>2. Used(n)' /\ FactAt(n)' = Fact[t]
        BY <1>7, <1>8 DEF Used, FactAt
    <2>3. \A i \in Ids \ {n} : (Used(i)' <=> Used(i)) /\ FactAt(i)' = FactAt(i) /\ (rows'[i].there <=> rows[i].there)
        BY <1>8 DEF SaysSame, Used, FactAt
    <2>4. RequestIsTyped(b)'
        BY <1>5, <1>10, <2>1, <2>2, <2>3 DEF RequestIsTyped
    <2>5. ASSUME b.old # 0, rows'[b.old].there
          PROVE  FactAt(b.old)' \in decided' \cup edited' \cup {FactAt(n)'}
        <3>1. b.old = a.old /\ a.old # 0 /\ a.old \in Ids /\ a.old # n
            BY <1>10, <2>1, <2>5
        <3>2. FactAt(a.old) \in decided \cup edited \cup {Fact[t]}
            BY <1>3, <1>5, <2>3, <2>5, <3>1 DEF RetiresItsOwn
        <3>. QED
            BY <1>5, <2>2, <2>3, <3>1, <3>2 DEF Decides
    <2>6. RetiresItsOwn(b)'
        BY <1>10, <2>5 DEF RetiresItsOwn
    <2>. QED
        BY <2>4, <2>6
<1>. QED
    BY <1>2, <1>5, <1>7, <1>8, <1>9, <1>10, <1>11, <1>13, NewRowKept

LEMMA RestoresKept ==
  ASSUME MemoryInv, NEW a \in archive, Restores(a)
  PROVE  MemoryInv'
<1>1. PICK n \in Ids : n = NextId
    BY NextIsUnused DEF Restores, MemoryInv
<1>2. PICK t \in Texts : t = a.text
    BY DEF MemoryInv, MemoryTypes
<1>3. now \in Nat \ {0} /\ UNCHANGED <<now, vec, edited, writer>> /\ Unquiet /\ Decides({})
    BY DEF Restores, MemoryInv, MemoryTypes
<1>4. PICK r \in SharedRow : /\ r = NewRow(t, "active")
                             /\ r.there /\ ~r.lapsed /\ r.text = t /\ r.created > 0
    BY <1>3, RowMade
<1>5. rows' = [rows EXCEPT ![n] = r] /\ archive' = archive \ {a}
    BY <1>1, <1>2, <1>4 DEF Restores
<1>6. /\ rows' \in [Ids -> SharedRow] /\ rows'[n] = r
      /\ \A i \in Ids \ {n} : rows'[i] = rows[i]
    BY <1>5 DEF MemoryInv, MemoryTypes
<1>7. \A i \in Ids \ {n} : SaysSame(rows[i], rows'[i])
    BY <1>6 DEF SaysSame
<1>8. \A b \in archive : b \in archive' \/ Fact[b.text] = Fact[t]
    BY <1>2, <1>5
<1>9. vec' \in [Ids -> Texts \cup {NoText}] /\ writer' \in [Writers -> Requests]
    BY <1>3 DEF MemoryInv, MemoryTypes
<1>. QED
    BY <1>1, <1>3, <1>4, <1>5, <1>6, <1>7, <1>8, <1>9, NewRowKept

(***************************************************************************)
(* Steps of the night that take rows away.                                 *)
(***************************************************************************)
LEMMA NightTakesKept ==
  ASSUME MemoryInv, rows' \in [Ids -> SharedRow],
         \A i \in Ids : /\ rows'[i].created = rows[i].created
                        /\ rows'[i].there => rows[i].there /\ rows'[i].text \in Texts,
         vec' \in [Ids -> Texts \cup {NoText}],
         \A i \in Ids : vec'[i] \in {vec[i], NoText},
         archive \subseteq archive', archive' \subseteq [id : Nat, text : Texts],
         UNCHANGED <<now, edited, writer>>,
         UNCHANGED <<owed, decided>> \/ \E D : Decides(D), decided \subseteq decided',
         (\A i \in Ids : Used(i)' <=> Used(i)) => NightTypes',
         \A i \in Ids : rows[i].there /\ rows'[i].there /\ FactAt(i)' # FactAt(i) =>
           FactAt(i) \in decided' /\ FactAt(i)' \in decided',
         \A i \in Ids : rows[i].there /\ ~rows[i].lapsed =>
           \/ rows'[i].there /\ ~rows'[i].lapsed /\ FactAt(i)' = FactAt(i)
           \/ FactAt(i) \in decided'
           \/ \E a \in archive' : Fact[a.text] = FactAt(i),
         \A i \in Ids : rows'[i].there =>
           \/ Told(i)' \subseteq Told(i)
           \/ Told(i)' \subseteq Told(i) \cup {FactAt(i)} /\ FactAt(i)' = FactAt(i)
  PROVE  MemoryInv'
<1>1. RowsMove(0)
    BY DEF RowsMove, Ids
<1>2. MemoryTypes' /\ \A i \in Ids : Used(i)' <=> Used(i)
    <2>1. 0 <= MaxRows /\ \A k \in Ids : k # 0
        BY MemoryAssumption DEF Ids
    <2>. QED
        BY <1>1, <2>1, TypesMove DEF MemoryInv, MemoryTypes
<1>3. Moves /\ KeepsFacts
    BY <1>2 DEF Moves, KeepsFacts
<1>4. \A i \in Ids : Reads(i) /\ Embedded(i)'
    BY <1>3, EmbeddedStays DEF MemoryInv, Reads
<1>. QED
    BY <1>2, <1>3, <1>4, Kept

LEMMA PruneObeysKept ==
  ASSUME MemoryInv, PruneObeys
  PROVE  MemoryInv'
<1>1. PICK i \in Ids : i = night.row
    BY DEF PruneObeys, MemoryInv, NightTypes
<1>2. UNCHANGED <<vec, archive, writer, now, edits, edited>>
    BY DEF PruneObeys
<1>3. PICK n \in Nights : n = night
    BY DEF MemoryInv, NightTypes
<1>4. CASE /\ night' = [night EXCEPT !.pc = "prune", !.row = 0, !.hits = {}]
           /\ UNCHANGED <<rows, owed, decided>>
    <2>1. night' = [n EXCEPT !.pc = "prune", !.row = 0, !.hits = {}]
        BY <1>3, <1>4
    <2>2. night' = [pc |-> "prune", ids |-> n.ids, text |-> n.text, row |-> 0, hits |-> {},
                    deleted |-> n.deleted, before |-> n.before, quiet |-> n.quiet, fresh |-> n.fresh,
                    inOrder |-> n.inOrder, swept |-> n.swept]
        BY <2>1 DEF Nights
    <2>3. night' \in Nights /\ night'.pc = "prune" /\ night'.ids = night.ids
        BY <1>3, <2>2 DEF Nights
    <2>4. NightTypes' /\ ~NightReads'
        BY <1>4, <2>3 DEF NightTypes, NightReads, Used, MemoryInv
    <2>5. \A k \in Ids : Told(k)' \subseteq Told(k)
        BY <1>2, <2>4, ToldShrinks
    <2>6. \A k \in Ids : Reads(k)
        BY <1>4, <2>5, FewerTold
    <2>. QED
        BY <1>2, <1>4, <2>4, <2>6, StillKept DEF MemoryInv, MemoryTypes
<1>5. ASSUME NEW gone \in night.hits \cup {i}, NEW j \in night.hits, NEW t \in News,
             \E k \in {i, j} \cap Present : Fact[rows[k].text] = Fact[t],
             rows' = [rows EXCEPT ![j] = IF gone = i /\ t # rows[j].text
                                         THEN Updated(@, [@ EXCEPT !.text = t]) ELSE @,
                                  ![gone] = Gone(@)],
             night' = [night EXCEPT !.pc = "prune", !.row = 0, !.hits = {},
                                    !.deleted = @ + 1, !.ids = @ \ {gone, j}],
             Decides({Fact[rows[k].text] : k \in {i, j, gone} \cap Present})
      PROVE  MemoryInv'
    <2>1. j \in Ids /\ gone \in Ids /\ i \in Ids /\ n.ids \subseteq Ids
        BY <1>3 DEF Nights
    <2>2. night' = [n EXCEPT !.pc = "prune", !.row = 0, !.hits = {},
                             !.deleted = n.deleted + 1, !.ids = n.ids \ {gone, j}]
        BY <1>3, <1>5
    <2>3. night' = [pc |-> "prune", ids |-> n.ids \ {gone, j}, text |-> n.text, row |-> 0, hits |-> {},
                    deleted |-> n.deleted + 1, before |-> n.before, quiet |-> n.quiet, fresh |-> n.fresh,
                    inOrder |-> n.inOrder, swept |-> n.swept]
        BY <2>2 DEF Nights
    <2>4. night' \in Nights /\ night'.pc = "prune" /\ night'.ids \subseteq night.ids
        BY <1>3, <2>3 DEF Nights
    <2>5. t \in Texts /\ now \in Nat /\ rows \in [Ids -> SharedRow]
        BY DEF News, MemoryInv, MemoryTypes
    <2>6. PICK r \in SharedRow, s \in SharedRow : r = rows[j] /\ s = rows[gone]
        BY <2>1, <2>5
    <2>7. PICK q \in SharedRow : /\ q.created = r.created /\ (q.there <=> r.there) /\ (q.lapsed <=> r.lapsed)
                                 /\ q.there => q.text \in {t, r.text}
                                 /\ q = IF gone = i /\ t # rows[j].text THEN WithText(r, t) ELSE r
        <3>1. /\ WithText(r, t) \in SharedRow /\ (WithText(r, t).there <=> r.there)
              /\ (WithText(r, t).lapsed <=> r.lapsed) /\ WithText(r, t).created = r.created
              /\ WithText(r, t).there => WithText(r, t).text = t
            BY <2>5, TextWritten
        <3>. QED
            BY <3>1
    <2>8. PICK p \in SharedRow : p = Gone(s) /\ ~p.there /\ p.created = s.created
        BY RowGone
    <2>9. /\ rows' \in [Ids -> SharedRow]
          /\ ~rows'[gone].there /\ rows'[gone].created = rows[gone].created
          /\ j # gone => rows'[j] = q
          /\ \A k \in Ids \ {j, gone} : rows'[k] = rows[k]
        <3>0. q = IF gone = i /\ t # rows[j].text THEN Updated(rows[j], [rows[j] EXCEPT !.text = t]) ELSE rows[j]
            BY <2>6, <2>7 DEF WithText
        <3>1. rows' = [rows EXCEPT ![j] = q, ![gone] = Gone(@)]
            BY <1>5, <3>0, Zenon
        <3>2. rows'[gone] \in {Gone(q), Gone(s)} /\ (rows'[gone] = Gone(q) => gone = j \/ q = s \/ Gone(q) = Gone(s))
            BY <2>1, <2>5, <2>6, <3>1
        <3>3. /\ Gone(q) \in SharedRow /\ ~Gone(q).there /\ Gone(q).created = q.created
            BY RowGone
        <3>4. rows'[gone] \in SharedRow /\ ~rows'[gone].there /\ rows'[gone].created = s.created
            BY <2>6, <2>7, <2>8, <3>2, <3>3
        <3>5. /\ j # gone => rows'[j] = q
              /\ \A k \in Ids \ {j, gone} : rows'[k] = rows[k]
              /\ DOMAIN rows' = Ids /\ rows' = [k \in DOMAIN rows' |-> rows'[k]]
            BY <2>1, <2>5, <3>1
        <3>6. \A k \in Ids : rows'[k] \in SharedRow
            BY <2>5, <3>4, <3>5
        <3>. QED
            BY <2>6, <3>4, <3>5, <3>6
    <2>10. \A k \in {i, j, gone} : rows[k].there => FactAt(k) \in decided'
        BY <1>5, <2>1 DEF Decides, Present, FactAt
    <2>11. Fact[t] \in decided' /\ decided \subseteq decided'
        BY <1>5, <2>1 DEF Decides, Present
    <2>12. rows[j].there => rows[j].text \in Texts
        BY <2>1 DEF MemoryInv, MemoryTypes
    <2>13. ASSUME NEW k \in Ids
           PROVE  /\ rows'[k].created = rows[k].created
                  /\ rows'[k].there => rows[k].there /\ rows'[k].text \in Texts
                  /\ rows[k].there /\ rows'[k].there /\ FactAt(k)' # FactAt(k) =>
                       FactAt(k) \in decided' /\ FactAt(k)' \in decided'
                  /\ rows[k].there /\ ~rows[k].lapsed =>
                       \/ rows'[k].there /\ ~rows'[k].lapsed /\ FactAt(k)' = FactAt(k)
                       \/ FactAt(k) \in decided'
        <3>1. CASE k = gone
            BY <2>9, <2>10, <3>1
        <3>2. CASE k = j /\ k # gone
            <4>1. rows'[k] = q /\ r = rows[k]
                BY <2>6, <2>9, <3>2
            <4>2. q.there => FactAt(k)' \in {Fact[t], FactAt(k)}
                BY <2>7, <4>1 DEF FactAt
            <4>. QED
                BY <2>5, <2>7, <2>10, <2>11, <2>12, <3>2, <4>1, <4>2
        <3>3. CASE k \notin {j, gone}
            BY <2>9, <3>3 DEF FactAt, MemoryInv, MemoryTypes
        <3>. QED
            BY <3>1, <3>2, <3>3
    <2>14. ~NightReads' /\ ((\A k \in Ids : Used(k)' <=> Used(k)) => NightTypes')
        BY <1>3, <2>1, <2>4 DEF NightTypes, NightReads, MemoryInv
    <2>15. \A k \in Ids : Told(k)' \subseteq Told(k)
        BY <1>2, <2>14, ToldShrinks
    <2>16. /\ vec' \in [Ids -> Texts \cup {NoText}] /\ \A k \in Ids : vec'[k] \in {vec[k], NoText}
           /\ archive' = archive /\ archive' \subseteq [id : Nat, text : Texts]
           /\ \E D : Decides(D)
        BY <1>2, <1>5 DEF MemoryInv, MemoryTypes
    <2>. QED
        BY <1>2, <2>9, <2>11, <2>13, <2>14, <2>15, <2>16, NightTakesKept
<1>6. \/ /\ night' = [night EXCEPT !.pc = "prune", !.row = 0, !.hits = {}]
         /\ UNCHANGED <<rows, owed, decided>>
      \/ \E gone \in night.hits \cup {i}, j \in night.hits, t \in News :
           /\ \E k \in {i, j} \cap Present : Fact[rows[k].text] = Fact[t]
           /\ rows' = [rows EXCEPT ![j] = IF gone = i /\ t # rows[j].text
                                          THEN Updated(@, [@ EXCEPT !.text = t]) ELSE @,
                                   ![gone] = Gone(@)]
           /\ night' = [night EXCEPT !.pc = "prune", !.row = 0, !.hits = {},
                                     !.deleted = @ + 1, !.ids = @ \ {gone, j}]
           /\ Decides({Fact[rows[k].text] : k \in {i, j, gone} \cap Present})
    BY <1>1, Zenon DEF PruneObeys
<1>. QED
    BY <1>4, <1>5, <1>6, Zenon

LEMMA JanitorReadsKept ==
  ASSUME MemoryInv, JanitorReads
  PROVE  MemoryInv'
<1> DEFINE left == {i \in Ids : rows[i].there /\ ~rows[i].lapsed /\ Young(i, now)}
<1>1. PICK late : late \subseteq left /\ Takes(late)
    BY DEF JanitorReads, Present
<1>2. UNCHANGED <<vec, archive, writer, now, edits, edited, owed, decided>>
    BY DEF JanitorReads
<1>3. rows' = [i \in Ids |-> IF rows[i].lapsed THEN Gone(rows[i]) ELSE rows[i]]
    BY DEF JanitorReads
<1>4. late \subseteq Ids /\ \A i \in late : rows[i].there /\ ~rows[i].lapsed /\ rows[i].text \in Texts
    BY <1>1 DEF MemoryInv, MemoryTypes
<1> HIDE DEF left
<1>5. PICK text \in [Ids -> Texts \cup {NoText}] :
        text = [i \in Ids |-> IF i \in late THEN rows[i].text ELSE NoText]
    BY <1>4
<1>6. PICK n \in Nights : n = night
    BY DEF MemoryInv, NightTypes
<1>7. night' = [n EXCEPT !.pc = "archive", !.ids = late, !.swept = now, !.text = text]
    BY <1>1, <1>5, <1>6 DEF Takes
<1>8. night' = [pc |-> "archive", ids |-> late, text |-> text, row |-> n.row, hits |-> n.hits,
                deleted |-> n.deleted, before |-> n.before, quiet |-> n.quiet, fresh |-> n.fresh,
                inOrder |-> n.inOrder, swept |-> now]
    BY <1>7 DEF Nights
<1>9. night' \in Nights /\ night'.pc = "archive" /\ night'.ids = late /\ night'.text = text
    <2>1. now \in Nat
        BY DEF MemoryInv, MemoryTypes
    <2>. QED
        BY <1>4, <1>8, <2>1 DEF Nights
<1>10. ASSUME NEW i \in Ids
       PROVE  /\ rows'[i] \in SharedRow /\ rows'[i].created = rows[i].created
              /\ rows[i].lapsed => ~rows'[i].there
              /\ ~rows[i].lapsed => rows'[i] = rows[i]
    <2>1. rows[i] \in SharedRow
        BY DEF MemoryInv, MemoryTypes
    <2>2. Gone(rows[i]) \in SharedRow /\ ~Gone(rows[i]).there /\ Gone(rows[i]).created = rows[i].created
        BY <2>1, RowGone
    <2>. QED
        BY <1>3, <2>1, <2>2
<1>11. rows' \in [Ids -> SharedRow]
    BY <1>3, <1>10
<1>12. ASSUME NEW i \in Ids
       PROVE  /\ rows'[i].created = rows[i].created
              /\ rows'[i].there => rows[i].there /\ rows'[i].text \in Texts
              /\ rows'[i].there => FactAt(i)' = FactAt(i)
              /\ rows[i].there /\ ~rows[i].lapsed =>
                   rows'[i].there /\ ~rows'[i].lapsed /\ FactAt(i)' = FactAt(i)
    <2>1. CASE rows[i].lapsed
        BY <1>10, <2>1
    <2>2. CASE ~rows[i].lapsed
        BY <1>10, <2>2 DEF FactAt, MemoryInv, MemoryTypes
    <2>. QED
        BY <2>1, <2>2
<1>13. (\A i \in Ids : Used(i)' <=> Used(i)) => NightTypes'
    <2>1. \A i \in late : Used(i)
        BY <1>4 DEF Used
    <2>. QED
        BY <1>4, <1>5, <1>9, <2>1 DEF NightTypes
<1>14. ASSUME NEW i \in Ids
       PROVE  Told(i)' \subseteq Told(i) \cup {FactAt(i)}
    <2>1. \A k \in late : Fact[text[k]] = FactAt(k)
        BY <1>4, <1>5 DEF FactAt
    <2>. QED
        BY <1>2, <1>9, <2>1 DEF Told
<1>15. /\ vec' \in [Ids -> Texts \cup {NoText}] /\ \A i \in Ids : vec'[i] \in {vec[i], NoText}
       /\ archive' = archive /\ archive' \subseteq [id : Nat, text : Texts]
    BY <1>2 DEF MemoryInv, MemoryTypes
<1>. QED
    BY <1>2, <1>11, <1>12, <1>13, <1>14, <1>15, NightTakesKept

LEMMA JanitorArchivesKept ==
  ASSUME MemoryInv, JanitorArchives
  PROVE  MemoryInv'
<1>1. PICK n \in Nights : n = night
    BY DEF MemoryInv, NightTypes
<1>2. /\ night.pc = "archive" /\ n.ids \subseteq Ids
      /\ \A i \in n.ids : n.text[i] \in Texts /\ Used(i)
    BY <1>1 DEF JanitorArchives, MemoryInv, NightTypes, NightReads, Nights
<1>3. UNCHANGED <<writer, now, edits, edited, owed, decided>>
    BY DEF JanitorArchives
<1>4. /\ rows' = [i \in Ids |-> IF i \in n.ids THEN Gone(rows[i]) ELSE rows[i]]
      /\ vec' = [i \in Ids |-> IF i \in n.ids THEN NoText ELSE vec[i]]
      /\ archive' = archive \cup {[id |-> i, text |-> n.text[i]] : i \in n.ids}
    BY <1>1 DEF JanitorArchives
<1>5. night' = [n EXCEPT !.pc = "over", !.ids = {}, !.text = NoTexts]
    BY <1>1 DEF JanitorArchives
<1>6. night' = [pc |-> "over", ids |-> {}, text |-> NoTexts, row |-> n.row, hits |-> n.hits,
                deleted |-> n.deleted, before |-> n.before, quiet |-> n.quiet, fresh |-> n.fresh,
                inOrder |-> n.inOrder, swept |-> n.swept]
    BY <1>5 DEF Nights
<1>7. night' \in Nights /\ night'.pc = "over" /\ night'.ids = {}
    BY <1>6 DEF Nights, NoTexts
<1>8. NightTypes' /\ ~NightReads'
    BY <1>7 DEF NightTypes, NightReads
<1>9. ASSUME NEW i \in Ids
      PROVE  /\ rows'[i] \in SharedRow /\ rows'[i].created = rows[i].created
             /\ i \in n.ids => ~rows'[i].there
             /\ i \notin n.ids => rows'[i] = rows[i]
    <2>1. rows[i] \in SharedRow
        BY DEF MemoryInv, MemoryTypes
    <2>2. Gone(rows[i]) \in SharedRow /\ ~Gone(rows[i]).there /\ Gone(rows[i]).created = rows[i].created
        BY <2>1, RowGone
    <2>. QED
        BY <1>4, <2>1, <2>2
<1>10. rows' \in [Ids -> SharedRow]
    BY <1>4, <1>9
<1>11. /\ archive \subseteq archive' /\ archive' \subseteq [id : Nat, text : Texts]
       /\ \A i \in n.ids : \E a \in archive' : Fact[a.text] = Fact[n.text[i]]
    <2>1. archive \subseteq [id : Nat, text : Texts]
        BY DEF MemoryInv, MemoryTypes
    <2>2. \A i \in n.ids : [id |-> i, text |-> n.text[i]] \in [id : Nat, text : Texts]
        BY <1>2, IdsAreFinite
    <2>3. archive' \subseteq [id : Nat, text : Texts]
        BY <1>4, <2>1, <2>2
    <2>4. ASSUME NEW i \in n.ids PROVE \E a \in archive' : Fact[a.text] = Fact[n.text[i]]
        <3>1. PICK a : a = [id |-> i, text |-> n.text[i]]
            OBVIOUS
        <3>2. a \in archive' /\ a.text = n.text[i]
            BY <1>4, <3>1
        <3>. QED
            BY <3>2
    <2>. QED
        BY <1>4, <2>3, <2>4
<1>12. ASSUME NEW i \in n.ids, rows[i].there
       PROVE  FactAt(i) \in decided' \/ \E a \in archive' : Fact[a.text] = FactAt(i)
    <2>1. i \in Ids /\ Fact[n.text[i]] \in Told(i)
        BY <1>1, <1>2 DEF Told, NightReads
    <2>2. Fact[n.text[i]] = FactAt(i) \/ FactAt(i) \in decided
        BY <1>12, <2>1 DEF MemoryInv, Agreed
    <2>. QED
        BY <1>3, <1>11, <2>2
<1>13. ASSUME NEW i \in Ids
       PROVE  /\ rows'[i].created = rows[i].created
              /\ rows'[i].there => rows[i].there /\ rows'[i].text \in Texts
              /\ rows'[i].there => FactAt(i)' = FactAt(i)
              /\ rows[i].there /\ ~rows[i].lapsed =>
                   \/ rows'[i].there /\ ~rows'[i].lapsed /\ FactAt(i)' = FactAt(i)
                   \/ FactAt(i) \in decided'
                   \/ \E a \in archive' : Fact[a.text] = FactAt(i)
    <2>1. CASE i \in n.ids
        BY <1>9, <1>12, <2>1
    <2>2. CASE i \notin n.ids
        BY <1>9, <2>2 DEF FactAt, MemoryInv, MemoryTypes
    <2>. QED
        BY <2>1, <2>2
<1>14. \A i \in Ids : Told(i)' \subseteq Told(i)
    BY <1>3, <1>8, ToldShrinks
<1>15. vec' \in [Ids -> Texts \cup {NoText}] /\ \A i \in Ids : vec'[i] \in {vec[i], NoText}
    BY <1>4 DEF MemoryInv, MemoryTypes
<1>. QED
    BY <1>3, <1>8, <1>10, <1>11, <1>13, <1>14, <1>15, NightTakesKept

(***************************************************************************)
(* memory-dedup: what it clusters said the same when it was read; a row    *)
(* that says something else by now is decided about, and so is what it     *)
(* said.                                                                   *)
(***************************************************************************)
Clustered(ok) == {C \in {D \cap Present : D \in Clusters(ok)} : Cardinality(C) >= 2}
Alike(i, j) == FactAt(i) = FactAt(j) \/ {FactAt(i), FactAt(j)} \subseteq decided

LEMMA CosinesAreNumbers == \A t, u \in Texts : Cosine[t][u] \in Nat
    BY MemoryAssumption

LEMMA ClustersSayOne ==
  ASSUME MemoryInv, night.pc = "dedup", NEW ok \in SUBSET night.ids, NEW C \in Clusters(ok)
  PROVE  C \subseteq ok /\ \A i, j \in C : Fact[night.text[i]] = Fact[night.text[j]]
<1> DEFINE text == night.text
           Near(i, j) == /\ j \in Nearest(text[i], SearchedAtNight)
                         /\ Cosine[text[i]][text[j]] >= ClusterCosine
           Closed(S) == \A i \in S, j \in ok \ S : ~Near(i, j) /\ ~Near(j, i)
           Around(i) == {j \in ok : \A S \in SUBSET ok : i \in S /\ Closed(S) => j \in S}
<1>1. PICK c \in ok : C = Around(c)
    BY DEF Clusters
<1>2. \A i \in ok : text[i] \in Texts
    BY DEF MemoryInv, NightTypes, NightReads
<1>3. ASSUME NEW i \in ok, NEW j \in ok, Near(i, j)
      PROVE  Fact[text[i]] = Fact[text[j]]
    <2>1. text[i] \in Texts /\ text[j] \in Texts /\ Cosine[text[i]][text[j]] >= 90
        BY <1>2, <1>3 DEF ClusterCosine
    <2> HIDE DEF text
    <2>2. Cosine[text[i]][text[j]] \in Nat
        BY <2>1, CosinesAreNumbers
    <2>3. Cosine[text[i]][text[j]] >= 85
        BY <2>1, <2>2
    <2>. QED
        BY <2>1, <2>3, SimilarSaySame
<1> DEFINE same == {j \in ok : Fact[text[j]] = Fact[text[c]]}
<1>4. Closed(same)
    <2> HIDE DEF Near, text
    <2>. QED
        BY <1>3
<1>5. C \subseteq same
    <2> HIDE DEF Closed
    <2>. QED
        BY <1>1, <1>4
<1>. QED
    BY <1>5

LEMMA ClusteredAreAlike ==
  ASSUME MemoryInv, night.pc = "dedup", NEW ok \in SUBSET night.ids, NEW C \in Clustered(ok)
  PROVE  /\ C \subseteq Ids /\ C # {}
         /\ \A i \in C : rows[i].there
         /\ \A i, j \in C : Alike(i, j)
<1>1. PICK D \in Clusters(ok) : C = D \cap Present
    BY DEF Clustered
<1>2. C # {}
    BY FS_EmptySet DEF Clustered
<1>3. C \subseteq Ids /\ \A i \in C : rows[i].there
    BY <1>1 DEF Present
<1>4. C \subseteq ok /\ \A i, j \in C : Fact[night.text[i]] = Fact[night.text[j]]
    BY <1>1, ClustersSayOne
<1>5. ASSUME NEW i \in C
      PROVE  \/ FactAt(i) = Fact[night.text[i]]
             \/ {FactAt(i), Fact[night.text[i]]} \subseteq decided
    <2>1. Fact[night.text[i]] \in Told(i)
        BY <1>4 DEF Told, NightReads
    <2>. QED
        BY <1>3, <2>1 DEF MemoryInv, Agreed
<1>. QED
    BY <1>2, <1>3, <1>4, <1>5 DEF Alike

LEMMA WinnerIsOne ==
  ASSUME MemoryInv, NEW C \in SUBSET Ids, C # {}
  PROVE  Winner(C) \in C
<1> DEFINE Over(i) == {j \in C : \/ rows[j].updated > rows[i].updated
                                 \/ rows[j].updated = rows[i].updated /\ j < i}
           over == [i \in C |-> Over(i)]
<1>1. \A i \in C : rows[i].updated \in Nat /\ i \in Nat
    BY IdsAreFinite DEF MemoryInv, MemoryTypes, SharedRow
<1>2. IsFiniteSet(C)
    BY IdsAreFinite, FS_Subset
<1>3. /\ over \in [C -> SUBSET C]
      /\ \A i \in C : i \notin over[i]
      /\ \A i, k \in C : k \in over[i] => over[k] \subseteq over[i]
    BY <1>1
<1>4. PICK i \in C : over[i] = {}
    <2> HIDE DEF over
    <2>. QED
        BY <1>2, <1>3, FirstOfAll
<1>5. \A j \in C \ {i} : \/ rows[j].updated < rows[i].updated
                         \/ rows[j].updated = rows[i].updated /\ i < j
    BY <1>1, <1>4
<1>. QED
    BY <1>5 DEF Winner

\* What a merge does to a row.
LEMMA DedupWrites ==
  ASSUME MemoryInv, NEW ok \in SUBSET night.ids, DedupMerges(ok)
  PROVE  /\ rows' \in [Ids -> SharedRow]
         /\ \A i \in Ids :
              /\ rows'[i].created = rows[i].created
              /\ (rows'[i].there <=> rows[i].there) /\ (rows'[i].lapsed <=> rows[i].lapsed)
              /\ rows[i].there => rows'[i].text \in Texts
              /\ FactAt(i)' = FactAt(i) \/ {FactAt(i), FactAt(i)'} \subseteq decided
              /\ \/ rows'[i].by = rows[i].by
                 \/ rows'[i].by \in Ids /\ Alike(i, rows'[i].by)
<1> DEFINE merged == Clustered(ok)
           Merged(i) == CHOOSE C \in merged : i \in C
<1>1. night.pc = "dedup" /\ now \in Nat
    BY DEF DedupMerges, MemoryInv, MemoryTypes
<1>2. PICK longest \in [merged -> Texts] :
        /\ \A C \in merged : longest[C] \in {rows[i].text : i \in C}
        /\ rows' = [i \in Ids |->
                       IF i \notin UNION merged THEN rows[i]
                       ELSE IF i = Winner(Merged(i))
                       THEN WithText(rows[i], longest[Merged(i)])
                       ELSE Superseded(rows[i], Winner(Merged(i)))]
    BY DEF DedupMerges, Clustered, WithText
<1>3. \A C \in merged : /\ C \subseteq Ids /\ Winner(C) \in C
                        /\ \A i \in C : rows[i].there
                        /\ \A i, j \in C : Alike(i, j)
    BY <1>1, ClusteredAreAlike, WinnerIsOne
<1>4. \A i \in UNION merged : Merged(i) \in merged /\ i \in Merged(i)
    OBVIOUS
<1> HIDE DEF merged, Merged
<1>5. ASSUME NEW i \in Ids
      PROVE  /\ rows'[i] \in SharedRow
             /\ rows'[i].created = rows[i].created
             /\ (rows'[i].there <=> rows[i].there) /\ (rows'[i].lapsed <=> rows[i].lapsed)
             /\ rows[i].there => rows'[i].text \in Texts
             /\ FactAt(i)' = FactAt(i) \/ {FactAt(i), FactAt(i)'} \subseteq decided
             /\ \/ rows'[i].by = rows[i].by
                \/ rows'[i].by \in Ids /\ Alike(i, rows'[i].by)
    <2>1. PICK r \in SharedRow : r = rows[i]
        BY DEF MemoryInv, MemoryTypes
    <2>2. r.there => r.text \in Texts
        BY <2>1 DEF MemoryInv, MemoryTypes
    <2>3. CASE i \notin UNION merged
        BY <1>2, <2>1, <2>2, <2>3 DEF FactAt
    <2>4. CASE i \in UNION merged /\ i = Winner(Merged(i))
        <3>1. PICK C \in merged : C = Merged(i) /\ i \in C
            BY <1>4, <2>4
        <3>2. PICK t \in Texts : t = longest[C]
            BY <1>2
        <3>3. PICK k \in C : t = rows[k].text
            BY <1>2, <3>2
        <3>4. rows'[i] = WithText(r, t)
            BY <1>2, <2>1, <2>4, <3>1, <3>2
        <3>5. r.there /\ Alike(i, k)
            BY <1>3, <2>1, <3>1
        <3>6. /\ WithText(r, t) \in SharedRow /\ WithText(r, t).created = r.created
              /\ (WithText(r, t).there <=> r.there) /\ (WithText(r, t).lapsed <=> r.lapsed)
              /\ WithText(r, t).text = t /\ WithText(r, t).by = r.by
            BY <1>1, <3>5, TextWritten
        <3>7. FactAt(i)' = FactAt(k)
            BY <3>3, <3>4, <3>6 DEF FactAt
        <3>. QED
            BY <2>1, <3>4, <3>5, <3>6, <3>7 DEF Alike
    <2>5. CASE i \in UNION merged /\ i # Winner(Merged(i))
        <3>1. PICK C \in merged : C = Merged(i) /\ i \in C
            BY <1>4, <2>5
        <3>2. PICK j \in C : j = Winner(C)
            BY <1>3
        <3>3. rows'[i] = Superseded(r, j) /\ j \in Ids /\ j \in Nat
            BY <1>2, <1>3, <2>1, <2>5, <3>1, <3>2, IdsAreFinite
        <3>4. r.there /\ Alike(i, j)
            BY <1>3, <2>1, <3>1
        <3>5. /\ Superseded(r, j) \in SharedRow /\ Superseded(r, j).created = r.created
              /\ (Superseded(r, j).there <=> r.there) /\ (Superseded(r, j).lapsed <=> r.lapsed)
              /\ Superseded(r, j).text = r.text /\ Superseded(r, j).by = j
            BY <1>1, <3>3, <3>4, LinkWritten
        <3>6. FactAt(i)' = FactAt(i)
            BY <2>1, <3>3, <3>5 DEF FactAt
        <3>. QED
            BY <2>1, <2>2, <3>3, <3>4, <3>5, <3>6
    <2>. QED
        BY <2>3, <2>4, <2>5
<1>6. rows' \in [Ids -> SharedRow]
    BY <1>2, <1>5
<1>. QED
    BY <1>5, <1>6

LEMMA DedupMergesKept ==
  ASSUME MemoryInv, NEW ok \in SUBSET night.ids, DedupMerges(ok)
  PROVE  MemoryInv'
<1>1. PICK n \in Nights : n = night
    BY DEF MemoryInv, NightTypes
<1>2. night' = [n EXCEPT !.pc = "expire", !.ids = {}, !.text = NoTexts]
    BY <1>1 DEF DedupMerges
<1>3. night' = [pc |-> "expire", ids |-> {}, text |-> NoTexts, row |-> n.row, hits |-> n.hits,
                deleted |-> n.deleted, before |-> n.before, quiet |-> n.quiet, fresh |-> n.fresh,
                inOrder |-> n.inOrder, swept |-> n.swept]
    BY <1>2 DEF Nights
<1>4. night' \in Nights /\ night'.pc = "expire" /\ night'.ids = {}
    BY <1>3 DEF Nights, NoTexts
<1>5. NightTypes' /\ ~NightReads'
    BY <1>4 DEF NightTypes, NightReads
<1>6. UNCHANGED <<vec, archive, writer, now, edited>> /\ Decides({})
    BY DEF DedupMerges
<1>7. decided \subseteq decided' /\ \E D : Decides(D)
    BY <1>6 DEF Decides
<1>8. \A i \in Ids : Told(i)' \subseteq Told(i)
    BY <1>5, <1>6, ToldShrinks
<1>9. /\ vec' \in [Ids -> Texts \cup {NoText}] /\ \A i \in Ids : vec'[i] \in {vec[i], NoText}
      /\ archive' = archive /\ archive' \subseteq [id : Nat, text : Texts]
    BY <1>6 DEF MemoryInv, MemoryTypes
<1>10. /\ rows' \in [Ids -> SharedRow]
       /\ \A i \in Ids :
            /\ rows'[i].created = rows[i].created
            /\ (rows'[i].there <=> rows[i].there) /\ (rows'[i].lapsed <=> rows[i].lapsed)
            /\ rows[i].there => rows'[i].text \in Texts
            /\ FactAt(i)' = FactAt(i) \/ {FactAt(i), FactAt(i)'} \subseteq decided
    BY DedupWrites
<1>. QED
    BY <1>5, <1>6, <1>7, <1>8, <1>9, <1>10, NightTakesKept

LEMMA MemoryStep ==
  ASSUME MemoryInv, [Next]_vars
  PROVE  MemoryInv'
<1>1. CASE Night
    <2>1. CASE NightBegins
        BY <2>1, NightBeginsKept
    <2>2. CASE PruneObeys
        BY <2>2, PruneObeysKept
    <2>3. CASE DedupReads
        BY <2>3, DedupReadsKept
    <2>4. CASE MarksExpired
        BY <2>4, MarksExpiredKept
    <2>5. CASE JanitorReads
        BY <2>5, JanitorReadsKept
    <2>6. CASE JanitorArchives
        BY <2>6, JanitorArchivesKept
    <2>7. CASE \E i \in Ids : PruneAsks(i)
        BY <2>7, PruneAsksKept
    <2>8. CASE \E ok \in SUBSET night.ids : DedupMerges(ok)
        BY <2>8, DedupMergesKept
    <2>. QED
        BY <1>1, <2>1, <2>2, <2>3, <2>4, <2>5, <2>6, <2>7, <2>8 DEF Night
<1>2. CASE Manual
    <2>1. ASSUME NEW i \in Ids, Deletes(i) \/ Lapses(i) \/ \E t \in News : Patches(i, t)
          PROVE  MemoryInv'
        BY <2>1, DeletesKept, LapsesKept, PatchesKept
    <2>. QED
        BY <1>2, <2>1, SetsStatusKept, RestoresKept DEF Manual
<1>3. CASE Tick
    BY <1>3, TickKept
<1>4. CASE Restart
    BY <1>4, RestartKept
<1>5. ASSUME NEW w \in Writers, Write(w)
      PROVE  MemoryInv'
    <2>1. ASSUME NEW t \in News,
                 \/ ToolChecks(w, t) \/ PostLooks(w, t)
                 \/ \E i \in Ids : PostValidates(w, t, i) \/ PostMergesWords(w, t, i)
          PROVE  MemoryInv'
        BY <2>1, ToolChecksKept, PostLooksKept, PostValidatesKept, PostMergesWordsKept
    <2>. QED
        BY <1>5, <2>1, PostMergesKept, InsertsKept, InsertFailsKept, RelatesKept, LinksKept DEF Write
<1>6. CASE UNCHANGED vars
    <2>1. \A i \in Ids : Reads(i)
        BY <1>6 DEF vars, Reads, Told, NightReads
    <2>2. NightTypes'
        BY <1>6, SameNight DEF vars, MemoryInv
    <2>. QED
        BY <1>6, <2>1, <2>2, StillKept DEF vars, MemoryInv, MemoryTypes
<1>. QED
    BY <1>1, <1>2, <1>3, <1>4, <1>5, <1>6 DEF Next

(***************************************************************************)
(* Who supersedes a row.                                                   *)
(***************************************************************************)
LinksOwn ==
  \A i, j \in Ids :
    rows[i].by # j /\ rows'[i].by = j /\ rows'[j].there
    => Fact[rows[i].text] \in decided \cup edited \cup {Fact[rows'[j].text]}

\* Steps that name no row as the one that supersedes.
NamesNone == \A i \in Ids : rows'[i].by \in {rows[i].by, 0, Expired}

LEMMA NamesNoneLinks ==
  ASSUME NamesNone PROVE LinksOwn
<1>1. 0 \notin Ids /\ Expired \notin Ids
    BY MemoryAssumption DEF Ids, Expired
<1>. QED
    BY <1>1 DEF NamesNone, LinksOwn

LEMMA OneRowNamesNone ==
  ASSUME MemoryInv, NEW i, NEW q, rows' = [rows EXCEPT ![i] = q],
         i \in Ids => q.by \in {rows[i].by, 0}
  PROVE  NamesNone
BY DEF NamesNone, MemoryInv, MemoryTypes

LEMMA MergeNamesNone ==
  ASSUME MemoryInv, NEW i \in Ids, rows[i].there, NEW t \in Texts, Merge(i, t)
  PROVE  NamesNone
<1>1. PICK r \in SharedRow : r = rows[i]
    BY DEF MemoryInv, MemoryTypes
<1>2. \E longer \in {rows[i].text, t}, s \in {"active", rows[i].status} :
        rows' = [rows EXCEPT ![i] = WithBoth(rows[i], longer, s)]
    BY DEF Merge, WithBoth
<1>3. r.status \in {"active", "held"} /\ r.text \in Texts /\ now \in Nat
    BY <1>1 DEF SharedRow, MemoryInv, MemoryTypes
<1>4. PICK longer \in Texts, s \in {"active", "held"} :
        rows' = [rows EXCEPT ![i] = WithBoth(r, longer, s)]
    BY <1>1, <1>2, <1>3
<1>5. WithBoth(r, longer, s).by = r.by
    <2>1. now \in Nat
        BY <1>3
    <2>. QED
        BY <2>1, Rewritten
<1>. QED
    BY <1>1, <1>4, <1>5, OneRowNamesNone

LEMMA ManualNamesNone ==
  ASSUME MemoryInv, Manual PROVE NamesNone
<1>1. now \in Nat /\ now \in Nat \ {0}
    BY DEF MemoryInv, MemoryTypes
<1>2. ASSUME NEW i \in Ids, NEW r \in SharedRow, r = rows[i], Deletes(i)
      PROVE  NamesNone
    <2>1. Gone(r).by = 0
        BY RowGone
    <2>. QED
        BY <1>2, <2>1, OneRowNamesNone DEF Deletes
<1>3. ASSUME NEW i \in Ids, NEW r \in SharedRow, r = rows[i], Lapses(i)
      PROVE  NamesNone
    <2>1. PICK q \in SharedRow : q = [r EXCEPT !.lapsed = TRUE]
        BY DEF SharedRow
    <2>2. q.by = r.by
        BY <2>1 DEF SharedRow
    <2>3. rows' = [rows EXCEPT ![i] = q]
        BY <1>3, <2>1 DEF Lapses
    <2>. QED
        BY <1>3, <2>2, <2>3, OneRowNamesNone
<1>4. ASSUME NEW i \in Ids, NEW r \in SharedRow, r = rows[i], NEW t \in News, Patches(i, t)
      PROVE  NamesNone
    <2>1. WithText(r, t).by = r.by
        BY <1>1, TextWritten DEF News
    <2>2. rows' = [rows EXCEPT ![i] = WithText(r, t)]
        BY <1>4 DEF Patches, WithText
    <2>. QED
        BY <1>4, <2>1, <2>2, OneRowNamesNone
<1>5. ASSUME NEW i \in Ids, NEW r \in SharedRow, r = rows[i],
             NEW s \in {"active", "held"}, SetsStatus(i, s)
      PROVE  NamesNone
    <2>1. PICK q : q = Updated(r, [r EXCEPT !.status = s])
        OBVIOUS
    <2>2. q.by = r.by
        BY <1>1, <2>1, StatusWritten
    <2>3. rows' = [rows EXCEPT ![i] = q]
        BY <1>5, <2>1 DEF SetsStatus
    <2>. QED
        BY <1>5, <2>2, <2>3, OneRowNamesNone
<1>6. ASSUME NEW a \in archive, Restores(a)
      PROVE  NamesNone
    <2>1. a.text \in Texts
        BY DEF MemoryInv, MemoryTypes
    <2>2. NewRow(a.text, "active").by = 0
        BY <1>1, <2>1, RowMade
    <2>. QED
        BY <1>6, <2>2, OneRowNamesNone DEF Restores
<1>7. \A i \in Ids : \E r \in SharedRow : r = rows[i]
    BY DEF MemoryInv, MemoryTypes
<1>. QED
    BY <1>2, <1>3, <1>4, <1>5, <1>6, <1>7 DEF Manual

LEMMA NightNamesNone ==
  ASSUME MemoryInv, Night, ~ \E ok \in SUBSET night.ids : DedupMerges(ok)
  PROVE  NamesNone
<1>1. now \in Nat /\ rows \in [Ids -> SharedRow]
    BY DEF MemoryInv, MemoryTypes
<1>2. \A i \in Ids : Gone(rows[i]).by = 0
    BY <1>1, RowGone
<1>3. CASE UNCHANGED rows
    BY <1>3 DEF NamesNone
<1>4. CASE MarksExpired
    <2>1. Expired \in Nat
        BY MemoryAssumption DEF Expired
    <2>2. \A i \in Ids : Superseded(rows[i], Expired).by \in {rows[i].by, Expired}
        BY <1>1, <2>1, LinkWritten
    <2>. QED
        BY <1>4, <2>2 DEF MarksExpired, NamesNone
<1>5. CASE JanitorReads
    BY <1>2, <1>5 DEF JanitorReads, NamesNone
<1>6. CASE JanitorArchives
    BY <1>2, <1>6 DEF JanitorArchives, NamesNone
<1>7. ASSUME NEW gone \in Ids, NEW j \in Ids, NEW t \in News, NEW c \in BOOLEAN,
             rows' = [rows EXCEPT ![j] = IF c THEN Updated(@, [@ EXCEPT !.text = t]) ELSE @,
                                  ![gone] = Gone(@)]
      PROVE  NamesNone
    <2>1. PICK r \in SharedRow, s \in SharedRow : r = rows[j] /\ s = rows[gone]
        BY <1>1
    <2>2. PICK q \in SharedRow : q.by = r.by /\ q = IF c THEN WithText(r, t) ELSE r
        BY <1>1, TextWritten DEF News
    <2>3. q = IF c THEN Updated(rows[j], [rows[j] EXCEPT !.text = t]) ELSE rows[j]
        BY <2>1, <2>2 DEF WithText
    <2>4. rows' = [rows EXCEPT ![j] = q, ![gone] = Gone(@)]
        BY <1>7, <2>3, Zenon
    <2>5. /\ rows'[gone] \in {Gone(q), Gone(s)} /\ (gone # j => rows'[j] = q)
          /\ \A k \in Ids \ {j, gone} : rows'[k] = rows[k]
        BY <1>1, <2>1, <2>4
    <2>6. Gone(q).by = 0 /\ Gone(s).by = 0
        BY RowGone
    <2>. QED
        BY <2>1, <2>2, <2>5, <2>6 DEF NamesNone
<1>8. CASE PruneObeys
    <2>1. night.row \in Ids /\ night.hits \subseteq Ids
        BY <1>8 DEF PruneObeys, MemoryInv, NightTypes, Nights
    <2>2. \/ UNCHANGED rows
          \/ \E gone \in night.hits \cup {night.row}, j \in night.hits, t \in News :
               rows' = [rows EXCEPT ![j] = IF gone = night.row /\ t # rows[j].text
                                           THEN Updated(@, [@ EXCEPT !.text = t]) ELSE @,
                                    ![gone] = Gone(@)]
        BY <1>8, Zenon DEF PruneObeys
    <2>3. ASSUME NEW gone \in night.hits \cup {night.row}, NEW j \in night.hits, NEW t \in News,
                 rows' = [rows EXCEPT ![j] = IF gone = night.row /\ t # rows[j].text
                                           THEN Updated(@, [@ EXCEPT !.text = t]) ELSE @,
                                    ![gone] = Gone(@)]
          PROVE  NamesNone
        <3>1. gone \in Ids /\ j \in Ids /\ (gone = night.row /\ t # rows[j].text) \in BOOLEAN
            BY <2>1
        <3>. QED
            BY <1>7, <2>3, <3>1, Zenon
    <2>. QED
        BY <1>3, <2>2, <2>3, Zenon
<1>9. NightBegins \/ DedupReads \/ (\E i \in Ids : PruneAsks(i)) => UNCHANGED rows
    BY DEF NightBegins, DedupReads, PruneAsks
<1>. QED
    BY <1>3, <1>4, <1>5, <1>6, <1>8, <1>9 DEF Night

LEMMA WriteLinksOwn ==
  ASSUME MemoryInv, NEW w \in Writers, Write(w)
  PROVE  LinksOwn
<1>1. now \in Nat /\ rows \in [Ids -> SharedRow]
    BY DEF MemoryInv, MemoryTypes
<1>2. CASE UNCHANGED rows
    BY <1>2, NamesNoneLinks DEF NamesNone
<1>3. PICK a \in Requests : a = writer[w] /\ RequestIsTyped(a) /\ RetiresItsOwn(a)
    BY DEF MemoryInv, MemoryTypes
<1>4. (a.old # 0 => a.old \in Ids) /\ (a.new # 0 => a.new \in Ids)
    BY MemoryAssumption DEF Requests, Ids
<1>5. ASSUME NEW t \in News, NEW i \in Ids, PostMergesWords(w, t, i) PROVE LinksOwn
    BY <1>5, MergeNamesNone, NamesNoneLinks DEF PostMergesWords, News, Live, Current
<1>6. CASE PostMerges(w)
    <2>1. a.text \in Texts /\ a.old \in Ids
        BY <1>3, <1>4, <1>6 DEF PostMerges, RequestIsTyped
    <2>2. UNCHANGED rows \/ (rows[a.old].there /\ Merge(a.old, a.text))
        BY <1>3, <1>6 DEF PostMerges
    <2>. QED
        BY <1>2, <2>1, <2>2, MergeNamesNone, NamesNoneLinks
<1>7. CASE Relates(w)
    <2>1. \A i \in Ids : Updated(rows[i], rows[i]).by = rows[i].by
        BY <1>1, Touched
    <2>2. NamesNone
        BY <1>7, <2>1 DEF Relates, NamesNone
    <2>. QED
        BY <2>2, NamesNoneLinks
<1>8. CASE Links(w)
    <2>1. rows' = [rows EXCEPT ![a.old] = Superseded(@, a.new)]
        BY <1>3, <1>8 DEF Links
    <2>2. a.pc = "link" /\ a.new \in Ids /\ a.new \in Nat
        BY <1>3, <1>4, <1>8, IdsAreFinite DEF Links, RequestIsTyped
    <2>3. ASSUME NEW i \in Ids, NEW j \in Ids, rows[i].by # j, rows'[i].by = j, rows'[j].there
          PROVE  Fact[rows[i].text] \in decided \cup edited \cup {Fact[rows'[j].text]}
        <3>1. i = a.old /\ rows'[i] = Superseded(rows[i], a.new)
            BY <1>1, <2>1, <2>3
        <3>2. rows[i].there /\ j = a.new
            BY <1>1, <2>2, <2>3, <3>1, LinkWritten
        <3>3. (rows'[j].there <=> rows[j].there) /\ rows'[j].text = rows[j].text
            <4>1. CASE j = i
                <5>1. /\ Superseded(rows[i], a.new).there <=> rows[i].there
                      /\ Superseded(rows[i], a.new).text = rows[i].text
                    BY <1>1, <2>2, LinkWritten
                <5>. QED
                    BY <3>1, <4>1, <5>1
            <4>2. CASE j # i
                BY <1>1, <2>1, <3>1, <4>2
            <4>. QED
                BY <4>1, <4>2
        <3>4. a.old # 0
            BY <3>1 DEF Ids
        <3>. QED
            BY <1>3, <2>2, <2>3, <3>1, <3>2, <3>3, <3>4 DEF RetiresItsOwn, FactAt
    <2>. QED
        BY <2>3 DEF LinksOwn
<1>9. CASE Inserts(w)
    <2>1. PICK n \in Ids : n = NextId
        BY <1>9, NextIsUnused DEF Inserts, MemoryInv
    <2>2. PICK t \in Texts : t = a.text
        BY <1>3, <1>9 DEF Inserts, RequestIsTyped
    <2>3. PICK s \in {"active", "held"} :
            rows' = [j \in Ids |-> IF j = n THEN NewRow(t, s)
                                   ELSE IF j = a.old /\ a.how = "post"
                                   THEN Superseded(rows[j], n) ELSE rows[j]]
        BY <1>3, <1>9, <2>1, <2>2 DEF Inserts
    <2>4. now \in Nat \ {0} /\ n \in Nat /\ n # 0 /\ a.pc = "insert"
        BY <1>3, <1>9, IdsAreFinite DEF Inserts, MemoryInv, MemoryTypes
    <2>5. NewRow(t, s).by = 0 /\ NewRow(t, s).text = t
        BY <2>4, RowMade
    <2>6. ASSUME NEW i \in Ids, NEW j \in Ids, rows[i].by # j, rows'[i].by = j, rows'[j].there
          PROVE  Fact[rows[i].text] \in decided \cup edited \cup {Fact[rows'[j].text]}
        <3>1. i # n
            <4>1. j # 0
                BY DEF Ids
            <4>. QED
                BY <2>3, <2>5, <2>6, <4>1
        <3>2. i = a.old /\ rows'[i] = Superseded(rows[i], n)
            BY <2>3, <2>6, <3>1
        <3>3. rows[i].there /\ j = n
            <4>1. Superseded(rows[i], n).by = IF rows[i].there THEN n ELSE rows[i].by
                BY <1>1, <2>4, LinkWritten
            <4>. QED
                BY <2>6, <3>2, <4>1
        <3>4. Fact[rows'[j].text] = Fact[t] /\ a.old # 0
            BY <2>3, <2>5, <3>2, <3>3 DEF Ids
        <3>. QED
            BY <1>3, <2>2, <2>4, <3>2, <3>3, <3>4 DEF RetiresItsOwn, FactAt
    <2>. QED
        BY <2>6 DEF LinksOwn
<1>10. ASSUME NEW t \in News, NEW i \in Ids, ToolChecks(w, t) \/ PostLooks(w, t) \/ PostValidates(w, t, i)
       PROVE  UNCHANGED rows
    BY <1>10 DEF ToolChecks, PostLooks, PostValidates
<1>11. InsertFails(w) => UNCHANGED rows
    BY DEF InsertFails
<1>12. ASSUME NEW t \in News, ToolChecks(w, t) \/ PostLooks(w, t)
       PROVE  UNCHANGED rows
    BY <1>12 DEF ToolChecks, PostLooks
<1>. QED
    BY <1>2, <1>5, <1>6, <1>7, <1>8, <1>9, <1>10, <1>11, <1>12 DEF Write

LEMMA DedupLinksOwn ==
  ASSUME MemoryInv, NEW ok \in SUBSET night.ids, DedupMerges(ok)
  PROVE  LinksOwn
<1>1. \A i \in Ids :
        /\ (rows'[i].there <=> rows[i].there)
        /\ FactAt(i)' = FactAt(i) \/ {FactAt(i), FactAt(i)'} \subseteq decided
        /\ \/ rows'[i].by = rows[i].by
           \/ rows'[i].by \in Ids /\ Alike(i, rows'[i].by)
    BY DedupWrites
<1>2. ASSUME NEW i \in Ids, NEW j \in Ids, rows[i].by # j, rows'[i].by = j, rows'[j].there
      PROVE  FactAt(i) \in decided \cup edited \cup {FactAt(j)'}
    <2>1. Alike(i, j)
        BY <1>1, <1>2
    <2>2. FactAt(j)' = FactAt(j) \/ {FactAt(j), FactAt(j)'} \subseteq decided
        BY <1>1
    <2>. QED
        BY <2>1, <2>2 DEF Alike
<1>. QED
    BY <1>2 DEF LinksOwn, FactAt

LEMMA StepLinksOwn ==
  ASSUME MemoryInv, Next
  PROVE  LinksOwn
<1>1. CASE Night
    BY <1>1, NightNamesNone, NamesNoneLinks, DedupLinksOwn
<1>2. CASE Manual
    BY <1>2, ManualNamesNone, NamesNoneLinks
<1>3. CASE Tick \/ Restart
    BY <1>3, NamesNoneLinks DEF Tick, Restart, NamesNone
<1>. QED
    BY <1>1, <1>2, <1>3, WriteLinksOwn DEF Next

\* What nobody has decided about keeps a row or an archived copy, and is
\* superseded only by the same: whatever requests, users and nights do to
\* shared memory meanwhile, and over any restart (FactsAreKept).
THEOREM FactsStayKept == Spec => FactsAreKept
<1>1. Init => MemoryInv
    BY MemoryStart
<1>2. MemoryInv /\ [Next]_vars => MemoryInv'
    BY MemoryStep
<1>3. MemoryInv => NothingLost
    BY DEF MemoryInv, IsHeld, Holds, NothingLost, HasRow, Present, FactAt
<1>4. MemoryInv /\ [Next]_vars => [LinksOwn]_vars
    BY StepLinksOwn
<1>5. MemoryInv' => NothingLost'
    BY <1>3, PTL
<1>6. MemoryInv /\ [Next]_vars => [NothingLost']_vars
    BY <1>2, <1>5
<1>7. LinksJoinOneFact <=> [][LinksOwn]_vars
    BY PTL DEF LinksJoinOneFact, LinksOwn
<1>. QED
    BY <1>1, <1>2, <1>4, <1>6, <1>7, PTL DEF Spec, FactsAreKept, NothingIsLost

(***************************************************************************)
(* A quiet night.  The janitor goes through the rows in their order, and a *)
(* row stays unless one that stays precedes it and is close: that such a   *)
(* choice exists is shown by adding one row after the other.               *)
(***************************************************************************)
LEMMA ChoiceExists ==
  ASSUME NEW S, IsFiniteSet(S),
         NEW before \in [S -> SUBSET S], NEW rivals \in [S -> SUBSET S],
         \A i \in S : i \notin before[i] /\ rivals[i] \subseteq before[i],
         \A i, k \in S : k \in before[i] => before[k] \subseteq before[i]
  PROVE  \E K \in SUBSET S : \A j \in S : j \in K <=> K \cap rivals[j] = {}
<1> DEFINE Chosen(D, K) == \A j \in D : j \in K <=> K \cap rivals[j] = {}
           Done(D) == (\A j \in D : before[j] \subseteq D) /\ \E K \in SUBSET D : Chosen(D, K)
           Open == {S \ D : D \in {D \in SUBSET S : Done(D)}}
<1>1. Done({})
    OBVIOUS
<1>2. Open \subseteq FiniteSubsetsOf(S) /\ Open # {}
    <2>1. Open \subseteq SUBSET S
        OBVIOUS
    <2>2. S \ {} \in Open
        BY <1>1
    <2> HIDE DEF Open
    <2>. QED
        BY <2>1, <2>2, FS_FiniteSubsetsOfFinite
<1>3. PICK T \in Open : \A U \in Open : ~(<<U, T>> \in StrictSubsetOrdering(S))
    <2> HIDE DEF Open
    <2>1. IsWellFoundedOn(StrictSubsetOrdering(S), FiniteSubsetsOf(S))
        BY FS_StrictSubsetOrderingWellFounded
    <2>. QED
        BY <1>2, <2>1, WFMin
<1>4. PICK D \in SUBSET S : Done(D) /\ T = S \ D
    OBVIOUS
<1>5. PICK K \in SUBSET D : Chosen(D, K)
    BY <1>4
<1>6. ASSUME T # {} PROVE FALSE
    <2> DEFINE first == [i \in T |-> before[i] \cap T]
    <2>1. IsFiniteSet(T) /\ T \subseteq S
        BY <1>4, FS_Subset
    <2>2. /\ first \in [T -> SUBSET T]
          /\ \A i \in T : i \notin first[i]
          /\ \A i, k \in T : k \in first[i] => first[k] \subseteq first[i]
        BY <2>1
    <2>3. PICK x \in T : first[x] = {}
        <3> HIDE DEF first
        <3>. QED
            BY <1>6, <2>1, <2>2, FirstOfAll
    <2>4. x \in S /\ x \notin D /\ before[x] \subseteq D
        BY <1>4, <2>3
    <2> DEFINE E == D \cup {x}
               J == IF K \cap rivals[x] = {} THEN K \cup {x} ELSE K
    <2>5. \A j \in E : rivals[j] \subseteq D /\ before[j] \subseteq D
        BY <1>4, <2>4
    <2>6. J \in SUBSET E /\ \A j \in E : J \cap rivals[j] = K \cap rivals[j]
        BY <2>4, <2>5
    <2>7. Chosen(E, J)
        BY <1>5, <2>4, <2>6
    <2>8. Done(E) /\ E \in SUBSET S
        <3> HIDE DEF Chosen, J, E
        <3>. QED
            BY <2>4, <2>5, <2>6, <2>7 DEF E
    <2>9. S \ E \in Open
        <3> HIDE DEF Done, E
        <3>. QED
            BY <2>8
    <2>10. S \ E \subseteq T /\ S \ E # T
        BY <1>4, <2>3
    <2>11. <<S \ E, T>> \in StrictSubsetOrdering(S)
        BY <2>1, <2>10 DEF StrictSubsetOrdering
    <2>. QED
        <3> HIDE DEF Open, E
        <3>. QED
            BY <1>3, <2>9, <2>11
<1>7. D = S
    BY <1>4, <1>6
<1>. QED
    BY <1>5, <1>7

\* What stands for a row, and what is close.
StandsFor(i) == IF vec[i] # NoText THEN vec[i] ELSE rows[i].text
CloseTo(i, j) == Cosine[StandsFor(i)][StandsFor(j)] >= StrictCosine

LEMMA RowsAreRanked ==
  ASSUME MemoryInv
  PROVE  /\ \A i \in Ids : ~Precedes(i, i)
         /\ \A i, j, k \in Ids : Precedes(i, j) /\ Precedes(j, k) => Precedes(i, k)
         /\ \A i, j \in Ids : i # j => Precedes(i, j) \/ Precedes(j, i)
<1>1. \A i \in Ids : rows[i].created \in Nat /\ rows[i].updated \in Nat /\ i \in Nat
    BY IdsAreFinite DEF MemoryInv, MemoryTypes, SharedRow
<1>. QED
    BY <1>1 DEF Precedes

LEMMA SurvivorsAreChosen ==
  ASSUME MemoryInv, NEW S \in SUBSET Ids
  PROVE  /\ Survivors(S) \subseteq S
         /\ \A j \in S : j \in Survivors(S) <=>
                           ~ \E i \in Survivors(S) : Precedes(i, j) /\ CloseTo(i, j)
<1> DEFINE before == [j \in S |-> {i \in S : Precedes(i, j)}]
           rivals == [j \in S |-> {i \in S : Precedes(i, j) /\ CloseTo(i, j)}]
<1>1. IsFiniteSet(S)
    BY IdsAreFinite, FS_Subset
<1>2. /\ before \in [S -> SUBSET S] /\ rivals \in [S -> SUBSET S]
      /\ \A i \in S : i \notin before[i] /\ rivals[i] \subseteq before[i]
      /\ \A i, k \in S : k \in before[i] => before[k] \subseteq before[i]
    BY RowsAreRanked
<1>3. \E K \in SUBSET S : \A j \in S : j \in K <=> K \cap rivals[j] = {}
    <2> HIDE DEF before, rivals
    <2>. QED
        BY <1>1, <1>2, ChoiceExists
<1>4. \E K \in SUBSET S : \A j \in S : j \in K <=> ~ \E i \in K : Precedes(i, j) /\ CloseTo(i, j)
    <2>1. PICK K \in SUBSET S : \A j \in S : j \in K <=> K \cap rivals[j] = {}
        BY <1>3
    <2>2. \A j \in S : K \cap rivals[j] = {} <=> ~ \E i \in K : Precedes(i, j) /\ CloseTo(i, j)
        OBVIOUS
    <2>. QED
        BY <2>1, <2>2
<1>5. Survivors(S) = CHOOSE K \in SUBSET S :
          \A j \in S : j \in K <=> ~ \E i \in K : Precedes(i, j) /\ CloseTo(i, j)
    BY DEF Survivors, CloseTo, StandsFor
<1>. QED
    BY <1>4, <1>5

(***************************************************************************)
(* What is known at each step of a night that nobody has disturbed.        *)
(***************************************************************************)
Apart(S) == \A i, j \in {k \in S : vec[k] # NoText} : i # j => Cosine[vec[i]][vec[j]] < StrictCosine

\* The rows that the janitor compared.
Swept(S) == {i \in S : Young(i, night.swept)}

\* The live row of a fact that was created last.
Leads(m, f) == /\ Live(m) /\ FactAt(m) = f
               /\ \A j \in Present \ {m} : rows[j].created >= rows[m].created => FactAt(j) # f
Led == Fresh /\ \A f \in night.before : \E m \in Ids : Leads(m, f)
Orderly == night.fresh /\ night.inOrder

QuietInv ==
  night.quiet =>
    /\ night.pc = "dedup" =>
         /\ night.ids = {i \in Ids : Live(i)} /\ \A i \in Ids : night.text[i] = rows[i].text
         /\ Orderly => InOrder
    /\ night.pc \in {"dedup", "expire", "janitor"} /\ Orderly => Led
    /\ night.pc = "archive" =>
         /\ Apart(Swept(Present \ night.ids))
         /\ Orderly => \A f \in night.before : \E m \in Ids \ night.ids : Live(m) /\ FactAt(m) = f
    /\ night.pc = "over" => Apart(Swept(Present)) /\ (Orderly => night.before \subseteq LiveFacts)

LEMMA QuietIsLost ==
  ASSUME MemoryInv, Unquiet
  PROVE  QuietInv'
<1>1. PICK n \in Nights : n = night
    BY DEF MemoryInv, NightTypes
<1>2. ~night'.quiet
    BY <1>1 DEF Unquiet, Nights
<1>. QED
    BY <1>2 DEF QuietInv

LEMMA QuietAsBefore ==
  ASSUME QuietInv, UNCHANGED <<rows, vec, night>>
  PROVE  QuietInv'
<1>1. /\ LiveFacts' = LiveFacts /\ Present' = Present /\ Fresh' = Fresh /\ InOrder' = InOrder
      /\ \A i \in Ids : (Live(i)' <=> Live(i)) /\ FactAt(i)' = FactAt(i)
    BY DEF LiveFacts, Present, Fresh, InOrder, Live, Current, FactAt
<1>2. /\ Swept(Present \ night.ids)' = Swept(Present \ night.ids)
      /\ Swept(Present)' = Swept(Present)
    BY DEF Present, Swept, Young
<1>3. /\ Apart(Swept(Present \ night.ids))' <=> Apart(Swept(Present \ night.ids))
      /\ Apart(Swept(Present))' <=> Apart(Swept(Present))
    BY <1>2 DEF Apart
<1>4. \A m \in Ids : \A f : Leads(m, f)' <=> Leads(m, f)
    BY DEF Leads, Present, Live, Current, FactAt
<1>5. Led' <=> Led
    BY <1>1, <1>4 DEF Led
<1>. QED
    BY <1>1, <1>3, <1>5 DEF QuietInv, Orderly

\* Whoever is not the night ends the quiet, or changes nothing it is about.
LEMMA OthersDisturb ==
  ASSUME MemoryInv, QuietInv, [Next]_vars, ~Night
  PROVE  QuietInv'
<1>1. CASE Manual
    <2>1. Unquiet
        BY <1>1 DEF Manual, Deletes, Lapses, Patches, SetsStatus, Restores
    <2>. QED
        BY <2>1, QuietIsLost
<1>2. CASE Tick
    BY <1>2, QuietAsBefore DEF Tick
<1>3. CASE Restart
    BY <1>3 DEF Restart, Off, QuietInv
<1>4. ASSUME NEW w \in Writers, Write(w) PROVE QuietInv'
    <2>1. \/ Unquiet
          \/ UNCHANGED <<rows, vec, night>>
        BY <1>4 DEF Write, ToolChecks, PostLooks, PostValidates, PostMergesWords, PostMerges,
                    Inserts, InsertFails, Relates, Links
    <2>. QED
        BY <2>1, QuietIsLost, QuietAsBefore
<1>5. CASE UNCHANGED vars
    BY <1>5, QuietAsBefore DEF vars
<1>. QED
    BY <1>1, <1>2, <1>3, <1>4, <1>5 DEF Next

LEMMA PruningIsQuiet ==
  ASSUME MemoryInv, NightBegins \/ PruneObeys \/ \E i \in Ids : PruneAsks(i)
  PROVE  QuietInv'
<1>1. PICK n \in Nights : n = night
    BY DEF MemoryInv, NightTypes
<1>2. night'.pc \in {"prune", "verdict"}
    <2>1. CASE NightBegins
        BY <2>1 DEF NightBegins, Off
    <2>2. CASE PruneObeys
        BY <1>1, <2>2 DEF PruneObeys, Nights
    <2>3. CASE \E i \in Ids : PruneAsks(i)
        BY <1>1, <2>3 DEF PruneAsks, Nights
    <2>. QED
        BY <2>1, <2>2, <2>3
<1>. QED
    BY <1>2 DEF QuietInv

\* In order, every live fact has a row that was created last.
LEMMA FactsAreLed ==
  ASSUME MemoryInv, InOrder, NEW f \in LiveFacts
  PROVE  \E m \in Ids : Leads(m, f)
<1> DEFINE S == {i \in Ids : Live(i) /\ FactAt(i) = f}
           before == [i \in S |-> {j \in S : rows[j].created > rows[i].created}]
<1>1. \A i \in Ids : rows[i].created \in Nat /\ rows[i].updated \in Nat
    BY DEF MemoryInv, MemoryTypes, SharedRow
<1>2. IsFiniteSet(S) /\ S # {}
    <2>1. S # {}
        BY DEF LiveFacts, FactAt
    <2>. QED
        BY <2>1, IdsAreFinite, FS_Subset
<1>3. /\ before \in [S -> SUBSET S]
      /\ \A i \in S : i \notin before[i]
      /\ \A i, k \in S : k \in before[i] => before[k] \subseteq before[i]
    BY <1>1
<1>4. PICK m \in S : before[m] = {}
    <2> HIDE DEF S, before
    <2>. QED
        BY <1>2, <1>3, FirstOfAll
<1>5. m \in Present /\ Live(m) /\ FactAt(m) = f /\ \A j \in S : rows[j].created <= rows[m].created
    <2>1. m \in Ids /\ Live(m) /\ FactAt(m) = f
        OBVIOUS
    <2>2. m \in Present
        BY <2>1 DEF Live, Current, Present
    <2>3. ASSUME NEW j \in S PROVE rows[j].created <= rows[m].created
        <3>1. j \notin before[m] /\ j \in Ids
            BY <1>4
        <3>2. ~(rows[j].created > rows[m].created)
            BY <3>1
        <3>. QED
            BY <1>1, <2>1, <3>1, <3>2
    <2>. QED
        BY <2>1, <2>2, <2>3
<1>6. ASSUME NEW j \in Present \ {m}, rows[j].created >= rows[m].created, FactAt(j) = f PROVE FALSE
    <2>1. j \in Ids /\ Live(j) /\ rows[j].updated > rows[m].updated
        BY <1>5, <1>6 DEF InOrder, Present
    <2>2. rows[j].created <= rows[m].created
        BY <1>5, <1>6, <2>1
    <2>3. rows[m].created >= rows[j].created
        BY <1>1, <2>1, <2>2
    <2>4. rows[m].updated > rows[j].updated
        BY <1>5, <1>6, <2>1, <2>3 DEF InOrder
    <2>. QED
        BY <1>1, <2>1, <2>4
<1>. QED
    BY <1>5, <1>6 DEF Leads

LEMMA DedupReadsQuietly ==
  ASSUME MemoryInv, DedupReads
  PROVE  QuietInv'
<1>1. /\ night'.pc = "dedup" /\ night'.ids = {i \in Ids : Live(i)}
      /\ night'.text = [i \in Ids |-> rows[i].text] /\ night'.before = LiveFacts
      /\ night'.inOrder = InOrder /\ night'.fresh = Fresh
    BY DEF DedupReads, Off
<1>2. UNCHANGED <<rows, vec>>
    BY DEF DedupReads
<1>3. Orderly' => InOrder /\ Fresh
    BY <1>1 DEF Orderly
<1>4. Orderly' => Fresh /\ \A f \in LiveFacts : \E m \in Ids : Leads(m, f)
    BY <1>3, FactsAreLed
<1>5. /\ Fresh' = Fresh /\ InOrder' = InOrder
      /\ \A i \in Ids : (Live(i)' <=> Live(i))
      /\ \A i \in Ids : \A f : Leads(i, f)' <=> Leads(i, f)
    BY <1>2 DEF Leads, Present, Fresh, InOrder, Live, Current, FactAt
<1>6. {i \in Ids : Live(i)'} = {i \in Ids : Live(i)}
    BY <1>5
<1>7. \A i \in Ids : night'.text[i] = rows'[i].text
    BY <1>1, <1>2
<1>8. Orderly' => Led'
    BY <1>1, <1>4, <1>5 DEF Led
<1>. QED
    BY <1>1, <1>3, <1>5, <1>6, <1>7, <1>8 DEF QuietInv

\* What a quiet merge does: the facts stay where they are, and the leading
\* row of a fact wins its cluster.
LEMMA DedupKeepsFacts ==
  ASSUME MemoryInv, QuietInv, night.quiet, NEW ok \in SUBSET night.ids, DedupMerges(ok)
  PROVE  /\ \A i \in Ids : /\ rows'[i].created = rows[i].created
                           /\ (rows'[i].there <=> rows[i].there)
                           /\ rows[i].there => FactAt(i)' = FactAt(i)
         /\ Orderly => \A m \in Ids : \A f : Leads(m, f) => Live(m)'
<1> DEFINE merged == Clustered(ok)
           Merged(i) == CHOOSE C \in merged : i \in C
<1>1. night.pc = "dedup" /\ now \in Nat
    BY DEF DedupMerges, MemoryInv, MemoryTypes
<1>2. PICK longest \in [merged -> Texts] :
        /\ \A C \in merged : longest[C] \in {rows[i].text : i \in C}
        /\ rows' = [i \in Ids |->
                       IF i \notin UNION merged THEN rows[i]
                       ELSE IF i = Winner(Merged(i))
                       THEN WithText(rows[i], longest[Merged(i)])
                       ELSE Superseded(rows[i], Winner(Merged(i)))]
    BY DEF DedupMerges, Clustered, WithText
<1>3. /\ ok \subseteq {i \in Ids : Live(i)} /\ \A i \in Ids : night.text[i] = rows[i].text
      /\ Orderly => InOrder
    BY <1>1 DEF QuietInv
<1>4. ASSUME NEW C \in merged
      PROVE  /\ C \subseteq ok /\ C \subseteq Ids /\ Winner(C) \in C
             /\ \A i, j \in C : FactAt(i) = FactAt(j)
    <2>1. C \subseteq Ids /\ C # {}
        BY <1>1, ClusteredAreAlike
    <2>2. Winner(C) \in C
        BY <2>1, WinnerIsOne
    <2>3. PICK D \in Clusters(ok) : C = D \cap Present
        BY DEF Clustered
    <2>4. C \subseteq ok /\ \A i, j \in C : Fact[night.text[i]] = Fact[night.text[j]]
        BY <1>1, <2>3, ClustersSayOne
    <2>5. \A i \in C : night.text[i] = rows[i].text
        BY <1>3, <2>1
    <2>. QED
        BY <2>1, <2>2, <2>4, <2>5 DEF FactAt
<1>5. \A i \in UNION merged : Merged(i) \in merged /\ i \in Merged(i)
    OBVIOUS
<1> HIDE DEF merged, Merged
<1>6. ASSUME NEW i \in Ids
      PROVE  /\ rows'[i].created = rows[i].created
             /\ (rows'[i].there <=> rows[i].there)
             /\ rows[i].there => FactAt(i)' = FactAt(i)
             /\ Live(i) /\ (i \in UNION merged => i = Winner(Merged(i))) => Live(i)'
    <2>1. PICK r \in SharedRow : r = rows[i]
        BY DEF MemoryInv, MemoryTypes
    <2>2. CASE i \notin UNION merged
        <3>1. rows'[i] = rows[i]
            BY <1>2, <2>2
        <3>. QED
            BY <3>1 DEF FactAt, Live, Current
    <2>3. CASE i \in UNION merged /\ i = Winner(Merged(i))
        <3>1. PICK C \in merged : C = Merged(i) /\ i \in C
            BY <1>5, <2>3
        <3>2. PICK t \in Texts : t = longest[C]
            BY <1>2
        <3>3. PICK k \in C : t = rows[k].text
            BY <1>2, <3>2
        <3>4. rows'[i] = WithText(r, t)
            BY <1>2, <2>1, <2>3, <3>1, <3>2
        <3>5. r.there
            BY <1>3, <1>4, <2>1, <3>1 DEF Live, Current
        <3>6. /\ WithText(r, t).created = r.created /\ WithText(r, t).by = r.by
              /\ (WithText(r, t).there <=> r.there) /\ (WithText(r, t).lapsed <=> r.lapsed)
              /\ WithText(r, t).text = t /\ WithText(r, t).status = r.status
            BY <1>1, <3>5, TextWritten DEF WithText, Updated, SharedRow
        <3>7. FactAt(i)' = FactAt(i)
            BY <1>4, <3>1, <3>3, <3>4, <3>6 DEF FactAt
        <3>. QED
            BY <2>1, <3>4, <3>6, <3>7 DEF Live, Current
    <2>4. CASE i \in UNION merged /\ i # Winner(Merged(i))
        <3>1. PICK C \in merged : C = Merged(i) /\ i \in C
            BY <1>5, <2>4
        <3>2. PICK j \in C : j = Winner(C)
            BY <1>4
        <3>3. rows'[i] = Superseded(r, j) /\ j \in Ids /\ j \in Nat
            BY <1>2, <1>4, <2>1, <2>4, <3>1, <3>2, IdsAreFinite
        <3>4. r.there
            BY <1>3, <1>4, <2>1, <3>1 DEF Live, Current
        <3>5. /\ Superseded(r, j).created = r.created
              /\ (Superseded(r, j).there <=> r.there) /\ Superseded(r, j).text = r.text
            BY <1>1, <3>3, <3>4, LinkWritten
        <3>. QED
            BY <2>1, <2>4, <3>3, <3>5 DEF FactAt
    <2>. QED
        BY <2>2, <2>3, <2>4
<1>7. ASSUME Orderly, NEW m \in Ids, NEW f, Leads(m, f), m \in UNION merged PROVE m = Winner(Merged(m))
    <2>1. PICK C \in merged : C = Merged(m) /\ m \in C
        BY <1>5, <1>7
    <2>2. \A i \in Ids : rows[i].created \in Nat /\ rows[i].updated \in Nat /\ i \in Nat
        BY IdsAreFinite DEF MemoryInv, MemoryTypes, SharedRow
    <2>3. ASSUME NEW j \in C, j # m PROVE rows[j].updated < rows[m].updated
        <3>1. j \in Ids /\ Live(j) /\ FactAt(j) = f /\ j \in Present /\ m \in Present /\ Live(m)
            BY <1>3, <1>4, <1>7, <2>1 DEF Leads, Live, Current, Present
        <3>2. rows[m].created >= rows[j].created
            BY <1>7, <2>2, <2>3, <3>1 DEF Leads
        <3>. QED
            BY <1>3, <1>7, <2>2, <2>3, <3>1, <3>2 DEF InOrder
    <2>4. C \subseteq Ids
        BY <1>4
    <2>5. PICK w \in C : w = Winner(C)
        BY <1>4
    <2>6. \A j \in C \ {w} : \/ rows[j].updated < rows[w].updated
                             \/ rows[j].updated = rows[w].updated /\ w < j
        <3>1. \A j \in C \ {m} : \/ rows[j].updated < rows[m].updated
                                 \/ rows[j].updated = rows[m].updated /\ m < j
            BY <2>3
        <3>. QED
            BY <2>1, <2>5, <3>1 DEF Winner
    <2>7. w = m
        BY <2>1, <2>2, <2>3, <2>4, <2>6
    <2>. QED
        BY <2>1, <2>5, <2>7
<1>. QED
    BY <1>6, <1>7 DEF Leads

\* Rows may go, and lose their text's wording: who led a fact leads it still.
LEMMA LeadersStay ==
  ASSUME Led, vec' = vec, night'.before = night.before,
         \A i \in Ids : /\ rows'[i].created = rows[i].created
                        /\ (rows'[i].there <=> rows[i].there)
                        /\ rows[i].there => FactAt(i)' = FactAt(i),
         \A m \in Ids : \A f : Leads(m, f) => Live(m)'
  PROVE  Led'
<1>1. Present' = Present
    BY DEF Present
<1>2. Fresh'
    BY <1>1 DEF Led, Fresh, FactAt, Present
<1>3. ASSUME NEW m \in Ids, NEW f, Leads(m, f) PROVE Leads(m, f)'
    <2>1. rows[m].there
        BY <1>3 DEF Leads, Live, Current
    <2>. QED
        BY <1>1, <1>3, <2>1 DEF Leads, Present
<1>. QED
    BY <1>2, <1>3 DEF Led

LEMMA DedupMergesQuietly ==
  ASSUME MemoryInv, QuietInv, NEW ok \in SUBSET night.ids, DedupMerges(ok)
  PROVE  QuietInv'
<1>1. PICK n \in Nights : n = night
    BY DEF MemoryInv, NightTypes
<1>2. /\ night'.pc = "expire" /\ night'.before = night.before /\ (night'.quiet <=> night.quiet)
      /\ (night'.fresh <=> night.fresh) /\ (night'.inOrder <=> night.inOrder)
    BY <1>1 DEF DedupMerges, Nights
<1>3. night.pc = "dedup" /\ vec' = vec
    BY DEF DedupMerges
<1>4. ASSUME night.quiet, Orderly PROVE Led'
    <2>1. Led
        BY <1>3, <1>4 DEF QuietInv
    <2>. QED
        BY <1>2, <1>3, <1>4, <2>1, DedupKeepsFacts, LeadersStay
<1>. QED
    BY <1>2, <1>4 DEF QuietInv, Orderly

LEMMA MarksExpiredQuietly ==
  ASSUME MemoryInv, QuietInv, MarksExpired
  PROVE  QuietInv'
<1>1. PICK n \in Nights : n = night
    BY DEF MemoryInv, NightTypes
<1>2. /\ night'.pc = "janitor" /\ night'.before = night.before /\ (night'.quiet <=> night.quiet)
      /\ (night'.fresh <=> night.fresh) /\ (night'.inOrder <=> night.inOrder)
    BY <1>1 DEF MarksExpired, Nights
<1>3. night.pc = "expire" /\ vec' = vec
    BY DEF MarksExpired
<1>4. ASSUME NEW i \in Ids
      PROVE  /\ rows'[i].created = rows[i].created
             /\ (rows'[i].there <=> rows[i].there)
             /\ rows[i].there => FactAt(i)' = FactAt(i)
             /\ Live(i) => Live(i)'
    <2>1. PICK r \in SharedRow : r = rows[i]
        BY DEF MemoryInv, MemoryTypes
    <2>2. Expired \in Nat /\ now \in Nat
        BY MemoryAssumption DEF Expired, MemoryInv, MemoryTypes
    <2>3. CASE ~(r.lapsed /\ r.by = 0)
        <3>1. rows'[i] = rows[i]
            BY <2>1, <2>3 DEF MarksExpired
        <3>. QED
            BY <3>1 DEF FactAt, Live, Current
    <2>4. CASE r.lapsed /\ r.by = 0
        <3>1. rows'[i] = Superseded(r, Expired)
            BY <2>1, <2>4 DEF MarksExpired
        <3>2. /\ Superseded(r, Expired).created = r.created /\ (Superseded(r, Expired).there <=> r.there)
              /\ r.there => Superseded(r, Expired).text = r.text
            BY <2>2 DEF Superseded, Updated, SharedRow
        <3>. QED
            BY <2>1, <2>4, <3>1, <3>2 DEF FactAt, Live, Current
    <2>. QED
        BY <2>3, <2>4
<1>5. ASSUME night.quiet, Orderly PROVE Led'
    <2>1. Led
        BY <1>3, <1>5 DEF QuietInv
    <2>. QED
        BY <1>2, <1>3, <1>4, <2>1, LeadersStay DEF Leads
<1>. QED
    BY <1>2, <1>5 DEF QuietInv, Orderly

\* Of the rows the janitor compares, those that survive are apart ...
LEMMA SurvivorsAreApart ==
  ASSUME MemoryInv, NEW S \in SUBSET Present
  PROVE  Apart(Survivors(S))
<1>1. S \subseteq Ids
    BY DEF Present
<1>2. ASSUME NEW i \in Survivors(S), NEW j \in Survivors(S), vec[i] # NoText, vec[j] # NoText,
             Precedes(i, j)
      PROVE  /\ Cosine[vec[i]][vec[j]] < StrictCosine
             /\ Cosine[vec[j]][vec[i]] < StrictCosine
    <2>1. ~CloseTo(i, j) /\ i \in Ids /\ j \in Ids
        BY <1>1, <1>2, SurvivorsAreChosen
    <2>2. vec[i] \in Texts /\ vec[j] \in Texts
        BY <1>2, <2>1 DEF MemoryInv, MemoryTypes
    <2>3. Cosine[vec[i]][vec[j]] \in Nat /\ Cosine[vec[j]][vec[i]] = Cosine[vec[i]][vec[j]]
        BY <2>2, MemoryAssumption, SimilarSaySame
    <2>4. ~(Cosine[vec[i]][vec[j]] >= StrictCosine)
        BY <1>2, <2>1 DEF CloseTo, StandsFor
    <2>. QED
        BY <2>3, <2>4 DEF StrictCosine
<1>3. Survivors(S) \subseteq Ids
    BY <1>1, SurvivorsAreChosen
<1>. QED
    BY <1>2, <1>3, RowsAreRanked DEF Apart

\* ... and among them is the leading row of each fact.
LEMMA LeadersSurvive ==
  ASSUME MemoryInv, Led, NEW S \in SUBSET Present, NEW m \in S, NEW f, Leads(m, f)
  PROVE  m \in Survivors(S)
<1>1. SUFFICES ASSUME NEW i \in Survivors(S), Precedes(i, m), CloseTo(i, m) PROVE FALSE
    BY SurvivorsAreChosen DEF Present
<1>2. i \in Present /\ m \in Present /\ i \in Ids /\ m \in Ids /\ i # m
    BY <1>1, SurvivorsAreChosen, RowsAreRanked DEF Present
<1>3. rows[i].created >= rows[m].created
    <2>1. rows[i].created \in Nat /\ rows[m].created \in Nat
        BY <1>2 DEF MemoryInv, MemoryTypes, SharedRow
    <2>. QED
        BY <1>1, <2>1 DEF Precedes
<1>4. FactAt(i) # f
    BY <1>2, <1>3 DEF Leads
<1>5. \A k \in {i, m} : StandsFor(k) \in Texts /\ Fact[StandsFor(k)] = FactAt(k)
    <2>1. ASSUME NEW k \in {i, m} PROVE StandsFor(k) \in Texts /\ Fact[StandsFor(k)] = FactAt(k)
        <3>1. k \in Present /\ k \in Ids /\ rows[k].there
            BY <1>2 DEF Present
        <3>2. CASE vec[k] = NoText
            BY <3>1, <3>2 DEF StandsFor, FactAt, MemoryInv, MemoryTypes
        <3>3. CASE vec[k] # NoText
            BY <3>1, <3>3 DEF StandsFor, FactAt, MemoryInv, MemoryTypes, Led, Fresh
        <3>. QED
            BY <3>2, <3>3
    <2>. QED
        BY <2>1
<1>6. Fact[StandsFor(i)] = Fact[StandsFor(m)]
    <2>1. Cosine[StandsFor(i)][StandsFor(m)] \in Nat /\ Cosine[StandsFor(i)][StandsFor(m)] >= 92
        BY <1>1, <1>5, MemoryAssumption DEF CloseTo, StrictCosine
    <2>2. Cosine[StandsFor(i)][StandsFor(m)] >= 85
        BY <2>1
    <2>. QED
        BY <1>5, <2>2, SimilarSaySame
<1>. QED
    BY <1>4, <1>5, <1>6 DEF Leads

LEMMA JanitorReadsQuietly ==
  ASSUME MemoryInv, QuietInv, JanitorReads
  PROVE  QuietInv'
<1> DEFINE left == {i \in Present : ~rows[i].lapsed /\ Young(i, now)}
<1>1. PICK S : /\ S \subseteq left /\ \A i \in left : vec[i] # NoText => i \in S
               /\ Takes(S \ Survivors(S))
    BY DEF JanitorReads
<1>2. PICK n \in Nights : n = night
    BY DEF MemoryInv, NightTypes
<1>3. /\ night'.pc = "archive" /\ night'.ids = S \ Survivors(S) /\ night'.before = night.before
      /\ night'.swept = now
      /\ (night'.quiet <=> night.quiet)
      /\ (night'.fresh <=> night.fresh) /\ (night'.inOrder <=> night.inOrder)
    <2> DEFINE late == S \ Survivors(S)
    <2>1. PICK text : text = [i \in Ids |-> IF i \in late THEN rows[i].text ELSE NoText]
        OBVIOUS
    <2>2. night' = [n EXCEPT !.pc = "archive", !.ids = late, !.swept = now, !.text = text]
        BY <1>1, <1>2, <2>1 DEF Takes
    <2> HIDE DEF late
    <2>3. /\ night'.pc = "archive" /\ night'.ids = late /\ night'.before = n.before
          /\ night'.swept = now
          /\ (night'.quiet <=> n.quiet) /\ (night'.fresh <=> n.fresh) /\ (night'.inOrder <=> n.inOrder)
        BY <2>2 DEF Nights
    <2>. QED
        BY <1>2, <2>3 DEF late
<1>4. night.pc = "janitor" /\ vec' = vec
    BY DEF JanitorReads
<1>5. ASSUME NEW i \in Ids
      PROVE  /\ rows[i].lapsed => ~rows'[i].there
             /\ ~rows[i].lapsed => rows'[i] = rows[i]
    <2>1. rows[i] \in SharedRow
        BY DEF MemoryInv, MemoryTypes
    <2>2. ~Gone(rows[i]).there
        BY <2>1, RowGone
    <2>. QED
        BY <2>2 DEF JanitorReads
<1>6. S \subseteq Present /\ S \subseteq Ids
    BY <1>1 DEF Present
<1>7. \A i \in Present' : Young(i, now)' => i \in left
    <2>1. ASSUME NEW i \in Present', Young(i, now)' PROVE i \in left
        <3>1. i \in Ids /\ rows'[i].there /\ rows'[i] = rows[i] /\ ~rows[i].lapsed
            BY <1>5, <2>1 DEF Present
        <3>2. now' = now
            BY DEF JanitorReads
        <3>. QED
            BY <2>1, <3>1, <3>2 DEF Present, Young
    <2>. QED
        BY <2>1
<1> HIDE DEF left
<1>8. Apart(Swept(Present \ night.ids))'
    <2>1. Apart(Survivors(S))
        BY <1>6, SurvivorsAreApart
    <2>2. now' = now
        BY DEF JanitorReads
    <2>3. \A i \in Swept(Present \ night.ids)' : vec[i] # NoText => i \in Survivors(S)
        BY <1>1, <1>3, <1>7, <2>2 DEF Swept, Young
    <2>. QED
        BY <1>4, <2>1, <2>3 DEF Apart
<1>9. ASSUME night.quiet, Orderly, NEW f \in night.before
      PROVE  \E m \in Ids \ night'.ids : Live(m)' /\ FactAt(m)' = f
    <2>1. Led
        BY <1>4, <1>9 DEF QuietInv
    <2>2. PICK m \in Ids : Leads(m, f)
        BY <1>9, <2>1 DEF Led
    <2>3. m \notin night'.ids
        BY <1>3, <1>6, <2>1, <2>2, LeadersSurvive
    <2>4. rows'[m] = rows[m]
        BY <1>5, <2>2 DEF Leads, Live, Current
    <2>5. Live(m)' /\ FactAt(m)' = f
        BY <2>2, <2>4 DEF Leads, Live, Current, FactAt
    <2>. QED
        BY <2>3, <2>5
<1>. QED
    BY <1>3, <1>8, <1>9 DEF QuietInv, Orderly

LEMMA JanitorArchivesQuietly ==
  ASSUME MemoryInv, QuietInv, JanitorArchives
  PROVE  QuietInv'
<1>1. PICK n \in Nights : n = night
    BY DEF MemoryInv, NightTypes
<1>2. /\ night'.pc = "over" /\ night'.before = night.before /\ night'.swept = night.swept /\ (night'.quiet <=> night.quiet)
      /\ (night'.fresh <=> night.fresh) /\ (night'.inOrder <=> night.inOrder)
    BY <1>1 DEF JanitorArchives, Nights
<1>3. night.pc = "archive"
    BY DEF JanitorArchives
<1>4. ASSUME NEW i \in Ids
      PROVE  /\ i \in night.ids => ~rows'[i].there
             /\ i \notin night.ids => rows'[i] = rows[i] /\ vec'[i] = vec[i]
    <2>1. rows[i] \in SharedRow
        BY DEF MemoryInv, MemoryTypes
    <2>2. ~Gone(rows[i]).there
        BY <2>1, RowGone
    <2>. QED
        BY <2>2 DEF JanitorArchives
<1>5. ASSUME night.quiet PROVE Apart(Swept(Present))'
    <2>1. Apart(Swept(Present \ night.ids))
        BY <1>3, <1>5 DEF QuietInv
    <2>2. \A i \in Swept(Present)' : i \in Swept(Present \ night.ids) /\ vec'[i] = vec[i]
        BY <1>2, <1>4 DEF Present, Swept, Young
    <2>. QED
        BY <2>1, <2>2 DEF Apart
<1>6. ASSUME night.quiet, Orderly, NEW f \in night.before PROVE f \in LiveFacts'
    <2>1. PICK m \in Ids \ night.ids : Live(m) /\ FactAt(m) = f
        BY <1>3, <1>6 DEF QuietInv
    <2>2. Live(m)' /\ Fact[rows'[m].text] = f
        BY <1>4, <2>1 DEF Live, Current, FactAt
    <2>. QED
        BY <2>1, <2>2 DEF LiveFacts
<1>. QED
    BY <1>2, <1>5, <1>6 DEF QuietInv, Orderly

LEMMA QuietStep ==
  ASSUME MemoryInv, QuietInv, [Next]_vars
  PROVE  QuietInv'
<1>1. ASSUME NEW ok \in SUBSET night.ids, DedupMerges(ok) PROVE QuietInv'
    BY <1>1, DedupMergesQuietly
<1>2. CASE Night
    BY <1>1, <1>2, PruningIsQuiet, DedupReadsQuietly, MarksExpiredQuietly, JanitorReadsQuietly,
       JanitorArchivesQuietly DEF Night
<1>. QED
    BY <1>2, OthersDisturb

\* A night that nobody disturbs leaves one fresh row of what is nearly the same,
\* and, over rows in order with embeddings of what they say, a live row of
\* each fact that had one.
THEOREM QuietNightsConverge == Spec => []QuietNightConverges
<1>1. Init => MemoryInv /\ QuietInv
    <2>1. Init => QuietInv
        BY DEF Init, Off, QuietInv
    <2>. QED
        BY <2>1, MemoryStart
<1>2. MemoryInv /\ QuietInv /\ [Next]_vars => (MemoryInv /\ QuietInv)'
    BY MemoryStep, QuietStep
<1>3. QuietInv => QuietNightConverges
    BY DEF QuietInv, QuietNightConverges, QuietNightDedups, QuietNightKeepsLive, QuietNight, Apart, Swept, Orderly
<1>. QED
    BY <1>1, <1>2, <1>3, PTL DEF Spec


(***************************************************************************)
(* The report.                                                             *)
(***************************************************************************)

(* What is kept of some parts is nothing, or all that is worth more than   *)
(* something, and fits.                                                    *)
LEMMA KeptFits ==
  ASSUME NEW parts, NEW max
  PROVE  \/ Truncated(parts, max) = {}
         \/ \E n \in 0..3 : /\ Truncated(parts, max) = {p \in parts : Priority[p.head] > n}
                            /\ Length(Truncated(parts, max)) <= max
<1> DEFINE From(n) == {p \in parts : Priority[p.head] > n}
           fits == {n \in 0..3 : Length(From(n)) <= max}
<1>1. Truncated(parts, max) = IF fits = {} THEN {} ELSE From(Min(fits))
    BY DEF Truncated
<1>2. ASSUME fits # {} PROVE Min(fits) \in fits
    <2>1. \A n \in fits : n \in 0..3
        OBVIOUS
    <2> HIDE DEF fits
    <2>2. \E n \in fits : \A m \in fits : n <= m
        <3>1. CASE 0 \in fits
            BY <2>1, <3>1
        <3>2. CASE 0 \notin fits /\ 1 \in fits
            BY <2>1, <3>2
        <3>3. CASE 0 \notin fits /\ 1 \notin fits /\ 2 \in fits
            BY <2>1, <3>3
        <3>4. CASE 0 \notin fits /\ 1 \notin fits /\ 2 \notin fits
            <4>1. \A n \in fits : n = 3
                BY <2>1, <3>4
            <4>. QED
                BY <1>2, <4>1
        <3>. QED
            BY <3>1, <3>2, <3>3, <3>4
    <2>. QED
        BY <2>2 DEF Min
<1>3. ASSUME NEW n \in fits PROVE n \in 0..3 /\ Length(From(n)) <= max
    OBVIOUS
<1>. QED
    <2>1. CASE fits = {}
        BY <1>1, <2>1
    <2>2. CASE fits # {}
        <3>1. Truncated(parts, max) = From(Min(fits)) /\ Min(fits) \in fits
            BY <1>1, <1>2, <2>2
        <3> HIDE DEF fits
        <3>. QED
            BY <1>3, <3>1
    <2>. QED
        BY <2>1, <2>2

(* Facts are kept as long as an event or a search result is.               *)
LEMMA FactsGoLast ==
  ASSUME NEW parts, NEW max, "facts" \in Heads(parts),
         {"logs", "rag"} \intersect Heads(Truncated(parts, max)) # {}
  PROVE  "facts" \in Heads(Truncated(parts, max))
<1>1. Truncated(parts, max) # {}
    BY DEF Heads
<1>2. PICK n \in 0..3 : Truncated(parts, max) = {p \in parts : Priority[p.head] > n}
    BY <1>1, KeptFits
<1>3. Priority["logs"] = 1 /\ Priority["rag"] = 2 /\ Priority["facts"] = 3
    BY DEF Priority
<1>4. PICK p \in Truncated(parts, max) : p.head = "logs" \/ p.head = "rag"
    BY DEF Heads
<1>5. n < 2
    BY <1>2, <1>3, <1>4
<1>6. PICK q \in parts : q.head = "facts"
    BY DEF Heads
<1>7. q \in Truncated(parts, max)
    BY <1>2, <1>3, <1>5, <1>6
<1>. QED
    BY <1>6, <1>7 DEF Heads

(* The text takes the heading of the section above it.                     *)
LEMMA JoiningKeepsHeads ==
  ASSUME NEW context, \A p \in context : p.head \in DOMAIN Place, NEW length,
         \A p \in context : \E h, l, t : p = [head |-> h, length |-> l, text |-> t],
         context # {}
  PROVE  Heads(Joined(context, length)) = Heads(context)
<1> DEFINE last == CHOOSE p \in context : \A q \in context : Place[q.head] <= Place[p.head]
           longer == [last EXCEPT !.length = @ + length, !.text = TRUE]
<1>1. \A p \in context : Place[p.head] \in 1..3
    BY DEF Place
<1>2. \E p \in context : \A q \in context : Place[q.head] <= Place[p.head]
    <2>1. CASE \E p \in context : Place[p.head] = 3
        BY <1>1, <2>1
    <2>2. CASE ~(\E p \in context : Place[p.head] = 3) /\ \E p \in context : Place[p.head] = 2
        BY <1>1, <2>2
    <2>3. CASE \A p \in context : Place[p.head] = 1
        BY <2>3
    <2>. QED
        BY <1>1, <2>1, <2>2, <2>3
<1>3. last \in context
    BY <1>2
<1>4. Joined(context, length) = (context \ {last}) \union {longer}
    BY DEF Joined
<1> HIDE DEF last
<1>5. longer.head = last.head
    BY <1>3
<1> HIDE DEF longer
<1>. QED
    BY <1>3, <1>4, <1>5 DEF Heads

(* What a report is made of, until it is sent.                             *)
ReportIsMade ==
  /\ report.at = "collected" =>
       \A p \in report.context :
         p.head \in DOMAIN Place /\ \E h, l, t : p = [head |-> h, length |-> l, text |-> t]
  /\ ReportFits

LEMMA SendingFits ==
  ASSUME ReportIsMade, Sends
  PROVE  ReportFits'
<1> DEFINE context == report.context
           kept == Truncated(context, ContextMax)
           joined == Joined(kept, report.length)
           cut == Truncated(joined, ReportMax)
           sent == IF context = {} THEN Alone(report.length) ELSE OrText(cut, report.length)
<1>1. /\ report.at = "collected"
      /\ \A p \in context :
            p.head \in DOMAIN Place /\ \E h, l, t : p = [head |-> h, length |-> l, text |-> t]
    BY DEF Sends, ReportIsMade
<1>2. report' = [at |-> "sent", length |-> report.length, context |-> context, sent |-> sent]
    BY DEF Sends
<1> HIDE DEF sent
<1>4. /\ report'.at = "sent" /\ report'.length = report.length
      /\ report'.context = context /\ report'.sent = sent
    BY <1>2
<1>5. Length(sent) <= ReportMax \/ sent = Alone(report.length)
    <2>1. CASE context = {} \/ cut = {}
        BY <2>1 DEF sent, OrText
    <2>2. CASE context # {} /\ cut # {}
        <3>1. sent = cut
            BY <2>2 DEF sent, OrText
        <3>2. Length(cut) <= ReportMax
            BY <2>2, KeptFits
        <3>. QED
            BY <3>1, <3>2
    <2>. QED
        BY <2>1, <2>2
<1>6. ASSUME {"logs", "rag"} \intersect Heads(sent) # {}, "facts" \in Heads(context)
      PROVE  "facts" \in Heads(sent)
    <2>1. Heads(Alone(report.length)) = {"text"}
        BY DEF Heads, Alone
    <2>2. sent # Alone(report.length)
        BY <1>6, <2>1
    <2>3. context # {} /\ cut # {} /\ sent = cut
        BY <2>2 DEF sent, OrText
    <2>4. kept # {}
        <3>1. ASSUME kept = {} PROVE FALSE
            <4>1. joined = Alone(report.length)
                BY <3>1 DEF Joined
            <4>2. \A p \in cut : p \in joined
                BY KeptFits
            <4>3. Heads(cut) \subseteq {"text"}
                BY <2>1, <4>1, <4>2 DEF Heads
            <4>. QED
                BY <1>6, <2>3, <4>3
        <3>. QED
            BY <3>1
    <2>5. kept \subseteq context
        BY KeptFits
    <2>6. Heads(joined) = Heads(kept)
        BY <1>1, <2>4, <2>5, JoiningKeepsHeads
    <2>7. Heads(cut) \subseteq Heads(joined)
        <3>1. \A p \in cut : p \in joined
            BY KeptFits
        <3>. QED
            BY <3>1 DEF Heads
    <2>8. {"logs", "rag"} \intersect Heads(kept) # {}
        BY <1>6, <2>3, <2>6, <2>7
    <2>9. "facts" \in Heads(kept)
        BY <1>6, <2>8, FactsGoLast
    <2>. QED
        BY <1>6, <2>3, <2>6, <2>9, FactsGoLast
<1>. QED
    BY <1>4, <1>5, <1>6 DEF ReportFits

(* Whatever is found of the topic and however long it is: a report within  *)
(* the limit is sent, or its text alone, and events and search results are *)
(* only sent with the facts that were there (rag/report-context.ts).       *)
THEOREM ReportsFit == ReportSpec => []ReportFits
<1>1. ReportInit => ReportIsMade
    BY DEF ReportInit, ReportIsMade, ReportFits
<1>2. ReportIsMade /\ [ReportNext]_report => ReportIsMade'
    <2> SUFFICES ASSUME ReportIsMade, [ReportNext]_report PROVE ReportIsMade'
        OBVIOUS
    <2>1. CASE Collects
        <3>1. PICK length \in 1 .. MaxLength, heads \in SUBSET DOMAIN Place :
                \E size \in [heads -> 1 .. MaxLength] :
                  report' = [at |-> "collected", length |-> length,
                             context |-> {[head |-> h, length |-> size[h], text |-> FALSE] : h \in heads}]
            BY <2>1 DEF Collects
        <3>2. PICK size \in [heads -> 1 .. MaxLength] :
                report' = [at |-> "collected", length |-> length,
                           context |-> {[head |-> h, length |-> size[h], text |-> FALSE] : h \in heads}]
            BY <3>1
        <3> DEFINE found == {[head |-> h, length |-> size[h], text |-> FALSE] : h \in heads}
        <3>3. \A p \in found : /\ p.head \in DOMAIN Place
                               /\ \E h, l, t : p = [head |-> h, length |-> l, text |-> t]
            OBVIOUS
        <3> HIDE DEF found
        <3>4. report' = [at |-> "collected", length |-> length, context |-> found]
            BY <3>2 DEF found
        <3>5. report'.at = "collected" /\ report'.context = found /\ report'.length = length
            BY <3>4
        <3>. QED
            BY <3>3, <3>4, <3>5 DEF ReportIsMade, ReportFits
    <2>2. CASE Sends
        <3>1. ReportFits'
            BY <2>2, SendingFits
        <3>2. report'.at = "sent"
            BY <2>2 DEF Sends
        <3>. QED
            BY <3>1, <3>2 DEF ReportIsMade
    <2>3. CASE NextReport
        <3>1. report' = [at |-> "idle"] /\ report'.at = "idle"
            BY <2>3 DEF NextReport
        <3>. QED
            BY <3>1 DEF ReportIsMade, ReportFits
    <2>4. CASE UNCHANGED report
        BY <2>4 DEF ReportIsMade, ReportFits
    <2>. QED
        BY <2>1, <2>2, <2>3, <2>4 DEF ReportNext
<1>3. ReportIsMade => ReportFits
    BY DEF ReportIsMade
<1>. QED
    BY <1>1, <1>2, <1>3, PTL DEF ReportSpec

=============================================================================
