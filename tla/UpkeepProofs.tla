---------------------------- MODULE UpkeepProofs ----------------------------
(***************************************************************************)
(* Proofs about the upkeep of the night, for any caps, ages and numbers of *)
(* rows: the window of embeddings over the log, the pruning of the focus    *)
(* and context tables, facts across the memory tables, and the board of     *)
(* tasks.                                                                  *)
(***************************************************************************)
EXTENDS LogWindow, FocusPrune, ContextPrune, MemoryLayers, TaskBoard, FiniteSetTheorems, TLAPS

(***************************************************************************)
(* How many ids a window takes.                                            *)
(***************************************************************************)

(* Counting: an interval, what is left of a set and two sets put together. *)
LEMMA CountUpTo ==
  ASSUME NEW m \in Nat
  PROVE  IsFiniteSet(1..m) /\ Cardinality(1..m) = m
<1>1. Cardinality(1..m) = IF 1 > m THEN 0 ELSE m - 1 + 1
    BY FS_Interval
<1>2. CASE m = 0
    BY <1>1, <1>2, FS_Interval
<1>3. CASE m # 0
    <2>1. ~(1 > m) /\ m - 1 + 1 = m
        BY <1>3
    <2>. QED
        BY <1>1, <2>1, FS_Interval
<1>. QED
    BY <1>2, <1>3

LEMMA CountWithout ==
  ASSUME NEW S, IsFiniteSet(S), NEW T \in SUBSET S
  PROVE  /\ IsFiniteSet(S \ T)
         /\ Cardinality(S) \in Nat /\ Cardinality(T) \in Nat /\ Cardinality(S \ T) \in Nat
         /\ Cardinality(S \ T) = Cardinality(S) - Cardinality(T)
<1>1. S \cap T = T
    OBVIOUS
<1>2. Cardinality(S \ T) = Cardinality(S) - Cardinality(S \cap T) /\ IsFiniteSet(S \ T)
    BY FS_Difference
<1>3. IsFiniteSet(T)
    BY FS_Subset
<1>4. Cardinality(S \ T) = Cardinality(S) - Cardinality(T)
    BY <1>1, <1>2
<1>5. Cardinality(S) \in Nat /\ Cardinality(T) \in Nat /\ Cardinality(S \ T) \in Nat
    BY <1>2, <1>3, FS_CardinalityType
<1>. QED
    BY <1>2, <1>4, <1>5

LEMMA CountBeside ==
  ASSUME NEW S, IsFiniteSet(S), NEW T, IsFiniteSet(T), S \cap T = {}
  PROVE  /\ IsFiniteSet(S \union T)
         /\ Cardinality(S \union T) = Cardinality(S) + Cardinality(T)
<1>1. /\ Cardinality(S \union T) = Cardinality(S) + Cardinality(T) - Cardinality(S \cap T)
      /\ IsFiniteSet(S \union T)
    BY FS_Union
<1>2. Cardinality(S \cap T) = 0
    BY FS_EmptySet
<1>3. Cardinality(S) \in Nat /\ Cardinality(T) \in Nat
    BY FS_CardinalityType
<1>4. Cardinality(S \union T) = Cardinality(S) + Cardinality(T) - 0
    BY <1>1, <1>2
<1>. QED
    BY <1>1, <1>3, <1>4

(* A ranking without gaps: as many members have a rank below n as n says.  *)
LEMMA RankedBelow ==
  ASSUME NEW S, IsFiniteSet(S), NEW n \in 0..Cardinality(S),
         NEW rank \in Injection(S, 0..Cardinality(S) - 1)
  PROVE  /\ IsFiniteSet({i \in S : rank[i] < n})
         /\ Cardinality({i \in S : rank[i] < n}) = n
<1> DEFINE c == Cardinality(S)
           B == {i \in S : rank[i] < n}
<1>1. c \in Nat
    BY FS_CardinalityType
<1>2. IsFiniteSet(0..c-1) /\ Cardinality(0..c-1) = c
    BY <1>1, FS_Interval
<1>3. rank \in Surjection(S, 0..c-1)
    BY <1>2, FS_Injection
<1>4. IsFiniteSet(B)
    BY FS_Subset
<1> DEFINE low == [i \in B |-> rank[i]]
<1>5. low \in Injection(B, 0..n-1)
    BY <1>1 DEF Injection, IsInjective
<1>6. low \in Surjection(B, 0..n-1)
    <2>1. low \in [B -> 0..n-1]
        BY <1>5 DEF Injection
    <2>2. ASSUME NEW k \in 0..n-1 PROVE \E i \in B : low[i] = k
        <3>1. k \in 0..c-1
            BY <1>1
        <3>2. PICK i \in S : rank[i] = k
            BY <1>3, <3>1 DEF Surjection
        <3>. QED
            BY <3>2
    <2>. QED
        BY <2>1, <2>2 DEF Surjection
<1>7. IsFiniteSet(0..n-1) /\ Cardinality(0..n-1) = n
    <2>1. n \in Nat /\ n - 1 \in Int /\ (0 > n - 1 <=> n = 0)
        BY <1>1
    <2> HIDE DEF B, low
    <2>. QED
        BY <2>1, FS_Interval
<1> HIDE DEF low, B
<1>8. Cardinality(B) = Cardinality(0..n-1)
    BY <1>5, <1>6, <1>7, FS_Injection
<1>. QED
    BY <1>4, <1>7, <1>8 DEF B

(* A total order on S, told by the set of those before each member: the    *)
(* first n are n.                                                          *)
LEMMA FirstOfOrder ==
  ASSUME NEW S, IsFiniteSet(S), NEW n \in 0..Cardinality(S),
         NEW before \in [S -> SUBSET S],
         \A i \in S : i \notin before[i],
         \A i, k \in S : i # k => \/ before[i] \cup {i} \subseteq before[k]
                                 \/ before[k] \cup {k} \subseteq before[i],
         NEW first \in SUBSET S,
         \A i \in S : i \in first <=> Cardinality(before[i]) < n
  PROVE  Cardinality(first) = n
<1> DEFINE rank == [i \in S |-> Cardinality(before[i])]
<1>1. \A i \in S : IsFiniteSet(before[i]) /\ Cardinality(before[i]) \in Nat
    BY FS_Subset, FS_CardinalityType
<1>2. Cardinality(S) \in Nat
    BY FS_CardinalityType
<1>3. ASSUME NEW i \in S PROVE rank[i] \in 0..Cardinality(S) - 1
    <2>1. before[i] \in SUBSET (S \ {i})
        OBVIOUS
    <2>2. IsFiniteSet(S \ {i}) /\ Cardinality(S \ {i}) = Cardinality(S) - 1
        BY FS_RemoveElement
    <2>3. Cardinality(before[i]) <= Cardinality(S) - 1
        BY <2>1, <2>2, FS_Subset
    <2>. QED
        BY <1>1, <1>2, <2>3
<1>4. ASSUME NEW i \in S, NEW k \in S, before[i] \cup {i} \subseteq before[k]
      PROVE  rank[i] < rank[k]
    <2> DEFINE upto == before[i] \cup {i}
    <2>1. IsFiniteSet(upto) /\ Cardinality(upto) = Cardinality(before[i]) + 1
        BY <1>1, FS_AddElement
    <2>2. upto \in SUBSET before[k]
        BY <1>4
    <2> HIDE DEF upto
    <2>3. Cardinality(upto) <= Cardinality(before[k])
        BY <1>1, <2>2, FS_Subset
    <2>. QED
        BY <1>1, <2>1, <2>3
<1>5. rank \in Injection(S, 0..Cardinality(S) - 1)
    <2>1. ASSUME NEW i \in S, NEW k \in S, rank[i] = rank[k] PROVE i = k
        <3>1. rank[i] \in Nat /\ rank[k] \in Nat
            BY <1>1
        <3> HIDE DEF rank
        <3>. QED
            BY <1>4, <2>1, <3>1
    <2>2. rank \in [S -> 0..Cardinality(S) - 1]
        BY <1>3
    <2>. QED
        BY <2>1, <2>2 DEF Injection, IsInjective
<1>6. {i \in S : rank[i] < n} = first
    OBVIOUS
<1> HIDE DEF rank
<1>. QED
    BY <1>5, <1>6, RankedBelow

(* Of a finite set of ids the n oldest are n.                              *)
LEMMA OldestCount ==
  ASSUME NEW ids \in SUBSET Nat, IsFiniteSet(ids), NEW n \in 0..Cardinality(ids)
  PROVE  Oldest(ids, n) \subseteq ids /\ Cardinality(Oldest(ids, n)) = n
<1> DEFINE before == [i \in ids |-> {j \in ids : j < i}]
<1>1. /\ before \in [ids -> SUBSET ids]
      /\ \A i \in ids : i \notin before[i]
    OBVIOUS
<1>2. ASSUME NEW i \in ids, NEW k \in ids, i < k PROVE before[i] \cup {i} \subseteq before[k]
    <2>1. \A j \in before[i] : j \in ids /\ j < k
        BY <1>2
    <2>. QED
        BY <1>2, <2>1
<1>3. \A i, k \in ids : i # k => \/ before[i] \cup {i} \subseteq before[k]
                                \/ before[k] \cup {k} \subseteq before[i]
    BY <1>2
<1>4. /\ Oldest(ids, n) \in SUBSET ids
      /\ \A i \in ids : i \in Oldest(ids, n) <=> Cardinality(before[i]) < n
    BY DEF Oldest
<1> HIDE DEF before
<1>5. Cardinality(Oldest(ids, n)) = n
    BY <1>1, <1>3, <1>4, FirstOfOrder
<1>. QED
    BY <1>4, <1>5

(* And so are the n newest.                                                *)
LEMMA NewestCount ==
  ASSUME NEW ids \in SUBSET Nat, IsFiniteSet(ids), NEW n \in 0..Cardinality(ids)
  PROVE  Newest(ids, n) \subseteq ids /\ Cardinality(Newest(ids, n)) = n
<1> DEFINE before == [i \in ids |-> {j \in ids : j > i}]
<1>1. /\ before \in [ids -> SUBSET ids]
      /\ \A i \in ids : i \notin before[i]
    OBVIOUS
<1>2. ASSUME NEW i \in ids, NEW k \in ids, i > k PROVE before[i] \cup {i} \subseteq before[k]
    <2>1. \A j \in before[i] : j \in ids /\ j > k
        BY <1>2
    <2>. QED
        BY <1>2, <2>1
<1>3. \A i, k \in ids : i # k => \/ before[i] \cup {i} \subseteq before[k]
                                \/ before[k] \cup {k} \subseteq before[i]
    BY <1>2
<1>4. /\ Newest(ids, n) \in SUBSET ids
      /\ \A i \in ids : i \in Newest(ids, n) <=> Cardinality(before[i]) < n
    BY DEF Newest
<1> HIDE DEF before
<1>5. Cardinality(Newest(ids, n)) = n
    BY <1>1, <1>3, <1>4, FirstOfOrder
<1>. QED
    BY <1>4, <1>5

(* A set of numbers has a least one: the oldest.                           *)
LEMMA LeastOf ==
  ASSUME NEW T \in SUBSET Nat, T # {}
  PROVE  \E x \in T : \A y \in T : x <= y
<1>1. PICK m \in T : m \in Nat
    OBVIOUS
<1> DEFINE upto == {y \in T : y <= m}
<1>2. upto \in SUBSET Nat /\ m \in upto
    <2>1. m \in upto
        BY <1>1
    <2>2. upto \in SUBSET Nat
        OBVIOUS
    <2>. QED
        BY <2>1, <2>2
<1>3. IsFiniteSet(upto) /\ Cardinality(upto) \in Nat /\ Cardinality(upto) # 0
    BY <1>2, FS_BoundedSetOfNaturals, FS_CardinalityType, FS_EmptySet
<1>4. Oldest(upto, 1) \subseteq upto /\ Cardinality(Oldest(upto, 1)) = 1
    <2> HIDE DEF upto
    <2>. QED
        BY <1>2, <1>3, OldestCount
<1>5. PICK x \in upto : Cardinality({j \in upto : j < x}) < 1
    <2>1. Oldest(upto, 1) # {}
        BY <1>4, FS_EmptySet
    <2>. QED
        BY <1>4, <2>1 DEF Oldest
<1>6. {j \in upto : j < x} = {}
    <2> DEFINE before == {j \in upto : j < x}
    <2>1. IsFiniteSet(before) /\ Cardinality(before) \in Nat
        BY <1>3, FS_Subset, FS_CardinalityType
    <2>. QED
        BY <1>5, <2>1, FS_EmptySet
<1>7. ASSUME NEW y \in T PROVE x <= y
    <2>1. CASE y <= m
        BY <1>6, <2>1
    <2>2. CASE ~(y <= m)
        BY <1>1, <2>2
    <2>. QED
        BY <2>1, <2>2
<1>. QED
    BY <1>7

(* Room for more than there are takes them all.                            *)
LEMMA NewestAll ==
  ASSUME NEW ids \in SUBSET Nat, IsFiniteSet(ids), NEW n \in Nat, n > Cardinality(ids)
  PROVE  Newest(ids, n) = ids
<1>1. ASSUME NEW i \in ids PROVE Cardinality({j \in ids : j > i}) < n
    <2> DEFINE after == {j \in ids : j > i}
    <2>1. after \in SUBSET ids
        OBVIOUS
    <2> HIDE DEF after
    <2>2. Cardinality(after) <= Cardinality(ids) /\ Cardinality(after) \in Nat
        BY <2>1, FS_Subset, FS_CardinalityType
    <2>3. Cardinality(ids) \in Nat
        BY FS_CardinalityType
    <2>4. Cardinality(after) < n
        BY <2>2, <2>3
    <2>. QED
        BY <2>4 DEF after
<1>. QED
    BY <1>1 DEF Newest

(* Division leaves less than what is divided by.                           *)
LEMMA Quotient ==
  ASSUME NEW c \in Nat, NEW e \in Nat \ {0}
  PROVE  \E q \in 0..c : q * e <= c /\ c < (q + 1) * e
<1> DEFINE q == c \div e
<1>1. q \in Nat /\ q * e + (c % e) = c /\ c % e \in 0..e-1
    OBVIOUS
<1>2. q * e <= c /\ c < (q + 1) * e
    BY <1>1
<1>3. q <= c
    <2> HIDE DEF q
    <2>1. e - 1 \in Nat /\ q * (e - 1) \in Nat
        BY <1>1
    <2>2. q * e = q + q * (e - 1)
        BY <1>1
    <2>. QED
        BY <1>1, <1>2, <2>1, <2>2
<1>4. q \in 0..c
    BY <1>1, <1>3
<1> HIDE DEF q
<1>. QED
    BY <1>2, <1>4

(* Every id that is to be embedded is in a batch, and in batches is nothing *)
(* else.                                                                    *)
LEMMA BatchesHoldAll ==
  ASSUME NEW ids \in SUBSET Nat, IsFiniteSet(ids)
  PROVE  UNION Batches(ids) = ids
<1>1. UNION Batches(ids) \subseteq ids
    BY DEF Batches, Newest
<1>2. ASSUME NEW i \in ids PROVE i \in UNION Batches(ids)
    <2> DEFINE after == {j \in ids : j > i}
               c == Cardinality(after)
    <2>1. after \in SUBSET ids /\ after # ids
        BY <1>2
    <2>2. /\ IsFiniteSet(after) /\ c \in Nat /\ Cardinality(ids) \in Nat
          /\ c <= Cardinality(ids) /\ c # Cardinality(ids)
        BY <2>1, FS_Subset, FS_CardinalityType
    <2>3. PICK q \in 0..c : q * EmbedBatch <= c /\ c < (q + 1) * EmbedBatch
        BY <2>2, Quotient, WindowAssumption
    <2>4. q + 1 \in 1..Cardinality(ids) /\ (q + 1) - 1 = q
        BY <2>2
    <2>5. i \in Newest(ids, (q + 1) * EmbedBatch)
        BY <2>3 DEF Newest
    <2>6. i \notin Newest(ids, q * EmbedBatch)
        BY <2>2, <2>3, WindowAssumption DEF Newest
    <2>7. Newest(ids, (q + 1) * EmbedBatch) \ Newest(ids, ((q + 1) - 1) * EmbedBatch) \in Batches(ids)
        BY <2>4, <2>5, <2>6 DEF Batches
    <2>. QED
        BY <2>4, <2>5, <2>6, <2>7
<1>. QED
    BY <1>1, <1>2

(***************************************************************************)
(* The inductive invariant.  A step that embeds holds rows of the log only *)
(* and no more than the window and its batches reach; an eviction leaves   *)
(* as many rows as the cap says, and no step wants more than that.         *)
(***************************************************************************)
Embedding == [at : {"embeds"}, todo : SUBSET SUBSET (1..logged), reach : Nat, errors : BOOLEAN]

WindowTypeOK ==
  /\ logged \in Nat /\ cap \in Nat /\ filled \in Nat
  /\ window \in SUBSET (1..logged)
  /\ embedder \in [Nights -> {NotEmbedding} \union Embedding]

(* What a step that had no errors so far will have reached.                *)
Reaches(n) ==
  embedder[n] # NotEmbedding =>
    /\ 0 < cap /\ embedder[n].reach <= cap
    /\ ~embedder[n].errors =>
         embedder[n].reach <= Cardinality(window \union UNION embedder[n].todo)

AllOff == \A n \in Nights : embedder[n] = NotEmbedding

WindowInv ==
  /\ WindowTypeOK
  /\ \A n \in Nights : Reaches(n)
  /\ filled <= cap /\ filled <= Cardinality(window)
  /\ settled /\ AllOff => Cardinality(window) <= cap

(* Rows of the log are finitely many.                                      *)
LEMMA LogIsFinite ==
  ASSUME NEW m \in Nat, NEW S \in SUBSET (1..m)
  PROVE  /\ IsFiniteSet(S) /\ Cardinality(S) \in Nat /\ S \in SUBSET Nat
         /\ \A T \in SUBSET S : Cardinality(T) <= Cardinality(S)
<1>1. IsFiniteSet(1..m)
    BY FS_Interval
<1>2. IsFiniteSet(S)
    BY <1>1, FS_Subset
<1>3. \A T \in SUBSET S : Cardinality(T) <= Cardinality(S)
    BY <1>2, FS_Subset
<1>4. Cardinality(S) \in Nat
    BY <1>2, FS_CardinalityType
<1>. QED
    BY <1>2, <1>3, <1>4

(* A window that gives up its oldest rows keeps the others.                *)
LEMMA Evicts ==
  ASSUME NEW m \in Nat, NEW S \in SUBSET (1..m), NEW k \in 0..Cardinality(S)
  PROVE  /\ S \ Oldest(S, k) \in SUBSET (1..m)
         /\ Cardinality(S \ Oldest(S, k)) = Cardinality(S) - k
<1>1. IsFiniteSet(S) /\ S \in SUBSET Nat
    BY LogIsFinite
<1>2. Oldest(S, k) \in SUBSET S /\ Cardinality(Oldest(S, k)) = k
    BY <1>1, OldestCount
<1>3. Cardinality(S \ Oldest(S, k)) = Cardinality(S) - k
    BY <1>1, <1>2, CountWithout
<1>. QED
    BY <1>3

LEMMA WindowInitially == WindowInit => WindowInv
<1> SUFFICES ASSUME WindowInit PROVE WindowInv
    OBVIOUS
<1>1. IsFiniteSet(window) /\ Cardinality(window) = 0
    BY FS_EmptySet DEF WindowInit
<1>2. WindowTypeOK
    BY WindowAssumption DEF WindowInit, WindowTypeOK
<1>. QED
    BY <1>1, <1>2 DEF WindowInit, WindowInv, Reaches, WindowTypeOK

(* The rows a step begins with fill the window as far as the log goes.     *)
LEMMA BeginsWithEnough ==
  ASSUME WindowTypeOK, 0 < cap,
         NEW todo, todo = Batches(Unembedded(Over(cap, Cardinality(window))))
  PROVE  /\ todo \in SUBSET SUBSET (1..logged)
         /\ Lesser(cap, logged) <= Cardinality(window \union UNION todo)
<1> DEFINE free == 1..logged \ window
           room == Over(cap, Cardinality(window))
           chosen == Unembedded(room)
<1>1. /\ window \in SUBSET (1..logged) /\ logged \in Nat /\ cap \in Nat
      /\ Cardinality(window) \in Nat /\ IsFiniteSet(window)
    BY LogIsFinite DEF WindowTypeOK
<1>2. /\ IsFiniteSet(free) /\ Cardinality(free) = logged - Cardinality(window)
      /\ free \in SUBSET Nat /\ Cardinality(free) \in Nat
    <2>1. IsFiniteSet(1..logged) /\ Cardinality(1..logged) = logged
        BY <1>1, CountUpTo
    <2>2. /\ IsFiniteSet(free) /\ Cardinality(free) \in Nat
          /\ Cardinality(free) = logged - Cardinality(window)
        BY <1>1, <2>1, CountWithout
    <2>3. free \in SUBSET Nat
        OBVIOUS
    <2>. QED
        BY <2>2, <2>3
<1>3. room \in Nat
    BY <1>1 DEF Over
<1>4. chosen = Newest(free, room) /\ chosen \in SUBSET free
    BY DEF Unembedded, Newest
<1>5. chosen \in SUBSET (1..logged) /\ IsFiniteSet(chosen) /\ chosen \in SUBSET Nat
    BY <1>1, <1>4, LogIsFinite
<1>6. UNION todo = chosen
    BY <1>5, BatchesHoldAll
<1>7. Lesser(cap, logged) <= Cardinality(window \union chosen)
    <2>1. window \cap chosen = {}
        BY <1>4
    <2> HIDE DEF free, chosen, room
    <2>2. Cardinality(chosen) \in Nat
        BY <1>5, FS_CardinalityType
    <2>3. Cardinality(window \union chosen) = Cardinality(window) + Cardinality(chosen)
        BY <1>1, <1>5, <2>1, CountBeside
    <2>4. CASE room <= Cardinality(free)
        <3>1. Cardinality(chosen) = room
            BY <1>2, <1>3, <1>4, <2>4, NewestCount
        <3>. QED
            BY <1>1, <2>2, <2>3, <3>1 DEF Lesser, Over, room
    <2>5. CASE room > Cardinality(free)
        <3>1. chosen = free
            BY <1>2, <1>3, <1>4, <2>5, NewestAll
        <3>. QED
            BY <1>1, <1>2, <2>2, <2>3, <3>1 DEF Lesser
    <2>. QED
        BY <1>2, <1>3, <2>4, <2>5
<1>8. todo \in SUBSET SUBSET (1..logged)
    BY <1>5, <1>6
<1>. QED
    BY <1>6, <1>7, <1>8

LEMMA WindowStep == WindowInv /\ [WindowNext]_windowVars => WindowInv'
<1> SUFFICES ASSUME WindowInv, [WindowNext]_windowVars PROVE WindowInv'
    OBVIOUS
<1>1. /\ WindowTypeOK /\ logged \in Nat /\ cap \in Nat /\ filled \in Nat
      /\ window \in SUBSET (1..logged)
      /\ embedder \in [Nights -> {NotEmbedding} \union Embedding]
    BY DEF WindowInv, WindowTypeOK
<1>2. IsFiniteSet(window) /\ Cardinality(window) \in Nat
    BY <1>1, LogIsFinite
<1>3. \A n \in Nights : Reaches(n)
    BY DEF WindowInv
<1>4. filled <= cap /\ filled <= Cardinality(window)
    BY DEF WindowInv
<1>5. ASSUME NEW n \in Nights, embedder[n] # NotEmbedding
      PROVE  embedder[n] \in Embedding /\ Pending(n) = embedder[n].todo
    BY <1>1, <1>5 DEF Pending
<1>6. CASE LogGrows
    <2>1. logged' \in Nat /\ 1..logged \subseteq 1..logged'
        BY <1>1, <1>6 DEF LogGrows
    <2>2. UNCHANGED <<window, cap, embedder, settled, filled>>
        BY <1>6 DEF LogGrows
    <2>3. Embedding \subseteq Embedding'
        BY <2>1 DEF Embedding
    <2>4. WindowTypeOK'
        BY <1>1, <2>1, <2>2, <2>3 DEF WindowTypeOK, NotEmbedding
    <2>. QED
        BY <1>3, <1>4, <2>2, <2>4 DEF WindowInv, Reaches, AllOff, NotEmbedding
<1>7. ASSUME NEW c \in Caps, Reboots(c) PROVE WindowInv'
    <2>1. /\ cap' \in Nat /\ filled' = 0 /\ settled' = FALSE /\ UNCHANGED <<logged, window>>
          /\ embedder' = [n \in Nights |-> NotEmbedding]
        BY <1>7, WindowAssumption DEF Reboots
    <2>2. WindowTypeOK'
        BY <1>1, <2>1 DEF WindowTypeOK, NotEmbedding
    <2>. QED
        BY <1>2, <2>1, <2>2 DEF WindowInv, Reaches, NotEmbedding
<1>8. ASSUME NEW n \in Nights, Empties(n) PROVE WindowInv'
    <2>1. /\ cap = 0 /\ UNCHANGED <<logged, cap, embedder, filled>>
          /\ window' = window \ Oldest(window, Cardinality(window))
        BY <1>8 DEF Empties
    <2>2. window' \in SUBSET (1..logged) /\ Cardinality(window') = 0
        <3>1. /\ window' \in SUBSET (1..logged)
              /\ Cardinality(window') = Cardinality(window) - Cardinality(window)
            <4>1. Cardinality(window) \in 0..Cardinality(window)
                BY <1>2
            <4>. QED
                BY <1>1, <2>1, <4>1, Evicts
        <3>. QED
            BY <1>2, <3>1
    <2>3. WindowTypeOK'
        BY <1>1, <2>1, <2>2 DEF WindowTypeOK, Embedding, NotEmbedding
    <2>4. \A m \in Nights : embedder[m] = NotEmbedding
        BY <1>1, <1>3, <2>1 DEF Reaches
    <2>. QED
        BY <1>1, <1>4, <2>1, <2>2, <2>3, <2>4 DEF WindowInv, Reaches, NotEmbedding
<1>9. ASSUME NEW n \in Nights, WindowBegins(n) PROVE WindowInv'
    <2> DEFINE todo == Batches(Unembedded(Over(cap, Cardinality(window))))
               begun == [at |-> "embeds", todo |-> todo, reach |-> Lesser(cap, logged), errors |-> FALSE]
    <2>1. /\ 0 < cap /\ UNCHANGED <<logged, window, cap, settled, filled>>
          /\ embedder' = [embedder EXCEPT ![n] = begun]
        BY <1>1, <1>9 DEF WindowBegins
    <2> HIDE DEF todo
    <2>2. /\ todo \in SUBSET SUBSET (1..logged)
          /\ Lesser(cap, logged) <= Cardinality(window \union UNION todo)
        BY <1>1, <2>1, BeginsWithEnough DEF todo
    <2>3. begun \in Embedding /\ begun # NotEmbedding /\ Lesser(cap, logged) <= cap
        BY <1>1, <2>2 DEF Embedding, Lesser, NotEmbedding
    <2>4. WindowTypeOK'
        BY <1>1, <2>1, <2>3 DEF WindowTypeOK, Embedding, NotEmbedding
    <2>5. ASSUME NEW m \in Nights PROVE Reaches(m)'
        <3>1. CASE m = n
            BY <1>1, <2>1, <2>2, <2>3, <3>1 DEF Reaches, NotEmbedding
        <3>2. CASE m # n
            BY <1>1, <1>3, <2>1, <3>2 DEF Reaches, NotEmbedding
        <3>. QED
            BY <3>1, <3>2
    <2>6. ~AllOff'
        BY <1>1, <2>1, <2>3 DEF AllOff, NotEmbedding
    <2>. QED
        BY <1>4, <2>1, <2>4, <2>5, <2>6 DEF WindowInv
<1>10. ASSUME NEW n \in Nights, NEW b \in Pending(n), BatchComes(n, b) PROVE WindowInv'
    <2>1. embedder[n] # NotEmbedding
        BY <1>10 DEF Pending
    <2>2. /\ b \in embedder[n].todo /\ embedder[n] \in Embedding /\ b \in SUBSET (1..logged)
        BY <1>5, <1>10, <2>1 DEF Embedding
    <2> DEFINE rest == [embedder[n] EXCEPT !.todo = embedder[n].todo \ {b}]
    <2>3. /\ UNCHANGED <<logged, cap, settled, filled>> /\ window' = window \union b
          /\ embedder' = [embedder EXCEPT ![n] = rest]
        BY <1>1, <1>10 DEF BatchComes
    <2>4. /\ rest \in Embedding /\ rest # NotEmbedding
          /\ rest.reach = embedder[n].reach /\ rest.errors = embedder[n].errors
          /\ rest.todo = embedder[n].todo \ {b}
        BY <2>2 DEF Embedding, NotEmbedding
    <2> HIDE DEF rest
    <2>5. window' \in SUBSET (1..logged)
        BY <1>1, <2>2, <2>3
    <2>6. Cardinality(window) <= Cardinality(window') /\ Cardinality(window') \in Nat
        <3>1. window \in SUBSET window'
            BY <2>3
        <3>. QED
            BY <1>1, <2>5, <3>1, LogIsFinite
    <2>7. WindowTypeOK'
        BY <1>1, <2>3, <2>4, <2>5 DEF WindowTypeOK, Embedding, NotEmbedding
    <2>8. ASSUME NEW m \in Nights PROVE Reaches(m)'
        <3>1. CASE m = n
            <4>1. window' \union UNION rest.todo = window \union UNION embedder[n].todo
                BY <2>2, <2>3, <2>4
            <4>. QED
                BY <1>1, <1>3, <2>1, <2>3, <2>4, <3>1, <4>1 DEF Reaches, NotEmbedding
        <3>2. CASE m # n
            <4>1. embedder'[m] = embedder[m]
                BY <1>1, <2>3, <3>2
            <4>2. CASE embedder[m] # NotEmbedding
                <5>1. /\ embedder[m].reach \in Nat /\ embedder[m].todo \in SUBSET SUBSET (1..logged)
                      /\ 0 < cap /\ embedder[m].reach <= cap
                    BY <1>3, <1>5, <4>2 DEF Reaches, Embedding
                <5>2. Cardinality(window \union UNION embedder[m].todo)
                        <= Cardinality(window' \union UNION embedder[m].todo)
                    <6>1. /\ window' \union UNION embedder[m].todo \in SUBSET (1..logged)
                          /\ window \union UNION embedder[m].todo
                               \in SUBSET (window' \union UNION embedder[m].todo)
                        BY <2>3, <2>5, <5>1
                    <6>. QED
                        BY <1>1, <6>1, LogIsFinite
                <5>3. /\ Cardinality(window \union UNION embedder[m].todo) \in Nat
                      /\ Cardinality(window' \union UNION embedder[m].todo) \in Nat
                    <6>1. /\ window' \union UNION embedder[m].todo \in SUBSET (1..logged)
                          /\ window \union UNION embedder[m].todo \in SUBSET (1..logged)
                        BY <1>1, <2>5, <5>1
                    <6>. QED
                        BY <1>1, <6>1, LogIsFinite
                <5>4. ~embedder[m].errors =>
                        embedder[m].reach <= Cardinality(window' \union UNION embedder[m].todo)
                    BY <1>3, <4>2, <5>1, <5>2, <5>3 DEF Reaches
                <5>. QED
                    BY <2>3, <4>1, <5>1, <5>4 DEF Reaches
            <4>. QED
                BY <4>1, <4>2 DEF Reaches, NotEmbedding
        <3>. QED
            BY <3>1, <3>2
    <2>9. ~AllOff'
        BY <1>1, <2>3, <2>4 DEF AllOff, NotEmbedding
    <2>. QED
        BY <1>1, <1>2, <1>4, <2>3, <2>6, <2>7, <2>8, <2>9 DEF WindowInv
<1>11. ASSUME NEW n \in Nights, NEW b \in Pending(n), BatchFails(n, b) PROVE WindowInv'
    <2>1. embedder[n] # NotEmbedding
        BY <1>11 DEF Pending
    <2> DEFINE rest == [embedder[n] EXCEPT !.todo = embedder[n].todo \ {b}, !.errors = TRUE]
    <2>2. /\ UNCHANGED <<logged, window, cap, settled, filled>>
          /\ embedder' = [embedder EXCEPT ![n] = rest]
        BY <1>1, <1>11 DEF BatchFails
    <2>3. /\ rest \in Embedding /\ rest # NotEmbedding
          /\ rest.reach = embedder[n].reach /\ rest.errors
        BY <1>5, <2>1 DEF Embedding, NotEmbedding
    <2> HIDE DEF rest
    <2>4. WindowTypeOK'
        BY <1>1, <2>2, <2>3 DEF WindowTypeOK, Embedding, NotEmbedding
    <2>5. ASSUME NEW m \in Nights PROVE Reaches(m)'
        <3>1. CASE m = n
            BY <1>1, <1>3, <2>1, <2>2, <2>3, <3>1 DEF Reaches, NotEmbedding
        <3>2. CASE m # n
            BY <1>1, <1>3, <2>2, <3>2 DEF Reaches, NotEmbedding
        <3>. QED
            BY <3>1, <3>2
    <2>6. ~AllOff'
        BY <1>1, <2>2, <2>3 DEF AllOff, NotEmbedding
    <2>. QED
        BY <1>4, <2>2, <2>4, <2>5, <2>6 DEF WindowInv
<1>12. ASSUME NEW n \in Nights, WindowEnds(n) PROVE WindowInv'
    <2>1. /\ embedder[n] # NotEmbedding /\ embedder[n].todo = {} /\ UNCHANGED <<logged, cap>>
          /\ window' = window \ Oldest(window, Overflow(n))
          /\ embedder' = [embedder EXCEPT ![n] = NotEmbedding]
          /\ filled' = IF embedder[n].errors THEN filled ELSE embedder[n].reach
        BY <1>12, <1>5 DEF WindowEnds
    <2>2. Overflow(n) \in 0..Cardinality(window)
        BY <1>1, <1>2 DEF Overflow, Over
    <2>3. /\ window' \in SUBSET (1..logged)
          /\ Cardinality(window') = Cardinality(window) - Overflow(n)
        BY <1>1, <2>1, <2>2, Evicts
    <2>4. Cardinality(window') = IF Cardinality(window) > cap THEN cap ELSE Cardinality(window)
        BY <1>1, <1>2, <2>3 DEF Overflow, Over
    <2>5. Overflow(n) = 0 => window' = window
        BY <1>1, <2>1, LogIsFinite DEF Oldest
    <2>6. window \union UNION embedder[n].todo = window
        BY <2>1
    <2>7. /\ embedder[n].reach \in Nat /\ embedder[n].reach <= cap
          /\ ~embedder[n].errors => embedder[n].reach <= Cardinality(window)
        BY <1>3, <1>5, <2>1, <2>6 DEF Reaches, Embedding
    <2>8. filled' \in Nat /\ filled' <= cap /\ filled' <= Cardinality(window')
        BY <1>1, <1>2, <1>4, <2>1, <2>4, <2>7
    <2>9. WindowTypeOK'
        BY <1>1, <2>1, <2>3, <2>8 DEF WindowTypeOK, Embedding, NotEmbedding
    <2>10. ASSUME NEW m \in Nights, embedder'[m] # NotEmbedding PROVE Reaches(m)'
        <3>1. embedder'[m] = embedder[m] /\ embedder[m] # NotEmbedding
            BY <1>1, <2>1, <2>10
        <3>2. /\ embedder[m].reach \in Nat /\ embedder[m].todo \in SUBSET SUBSET (1..logged)
              /\ 0 < cap /\ embedder[m].reach <= cap
              /\ ~embedder[m].errors =>
                   embedder[m].reach <= Cardinality(window \union UNION embedder[m].todo)
            BY <1>3, <1>5, <3>1 DEF Reaches, Embedding
        <3>3. CASE Overflow(n) = 0
            BY <2>1, <2>5, <3>1, <3>2, <3>3 DEF Reaches
        <3>4. CASE Overflow(n) # 0
            <4>1. Cardinality(window') = cap
                BY <1>1, <1>2, <2>2, <2>4, <3>4 DEF Overflow, Over
            <4>2. window' \union UNION embedder[m].todo \in SUBSET (1..logged)
                BY <2>3, <3>2
            <4>3. /\ Cardinality(window') <= Cardinality(window' \union UNION embedder[m].todo)
                  /\ Cardinality(window' \union UNION embedder[m].todo) \in Nat
                BY <1>1, <4>2, LogIsFinite
            <4>4. embedder[m].reach <= Cardinality(window' \union UNION embedder[m].todo)
                BY <1>1, <3>2, <4>1, <4>3
            <4>. QED
                BY <2>1, <3>1, <3>2, <4>4 DEF Reaches
        <3>. QED
            BY <3>3, <3>4
    <2>11. \A m \in Nights : Reaches(m)'
        BY <2>10 DEF Reaches, NotEmbedding
    <2>12. Cardinality(window') <= cap'
        BY <1>1, <1>2, <2>1, <2>4
    <2>. QED
        BY <2>1, <2>8, <2>9, <2>11, <2>12 DEF WindowInv
<1>13. CASE UNCHANGED windowVars
    <2>1. UNCHANGED <<logged, window, cap, embedder, settled, filled>>
        BY <1>13 DEF windowVars
    <2>2. WindowTypeOK'
        BY <1>1, <2>1 DEF WindowTypeOK, Embedding, NotEmbedding
    <2>. QED
        BY <2>1, <2>2 DEF WindowInv, Reaches, AllOff, NotEmbedding
<1>. QED
    BY <1>6, <1>7, <1>8, <1>9, <1>10, <1>11, <1>12, <1>13 DEF WindowNext

(* Between the nights the window is as full as the last step without       *)
(* errors made it and never larger than the cap of this process, however   *)
(* many nights overlapped and whichever batches failed (embed-log.ts).     *)
THEOREM WindowStaysKept == WindowSpec => []WindowIsKept
<1>1. WindowInv => WindowIsKept
    <2> SUFFICES ASSUME WindowInv, settled, AllOff
                 PROVE  Cardinality(window) \in filled..cap
        BY DEF WindowIsKept, AllOff
    <2>1. Cardinality(window) \in Nat
        BY LogIsFinite DEF WindowInv, WindowTypeOK
    <2>. QED
        BY <2>1 DEF WindowInv, WindowTypeOK
<1>. QED
    BY <1>1, WindowInitially, WindowStep, PTL DEF WindowSpec

(***************************************************************************)
(* The focus table, whichever keys are owned and whichever protected.      *)
(* While nobody writes what the prune may edit, a key the answer has not   *)
(* touched is as it was read, and what a touched one said is said          *)
(* elsewhere or stale.                                                     *)
(***************************************************************************)
Obeying ==
  [at : {"asked", "obeys"}, all : [Keys -> SUBSET Statements], touched : SUBSET Keys, actions : Nat]
Elsewhere == {AtRest, [at |-> "pruned"]} \union [at : {"rewrites"}, todo : SUBSET Keys]

FocusTypeOK ==
  /\ focus \in [Keys -> SUBSET Statements]
  /\ stored \in [Owned -> SUBSET Statements]
  /\ step \in Obeying \union Elsewhere

StillSaid(k) ==
  IF k \in step.touched THEN step.all[k] \subseteq Says(focus) \union stale
                        ELSE focus[k] = step.all[k]

FocusInv ==
  /\ FocusTypeOK
  /\ ProtectedAsStored
  /\ undisturbed /\ step \in Obeying => \A k \in Keys \ Protected : StillSaid(k)

LEMMA FocusStart == FocusInit => FocusInv
<1> SUFFICES ASSUME FocusInit PROVE FocusInv
    OBVIOUS
<1>1. FocusTypeOK
    BY FocusAssumption DEF FocusInit, FocusTypeOK, Values, Absent, Elsewhere
<1>2. step \notin Obeying
    BY DEF FocusInit, Obeying, AtRest
<1>. QED
    BY <1>1, <1>2, FocusAssumption DEF FocusInit, FocusInv, ProtectedAsStored

(* A step that obeys an action keeps what it takes away: every untouched   *)
(* key it takes from is as it was read.                                    *)
LEMMA NothingUnsaid ==
  ASSUME FocusInv, undisturbed, step \in Obeying,
         NEW k \in Keys \ Protected, Obeys,
         focus' \in [Keys -> SUBSET Statements], step'.all = step.all,
         step.touched \subseteq step'.touched, stale \subseteq stale',
         \A h \in Keys : h \notin step'.touched => focus'[h] = focus[h],
         \A h \in (step'.touched \ step.touched) : h \in Keys \ Protected /\ step.all[h] \subseteq Says(focus') \union stale',
         \A h \in step.touched : focus'[h] = focus[h]
  PROVE  StillSaid(k)'
<1>1. \A h \in Keys \ Protected : StillSaid(h)
    BY DEF FocusInv
<1>2. Says(focus) \subseteq Says(focus') \union stale'
    <2> SUFFICES ASSUME NEW h \in Keys \ Protected, NEW x \in focus[h]
                 PROVE  x \in Says(focus') \union stale'
        BY DEF Says
    <2>1. CASE focus'[h] = focus[h]
        BY <2>1 DEF Says
    <2>2. CASE focus'[h] # focus[h]
        <3>1. h \in step'.touched \ step.touched
            BY <2>2
        <3>2. focus[h] = step.all[h]
            BY <1>1, <3>1 DEF StillSaid
        <3>. QED
            BY <3>1, <3>2
    <2>. QED
        BY <2>1, <2>2
<1>3. CASE k \in step.touched
    <2>1. step.all[k] \subseteq Says(focus) \union stale
        BY <1>1, <1>3 DEF StillSaid
    <2>2. step.all[k] \subseteq Says(focus') \union stale'
        BY <1>2, <2>1
    <2>3. k \in step'.touched
        BY <1>3
    <2>. QED
        BY <2>2, <2>3 DEF StillSaid, Says
<1>4. CASE k \in step'.touched \ step.touched
    <2>1. step.all[k] \subseteq Says(focus') \union stale'
        BY <1>4
    <2>. QED
        BY <1>4, <2>1 DEF StillSaid, Says
<1>5. CASE k \notin step'.touched
    <2>1. k \notin step.touched
        BY <1>5
    <2>. QED
        BY <1>1, <1>5, <2>1 DEF StillSaid
<1>. QED
    BY <1>3, <1>4, <1>5

LEMMA TouchedKeys ==
  ASSUME step \in Obeying, NEW ks \in SUBSET Keys,
         step' = [step EXCEPT !.touched = @ \union ks, !.actions = @ + 1]
  PROVE  step' \in Obeying /\ step'.all = step.all /\ step'.touched = step.touched \union ks
<1>1. step.touched \union ks \in SUBSET Keys /\ step.actions + 1 \in Nat
    BY DEF Obeying
<1>2. step' = [at |-> step.at, all |-> step.all, touched |-> step.touched \union ks, actions |-> step.actions + 1]
    BY DEF Obeying
<1>. QED
    BY <1>1, <1>2 DEF Obeying

LEMMA FocusStep == FocusInv /\ [FocusNext]_focusVars => FocusInv'
<1> SUFFICES ASSUME FocusInv, [FocusNext]_focusVars PROVE FocusInv'
    OBVIOUS
<1> USE FocusAssumption
<1>1. /\ focus \in [Keys -> SUBSET Statements] /\ stored \in [Owned -> SUBSET Statements]
      /\ step \in Obeying \union Elsewhere /\ \A k \in Owned \cap Protected : focus[k] = stored[k]
    BY DEF FocusInv, FocusTypeOK, ProtectedAsStored
<1>2. ASSUME NEW k \in Keys \ Owned, NEW v \in Values \union {Absent}, Puts(k, v) PROVE FocusInv'
    <2>1. /\ focus' = [focus EXCEPT ![k] = v] /\ undisturbed' = FALSE /\ UNCHANGED <<step, stored>>
        BY <1>2 DEF Puts
    <2>. QED
        BY <1>1, <2>1 DEF FocusInv, FocusTypeOK, ProtectedAsStored, Values, Absent
<1>3. ASSUME NEW k \in Owned, NEW v \in Values, Stores(k, v) PROVE FocusInv'
    <2>1. /\ focus' = [focus EXCEPT ![k] = v] /\ stored' = [stored EXCEPT ![k] = v]
          /\ undisturbed' = (undisturbed /\ k \in Protected) /\ UNCHANGED <<step, stale>>
        BY <1>3 DEF Stores
    <2>2. FocusTypeOK' /\ ProtectedAsStored'
        BY <1>1, <2>1 DEF FocusTypeOK, ProtectedAsStored, Values
    <2>3. CASE k \in Protected
        <3>1. \A h \in Keys \ Protected : focus'[h] = focus[h]
            BY <1>1, <2>1, <2>3
        <3>2. Says(focus') = Says(focus)
            BY <3>1 DEF Says
        <3>3. undisturbed' => undisturbed
            BY <2>1
        <3>. QED
            BY <2>1, <2>2, <3>1, <3>2, <3>3 DEF FocusInv, StillSaid, Says
    <2>4. CASE k \notin Protected
        BY <2>1, <2>2, <2>4 DEF FocusInv
    <2>. QED
        BY <2>3, <2>4
<1>4. CASE FocusAsked
    <2>1. /\ step' = [at |-> "asked", all |-> focus, touched |-> {}, actions |-> 0]
          /\ UNCHANGED <<focus, stored>>
        BY <1>4 DEF FocusAsked
    <2>2. step' \in Obeying
        BY <1>1, <2>1 DEF Obeying
    <2>. QED
        BY <1>1, <2>1, <2>2 DEF FocusInv, FocusTypeOK, ProtectedAsStored, StillSaid
<1>5. CASE FocusAnswered
    <2>1. /\ step.at = "asked" /\ step' = [step EXCEPT !.at = "obeys"]
          /\ UNCHANGED <<focus, stored, undisturbed, stale>>
        BY <1>5 DEF FocusAnswered
    <2>2. step \in Obeying
        BY <1>1, <2>1 DEF Elsewhere, AtRest
    <2>3. step' \in Obeying /\ step'.all = step.all /\ step'.touched = step.touched
        BY <2>1, <2>2 DEF Obeying
    <2>. QED
        BY <1>1, <2>1, <2>2, <2>3 DEF FocusInv, FocusTypeOK, ProtectedAsStored, StillSaid, Says
<1>6. ASSUME NEW k \in Keys, DropsKey(k) PROVE FocusInv'
    <2>1. /\ Obeys /\ Allowed(k) /\ focus' = [focus EXCEPT ![k] = Absent]
          /\ stale' = stale \union step.all[k] /\ UNCHANGED <<stored, undisturbed>>
          /\ step' = [step EXCEPT !.touched = @ \union {k}, !.actions = @ + 1]
        BY <1>6 DEF DropsKey, Touches, Obeys
    <2>2. step \in Obeying /\ k \in Keys \ Protected /\ k \notin step.touched
        BY <1>1, <2>1 DEF Obeys, Allowed, Elsewhere, AtRest
    <2>3. step' \in Obeying /\ step'.all = step.all /\ step'.touched = step.touched \union {k}
        BY <2>1, <2>2, TouchedKeys
    <2>4. FocusTypeOK' /\ ProtectedAsStored'
        BY <1>1, <2>1, <2>2, <2>3 DEF FocusTypeOK, ProtectedAsStored, Absent
    <2>5. ASSUME undisturbed, NEW h \in Keys \ Protected PROVE StillSaid(h)'
        <3>1. focus' \in [Keys -> SUBSET Statements]
            BY <2>4 DEF FocusTypeOK
        <3>2. \A g \in Keys : g # k => focus'[g] = focus[g]
            BY <1>1, <2>1
        <3>. QED
            BY <2>1, <2>2, <2>3, <2>5, <3>1, <3>2, NothingUnsaid
    <2>. QED
        BY <2>1, <2>4, <2>5 DEF FocusInv
<1>7. ASSUME NEW k \in Keys, NEW ks \in SUBSET Keys, MergesKeys(k, ks) PROVE FocusInv'
    <2> DEFINE gone == {h \in ks \ {k} : Allowed(h)}
    <2>1. /\ Obeys /\ Allowed(k) /\ stale' = stale /\ UNCHANGED <<stored, undisturbed>>
          /\ focus' = [h \in Keys |-> IF h = k THEN MergedValue(ks \union {k})
                                      ELSE IF h \in gone THEN Absent ELSE focus[h]]
          /\ step' = [step EXCEPT !.touched = @ \union ({k} \union gone), !.actions = @ + 1]
        BY <1>7 DEF MergesKeys, Touches, Obeys
    <2>2. step \in Obeying /\ k \in Keys \ Protected /\ k \notin step.touched
        BY <1>1, <2>1 DEF Obeys, Allowed, Elsewhere, AtRest
    <2>3. gone \subseteq Keys \ Protected /\ gone \cap step.touched = {}
        BY DEF Allowed
    <2>4. step' \in Obeying /\ step'.all = step.all /\ step'.touched = step.touched \union ({k} \union gone)
        <3>1. {k} \union gone \in SUBSET Keys
            OBVIOUS
        <3> HIDE DEF gone
        <3>. QED
            BY <2>1, <2>2, <3>1, TouchedKeys
    <2>5. MergedValue(ks \union {k}) \in SUBSET Statements
        BY <2>2 DEF MergedValue, Obeying
    <2>6. FocusTypeOK' /\ ProtectedAsStored'
        BY <1>1, <2>1, <2>2, <2>3, <2>4, <2>5 DEF FocusTypeOK, ProtectedAsStored, Absent
    <2>7. \A h \in {k} \union gone : step.all[h] \subseteq Says(focus')
        <3> SUFFICES ASSUME NEW h \in {k} \union gone PROVE step.all[h] \subseteq Says(focus')
            OBVIOUS
        <3>1. h \in (ks \union {k}) \ Protected
            BY <2>1 DEF Allowed
        <3>2. step.all[h] \subseteq focus'[k]
            BY <2>1, <3>1 DEF MergedValue
        <3>. QED
            BY <2>2, <3>2 DEF Says
    <2>8. ASSUME undisturbed, NEW h \in Keys \ Protected PROVE StillSaid(h)'
        <3>1. focus' \in [Keys -> SUBSET Statements]
            BY <2>6 DEF FocusTypeOK
        <3>2. \A g \in Keys : g \notin {k} \union gone => focus'[g] = focus[g]
            BY <2>1
        <3> HIDE DEF gone
        <3>3. /\ step.touched \subseteq step'.touched /\ stale \subseteq stale'
              /\ \A g \in Keys : g \notin step'.touched => focus'[g] = focus[g]
            BY <2>1, <2>4, <3>2
        <3>4. /\ \A g \in (step'.touched \ step.touched) :
                   g \in Keys \ Protected /\ step.all[g] \subseteq Says(focus') \union stale'
              /\ \A g \in step.touched : focus'[g] = focus[g]
            BY <2>2, <2>3, <2>4, <2>7, <3>2 DEF Obeying
        <3>. QED
            BY <2>1, <2>2, <2>4, <2>8, <3>1, <3>3, <3>4, NothingUnsaid
    <2>. QED
        BY <2>1, <2>6, <2>8 DEF FocusInv
<1>8. ASSUME step' \in Elsewhere, UNCHANGED <<focus, stored>> PROVE FocusInv'
    BY <1>1, <1>8 DEF FocusInv, FocusTypeOK, ProtectedAsStored, Obeying, Elsewhere, AtRest
<1>9. CASE FocusPruned \/ RewriteSkips \/ RewriteEnds \/ NightStops
    BY <1>8, <1>9 DEF FocusPruned, RewriteSkips, RewriteEnds, NightStops, Elsewhere
<1>10. CASE RewriteBegins
    <2>1. step' \in Elsewhere /\ UNCHANGED <<focus, stored>>
        BY <1>10 DEF RewriteBegins, Elsewhere, Editable
    <2>. QED
        BY <1>8, <2>1
<1>11. ASSUME NEW k \in Keys, Rewrites(k) PROVE FocusInv'
    <2>1. /\ step.at = "rewrites" /\ step' = [step EXCEPT !.todo = @ \ {k}]
          /\ UNCHANGED <<focus, stored>>
        BY <1>11 DEF Rewrites
    <2>2. step \in [at : {"rewrites"}, todo : SUBSET Keys]
        BY <1>1, <2>1 DEF Obeying, Elsewhere, AtRest
    <2>3. step' \in Elsewhere
        BY <2>1, <2>2 DEF Elsewhere
    <2>. QED
        BY <1>8, <2>1, <2>3
<1>12. CASE UNCHANGED focusVars
    BY <1>12 DEF focusVars, FocusInv, FocusTypeOK, ProtectedAsStored, StillSaid, Says
<1>. QED
    BY <1>2, <1>3, <1>4, <1>5, <1>6, <1>7, <1>9, <1>10, <1>11, <1>12 DEF FocusNext, FocusNight

(* Whatever the model answers, however its actions combine, whoever writes *)
(* meanwhile and whichever keys the list names: a part of the program      *)
(* whose key is in the list reads back what it stored, and an undisturbed  *)
(* answer loses no statement that it did not drop (prune/focus.ts).        *)
THEOREM FocusStaysKept == FocusSpec => []FocusIsKept
<1>1. FocusInv => FocusIsKept
    <2> SUFFICES ASSUME FocusInv PROVE ProtectedAsStored /\ ReadIsSaid
        BY DEF FocusIsKept
    <2>1. ProtectedAsStored
        BY DEF FocusInv
    <2>2. ASSUME undisturbed, step.at \in {"asked", "obeys"} PROVE Says(step.all) \subseteq Says(focus) \union stale
        <3>1. step \in Obeying
            BY <2>2 DEF FocusInv, FocusTypeOK, Elsewhere, AtRest
        <3>2. \A k \in Keys \ Protected : StillSaid(k)
            BY <2>2, <3>1 DEF FocusInv
        <3>. QED
            BY <3>2 DEF StillSaid, Says
    <2>. QED
        BY <2>1, <2>2 DEF ReadIsSaid
<1>2. FocusInv /\ [FocusNext]_focusVars => FocusInv'
    BY FocusStep
<1>. QED
    BY <1>1, <1>2, FocusStart, PTL DEF FocusSpec

(***************************************************************************)
(* The context table.  While nobody disturbs the night, a row that is      *)
(* still to be judged is as it was read, so are the candidates of a        *)
(* question that is under way, and a merged row has the text that is being *)
(* embedded for it.                                                        *)
(***************************************************************************)
Looping == [at : {"rows"}, all : [RowIds -> SUBSET Facts], left : SUBSET RowIds,
            seen : SUBSET RowIds, done : Nat]
Asking == [at : {"asked"}, all : [RowIds -> SUBSET Facts], left : SUBSET RowIds,
           seen : SUBSET RowIds, done : Nat,
           row : RowIds, shown : UNION {[C -> SUBSET Facts] : C \in SUBSET RowIds}]
Indexing == [at : {"index"}, all : [RowIds -> SUBSET Facts], left : SUBSET RowIds,
             seen : SUBSET RowIds, done : Nat, target : RowIds, text : SUBSET Facts]

ContextTypeOK ==
  /\ context \in [RowIds -> SUBSET Facts] /\ vec \in [RowIds -> SUBSET Facts]
  /\ inserted \in 0..MaxRows
  /\ jobs \subseteq [id : RowIds, text : SUBSET Facts]
  /\ prune \in {Off} \union Looping \union Asking \union Indexing

AsRead == \A i \in prune.left \ prune.seen : prune.all[i] = context[i]
AsShown ==
  /\ prune.row \notin prune.left /\ Row = context[prune.row]
  /\ \A c \in DOMAIN prune.shown :
       c \in RowIds \ {prune.row} /\ prune.shown[c] = context[c] /\ c \in Held

ContextInv ==
  /\ ContextTypeOK
  /\ quiet => /\ facts \subseteq Told
              /\ indexed \subseteq RowIds
              /\ \A i \in indexed : vec[i] = context[i] \/ (prune \in Indexing /\ prune.target = i)
              /\ prune # Off => AsRead
              /\ prune \in Asking => AsShown
              /\ prune \in Indexing => context[prune.target] = prune.text

(* What the table tells is what its rows tell, the empty ones included.    *)
LEMMA AllRowsTell == Told = UNION {context[i] : i \in RowIds}
  BY DEF Told, Held, Nothing

LEMMA ContextStart == ContextInit => ContextInv
<1> SUFFICES ASSUME ContextInit PROVE ContextInv
    OBVIOUS
<1>1. ContextTypeOK
    BY ContextAssumption DEF ContextInit, ContextTypeOK, Nothing
<1>2. prune \notin Asking /\ prune \notin Indexing
    BY DEF ContextInit, Asking, Indexing, Off
<1>. QED
    BY <1>1, <1>2 DEF ContextInit, ContextInv, Nothing

(* Whoever writes beside the prune disturbs it: the types is all there is. *)
LEMMA OthersDisturb ==
  ASSUME ContextTypeOK,
         \/ \E t \in Texts : InsertsEmbedded(t) \/ InsertsBare(t)
         \/ \E i \in RowIds : Deletes(i) \/ \E t \in Texts : Updates(i, t) \/ MergesNew(i, t)
         \/ \E j \in jobs : JobEnds(j)
  PROVE  ContextInv'
<1> USE ContextAssumption DEF ContextTypeOK, Texts, Nothing
<1>1. quiet' = FALSE /\ prune' = prune
    BY DEF InsertsEmbedded, InsertsBare, Deletes, Updates, MergesNew, JobEnds, Disturbs
<1>2. RowIds' = RowIds /\ \A n \in Nat : n < MaxRows => n + 1 \in RowIds
    BY DEF RowIds
<1>3. ASSUME NEW t \in Texts, InsertsEmbedded(t) PROVE ContextTypeOK'
    BY <1>1, <1>2, <1>3 DEF InsertsEmbedded, Off, Looping, Asking, Indexing
<1>4. ASSUME NEW t \in Texts, InsertsBare(t) PROVE ContextTypeOK'
    <2>1. inserted' \in RowIds /\ inserted' \in 0..MaxRows
        BY <1>2, <1>4 DEF InsertsBare
    <2>2. jobs' \subseteq [id : RowIds, text : SUBSET Facts]
        BY <1>4, <2>1 DEF InsertsBare
    <2>. QED
        BY <1>1, <1>2, <1>4, <2>1, <2>2 DEF InsertsBare, Off, Looping, Asking, Indexing
<1>5. ASSUME NEW i \in RowIds, Deletes(i) PROVE ContextTypeOK'
    BY <1>1, <1>2, <1>5 DEF Deletes, Cleared, Off, Looping, Asking, Indexing
<1>6. ASSUME NEW i \in RowIds, NEW t \in Texts, Updates(i, t) PROVE ContextTypeOK'
    BY <1>1, <1>2, <1>6 DEF Updates, Off, Looping, Asking, Indexing
<1>7. ASSUME NEW i \in RowIds, NEW t \in Texts, MergesNew(i, t) PROVE ContextTypeOK'
    BY <1>1, <1>2, <1>7 DEF MergesNew, Off, Looping, Asking, Indexing
<1>8. ASSUME NEW j \in jobs, JobEnds(j) PROVE ContextTypeOK'
    BY <1>1, <1>2, <1>8 DEF JobEnds, Off, Looping, Asking, Indexing
<1>9. ContextTypeOK'
    BY <1>3, <1>4, <1>5, <1>6, <1>7, <1>8
<1>. QED
    BY <1>1, <1>9 DEF ContextInv

LEMMA LoopsOn ==
  ASSUME prune \in Asking \union Indexing, NEW all \in [RowIds -> SUBSET Facts],
         NEW seen \in SUBSET RowIds, NEW done \in Nat
  PROVE  /\ Loop(all, seen, done) \in Looping
         /\ Loop(all, seen, done) \notin Asking \union Indexing
         /\ Loop(all, seen, done).left = prune.left
         /\ Loop(all, seen, done).all = all /\ Loop(all, seen, done).seen = seen
  BY DEF Loop, Looping, Asking, Indexing

(* A question under way names a row and candidates as they are.            *)
LEMMA AskedAbout ==
  ASSUME ContextInv, prune.at = "asked"
  PROVE  /\ prune \in Asking /\ prune.row \in RowIds /\ Row \in SUBSET Facts
         /\ Judged \in [RowIds -> SUBSET Facts] /\ prune.seen \in SUBSET RowIds
         /\ prune.done \in Nat /\ prune.done + 1 \in Nat /\ DOMAIN prune.shown \subseteq RowIds
         /\ \A c \in DOMAIN prune.shown : prune.shown[c] \in SUBSET Facts
         /\ \A i \in prune.left : i # prune.row /\ quiet => Judged[i] = prune.all[i]
         /\ quiet => AsRead /\ AsShown /\ facts \subseteq Told /\ indexed \subseteq RowIds
         /\ quiet => \A i \in indexed : vec[i] = context[i]
<1>1. prune \in Asking
    BY DEF ContextInv, ContextTypeOK, Looping, Indexing, Off
<1>2. PICK C \in SUBSET RowIds : prune.shown \in [C -> SUBSET Facts]
    BY <1>1 DEF Asking
<1>3. quiet => AsRead /\ AsShown /\ facts \subseteq Told /\ indexed \subseteq RowIds
    BY <1>1 DEF ContextInv, Asking, Off
<1>4. quiet => \A i \in indexed : vec[i] = context[i]
    BY <1>1 DEF ContextInv, Asking, Indexing
<1>5. /\ prune.row \in RowIds /\ Row \in SUBSET Facts /\ prune.seen \in SUBSET RowIds
      /\ Judged \in [RowIds -> SUBSET Facts] /\ prune.done \in Nat /\ prune.done + 1 \in Nat
    BY <1>1 DEF Asking, Row, Judged, Nothing
<1>6. \A i \in prune.left : i # prune.row => Judged[i] = prune.all[i]
    BY <1>1 DEF Asking, Judged
<1>7. DOMAIN prune.shown \subseteq RowIds /\ \A c \in DOMAIN prune.shown : prune.shown[c] \in SUBSET Facts
    BY <1>2
<1>. QED
    BY <1>1, <1>3, <1>4, <1>5, <1>6, <1>7

LEMMA ContextStep == ContextInv /\ [ContextNext]_contextVars => ContextInv'
<1> SUFFICES ASSUME ContextInv, [ContextNext]_contextVars PROVE ContextInv'
    OBVIOUS
<1> USE ContextAssumption DEF Nothing
<1>1. /\ ContextTypeOK
      /\ context \in [RowIds -> SUBSET Facts] /\ vec \in [RowIds -> SUBSET Facts]
      /\ prune \in {Off} \union Looping \union Asking \union Indexing
    BY DEF ContextInv, ContextTypeOK
<1>2. CASE PruneBegins
    <2>1. /\ prune' = [at |-> "rows", all |-> context, left |-> Held, seen |-> {}, done |-> 0]
          /\ facts' = Told /\ indexed' = Embedded /\ UNCHANGED <<context, vec, inserted, jobs>>
        BY <1>2 DEF PruneBegins, tableVars
    <2>2. prune' \in Looping /\ prune' \notin Asking /\ prune' \notin Indexing
        BY <1>1, <2>1 DEF Looping, Asking, Indexing, Held
    <2>3. ContextTypeOK'
        BY <1>1, <2>1, <2>2 DEF ContextTypeOK
    <2>4. facts' = Told' /\ indexed' \subseteq RowIds /\ \A i \in indexed' : vec'[i] = context'[i]
        BY <2>1 DEF Told, Embedded, Held
    <2>5. AsRead'
        BY <2>1 DEF AsRead
    <2>. QED
        BY <2>2, <2>3, <2>4, <2>5 DEF ContextInv
<1>3. ASSUME NEW i \in RowIds, Asks(i) PROVE ContextInv'
    <2>1. PICK C \in SUBSET Candidates(i) :
             prune' = [at |-> "asked", all |-> prune.all, left |-> prune.left \ {i},
                       seen |-> prune.seen \union {i}, done |-> prune.done,
                       row |-> i, shown |-> [c \in C |-> context[c]]]
        BY <1>3 DEF Asks
    <2>2. /\ prune.at = "rows" /\ i \in prune.left \ prune.seen
          /\ UNCHANGED <<context, vec, inserted, jobs, quiet, facts, indexed>>
        BY <1>3 DEF Asks, tableVars, historyVars
    <2>3. prune \in Looping
        BY <1>1, <2>2 DEF Asking, Indexing, Off
    <2>4. C \in SUBSET (RowIds \ {i}) /\ C \subseteq Held
        BY DEF Candidates, Held
    <2>5. prune'.shown \in [C -> SUBSET Facts]
        BY <1>1, <2>1, <2>4
    <2>6. prune' \in Asking /\ prune' \notin Looping /\ prune' \notin Indexing /\ prune' # Off
        BY <2>1, <2>3, <2>4, <2>5 DEF Asking, Looping, Indexing, Off
    <2>7. ContextTypeOK'
        BY <1>1, <2>2, <2>6 DEF ContextTypeOK
    <2>8. ASSUME quiet PROVE AsRead' /\ AsShown'
        <3>1. \A h \in prune.left \ prune.seen : prune.all[h] = context[h]
            BY <2>3, <2>8 DEF ContextInv, AsRead, Looping, Off
        <3>2. AsRead'
            BY <2>1, <2>2, <3>1 DEF AsRead
        <3>3. Row' = context'[prune'.row] /\ prune'.row \notin prune'.left
            BY <2>1, <2>2, <3>1 DEF Row
        <3>4. \A c \in DOMAIN prune'.shown :
                 c \in RowIds \ {prune'.row} /\ prune'.shown[c] = context'[c] /\ c \in Held'
            BY <2>1, <2>2, <2>4 DEF Held
        <3>. QED
            BY <3>2, <3>3, <3>4 DEF AsShown
    <2>9. quiet => facts' \subseteq Told' /\ indexed' \subseteq RowIds /\ \A h \in indexed' : vec'[h] = context'[h]
        BY <2>2, <2>3 DEF ContextInv, Looping, Indexing, Told, Held
    <2>. QED
        BY <2>2, <2>6, <2>7, <2>8, <2>9 DEF ContextInv
<1>4. ASSUME NEW i \in RowIds, PassesRow(i) PROVE ContextInv'
    <2>1. /\ prune.at = "rows" /\ i \in prune.left
          /\ prune' = [prune EXCEPT !.left = @ \ {i}, !.seen = @ \union {i}, !.all[i] = {}]
          /\ UNCHANGED <<context, vec, inserted, jobs, quiet, facts, indexed>>
        BY <1>4 DEF PassesRow, tableVars, historyVars
    <2>2. prune \in Looping
        BY <1>1, <2>1 DEF Asking, Indexing, Off
    <2>3. /\ prune' = [at |-> "rows", all |-> [prune.all EXCEPT ![i] = {}], left |-> prune.left \ {i},
                       seen |-> prune.seen \union {i}, done |-> prune.done]
        BY <2>1, <2>2 DEF Looping
    <2>4. prune' \in Looping /\ prune' \notin Asking /\ prune' \notin Indexing
        BY <2>2, <2>3 DEF Looping, Asking, Indexing
    <2>5. ContextTypeOK'
        BY <1>1, <2>1, <2>4 DEF ContextTypeOK
    <2>6. quiet => AsRead'
        BY <2>1, <2>2, <2>3 DEF ContextInv, AsRead, Looping, Off
    <2>7. quiet => facts' \subseteq Told' /\ indexed' \subseteq RowIds /\ \A h \in indexed' : vec'[h] = context'[h]
        BY <2>1, <2>2 DEF ContextInv, Looping, Indexing, Told, Held
    <2>. QED
        BY <2>1, <2>4, <2>5, <2>6, <2>7 DEF ContextInv
<1>5. CASE Keeps
    <2>1. /\ prune.at = "asked" /\ prune' = Loop(Judged, prune.seen, prune.done)
          /\ UNCHANGED <<context, vec, inserted, jobs, quiet, facts, indexed>>
        BY <1>5 DEF Keeps, tableVars, historyVars
    <2>2. /\ prune' \in Looping /\ prune' \notin Asking \union Indexing
          /\ prune'.left = prune.left /\ prune'.all = Judged /\ prune'.seen = prune.seen
        BY <2>1, AskedAbout, LoopsOn
    <2>3. ContextTypeOK'
        BY <1>1, <2>1, <2>2 DEF ContextTypeOK
    <2>4. quiet => AsRead' /\ facts' \subseteq Told' /\ indexed' \subseteq RowIds
                   /\ \A h \in indexed' : vec'[h] = context'[h]
        BY <2>1, <2>2, AskedAbout DEF AsRead, AsShown, Told, Held
    <2>. QED
        BY <2>1, <2>2, <2>3, <2>4 DEF ContextInv
<1>6. CASE DropsSelf
    <2>1. /\ prune.at = "asked" /\ prune' = Loop(Judged, prune.seen, prune.done + 1)
          /\ context' = Cleared(context, {prune.row}) /\ vec' = Cleared(vec, {prune.row})
          /\ UNCHANGED <<inserted, jobs, quiet, facts, indexed>>
        BY <1>6, AskedAbout DEF DropsSelf, Pruned, historyVars
    <2>2. /\ prune' \in Looping /\ prune' \notin Asking \union Indexing
          /\ prune'.left = prune.left /\ prune'.all = Judged /\ prune'.seen = prune.seen
        BY <2>1, AskedAbout, LoopsOn
    <2>3. ContextTypeOK'
        BY <1>1, <2>1, <2>2 DEF ContextTypeOK, Cleared
    <2>4. ASSUME quiet PROVE AsRead'
        BY <2>1, <2>2, <2>4, AskedAbout DEF AsRead, AsShown, Cleared, Asking
    <2>5. ASSUME quiet PROVE Told \subseteq Told'
        <3>1. PICK c \in DOMAIN prune.shown : Row \subseteq prune.shown[c]
            BY <1>6 DEF DropsSelf
        <3>2. c \in RowIds \ {prune.row} /\ context[prune.row] \subseteq context[c]
            BY <2>1, <2>5, <3>1, AskedAbout DEF AsShown
        <3>. QED
            BY <1>1, <2>1, <3>2, AllRowsTell DEF Cleared, Told, Held
    <2>6. quiet => facts' \subseteq Told' /\ indexed' \subseteq RowIds /\ \A h \in indexed' : vec'[h] = context'[h]
        BY <2>1, <2>5, AskedAbout DEF Cleared
    <2>. QED
        BY <2>1, <2>2, <2>3, <2>4, <2>6 DEF ContextInv
<1>7. ASSUME NEW c \in RowIds, DropsTarget(c) PROVE ContextInv'
    <2>1. /\ prune.at = "asked" /\ prune' = Loop(Judged, prune.seen \union {c}, prune.done + 1)
          /\ c \in DOMAIN prune.shown /\ prune.shown[c] \subseteq Row
          /\ context' = Cleared(context, {c}) /\ vec' = Cleared(vec, {c})
          /\ UNCHANGED <<inserted, jobs, quiet, facts, indexed>>
        BY <1>7 DEF DropsTarget, Pruned, historyVars
    <2>2. /\ prune' \in Looping /\ prune' \notin Asking \union Indexing
          /\ prune'.left = prune.left /\ prune'.all = Judged /\ prune'.seen = prune.seen \union {c}
        BY <2>1, AskedAbout, LoopsOn
    <2>3. ContextTypeOK'
        BY <1>1, <2>1, <2>2 DEF ContextTypeOK, Cleared
    <2>4. ASSUME quiet PROVE AsRead'
        BY <2>1, <2>2, <2>4, AskedAbout DEF AsRead, AsShown, Cleared, Asking
    <2>5. ASSUME quiet PROVE Told \subseteq Told'
        <3>1. c # prune.row /\ context[c] \subseteq context[prune.row]
            BY <2>1, <2>5, AskedAbout DEF AsShown
        <3>2. prune.row \in RowIds
            BY <2>1, AskedAbout
        <3>. QED
            BY <1>1, <2>1, <3>1, <3>2, AllRowsTell DEF Cleared, Told, Held
    <2>6. quiet => facts' \subseteq Told' /\ indexed' \subseteq RowIds /\ \A h \in indexed' : vec'[h] = context'[h]
        BY <2>1, <2>5, AskedAbout DEF Cleared
    <2>. QED
        BY <2>1, <2>2, <2>3, <2>4, <2>6 DEF ContextInv
<1>8. ASSUME NEW c \in RowIds, Merges(c) PROVE ContextInv'
    <2> DEFINE both == Row \union prune.shown[c]
    <2>1. /\ prune.at = "asked" /\ c \in DOMAIN prune.shown
          /\ prune' = [at |-> "index", all |-> Judged, left |-> prune.left,
                       seen |-> prune.seen \union {c}, done |-> prune.done + 1,
                       target |-> c, text |-> both]
          /\ context' = Cleared([context EXCEPT ![c] = IF c \in Held THEN both ELSE @], {prune.row})
          /\ vec' = Cleared(vec, {prune.row})
          /\ UNCHANGED <<inserted, jobs, quiet, facts, indexed>>
        BY <1>8 DEF Merges, MergeSeen, historyVars
    <2>2. prune \in Asking /\ both \in SUBSET Facts /\ prune.row \in RowIds
        BY <2>1, AskedAbout
    <2>3. prune' \in Indexing /\ prune' \notin Looping \union Asking /\ prune' # Off
        BY <2>1, <2>2, AskedAbout DEF Looping, Asking, Indexing, Off
    <2>4. ContextTypeOK'
        BY <1>1, <2>1, <2>2, <2>3 DEF ContextTypeOK, Cleared
    <2>5. quiet => /\ c # prune.row /\ c \in Held /\ Row = context[prune.row]
                   /\ prune.shown[c] = context[c]
        BY <2>1, AskedAbout DEF AsShown
    <2>6. ASSUME quiet, NEW h \in RowIds
          PROVE  context'[h] = IF h = prune.row THEN {} ELSE IF h = c THEN both ELSE context[h]
        BY <1>1, <2>1, <2>5, <2>6 DEF Cleared
    <2>7. ASSUME quiet PROVE AsRead'
        BY <2>1, <2>2, <2>6, <2>7, AskedAbout DEF AsRead, AsShown, Asking
    <2>8. ASSUME quiet PROVE Told \subseteq Told'
        <3>1. \A h \in RowIds : context[h] \subseteq context'[h] \union context'[c]
            BY <2>2, <2>5, <2>6, <2>8
        <3>2. Told' = UNION {context'[h] : h \in RowIds}
            BY DEF Told, Held
        <3>. QED
            BY <3>1, <3>2, AllRowsTell
    <2>9. quiet => facts' \subseteq Told' /\ indexed' \subseteq RowIds /\ context'[prune'.target] = prune'.text
        BY <2>1, <2>5, <2>6, <2>8, AskedAbout
    <2>10. ASSUME quiet, NEW h \in indexed' PROVE vec'[h] = context'[h] \/ prune'.target = h
        <3>1. h \in RowIds /\ vec[h] = context[h]
            BY <2>1, <2>10, AskedAbout
        <3>2. vec'[h] = IF h = prune.row THEN {} ELSE vec[h]
            BY <2>1, <3>1 DEF Cleared
        <3>. QED
            BY <2>1, <2>6, <2>10, <3>1, <3>2
    <2>. QED
        BY <2>1, <2>3, <2>4, <2>7, <2>9, <2>10 DEF ContextInv
<1>9. CASE Indexes
    <2>1. /\ prune.at = "index" /\ prune' = Loop(prune.all, prune.seen, prune.done)
          /\ \/ vec' = [vec EXCEPT ![prune.target] = prune.text] /\ quiet' = quiet
             \/ vec' = vec /\ quiet' = FALSE
          /\ UNCHANGED <<context, inserted, jobs, facts, indexed>>
        BY <1>9 DEF Indexes
    <2>2. prune \in Indexing
        BY <1>1, <2>1 DEF Looping, Asking, Off
    <2>3. /\ prune.all \in [RowIds -> SUBSET Facts] /\ prune.seen \in SUBSET RowIds /\ prune.done \in Nat
          /\ prune.target \in RowIds /\ prune.text \in SUBSET Facts
        BY <2>2 DEF Indexing
    <2>4. /\ prune' \in Looping /\ prune' \notin Asking \union Indexing
          /\ prune'.left = prune.left /\ prune'.all = prune.all /\ prune'.seen = prune.seen
        BY <2>1, <2>2, <2>3, LoopsOn
    <2>5. ContextTypeOK'
        BY <1>1, <2>1, <2>3, <2>4 DEF ContextTypeOK
    <2>6. quiet' => AsRead' /\ facts' \subseteq Told' /\ indexed' \subseteq RowIds
        <3>1. Told' = Told
            BY <2>1 DEF Told, Held
        <3>2. prune # Off
            BY <2>2 DEF Indexing, Off
        <3>3. quiet => AsRead /\ facts \subseteq Told /\ indexed \subseteq RowIds
            BY <3>2 DEF ContextInv
        <3>4. AsRead => AsRead'
            BY <2>1, <2>4 DEF AsRead
        <3>. QED
            BY <2>1, <3>1, <3>3, <3>4
    <2>7. quiet' => \A h \in indexed' : vec'[h] = context'[h]
        BY <1>1, <2>1, <2>2, <2>3 DEF ContextInv
    <2>. QED
        BY <2>4, <2>5, <2>6, <2>7 DEF ContextInv
<1>10. CASE PruneEnds
    <2>1. /\ prune' = Off /\ quiet' = (quiet /\ prune.at # "index")
          /\ UNCHANGED <<context, vec, inserted, jobs, facts, indexed>>
        BY <1>10 DEF PruneEnds, tableVars
    <2>2. prune' \notin Asking \union Indexing
        BY <2>1 DEF Off, Asking, Indexing
    <2>3. ContextTypeOK'
        BY <1>1, <2>1 DEF ContextTypeOK
    <2>4. quiet' => /\ facts' \subseteq Told' /\ indexed' \subseteq RowIds
                    /\ \A h \in indexed' : vec'[h] = context'[h]
        BY <2>1 DEF ContextInv, Told, Held, Indexing
    <2>. QED
        BY <2>1, <2>2, <2>3, <2>4 DEF ContextInv
<1>11. CASE UNCHANGED contextVars
    <2>1. UNCHANGED <<context, vec, inserted, jobs, prune, quiet, facts, indexed>>
        BY <1>11 DEF contextVars, tableVars, historyVars
    <2>. QED
        BY <2>1 DEF ContextInv, ContextTypeOK, AsRead, AsShown, Row, Told, Held
<1>. QED
    BY <1>1, <1>2, <1>3, <1>4, <1>5, <1>6, <1>7, <1>8, <1>9, <1>10, <1>11, OthersDisturb
    DEF ContextNext, PruneContext

(* A night that nobody disturbs loses no fact and leaves no row with an    *)
(* embedding that is not its own, whatever the answers (prune/context.ts). *)
THEOREM ContextStaysKept == ContextSpec => []ContextIsKept
<1>1. ContextInv => ContextIsKept
    BY DEF ContextInv, ContextIsKept, Indexing
<1>. QED
    BY <1>1, ContextStart, ContextStep, PTL DEF ContextSpec

(***************************************************************************)
(* Facts across the tables.  An embedding is of the row's own text unless  *)
(* somebody reworded it, so two rows that look alike to the night tell the *)
(* same, or both facts were decided about; and of the rows that tell a     *)
(* fact, the one that changed last outlives the others.                    *)
(***************************************************************************)
ALayerRow ==
  [layer : Layers, fact : LayerFacts, active : BOOLEAN, lapsed : BOOLEAN, superseded : BOOLEAN,
   updated : Nat, vec : LayerFacts \union {NoFact}, home : Layers \union {NoFact}]
SomeRows == UNION {[C -> ALayerRow] : C \in SUBSET LayerIds}

LayersTypeOK ==
  /\ layerRows \in [LayerIds -> {NoLayerRow} \union ALayerRow]
  /\ clock \in Nat
  /\ reflect \in LayerFacts \union {NoFact}
  /\ promote \in {NoPromotion} \union [at : {"next"}, left : SomeRows]
                 \union [at : {"embed"}, left : SomeRows, text : LayerFacts]

RowIsSound(i) ==
  layerRows[i] # NoLayerRow =>
    /\ layerRows[i].updated <= clock
    /\ layerRows[i].layer = "archive" => ~layerRows[i].lapsed
    /\ \/ layerRows[i].vec \in {NoFact, layerRows[i].fact}
       \/ {layerRows[i].vec, layerRows[i].fact} \subseteq decided

LayersInv ==
  /\ LayersTypeOK
  /\ \A i \in LayerIds : RowIsSound(i)
  /\ FactIsHeld

(* What a step owes: for every row readers are shown, another that tells   *)
(* them the same, unless its fact is decided about.                        *)
Witnessed ==
  \A i \in LayerIds : Shown(i) /\ layerRows[i].fact \notin decided' =>
    \E k \in LayerIds : Shown(k)' /\ layerRows'[k].fact = layerRows[i].fact

LEMMA LayersStart == LayersInit => LayersInv
<1> SUFFICES ASSUME LayersInit PROVE LayersInv
    OBVIOUS
<1>1. LayersTypeOK
    BY DEF LayersInit, LayersTypeOK
<1>. QED
    BY <1>1 DEF LayersInit, LayersInv, RowIsSound, FactIsHeld

LEMMA HeldOn ==
  ASSUME FactIsHeld, Witnessed, Tells \/ promised' = promised, decided \subseteq decided'
  PROVE  FactIsHeld'
<1> SUFFICES ASSUME NEW f \in promised' \ decided'
             PROVE  \E k \in LayerIds : Shown(k)' /\ layerRows'[k].fact = f
    BY DEF FactIsHeld, Shown
<1>1. CASE f \in promised
    <2>1. PICK i \in Stored : Shown(i) /\ layerRows[i].fact = f
        BY <1>1 DEF FactIsHeld
    <2>2. i \in LayerIds
        BY DEF Stored
    <2>. QED
        BY <2>1, <2>2 DEF Witnessed
<1>2. CASE f \notin promised
    BY <1>2 DEF Tells
<1>. QED
    BY <1>1, <1>2

(* The next id is free: below it are all the others.                       *)
LEMMA FreshIsFree ==
  ASSUME FreshId \in LayerIds
  PROVE  FreshId \notin Stored
<1> DEFINE D == Stored \union {i \in LayerIds : \E j \in Stored : i < j}
           c == Cardinality(D)
<1>1. D \in SUBSET (1..MaxLayerRows) /\ MaxLayerRows \in Nat
    BY LayersAssumption DEF Stored, LayerIds
<1>2. IsFiniteSet(D) /\ c \in Nat
    BY <1>1, LogIsFinite
<1> SUFFICES ASSUME FreshId \in Stored PROVE FALSE
    OBVIOUS
<1>3. 1..(c + 1) \in SUBSET D
    <2> SUFFICES ASSUME NEW i \in 1..(c + 1) PROVE i \in D
        OBVIOUS
    <2>1. FreshId = c + 1 /\ c + 1 \in 1..MaxLayerRows
        BY DEF FreshId, LayerIds
    <2>2. i \in LayerIds
        BY <1>1, <1>2, <2>1 DEF LayerIds
    <2>3. i = c + 1 \/ i < c + 1
        BY <1>2
    <2>. QED
        BY <2>1, <2>2, <2>3
<1>4. Cardinality(1..(c + 1)) = c + 1
    BY <1>2, CountUpTo
<1> HIDE DEF D, c
<1>5. c + 1 <= Cardinality(D)
    BY <1>2, <1>3, <1>4, FS_Subset
<1>. QED
    BY <1>2, <1>5 DEF c

(* A new row hides no other.                                               *)
LEMMA RowInserted ==
  ASSUME LayersInv, FreshId \in LayerIds, UNCHANGED <<clock, decided>>,
         NEW row \in ALayerRow, row.updated = clock, ~row.lapsed, row.vec \in {NoFact, row.fact},
         layerRows' = [layerRows EXCEPT ![FreshId] = row]
  PROVE  /\ layerRows' \in [LayerIds -> {NoLayerRow} \union ALayerRow]
         /\ \A i \in LayerIds : RowIsSound(i)'
         /\ Witnessed
<1>1. layerRows \in [LayerIds -> {NoLayerRow} \union ALayerRow] /\ clock \in Nat
    BY DEF LayersInv, LayersTypeOK
<1>2. layerRows' \in [LayerIds -> {NoLayerRow} \union ALayerRow]
    BY <1>1
<1>3. ASSUME NEW i \in LayerIds PROVE RowIsSound(i)'
    BY <1>1, <1>3 DEF LayersInv, RowIsSound, NoLayerRow
<1>4. \A i \in Stored : layerRows'[i] = layerRows[i]
    BY <1>1, FreshIsFree DEF Stored
<1>5. Witnessed
    BY <1>4 DEF Witnessed, Shown, Stored, NoLayerRow
<1>. QED
    BY <1>2, <1>3, <1>5

(* Among the rows that are shown with a fact one is outlived by none that  *)
(* tells the same: the last one that changed, by its table when two did.   *)
LEMMA OneOutlives ==
  ASSUME LayersInv, NEW f \in LayerFacts, f \notin decided,
         NEW i \in LayerIds, Shown(i), layerRows[i].fact = f
  PROVE  \E k \in LayerIds \ Stale : Shown(k) /\ layerRows[k].fact = f
<1> SUFFICES ASSUME \A k \in LayerIds : Shown(k) /\ layerRows[k].fact = f => k \in Stale
             PROVE  FALSE
    OBVIOUS
<1> DEFINE same == {k \in LayerIds : Shown(k) /\ layerRows[k].fact = f}
           rest(k) == 3 * (clock - layerRows[k].updated) + Place[layerRows[k].layer]
<1>1. /\ layerRows \in [LayerIds -> {NoLayerRow} \union ALayerRow] /\ clock \in Nat
      /\ \A k \in LayerIds : RowIsSound(k)
    BY DEF LayersInv, LayersTypeOK
<1>2. \A k \in LayerIds : Shown(k) => k \in Stored /\ layerRows[k] \in ALayerRow
    BY <1>1 DEF Shown, Stored
<1>3. ASSUME NEW k \in same
      PROVE  /\ layerRows[k].updated \in 0..clock /\ Place[layerRows[k].layer] \in 1..3
             /\ rest(k) \in Nat
    <2>1. layerRows[k] \in ALayerRow /\ layerRows[k].updated <= clock /\ layerRows[k].updated \in Nat
        BY <1>1, <1>2 DEF RowIsSound, NoLayerRow, ALayerRow, Stored
    <2>2. Place[layerRows[k].layer] \in 1..3
        BY <2>1 DEF ALayerRow, Place, Layers
    <2>. QED
        BY <1>1, <2>1, <2>2
<1> DEFINE ages == {rest(k) : k \in same}
<1>4. ages \in SUBSET Nat /\ ages # {}
    <2>1. i \in same
        OBVIOUS
    <2>. QED
        BY <1>3, <2>1
<1>5. PICK least \in ages : \A a \in ages : least <= a
    <2> HIDE DEF ages
    <2>. QED
        BY <1>4, LeastOf
<1>6. PICK k \in same : least = rest(k)
    OBVIOUS
<1>7. k \in CrossLayer /\ layerRows[k].vec = f
    <2>1. k \in Stale
        OBVIOUS
    <2>2. k \in CrossLayer /\ layerRows[k].vec # NoFact
        BY <2>1 DEF Stale, CrossLayer
    <2>3. k \in Stored /\ layerRows[k].fact = f
        BY <2>2 DEF CrossLayer
    <2>. QED
        BY <1>1, <2>2, <2>3 DEF RowIsSound, Stored
<1>8. PICK h \in CrossLayer : SameFact(h, k) /\ Outlives(h, k)
    BY DEF Stale
<1>9. h \in same
    <2>1. h \in Stored /\ Shown(h) /\ h \in LayerIds /\ layerRows[h].vec = f
        BY <1>7, <1>8 DEF CrossLayer, SameFact, Stored
    <2>2. layerRows[h].fact = f
        BY <1>1, <2>1, LayersAssumption DEF RowIsSound, Stored
    <2>. QED
        BY <2>1, <2>2
<1>10. rest(h) < rest(k)
    <2>1. /\ layerRows[h].updated \in Nat /\ Place[layerRows[h].layer] \in 1..3 /\ clock \in Nat
          /\ layerRows[k].updated \in Nat /\ Place[layerRows[k].layer] \in 1..3
        BY <1>1, <1>3, <1>9
    <2>. QED
        BY <1>8, <2>1 DEF Outlives
<1>11. rest(k) <= rest(h)
    BY <1>5, <1>6, <1>9
<1>. QED
    BY <1>3, <1>9, <1>10, <1>11

LEMMA LayersStep == LayersInv /\ [LayersNext]_layerVars => LayersInv'
<1> SUFFICES ASSUME LayersInv, [LayersNext]_layerVars PROVE LayersInv'
    OBVIOUS
<1>1. /\ layerRows \in [LayerIds -> {NoLayerRow} \union ALayerRow] /\ clock \in Nat
      /\ reflect \in LayerFacts \union {NoFact}
      /\ promote \in {NoPromotion} \union [at : {"next"}, left : SomeRows]
                     \union [at : {"embed"}, left : SomeRows, text : LayerFacts]
      /\ \A i \in LayerIds : RowIsSound(i)
      /\ FactIsHeld
    BY DEF LayersInv, LayersTypeOK
<1>2. \A i \in Stored : i \in LayerIds /\ layerRows[i] \in ALayerRow
    BY <1>1 DEF Stored
<1>3. ASSUME NEW l \in Layers, NEW f \in LayerFacts, WritesLayerRow(l, f) PROVE LayersInv'
    <2>1. PICK active \in BOOLEAN, v \in {NoFact, f} :
             layerRows' = [layerRows EXCEPT ![FreshId] = LayerRow(l, f, active, v)]
        BY <1>3 DEF WritesLayerRow
    <2>2. FreshId \in LayerIds /\ Tells /\ UNCHANGED <<clock, promote, reflect, decided>>
        BY <1>3 DEF WritesLayerRow, Undecided
    <2> DEFINE row == LayerRow(l, f, active, v)
    <2>3. row \in ALayerRow /\ row.updated = clock /\ ~row.lapsed /\ row.vec \in {NoFact, row.fact}
        BY <1>1 DEF LayerRow, ALayerRow
    <2> HIDE DEF row
    <2>4. /\ layerRows' \in [LayerIds -> {NoLayerRow} \union ALayerRow]
          /\ \A i \in LayerIds : RowIsSound(i)'
          /\ Witnessed
        BY <2>1, <2>2, <2>3, RowInserted DEF row
    <2>. QED
        BY <1>1, <2>2, <2>4, HeldOn DEF LayersInv, LayersTypeOK
<1>4. ASSUME NEW i \in LayerIds, NEW f \in LayerFacts, Rewords(i, f) PROVE LayersInv'
    <2>1. /\ i \in Stored /\ layerRows' = [layerRows EXCEPT ![i].fact = f, ![i].updated = clock]
          /\ decided' = decided \union {f, layerRows[i].fact}
          /\ Tells /\ UNCHANGED <<clock, promote, reflect>>
        BY <1>4 DEF Rewords, Decide
    <2>2. /\ layerRows' \in [LayerIds -> {NoLayerRow} \union ALayerRow]
          /\ \A k \in LayerIds : k # i => layerRows'[k] = layerRows[k]
          /\ layerRows'[i] \in ALayerRow /\ layerRows'[i].fact = f /\ layerRows'[i].updated = clock
          /\ layerRows'[i].vec = layerRows[i].vec /\ layerRows'[i].layer = layerRows[i].layer
          /\ layerRows'[i].lapsed = layerRows[i].lapsed
        BY <1>1, <1>2, <2>1 DEF ALayerRow
    <2>3. ASSUME NEW k \in LayerIds PROVE RowIsSound(k)'
        <3>1. CASE k = i
            BY <1>1, <1>2, <2>1, <2>2, <3>1 DEF RowIsSound, Stored
        <3>2. CASE k # i
            BY <1>1, <2>1, <2>2, <3>2 DEF RowIsSound
        <3>. QED
            BY <3>1, <3>2
    <2>4. Witnessed
        BY <2>1, <2>2 DEF Witnessed, Shown, Stored
    <2>. QED
        BY <1>1, <2>1, <2>2, <2>3, <2>4, HeldOn DEF LayersInv, LayersTypeOK
<1>5. ASSUME NEW i \in LayerIds, DeletesLayerRow(i) PROVE LayersInv'
    <2>1. /\ i \in Stored /\ layerRows' = [layerRows EXCEPT ![i] = NoLayerRow]
          /\ decided' = decided \union {layerRows[i].fact}
          /\ UNCHANGED <<clock, promote, reflect, promised>>
        BY <1>5 DEF DeletesLayerRow, Decide
    <2>2. Witnessed
        BY <1>1, <2>1 DEF Witnessed, Shown, Stored
    <2>3. \A k \in LayerIds : RowIsSound(k)'
        BY <1>1, <2>1 DEF RowIsSound
    <2>. QED
        BY <1>1, <2>1, <2>2, <2>3, HeldOn DEF LayersInv, LayersTypeOK
<1>6. ASSUME NEW i \in LayerIds, SetsStatusSafe(i) PROVE LayersInv'
    <2>1. /\ i \in Stored
          /\ layerRows' = [layerRows EXCEPT ![i].active = ~@, ![i].updated = clock]
          /\ decided' = decided \union (IF layerRows[i].active THEN {layerRows[i].fact} ELSE {})
          /\ Tells /\ UNCHANGED <<clock, promote, reflect>>
        BY <1>6 DEF SetsStatusSafe, Decide, In
    <2>2. /\ layerRows' \in [LayerIds -> {NoLayerRow} \union ALayerRow]
          /\ \A k \in LayerIds : k # i => layerRows'[k] = layerRows[k]
          /\ layerRows'[i] \in ALayerRow /\ layerRows'[i].updated = clock
          /\ layerRows'[i].fact = layerRows[i].fact /\ layerRows'[i].vec = layerRows[i].vec
          /\ layerRows'[i].layer = layerRows[i].layer /\ layerRows'[i].lapsed = layerRows[i].lapsed
        BY <1>1, <1>2, <2>1 DEF ALayerRow
    <2>3. ASSUME NEW k \in LayerIds PROVE RowIsSound(k)'
        <3>1. CASE k = i
            BY <1>1, <1>2, <2>1, <2>2, <3>1 DEF RowIsSound, Stored
        <3>2. CASE k # i
            BY <1>1, <2>1, <2>2, <3>2 DEF RowIsSound
        <3>. QED
            BY <3>1, <3>2
    <2>4. i \in In("context") \union In("shared")
        BY <1>6 DEF SetsStatusSafe
    <2>5. Witnessed
        BY <1>2, <2>1, <2>2, <2>4 DEF Witnessed, Shown, Stored, In
    <2>. QED
        BY <1>1, <2>1, <2>2, <2>3, <2>5, HeldOn DEF LayersInv, LayersTypeOK
<1>7. ASSUME NEW i \in LayerIds, Lapses(i) PROVE LayersInv'
    <2>1. /\ i \in Stored /\ layerRows[i].layer # "archive"
          /\ layerRows' = [layerRows EXCEPT ![i].lapsed = TRUE]
          /\ decided' = decided \union {layerRows[i].fact}
          /\ UNCHANGED <<clock, promote, reflect, promised>>
        BY <1>7 DEF Lapses, Decide, In
    <2>2. /\ layerRows' \in [LayerIds -> {NoLayerRow} \union ALayerRow]
          /\ \A k \in LayerIds : k # i => layerRows'[k] = layerRows[k]
          /\ layerRows'[i] = [layerRows[i] EXCEPT !.lapsed = TRUE]
        BY <1>1, <1>2, <2>1 DEF ALayerRow
    <2>3. ASSUME NEW k \in LayerIds PROVE RowIsSound(k)'
        <3>1. CASE k = i
            BY <1>1, <1>2, <2>1, <2>2, <3>1 DEF RowIsSound, Stored, ALayerRow
        <3>2. CASE k # i
            BY <1>1, <2>1, <2>2, <3>2 DEF RowIsSound
        <3>. QED
            BY <3>1, <3>2
    <2>4. Witnessed
        BY <2>1, <2>2 DEF Witnessed, Shown, Stored
    <2>. QED
        BY <1>1, <2>1, <2>2, <2>3, <2>4, HeldOn DEF LayersInv, LayersTypeOK
<1>8. CASE Ticks
    <2>1. clock' = clock + 1 /\ UNCHANGED <<layerRows, promote, reflect, decided, promised>>
        BY <1>8 DEF Ticks
    <2>2. \A k \in LayerIds : RowIsSound(k)'
        BY <1>1, <1>2, <2>1 DEF RowIsSound, Stored, ALayerRow
    <2>. QED
        BY <1>1, <2>1, <2>2 DEF LayersInv, LayersTypeOK, FactIsHeld, Shown, Stored
<1>9. CASE CrossLayerDedup
    <2>1. /\ \E chosen \in SUBSET LayerIds :
                /\ chosen \subseteq Stored
                /\ promote' = [at |-> "next", left |-> [i \in chosen |-> layerRows[i]]]
          /\ UNCHANGED <<clock, reflect, promised, decided>>
        BY <1>9 DEF CrossLayerDedup, Undecided, In, Stored
    <2>2. layerRows' = [i \in LayerIds |->
            IF i \in Stale THEN [layerRows[i] EXCEPT !.superseded = TRUE, !.updated = clock]
            ELSE layerRows[i]]
        BY <1>9 DEF CrossLayerDedup
    <2>3. promote' \in [at : {"next"}, left : SomeRows]
        BY <1>2, <2>1 DEF SomeRows
    <2>4. ASSUME NEW i \in Stale
          PROVE  /\ i \in Stored /\ layerRows'[i] \in ALayerRow /\ layerRows'[i].updated = clock
                 /\ layerRows'[i].fact = layerRows[i].fact /\ layerRows'[i].vec = layerRows[i].vec
                 /\ layerRows'[i].layer = layerRows[i].layer /\ layerRows'[i].lapsed = layerRows[i].lapsed
        <3>1. i \in Stored /\ i \in LayerIds /\ layerRows[i] \in ALayerRow
            BY <1>2 DEF Stale, CrossLayer
        <3>. QED
            BY <1>1, <2>2, <3>1 DEF ALayerRow
    <2>5. layerRows' \in [LayerIds -> {NoLayerRow} \union ALayerRow]
        <3>1. \A i \in LayerIds : layerRows'[i] \in {NoLayerRow} \union ALayerRow
            BY <1>1, <2>2, <2>4
        <3>. QED
            BY <2>2, <3>1
    <2>6. ASSUME NEW k \in LayerIds PROVE RowIsSound(k)'
        <3>1. CASE k \in Stale
            BY <1>1, <2>1, <2>4, <3>1 DEF RowIsSound, Stored
        <3>2. CASE k \notin Stale
            BY <1>1, <2>1, <2>2, <3>2 DEF RowIsSound
        <3>. QED
            BY <3>1, <3>2
    <2>7. Witnessed
        <3> SUFFICES ASSUME NEW i \in LayerIds, Shown(i), layerRows[i].fact \notin decided'
                     PROVE  \E k \in LayerIds : Shown(k)' /\ layerRows'[k].fact = layerRows[i].fact
            BY DEF Witnessed
        <3>1. layerRows[i].fact \in LayerFacts /\ layerRows[i].fact \notin decided
            BY <1>2, <2>1 DEF Shown, ALayerRow
        <3>2. PICK k \in LayerIds \ Stale : Shown(k) /\ layerRows[k].fact = layerRows[i].fact
            BY <3>1, OneOutlives
        <3>3. layerRows'[k] = layerRows[k]
            BY <2>2
        <3>. QED
            BY <3>2, <3>3 DEF Shown, Stored
    <2>. QED
        BY <1>1, <2>1, <2>3, <2>5, <2>6, <2>7, HeldOn DEF LayersInv, LayersTypeOK
<1>10. ASSUME NEW i \in LayerIds, PromoteChecks(i) PROVE LayersInv'
    <2>1. promote.at = "next" /\ i \in DOMAIN promote.left
        BY <1>10 DEF PromoteChecks
    <2>2. promote \in [at : {"next"}, left : SomeRows]
        BY <1>1, <2>1 DEF NoPromotion
    <2>3. PICK C \in SUBSET LayerIds : promote.left \in [C -> ALayerRow]
        BY <2>2 DEF SomeRows
    <2> DEFINE rest == [j \in DOMAIN promote.left \ {i} |-> promote.left[j]]
    <2>4. rest \in SomeRows
        <3>1. C \ {i} \in SUBSET LayerIds /\ rest \in [C \ {i} -> ALayerRow]
            BY <2>3
        <3>. QED
            BY <3>1 DEF SomeRows
    <2>5. promote.left[i].fact \in LayerFacts
        BY <2>1, <2>3 DEF ALayerRow
    <2> HIDE DEF rest
    <2>6. Promoting(i) = [at |-> "next", left |-> rest]
        BY <2>2 DEF Promoting, rest
    <2>7. promote' \in [at : {"next"}, left : SomeRows] \union [at : {"embed"}, left : SomeRows, text : LayerFacts]
        BY <1>10, <2>4, <2>5, <2>6 DEF PromoteChecks
    <2>8. UNCHANGED <<layerRows, clock, reflect, promised, decided>>
        BY <1>10 DEF PromoteChecks, Undecided
    <2>. QED
        BY <1>1, <2>7, <2>8 DEF LayersInv, LayersTypeOK, RowIsSound, FactIsHeld, Shown, Stored
<1>11. CASE Promotes
    <2>1. /\ promote.at = "embed" /\ promote' = [at |-> "next", left |-> promote.left]
          /\ Tells /\ UNCHANGED <<clock, reflect, decided>>
        BY <1>11 DEF Promotes, Undecided
    <2>2. promote.left \in SomeRows /\ promote.text \in LayerFacts
        BY <1>1, <2>1 DEF NoPromotion
    <2>3. promote' \in [at : {"next"}, left : SomeRows]
        BY <2>1, <2>2
    <2>4. CASE layerRows' = layerRows
        <3>1. Witnessed
            BY <2>4 DEF Witnessed, Shown, Stored
        <3>2. \A k \in LayerIds : RowIsSound(k)'
            BY <1>1, <2>1, <2>4 DEF RowIsSound
        <3>. QED
            BY <1>1, <2>1, <2>3, <2>4, <3>1, <3>2, HeldOn DEF LayersInv, LayersTypeOK
    <2>5. CASE /\ FreshId \in LayerIds
               /\ layerRows' = [layerRows EXCEPT ![FreshId] = LayerRow("shared", promote.text, TRUE, promote.text)]
        <3> DEFINE row == LayerRow("shared", promote.text, TRUE, promote.text)
        <3>1. row \in ALayerRow /\ row.updated = clock /\ ~row.lapsed /\ row.vec \in {NoFact, row.fact}
            BY <1>1, <2>2 DEF LayerRow, ALayerRow, Layers
        <3> HIDE DEF row
        <3>2. /\ layerRows' \in [LayerIds -> {NoLayerRow} \union ALayerRow]
              /\ \A i \in LayerIds : RowIsSound(i)'
              /\ Witnessed
            BY <2>1, <2>5, <3>1, RowInserted DEF row
        <3>. QED
            BY <1>1, <2>1, <2>3, <3>2, HeldOn DEF LayersInv, LayersTypeOK
    <2>. QED
        BY <1>11, <2>4, <2>5 DEF Promotes
<1>12. CASE Reflects
    <2>1. reflect # NoFact /\ reflect' = NoFact /\ Tells /\ UNCHANGED <<clock, promote, decided>>
        BY <1>12 DEF Reflects, Undecided
    <2>2. CASE layerRows' = layerRows
        <3>1. Witnessed
            BY <2>2 DEF Witnessed, Shown, Stored
        <3>2. \A k \in LayerIds : RowIsSound(k)'
            BY <1>1, <2>1, <2>2 DEF RowIsSound
        <3>. QED
            BY <1>1, <2>1, <2>2, <3>1, <3>2, HeldOn DEF LayersInv, LayersTypeOK
    <2>3. CASE /\ FreshId \in LayerIds
               /\ layerRows' = [layerRows EXCEPT ![FreshId] = LayerRow("shared", reflect, TRUE, reflect)]
        <3> DEFINE row == LayerRow("shared", reflect, TRUE, reflect)
        <3>1. row \in ALayerRow /\ row.updated = clock /\ ~row.lapsed /\ row.vec \in {NoFact, row.fact}
            BY <1>1, <2>1 DEF LayerRow, ALayerRow, Layers
        <3> HIDE DEF row
        <3>2. /\ layerRows' \in [LayerIds -> {NoLayerRow} \union ALayerRow]
              /\ \A i \in LayerIds : RowIsSound(i)'
              /\ Witnessed
            BY <2>1, <2>3, <3>1, RowInserted DEF row
        <3>. QED
            BY <1>1, <2>1, <3>2, HeldOn DEF LayersInv, LayersTypeOK
    <2>. QED
        BY <1>12, <2>2, <2>3 DEF Reflects
<1>13. CASE JanitorExpires
    <2>1. /\ layerRows' = [i \in LayerIds |-> IF i \in Stored /\ layerRows[i].lapsed
                                              THEN NoLayerRow ELSE layerRows[i]]
          /\ UNCHANGED <<clock, promote, reflect, promised, decided>>
        BY <1>13 DEF JanitorExpires, Undecided
    <2>2. layerRows' \in [LayerIds -> {NoLayerRow} \union ALayerRow]
        BY <1>1, <2>1
    <2>3. \A k \in LayerIds : RowIsSound(k)'
        BY <1>1, <2>1 DEF RowIsSound
    <2>4. ASSUME NEW i \in LayerIds, Shown(i) PROVE ~layerRows[i].lapsed
        BY <1>1, <2>4 DEF Shown, RowIsSound, Stored
    <2>5. Witnessed
        BY <2>1, <2>4 DEF Witnessed, Shown, Stored
    <2>. QED
        BY <1>1, <2>1, <2>2, <2>3, <2>5, HeldOn DEF LayersInv, LayersTypeOK
<1>14. CASE JanitorSweeps
    <2>1. PICK S \in SUBSET In("shared") :
             layerRows' = [i \in LayerIds |-> IF i \in S THEN Archived(i) ELSE layerRows[i]]
        BY <1>14 DEF JanitorSweeps
    <2>2. Tells /\ UNCHANGED <<clock, promote, reflect, decided>>
        BY <1>14 DEF JanitorSweeps, Undecided
    <2>3. ASSUME NEW i \in S
          PROVE  /\ i \in LayerIds /\ Archived(i) \in ALayerRow /\ Archived(i).layer = "archive"
                 /\ Archived(i).fact = layerRows[i].fact /\ Archived(i).vec = NoFact
                 /\ ~Archived(i).lapsed /\ Archived(i).updated = clock
        BY <1>1, <1>2 DEF In, Archived, LayerRow, ALayerRow, Layers
    <2>4. layerRows' \in [LayerIds -> {NoLayerRow} \union ALayerRow]
        BY <1>1, <2>1, <2>3
    <2>5. ASSUME NEW k \in LayerIds PROVE RowIsSound(k)'
        <3>1. CASE k \in S
            <4>1. layerRows'[k] = Archived(k)
                BY <2>1, <3>1
            <4>. QED
                BY <1>1, <2>2, <2>3, <3>1, <4>1 DEF RowIsSound
        <3>2. CASE k \notin S
            BY <1>1, <2>1, <2>2, <3>2 DEF RowIsSound
        <3>. QED
            BY <3>1, <3>2
    <2>6. ASSUME NEW i \in LayerIds, Shown(i) PROVE Shown(i)' /\ layerRows'[i].fact = layerRows[i].fact
        <3>1. CASE i \in S
            <4>1. layerRows'[i] = Archived(i)
                BY <2>1, <3>1
            <4>2. Archived(i) # NoLayerRow
                BY <2>3, <3>1 DEF NoLayerRow
            <4>. QED
                BY <2>3, <3>1, <4>1, <4>2 DEF Shown, Stored
        <3>2. CASE i \notin S
            BY <2>1, <2>6, <3>2 DEF Shown, Stored
        <3>. QED
            BY <3>1, <3>2
    <2>7. Witnessed
        BY <2>6 DEF Witnessed
    <2>. QED
        BY <1>1, <2>2, <2>4, <2>5, <2>7, HeldOn DEF LayersInv, LayersTypeOK
<1>15. ASSUME NEW i \in LayerIds, RestoresFromArchive(i) PROVE LayersInv'
    <2> DEFINE row == LayerRow(layerRows[i].home, layerRows[i].fact, TRUE, NoFact)
    <2>1. /\ i \in Stored /\ layerRows[i].home # NoFact
          /\ layerRows' = [layerRows EXCEPT ![i] = row]
          /\ Tells /\ UNCHANGED <<clock, promote, reflect, decided>>
        BY <1>15 DEF RestoresFromArchive, Undecided, In
    <2>2. /\ row \in ALayerRow /\ row.fact = layerRows[i].fact /\ row.vec = NoFact
          /\ ~row.lapsed /\ ~row.superseded /\ row.active /\ row.updated = clock
        BY <1>1, <1>2, <2>1 DEF LayerRow, ALayerRow
    <2> HIDE DEF row
    <2>3. layerRows' \in [LayerIds -> {NoLayerRow} \union ALayerRow]
        BY <1>1, <2>1, <2>2
    <2>4. \A k \in LayerIds : layerRows'[k] = IF k = i THEN row ELSE layerRows[k]
        BY <1>1, <2>1
    <2>5. \A k \in LayerIds : RowIsSound(k)'
        BY <1>1, <2>1, <2>2, <2>4 DEF RowIsSound
    <2>6. row # NoLayerRow
        BY <2>2 DEF ALayerRow, NoLayerRow
    <2>7. Witnessed
        BY <2>2, <2>4, <2>6 DEF Witnessed, Shown, Stored
    <2>. QED
        BY <1>1, <2>1, <2>3, <2>5, <2>7, HeldOn DEF LayersInv, LayersTypeOK
<1>16. ASSUME UNCHANGED <<layerRows, clock, promised, decided>>,
              reflect' \in LayerFacts \union {NoFact}, promote' \in {promote, NoPromotion}
       PROVE  LayersInv'
    BY <1>1, <1>16 DEF LayersInv, LayersTypeOK, RowIsSound, FactIsHeld, Shown, Stored
<1>17. ASSUME NEW f \in LayerFacts, ReflectAsks(f) PROVE LayersInv'
    BY <1>16, <1>17 DEF ReflectAsks, Undecided
<1>18. CASE PromoteEnds \/ LayersCrash \/ UNCHANGED layerVars
    BY <1>1, <1>16, <1>18 DEF PromoteEnds, LayersCrash, Undecided, layerVars
<1>. QED
    BY <1>3, <1>4, <1>5, <1>6, <1>7, <1>8, <1>9, <1>10, <1>11, <1>12, <1>13, <1>14, <1>15, <1>17, <1>18
    DEF LayersNext

(* However often the night retires rows for rows of another table, promotes, *)
(* reflects, sweeps and crashes: a fact that readers were told is told them  *)
(* by some row, unless somebody decided about it (cross-layer.ts, promote.ts,*)
(* janitor.ts).                                                              *)
THEOREM FactStaysHeld == LayersSpec => []FactIsHeld
<1>1. LayersInv => FactIsHeld
    BY DEF LayersInv
<1>. QED
    BY <1>1, LayersStart, LayersStep, PTL DEF LayersSpec

(***************************************************************************)
(* The board of tasks.  What every statement on the table does to a task:  *)
(* it deletes it, or keeps its source and, if it is closed, all that was    *)
(* decided of it; and it draws the next id for a task nobody has.          *)
(***************************************************************************)
StaysTask(i) ==
  /\ i \in Present /\ tasks'[i] \in Task /\ tasks'[i].source = tasks[i].source
  /\ tasks[i].status \in Terminal =>
       tasks'[i].status = tasks[i].status /\ tasks'[i].completed = tasks[i].completed
  /\ tasks[i].status \in Active /\ tasks'[i].status \in Terminal => tasks'[i].completed = day

IsDrawn(i) ==
  /\ i = added + 1 /\ added' = added + 1 /\ i \notin Present
  /\ tasks'[i] \in Task /\ tasks'[i].status = "open"
  /\ TakenBy(tasks'[i].source) = {}

TableMoves ==
  /\ tasks' \in [Ids -> Task \union {NoTask}] /\ added' \in 0..MaxTasks /\ added <= added'
  /\ \A i \in Ids : tasks'[i] = NoTask \/ StaysTask(i) \/ IsDrawn(i)

(* The night between its statements: the days it has read lie behind, the  *)
(* digest it embeds lists what was old enough when it was read, and no     *)
(* stray of the window it is to close is left out.                         *)
AsleepForm == [at : {"asleep", "pruned", "janitor"}]
WeeksForm == [at : {"weeks"}, weeks : SUBSET Weeks]
EmbedForm == [at : {"embed"}, weeks : SUBSET Weeks, week : Weeks, lines : SUBSET Ids, read : Days]
StraysForm == [at : {"strays"}, since : Days, done : Nat, todo : SUBSET Rows]

OldDone(i) == /\ tasks[i].status = "done" /\ tasks[i].completed < night.read - DoneDays
              /\ WeekOf(i) = night.week
WindowSeen == \A r \in rows : night.since - WindowDays <= born[r] /\ born[r] < night.since
                                => r \in night.todo \/ r \in examined

NightIsSound ==
  \/ night \in AsleepForm
  \/ night \in WeeksForm
  \/ night \in EmbedForm /\ night.read <= day /\ \A i \in Present : OldDone(i) => i \in night.lines
  \/ night \in StraysForm /\ night.since <= day /\ lastRun <= night.since /\ WindowSeen

(* The script and its file: a line names the task that has the row's place. *)
Line == [row : Rows, task : Ids]
ScriptForms == [at : {"off"}] \cup [at : {"classify"}, todo : SUBSET written]
               \cup [at : {"append"}, todo : SUBSET written, line : Line]

TellsOf(line) == /\ line.row \in written /\ line.task <= added
                 /\ line.task \in Present => tasks[line.task].source = Migrated(line.row)
LinesAreTrue == /\ \A line \in audit : TellsOf(line)
                /\ script.at = "append" => TellsOf(script.line)

BoardInv ==
  /\ TypeOK /\ lastRun <= day
  /\ NightIsSound
  /\ script \in ScriptForms /\ LinesAreTrue
  /\ RowIsKept /\ NoStrayMissed

LEMMA BoardConstants ==
  /\ MaxTasks \in Nat /\ MaxDay \in Nat /\ StaleDays \in Nat /\ CancelledDays \in Nat
  /\ DoneDays \in Nat /\ JanitorDays \in Nat /\ WindowDays \in Nat /\ Rows \subseteq Nat
BY BoardAssumption

LEMMA TaskFields ==
  /\ NoTask \notin Task
  /\ \A t \in Task : /\ t.source \in Sources /\ t.status \in Active \cup Terminal
                     /\ t.updated \in Days /\ t.completed \in Days \cup {Never}
                     /\ t.status \in Terminal <=> t.completed # Never
                     /\ t = [source |-> t.source, status |-> t.status,
                             updated |-> t.updated, completed |-> t.completed]
<1>1. NoTask.status = "gone"
    BY DEF NoTask
<1>2. NoTask \notin Task
    BY <1>1 DEF Task, Active, Terminal
<1>. QED
    BY <1>2 DEF Task

LEMMA PresentTasks ==
  ASSUME TypeOK
  PROVE  \A i \in Ids : i \in Present <=> tasks[i] \in Task
BY TaskFields DEF TypeOK, Present

LEMMA DaysCount ==
  ASSUME TypeOK
  PROVE  day \in Nat /\ Days \subseteq Nat /\ Never \notin Days /\ added \in Nat /\ day \in Days
BY BoardConstants DEF TypeOK, Days, Never

(* Statements that move the table.                                         *)
LEMMA InsertMoves ==
  ASSUME TypeOK, NEW source \in Sources, Inserts(source)
  PROVE  /\ TableMoves /\ \A i \in Present : tasks'[i] = tasks[i]
         /\ added + 1 \in Ids /\ added + 1 \in Present' /\ tasks'[added + 1].source = source
         /\ added' = added + 1
<1>1. /\ added \in Nat /\ added < MaxTasks /\ MaxTasks \in Nat /\ day \in Days /\ added' = added + 1
      /\ tasks \in [Ids -> Task \cup {NoTask}]
    BY DaysCount, BoardConstants DEF Inserts, TypeOK
<1>2. added + 1 \in Ids /\ added + 1 \notin Present
    BY <1>1 DEF Ids, TypeOK
<1>3. NewTask(source) \in Task
    BY <1>1 DEF NewTask, Task, Active, Terminal, Never
<1>4. NewTask(source).source = source /\ NewTask(source).status = "open"
    BY DEF NewTask
<1>5. tasks'[added + 1] = NewTask(source) /\ \A i \in Ids : i # added + 1 => tasks'[i] = tasks[i]
    BY <1>1, <1>2 DEF Inserts
<1>6. tasks' \in [Ids -> Task \cup {NoTask}]
    BY <1>1, <1>2, <1>3 DEF Inserts
<1>7. IsDrawn(added + 1)
    BY <1>1, <1>2, <1>3, <1>4, <1>5 DEF IsDrawn, Inserts
<1>8. ASSUME NEW i \in Ids, i # added + 1 PROVE tasks'[i] = NoTask \/ StaysTask(i)
    <2>1. CASE i \in Present
        <3>1. tasks[i] \in Task /\ tasks'[i] = tasks[i]
            BY <1>5, <1>8, <2>1, PresentTasks
        <3>2. ~(tasks[i].status \in Active /\ tasks[i].status \in Terminal)
            BY DEF Active, Terminal
        <3>. QED
            BY <2>1, <3>1, <3>2 DEF StaysTask
    <2>2. CASE i \notin Present
        BY <1>5, <1>8, <2>2 DEF Present
    <2>. QED
        BY <2>1, <2>2
<1>9. TableMoves
    BY <1>1, <1>6, <1>7, <1>8 DEF TableMoves
<1>10. added + 1 \in Present'
    BY <1>2, <1>3, <1>5, TaskFields DEF Present
<1>11. \A i \in Present : i \in Ids
    BY DEF Present
<1>. QED
    BY <1>1, <1>2, <1>4, <1>5, <1>9, <1>10, <1>11

(* One task is written again under its source.                             *)
LEMMA OneTaskMoves ==
  ASSUME TypeOK, NEW i \in Present, NEW t \in Task,
         tasks' = [tasks EXCEPT ![i] = t], added' = added,
         t.source = tasks[i].source,
         tasks[i].status \in Terminal => t.status = tasks[i].status /\ t.completed = tasks[i].completed,
         tasks[i].status \in Active /\ t.status \in Terminal => t.completed = day
  PROVE  TableMoves /\ Present' = Present /\ \A k \in Present : tasks'[k].source = tasks[k].source
<1>1. i \in Ids /\ tasks \in [Ids -> Task \cup {NoTask}] /\ added \in 0..MaxTasks /\ added \in Nat
    BY DaysCount DEF Present, TypeOK
<1>2. tasks' \in [Ids -> Task \cup {NoTask}] /\ tasks'[i] = t
    BY <1>1
<1>3. StaysTask(i)
    BY <1>2 DEF StaysTask
<1>4. ASSUME NEW k \in Ids, k # i PROVE tasks'[k] = tasks[k] /\ (tasks'[k] = NoTask \/ StaysTask(k))
    <2>1. tasks'[k] = tasks[k]
        BY <1>1, <1>4
    <2>2. ~(tasks[k].status \in Active /\ tasks[k].status \in Terminal)
        BY DEF Active, Terminal
    <2>. QED
        BY <2>1, <2>2, PresentTasks DEF StaysTask, Present
<1>5. TableMoves
    BY <1>1, <1>2, <1>3, <1>4 DEF TableMoves
<1>6. Present' = Present
    BY <1>1, <1>2, <1>4, TaskFields DEF Present
<1>7. \A k \in Present : tasks'[k].source = tasks[k].source
    BY <1>2, <1>4 DEF Present
<1>. QED
    BY <1>5, <1>6, <1>7

LEMMA UpsertMoves ==
  ASSUME TypeOK, NEW source \in Sources, source # NoSource, Upserts(source)
  PROVE  /\ TableMoves /\ \A i \in Present : i \in Present' /\ tasks'[i].source = tasks[i].source
         /\ \E i \in Present' : tasks'[i].source = source
<1>1. CASE Inserts(source)
    <2>1. \A i \in Present : i \in Ids /\ tasks[i] # NoTask
        BY DEF Present
    <2>. QED
        BY <1>1, <2>1, InsertMoves DEF Present
<1>2. CASE \E i \in TakenBy(source) : tasks' = [tasks EXCEPT ![i] = Touched(i)] /\ added' = added
    <2>1. PICK i \in TakenBy(source) : tasks' = [tasks EXCEPT ![i] = Touched(i)] /\ added' = added
        BY <1>2
    <2>2. i \in Present /\ tasks[i].source = source /\ tasks[i] \in Task /\ day \in Days
        BY <2>1, PresentTasks, DaysCount DEF TakenBy, Present
    <2>3. /\ Touched(i) \in Task /\ Touched(i).source = tasks[i].source
          /\ Touched(i).status = tasks[i].status /\ Touched(i).completed = tasks[i].completed
        <3>1. CASE tasks[i].status \in Active
            <4>1. Touched(i) = [source |-> tasks[i].source, status |-> tasks[i].status,
                                updated |-> day, completed |-> tasks[i].completed]
                BY <2>2, <3>1, TaskFields DEF Touched, Task
            <4>. QED
                BY <2>2, <4>1, TaskFields DEF Task
        <3>2. CASE tasks[i].status \notin Active
            BY <2>2, <3>2 DEF Touched
        <3>. QED
            BY <3>1, <3>2
    <2>4. ~(tasks[i].status \in Active /\ tasks[i].status \in Terminal)
        BY DEF Active, Terminal
    <2>5. TableMoves /\ Present' = Present /\ \A k \in Present : tasks'[k].source = tasks[k].source
        BY <2>1, <2>2, <2>3, <2>4, OneTaskMoves
    <2>. QED
        BY <2>2, <2>5
<1>. QED
    BY <1>1, <1>2 DEF Upserts

(* What the user and agents do to one task.                                *)
LEMMA TransitionMoves ==
  ASSUME TypeOK, NEW i, NEW to \in Active \cup Terminal, Transitions(i, to)
  PROVE  TableMoves /\ Present' = Present /\ \A k \in Present : tasks'[k].source = tasks[k].source
<1>1. i \in Present /\ tasks[i] \in Task /\ i \in Ids /\ day \in Days /\ Never \notin Days
    BY PresentTasks, DaysCount DEF Transitions, Present
<1> DEFINE t == [source |-> tasks[i].source, status |-> to, updated |-> day,
                 completed |-> IF to \in Terminal THEN day ELSE Never]
<1>2. t \in Task
    BY <1>1, TaskFields DEF Task
<1>3. tasks' = [tasks EXCEPT ![i] = t]
    BY DEF Transitions
<1>4. tasks[i].status \notin Terminal
    BY DEF Transitions, CanTransition, Active, Terminal
<1>5. t.source = tasks[i].source /\ t.status = to /\ (to \in Terminal => t.completed = day)
    OBVIOUS
<1> HIDE DEF t
<1>. QED
    BY <1>1, <1>2, <1>3, <1>4, <1>5, OneTaskMoves DEF Transitions

LEMMA EditMoves ==
  ASSUME TypeOK, NEW i, Edits(i)
  PROVE  TableMoves /\ Present' = Present /\ \A k \in Present : tasks'[k].source = tasks[k].source
<1>1. i \in Present /\ tasks[i] \in Task /\ i \in Ids /\ day \in Days
    BY PresentTasks, DaysCount DEF Edits, Present
<1> DEFINE t == [source |-> tasks[i].source, status |-> tasks[i].status, updated |-> day,
                 completed |-> tasks[i].completed]
<1>2. t \in Task
    BY <1>1, TaskFields DEF Task
<1>3. tasks' = [tasks EXCEPT ![i] = t]
    <2>1. tasks[i] = [source |-> tasks[i].source, status |-> tasks[i].status,
                      updated |-> tasks[i].updated, completed |-> tasks[i].completed]
        BY <1>1, TaskFields
    <2>2. tasks \in [Ids -> Task \cup {NoTask}]
        BY DEF TypeOK
    <2>3. [tasks[i] EXCEPT !.updated = day] = t
        BY <2>1
    <2> HIDE DEF t
    <2>. QED
        BY <2>3 DEF Edits
<1>4. ~(tasks[i].status \in Active /\ tasks[i].status \in Terminal)
    BY DEF Active, Terminal
<1>5. t.source = tasks[i].source /\ t.status = tasks[i].status /\ t.completed = tasks[i].completed
    OBVIOUS
<1> HIDE DEF t
<1>. QED
    BY <1>1, <1>2, <1>3, <1>4, <1>5, OneTaskMoves DEF Edits

LEMMA DeleteMoves ==
  ASSUME TypeOK, NEW ids, tasks' = Without(ids), added' = added
  PROVE  TableMoves /\ \A i \in Present : i \notin ids => i \in Present' /\ tasks'[i] = tasks[i]
<1>1. tasks \in [Ids -> Task \cup {NoTask}] /\ added \in 0..MaxTasks /\ added \in Nat
    BY DaysCount DEF TypeOK
<1>2. tasks' \in [Ids -> Task \cup {NoTask}] /\ \A i \in Ids : tasks'[i] \in {tasks[i], NoTask}
    BY <1>1 DEF Without
<1>3. \A k \in Ids : ~(tasks[k].status \in Active /\ tasks[k].status \in Terminal)
    BY DEF Active, Terminal
<1>4. \A i \in Ids : tasks'[i] = NoTask \/ StaysTask(i)
    BY <1>2, <1>3, PresentTasks DEF StaysTask, Present
<1>5. \A i \in Present : i \notin ids => tasks'[i] = tasks[i] /\ i \in Ids /\ tasks[i] # NoTask
    BY DEF Without, Present
<1>. QED
    BY <1>1, <1>2, <1>4, <1>5 DEF TableMoves, Present

LEMMA TableRests ==
  ASSUME TypeOK, UNCHANGED taskVars
  PROVE  TableMoves /\ Present' = Present /\ \A k \in Present : tasks'[k].source = tasks[k].source
<1>1. tasks' = tasks /\ added' = added /\ added \in Nat
    BY DaysCount DEF taskVars
<1>2. \A k \in Ids : ~(tasks[k].status \in Active /\ tasks[k].status \in Terminal)
    BY DEF Active, Terminal
<1>. QED
    BY <1>1, <1>2, PresentTasks DEF TableMoves, StaysTask, Present, TypeOK
(* What follows of a statement for the table, for closed tasks, for the     *)
(* lines of the file and for a digest that is being embedded.              *)
LEMMA TableTypes ==
  ASSUME TypeOK, TableMoves
  PROVE  /\ tasks' \in [Ids -> Task \union {NoTask}] /\ added' \in 0..MaxTasks
         /\ \A i \in Present' : i <= added' /\ TakenBy(tasks[i].source)' \subseteq {i}
<1>1. added \in Nat /\ added' \in Nat /\ added <= added'
    BY DaysCount, BoardConstants DEF TableMoves
<1>2. ASSUME NEW i \in Present' PROVE i \in Ids /\ (StaysTask(i) \/ IsDrawn(i))
    BY DEF TableMoves, Present
<1>3. ASSUME NEW i \in Present' PROVE i <= added'
    BY <1>1, <1>2 DEF StaysTask, IsDrawn, TypeOK, Ids
<1>4. ASSUME NEW i \in Present', NEW k \in Present', i # k, tasks'[i].source = tasks'[k].source,
             tasks'[i].source # NoSource
      PROVE  FALSE
    <2>1. CASE StaysTask(i) /\ StaysTask(k)
        <3>1. i \in Present /\ k \in TakenBy(tasks[i].source)
            BY <1>4, <2>1 DEF StaysTask, TakenBy
        <3>. QED
            BY <1>4, <3>1 DEF TypeOK
    <2>2. CASE IsDrawn(i) /\ StaysTask(k)
        BY <1>4, <2>2 DEF IsDrawn, StaysTask, TakenBy
    <2>3. CASE StaysTask(i) /\ IsDrawn(k)
        BY <1>4, <2>3 DEF IsDrawn, StaysTask, TakenBy
    <2>4. CASE IsDrawn(i) /\ IsDrawn(k)
        BY <1>4, <2>4 DEF IsDrawn
    <2>. QED
        BY <1>2, <2>1, <2>2, <2>3, <2>4
<1>5. \A i \in Present' : TakenBy(tasks[i].source)' \subseteq {i}
    BY <1>4 DEF TakenBy
<1>. QED
    BY <1>3, <1>5 DEF TableMoves

LEMMA ClosedStays ==
  ASSUME TableMoves, NEW i \in Present, tasks[i].status \in Terminal, tasks'[i] # NoTask
  PROVE  tasks'[i].status = tasks[i].status /\ tasks'[i].completed = tasks[i].completed
<1>1. i \in Ids
    BY DEF Present
<1>. QED
    BY <1>1 DEF TableMoves, StaysTask, IsDrawn

LEMMA LinesStayTrue ==
  ASSUME TypeOK, TableMoves, written \subseteq written', NEW line \in Line, TellsOf(line)
  PROVE  TellsOf(line)'
<1>1. line.task \in Ids /\ added \in Nat /\ added' \in Nat /\ added <= added' /\ line.task \in Nat
    BY DaysCount, BoardConstants DEF TableMoves, Line, Ids
<1>2. line.task <= added'
    BY <1>1 DEF TellsOf
<1>3. ASSUME line.task \in Present' PROVE tasks'[line.task].source = Migrated(line.row)
    <2>1. StaysTask(line.task)
        BY <1>1, <1>3 DEF TableMoves, Present, IsDrawn, TellsOf
    <2>. QED
        BY <2>1 DEF StaysTask, TellsOf
<1>. QED
    BY <1>2, <1>3 DEF TellsOf, Migrated

LEMMA ListedStays ==
  ASSUME TypeOK, TableMoves, night \in EmbedForm, night.read <= day, night' = night,
         NEW i \in Present', OldDone(i)'
  PROVE  i \in Present /\ OldDone(i)
<1>1. i \in Ids /\ (StaysTask(i) \/ IsDrawn(i)) /\ tasks'[i].status = "done"
    BY DEF TableMoves, Present, OldDone
<1>2. StaysTask(i)
    BY <1>1 DEF IsDrawn
<1>3. night.read \in Nat /\ day \in Nat /\ DoneDays \in Nat
    BY DaysCount, BoardConstants DEF EmbedForm
<1>4. tasks[i].status \in Terminal
    <2>1. tasks[i] \in Task
        BY <1>1, <1>2, PresentTasks DEF StaysTask
    <2>2. tasks[i].status \in Active \cup Terminal
        BY <2>1, TaskFields
    <2>3. ASSUME tasks[i].status \in Active PROVE FALSE
        <3>1. tasks'[i].completed = day
            BY <1>1, <1>2, <2>3 DEF StaysTask, Terminal
        <3>2. day < night.read - DoneDays
            BY <3>1 DEF OldDone
        <3>. QED
            BY <1>3, <3>2
    <2>. QED
        BY <2>2, <2>3
<1>. QED
    BY <1>1, <1>2, <1>4 DEF StaysTask, OldDone, WeekOf

(* No row is lost by a step that deletes a task only with its row or after  *)
(* it was discarded, and a row only when its task has taken its place.      *)
LEMMA RowsKeep ==
  ASSUME TypeOK, RowIsKept, TableMoves,
         written' \subseteq written \cup rows',
         \A r \in rows : r \in rows' \/ r \in dropped' \/ r \in RowsOf(Present)',
         \A r \in dropped : r \in dropped' \/ r \in rows',
         \A i \in Present : i \in Present' \/ RowsOf({i}) \subseteq dropped' \cup rows'
  PROVE  RowIsKept'
<1> SUFFICES ASSUME NEW r \in written', r \notin rows', r \notin dropped'
             PROVE  r \in RowsOf(Present)'
    BY DEF RowIsKept
<1>1. r \in written /\ r \notin dropped /\ (r \in rows => r \in RowsOf(Present)')
    OBVIOUS
<1>2. CASE r \in RowsOf(Present)
    <2>1. PICK i \in Present : r \in Rows /\ tasks[i].source \in {Stray(r), Migrated(r)}
        BY <1>2 DEF RowsOf
    <2>2. i \in Present'
        BY <2>1 DEF RowsOf
    <2>3. tasks'[i].source = tasks[i].source
        BY <2>2 DEF TableMoves, StaysTask, IsDrawn, Present
    <2>. QED
        BY <2>1, <2>2, <2>3 DEF RowsOf, Stray, Migrated
<1>. QED
    BY <1>1, <1>2 DEF RowIsKept

(* What every step does to the memory rows: new ones are of this day.      *)
RowsMove ==
  \A r \in rows' : \/ r \in rows /\ born'[r] = born[r] /\ (r \in examined => r \in examined')
                   \/ born'[r] >= day

LEMMA NightRests ==
  ASSUME TypeOK, NightIsSound, lastRun <= day, TableMoves, RowsMove, UNCHANGED <<night, lastRun>>,
         day' \in Days, day <= day', born' \in [Rows -> Days], rows' \subseteq Rows
  PROVE  NightIsSound'
<1>1. /\ day \in Nat /\ day' \in Nat /\ WindowDays \in Nat
      /\ \A r \in rows' : born'[r] \in Nat
      /\ \A r \in rows : born[r] \in Nat
    BY DaysCount, BoardConstants DEF TypeOK
<1>2. CASE night \in AsleepForm \cup WeeksForm
    BY <1>2 DEF NightIsSound, AsleepForm, WeeksForm
<1>3. CASE night \in EmbedForm /\ night.read <= day /\ \A i \in Present : OldDone(i) => i \in night.lines
    <2>1. \A i \in Present' : OldDone(i)' => i \in night.lines
        BY <1>3, ListedStays
    <2>2. night'.read <= day'
        <3>1. night.read \in Nat
            BY <1>3, DaysCount DEF EmbedForm
        <3>. QED
            BY <1>1, <1>3, <3>1
    <2>. QED
        BY <1>3, <2>1, <2>2 DEF NightIsSound, EmbedForm
<1>4. CASE night \in StraysForm /\ night.since <= day /\ lastRun <= night.since /\ WindowSeen
    <2>1. night.since \in Nat
        BY <1>4, DaysCount DEF StraysForm
    <2>2. night'.since <= day'
        BY <1>1, <1>4, <2>1
    <2>3. WindowSeen'
        BY <1>1, <1>4, <2>1 DEF WindowSeen, RowsMove
    <2>. QED
        BY <1>4, <2>2, <2>3 DEF NightIsSound, StraysForm
<1>. QED
    BY <1>2, <1>3, <1>4 DEF NightIsSound

LEMMA StraysRest ==
  ASSUME TypeOK, NoStrayMissed, lastRun <= day, RowsMove, UNCHANGED lastRun,
         born' \in [Rows -> Days], rows' \subseteq Rows
  PROVE  NoStrayMissed'
<1>1. /\ day \in Nat /\ WindowDays \in Nat /\ lastRun \in Int
      /\ \A r \in rows' : born'[r] \in Nat
    BY DaysCount, BoardConstants DEF TypeOK, Never
<1>. QED
    BY <1>1 DEF NoStrayMissed, RowsMove

(* Steps of anybody but the night.                                         *)
LEMMA DaylightKeeps ==
  ASSUME BoardInv, TableMoves, RowsMove, UNCHANGED <<night, lastRun, digests>>,
         day' \in Days, day <= day', born' \in [Rows -> Days],
         rows' \subseteq written', written' \subseteq Rows, examined' \subseteq rows',
         dropped' \subseteq Rows,
         audit' \subseteq Line, script' \in ScriptForms', LinesAreTrue', RowIsKept'
  PROVE  BoardInv'
<1> USE DEF BoardInv
<1>1. TypeOK'
    BY TableTypes DEF TypeOK, Line
<1>2. lastRun' <= day'
    <2>1. lastRun \in Int /\ day \in Int /\ day' \in Int
        BY DaysCount DEF TypeOK, Never
    <2>. QED
        BY <2>1
<1>3. NightIsSound'
    BY NightRests
<1>4. NoStrayMissed'
    BY StraysRest
<1>. QED
    BY <1>1, <1>2, <1>3, <1>4
LEMMA LinesKeep ==
  ASSUME BoardInv, TableMoves, written \subseteq written', UNCHANGED <<audit, script>>
  PROVE  audit' \subseteq Line /\ script' \in ScriptForms' /\ LinesAreTrue'
<1>1. audit \subseteq Line
    BY DEF BoardInv, TypeOK, Line
<1>2. script.at = "append" => script.line \in Line
    BY DEF BoardInv, ScriptForms
<1>3. /\ \A line \in Line : TellsOf(line) => TellsOf(line)'
    BY LinesStayTrue DEF BoardInv
<1>4. script.at = "append" => TellsOf(script.line)'
    BY <1>2, <1>3 DEF BoardInv, LinesAreTrue
<1>5. script' \in ScriptForms'
    BY DEF BoardInv, ScriptForms
<1>. QED
    BY <1>1, <1>3, <1>4, <1>5 DEF BoardInv, LinesAreTrue, TellsOf

LEMMA RowsRest ==
  ASSUME TypeOK, UNCHANGED rowVars
  PROVE  /\ RowsMove /\ UNCHANGED <<rows, born, written, examined>>
         /\ born' \in [Rows -> Days] /\ rows' \subseteq written' /\ written' \subseteq Rows
         /\ examined' \subseteq rows' /\ rows' \subseteq Rows
BY DEF TypeOK, rowVars, RowsMove

LEMMA RowLeaves ==
  ASSUME TypeOK, NEW r \in Rows, RowGoes(r), written' = written
  PROVE  /\ RowsMove /\ rows' = rows \ {r}
         /\ born' \in [Rows -> Days] /\ rows' \subseteq written' /\ written' \subseteq Rows
         /\ examined' \subseteq rows' /\ rows' \subseteq Rows
<1>1. 0 \in Days
    BY BoardConstants DEF Days
<1>2. /\ rows' = rows \ {r} /\ born' = [born EXCEPT ![r] = 0] /\ examined' = examined \ {r}
      /\ born \in [Rows -> Days] /\ rows \subseteq written /\ written \subseteq Rows /\ examined \subseteq rows
    BY DEF RowGoes, TypeOK
<1>3. RowsMove
    BY <1>2 DEF RowsMove
<1>. QED
    BY <1>1, <1>2, <1>3

(* A deletion that discards the rows of what it deletes loses none.        *)
LEMMA DeletionKeeps ==
  ASSUME TypeOK, RowIsKept, NEW ids, ids \subseteq Present, tasks' = Without(ids), added' = added,
         dropped' = dropped \cup RowsOf(ids), UNCHANGED <<rows, written>>
  PROVE  TableMoves /\ RowIsKept' /\ dropped' \subseteq Rows
<1>1. TableMoves /\ \A i \in Present : i \notin ids => i \in Present'
    BY DeleteMoves
<1>2. \A i \in Present : i \in Present' \/ RowsOf({i}) \subseteq dropped'
    BY <1>1 DEF RowsOf
<1>3. RowIsKept'
    BY <1>1, <1>2, RowsKeep
<1>4. dropped' \subseteq Rows
    BY DEF TypeOK, RowsOf
<1>. QED
    BY <1>1, <1>3, <1>4

(* A statement that keeps every task and row loses none.                   *)
LEMMA KeepingKeeps ==
  ASSUME TypeOK, RowIsKept, TableMoves, Present \subseteq Present', rows \subseteq rows',
         written' \subseteq written \cup rows', dropped' = dropped
  PROVE  RowIsKept'
BY RowsKeep

LEMMA PeopleKeep ==
  ASSUME BoardInv, People
  PROVE  BoardInv'
<1>1. TypeOK /\ RowIsKept /\ UNCHANGED rowVars /\ day \in Days /\ day \in Nat
      /\ UNCHANGED <<digests, lastRun, audit, night, script, day>>
    BY DaysCount DEF BoardInv, People
<1>2. UserSource \in Sources /\ NoSource \in Sources /\ UserSource # NoSource
    BY DEF Sources, UserSource, NoSource
<1>3. ASSUME TableMoves, Present \subseteq Present', dropped' = dropped
      PROVE  RowIsKept' /\ dropped' \subseteq Rows /\ TableMoves
    BY <1>1, <1>3, KeepingKeeps, RowsRest DEF TypeOK
<1>4. RowIsKept' /\ dropped' \subseteq Rows /\ TableMoves
    <2>1. CASE Adds /\ dropped' = dropped
        <3>1. CASE \E source \in {NoSource, UserSource} : Inserts(source)
            <4>1. PICK source \in {NoSource, UserSource} : Inserts(source)
                BY <3>1
            <4>2. TableMoves /\ \A i \in Present : tasks'[i] = tasks[i]
                BY <1>1, <1>2, <4>1, InsertMoves
            <4>. QED
                BY <1>3, <2>1, <4>2 DEF Present
        <3>2. CASE Upserts(UserSource)
            <4>1. TableMoves /\ \A i \in Present : i \in Present'
                BY <1>1, <1>2, <3>2, UpsertMoves
            <4>. QED
                BY <1>3, <2>1, <4>1
        <3>. QED
            BY <2>1, <3>1, <3>2 DEF Adds
    <2>2. CASE \E i \in Ids, to \in Active \cup Terminal : Transitions(i, to) /\ dropped' = dropped
        BY <1>1, <1>3, <2>2, TransitionMoves
    <2>3. CASE \E i \in Ids : Edits(i) /\ dropped' = dropped
        BY <1>1, <1>3, <2>3, EditMoves
    <2>4. CASE \E i \in Ids : /\ i \in Present /\ tasks' = Without({i})
                              /\ dropped' = dropped \cup RowsOf({i}) /\ added' = added
        BY <1>1, <2>4, DeletionKeeps, RowsRest
    <2>. QED
        BY <2>1, <2>2, <2>3, <2>4 DEF People
<1>5. audit' \subseteq Line /\ script' \in ScriptForms' /\ LinesAreTrue'
    BY <1>1, <1>4, RowsRest, LinesKeep
<1>6. day <= day'
    BY <1>1
<1>. QED
    BY <1>1, <1>4, <1>5, <1>6, RowsRest, DaylightKeeps

LEMMA RowStepsKeep ==
  ASSUME BoardInv, WritesRow \/ DeletesRow
  PROVE  BoardInv'
<1>1. /\ TypeOK /\ RowIsKept /\ UNCHANGED taskVars /\ day \in Days /\ day \in Nat /\ rows \subseteq Rows
      /\ UNCHANGED <<digests, lastRun, audit, night, script, day>>
    BY DaysCount DEF BoardInv, WritesRow, DeletesRow, TypeOK
<1>2. TableMoves /\ Present' = Present
    BY <1>1, TableRests
<1>3. audit' \subseteq Line /\ script' \in ScriptForms' /\ LinesAreTrue' /\ day <= day'
    <2>1. written \subseteq written'
        BY DEF WritesRow, DeletesRow
    <2>. QED
        BY <1>1, <1>2, <2>1, LinesKeep
<1>4. CASE WritesRow
    <2>1. PICK r \in Rows \ written : /\ rows' = rows \cup {r} /\ written' = written \cup {r}
                                      /\ born' = [born EXCEPT ![r] = day]
        BY <1>4 DEF WritesRow
    <2>2. examined' = examined /\ dropped' = dropped
        BY <1>4 DEF WritesRow
    <2>3. RowsMove
        BY <1>1, <2>1, <2>2 DEF RowsMove, TypeOK
    <2>4. /\ born' \in [Rows -> Days] /\ rows' \subseteq written' /\ written' \subseteq Rows
          /\ examined' \subseteq rows' /\ dropped' \subseteq Rows
        BY <1>1, <2>1, <2>2 DEF TypeOK
    <2>5. RowIsKept'
        BY <1>1, <1>2, <2>1, <2>2, KeepingKeeps
    <2>. QED
        BY <1>1, <1>2, <1>3, <2>3, <2>4, <2>5, DaylightKeeps
<1>5. CASE DeletesRow
    <2>1. PICK r \in rows : RowGoes(r) /\ dropped' = dropped \cup {r}
        BY <1>5 DEF DeletesRow
    <2>2. r \in Rows /\ written' = written
        BY <1>1, <1>5 DEF DeletesRow
    <2>3. /\ RowsMove /\ rows' = rows \ {r}
          /\ born' \in [Rows -> Days] /\ rows' \subseteq written' /\ written' \subseteq Rows
          /\ examined' \subseteq rows'
        BY <1>1, <2>1, <2>2, RowLeaves
    <2>4. dropped' \subseteq Rows
        BY <2>1, <2>2 DEF BoardInv, TypeOK
    <2>5. RowIsKept'
        BY <1>1, <1>2, <2>1, <2>2, <2>3, RowsKeep
    <2>. QED
        BY <1>1, <1>2, <1>3, <2>3, <2>4, <2>5, DaylightKeeps
<1>. QED
    BY <1>4, <1>5

LEMMA DayKeeps ==
  ASSUME BoardInv, DayPasses
  PROVE  BoardInv'
<1>1. /\ TypeOK /\ RowIsKept /\ UNCHANGED <<taskVars, rowVars>> /\ dropped' = dropped
      /\ UNCHANGED <<digests, lastRun, audit, night, script>>
    BY DEF BoardInv, DayPasses
<1>2. day' \in Days /\ day <= day'
    BY <1>1, BoardConstants DEF DayPasses, TypeOK, Days
<1>3. TableMoves /\ Present' = Present
    BY <1>1, TableRests
<1>4. audit' \subseteq Line /\ script' \in ScriptForms' /\ LinesAreTrue'
    BY <1>1, <1>3, RowsRest, LinesKeep
<1>5. RowIsKept' /\ dropped' \subseteq Rows
    BY <1>1, <1>3, RowsRest, KeepingKeeps DEF TypeOK
<1>. QED
    BY <1>1, <1>2, <1>3, <1>4, <1>5, RowsRest, DaylightKeeps

(* The oldest row a process still has to look at is one of them.           *)
LEMMA FirstIsOne ==
  ASSUME NEW set \in SUBSET Rows, set # {}
  PROVE  First(set) \in set /\ First(set) \in Rows
<1>1. set \subseteq Nat
    BY BoardConstants
<1>2. \E r \in set : \A q \in set : r <= q
    BY <1>1, LeastOf
<1>. QED
    BY <1>2 DEF First
(* The script: the rows it has still to look at are those of its start.    *)
LEMMA ScriptLooks ==
  ASSUME script \in ScriptForms, script.at = "classify", NEW r \in Rows
  PROVE  /\ script.todo \in SUBSET written
         /\ [script EXCEPT !.todo = @ \ {r}] \in ScriptForms
         /\ [script EXCEPT !.todo = @ \ {r}].at = "classify"
<1>1. script \in [at : {"classify"}, todo : SUBSET written]
    BY DEF ScriptForms
<1>2. [script EXCEPT !.todo = @ \ {r}] = [at |-> "classify", todo |-> script.todo \ {r}]
    BY <1>1
<1>. QED
    BY <1>1, <1>2 DEF ScriptForms

LEMMA MigrationKeeps ==
  ASSUME BoardInv, ScriptClassified
  PROVE  BoardInv'
<1>1. /\ TypeOK /\ RowIsKept /\ script \in ScriptForms /\ LinesAreTrue /\ day \in Days /\ day <= day
      /\ UNCHANGED <<digests, written, lastRun, audit, night, day, dropped>>
      /\ script.at = "classify" /\ script.todo # {} /\ dropped' \subseteq Rows /\ audit' \subseteq Line
    <2>1. TypeOK /\ day \in Days /\ day \in Nat
        BY DaysCount DEF BoardInv
    <2>2. dropped \subseteq Rows /\ audit \subseteq Line
        BY <2>1 DEF TypeOK, Line
    <2>. QED
        BY <2>1, <2>2 DEF BoardInv, ScriptClassified
<1> DEFINE r == First(script.todo)
<1>2. script.todo \in SUBSET written /\ written \subseteq Rows
    BY <1>1 DEF ScriptForms, TypeOK
<1>3. r \in Rows /\ r \in written
    BY <1>1, <1>2, FirstIsOne
<1> HIDE DEF r
<1>4. Migrated(r) \in Sources /\ Migrated(r) # NoSource
    BY <1>3 DEF Sources, RowSources, Migrated, NoSource
<1>5. CASE /\ Inserts(Migrated(r)) /\ RowGoes(r)
           /\ script' = [at |-> "append", todo |-> script.todo \ {r}, line |-> [row |-> r, task |-> added + 1]]
    <2>1. /\ TableMoves /\ \A i \in Present : tasks'[i] = tasks[i]
          /\ added + 1 \in Ids /\ added + 1 \in Present' /\ tasks'[added + 1].source = Migrated(r)
          /\ added' = added + 1
        BY <1>1, <1>4, <1>5, InsertMoves
    <2>2. \A i \in Present : i \in Present'
        BY <2>1 DEF Present
    <2>3. /\ RowsMove /\ rows' = rows \ {r}
          /\ born' \in [Rows -> Days] /\ rows' \subseteq written' /\ written' \subseteq Rows
          /\ examined' \subseteq rows'
        BY <1>1, <1>3, <1>5, RowLeaves
    <2>4. r \in RowsOf(Present)'
        BY <1>3, <2>1 DEF RowsOf, Migrated, Stray
    <2>5. RowIsKept'
        BY <1>1, <2>1, <2>2, <2>3, <2>4, RowsKeep
    <2>6. PICK line \in Line : line = [row |-> r, task |-> added + 1]
        BY <1>3, <2>1 DEF Line
    <2>7. added' \in Nat
        BY <2>1, DaysCount, <1>1
    <2>8. TellsOf(line)'
        <3>1. line.row = r /\ line.task = added'
            BY <2>1, <2>6
        <3>2. line.task <= added'
            BY <2>7, <3>1
        <3>. QED
            BY <1>1, <1>3, <2>1, <3>1, <3>2 DEF TellsOf, Migrated
    <2>9. script' \in ScriptForms' /\ script'.line = line
        BY <1>1, <1>2, <1>5, <2>6 DEF ScriptForms
    <2>10. LinesAreTrue'
        <3>1. \A other \in audit' : TellsOf(other)'
            BY <1>1, <2>1, LinesStayTrue DEF LinesAreTrue
        <3>2. TellsOf(script.line)'
            BY <2>8, <2>9 DEF TellsOf
        <3>. QED
            BY <3>1, <3>2 DEF LinesAreTrue
    <2>. QED
        BY <1>1, <2>1, <2>3, <2>5, <2>9, <2>10, DaylightKeeps
<1>6. ASSUME TableMoves, Present \subseteq Present', UNCHANGED <<rows, born, examined>>,
             script' = [script EXCEPT !.todo = @ \ {r}]
      PROVE  BoardInv'
    <2>1. script' \in ScriptForms' /\ script'.at = "classify"
        BY <1>1, <1>3, <1>6, ScriptLooks DEF ScriptForms
    <2>2. LinesAreTrue'
        BY <1>1, <1>6, <2>1, LinesStayTrue DEF LinesAreTrue
    <2>3. RowIsKept'
        BY <1>1, <1>6, KeepingKeeps
    <2>. QED
        BY <1>1, <1>6, <2>1, <2>2, <2>3, RowsRest, DaylightKeeps DEF rowVars
<1>7. CASE /\ Upserts(Migrated(r)) /\ UNCHANGED <<rows, born, examined>>
           /\ script' = [script EXCEPT !.todo = @ \ {r}]
    <2>1. TableMoves /\ \A i \in Present : i \in Present'
        BY <1>1, <1>4, <1>7, UpsertMoves
    <2>. QED
        BY <1>6, <1>7, <2>1
<1>8. CASE script' = [script EXCEPT !.todo = @ \ {r}] /\ UNCHANGED <<taskVars, rows, born, examined>>
    <2>1. TableMoves /\ Present' = Present
        BY <1>1, <1>8, TableRests
    <2>. QED
        BY <1>6, <1>8, <2>1
<1>9. \/ ScriptMigrates(r)
      \/ script' = [script EXCEPT !.todo = @ \ {r}] /\ UNCHANGED <<taskVars, rows, born, examined>>
    <2>1. [script EXCEPT !.todo = @ \ {r}] = [script EXCEPT !.todo = @ \ {First(@)}]
        BY DEF r
    <2>. QED
        BY <2>1 DEF ScriptClassified, r
<1>. QED
    BY <1>5, <1>7, <1>8, <1>9 DEF ScriptMigrates

LEMMA FileKeeps ==
  ASSUME BoardInv, ScriptBegins \/ ScriptAppends \/ ScriptEnds
  PROVE  BoardInv'
<1>1. /\ TypeOK /\ RowIsKept /\ UNCHANGED <<taskVars, rowVars>> /\ dropped' = dropped
      /\ UNCHANGED <<digests, lastRun, night, day>>
      /\ script \in ScriptForms /\ LinesAreTrue /\ audit \subseteq Line /\ rows \subseteq Rows
    BY DEF BoardInv, TypeOK, Line, ScriptBegins, ScriptAppends, ScriptEnds
<1>2. day' \in Days /\ day <= day'
    BY <1>1, DaysCount
<1>3. TableMoves /\ Present' = Present
    BY <1>1, TableRests
<1>4. RowIsKept' /\ dropped' \subseteq Rows
    BY <1>1, <1>3, RowsRest, KeepingKeeps DEF TypeOK
<1>5. script' \in ScriptForms' /\ script'.at # "append"
    <2>1. rows \subseteq written /\ written' = written
        BY <1>1, RowsRest DEF TypeOK
    <2>2. script' \in ScriptForms /\ script'.at # "append"
        BY <1>1, <2>1 DEF ScriptBegins, ScriptAppends, ScriptEnds, NotRunning, ScriptForms
    <2>. QED
        BY <2>1, <2>2 DEF ScriptForms
<1>6. audit' \subseteq Line /\ \A line \in audit' : TellsOf(line)
    BY <1>1 DEF ScriptBegins, ScriptAppends, ScriptEnds, LinesAreTrue, ScriptForms
<1>7. LinesAreTrue'
    BY <1>1, <1>3, <1>5, <1>6, RowsRest, LinesStayTrue DEF LinesAreTrue
<1>. QED
    BY <1>1, <1>2, <1>3, <1>4, <1>5, <1>6, <1>7, RowsRest, DaylightKeeps

LEMMA RollbackKeeps ==
  ASSUME BoardInv, RollsBack
  PROVE  BoardInv'
<1>1. /\ TypeOK /\ RowIsKept /\ LinesAreTrue /\ audit \subseteq Line /\ day \in Days /\ day \in Nat
      /\ UNCHANGED <<added, digests, written, examined, lastRun, audit, night, script, day>>
    BY DaysCount DEF BoardInv, RollsBack, TypeOK, Line
<1>2. PICK line \in audit :
        /\ rows' = rows \cup {line.row}
        /\ born' = IF line.row \notin rows THEN [born EXCEPT ![line.row] = day] ELSE born
        /\ dropped' = IF line.row \notin rows THEN dropped \ {line.row} ELSE dropped
        /\ tasks' = Without({line.task})
    BY DEF RollsBack, Restored
<1>3. line \in Line /\ line.row \in Rows /\ TellsOf(line)
    BY <1>1 DEF Line, LinesAreTrue
<1>4. TableMoves /\ \A i \in Present : i # line.task => i \in Present'
    BY <1>1, <1>2, DeleteMoves
<1>5. audit' \subseteq Line /\ script' \in ScriptForms' /\ LinesAreTrue' /\ day <= day'
    BY <1>1, <1>4, LinesKeep
<1>6. RowsMove
    BY <1>1, <1>2, <1>3 DEF RowsMove, TypeOK
<1>7. ASSUME NEW i \in Present PROVE i \in Present' \/ RowsOf({i}) \subseteq rows'
    <2>1. CASE i = line.task
        <3>1. tasks[i].source = Migrated(line.row)
            BY <1>3, <2>1 DEF TellsOf
        <3>2. RowsOf({i}) \subseteq {line.row}
            BY <3>1 DEF RowsOf, Migrated, Stray
        <3>. QED
            BY <1>2, <3>2
    <2>. QED
        BY <1>4, <2>1
<1>8. RowIsKept'
    BY <1>1, <1>2, <1>4, <1>7, RowsKeep
<1>9. dropped' \subseteq Rows
    BY <1>1, <1>2 DEF TypeOK
<1>10. born' \in [Rows -> Days] /\ examined' \subseteq rows' /\ written' \subseteq Rows
    BY <1>1, <1>2, <1>3 DEF TypeOK
<1>11. rows' \subseteq written'
    BY <1>1, <1>2, <1>3 DEF TellsOf, TypeOK
<1>. QED
    BY <1>1, <1>4, <1>5, <1>6, <1>8, <1>9, <1>10, <1>11, DaylightKeeps
(* Steps of the night.                                                     *)
LEMMA NightStepKeeps ==
  ASSUME BoardInv, TableMoves, UNCHANGED <<audit, script, day, written>>,
         lastRun' \in Days \cup {Never}, lastRun' <= day,
         digests' \in [Weeks -> SUBSET Ids], born' \in [Rows -> Days],
         rows' \subseteq written', examined' \subseteq rows', dropped' \subseteq Rows,
         NightIsSound', RowIsKept', NoStrayMissed'
  PROVE  BoardInv'
<1> USE DEF BoardInv
<1>1. audit' \subseteq Line /\ script' \in ScriptForms' /\ LinesAreTrue'
    BY LinesKeep
<1>2. day' \in Days /\ written' \subseteq Rows
    BY DEF TypeOK
<1>3. TypeOK'
    BY <1>1, <1>2, TableTypes DEF TypeOK, Line
<1>. QED
    BY <1>1, <1>3

(* Those that leave the memory rows and the window of the strays alone.    *)
LEMMA TableNightKeeps ==
  ASSUME BoardInv, TableMoves, UNCHANGED <<rowVars, lastRun, audit, script, day>>,
         digests' \in [Weeks -> SUBSET Ids], dropped' \subseteq Rows, NightIsSound', RowIsKept'
  PROVE  BoardInv'
<1>1. TypeOK /\ lastRun \in Days \cup {Never} /\ lastRun <= day
    BY DEF BoardInv, TypeOK
<1>2. NoStrayMissed'
    BY <1>1, RowsRest, StraysRest DEF BoardInv
<1>. QED
    BY <1>1, <1>2, RowsRest, NightStepKeeps

LEMMA QuietNightKeeps ==
  ASSUME BoardInv, UNCHANGED <<taskVars, rowVars, digests, lastRun, audit, script, day, dropped>>,
         NightIsSound'
  PROVE  BoardInv'
<1>1. TypeOK /\ TableMoves /\ Present' = Present
    BY TableRests DEF BoardInv
<1>2. RowIsKept'
    BY <1>1, RowsRest, KeepingKeeps DEF BoardInv
<1>3. digests' \in [Weeks -> SUBSET Ids] /\ dropped' \subseteq Rows
    BY <1>1 DEF TypeOK
<1>. QED
    BY <1>1, <1>2, <1>3, TableNightKeeps

LEMMA DoneWeeks ==
  ASSUME TypeOK, NEW i \in Eligible
  PROVE  i \in Ids /\ i \in Present /\ WeekOf(i) \in Weeks /\ tasks[i].completed \in Days
<1>1. i \in Present /\ i \in Ids /\ tasks[i] \in Task /\ tasks[i].status = "done"
    BY PresentTasks DEF Eligible, Present
<1>2. tasks[i].completed \in Days
    BY <1>1, TaskFields DEF Terminal
<1>. QED
    BY <1>1, <1>2 DEF WeekOf, Weeks

(* A week is listed, read, and stored or left; idle, cancelled and old go. *)
LEMMA DigestsKeep ==
  ASSUME BoardInv, NightBegins \/ DigestReads \/ DigestWrites \/ DigestFails
  PROVE  BoardInv'
<1>1. TypeOK /\ RowIsKept /\ NightIsSound /\ lastRun <= day /\ digests \in [Weeks -> SUBSET Ids] /\ day \in Days /\ day \in Nat
    BY DaysCount DEF BoardInv, TypeOK
<1>2. CASE NightBegins
    <2> DEFINE idle == {i \in Present : tasks[i].status \in Active /\ Older(tasks[i].updated, StaleDays)}
    <2>1. idle \subseteq Present
        OBVIOUS
    <2>2. /\ tasks' = Without(idle) /\ dropped' = dropped \cup RowsOf(idle) /\ added' = added
          /\ night' = [at |-> "weeks", weeks |-> {WeekOf(i) : i \in Eligible}]
          /\ UNCHANGED <<digests, rowVars, lastRun, audit, script, day>>
        BY <1>2 DEF NightBegins
    <2> HIDE DEF idle
    <2>3. TableMoves /\ RowIsKept' /\ dropped' \subseteq Rows
        BY <1>1, <2>1, <2>2, RowsRest, DeletionKeeps
    <2>4. NightIsSound'
        BY <1>1, <2>2, DoneWeeks DEF NightIsSound, WeeksForm
    <2>. QED
        BY <1>1, <2>2, <2>3, <2>4, TableNightKeeps
<1>3. CASE DigestReads
    <2>1. night.at = "weeks" /\ night \in WeeksForm
        BY <1>1, <1>3 DEF DigestReads, NightIsSound, AsleepForm, WeeksForm, EmbedForm, StraysForm
    <2>2. PICK w \in night.weeks :
            LET ids == {i \in Eligible : WeekOf(i) = w}
                rest == night.weeks \ {w}
            IN  night' = IF ids = {} THEN [night EXCEPT !.weeks = rest]
                         ELSE [at |-> "embed", weeks |-> rest, week |-> w,
                               lines |-> DigestLines(w, ids), read |-> day]
        BY <1>3 DEF DigestReads
    <2> DEFINE ids == {i \in Eligible : WeekOf(i) = w}
               rest == night.weeks \ {w}
    <2>3. UNCHANGED <<taskVars, digests, rowVars, lastRun, audit, script, day, dropped>>
        BY <1>3 DEF DigestReads
    <2>4. CASE ids = {}
        <3>1. night' = [night EXCEPT !.weeks = rest]
            BY <2>2, <2>4
        <3>2. night' \in WeeksForm
            BY <2>1, <3>1 DEF WeeksForm
        <3>. QED
            BY <2>3, <3>2, QuietNightKeeps DEF NightIsSound, WeeksForm
    <2>5. CASE ids # {}
        <3>1. night' = [at |-> "embed", weeks |-> rest, week |-> w, lines |-> DigestLines(w, ids), read |-> day]
            BY <2>2, <2>5
        <3>2. rest \in SUBSET Weeks /\ w \in Weeks
            BY <2>1 DEF WeeksForm
        <3>3. DigestLines(w, ids) \in SUBSET Ids
            BY <1>1, <3>2, DoneWeeks DEF DigestLines
        <3> HIDE DEF rest
        <3>4. night' \in EmbedForm
            BY <1>1, <3>1, <3>2, <3>3 DEF EmbedForm
        <3>5. ASSUME NEW i \in Present', OldDone(i)' PROVE i \in night'.lines
            <4>1. night'.read = day /\ night'.week = w /\ night'.lines = DigestLines(w, ids)
                BY <3>1
            <4>2. tasks' = tasks /\ i \in Present
                BY <2>3 DEF taskVars, Present
            <4>3. i \in Eligible /\ WeekOf(i) = w
                BY <3>5, <4>1, <4>2 DEF OldDone, Eligible, Older, WeekOf
            <4>. QED
                BY <4>1, <4>3 DEF DigestLines
        <3>6. night'.read <= day'
            BY <1>1, <2>3, <3>1
        <3>7. NightIsSound'
            BY <3>4, <3>5, <3>6 DEF NightIsSound, EmbedForm
        <3>. QED
            BY <2>3, <3>7, QuietNightKeeps
    <2>. QED
        BY <2>4, <2>5
<1>4. CASE DigestWrites
    <2> DEFINE gone == {i \in Eligible : WeekOf(i) = night.week}
    <2>1. gone \subseteq Present
        BY DEF Eligible
    <2>2. /\ tasks' = Without(gone) /\ dropped' = dropped \cup RowsOf(gone) /\ added' = added
          /\ night' = [at |-> "weeks", weeks |-> night.weeks] /\ night.at = "embed"
          /\ digests' = [digests EXCEPT ![night.week] = night.lines]
          /\ UNCHANGED <<rowVars, lastRun, audit, script, day>>
        BY <1>4 DEF DigestWrites
    <2> HIDE DEF gone
    <2>3. TableMoves /\ RowIsKept' /\ dropped' \subseteq Rows
        BY <1>1, <2>1, <2>2, RowsRest, DeletionKeeps
    <2>4. night \in EmbedForm
        BY <1>1, <2>2 DEF NightIsSound, AsleepForm, WeeksForm, EmbedForm, StraysForm
    <2>5. night' \in WeeksForm /\ digests' \in [Weeks -> SUBSET Ids]
        BY <1>1, <2>2, <2>4 DEF WeeksForm, EmbedForm
    <2>. QED
        BY <1>1, <2>2, <2>3, <2>5, TableNightKeeps DEF NightIsSound, WeeksForm
<1>5. CASE DigestFails
    <2>1. night \in EmbedForm /\ night' = [at |-> "weeks", weeks |-> night.weeks]
        BY <1>1, <1>5 DEF DigestFails, NightIsSound, AsleepForm, WeeksForm, EmbedForm, StraysForm
    <2>2. NightIsSound'
        BY <2>1 DEF NightIsSound, WeeksForm, EmbedForm
    <2>. QED
        BY <1>5, <2>2, QuietNightKeeps DEF DigestFails
<1>. QED
    BY <1>2, <1>3, <1>4, <1>5

LEMMA PrunesKeep ==
  ASSUME BoardInv, CancelledGo \/ JanitorDeletes \/ NightDies
  PROVE  BoardInv'
<1>1. TypeOK /\ RowIsKept /\ digests \in [Weeks -> SUBSET Ids]
    BY DEF BoardInv, TypeOK
<1>2. night' \in AsleepForm
    BY DEF CancelledGo, JanitorDeletes, NightDies, Asleep, AsleepForm
<1>3. NightIsSound'
    BY <1>2 DEF NightIsSound, AsleepForm
<1>4. ASSUME NEW ids, ids \subseteq Present, tasks' = Without(ids), added' = added,
             dropped' = dropped \cup RowsOf(ids), UNCHANGED <<digests, rowVars, lastRun, audit, script, day>>
      PROVE  BoardInv'
    <2>1. TableMoves /\ RowIsKept' /\ dropped' \subseteq Rows
        BY <1>1, <1>4, RowsRest, DeletionKeeps
    <2>. QED
        BY <1>1, <1>3, <1>4, <2>1, TableNightKeeps
<1>5. CASE CancelledGo
    <2> DEFINE old == {i \in Present : tasks[i].status = "cancelled" /\ Older(tasks[i].updated, CancelledDays)}
    <2>1. old \subseteq Present
        OBVIOUS
    <2>2. /\ tasks' = Without(old) /\ dropped' = dropped \cup RowsOf(old) /\ added' = added
          /\ UNCHANGED <<digests, rowVars, lastRun, audit, script, day>>
        BY <1>5 DEF CancelledGo
    <2> HIDE DEF old
    <2>. QED
        BY <1>4, <2>1, <2>2
<1>6. CASE JanitorDeletes
    <2> DEFINE old == {i \in Present : tasks[i].status = "done" /\ Older(tasks[i].completed, JanitorDays)}
    <2>1. old \subseteq Present
        OBVIOUS
    <2>2. /\ tasks' = Without(old) /\ dropped' = dropped \cup RowsOf(old) /\ added' = added
          /\ UNCHANGED <<digests, rowVars, lastRun, audit, script, day>>
        BY <1>6 DEF JanitorDeletes
    <2> HIDE DEF old
    <2>. QED
        BY <1>4, <2>1, <2>2
<1>7. CASE NightDies
    BY <1>3, <1>7, QuietNightKeeps DEF NightDies
<1>. QED
    BY <1>5, <1>6, <1>7
(* The strays: all of the window is to be looked at, and what is no longer  *)
(* to be looked at was shown to the classifier or is gone.                 *)
LEMMA StraysKeep ==
  ASSUME BoardInv, StraysRead \/ StraysEnd
  PROVE  BoardInv'
<1>1. /\ TypeOK /\ NoStrayMissed /\ NightIsSound /\ lastRun <= day /\ day \in Days /\ day \in Nat
      /\ lastRun \in Days \cup {Never} /\ lastRun \in Int /\ WindowDays \in Nat
      /\ rows \subseteq Rows /\ \A r \in rows : born[r] \in Nat
    BY DaysCount, BoardConstants DEF BoardInv, TypeOK, Never
<1>2. CASE StraysRead
    <2>1. /\ UNCHANGED <<taskVars, digests, rowVars, lastRun, audit, script, day, dropped>>
          /\ night' = [at |-> "strays", since |-> day, done |-> 0, todo |-> {r \in rows : InWindow(r)}]
        BY <1>2 DEF StraysRead
    <2>2. UNCHANGED <<rows, born, examined>>
        BY <1>1, <2>1, RowsRest
    <2>3. night' \in StraysForm
        BY <1>1, <2>1 DEF StraysForm
    <2>4. night'.since = day /\ night'.todo = {r \in rows : InWindow(r)}
        BY <2>1
    <2>5. ASSUME NEW r \in rows, day - WindowDays <= born[r], born[r] < day
          PROVE  InWindow(r) \/ r \in examined
        <3>1. CASE lastRun = Never \/ lastRun < day - WindowDays
            BY <2>5, <3>1 DEF InWindow, WindowStart
        <3>2. CASE ~(lastRun = Never \/ lastRun < day - WindowDays)
            <4>1. InWindow(r) \/ born[r] < lastRun
                BY <1>1, <3>2 DEF InWindow, WindowStart
            <4>2. lastRun - WindowDays <= born[r]
                BY <1>1, <2>5
            <4>. QED
                BY <1>1, <4>1, <4>2 DEF NoStrayMissed
        <3>. QED
            BY <3>1, <3>2
    <2>6. WindowSeen'
        BY <2>2, <2>4, <2>5 DEF WindowSeen
    <2>7. NightIsSound'
        BY <1>1, <2>1, <2>3, <2>4, <2>6 DEF NightIsSound, StraysForm
    <2>. QED
        BY <2>1, <2>7, QuietNightKeeps
<1>3. CASE StraysEnd
    <2>1. /\ UNCHANGED <<taskVars, digests, rowVars, audit, script, day, dropped>> /\ night.at = "strays"
          /\ lastRun' = (IF night.todo # {} THEN lastRun ELSE night.since)
          /\ night' = [at |-> "janitor"]
        BY <1>3 DEF StraysEnd, WindowAfter
    <2>2. /\ UNCHANGED <<rows, born, examined, written>>
          /\ born' \in [Rows -> Days] /\ rows' \subseteq written' /\ examined' \subseteq rows'
        BY <1>1, <2>1, RowsRest
    <2>3. night \in StraysForm /\ night.since <= day /\ WindowSeen
        BY <1>1, <2>1 DEF NightIsSound, AsleepForm, WeeksForm, EmbedForm, StraysForm
    <2>4. lastRun' \in Days \cup {Never} /\ lastRun' <= day
        BY <1>1, <2>1, <2>3 DEF StraysForm
    <2>5. NoStrayMissed'
        BY <1>1, <2>1, <2>2, <2>3 DEF NoStrayMissed, WindowSeen
    <2>6. NightIsSound'
        BY <2>1 DEF NightIsSound, AsleepForm
    <2>7. TableMoves /\ Present' = Present
        BY <1>1, <2>1, TableRests
    <2>8. RowIsKept' /\ digests' \in [Weeks -> SUBSET Ids] /\ dropped' \subseteq Rows
        BY <1>1, <2>1, <2>2, <2>7, KeepingKeeps DEF BoardInv, TypeOK
    <2>. QED
        BY <2>1, <2>2, <2>4, <2>5, <2>6, <2>7, <2>8, NightStepKeeps
<1>. QED
    BY <1>2, <1>3

LEMMA StrayKeeps ==
  ASSUME BoardInv, StrayClassified
  PROVE  BoardInv'
<1>1. /\ TypeOK /\ RowIsKept /\ NoStrayMissed /\ NightIsSound /\ lastRun <= day
      /\ lastRun \in Days \cup {Never} /\ rows \subseteq Rows
      /\ digests' \in [Weeks -> SUBSET Ids] /\ dropped' \subseteq Rows
      /\ UNCHANGED <<digests, written, lastRun, audit, script, day, dropped>>
    BY DEF BoardInv, TypeOK, StrayClassified
<1>2. night.at = "strays" /\ night.todo # {}
    BY DEF StrayClassified
<1>3. night \in StraysForm /\ night.since <= day /\ lastRun <= night.since /\ WindowSeen
    BY <1>1, <1>2 DEF NightIsSound, AsleepForm, WeeksForm, EmbedForm, StraysForm
<1> DEFINE r == First(night.todo)
<1>4. r \in night.todo /\ r \in Rows
    BY <1>2, <1>3, FirstIsOne DEF StraysForm
<1>5. night' = [at |-> "strays", since |-> night.since, done |-> night.done + 1, todo |-> night.todo \ {r}]
    <2>1. night' = [night EXCEPT !.todo = @ \ {First(@)}, !.done = @ + 1]
        BY DEF StrayClassified
    <2>2. night = [at |-> "strays", since |-> night.since, done |-> night.done, todo |-> night.todo]
        BY <1>3 DEF StraysForm
    <2> DEFINE one == [night EXCEPT !.todo = @ \ {r}]
    <2>3. one = [at |-> "strays", since |-> night.since, done |-> night.done, todo |-> night.todo \ {r}]
        BY <2>2
    <2>4. night' = [one EXCEPT !.done = night.done + 1]
        <3>1. one.done = night.done
            BY <2>3
        <3>. QED
            BY <2>1, <3>1
    <2> HIDE DEF one
    <2>. QED
        BY <2>3, <2>4
<1>6. StrayBecomesTask(r) \/ StrayStays(r)
    BY DEF StrayClassified
<1> HIDE DEF r
<1>7. night' \in StraysForm /\ night'.since = night.since /\ night'.todo = night.todo \ {r}
    BY <1>3, <1>5 DEF StraysForm
<1>8. ASSUME TableMoves, RowsMove, born' \in [Rows -> Days], rows' \subseteq written',
             examined' \subseteq rows', RowIsKept',
             \A q \in rows' : q \in rows /\ born'[q] = born[q] /\ (q \in examined => q \in examined')
                              /\ (q = r => q \in examined')
      PROVE  BoardInv'
    <2>1. WindowSeen'
        BY <1>3, <1>7, <1>8 DEF WindowSeen
    <2>2. night'.since <= day' /\ lastRun' <= night'.since
        BY <1>1, <1>3, <1>7
    <2>3. NightIsSound'
        BY <1>7, <2>1, <2>2 DEF NightIsSound, StraysForm
    <2>4. rows' \subseteq Rows
        BY <1>1, <1>8 DEF TypeOK
    <2>5. NoStrayMissed'
        BY <1>1, <1>8, <2>4, StraysRest
    <2>. QED
        BY <1>1, <1>8, <2>3, <2>5, NightStepKeeps
<1>9. CASE StrayBecomesTask(r)
    <2>1. Stray(r) \in Sources /\ Stray(r) # NoSource
        BY <1>4 DEF Sources, RowSources, Stray, NoSource
    <2>2. /\ TableMoves /\ \A i \in Present : i \in Present'
          /\ \E i \in Present' : tasks'[i].source = Stray(r)
        BY <1>1, <1>9, <2>1, UpsertMoves DEF StrayBecomesTask
    <2>3. /\ RowsMove /\ rows' = rows \ {r}
          /\ born' \in [Rows -> Days] /\ rows' \subseteq written' /\ examined' \subseteq rows'
        BY <1>1, <1>4, <1>9, RowLeaves DEF StrayBecomesTask
    <2>4. r \in RowsOf(Present)'
        BY <1>4, <2>2 DEF RowsOf, Stray, Migrated
    <2>5. RowIsKept'
        BY <1>1, <2>2, <2>3, <2>4, RowsKeep
    <2>6. \A q \in rows' : q \in rows /\ q # r /\ born'[q] = born[q] /\ (q \in examined => q \in examined')
        BY <1>1, <1>9, <2>3 DEF StrayBecomesTask, RowGoes, TypeOK
    <2>. QED
        BY <1>8, <2>2, <2>3, <2>5, <2>6
<1>10. CASE StrayStays(r)
    <2>1. UNCHANGED <<taskVars, rows, born>> /\ examined' = examined \cup ({r} \cap rows)
        BY <1>10 DEF StrayStays
    <2>2. TableMoves /\ Present' = Present
        BY <1>1, <2>1, TableRests
    <2>3. RowsMove /\ born' \in [Rows -> Days] /\ rows' \subseteq written' /\ examined' \subseteq rows'
        BY <1>1, <2>1 DEF RowsMove, TypeOK
    <2>4. RowIsKept'
        BY <1>1, <2>1, <2>2, KeepingKeeps
    <2>. QED
        BY <1>8, <2>1, <2>2, <2>3, <2>4
<1>. QED
    BY <1>6, <1>9, <1>10

LEMMA BoardStart == BoardInit => BoardInv
<1> SUFFICES ASSUME BoardInit PROVE BoardInv
    OBVIOUS
<1> USE DEF BoardInit
<1>1. 0 \in Days /\ 0 \in 0..MaxTasks /\ Never <= 0
    BY BoardConstants DEF Days, Never
<1>2. Present = {}
    BY DEF Present
<1>3. TypeOK
    BY <1>1, <1>2 DEF TypeOK
<1>4. NightIsSound /\ script \in ScriptForms /\ LinesAreTrue
    BY DEF NightIsSound, Asleep, AsleepForm, ScriptForms, NotRunning, LinesAreTrue
<1>5. RowIsKept /\ NoStrayMissed
    BY DEF RowIsKept, NoStrayMissed
<1>. QED
    BY <1>1, <1>3, <1>4, <1>5 DEF BoardInv

LEMMA BoardStep == BoardInv /\ [BoardNext]_boardVars => BoardInv'
<1> SUFFICES ASSUME BoardInv, [BoardNext]_boardVars PROVE BoardInv'
    OBVIOUS
<1>1. CASE People
    BY <1>1, PeopleKeep
<1>2. CASE WritesRow \/ DeletesRow
    BY <1>2, RowStepsKeep
<1>3. CASE Night
    BY <1>3, DigestsKeep, PrunesKeep, StraysKeep, StrayKeeps DEF Night
<1>4. CASE Scripts
    BY <1>4, MigrationKeeps, FileKeeps, RollbackKeeps DEF Scripts
<1>5. CASE DayPasses
    BY <1>5, DayKeeps
<1>6. CASE UNCHANGED boardVars
    <2>1. UNCHANGED <<taskVars, rowVars, digests, lastRun, audit, night, script, day, dropped>>
        BY <1>6 DEF boardVars
    <2>2. TypeOK /\ NightIsSound /\ lastRun <= day /\ TableMoves /\ day \in Days /\ day \in Nat
        BY <2>1, TableRests, DaysCount DEF BoardInv
    <2>3. NightIsSound'
        BY <2>1, <2>2, NightRests, RowsRest
    <2>. QED
        BY <2>1, <2>3, QuietNightKeeps
<1>. QED
    BY <1>1, <1>2, <1>3, <1>4, <1>5, <1>6 DEF BoardNext

(* Whatever moves the table leaves closed tasks as they are.               *)
LEMMA BoardMoves ==
  ASSUME BoardInv, [BoardNext]_boardVars
  PROVE  TableMoves
<1>1. TypeOK /\ RowIsKept
    BY DEF BoardInv
<1>2. ASSUME NEW ids, tasks' = Without(ids), added' = added PROVE TableMoves
    BY <1>1, <1>2, DeleteMoves
<1>3. ASSUME NEW source \in Sources, source # NoSource, Upserts(source) PROVE TableMoves
    BY <1>1, <1>3, UpsertMoves
<1>4. CASE UNCHANGED taskVars
    BY <1>1, <1>4, TableRests
<1>5. CASE People
    <2>1. UserSource \in Sources /\ NoSource \in Sources /\ UserSource # NoSource
        BY DEF Sources, UserSource, NoSource
    <2>2. ASSUME Adds PROVE TableMoves
        BY <1>1, <1>3, <2>1, <2>2, InsertMoves DEF Adds
    <2>3. ASSUME NEW i \in Ids, Edits(i) \/ \E to \in Active \cup Terminal : Transitions(i, to) PROVE TableMoves
        BY <1>1, <2>3, TransitionMoves, EditMoves
    <2>. QED
        BY <1>2, <1>5, <2>2, <2>3 DEF People
<1>6. CASE NightBegins \/ DigestWrites \/ CancelledGo \/ JanitorDeletes \/ RollsBack
    BY <1>2, <1>6 DEF NightBegins, DigestWrites, CancelledGo, JanitorDeletes, RollsBack
<1>7. CASE StrayClassified
    <2>1. night \in StraysForm /\ night.todo # {}
        BY <1>7 DEF BoardInv, StrayClassified, NightIsSound, AsleepForm, WeeksForm, EmbedForm, StraysForm
    <2>2. First(night.todo) \in Rows
        BY <2>1, FirstIsOne DEF StraysForm
    <2>3. Stray(First(night.todo)) \in Sources /\ Stray(First(night.todo)) # NoSource
        BY <2>2 DEF Sources, RowSources, Stray, NoSource
    <2>. QED
        BY <1>3, <1>4, <1>7, <2>3 DEF StrayClassified, StrayBecomesTask, StrayStays
<1>8. CASE ScriptClassified
    <2>1. script.todo \in SUBSET Rows /\ script.todo # {}
        BY <1>8 DEF BoardInv, ScriptClassified, ScriptForms, TypeOK
    <2>2. First(script.todo) \in Rows
        BY <2>1, FirstIsOne
    <2>3. Migrated(First(script.todo)) \in Sources /\ Migrated(First(script.todo)) # NoSource
        BY <2>2 DEF Sources, RowSources, Migrated, NoSource
    <2>. QED
        BY <1>1, <1>3, <1>4, <1>8, <2>3, InsertMoves DEF ScriptClassified, ScriptMigrates
<1>9. CASE WritesRow \/ DeletesRow \/ DayPasses \/ DigestReads \/ DigestFails \/ StraysRead \/ StraysEnd
           \/ NightDies \/ ScriptBegins \/ ScriptAppends \/ ScriptEnds \/ UNCHANGED boardVars
    BY <1>4, <1>9 DEF WritesRow, DeletesRow, DayPasses, DigestReads, DigestFails, StraysRead, StraysEnd,
                      NightDies, ScriptBegins, ScriptAppends, ScriptEnds, boardVars
<1>. QED
    BY <1>5, <1>6, <1>7, <1>8, <1>9 DEF BoardNext, Night, Scripts

(* And of the night, only a digest, which lists them, and the janitor take  *)
(* done ones away.                                                         *)
LEMMA NightDigests ==
  ASSUME BoardInv, [BoardNext]_boardVars, NEW i \in Retired
  PROVE  \/ i \in DigestedNow
         \/ night.at = "janitor"
         \/ night.at = "embed" /\ tasks[i].completed >= night.read - DoneDays
<1>1. /\ i \in Present /\ i \in Ids /\ night' # night /\ tasks'[i] = NoTask /\ tasks[i] # NoTask
      /\ tasks[i].status = "done" /\ TypeOK /\ NightIsSound
    BY DEF Retired, Present, BoardInv
<1>2. Night
    BY <1>1 DEF BoardNext, boardVars, People, WritesRow, DeletesRow, DayPasses, Scripts, ScriptBegins,
                ScriptClassified, ScriptAppends, ScriptEnds, RollsBack
<1>3. ASSUME NEW ids, tasks' = Without(ids) PROVE i \in ids
    BY <1>1, <1>3 DEF Without
<1>4. tasks' # tasks
    BY <1>1
<1>5. CASE NightBegins \/ CancelledGo
    <2>1. CASE NightBegins
        BY <1>1, <1>3, <2>1 DEF NightBegins, Active
    <2>2. CASE CancelledGo
        BY <1>1, <1>3, <2>2 DEF CancelledGo
    <2>. QED
        BY <1>5, <2>1, <2>2
<1>6. CASE StrayClassified
    <2>1. night \in StraysForm /\ night.todo # {}
        BY <1>1, <1>6 DEF StrayClassified, NightIsSound, AsleepForm, WeeksForm, EmbedForm, StraysForm
    <2>2. First(night.todo) \in Rows
        BY <2>1, FirstIsOne DEF StraysForm
    <2>3. Stray(First(night.todo)) \in Sources /\ Stray(First(night.todo)) # NoSource
        BY <2>2 DEF Sources, RowSources, Stray, NoSource
    <2>4. Upserts(Stray(First(night.todo)))
        BY <1>4, <1>6 DEF StrayClassified, StrayBecomesTask, StrayStays, taskVars
    <2>5. i \in Present'
        BY <1>1, <2>3, <2>4, UpsertMoves
    <2>. QED
        BY <1>1, <2>5 DEF Present
<1>7. CASE DigestWrites
    <2>1. i \in Eligible /\ WeekOf(i) = night.week /\ night.at = "embed"
        BY <1>3, <1>7 DEF DigestWrites
    <2>2. /\ night \in EmbedForm /\ \A k \in Present : OldDone(k) => k \in night.lines
        BY <1>1, <2>1 DEF NightIsSound, AsleepForm, WeeksForm, EmbedForm, StraysForm
    <2>3. tasks[i].completed \in Nat /\ night.read \in Nat /\ DoneDays \in Nat
        BY <1>1, <2>1, <2>2, DoneWeeks, DaysCount, BoardConstants DEF EmbedForm
    <2>4. CASE tasks[i].completed < night.read - DoneDays
        <3>1. i \in night.lines
            BY <1>1, <2>1, <2>2, <2>4 DEF OldDone
        <3>2. night.week \in Weeks /\ digests'[night.week] = night.lines
            BY <1>1, <1>7, <2>2 DEF DigestWrites, EmbedForm, TypeOK
        <3>. QED
            BY <3>1, <3>2 DEF DigestedNow
    <2>5. CASE ~(tasks[i].completed < night.read - DoneDays)
        BY <2>1, <2>3, <2>5
    <2>. QED
        BY <2>4, <2>5
<1>8. CASE JanitorDeletes
    BY <1>8 DEF JanitorDeletes
<1>9. CASE DigestReads \/ DigestFails \/ StraysRead \/ StraysEnd \/ NightDies
    BY <1>4, <1>9 DEF DigestReads, DigestFails, StraysRead, StraysEnd, NightDies, taskVars
<1>. QED
    BY <1>2, <1>5, <1>6, <1>7, <1>8, <1>9 DEF Night

\* For any ages, caps and number of rows: no memory is lost on its way to the
\* board or overlooked by the nights, and a closed task stays as it was closed
\* until it is in a digest or too old.
THEOREM TasksStayKept == BoardSpec => TasksAreKept
<1>1. BoardSpec => []BoardInv
    BY BoardStart, BoardStep, PTL DEF BoardSpec
<1>2. BoardInv' => RowIsKept' /\ NoStrayMissed'
    BY DEF BoardInv
<1>3. BoardInv /\ [BoardNext]_boardVars =>
        \A i \in Present : tasks[i].status \in Terminal /\ tasks'[i] # NoTask
          => tasks'[i].status = tasks[i].status /\ tasks'[i].completed = tasks[i].completed
    BY BoardMoves, ClosedStays
<1>4. BoardInv /\ [BoardNext]_boardVars =>
        \A i \in Retired : \/ i \in DigestedNow
                           \/ night.at = "janitor"
                           \/ night.at = "embed" /\ tasks[i].completed >= night.read - DoneDays
    BY NightDigests
<1>5. BoardSpec => NoRowIsLost
    BY <1>1, <1>2, PTL DEF NoRowIsLost, BoardSpec
<1>6. BoardSpec => TerminalIsFinal
    BY <1>1, <1>3, PTL DEF TerminalIsFinal, BoardSpec
<1>7. BoardSpec => DoneIsDigested
    BY <1>1, <1>4, PTL DEF DoneIsDigested, BoardSpec
<1>. QED
    BY <1>5, <1>6, <1>7 DEF TasksAreKept, ClosedIsKept
=============================================================================
