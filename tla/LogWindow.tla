------------------------------ MODULE LogWindow ------------------------------
(***************************************************************************)
(* The embeddings of the raw log: the last heavy step of a night embeds log *)
(* rows that have no embedding, as many as fit under a cap, in batches that *)
(* run beside each other, and evicts the oldest ones over the cap.  Ids of  *)
(* the log are drawn in the order of creation.                              *)
(***************************************************************************)
EXTENDS Integers, FiniteSets

CONSTANTS
  Nights,       \* runs of the step that may overlap
  Caps,         \* values of LOG_EMBED_CAP
  EmbedBatch,   \* LOG_EMBED_BATCH
  MaxLogged,    \* bound: rows of the log
  MaxBoots      \* bound: restarts

ASSUME WindowAssumption ==
  /\ Caps \subseteq Nat /\ EmbedBatch \in Nat \ {0}
  /\ MaxLogged \in Nat /\ MaxBoots \in Nat

VARIABLES
  logged,       \* how many rows the log has
  window,       \* ids of vec_embeddings with layer = 'log'
  cap,          \* the cap this process was started with
  embedder,     \* night -> what its step has read and still has to embed
  boots,
  settled,      \* history: a step ended since the last start
  filled        \* history: as many rows the last step without errors had to reach

windowVars == <<logged, window, cap, embedder, boots, settled, filled>>

---------------------------------------------------------------------------
NotEmbedding == [at |-> "off"]
Lesser(a, b) == IF a <= b THEN a ELSE b
Over(a, b) == IF a > b THEN a - b ELSE 0
Newest(ids, n) == {i \in ids : Cardinality({j \in ids : j > i}) < n}
Oldest(ids, n) == {i \in ids : Cardinality({j \in ids : j < i}) < n}

\* selectUnembeddedRecent.  Mutant: embedded rows are taken too.
UnembeddedAll(n) == Newest(1..logged, n)
Unembedded(n) == Newest(1..logged \ window, n)

\* chunk: newest first, EmbedBatch to a call.
Batches(ids) ==
  {Newest(ids, k * EmbedBatch) \ Newest(ids, (k - 1) * EmbedBatch) : k \in 1..Cardinality(ids)} \ {{}}

Pending(n) == IF embedder[n] = NotEmbedding THEN {} ELSE embedder[n].todo

WindowInit ==
  /\ logged = 0 /\ window = {} /\ boots = 0
  /\ cap \in Caps
  /\ embedder = [n \in Nights |-> NotEmbedding]
  /\ settled = FALSE /\ filled = 0

\* A chat stores a row.
LogGrows ==
  /\ logged < MaxLogged
  /\ logged' = logged + 1
  /\ UNCHANGED <<window, cap, embedder, boots, settled, filled>>

\* The cap may be another one after a restart.
Reboots(c) ==
  /\ boots < MaxBoots
  /\ boots' = boots + 1
  /\ cap' = c
  /\ embedder' = [n \in Nights |-> NotEmbedding]
  /\ settled' = FALSE /\ filled' = 0
  /\ UNCHANGED <<logged, window>>

---------------------------------------------------------------------------
\* No cap, no window.
Empties(n) ==
  /\ embedder[n] = NotEmbedding /\ cap = 0
  /\ window' = window \ Oldest(window, Cardinality(window))
  /\ settled' = TRUE
  /\ UNCHANGED <<logged, cap, embedder, boots, filled>>

\* The rows are chosen when the step begins.
WindowBegins(n) ==
  /\ embedder[n] = NotEmbedding /\ cap > 0
  /\ embedder' = [embedder EXCEPT ![n] =
       [at |-> "embeds", todo |-> Batches(Unembedded(Over(cap, Cardinality(window)))),
        reach |-> Lesser(cap, logged), errors |-> FALSE]]
  /\ UNCHANGED <<logged, window, cap, boots, settled, filled>>

\* A batch comes, in any order, and is stored at once.
BatchComes(n, b) ==
  /\ b \in Pending(n)
  /\ window' = window \union b
  /\ embedder' = [embedder EXCEPT ![n].todo = @ \ {b}]
  /\ UNCHANGED <<logged, cap, boots, settled, filled>>

\* The provider fails, or answers with another number of vectors.
BatchFails(n, b) ==
  /\ b \in Pending(n)
  /\ embedder' = [embedder EXCEPT ![n].todo = @ \ {b}, ![n].errors = TRUE]
  /\ UNCHANGED <<logged, window, cap, boots, settled, filled>>

\* All batches have settled.
Overflow(n) == Over(Cardinality(window), cap)

WindowEnds(n) ==
  /\ embedder[n] # NotEmbedding /\ Pending(n) = {}
  /\ window' = window \ Oldest(window, Overflow(n))
  /\ embedder' = [embedder EXCEPT ![n] = NotEmbedding]
  /\ settled' = TRUE
  /\ filled' = IF embedder[n].errors THEN filled ELSE embedder[n].reach
  /\ UNCHANGED <<logged, cap, boots>>

WindowNext ==
  \/ LogGrows
  \/ \E c \in Caps : Reboots(c)
  \/ \E n \in Nights : Empties(n) \/ WindowBegins(n) \/ WindowEnds(n)
                       \/ \E b \in Pending(n) : BatchComes(n, b) \/ BatchFails(n, b)

WindowSpec == WindowInit /\ [][WindowNext]_windowVars

---------------------------------------------------------------------------
\* Between the nights the window is as the cap of this process says, also
\* when two nights overlapped, a batch failed or the cap was lowered by a
\* restart: never larger, and full when a step went through without errors.
WindowIsKept ==
  settled /\ (\A n \in Nights : embedder[n] = NotEmbedding) =>
    Cardinality(window) \in filled..cap
=============================================================================
