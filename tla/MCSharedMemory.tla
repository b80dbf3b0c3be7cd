---- MODULE MCSharedMemory ----
EXTENDS SharedMemory, TLC
MCTexts == {"a", "b"}
MCArchived == {"c"}
MCTextsAll == {"a", "b", "c"}
MCFact == [t \in MCTextsAll |-> CASE t = "a" -> "A" [] t = "b" -> "B" [] t = "c" -> "C"]
MCCosine == [t \in MCTextsAll |-> [u \in MCTextsAll |-> IF MCFact[t] = MCFact[u] THEN 93 ELSE 10]]
MCOverlap == {<<"b","b">>}
MCSymmetry == Permutations(Writers)
=============================================================================
