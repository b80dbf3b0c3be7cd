---------------------------- MODULE MCApprovalFlow ----------------------------
(* ApprovalFlow on small instances: see the cfg files for the values.          *)
EXTENDS ApprovalFlow, TLC

CONSTANTS a1, a2, k1, k2, kfree, r1, r2, r3, r4

\* Agents and row ids are interchangeable; keys are not (one may be ungated).
Symmetry == Permutations(Agents) \cup Permutations(RowIds)

=============================================================================
