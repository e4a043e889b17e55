--------------------------- MODULE MCApplianceOps ---------------------------
(***************************************************************************)
(* Small instances of ApplianceOps for TLC.                                *)
(***************************************************************************)
EXTENDS ApplianceOps, TLC

\* Request threads, sessions and challenge values are interchangeable.
Symmetry == Permutations(Callers) \cup Permutations(Sessions)
                \cup Permutations(Challenges)

\* So are the operations of an instance in which all are of one kind.
OpSymmetry == Symmetry \cup Permutations(Ops)

=============================================================================
