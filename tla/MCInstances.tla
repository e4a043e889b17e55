----------------------------- MODULE MCInstances -----------------------------
(* Instances of Instances for TLC. *)
EXTENDS Instances, TLC

\* Two spellings of one name.
Lower == [n \in Names |-> IF n = "GW" THEN "gw" ELSE n]

\* Requests and hosts can be exchanged.
Exchanged == Permutations(Writers) \cup Permutations(Callers) \cup Permutations(Hosts)
=============================================================================
