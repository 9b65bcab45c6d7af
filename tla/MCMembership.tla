---------------------------- MODULE MCMembership ----------------------------
(* Membership for TLC. *)
EXTENDS Membership, TLC

\* Bound: raft calls outstanding at once, re-adds nobody waits for included.
Overlap == Cardinality({c \in Callers : request[c].step # "idle"}) + Cardinality(readds) <= 2

Symmetry == Permutations(Servers) \cup Permutations(Callers)
=============================================================================
