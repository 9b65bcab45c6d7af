--------------------------- MODULE MCLockService ---------------------------
(***************************************************************************)
(* LockService with one lock key; lease IDs double as the values that name *)
(* them.  Sizes are nil and limits far away: only control matters here.    *)
(***************************************************************************)
EXTENDS LockService, TLC

MCKeys == {LockKey}
MCSizeOf == [x \in MCKeys \cup LeaseIDs |-> 0]

Symmetry == Permutations(Contenders) \cup Permutations(LeaseIDs)
=============================================================================
