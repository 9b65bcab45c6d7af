------------------------------ MODULE MCLocks ------------------------------
(***************************************************************************)
(* What is kept in the replicated store, for TLC: locks (two contenders,   *)
(* three leases) and the sealed secrets of a cluster of two.  The modules  *)
(* share no state, so a behaviour of the whole is one of one of them:      *)
(* component names it, the other keeps its initial value.                  *)
(***************************************************************************)
EXTENDS MCLockService, Secrets

VARIABLE component

lockvars == <<fsm, pc, lease, used, faults>>

On(c) == component = c

MCInit == component \in {"lock", "secrets"} /\ Init /\ SeInit

MCNext == /\ UNCHANGED component
          /\ \/ On("lock") /\ Next /\ UNCHANGED sevars
             \/ On("secrets") /\ SeNext /\ UNCHANGED lockvars

(* Lease IDs are alike, so it is enough to hand them out in order.           *)
LeasesInOrder == \A l \in used : 1 .. l \subseteq used

\* The fairness of each module, for its own behaviours.
Fairness ==
  /\ \A c \in Contenders :
       /\ WF_lockvars(On("lock") /\ (CheckAbsent(c) \/ PutLockKey(c) \/ AttachKey(c)
                                       \/ DeleteFailed(c) \/ RevokeFailed(c)))
       /\ WF_lockvars(On("lock") /\ pc[c] = "held" /\ BeginRelease(c))
       /\ WF_lockvars(On("lock") /\ (DeleteLockKey(c) \/ RevokeLease(c)))
  /\ \A n \in Nodes : /\ WF_sevars(On("secrets") /\ Booting(n))
                      /\ WF_sevars(On("secrets") /\ ApplyEntry(n))

MCSpec == MCInit /\ [][MCNext]_<<component, lockvars, sevars>> /\ Fairness
-----------------------------------------------------------------------------
\* Nodes that count as unsealed have the cluster's one key, and only those;
\* start-up stores the key and unseals every node that finds it stored.
UnsealedHaveTheKey ==
  /\ [](KeyAgreement /\ SealStatesAgree) /\ StartupUnseals
  /\ []<>(On("secrets") => MarkerStored)
=============================================================================
