---------------------------- MODULE LockService ----------------------------
(***************************************************************************)
(* Lock and Election of internal/raft/lease.go: two names for one protocol *)
(* on one key (Acquire is Campaign, Release is Resign).  Every step below  *)
(* is one Node.Apply or one linearizable read; other contenders' steps     *)
(* come in between.  The store is the leader's state machine.              *)
(*                                                                         *)
(* The value of the lock key is the lease it names (the JSON also carries  *)
(* the holder, which the lease identifies).  Leases have fresh UUIDs, so   *)
(* the supply LeaseIDs bounds the number of attempts.  No code expires a   *)
(* lease (the leader has no timer that reads ExpiresAt), so a TTL has no   *)
(* effect here.                                                            *)
(***************************************************************************)
EXTENDS FSMOps

CONSTANTS LockKey,     \* "/locks<key>", or "/elections/<name>/leader"
          Contenders,  \* the goroutines that call Acquire and Release
          MaxFaults,   \* bound: Apply calls that fail in raft, and crashes
          MaxRetryRev  \* bound: revision up to which a failed Release is retried

ASSUME LockAssumption == /\ LockKey \in ValidKeys
                         /\ LeaseIDs \subseteq Values
                         /\ MaxFaults \in Nat /\ MaxRetryRev \in Nat

VARIABLES fsm,     \* the store
          pc,      \* per contender: the call it makes next
          lease,   \* per contender: the lease ID its attempt was given
          used,    \* lease IDs handed out
          faults   \* raft failures so far

vars == <<fsm, pc, lease, used, faults>>

\* Where a contender is: between calls (out), in Acquire (grant .. revoke),
\* holding, in Release (delete, unlease), with a Release that failed, or gone.
Steps == {"out", "check", "put", "attach", "cleanup", "revoke",
          "held", "delete", "unlease", "failed", "crashed"}

Init == /\ fsm = NewKVStateMachine
        /\ pc = [c \in Contenders |-> "out"]
        /\ lease = [c \in Contenders |-> NoLease]
        /\ used = {}
        /\ faults = 0

-----------------------------------------------------------------------------
(***************************************************************************)
(* Node.Apply as a caller sees it: the state machine's answer, or a raft   *)
(* error (leadership lost) after which the command may or may not have     *)
(* been committed.                                                         *)
(***************************************************************************)
Answered(cmd, onOk, onErr, c) ==
    /\ fsm' = Apply(fsm, cmd).fsm
    /\ pc' = [pc EXCEPT ![c] = IF Apply(fsm, cmd).err = "nil" THEN onOk ELSE onErr]
    /\ UNCHANGED faults

RaftError(cmd, onErr, c) ==
    /\ faults < MaxFaults
    /\ faults' = faults + 1
    /\ fsm' \in {fsm, Apply(fsm, cmd).fsm}
    /\ pc' = [pc EXCEPT ![c] = onErr]

Call(cmd, onOk, onErr, c) ==
    \/ Answered(cmd, onOk, onErr, c)
    \/ RaftError(cmd, onErr, c)

-----------------------------------------------------------------------------
(***************************************************************************)
(* Acquire / Campaign.                                                     *)
(***************************************************************************)

\* Mutant: the lease ID is not fresh.
GrantLeaseReused(c) ==
    /\ pc[c] = "out"
    /\ \E l \in LeaseIDs :
          /\ used' = used \cup {l}
          /\ lease' = [lease EXCEPT ![c] = l]
          /\ Call(GrantCmd(l, TRUE), "check", "out", c)

\* lease.Grant: on an error the attempt is over and the ID is forgotten.
GrantLease(c) ==
    /\ pc[c] = "out"
    /\ \E l \in LeaseIDs \ used :
          /\ used' = used \cup {l}
          /\ lease' = [lease EXCEPT ![c] = l]
          /\ Call(GrantCmd(l, TRUE), "check", "out", c)

\* PutIfNotExists, the linearizable Get: an existing key means ErrLockHeld; a
\* read that fails ends the attempt as well.
CheckAbsent(c) ==
    /\ pc[c] = "check"
    /\ \/ /\ pc' = [pc EXCEPT ![c] = IF LockKey \in DOMAIN fsm.data THEN "revoke" ELSE "put"]
          /\ UNCHANGED faults
       \/ /\ faults < MaxFaults /\ faults' = faults + 1
          /\ pc' = [pc EXCEPT ![c] = "revoke"]
    /\ UNCHANGED <<fsm, lease, used>>

\* PutIfNotExists, the Put that follows it.
PutLockKey(c) ==
    /\ pc[c] = "put"
    /\ Call(PutCmd(LockKey, lease[c], NoLease), "attach", "revoke", c)
    /\ UNCHANGED <<lease, used>>

AttachKey(c) ==
    /\ pc[c] = "attach"
    /\ Call(AttachCmd(LockKey, lease[c]), "held", "cleanup", c)
    /\ UNCHANGED <<lease, used>>

\* The two clean-up calls of a failed Acquire; their errors are ignored.
DeleteFailed(c) ==
    /\ pc[c] = "cleanup"
    /\ Call(DeleteCmd(LockKey), "revoke", "revoke", c)
    /\ UNCHANGED <<lease, used>>

\* Mutant: the loser revokes the lease the lock key names.
RevokeFailedWinner(c) ==
    /\ pc[c] = "revoke"
    /\ LET named == IF LockKey \in DOMAIN fsm.data THEN fsm.data[LockKey].value ELSE lease[c]
       IN  Call(RevokeCmd(named), "out", "out", c)
    /\ UNCHANGED <<lease, used>>

RevokeFailed(c) ==
    /\ pc[c] = "revoke"
    /\ Call(RevokeCmd(lease[c]), "out", "out", c)
    /\ UNCHANGED <<lease, used>>

-----------------------------------------------------------------------------
(***************************************************************************)
(* Release / Resign: delete the key, then revoke the lease.  An error of   *)
(* the delete returns before the revoke; the caller may call again.        *)
(***************************************************************************)
\* Mutant: Release only forgets that it holds the lock.
BeginReleaseLocally(c) ==
    /\ \/ pc[c] = "held"
       \/ pc[c] = "failed" /\ fsm.revision < MaxRetryRev
    /\ pc' = [pc EXCEPT ![c] = "out"]
    /\ UNCHANGED <<fsm, lease, used, faults>>

BeginRelease(c) ==
    /\ \/ pc[c] = "held"
       \/ pc[c] = "failed" /\ fsm.revision < MaxRetryRev
    /\ pc' = [pc EXCEPT ![c] = "delete"]
    /\ UNCHANGED <<fsm, lease, used, faults>>

DeleteLockKey(c) ==
    /\ pc[c] = "delete"
    /\ Call(DeleteCmd(LockKey), "unlease", "failed", c)
    /\ UNCHANGED <<lease, used>>

RevokeLease(c) ==
    /\ pc[c] = "unlease"
    /\ Call(RevokeCmd(lease[c]), "out", "out", c)
    /\ UNCHANGED <<lease, used>>

\* The caller drops a lock it could not release.
GiveUp(c) ==
    /\ pc[c] = "failed"
    /\ pc' = [pc EXCEPT ![c] = "out"]
    /\ UNCHANGED <<fsm, lease, used, faults>>

\* The process dies; what it put in the store stays there.
Crash(c) ==
    /\ pc[c] # "crashed" /\ faults < MaxFaults
    /\ faults' = faults + 1
    /\ pc' = [pc EXCEPT ![c] = "crashed"]
    /\ UNCHANGED <<fsm, lease, used>>

Acquire(c) == \/ GrantLease(c) \/ CheckAbsent(c) \/ PutLockKey(c) \/ AttachKey(c)
              \/ DeleteFailed(c) \/ RevokeFailed(c)
Release(c) == BeginRelease(c) \/ DeleteLockKey(c) \/ RevokeLease(c) \/ GiveUp(c)

Next == \E c \in Contenders : Acquire(c) \/ Release(c) \/ Crash(c)

Spec == Init /\ [][Next]_vars

\* A caller inside Acquire or Release runs on to its return, and a holder
\* releases in the end.  Nothing makes a caller try again.
FairSpec ==
    /\ Spec
    /\ \A c \in Contenders :
          /\ WF_vars(CheckAbsent(c) \/ PutLockKey(c) \/ AttachKey(c)
                     \/ DeleteFailed(c) \/ RevokeFailed(c))
          /\ WF_vars(pc[c] = "held" /\ BeginRelease(c))
          /\ WF_vars(DeleteLockKey(c) \/ RevokeLease(c))

-----------------------------------------------------------------------------
(***************************************************************************)
(* Properties.                                                             *)
(***************************************************************************)

\* The protocol's state, and the store it works on, keep their types.
TypeOK == /\ IsKVStateMachine(fsm)
          /\ pc \in [Contenders -> Steps]
          /\ lease \in [Contenders -> LeaseIDs \cup {NoLease}]
          /\ used \subseteq LeaseIDs
          /\ faults \in 0 .. MaxFaults

\* A holder's lease is in the store for as long as it holds: no other
\* contender's failed attempt, release or clean-up revokes it, whatever calls
\* fail in raft.
HolderHasLease == \A c \in Contenders : pc[c] = "held" => lease[c] \in DOMAIN fsm.leases

\* Without raft failures the lock key always names a lease that still exists,
\* so some contender is going to remove it: the key is never left behind.
KeyNamesLiveLease ==
    faults = 0 /\ LockKey \in DOMAIN fsm.data =>
        fsm.data[LockKey].value \in DOMAIN fsm.leases

\* Without raft failures or crashes a lock that is taken becomes free again.
LockFreed == []<>(LockKey \notin DOMAIN fsm.data \/ faults > 0)

\* "Mutual exclusion backed by leases" (README): at most one contender is
\* between a successful Acquire and its Release.
MutualExclusion ==
    \A c, d \in Contenders : pc[c] = "held" /\ pc[d] = "held" => c = d
=============================================================================
