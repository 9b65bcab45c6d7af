------------------------------ MODULE KVStore ------------------------------
(***************************************************************************)
(* One replica's state machine over its life: raft hands it committed      *)
(* commands one at a time (fsm.mu makes each Apply atomic), asks for       *)
(* snapshots, and after a restart restores the last one it persisted.      *)
(***************************************************************************)
EXTENDS FSMOps

CONSTANT MaxRevision   \* bound: commands applied to one state machine

VARIABLES fsm,        \* the KVStateMachine in memory
          snapshot    \* the last persisted FSMSnapshot

vars == <<fsm, snapshot>>

Init == /\ fsm = NewKVStateMachine
        /\ snapshot = Snapshot(NewKVStateMachine)   \* restarting without one

-----------------------------------------------------------------------------
ApplyCommand(cmd) == /\ fsm.revision < MaxRevision
                     /\ fsm' = Apply(fsm, cmd).fsm
                     /\ UNCHANGED snapshot

Put == \E k \in Keys, v \in Values, l \in LeaseIDs \cup {NoLease} :
         ApplyCommand(PutCmd(k, v, l))

Delete == \E k \in Keys : ApplyCommand(DeleteCmd(k))

GrantLease == \E l \in LeaseIDs, b \in BOOLEAN : ApplyCommand(GrantCmd(l, b))

RevokeLease == \E l \in LeaseIDs : ApplyCommand(RevokeCmd(l))

AttachLease == \E k \in Keys, l \in LeaseIDs : ApplyCommand(AttachCmd(k, l))

Unrecognised == \E cmd \in {UnknownCmd, MalformedCmd} : ApplyCommand(cmd)

TakeSnapshot == /\ snapshot' = Snapshot(fsm)
                /\ UNCHANGED fsm

\* The process restarts: the memory is gone, the persisted snapshot is not.
Restart == /\ fsm' = Restore(snapshot)
           /\ UNCHANGED snapshot

Command == Put \/ Delete \/ GrantLease \/ RevokeLease \/ AttachLease \/ Unrecognised

Next == Command \/ TakeSnapshot \/ Restart

Spec == Init /\ [][Next]_vars

\* A store that executes commands and never restarts: what the replicas of a
\* cluster are together, although each of them restarts.
DurableSpec == Init /\ [][Command]_vars

-----------------------------------------------------------------------------
(***************************************************************************)
(* Properties.                                                             *)
(***************************************************************************)

\* The state machine and its snapshot have the shape of the Go structs.
TypeOK == /\ IsKVStateMachine(fsm)
          /\ IsFSMSnapshot(snapshot)

\* currentSize, which applyPut, applyDelete and applyRevokeLease adjust
\* incrementally and Restore recomputes, is always exactly the bytes stored:
\* no path (overwrite, a key listed twice by a lease, a restart) leaks or
\* double-frees budget.
SizeAccounting == SizeIsExact(fsm)

\* The revisions applyPut stamps on an entry are ordered (created, then
\* modified, then the store's own revision), no two keys were last modified
\* by the same command, and an entry has had no more versions than there
\* were commands since it was created.
RevisionOrder == EntriesOrdered(fsm.data, fsm.revision)

\* applyPut checks the budget only when it creates a key, so overwrites may
\* exceed it, but by no more than one maximal value per stored key.
OvershootBound ==
    fsm.currentSize <= MaxStorageSize + MaxValueSize * Cardinality(DOMAIN fsm.data)
=============================================================================
