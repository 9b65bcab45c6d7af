---------------------------- MODULE RaftKVProofs ----------------------------
(***************************************************************************)
(* Replicas agree, for any number of nodes and callers, any workload and   *)
(* any log: the argument is that Apply is a function of the state and the  *)
(* command, and that a snapshot restores exactly what it was taken of.     *)
(***************************************************************************)
EXTENDS RaftKV, FSMOpsProofs

\* history is the run of a single state machine over the committed log.
HistoryIsRun ==
    /\ DOMAIN history = 0 .. Len(log)
    /\ \A i \in 0 .. Len(log) : Good(history[i])
    /\ \A i \in 1 .. Len(log) : history[i] = Apply(history[i - 1], log[i]).fsm

\* Every snapshot is one of a state of that run.
SnapshotsOfRun ==
    \A n \in Nodes : snap[n].state = Snapshot(history[snap[n].index])

IndInv == TypeOK /\ HistoryIsRun /\ SnapshotsOfRun /\ ReplicaAgreement

\* The snapshot of a good state machine is a well-formed snapshot.
LEMMA SnapshotType ==
    ASSUME NEW s, Good(s)
    PROVE  IsFSMSnapshot(Snapshot(s)) /\ IsKVStateMachine(s)
  BY DEF Good, IsKVStateMachine, IsFSMSnapshot, Snapshot

\* The replication part of the invariant depends only on these variables.
Replication == <<log, applied, fsm, snap, history>>

\* NewNode's empty state machines, with no snapshot taken, satisfy it.
LEMMA InitIndInv == Init => IndInv
<1> SUFFICES ASSUME Init PROVE IndInv
  OBVIOUS
<1>1. Good(NewKVStateMachine)
  BY NewGood
<1>2. log = << >> /\ Len(log) = 0 /\ log \in Seq(FSMCommand) /\ pending \in Seq(FSMCommand)
  BY DEF Init
<1>3. TypeOK
  BY <1>1, <1>2, SnapshotType DEF Init, TypeOK
<1>4. HistoryIsRun
  BY <1>1, <1>2 DEF Init, HistoryIsRun
<1>5. SnapshotsOfRun /\ ReplicaAgreement
  BY DEF Init, SnapshotsOfRun, ReplicaAgreement
<1>6. QED
  BY <1>3, <1>4, <1>5 DEF IndInv

\* Steps that touch neither the log nor a replica.
LEMMA ReplicationUnchanged ==
    ASSUME IndInv, UNCHANGED Replication,
           pending' \in Seq(FSMCommand), leader' \in Nodes \cup {NoNode},
           up' \in SUBSET Nodes, call' \in [Clients -> Calls \cup {Idle}],
           acked' \in 0 .. Len(log)
    PROVE  IndInv'
  BY DEF IndInv, Replication, TypeOK, HistoryIsRun, SnapshotsOfRun, ReplicaAgreement

\* Committing extends the run by one state.
LEMMA CommitIndInv ==
    ASSUME IndInv, Commit
    PROVE  IndInv'
<1> DEFINE n == Len(log)
           cmd == Head(pending)
           new == Apply(history[n], cmd).fsm
<1>1. /\ log \in Seq(FSMCommand) /\ pending \in Seq(FSMCommand) /\ n \in Nat
      /\ pending # << >>
  BY DEF IndInv, TypeOK, Commit
<1>2. cmd \in FSMCommand /\ Tail(pending) \in Seq(FSMCommand)
  BY <1>1
<1>3. /\ log' = Append(log, cmd) /\ log' \in Seq(FSMCommand) /\ Len(log') = n + 1
      /\ \A i \in 1 .. n : log'[i] = log[i]
      /\ log'[n + 1] = cmd
  BY <1>1, <1>2 DEF Commit
<1>4. Good(history[n]) /\ Good(new)
  BY <1>1, <1>2, ApplyGood DEF IndInv, HistoryIsRun
<1>5. /\ DOMAIN history' = 0 .. (n + 1)
      /\ \A i \in 0 .. n : history'[i] = history[i]
      /\ history'[n + 1] = new
  BY <1>1 DEF Commit, Bind, IndInv, HistoryIsRun
<1> HIDE DEF n, cmd, new
<1>6. HistoryIsRun'
  <2>1. \A i \in 0 .. (n + 1) : Good(history'[i])
    BY <1>1, <1>4, <1>5 DEF IndInv, HistoryIsRun, n
  <2>2. ASSUME NEW i \in 1 .. (n + 1)
        PROVE  history'[i] = Apply(history'[i - 1], log'[i]).fsm
    <3>1. CASE i = n + 1
      BY <1>1, <1>3, <1>5, <3>1 DEF new
    <3>2. CASE i \in 1 .. n
      <4>1. i - 1 \in 0 .. n
        BY <1>1, <3>2
      <4>2. history[i] = Apply(history[i - 1], log[i]).fsm
        BY <3>2 DEF IndInv, HistoryIsRun, n
      <4>3. QED
        BY <1>1, <1>3, <1>5, <3>2, <4>1, <4>2
    <3>3. QED
      BY <1>1, <3>1, <3>2
  <2>3. QED
    BY <1>3, <1>5, <2>1, <2>2, Zenon DEF HistoryIsRun
<1>7. \A m \in Nodes : /\ applied[m] \in 0 .. n /\ snap[m].index \in 0 .. n
                       /\ applied[m] \in 0 .. (n + 1) /\ snap[m].index \in 0 .. (n + 1)
  BY <1>1 DEF IndInv, TypeOK, n
<1>8. UNCHANGED <<leader, up, applied, fsm, snap, call, acked>> /\ pending' = Tail(pending)
  BY DEF Commit
<1>9. SnapshotsOfRun' /\ ReplicaAgreement'
  BY <1>5, <1>7, <1>8 DEF IndInv, SnapshotsOfRun, ReplicaAgreement
<1>10. TypeOK'
  <2>1. applied \in [Nodes -> 0 .. (n + 1)] /\ acked \in 0 .. (n + 1)
    BY <1>1, <1>7 DEF IndInv, TypeOK, n
  <2>2. QED
    BY <1>2, <1>3, <1>7, <1>8, <2>1 DEF IndInv, TypeOK
<1>11. QED
  BY <1>6, <1>9, <1>10 DEF IndInv

\* A node whose state machine becomes that of an index it has reached, with a
\* snapshot taken at some index, stays in agreement with the run.
LEMMA ReplicaMoved ==
    ASSUME IndInv, NEW n \in Nodes, NEW i \in 0 .. Len(log), NEW j \in 0 .. Len(log),
           fsm' = [fsm EXCEPT ![n] = history[i]],
           applied' = [applied EXCEPT ![n] = i],
           \/ snap' = snap
           \/ snap' = [snap EXCEPT ![n] = [index |-> j, state |-> Snapshot(history[j])]],
           UNCHANGED <<log, pending, leader, history>>,
           up' \in SUBSET Nodes, call' \in [Clients -> Calls \cup {Idle}],
           acked' \in 0 .. Len(log)
    PROVE  IndInv'
<1>1. fsm = [m \in Nodes |-> fsm[m]] /\ DOMAIN snap = Nodes /\ applied \in [Nodes -> 0 .. Len(log)]
  BY DEF IndInv, TypeOK
<1>2. /\ fsm' = [m \in Nodes |-> fsm'[m]] /\ fsm'[n] = history[i]
      /\ \A m \in Nodes \ {n} : fsm'[m] = fsm[m]
  BY <1>1, Zenon
<1>3. /\ applied' \in [Nodes -> 0 .. Len(log)] /\ applied'[n] = i
      /\ \A m \in Nodes \ {n} : applied'[m] = applied[m]
  BY <1>1
<1>4. /\ DOMAIN snap' = Nodes
      /\ \A m \in Nodes : \/ snap'[m] = snap[m]
                          \/ snap'[m] = [index |-> j, state |-> Snapshot(history[j])]
  BY <1>1
<1>5. /\ Good(history[i]) /\ Good(history[j])
      /\ IsKVStateMachine(history[i]) /\ IsFSMSnapshot(Snapshot(history[j]))
  BY SnapshotType DEF IndInv, HistoryIsRun
<1>6. \A m \in Nodes : /\ IsFSMSnapshot(snap'[m].state)
                       /\ snap'[m] \in [index : 0 .. Len(log), state : {snap'[m].state}]
                       /\ snap'[m].state = Snapshot(history[snap'[m].index])
  <2>1. \A m \in Nodes : /\ IsFSMSnapshot(snap[m].state)
                         /\ snap[m] \in [index : 0 .. Len(log), state : {snap[m].state}]
    BY DEF IndInv, TypeOK
  <2>2. \A m \in Nodes : snap[m].state = Snapshot(history[snap[m].index])
    BY DEF IndInv, SnapshotsOfRun
  <2> QED
    BY <1>4, <1>5, <2>1, <2>2
<1>7. \A m \in Nodes : IsKVStateMachine(fsm'[m]) /\ fsm'[m] = history[applied'[m]]
  <2>1. \A m \in Nodes : IsKVStateMachine(fsm[m])
    BY DEF IndInv, TypeOK
  <2>2. \A m \in Nodes : fsm[m] = history[applied[m]]
    BY DEF IndInv, ReplicaAgreement
  <2> QED
    BY <1>2, <1>3, <1>5, <2>1, <2>2
<1>8. HistoryIsRun'
  BY DEF IndInv, HistoryIsRun
<1>9. TypeOK'
  BY <1>2, <1>3, <1>4, <1>6, <1>7 DEF IndInv, TypeOK
<1>10. SnapshotsOfRun' /\ ReplicaAgreement'
  BY <1>6, <1>7 DEF SnapshotsOfRun, ReplicaAgreement
<1>11. QED
  BY <1>8, <1>9, <1>10 DEF IndInv

\* Applying the next committed entry moves a node from history[i] to
\* history[i + 1].
LEMMA ApplyEntryIndInv ==
    ASSUME IndInv, NEW n \in Nodes, ApplyEntry(n)
    PROVE  IndInv'
<1> DEFINE i == applied[n] + 1
<1>1. /\ applied[n] \in 0 .. Len(log) /\ Len(log) \in Nat /\ acked \in 0 .. Len(log)
      /\ call \in [Clients -> Calls \cup {Idle}] /\ up \in SUBSET Nodes
  BY DEF IndInv, TypeOK
<1>2. i \in 1 .. Len(log) /\ i \in 0 .. Len(log) /\ i - 1 = applied[n]
  BY <1>1 DEF ApplyEntry
<1>3. Apply(fsm[n], log[i]).fsm = history[i]
  BY <1>2 DEF IndInv, ReplicaAgreement, HistoryIsRun
<1>4. /\ fsm' = [fsm EXCEPT ![n] = history[i]] /\ applied' = [applied EXCEPT ![n] = i]
      /\ UNCHANGED <<log, pending, leader, up, snap, history>>
  BY <1>3 DEF ApplyEntry
<1>5. call' \in [Clients -> Calls \cup {Idle}]
  BY <1>1 DEF ApplyEntry, Returning
<1>6. acked' \in 0 .. Len(log)
  BY <1>1, <1>2 DEF ApplyEntry
<1> HIDE DEF i
<1>7. QED
  BY <1>1, <1>2, <1>4, <1>5, <1>6, ReplicaMoved, Zenon

\* The leader's snapshot takes a follower to the state at the snapshot's index:
\* Restore inverts Snapshot.
LEMMA InstallSnapshotIndInv ==
    ASSUME IndInv, NEW n \in Nodes, InstallSnapshot(n)
    PROVE  IndInv'
<1> DEFINE i == snap[leader].index
<1>1. leader \in Nodes /\ i \in 0 .. Len(log) /\ snap[leader].state = Snapshot(history[i])
  BY DEF IndInv, TypeOK, InstallSnapshot, SnapshotsOfRun
<1>2. Restore(snap[leader].state) = history[i]
  BY <1>1, RestoreInvertsSnapshot DEF IndInv, HistoryIsRun
<1>3. snap[leader] = [index |-> i, state |-> Snapshot(history[i])]
  BY <1>1 DEF IndInv, TypeOK
<1>4. /\ fsm' = [fsm EXCEPT ![n] = history[i]] /\ applied' = [applied EXCEPT ![n] = i]
      /\ snap' = [snap EXCEPT ![n] = [index |-> i, state |-> Snapshot(history[i])]]
      /\ UNCHANGED <<log, pending, leader, up, call, acked, history>>
  BY <1>2, <1>3, Zenon DEF InstallSnapshot
<1> HIDE DEF i
<1>5. QED
  BY <1>1, <1>4, ReplicaMoved, Zenon DEF IndInv, TypeOK

\* A node that starts is back in the state its own snapshot recorded.
LEMMA StartIndInv ==
    ASSUME IndInv, NEW n \in Nodes, Start(n)
    PROVE  IndInv'
<1> DEFINE i == snap[n].index
<1>1. i \in 0 .. Len(log) /\ snap[n].state = Snapshot(history[i])
  BY DEF IndInv, TypeOK, SnapshotsOfRun
<1>2. Restore(snap[n].state) = history[i]
  BY <1>1, RestoreInvertsSnapshot DEF IndInv, HistoryIsRun
<1>3. /\ fsm' = [fsm EXCEPT ![n] = history[i]] /\ applied' = [applied EXCEPT ![n] = i]
      /\ up' = up \cup {n} /\ UNCHANGED <<log, pending, leader, snap, call, acked, history>>
  BY <1>2 DEF Start
<1> HIDE DEF i
<1>4. QED
  BY <1>1, <1>3, ReplicaMoved, Zenon DEF IndInv, TypeOK

\* A snapshot records the state at the index the node has applied.
LEMMA TakeSnapshotIndInv ==
    ASSUME IndInv, NEW n \in Nodes, TakeSnapshot(n)
    PROVE  IndInv'
<1> DEFINE i == applied[n]
<1>1. i \in 0 .. Len(log) /\ fsm[n] = history[i]
  BY DEF IndInv, TypeOK, ReplicaAgreement
<1>2. /\ snap' = [snap EXCEPT ![n] = [index |-> i, state |-> Snapshot(history[i])]]
      /\ UNCHANGED <<log, pending, leader, up, applied, fsm, call, acked, history>>
  BY <1>1 DEF TakeSnapshot
<1>3. fsm = [fsm EXCEPT ![n] = history[i]] /\ applied = [applied EXCEPT ![n] = i]
  BY <1>1 DEF IndInv, TypeOK
<1> HIDE DEF i
<1>4. QED
  BY <1>1, <1>2, <1>3, ReplicaMoved, Zenon DEF IndInv, TypeOK

\* Every step preserves the invariant.
LEMMA NextIndInv == IndInv /\ [Next]_vars => IndInv'
<1> SUFFICES ASSUME IndInv, [Next]_vars PROVE IndInv'
  OBVIOUS
<1> DEFINE CallType == [Clients -> Calls \cup {Idle}]
<1>1. /\ pending \in Seq(FSMCommand) /\ leader \in Nodes \cup {NoNode}
      /\ up \in SUBSET Nodes /\ call \in CallType /\ acked \in 0 .. Len(log)
      /\ Len(log) \in Nat /\ Len(pending) \in Nat
  BY DEF IndInv, TypeOK
<1>2. CASE \E c \in Clients, n \in Nodes, cmd \in Workload : Submit(c, n, cmd)
  <2>1. PICK c \in Clients, n \in Nodes, cmd \in Workload : Submit(c, n, cmd)
    BY <1>2
  <2>2. cmd \in FSMCommand
    BY RaftAssumption
  <2>3. pending' \in Seq(FSMCommand)
    BY <1>1, <2>1, <2>2 DEF Submit
  <2>4. call' \in CallType
    BY <1>1, <2>1 DEF Submit, ApplyCall, Calls
  <2>5. QED
    BY <1>1, <2>1, <2>3, <2>4, ReplicationUnchanged DEF Submit, Replication
<1>3. CASE \E c \in Clients, n \in Nodes : VerifyLeader(c, n)
  <2>1. PICK c \in Clients, n \in Nodes : VerifyLeader(c, n)
    BY <1>3
  <2>2. call' \in CallType
    <3>1. ReadCall(n, acked) \in Calls
      BY <1>1 DEF ReadCall, Calls
    <3>2. call' = [call EXCEPT ![c] = ReadCall(n, acked)]
      BY <2>1 DEF VerifyLeader
    <3>3. QED
      BY <1>1, <3>1, <3>2
  <2>3. QED
    BY <1>1, <2>1, <2>2, ReplicationUnchanged DEF VerifyLeader, Replication
<1>4. CASE \E c \in Clients : FinishRead(c)
  <2>1. call' \in CallType
    BY <1>1, <1>4 DEF FinishRead
  <2>2. QED
    BY <1>1, <1>4, <2>1, ReplicationUnchanged DEF FinishRead, Replication
<1>5. CASE Commit
  BY <1>5, CommitIndInv
<1>6. CASE \E n \in Nodes : ApplyEntry(n)
  BY <1>6, ApplyEntryIndInv
<1>7. CASE \E n \in Nodes : Elect(n)
  <2>1. PICK n \in Nodes : Elect(n)
    BY <1>7
  <2>2. PICK k \in 0 .. Len(pending) : pending' = SubSeq(pending, 1, k)
    BY <2>1 DEF Elect
  <2>3. pending' \in Seq(FSMCommand)
    BY <1>1, <2>2
  <2>4. call' \in CallType
    BY <1>1, <2>1 DEF Elect, Returning
  <2>5. QED
    BY <1>1, <2>1, <2>3, <2>4, ReplicationUnchanged, Zenon DEF Elect, Replication
<1>8. CASE \E n \in Nodes : TakeSnapshot(n)
  BY <1>8, TakeSnapshotIndInv
<1>9. CASE \E n \in Nodes : InstallSnapshot(n)
  BY <1>9, InstallSnapshotIndInv
<1>10. CASE \E n \in Nodes : Crash(n)
  <2>1. PICK n \in Nodes : Crash(n)
    BY <1>10
  <2>2. call' \in CallType
    BY <1>1, <2>1 DEF Crash, Returning
  <2>3. QED
    BY <1>1, <2>1, <2>2, ReplicationUnchanged, Zenon DEF Crash, Replication
<1>11. CASE \E n \in Nodes : Start(n)
  BY <1>11, StartIndInv
<1>12. CASE UNCHANGED vars
  BY <1>1, <1>12, ReplicationUnchanged DEF vars, Replication
<1>13. QED
  BY <1>2, <1>3, <1>4, <1>5, <1>6, <1>7, <1>8, <1>9, <1>10, <1>11, <1>12 DEF Next

\* The inductive invariant holds in every state of the cluster.
THEOREM Invariance == Spec => []IndInv
  BY InitIndInv, NextIndInv, PTL DEF Spec

\* However a node came to its index, by applying entries, by restarting from
\* its snapshot or by installing the leader's, it holds the state the
\* committed log determines.
THEOREM ReplicasAgree == Spec => []ReplicaAgreement
<1>1. IndInv => ReplicaAgreement
  BY DEF IndInv
<1>2. QED
  BY <1>1, Invariance, PTL

\* Two nodes at the same index hold identical state machines.
COROLLARY SameIndexSameState ==
    Spec => [](\A m, n \in Nodes : applied[m] = applied[n] => fsm[m] = fsm[n])
<1>1. ReplicaAgreement => \A m, n \in Nodes : applied[m] = applied[n] => fsm[m] = fsm[n]
  BY DEF ReplicaAgreement
<1>2. QED
  BY <1>1, ReplicasAgree, PTL

-----------------------------------------------------------------------------
(***************************************************************************)
(* A running node never goes backwards.                                    *)
(***************************************************************************)

\* Along the run the revision never decreases.
RevisionsGrow ==
    \A i, j \in 0 .. Len(log) : i <= j => history[i].revision <= history[j].revision

\* A command raises the revision by one, or leaves it when it does not parse.
LEMMA ApplyRevision ==
    ASSUME NEW s, Good(s), NEW cmd \in FSMCommand
    PROVE  s.revision \in Nat /\ Apply(s, cmd).fsm.revision \in {s.revision, s.revision + 1}
<1> DEFINE t == [s EXCEPT !.revision = @ + 1]
<1>1. /\ s.revision \in Nat /\ t.revision = s.revision + 1
      /\ \A x : [t EXCEPT !.leases = x].revision = t.revision
  BY DEF Good, IsKVStateMachine
<1> HIDE DEF t
<1>2. \A key, value, leaseID : applyPut(t, key, value, leaseID).fsm.revision = t.revision
  BY DEF applyPut, updateEntry, createEntry, WithData, Done, Fail
<1>3. \A key : applyDelete(t, key).fsm.revision = t.revision
  BY DEF applyDelete, WithData, Done, Fail
<1>4. \A leaseID, b : applyGrantLease(t, leaseID, b).fsm.revision = t.revision
  BY <1>1 DEF applyGrantLease, Done, Fail
<1>5. \A leaseID : applyRevokeLease(t, leaseID).fsm.revision = t.revision
  BY DEF applyRevokeLease, WithData, Done, Fail
<1>6. \A key, leaseID : applyAttachLease(t, key, leaseID).fsm.revision = t.revision
  BY <1>1 DEF applyAttachLease, Done, Fail
<1>7. Apply(s, cmd).fsm.revision \in {s.revision, t.revision}
  <2>1. CASE cmd.op = "malformed"
    BY <2>1 DEF Apply, Fail
  <2>2. CASE cmd.op = "put"
    BY <1>2, <2>2 DEF Apply, t
  <2>3. CASE cmd.op = "delete"
    BY <1>3, <2>3 DEF Apply, t
  <2>4. CASE cmd.op = "grant_lease"
    BY <1>4, <2>4 DEF Apply, t
  <2>5. CASE cmd.op = "revoke_lease"
    BY <1>5, <2>5 DEF Apply, t
  <2>6. CASE cmd.op = "attach_lease"
    BY <1>6, <2>6 DEF Apply, t
  <2>7. CASE cmd.op \notin {"malformed", "put", "delete", "grant_lease", "revoke_lease", "attach_lease"}
    BY <2>7 DEF Apply, Fail, t
  <2>8. QED
    BY <2>1, <2>2, <2>3, <2>4, <2>5, <2>6, <2>7
<1>8. QED
  BY <1>1, <1>7

\* What Commit does to the log and to the run of the state machine.
LEMMA CommitEffect ==
    ASSUME IndInv, Commit
    PROVE  /\ Len(log) \in Nat /\ Len(pending) \in Nat \ {0} /\ Head(pending) \in FSMCommand
           /\ Len(log') = Len(log) + 1 /\ Len(pending') = Len(pending) - 1
           /\ Good(history[Len(log)])
           /\ history'[Len(log) + 1] = Apply(history[Len(log)], Head(pending)).fsm
           /\ \A i \in 0 .. Len(log) : history'[i] = history[i] /\ history[i].revision \in Nat
<1>1. log \in Seq(FSMCommand) /\ pending \in Seq(FSMCommand) /\ pending # << >>
  BY DEF IndInv, TypeOK, Commit
<1>2. /\ DOMAIN history = 0 .. Len(log)
      /\ \A i \in 0 .. Len(log) : Good(history[i])
  BY DEF IndInv, HistoryIsRun
<1>3. /\ log' = Append(log, Head(pending)) /\ pending' = Tail(pending)
      /\ history' = Bind(history, Len(log) + 1, Apply(history[Len(log)], Head(pending)).fsm)
  BY DEF Commit
<1>4. /\ Len(log) \in Nat /\ Len(pending) \in Nat \ {0} /\ Head(pending) \in FSMCommand
      /\ Len(log') = Len(log) + 1 /\ Len(pending') = Len(pending) - 1
  BY <1>1, <1>3
<1>5. ASSUME NEW m, NEW x, m = Len(log) + 1, history' = Bind(history, m, x)
      PROVE  history'[m] = x /\ \A i \in 0 .. Len(log) : history'[i] = history[i]
  BY <1>2, <1>4, <1>5 DEF Bind
<1>6. ASSUME NEW i \in 0 .. Len(log) PROVE history[i].revision \in Nat
  BY <1>2, <1>6 DEF Good, IsKVStateMachine
<1>7. Len(log) \in 0 .. Len(log)
  BY <1>4
<1>8. QED
  BY <1>2, <1>3, <1>4, <1>5, <1>6, <1>7

\* Apply never lowers the revision counter, so later states in the history
\* have later revisions, whatever step the cluster takes.
LEMMA RevisionsGrowStep == IndInv /\ RevisionsGrow /\ [Next]_vars => RevisionsGrow'
<1> SUFFICES ASSUME IndInv, RevisionsGrow, [Next]_vars PROVE RevisionsGrow'
  OBVIOUS
<1>1. CASE Commit
  <2> DEFINE n == Len(log)
             new == Apply(history[n], Head(pending)).fsm
  <2>1. n \in Nat /\ Head(pending) \in FSMCommand /\ Good(history[n])
    BY <1>1, CommitEffect
  <2>2. Len(log') = n + 1
    BY <1>1, CommitEffect
  <2>3. history'[n + 1] = new /\ \A i \in 0 .. n : history'[i] = history[i]
    BY <1>1, CommitEffect
  <2>4. \A i \in 0 .. n : history[i].revision \in Nat
    BY <1>1, CommitEffect
  <2>5. new.revision \in {history[n].revision, history[n].revision + 1}
    BY <2>1, ApplyRevision
  <2> HIDE DEF n, new
  <2>6. \A i \in 0 .. n : history[i].revision <= new.revision
    BY <2>1, <2>4, <2>5 DEF RevisionsGrow, n
  <2>7. new.revision \in Nat
    BY <2>1, <2>4, <2>5
  <2>8. ASSUME NEW i \in 0 .. (n + 1), NEW j \in 0 .. (n + 1), i <= j
        PROVE  history'[i].revision <= history'[j].revision
    <3>1. CASE j \in 0 .. n
      BY <2>1, <2>3, <2>8, <3>1 DEF RevisionsGrow, n
    <3>2. CASE j = n + 1 /\ i \in 0 .. n
      BY <2>3, <2>6, <3>2
    <3>3. CASE j = n + 1 /\ i = n + 1
      BY <2>3, <2>7, <3>3
    <3>4. QED
      BY <2>1, <3>1, <3>2, <3>3
  <2>9. QED
    BY <2>2, <2>8 DEF RevisionsGrow
<1>2. CASE UNCHANGED <<log, history>>
  BY <1>2 DEF RevisionsGrow
<1>3. QED
  BY <1>1, <1>2, Zenon DEF Next, vars, Submit, VerifyLeader, FinishRead, ApplyEntry, Elect,
                    TakeSnapshot, InstallSnapshot, Crash, Start

\* No step of a running node lowers the revision its readers and watchers
\* see: an installed snapshot is always ahead of what it replaces.
THEOREM NeverGoesBackwards == Spec => NeverBackwards
<1> DEFINE Forward == \A n \in up \cap up' : fsm[n].revision <= fsm'[n].revision
<1>1. Init => RevisionsGrow
  BY NewGood DEF Init, RevisionsGrow, Good, IsKVStateMachine
<1>2. IndInv /\ RevisionsGrow /\ [Next]_vars => [Forward]_vars
  <2> SUFFICES ASSUME IndInv, RevisionsGrow, [Next]_vars, NEW n \in up \cap up'
               PROVE  fsm[n].revision <= fsm'[n].revision
    BY Zenon
  <2>1. /\ n \in Nodes /\ fsm[n].revision \in Nat /\ applied[n] \in 0 .. Len(log)
        /\ fsm = [m \in Nodes |-> fsm[m]] /\ fsm[n] = history[applied[n]]
        /\ Len(log) \in Nat
    BY DEF IndInv, TypeOK, IsKVStateMachine, ReplicaAgreement
  <2>2. ASSUME NEW m \in Nodes, ApplyEntry(m)
        PROVE  fsm[n].revision <= fsm'[n].revision
    <3>1. CASE m = n
      <4> DEFINE i == applied[n] + 1
      <4>1. i \in 1 .. Len(log) /\ i - 1 = applied[n]
        BY <2>1, <2>2, <3>1 DEF ApplyEntry
      <4>2. history[i] = Apply(fsm[n], log[i]).fsm
        BY <2>1, <4>1 DEF IndInv, HistoryIsRun
      <4>3. fsm'[n] = history[i]
        BY <2>1, <2>2, <3>1, <4>2 DEF ApplyEntry
      <4>4. i \in 0 .. Len(log) /\ applied[n] <= i
        BY <2>1, <4>1
      <4>5. QED
        BY <2>1, <4>3, <4>4 DEF RevisionsGrow
    <3>2. CASE m # n
      BY <2>1, <2>2, <3>2 DEF ApplyEntry
    <3>3. QED
      BY <3>1, <3>2
  <2>3. ASSUME NEW m \in Nodes, InstallSnapshot(m)
        PROVE  fsm[n].revision <= fsm'[n].revision
    <3>1. CASE m = n
      <4> DEFINE i == snap[leader].index
      <4>1. leader \in Nodes /\ i \in 0 .. Len(log) /\ snap[leader].state = Snapshot(history[i])
        <5>1. leader \in Nodes
          BY <2>3 DEF IndInv, TypeOK, InstallSnapshot
        <5>2. snap[leader] \in [index : 0 .. Len(log), state : {snap[leader].state}]
          BY <5>1 DEF IndInv, TypeOK
        <5>3. snap[leader].state = Snapshot(history[i])
          BY <5>1 DEF IndInv, SnapshotsOfRun
        <5> QED
          BY <5>1, <5>2, <5>3
      <4>2. Restore(snap[leader].state) = history[i]
        BY <4>1, RestoreInvertsSnapshot DEF IndInv, HistoryIsRun
      <4>3. fsm'[n] = history[i] /\ applied[n] < i
        BY <2>1, <2>3, <3>1, <4>2 DEF InstallSnapshot
      <4>4. applied[n] <= i
        BY <2>1, <4>1, <4>3
      <4>5. QED
        BY <2>1, <4>1, <4>3, <4>4 DEF RevisionsGrow
    <3>2. CASE m # n
      <4>1. fsm' = [fsm EXCEPT ![m] = Restore(snap[leader].state)]
        BY <2>3 DEF InstallSnapshot
      <4>2. QED
        BY <2>1, <3>2, <4>1
    <3>3. QED
      BY <3>1, <3>2
  <2>4. ASSUME NEW m \in Nodes, Start(m)
        PROVE  fsm[n].revision <= fsm'[n].revision
    <3>1. m # n /\ fsm' = [fsm EXCEPT ![m] = Restore(snap[m].state)]
      BY <2>4 DEF Start
    <3>2. QED
      BY <2>1, <3>1
  <2>5. CASE fsm' = fsm
    BY <2>1, <2>5
  <2>6. QED
    BY <2>2, <2>3, <2>4, <2>5, Zenon
       DEF Next, vars, Submit, VerifyLeader, FinishRead, Commit, Elect, TakeSnapshot, Crash
<1>3. QED
  BY <1>1, <1>2, InitIndInv, NextIndInv, RevisionsGrowStep, PTL DEF Spec, NeverBackwards

-----------------------------------------------------------------------------
(***************************************************************************)
(* The cluster implements one KVStore.                                     *)
(***************************************************************************)

\* Store, the instance of KVStore, has copies of the operators of fsm.go of
\* its own; they are the same operators.
LEMMA SameApply == \A s, cmd : Store!Apply(s, cmd) = Apply(s, cmd)
<1> USE DEF Done, Fail, WithData, Bind, attachIfLeased,
            Store!Done, Store!Fail, Store!WithData, Store!Bind, Store!attachIfLeased
<1>1. \A s, k, v, l : Store!applyPut(s, k, v, l) = applyPut(s, k, v, l)
  BY DEF applyPut, isValidKey, updateEntry, createEntry,
         Store!applyPut, Store!isValidKey, Store!updateEntry, Store!createEntry
<1>2. \A s, k : Store!applyDelete(s, k) = applyDelete(s, k)
  BY DEF applyDelete, Store!applyDelete, Restrict, Store!Restrict
<1>3. \A s, l, b : Store!applyGrantLease(s, l, b) = applyGrantLease(s, l, b)
  BY DEF applyGrantLease, Store!applyGrantLease
<1>4. \A s, l : Store!applyRevokeLease(s, l) = applyRevokeLease(s, l)
  BY DEF applyRevokeLease, StoredBytes, EntryBytes, Restrict, Range, Cardinality,
         Store!applyRevokeLease, Store!StoredBytes, Store!EntryBytes, Store!Restrict,
         Store!Range, Store!Cardinality
<1>5. \A s, k, l : Store!applyAttachLease(s, k, l) = applyAttachLease(s, k, l)
  BY DEF applyAttachLease, Store!applyAttachLease
<1>6. QED
  BY <1>1, <1>2, <1>3, <1>4, <1>5 DEF Apply, Store!Apply

\* A committed command is one of the commands of the store.
LEMMA CommandIsStep ==
    ASSUME NEW cmd \in FSMCommand, Store!ApplyCommand(cmd)
    PROVE  Store!Command
<1> USE DEF Store!Command, Store!Put, Store!Delete, Store!GrantLease, Store!RevokeLease,
            Store!AttachLease, Store!Unrecognised
<1>1. CASE \E k \in Keys, v \in Values, l \in LeaseIDs \cup {NoLease} : cmd = PutCmd(k, v, l)
  BY <1>1 DEF PutCmd, Store!PutCmd
<1>2. CASE \E k \in Keys : cmd = DeleteCmd(k)
  BY <1>2 DEF DeleteCmd, Store!DeleteCmd
<1>3. CASE \E l \in LeaseIDs, b \in BOOLEAN : cmd = GrantCmd(l, b)
  BY <1>3 DEF GrantCmd, Store!GrantCmd
<1>4. CASE \E l \in LeaseIDs : cmd = RevokeCmd(l)
  BY <1>4 DEF RevokeCmd, Store!RevokeCmd
<1>5. CASE \E k \in Keys, l \in LeaseIDs : cmd = AttachCmd(k, l)
  BY <1>5 DEF AttachCmd, Store!AttachCmd
<1>6. CASE cmd \in {UnknownCmd, MalformedCmd}
  BY <1>6 DEF UnknownCmd, MalformedCmd, Store!UnknownCmd, Store!MalformedCmd
<1> HIDE DEF Store!Command
<1>7. QED
  BY <1>1, <1>2, <1>3, <1>4, <1>5, <1>6 DEF FSMCommand

\* Node.Apply keeps the log within its bound, and each entry has raised the
\* revision by one at most.
LogBounded ==
    /\ Len(log) + Len(pending) <= MaxLog
    /\ \A i \in 0 .. Len(log) : history[i].revision <= i

\* Elections only shorten the uncommitted tail; commits move its head.
LEMMA LogBoundedStep == IndInv /\ LogBounded /\ [Next]_vars => LogBounded'
<1> SUFFICES ASSUME IndInv, LogBounded, [Next]_vars PROVE LogBounded'
  OBVIOUS
<1>1. /\ log \in Seq(FSMCommand) /\ pending \in Seq(FSMCommand)
      /\ Len(log) \in Nat /\ Len(pending) \in Nat /\ MaxLog \in Nat
  BY RaftAssumption DEF IndInv, TypeOK
<1>2. CASE \E c \in Clients, n \in Nodes, cmd \in Workload : Submit(c, n, cmd)
  <2>1. PICK cmd \in Workload : /\ Len(log) + Len(pending) < MaxLog /\ pending' = Append(pending, cmd)
                               /\ UNCHANGED <<log, history>>
    BY <1>2 DEF Submit
  <2>2. cmd \in FSMCommand
    BY RaftAssumption
  <2>3. Len(pending') = Len(pending) + 1
    BY <1>1, <2>1, <2>2
  <2>4. QED
    BY <1>1, <2>1, <2>3 DEF LogBounded
<1>3. CASE Commit
  <2> DEFINE n == Len(log)
             new == Apply(history[n], Head(pending)).fsm
  <2>1. /\ Head(pending) \in FSMCommand /\ Len(pending') = Len(pending) - 1 /\ Len(log') = n + 1
        /\ Good(history[n])
    BY <1>3, CommitEffect
  <2>2. history'[n + 1] = new /\ \A i \in 0 .. n : history'[i] = history[i]
    BY <1>3, CommitEffect
  <2>3. /\ history[n].revision \in Nat /\ history[n].revision <= n
        /\ new.revision \in {history[n].revision, history[n].revision + 1}
    <3>1. history[n].revision <= n
      BY <1>1 DEF LogBounded
    <3>2. QED
      BY <2>1, <3>1, ApplyRevision
  <2> HIDE DEF n, new
  <2>4. ASSUME NEW i \in 0 .. (n + 1) PROVE history'[i].revision <= i
    <3>1. CASE i = n + 1
      BY <1>1, <2>2, <2>3, <3>1 DEF n
    <3>2. CASE i \in 0 .. n
      BY <2>2, <3>2 DEF LogBounded, n
    <3>3. QED
      BY <1>1, <3>1, <3>2 DEF n
  <2>5. QED
    BY <1>1, <2>1, <2>4 DEF LogBounded, n
<1>4. CASE \E n \in Nodes : Elect(n)
  <2>1. PICK k \in 0 .. Len(pending) : pending' = SubSeq(pending, 1, k)
    BY <1>4 DEF Elect
  <2>2. Len(pending') = k
    BY <1>1, <2>1
  <2>3. QED
    BY <1>1, <1>4, <2>2 DEF Elect, LogBounded
<1>5. CASE UNCHANGED <<log, pending, history>>
  BY <1>5 DEF LogBounded
<1>6. QED
  BY <1>2, <1>3, <1>4, <1>5, Zenon DEF Next, vars, VerifyLeader, FinishRead, ApplyEntry,
                    TakeSnapshot, InstallSnapshot, Crash, Start

\* Through elections, lost tails, crashes, restarts and snapshots the cluster
\* is one KVStore: a commit is a step of fsm.go's Apply on it, and nothing
\* else that happens shows.
THEOREM ClusterImplementsStore == Spec => ImplementsStore
<1>1. Init => Store!Init /\ LogBounded
  <2> SUFFICES ASSUME Init PROVE Store!Init /\ LogBounded
    OBVIOUS
  <2>1. Len(log) = 0 /\ Len(pending) = 0 /\ history[0] = NewKVStateMachine
    BY DEF Init
  <2>2. Store!Init
    BY <2>1 DEF Store!Init, Store!NewKVStateMachine, Store!EmptyMap, Store!Snapshot,
                NewKVStateMachine, EmptyMap, Snapshot
  <2>3. LogBounded
    <3>1. MaxLog \in Nat /\ history[0].revision = 0
      BY <2>1, RaftAssumption DEF NewKVStateMachine
    <3>2. QED
      BY <2>1, <3>1 DEF LogBounded
  <2>4. QED
    BY <2>2, <2>3
<1>2. IndInv /\ LogBounded /\ [Next]_vars => [Store!Command]_(Store!vars)
  <2> SUFFICES ASSUME IndInv, LogBounded, [Next]_vars PROVE [Store!Command]_(Store!vars)
    OBVIOUS
  <2>1. CASE Commit
    <3> DEFINE n == Len(log)
               cmd == Head(pending)
    <3>1. n \in Nat /\ Len(pending) \in Nat \ {0} /\ cmd \in FSMCommand /\ MaxLog \in Nat
      BY <2>1, CommitEffect, RaftAssumption
    <3>2. history[n].revision \in Nat /\ history[n].revision < MaxLog
      <4>1. history[n].revision \in Nat
        BY <2>1, <3>1, CommitEffect
      <4>2. history[n].revision <= n /\ n + Len(pending) <= MaxLog
        BY <3>1 DEF LogBounded
      <4>3. QED
        BY <3>1, <4>1, <4>2
    <3>3. history'[Len(log')] = Store!Apply(history[n], cmd).fsm
      <4>1. Len(log') = n + 1
        BY <2>1, CommitEffect
      <4>2. history'[n + 1] = Apply(history[n], cmd).fsm
        BY <2>1, CommitEffect
      <4>3. QED
        BY <4>1, <4>2, SameApply
    <3>4. Store!ApplyCommand(cmd)
      BY <3>2, <3>3 DEF Store!ApplyCommand
    <3>5. QED
      BY <3>1, <3>4, CommandIsStep
  <2>2. CASE UNCHANGED <<log, history>>
    BY <2>2 DEF Store!vars
  <2>3. QED
    BY <2>1, <2>2, Zenon DEF Next, vars, Submit, VerifyLeader, FinishRead, ApplyEntry, Elect,
                      TakeSnapshot, InstallSnapshot, Crash, Start
<1>3. QED
  BY <1>1, <1>2, InitIndInv, NextIndInv, LogBoundedStep, PTL
     DEF Spec, ImplementsStore, Store!DurableSpec
=============================================================================
