------------------------------- MODULE RaftKV -------------------------------
(***************************************************************************)
(* The cluster: every node runs the FSMOps state machine behind            *)
(* hashicorp/raft (internal/raft/node.go), and callers in the node's own   *)
(* process write with Node.Apply and read with KV.getLinearizable.         *)
(*                                                                         *)
(* raft itself is external and appears as what it guarantees: one sequence *)
(* of committed commands that every live node applies in order, at its own *)
(* pace; a leader whose uncommitted tail may or may not survive the next   *)
(* election; snapshots that replace a log prefix.                          *)
(***************************************************************************)
EXTENDS FSMOps

CONSTANTS Nodes, NoNode,   \* cluster members; no leader
          Clients,         \* goroutines calling into their node
          Idle,            \* a client with no call outstanding
          Workload,        \* the commands callers submit
          MaxLog           \* bound: commands in the log, uncommitted ones included

ASSUME RaftAssumption == /\ NoNode \notin Nodes
                         /\ Workload \subseteq FSMCommand
                         /\ MaxLog \in Nat

VARIABLES log,       \* the committed commands
          pending,   \* the leader's appended, uncommitted commands
          leader,    \* the node raft has elected
          up,        \* the running nodes
          applied,   \* per node: how much of log its state machine has applied
          fsm,       \* per node: its state machine
          snap,      \* per node: its last snapshot and the index it covers
          call,      \* per client: the call it is blocked in
          acked,     \* history: highest index whose Apply returned to a caller
          history    \* history: the state after the first i committed commands

vars == <<log, pending, leader, up, applied, fsm, snap, call, acked, history>>

\* Calls blocked in Node.Apply (until index is applied at node) and reads
\* between VerifyLeader and the state machine's Get.
ApplyCall(n, i) == [kind |-> "apply", node |-> n, index |-> i]
ReadCall(n, floor) == [kind |-> "read", node |-> n, index |-> floor]
Calls == [kind : {"apply", "read"}, node : Nodes, index : Nat]

\* Clients whose call satisfies P return (with an error unless the action
\* records otherwise).
Returning(P(_)) == [c \in Clients |-> IF call[c] # Idle /\ P(call[c]) THEN Idle ELSE call[c]]

Init == /\ log = << >> /\ pending = << >>
        /\ leader = NoNode /\ up = Nodes
        /\ applied = [n \in Nodes |-> 0]
        /\ fsm = [n \in Nodes |-> NewKVStateMachine]
        /\ snap = [n \in Nodes |-> [index |-> 0, state |-> Snapshot(NewKVStateMachine)]]
        /\ call = [c \in Clients |-> Idle]
        /\ acked = 0
        /\ history = [i \in {0} |-> NewKVStateMachine]

-----------------------------------------------------------------------------
(***************************************************************************)
(* Node.Apply.  A node that is not the leader answers ErrNotLeader and     *)
(* changes nothing; the leader appends and blocks on the future.           *)
(***************************************************************************)
Submit(c, n, cmd) ==
    /\ call[c] = Idle
    /\ n \in up /\ leader = n
    /\ Len(log) + Len(pending) < MaxLog
    /\ pending' = Append(pending, cmd)
    /\ call' = [call EXCEPT ![c] = ApplyCall(n, Len(log) + Len(pending) + 1)]
    /\ UNCHANGED <<log, leader, up, applied, fsm, snap, acked, history>>

\* Mutant: the entry goes through the state machine twice.
CommitTwice ==
    /\ leader # NoNode /\ pending # << >>
    /\ 2 * Cardinality(up) > Cardinality(Nodes)
    /\ log' = Append(log, Head(pending))
    /\ pending' = Tail(pending)
    /\ history' = Bind(history, Len(log) + 1,
                       Apply(Apply(history[Len(log)], Head(pending)).fsm, Head(pending)).fsm)
    /\ UNCHANGED <<leader, up, applied, fsm, snap, call, acked>>

\* A quorum has stored the leader's next entry.
Commit ==
    /\ leader # NoNode /\ pending # << >>
    /\ 2 * Cardinality(up) > Cardinality(Nodes)
    /\ log' = Append(log, Head(pending))
    /\ pending' = Tail(pending)
    /\ history' = Bind(history, Len(log) + 1, Apply(history[Len(log)], Head(pending)).fsm)
    /\ UNCHANGED <<leader, up, applied, fsm, snap, call, acked>>

\* raft's FSM goroutine applies the next committed entry and resolves the
\* future of the call, if any, that waits for it on this node.
ApplyEntry(n) ==
    LET i == applied[n] + 1
    IN  /\ n \in up /\ i <= Len(log)
        /\ fsm' = [fsm EXCEPT ![n] = Apply(@, log[i]).fsm]
        /\ applied' = [applied EXCEPT ![n] = i]
        /\ call' = Returning(LAMBDA x : x = ApplyCall(n, i))
        /\ acked' = IF call' # call /\ acked < i THEN i ELSE acked
        /\ UNCHANGED <<log, pending, leader, up, snap, history>>

\* A new leader: it holds everything committed and some prefix of the old
\* leader's tail.  Calls waiting on the tail fail with ErrLeadershipLost,
\* whether or not their command survives.
Elect(n) ==
    /\ n \in up /\ leader # n
    /\ 2 * Cardinality(up) > Cardinality(Nodes)
    /\ leader' = n
    /\ \E k \in 0 .. Len(pending) : pending' = SubSeq(pending, 1, k)
    /\ call' = Returning(LAMBDA x : x.kind = "apply" /\ x.index > Len(log))
    /\ UNCHANGED <<log, up, applied, fsm, snap, acked, history>>

-----------------------------------------------------------------------------
(***************************************************************************)
(* KV.getLinearizable: VerifyLeader confirms leadership with a quorum;     *)
(* then the local state machine is read, with no barrier in between.       *)
(***************************************************************************)
VerifyLeader(c, n) ==
    /\ call[c] = Idle
    /\ n \in up /\ leader = n
    /\ 2 * Cardinality(up) > Cardinality(Nodes)
    /\ call' = [call EXCEPT ![c] = ReadCall(n, acked)]
    /\ UNCHANGED <<log, pending, leader, up, applied, fsm, snap, acked, history>>

FinishRead(c) ==
    /\ call[c] # Idle /\ call[c].kind = "read"
    /\ call' = [call EXCEPT ![c] = Idle]
    /\ UNCHANGED <<log, pending, leader, up, applied, fsm, snap, acked, history>>

-----------------------------------------------------------------------------
(***************************************************************************)
(* Snapshots, crashes and restarts.  The memory of a stopped node is lost; *)
(* its snapshot and its log are on disk.                                   *)
(***************************************************************************)
TakeSnapshot(n) ==
    /\ n \in up /\ snap[n].index < applied[n]
    /\ snap' = [snap EXCEPT ![n] = [index |-> applied[n], state |-> Snapshot(fsm[n])]]
    /\ UNCHANGED <<log, pending, leader, up, applied, fsm, call, acked, history>>

\* A follower too far behind the leader's compacted log receives its snapshot.
InstallSnapshot(n) ==
    /\ n \in up /\ leader \notin {n, NoNode}
    /\ applied[n] < snap[leader].index
    /\ snap' = [snap EXCEPT ![n] = snap[leader]]
    /\ fsm' = [fsm EXCEPT ![n] = Restore(snap[leader].state)]
    /\ applied' = [applied EXCEPT ![n] = snap[leader].index]
    /\ UNCHANGED <<log, pending, leader, up, call, acked, history>>

Crash(n) ==
    /\ n \in up
    /\ up' = up \ {n}
    /\ leader' = IF leader = n THEN NoNode ELSE leader
    /\ call' = Returning(LAMBDA x : x.node = n)
    /\ UNCHANGED <<log, pending, applied, fsm, snap, acked, history>>

\* Node.Start: raft restores the newest snapshot into the new state machine
\* and will replay the log after it.
Start(n) ==
    /\ n \notin up
    /\ up' = up \cup {n}
    /\ fsm' = [fsm EXCEPT ![n] = Restore(snap[n].state)]
    /\ applied' = [applied EXCEPT ![n] = snap[n].index]
    /\ UNCHANGED <<log, pending, leader, snap, call, acked, history>>

Next == \/ \E c \in Clients, n \in Nodes, cmd \in Workload : Submit(c, n, cmd)
        \/ \E c \in Clients, n \in Nodes : VerifyLeader(c, n)
        \/ \E c \in Clients : FinishRead(c)
        \/ Commit
        \/ \E n \in Nodes : ApplyEntry(n)
        \/ \E n \in Nodes : Elect(n)
        \/ \E n \in Nodes : TakeSnapshot(n)
        \/ \E n \in Nodes : InstallSnapshot(n)
        \/ \E n \in Nodes : Crash(n)
        \/ \E n \in Nodes : Start(n)

Spec == Init /\ [][Next]_vars

-----------------------------------------------------------------------------
(***************************************************************************)
(* Properties.                                                             *)
(***************************************************************************)

\* The cluster's state has the shape the code gives it.
TypeOK ==
    /\ log \in Seq(FSMCommand) /\ pending \in Seq(FSMCommand)
    /\ leader \in Nodes \cup {NoNode} /\ up \in SUBSET Nodes
    /\ applied \in [Nodes -> 0 .. Len(log)]
    /\ fsm = [n \in Nodes |-> fsm[n]] /\ DOMAIN snap = Nodes
    /\ \A n \in Nodes : /\ IsKVStateMachine(fsm[n])
                        /\ IsFSMSnapshot(snap[n].state)
                        /\ snap[n] \in [index : 0 .. Len(log), state : {snap[n].state}]
    /\ call \in [Clients -> Calls \cup {Idle}]
    /\ acked \in 0 .. Len(log)

\* State machine replication: however a node got to index i (applying every
\* entry, restarting from its own snapshot and replaying, or installing the
\* leader's snapshot), its state machine is the one the first i committed
\* commands determine.  So nodes at the same index hold the same data, the
\* same revisions and the same budget.
ReplicaAgreement ==
    \A n \in Nodes : fsm[n] = history[applied[n]]

\* A running node never goes back: the revision of its state machine, which
\* stale reads and watchers observe, does not decrease while the process
\* lives, snapshots installed by the leader included.
NeverBackwards ==
    [][\A n \in up \cap up' : fsm[n].revision <= fsm'[n].revision]_vars

\* What the cluster promises: the committed commands act on one KVStore, one
\* after the other, through elections, lost tails, crashes, restarts and
\* snapshots.  (The snapshots belong to the replicas: the one KVStore neither
\* takes any nor restarts.)
Store == INSTANCE KVStore WITH fsm <- history[Len(log)], MaxRevision <- MaxLog,
                               snapshot <- Snapshot(NewKVStateMachine)
ImplementsStore == Store!DurableSpec

\* kv.go reads the local state machine after VerifyLeader: "this is safe
\* because we verified leadership", and README promises the "latest committed
\* state".  So a read about to be served sees every write that had been
\* acknowledged when leadership was confirmed.
ReadsLatest ==
    \A c \in Clients : call[c] # Idle /\ call[c].kind = "read" =>
        applied[call[c].node] >= call[c].index
=============================================================================
