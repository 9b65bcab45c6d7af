# A TLA+ model of the Underleaf agent

The Underleaf agent runs on edge servers. It keeps a small replicated key-value
store among the servers of a cluster, holds the policy its control plane gives
it, installs and supervises providers, carries out deployments, answers the
messages of the Spine, and updates itself. This directory models the parts of it
where several goroutines, processes, nodes or failures meet, checks them with TLC
on small instances, and proves the central invariants with TLAPS for instances of
any size. Paths below are relative to `src/`; `agent/` stands for
`internal/agent/`, `raft/` for `internal/raft/`.

## 1. The system and its modules

One module per component. Properties stand at the end of each module. Operators
whose comment begins with "Mutant" are plausible bugs of the definition below
them; every property checked by a passing run detects one.

**The replicated store**

* **FSMOps**: `raft/fsm.go` as operators on a record that is the Go struct.
  `Apply` returns the new state machine and the error. Keys and values are opaque,
  with a length. The byte count of a store is the cardinality of a set with one
  element per byte, a form that TLC and the provers can both work with.
* **KVStore**: one replica; an action per command, snapshot, restart. It is also
  the abstract specification that RaftKV and KVClients implement.
* **RaftKV**: the cluster (`raft/node.go`, reads of `raft/kv.go`). hashicorp/raft
  is external and appears as what it guarantees: one committed sequence, applied
  in order by every node at its own pace. `history[i]` is the state after the
  first `i` commands.
* **KVClients**: the callers on one node: CompareAndSwap, PutIfNotExists,
  transactions, the HTTP handlers and `ufctl` behind them, the kernel's system
  calls. Each is a sequence of reads and single commands.
* **LockService**: contenders that execute Acquire and Release (`raft/lease.go`)
  one raft call at a time over FSMOps. A call is answered, or fails in raft with
  its command committed or not.
* **Watch**: the loop of one watcher (`raft/watch.go`), statement by statement.
* **Membership**: requests that read and check the configuration, then make their
  raft calls (`raft/membership.go`); leadership moves; calls fail with or without
  their effect.
* **Transport**: raft's RPCs over gRPC (`raft/transport.go`) and `Node.Stop`.
* **ClusterStart**: how a server becomes a member and stays one over restarts
  (`agent/wiring.go`, `raft/node.go`).
* **LeaderAnnounce**: leadership callbacks and the mDNS announcement.
* **KeyManager**: the software and TPM managers of each machine
  (`internal/crypto/keymanager`). Keys are bit strings of `KeyBits` bits, and a
  software blob is a key XORed with another, as in the code.
* **Secrets**: SealManager and SecretStore (`raft/seal.go`, `raft/secrets.go`) on
  several nodes. Master keys are numbered, `NoMaster` stands for none.

**What the agent keeps in step with others**

* **Outbox**: the file of undelivered results (`agent/outbox.go`) as a sequence of
  item numbers; the drain cycle in steps; torn lines; crashes.
* **PolicyManager**: two updaters whose update is check, save, set, notify.
* **SecretReplication**: one secret, its origin agent and the destinations. A value
  is the number of the local version it belongs to; a payload carries the value
  read and the version the grant was answered with, which may differ (`blurred`).

**Deployments and providers**

* **DeployGraph**: the dependency graph and `TopologicalSort`, one step per
  iteration (`internal/compiler/graph.go`).
* **Deployment**: a job from event to report: capability phase, compile, observe,
  reconcile, plan, run operation by operation, save. Jobs interleave.
* **RegistrySync**, **Capability**, **Supervisor**: the registry snapshot with its
  ETag; the provider records and binaries; the supervised processes.

**Messages and the process itself**

* **SpineLinks**: dispatch loop, watchdog, local subscribers, one tunnel link.
* **Exec**: commands, their processes, the drainer, StopProcess.
* **EventStream**: publishers, ring buffer, sessions with bounded buffers.
* **Launch**: start, stop, restart through the PID file, the port and signals.
* **Onboard**: login, registration, claim, certificates, from several terminals.
* **Updater**: the agent's downloads and `ufctl update apply` over one state file.

How they interact: handlers in `internal/agent` call the raft API on whichever
node they run; every command reaches every replica's state machine; locks,
elections, secrets and watches are built on that store, so FSMOps is shared by
KVStore, RaftKV, KVClients, LockService and Watch. KVClients takes from RaftKV
what `ReplicaAgreement` establishes: a node's state is one of those the committed
commands go through. Capability sees the supervisor through its entry's state and
the registry through what it holds. Secrets sees the store as the sequence of its
states. The Spine delivers pushes and requests on one dispatch goroutine; results
leave through the outbox.

`PROJECT.json` lists all components with their status, the lines that every
definition models, and the hazards with the line at which each bites.

## 2. Runs

Components that share no state are checked together: the `MC` module chooses one
of them in its initial state (`component`), and the others keep their initial
values. A behaviour of the run is then a behaviour of exactly one component, and
the run checks what separate runs would. Properties of instantiated components
are grouped by the question they answer; the `MC` module spells the groups out.

| Run | Components | Bounds |
|---|---|---|
| `kv` | KVStore, KVClients, Watch, KeyManager | 2 valid keys and a malformed one, 3 values (one too large), 1 lease, revisions to 5; 2 callers, 3 commits, 3 disturbances; a channel of 1, 3 writes, a start now or at revision 1; 2 machines (one with a TPM), 7 events |
| `raftkv` | RaftKV, and KVStore as what it implements | 3 nodes, 1 client, 2 commands in the log out of 4 kinds |
| `lock` | LockService, Secrets | 2 contenders, 3 leases, 2 faults; 2 nodes, 3 inputs |
| `membership` | Membership | 3 servers, at most 2 voters, 2 requests, 1 fault, 2 raft calls outstanding at once |
| `syncs` | Outbox, PolicyManager, SecretReplication | 4 items (one unhandled, one oversized), 2 faults; versions 0 to 2, a channel of 1, 2 faults; 1 target, 2 channels, 2 connections, 3 activities at once, 2 attempts, 1 command, 1 fault |
| `deploy` | DeployGraph, Deployment, Supervisor, RegistrySync, Capability | every graph on 3 resources with lists of length 2 or less; 3 jobs with 1 fault or 2 (at once or not) with 2; 2 starts, 1 restart, 1 stop; 3 snapshots, 2 faults; 5 providers, 1 call, 2 busy, 1 fault |
| `messaging` | SpineLinks, Exec, EventStream | 2 Spine events, 1 fault, 2 goroutines; 2 traces, 2 runs; a ring of 2, buffers of 1 or 2, 3 events |
| `lifecycle` | Onboard, Launch, Updater, ClusterStart, Transport, LeaderAnnounce | 1 terminal, 5 events; 1 user, 2 agents, 4 events; 3 events; 5 configuration sections, 3 events; 2 RPCs, 2 chunks; 2 members, 4 events |

What they show:

* `kv`: sizes and revisions are exact over snapshots and restarts. Callers whose
  answers are lost or redirected still drive the store's specification, and each
  answer matches the log. A watcher steps over no version, repeats none more than
  once, and ends when closed. A sealed key manager keeps no key and opens again.
* `raftkv`: at equal indexes nodes hold equal state, a running node's revision
  never falls, and the committed log drives KVStore.
* `lock`: holders keep their leases, a lock key names a live lease, a taken lock is
  freed; unsealed nodes have the cluster's key, and acknowledged versions stay.
* `membership`: the voters exceed the maximum by at most what overlapping requests
  and failed demotions explain, and no server is lost silently.
* `syncs`: results are kept until delivered, in order; memory and disk hold one
  policy, which becomes the latest; a target shown in sync has the value, and a
  rotated value arrives.
* `deploy`: the sort is right; a job that succeeds leaves what was asked for and
  removes only its own; children are supervised or killed; registry and records
  follow.
* `messaging`: link records follow the mesh agent, every message is answered, a
  result means that its process is over, and a connected mesh agent has every event
  it is owed.
* `lifecycle`: one server record per machine, one agent in service, whole binaries,
  a cluster that follows its section, a `Stop` that ends, one announcer.

**Bounds.** Two of everything that competes is the smallest instance with a race,
and the bounds allow every branch of the code: refused and accepted commands, a
lease that lists a key twice, a leader that lags, two requests past their check, a
crash in every step. A maximum of 2 voters puts both sides of the maximum in reach
of 3 servers. In `membership` the constraint `Overlap` leaves out states with three
raft calls outstanding (two requests and the re-add of a failed demotion); the
theorems about Membership have no such bound. `syncs` has one replication target,
so no patch made for one destination overwrites another's; its `Overlap` leaves out
states with four replication activities under way, and with one fault two failures
never combine. Deadlock checking is off where the bounds, or
the code, let the system stop. Symmetry is used in runs without liveness only.

**Fairness.** Weak fairness of steps the code takes by itself: goroutines that were
started run, tickers fire, calls that were begun return, commands a user started go
on, timeouts pass. The one strong fairness is the outbox's: a server that is asked
again and again answers some time. Two assumptions go beyond the scheduler: lock
holders release, and a policy pull or registry sync that is repeated succeeds once
its bounded faults are used up. Elections, crashes, pushes, client calls, user
commands and failures are never assumed to happen.

Four runs end in a violation: code and documentation disagree. Each has an entry
under `findings` that quotes the line.

* `raftkv_read`: a linearizable read by a new leader misses an acknowledged write.
* `cas`: two CompareAndSwap calls that expect one revision both succeed.
* `lock_mutex`: two contenders hold one lock.
* `outbox_concurrent`: an item enqueued during a drain cycle is erased.

## 3. Proofs

Theorems hold for every value of the constants, under the named assumptions of
the modules: sizes and bounds are naturals, the sets of servers, callers and
resources are finite, special values are not members of the sets they stand
outside of. The bounds on commands, items, faults and versions are constants
like the others: they keep TLC finite and play no part in the arguments.

* **FSMOpsProofs**. `Good(s)`: types, exact size, ordered revisions. `ApplyGood`:
  every command preserves it. The effect of one entry on the size is a union or a
  difference of disjoint byte sets. `RestoreInvertsSnapshot`: a good state machine
  comes back from its snapshot unchanged, because its size is exact.
* **ClusterProofs**. *Membership*: the voters and the servers that requests past
  their check aim at, without those whose demotion failed (`Grown`), number at most
  the maximum plus the overlap; `VotersBounded` follows. `NobodyLostSilently` is
  inductive with the types. *KVStore*: the invariant is `Good` of the state machine
  and of what the snapshot restores to; `SizeAccounting`, `RevisionOrder` and `TypeOK`
  follow. `OvershootBounded` needs more: the bound is kept per key, so that it survives
  the deletion of keys.
* **RaftKVProofs**. Each node is at `history[applied]`, each snapshot at
  `history[index]`, and consecutive elements of `history` are related by `Apply`;
  `ReplicasAgree` follows. `NeverGoesBackwards` adds that revisions grow along
  `history`. `ClusterImplementsStore` is the refinement `Spec => Store!DurableSpec`, where
  the one store's state machine is `history[Len(log)]`: a Commit is KVStore's
  `Command` for the entry committed, every other step, a node's restart included, a
  stutter: `DurableSpec` is the store that never restarts. It rests on
  `SameApply` (the instance's copy of the `fsm.go` operators computes what the
  cluster's does), on `HistoryIsRun`, and on `LogBounded`, because KVStore's actions
  are bounded by the revision.
* **LocksAndKeysProofs**. *KeyManager*: `MasterKeysRecoverable` says that an open
  manager has the keys of a master key that a stored blob gives back on that machine,
  whatever was sealed, unsealed, restarted and lost in between. It rests on `XorTwice`,
  that XOR with one key twice is the identity for every key length, and on `KmInv`: a
  manager is sealed without any key, or open with keys all derived from one master key
  that was drawn. *LockService*: leases of active contenders are distinct and exist, and
  only its owner revokes a lease: `HoldersHaveLeases`. For `KeysNameLiveLeases` the
  invariant `KeyOwned` says whose the key is: without failures it names the lease of
  a contender that is attaching, holding or deleting it. That a second put replaces
  the first contender's key does not break this: the second contender then owns it,
  and the delete of the first removes the key altogether.
* **SyncsProofs**. *Outbox*: `NothingLost`: while a cycle runs, batch and failed items
  cover every item that must not be lost, because the rewrite replaces the file.
  `InOrderAndOnce`: file, batch and failed items are each increasing, and every failed
  item is before the batch (`OrderInv`); an item that a cycle may still deliver has
  had at most as many deliveries as there were faults that broke a cycle off
  (`CreditInv`). The property itself counts deliveries and says nothing of which
  items may still go out, so it is not inductive. *PolicyManager*: `DiskAndMemoryAgree`:
  unless updates overlapped, one updater at most is past its check, and what it saved
  stays on disk until it assigns it (`OneInFlight`). `SettingsCatchUp`: the last version
  in the watch channel is the policy in memory, or its announcement is still to come.
  `PolicyKeptInStep` states both, as the run does. `NoLoneDowngrade`, an action property:
  an update in flight is newer than the policy it was checked against (`Newer`), so an
  assignment that lowers the policy follows another's.
* **ReplicaChannelsProofs**. Types of SecretReplication, and `GuardBoundsChannels`: a
  channel under way to a target was let through by its guard or by a guard that expired
  early, so there are at most as many as the guard and the expiries account for. The
  proof counts the channels of one target as a finite set.
* **SecretReplicationProofs**. `ReplicasAsRecorded`: a target the record shows in sync has
  the value. Four writers patch the whole list of targets, each with a list it read
  earlier. `BackedInv` says why this is harmless: every list on its way into the record
  claims no version for a target that the target has not got, and what an unblurred
  target has never shrinks. `StoresInOrder`, an action property: as long as nothing
  failed one channel at most is under way to a target (`CalmInv`), so a destination is
  not handed an older value after a newer one.
* **DeployProofs**. `SortIsCorrect`, for all dependency lists, repeated entries
  included, and all map orders: the in-degree of a resource is the number of entries
  in its list that name one not emitted (`Counted`); the resources of in-degree 0 are
  the emitted and the queued ones (`Settled`), each in one place once (`Once`). When
  the queue is empty and some are missing, the missing ones wait for each other: that
  set is the cycle that `CycleIsReal` asks for. That the loop ends is not proved.
  `SupervisorSafe`, for any number of starts, stops and restarts: `SupInv` relates the
  record of each goroutine to where the goroutine is, and says of one whose entry was
  replaced in which state it was then (`DisplacedInv`). The property speaks of living
  children only; without the goroutines between two children it is not inductive.

Only model-checked: all liveness properties (the proof system does not handle
fairness), the last conjunct of `UnsealedHaveTheKey` among them; the safety properties
of KVClients, Watch, Secrets, Deployment, RegistrySync, Capability, SpineLinks, Exec,
EventStream, Launch, Onboard, Updater, ClusterStart, Transport and LeaderAnnounce.

## 4. Not modelled, and where code and documentation differ

Not modelled: the raft library's own protocol; time (lease TTLs, which no code
enforces, backoff, tickers, except for the order in which limits can pass); the wire
and file formats; cryptography beyond what opens what; terminal output. The
components marked `not_modelled` in `PROJECT.json` are input and output or have no
caller. `internal/deployment`'s older path is deprecated and not wired.

The model follows the code where it and the documentation, or expectation, differ.

*Store, locks, watches, membership*

* `applyPut` (`fsm.go:126`) checks the budget on creation only and leaves `Revision`
  as it was; `OvershootBound` and `RevisionOrder` say what does hold. CompareAndSwap
  compares that unchanged revision (`cas`).
* `Transaction.Commit` "applies the transaction atomically" (`kv.go:232`) but sends its
  commands one by one. A redirect (307) has no Location, and `ufctl` gives up after the
  same 10 s that Apply may take, so a command may be applied although it failed.
* No code expires a lease, so a crashed holder keeps its lock; `LockFreed` excepts
  faults.
* A watch sends the changes of one round in map order, and a version that was replaced
  or deleted between two polls not at all (`watch.go:139`).
* `AddNode` checks the voter count before an unserialised call (`membership.go:51`);
  `VoterBound` says how far the maximum can be exceeded. A leader that demotes itself
  steps down after the first of the two calls, and a RemoveNode between them is undone
  by the second. Maintenance mode is a field of one node (`node.go:457`), and a transfer
  ignores its target (`node.go:499`).
* A cluster start that crashes between the creation of `raft.db` and the bootstrap never
  bootstraps; known peers are recorded even if adding them failed; a cluster section
  that arrives late starts no reporter. Peer lists `[a,b]` and `[a,a]` compare equal.
* Leadership callbacks run in goroutines of their own and may overtake each other;
  `AnnouncerIsLeader` excepts that. A handler that offers an RPC to raft ignores its
  caller's context until the offer is taken or the transport closes.

*Keys and secrets*

* The identity key is not "regenerated deterministically" (`software.go`): the first
  one is random, the one after an unseal is derived, and only the first is registered.
  A failed TPM unseal leaves the manager initialised.
* "The blob is immutable after init" (`seal.go:189`), but only a node's own flag stands
  between Initialize and a second ceremony, which replaces it.
* `ufctl secrets rotate` looks for `version` at the top level of the agent's answer
  (`rotate.go:79`), which has it under `metadata` (`secret_handlers.go:158`): it patches
  version 1 until the sync reporter corrects it. A rotation that cannot fetch the old
  metadata stores the new version without its `server_api_id` (`rotate.go:55`), and it
  is not replicated from then on; `ReplicasMoveForward` excepts this.
* A value is read before its grant is requested (`secret_replication.go:204`), so a
  payload may carry an old value under a new version; the properties except the targets
  this happened to. A patch or grant whose answer alone is lost is left out.

*Outbox, policy*

* A line longer than 64 KB in the outbox stops all deliveries (`outbox.go:231`);
  `EventuallyDelivered` excepts it.
* `policy_manager/README.md:114` promises "Version monotonicity (never downgrade)". Two
  overlapping updates can downgrade the policy in memory; `NoLoneDowngrade` proves that
  nothing else does. The command settings are read before their watcher is registered
  (`wiring.go:407`, `wiring.go:646`); `SettingsFollow` excepts updates in between.

*Deployments and providers*

* A plan is not rolled back, a retry may recreate volumes, updates come before creates
  (`planner.go:85`), deletions come in map order; removing all capabilities of a recipe
  skips the capability phase (`recipe/reconciler.go:37`).
* Overlapping syncs can leave the registry older than its ETag; `loadFromDisk` never
  calls `onUpdate`. `RegistryFollows` excepts overlaps.
* Provider records are loaded and written whole, so concurrent saves lose updates;
  versions are compared as text (`registry.go:137`); a crash during an install leaves
  "installing"; nobody calls the supervisor's Shutdown in production.
* In the agent nobody calls ApplyUpdate or Rollback; two downloads share one temporary
  file; a release without `checksums.txt` is not verified.

*Messages and processes*

* Publishers can be inverted between taking a number and adding to the ring; the mesh
  agent then drops the late lower one, which `NothingLostInBetween` excepts. A restart
  starts the numbers again.
* Bind and unbind completions run in goroutines of their own and can leave a link record
  behind; a bind request that arrives before the event stream's server is set is
  acknowledged and lost; the watchdog never resubscribes before the first delivery.
* StopProcess on a process that runs answers "process has not started yet"
  (`exec_server.go:104`); a child that keeps the output open outlives its timeout.
* The PID file is checked and then written; the health check is answered by whichever
  agent holds the port; SIGHUP stops the agent and nothing brings it back
  (`runtime.go:47`).
* Every `Set` of the configuration writes the whole file, so overlapping commands lose
  updates. Registration treats any failed lookup as "not registered"
  (`server/service.go:77`). An existing certificate skips the configuration of its paths,
  and an expired one is not renewed.

## 5. Plan

1. Proofs of Secrets' `VersionsKept` and Watch's `NothingSteppedOver` and `AtMostTwice`.
2. KVClients' `ImplementsStore` along the lines of `ClusterImplementsStore`.
3. A smaller SecretReplication in which two targets are in reach.
