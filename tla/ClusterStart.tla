---------------------------- MODULE ClusterStart ----------------------------
(***************************************************************************)
(* How a server becomes a member of its raft cluster, and stays one over   *)
(* restarts (agent/wiring.go, raft/node.go): the cluster section of the    *)
(* configuration is read at startup or arrives later, raft is opened on    *)
(* what the data directory holds, the cluster is bootstrapped, joined or   *)
(* extended, the secret store is built on it, and the role is reported.    *)
(***************************************************************************)
EXTENDS Integers, Sequences, FiniteSets, Functions

CONSTANTS Confs,        \* cluster sections the control plane may send
          MaxCsEvents,  \* bound: changes, crashes, elections and failures
          MaxEntries    \* bound: committed entries

VARIABLES conf,         \* the current snapshot's cluster section
          feed,         \* snapshots in the watchers' channel
          agent,        \* "down", "wiring" (WireAgent), "up"
          node,         \* "none", "starting", "opened", "up", "broken"
          bound,        \* the raft port is taken by this process
          cfg,          \* the NodeConfig in use
          watcher,      \* "none", "init", "updates"
          known,        \* lastKnownPeers of the updates watcher
          disk,         \* the data directory: raft.db, servers, log
          leads,        \* this node is the leader
          committed,    \* entries the node's cluster has acknowledged
          store,        \* the secret store: "none", "retry", "wired", "given up"
          reported,     \* the role the control plane was told last
          passed,       \* ghost: the last change of peers was not carried out whole
          csEvents      \* events so far

csvars == <<conf, feed, agent, node, bound, cfg, watcher, known, disk, leads,
            committed, store, reported, passed, csEvents>>

Self == "self"
EmptyDir == [db |-> FALSE, servers |-> {}, log |-> 0]
NoCfg == [bootstrap |-> FALSE, peers |-> {}, late |-> FALSE]
MaxVoters == 3

CsInit == /\ conf \in Confs
          /\ feed = << >> /\ agent = "down" /\ node = "none" /\ bound = FALSE
          /\ cfg = NoCfg /\ watcher = "none" /\ known = {} /\ disk = EmptyDir
          /\ leads = FALSE /\ committed = 0 /\ store = "none"
          /\ reported = "none" /\ passed = FALSE /\ csEvents = 0

Event == csEvents < MaxCsEvents /\ csEvents' = csEvents + 1

-----------------------------------------------------------------------------
(***************************************************************************)
(* The configuration.                                                      *)
(***************************************************************************)

\* The control plane sends a new section; notifyWatchers offers it to the
\* watcher's channel.
Push(c) ==
    /\ Event
    /\ c # conf
    /\ conf' = c
    /\ feed' = IF watcher # "none" THEN Append(feed, c) ELSE feed
    /\ UNCHANGED <<agent, node, bound, cfg, watcher, known, disk, leads,
                   committed, store, reported, passed>>

\* getRaftConfigFromMap takes raft data for stale when a node is to bootstrap
\* and has no peers configured ...
StaleData(c) == disk.db /\ c.bootstrap /\ c.peers = {}

\* ... and otherwise keeps it and turns bootstrapping off.
Extracted(c, late) == [bootstrap |-> c.bootstrap /\ (disk.db => StaleData(c)),
                       peers |-> c.peers, late |-> late]

\* Extracting the configuration, and initializeRaftNode up to raft's Start.
BeginInit(c, late) ==
    /\ cfg' = Extracted(c, late)
    /\ disk' = IF StaleData(c) THEN EmptyDir ELSE disk
    /\ node' = "starting"

\* WireAgent: with a section, raft starts now; without, a watcher waits.
Boot ==
    /\ agent = "down"
    /\ agent' = "wiring"
    /\ IF conf.enabled
       THEN BeginInit(conf, FALSE) /\ UNCHANGED watcher
       ELSE watcher' = "init" /\ UNCHANGED <<cfg, disk, node>>
    /\ UNCHANGED <<conf, feed, bound, known, leads, committed, store, reported, passed, csEvents>>

\* watchConfigForRaftInitialization: the first enabled section starts raft;
\* the next one does when that failed.
InitWatcher ==
    /\ watcher = "init" /\ feed # << >> /\ node \in {"none", "broken"}
    /\ feed' = Tail(feed)
    /\ IF Head(feed).enabled
       THEN BeginInit(Head(feed), TRUE)
       ELSE UNCHANGED <<cfg, disk, node>>
    /\ UNCHANGED <<conf, agent, bound, watcher, known, leads, committed, store, reported, passed, csEvents>>

-----------------------------------------------------------------------------
(***************************************************************************)
(* Node.Start.                                                             *)
(***************************************************************************)

\* The transport listens and BoltDB creates raft.db.
OpenStores ==
    /\ node = "starting" /\ ~bound
    /\ bound' = TRUE
    /\ disk' = [disk EXCEPT !.db = TRUE]
    /\ node' = "opened"
    /\ UNCHANGED <<conf, feed, agent, cfg, watcher, known, leads, committed, store, reported, passed, csEvents>>

\* A step of Start fails.  What Start opened stays open: a later attempt
\* finds the port taken.
StartFails ==
    /\ \/ node = "starting" /\ bound /\ UNCHANGED csEvents
       \/ node = "opened" /\ Event
    /\ node' = "broken"
    /\ UNCHANGED <<conf, feed, agent, bound, cfg, watcher, known, disk, leads, committed, store, reported, passed>>

\* bootstrap: this node and its configured peers, at most three voters.
bootstrap(servers) ==
    /\ Self \in servers /\ servers \subseteq cfg.peers \cup {Self}
    /\ Cardinality(servers) = IF Cardinality(cfg.peers) < MaxVoters
                              THEN Cardinality(cfg.peers) + 1 ELSE MaxVoters

\* Mutant: Start skips the bootstrap of a node that starts late.
ServersAtStartEarly == IF cfg.bootstrap /\ ~cfg.late THEN {s \in SUBSET (cfg.peers \cup {Self}) : bootstrap(s)}
                       ELSE {disk.servers}

\* The configuration raft runs with: bootstrapped, or what the disk holds.
ServersAtStart == IF cfg.bootstrap THEN {s \in SUBSET (cfg.peers \cup {Self}) : bootstrap(s)}
                  ELSE {disk.servers}

\* NewRaft, bootstrap, and what the caller does with a started node: the
\* watcher for peers starts (with no known peers).
StartReturns ==
    /\ node = "opened"
    /\ \E s \in ServersAtStart : disk' = [disk EXCEPT !.servers = s]
    /\ node' = "up"
    /\ watcher' = "updates"
    /\ feed' = IF watcher = "init" THEN << >> ELSE feed
    /\ known' = {}
    /\ passed' = ~(conf.peers \subseteq disk'.servers)
    /\ UNCHANGED <<conf, agent, bound, cfg, leads, committed, store, reported, csEvents>>

\* BootstrapSelf, by the API: raft refuses it once it has a configuration.
BootstrapSelf ==
    /\ Event
    /\ node = "up" /\ disk.servers = {}
    /\ disk' = [disk EXCEPT !.servers = {Self}]
    /\ UNCHANGED <<conf, feed, agent, node, bound, cfg, watcher, known, leads, committed, store, reported, passed>>

\* The leader of another cluster has added this node, and sends its log.
Adopted ==
    /\ Event
    /\ node = "up" /\ disk.servers = {}
    /\ disk' = [disk EXCEPT !.servers = {Self, "elsewhere"}, !.log = 1]
    /\ committed' = 1
    /\ UNCHANGED <<conf, feed, agent, node, bound, cfg, watcher, known, leads, store, reported, passed>>

-----------------------------------------------------------------------------
(***************************************************************************)
(* The running node.                                                       *)
(***************************************************************************)
Elect == /\ node = "up" /\ Self \in disk.servers /\ ~leads /\ Event
         /\ leads' = TRUE
         /\ UNCHANGED <<conf, feed, agent, node, bound, cfg, watcher, known, disk, committed, store, reported, passed>>

StepDown == /\ leads /\ disk.servers # {Self} /\ Event
            /\ leads' = FALSE
            /\ UNCHANGED <<conf, feed, agent, node, bound, cfg, watcher, known, disk, committed, store, reported, passed>>

CommitEntry == /\ leads /\ committed < MaxEntries
               /\ committed' = committed + 1
               /\ disk' = [disk EXCEPT !.log = committed + 1]
               /\ UNCHANGED <<conf, feed, agent, node, bound, cfg, watcher, known, leads, store, reported, passed, csEvents>>

\* A node joins through the API: the leader adds it.
AddNode == /\ leads /\ Event
           /\ disk' = [disk EXCEPT !.servers = @ \cup {"joined"}]
           /\ UNCHANGED <<conf, feed, agent, node, bound, cfg, watcher, known, leads, committed, store, reported, passed>>

\* reconcileRaftMembership adds the missing peers, each of which may fail.
reconcileRaftMembership(missing) == SUBSET missing

\* peersListEqual compares with the last known list.
peersListEqual(peers) == known = peers

\* watchConfigForRaftUpdates: only a leader acts, and the list is known from
\* then on, whatever came of it.
UpdatesWatcher ==
    /\ watcher = "updates" /\ feed # << >>
    /\ feed' = Tail(feed)
    /\ LET c == Head(feed)
           missing == c.peers \ disk.servers
       IN  IF ~c.enabled \/ peersListEqual(c.peers)
           THEN UNCHANGED <<disk, known, passed>>
           ELSE /\ known' = c.peers
                /\ IF leads
                   THEN \E added \in reconcileRaftMembership(missing) :
                           /\ disk' = [disk EXCEPT !.servers = @ \cup added]
                           /\ passed' = (added # missing)
                   ELSE passed' = (missing # {}) /\ UNCHANGED disk
    /\ UNCHANGED <<conf, agent, node, bound, cfg, watcher, leads, committed, store, reported, csEvents>>

\* Leadership is known to the node (its own, or in a cluster of several
\* another's).
HasLeader == leads \/ disk.servers \ {Self} # {}

\* The rest of WireAgent: the secret store is built now if a leader can be
\* reached, and tried once more after the next election if not.
WireStore ==
    /\ agent = "wiring"
    /\ node \in {"none", "up", "broken"} \/ cfg.late
    /\ agent' = "up"
    /\ store' \in IF node # "up" \/ cfg.late THEN {"none"}
                  ELSE IF HasLeader THEN {"wired", "retry"} ELSE {"retry"}
    /\ UNCHANGED <<conf, feed, node, bound, cfg, watcher, known, disk, leads, committed, reported, passed, csEvents>>

\* The retry: WaitForLeader for 30 seconds, then one attempt.
RetryStore ==
    /\ store = "retry"
    /\ store' \in IF HasLeader THEN {"wired", "given up"} ELSE {"given up"}
    /\ UNCHANGED <<conf, feed, agent, node, bound, cfg, watcher, known, disk, leads, committed, reported, passed, csEvents>>

\* initializeRaftNode's own wait for a leader: it was handed no syscall
\* server and no key manager, so it only logs.
LeaderElectionLogged ==
    /\ node = "up" /\ cfg.late /\ HasLeader
    /\ UNCHANGED csvars

ReportDue == TRUE

\* ClusterStatusReporter: started with a node that started with the agent.
reportStatus ==
    /\ node = "up" /\ ~cfg.late /\ agent = "up" /\ ReportDue
    /\ reported' = IF leads THEN "leader" ELSE "follower"
    /\ UNCHANGED <<conf, feed, agent, node, bound, cfg, watcher, known, disk, leads, committed, store, passed, csEvents>>

\* The process ends; the data directory stays.
Crash ==
    /\ agent # "down" /\ Event
    /\ agent' = "down" /\ node' = "none" /\ bound' = FALSE /\ watcher' = "none"
    /\ feed' = << >> /\ known' = {} /\ passed' = FALSE /\ leads' = FALSE
    /\ cfg' = NoCfg /\ store' = "none"
    /\ UNCHANGED <<conf, disk, committed, reported>>

StartStep == OpenStores \/ StartFails \/ StartReturns
CsNext == \/ \E c \in Confs : Push(c)
          \/ Boot
          \/ InitWatcher
          \/ OpenStores
          \/ StartFails
          \/ StartReturns
          \/ BootstrapSelf
          \/ Adopted
          \/ Elect
          \/ StepDown
          \/ CommitEntry
          \/ AddNode
          \/ UpdatesWatcher
          \/ WireStore
          \/ RetryStore
          \/ LeaderElectionLogged
          \/ reportStatus
          \/ Crash

CsSpec == CsInit /\ [][CsNext]_csvars

\* The process is restarted by its service manager; its goroutines and timers
\* run.  Nothing obliges a configuration to change, a client to call, or an
\* election to go any particular way.
CsFairSpec == /\ CsSpec
              /\ WF_csvars(Boot) /\ WF_csvars(InitWatcher) /\ WF_csvars(StartStep)
              /\ WF_csvars(UpdatesWatcher) /\ WF_csvars(WireStore)
              /\ WF_csvars(RetryStore) /\ WF_csvars(reportStatus)

-----------------------------------------------------------------------------
(***************************************************************************)
(* Properties.                                                             *)
(***************************************************************************)

\* A node that was configured with peers, or that does not bootstrap, never
\* loses raft data: only an extraction for a bootstrap node without peers
\* shrinks the directory.
DataKeptInClusters ==
    [][disk'.log < disk.log \/ ~(disk.servers \subseteq disk'.servers)
          => \E c \in {conf} \cup Range(feed) : c.enabled /\ c.bootstrap /\ c.peers = {}]_csvars

\* Once the updates watcher has drained its channel, every peer of the current
\* section is in raft's configuration, unless the watcher saw its last change
\* of peers as a follower, or could not add them all, or the peers were
\* configured before the watcher existed.
PeersFollowConfig ==
    watcher = "updates" /\ feed = << >> /\ conf.enabled /\ ~passed
        => conf.peers \subseteq disk.servers

\* A node whose section says bootstrap and stays so ends up in a cluster,
\* unless an earlier attempt died between creating raft.db and bootstrapping,
\* after which bootstrapping is off, or Start failed.
BootstrapForms ==
    <>[](agent = "up" /\ conf.enabled /\ conf.bootstrap /\ feed = << >>)
        => []<>(\/ disk.servers # {}
                \/ node = "broken"
                \/ disk.db /\ ~cfg.bootstrap)

\* The role the control plane knows of a node that was configured when its
\* agent started is, in the end, its role.
ReportSettles ==
    <>[](node = "up" /\ ~cfg.late)
        => <>[](reported = IF leads THEN "leader" ELSE "follower")
=============================================================================
