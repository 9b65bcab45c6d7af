---------------------------- MODULE MCLifecycle ----------------------------
(***************************************************************************)
(* The life of one machine for TLC: onboarding, launching and updating the *)
(* agent, and its raft node's start, transport and leader announcement.    *)
(* The modules share no state, so a behaviour of the whole is one of one   *)
(* of them: component names it, and the others keep their initial values.  *)
(***************************************************************************)
EXTENDS Integers, Sequences, FiniteSets

CONSTANTS Terminals, MaxServers, MaxKeys, MaxObEvents,
          Users, MaxAgents, MaxLnEvents,
          MaxEvents,
          Confs, MaxCsEvents, MaxEntries,
          MaxRPCs, MaxChunks,
          Members, MaxLaEvents

VARIABLES component,
          config, keyFile, csrFile, crtFile, cloud, created, cli, keysMade, torn, faults, obEvents,
          agents, pidFile, port, engines, commands, crossing, forced, lnEvents,
          published, sent, configs, running, mem, file, thread, tmp, staged, bin, applies, ufaults,
          overlap, unchecked,
          conf, feed, agent, node, bound, cfg, watcher, known, disk, leads, committed, store,
          reported, passed, csEvents,
          rpcs, consumer, closing, shutdown, server, peers, stopper,
          leader, lastKnown, registered, callbacks, isLeader, onAir, nodeRunning, excused, query, laEvents

Ob == INSTANCE Onboard
Ln == INSTANCE Launch
Up == INSTANCE Updater
Cs == INSTANCE ClusterStart
Tp == INSTANCE Transport
La == INSTANCE LeaderAnnounce

obvars == <<config, keyFile, csrFile, crtFile, cloud, created, cli, keysMade, torn, faults, obEvents>>
lnvars == <<agents, pidFile, port, engines, commands, crossing, forced, lnEvents>>
uvars == <<published, sent, configs, running, mem, file, thread, tmp, staged, bin, applies, ufaults,
           overlap, unchecked>>
csvars == <<conf, feed, agent, node, bound, cfg, watcher, known, disk, leads, committed, store,
            reported, passed, csEvents>>
tpvars == <<rpcs, consumer, closing, shutdown, server, peers, stopper>>
lavars == <<leader, lastKnown, registered, callbacks, isLeader, onAir, nodeRunning, excused, query,
            laEvents>>
vars == <<component, obvars, lnvars, uvars, csvars, tpvars, lavars>>

\* The sections of the configuration that ClusterStart is pushed.
Off == [enabled |-> FALSE, bootstrap |-> FALSE, peers |-> {}]
Solo == [enabled |-> TRUE, bootstrap |-> TRUE, peers |-> {}]
Trio == [enabled |-> TRUE, bootstrap |-> TRUE, peers |-> {"p", "q", "r"}]
Joiner == [enabled |-> TRUE, bootstrap |-> FALSE, peers |-> {"p"}]
Other == [enabled |-> TRUE, bootstrap |-> FALSE, peers |-> {"q"}]
Sections == {Off, Solo, Trio, Joiner, Other}

On(c) == component = c

Init ==
  /\ component \in {"onboard", "launch", "updater", "start", "transport", "announce"}
  /\ Ob!ObInit /\ Ln!LnInit /\ Up!UpdInit /\ Cs!CsInit /\ Tp!TpInit /\ La!LaInit
  /\ On("onboard") \/ cloud = {}
  /\ On("start") \/ conf = Off
  /\ running["agent"] = <<"dev", 1>>

Next ==
  /\ UNCHANGED component
  /\ \/ On("onboard") /\ Ob!ObNext /\ UNCHANGED <<lnvars, uvars, csvars, tpvars, lavars>>
     \/ On("launch") /\ Ln!LnNext /\ UNCHANGED <<obvars, uvars, csvars, tpvars, lavars>>
     \/ On("updater") /\ Up!UpdNext /\ UNCHANGED <<obvars, lnvars, csvars, tpvars, lavars>>
     \/ On("start") /\ Cs!CsNext /\ UNCHANGED <<obvars, lnvars, uvars, tpvars, lavars>>
     \/ On("transport") /\ Tp!TpNext /\ UNCHANGED <<obvars, lnvars, uvars, csvars, lavars>>
     \/ On("announce") /\ La!LaNext /\ UNCHANGED <<obvars, lnvars, uvars, csvars, tpvars>>

\* The fairness of each module, for its own behaviours.
Fairness ==
  /\ \A t \in Terminals : WF_obvars(On("onboard") /\ Ob!PollTimeout(t))
  /\ \A p \in Ln!Procs : /\ WF_lnvars(On("launch") /\ Ln!Start(p))
                         /\ WF_lnvars(On("launch") /\ (Ln!StopSelf(p) \/ Ln!RestartSelf(p)))
                         /\ WF_lnvars(On("launch") /\ Ln!SelfGone(p))
                         /\ WF_lnvars(On("launch") /\ Ln!SelfStopped(p))
                         /\ WF_lnvars(On("launch") /\ Ln!SelfKill(p))
                         /\ WF_lnvars(On("launch") /\ Ln!RemoveStaleAgent(p))
  /\ \A u \in Users : WF_lnvars(On("launch") /\ (Ln!CommandSteps(u) \/ Ln!ForkFails(u)))
  /\ WF_uvars(On("updater") /\ (Up!WatchConfigVersion \/ Up!CheckAndDownload("watch")))
  /\ WF_uvars(On("updater") /\ (Up!periodicSHACheck \/ Up!CheckAndDownload("tick")))
  /\ WF_uvars(On("updater") /\ Up!CliStep)
  /\ WF_uvars(On("updater") /\ Up!AgentStart)
  /\ WF_csvars(On("start") /\ Cs!Boot) /\ WF_csvars(On("start") /\ Cs!InitWatcher)
  /\ WF_csvars(On("start") /\ Cs!StartStep) /\ WF_csvars(On("start") /\ Cs!UpdatesWatcher)
  /\ WF_csvars(On("start") /\ Cs!WireStore) /\ WF_csvars(On("start") /\ Cs!RetryStore)
  /\ WF_csvars(On("start") /\ Cs!reportStatus)
  /\ \A i \in 1 .. MaxRPCs : /\ WF_tpvars(On("transport") /\ i \in Tp!RPCs /\ Tp!Deadline(i))
                             /\ WF_tpvars(On("transport") /\ i \in Tp!RPCs /\ Tp!OfferShutdown(i))
                             /\ WF_tpvars(On("transport") /\ i \in Tp!RPCs /\ Tp!CopyChunk(i))
                             /\ WF_tpvars(On("transport") /\ i \in Tp!RPCs /\ Tp!RaftAnswers(i))
                             /\ WF_tpvars(On("transport") /\ i \in Tp!RPCs /\ Tp!HandlerReturns(i))
  /\ WF_tpvars(On("transport") /\ Tp!CloseStep)
  /\ WF_tpvars(On("transport") /\ Tp!StopStep)
  /\ \A n \in Members : /\ WF_lavars(On("announce") /\ La!monitorLeadershipChanges(n))
                        /\ WF_lavars(On("announce") /\ La!RegisterLeaderChangeCallback(n))
                        /\ WF_lavars(On("announce") /\ \E i \in 1 .. 3 : La!OnLeadershipChange(n, i, TRUE))

Spec == Init /\ [][Next]_vars /\ Fairness
-----------------------------------------------------------------------------
(* Registering, claiming and setting up create one server record per machine  *)
(* but for the faults counted, leave a certificate for the key beside it (or  *)
(* a request that repairs the pair) in the configuration, and logins end.     *)
OneServer == [](Ob!OneServer /\ Ob!PairRepairable /\ Ob!SetupConfigures) /\ Ob!LoginEnds

(* The agent in service is the one that the PID file names and that holds the *)
(* port; one that ends in order has stopped its engines and freed the port;   *)
(* and one told to stop ends.                                                 *)
ServingIsNamed == [](Ln!ServingIsNamed /\ Ln!EnginesStopped /\ Ln!StopFreesPort) /\ Ln!ToldMeansEnds

(* An installed binary is whole at every moment, "Successfully updated" means *)
(* both are the build recorded, ufctl only becomes what the agent already is, *)
(* and the newest build ends up pending or installed.                         *)
InstalledIntact ==
  [](Up!UpdTypeOK /\ Up!InstalledIntact /\ Up!SuccessMeansInstalled) /\ Up!UfctlFollowsAgent /\ Up!NewestStaged

(* A node follows its section: it adds every peer, keeps its raft data, forms *)
(* a cluster when told to bootstrap, and reports its role.                    *)
ClusterFollowsSection ==
  []Cs!PeersFollowConfig /\ Cs!DataKeptInClusters /\ Cs!BootstrapForms /\ Cs!ReportSettles

(* Node.Stop returns with no handler left; a snapshot's pipe ends only after  *)
(* every chunk; and calls that race for a peer's connection dial once.        *)
StopCompletes == [](Tp!EOFMeansComplete /\ Tp!StoppedMeansQuiet /\ Tp!OneConnection) /\ Tp!StopCompletes

(* When leadership settles the leader is on the air and nobody else is, and   *)
(* "cluster discover" names at most one leader.                               *)
AnnouncerIsLeader == []La!OneLeaderListed /\ La!AnnouncerIsLeader
=============================================================================
