----------------------------- MODULE MCDeploy -----------------------------
(***************************************************************************)
(* What a deployment goes through, for TLC: the order of its resources     *)
(* (every graph on three resources with short lists), its jobs, and the    *)
(* providers of its capabilities: registry, installer and supervisor.      *)
(* The modules share no state, so a behaviour of the whole is one of one   *)
(* of them: component names it, the others keep their initial values.      *)
(***************************************************************************)
EXTENDS DeployGraph, Supervisor

CONSTANTS Payloads, Prefixed, Unmanaged, MaxJobs, MaxOverlap, MaxFaults,
          MaxPublished, MaxForced, MaxSyncFaults,
          Catalogue, CapVersion, Requests, Auto, MaxCalls, MaxBusy, MaxCapFaults

VARIABLES component,
          docker, latest, manifest, running, jobs, inFlight, reports, faults, alone,
          published, disk, current, etag, loaded, syncs, started, forced, syncFaults, overlapped,
          registry, records, files, runtime, ops, boot, calls, capFaults, accidents

Dep == INSTANCE Deployment
Reg == INSTANCE RegistrySync WITH registry <- loaded
Cap == INSTANCE Capability

gvars == <<edges, inDegree, queue, sorted, result>>
dvars == <<docker, latest, manifest, running, jobs, inFlight, reports, faults, alone>>
rvars == <<published, disk, current, etag, loaded, syncs, started, forced, syncFaults, overlapped>>
cvars == <<registry, records, files, runtime, ops, boot, calls, capFaults, accidents>>

(* An application with two versions: the second changes the driver of its   *)
(* network, drops its volume, and drops one of two capabilities.  A second  *)
(* deployment needs the dropped capability, and its slug starts with the    *)
(* first one's.  A volume made by hand carries the name of a declared one.  *)
Net(driver) == [kind |-> "network", setting |-> driver, nets |-> << >>, vols |-> << >>]
Vol == [kind |-> "volume", setting |-> "", nets |-> << >>, vols |-> << >>]
Ctr(image, nets, vols) == [kind |-> "container", setting |-> image, nets |-> nets, vols |-> vols]
AppV1 == [dep |-> "app", caps |-> <<"c1", "c2">>,
          nodes |-> [app_net |-> Net("bridge"), app_vol |-> Vol,
                     app_web |-> Ctr("v1", <<"app_net">>, <<"app_vol">>)]]
AppV2 == [dep |-> "app", caps |-> <<"c1">>,
          nodes |-> [app_net |-> Net("overlay"), app_web |-> Ctr("v1", <<"app_net">>, << >>)]]
Other == [dep |-> "app_x", caps |-> <<"c2">>, nodes |-> [app_x_vol |-> Vol]]
MCPayloads == {AppV1, AppV2, Other}
MCPrefixed == [d \in {"app", "app_x"} |->
  IF d = "app" THEN {"app_net", "app_vol", "app_web", "app_x_vol"} ELSE {"app_x_vol"}]
MCUnmanaged == [app_vol |-> Vol]

(* Two versions of the provider that starts with the agent, whose text order *)
(* is not their version order; an on-demand tool; two containers.           *)
Prov(id, text, sem, tier, cap, kind, od) ==
  [id |-> id, text |-> text, semver |-> sem, tier |-> tier,
   caps |-> [c \in {cap} |-> {1}], kind |-> kind, onDemand |-> od]
MCCatalogue ==
  [mma_0_9 |-> Prov("mma", 2, 1, "official", "net", "binary", FALSE),
   mma_0_10 |-> Prov("mma", 1, 2, "official", "net", "binary", FALSE),
   tool |-> Prov("tool", 1, 1, "certified", "edit", "binary", TRUE),
   db |-> Prov("db", 1, 1, "certified", "store", "oci", FALSE),
   db_local |-> Prov("db_local", 1, 2, "local", "store", "oci", FALSE)]
MCCapVersion == [net |-> 1, edit |-> 1, store |-> 1]
MCRequests == {[cap |-> "store", tier |-> "", range |-> {1}],
               [cap |-> "net", tier |-> "certified+", range |-> {}]}

On(c) == component = c

MCInit ==
  /\ component \in {"graph", "jobs", "supervisor", "registry", "capability"}
  /\ Init /\ Dep!Init /\ SupInit /\ Reg!RegInit /\ Cap!CapInit
  /\ On("graph") \/ edges = [n \in Nodes |-> <<n>>]

MCNext ==
  /\ UNCHANGED component
  /\ \/ On("graph") /\ Next /\ UNCHANGED <<dvars, svars, rvars, cvars>>
     \/ On("jobs") /\ Dep!Next /\ UNCHANGED <<gvars, svars, rvars, cvars>>
     \/ On("supervisor") /\ SupNext /\ UNCHANGED <<gvars, dvars, rvars, cvars>>
     \/ On("registry") /\ Reg!RegNext /\ UNCHANGED <<gvars, dvars, svars, cvars>>
     \/ On("capability") /\ Cap!CapNext /\ UNCHANGED <<gvars, dvars, svars, rvars>>

(* Bound: three jobs in a row with one fault, or two with two.               *)
JobsOrFaults == Len(jobs) + faults <= 4

\* The fairness of each module, for its own behaviours.
Fairness ==
  /\ WF_gvars(On("graph") /\ Next)
  /\ \A j \in 1 .. MaxJobs : WF_dvars(On("jobs") /\ j \in DOMAIN jobs /\ Dep!Step(j))
  /\ \A p \in 1 .. MaxStarts : WF_svars(On("supervisor") /\ p \in Goroutines /\ Supervise(p))
  /\ \A s \in 1 .. MaxStops : WF_svars(On("supervisor") /\ s \in DOMAIN stops /\ StopStep(s))
  /\ WF_svars(On("supervisor") /\ (ShutdownStop \/ ShutdownWait))
  /\ WF_rvars(On("registry") /\ Reg!StartSync) /\ WF_rvars(On("registry") /\ Reg!periodicSync)
  /\ \A c \in Reg!Callers : WF_rvars(On("registry") /\ Reg!SyncStep(c))
  /\ \A o \in Cap!Slots : WF_cvars(On("capability") /\ Cap!OpStep(o))
  /\ WF_cvars(On("capability") /\ Cap!StartUp)
  /\ WF_cvars(On("capability") /\ Cap!RegistryFilled)
  /\ WF_cvars(On("capability") /\ Cap!CallReturns)

MCSpec == MCInit /\ [][MCNext]_<<component, gvars, dvars, svars, rvars, cvars>> /\ Fairness
-----------------------------------------------------------------------------
(* A deployment recorded as applied is applied, whatever failed before, and  *)
(* keeps its providers while others drop them.                               *)
SuccessMeansConverged == Dep!TypeOK /\ Dep!SuccessMeansConverged /\ Dep!SharedProviderSurvives

(* A job removes or replaces only what its deployment labelled or recorded,  *)
(* and ends, whatever fails.                                                 *)
JobsKeepToTheirOwn == Dep!OnlyOwnRemoved /\ Dep!JobsEnd

(* A child that exits is replaced or its goroutine ends, a cancelled one     *)
(* ends with its child, and Shutdown returns.                                *)
SupervisorAnswers == CrashAnswered /\ CancelledEnds /\ ShutdownReturns

(* The ETag sent is that of the snapshot the registry answers from, which is *)
(* on disk and, in the end, the newest.                                      *)
RegistryFollows ==
  /\ [](Reg!RegTypeOK /\ Reg!TagIsTheRegistrys) /\ Reg!ServedIsSaved
  /\ <>[](On("registry") => Reg!CaughtUp)

(* An installed provider is supervised and its record is its state; a call   *)
(* only changes its own provider's record; start-up ends online.             *)
RecordsMatch ==
  /\ [](Cap!CapTypeOK /\ Cap!RecordsMatch /\ Cap!SuccessMeansSupervised) /\ Cap!OthersKept
  /\ <>[](On("capability") => Cap!Converged)
=============================================================================
