----------------------------- MODULE Deployment -----------------------------
(***************************************************************************)
(* The deployment pipeline of one agent: internal/deployment, compiler,    *)
(* compiler/state, runner, recipe, and the drainer of internal/agent.      *)
(*                                                                         *)
(* Every deployment event is handled by a goroutine of its own (a job):    *)
(* capability phase, then compile, observe Docker, load the last applied   *)
(* snapshot, reconcile, plan, run the plan operation by operation, save    *)
(* the snapshot, report.  Jobs of one or several deployments interleave    *)
(* between those steps; nothing serialises them.  The agent may crash at   *)
(* any point: jobs die, Docker, the snapshots and the manifest survive.    *)
(*                                                                         *)
(* A payload is a record                                                   *)
(*   [dep, nodes : name -> config, caps : sequence of capabilities]        *)
(* and a config [kind, setting, nets, vols]: setting is the image or the   *)
(* driver, nets and vols the lists of names a container refers to.  Names  *)
(* carry the slug prefix.  A capability names its provider.                *)
(***************************************************************************)
EXTENDS Integers, FiniteSets, Sequences, SequencesExt

CONSTANTS
  Payloads,      \* the deployment versions the control plane sends
  Prefixed,      \* Prefixed[d]: the names that start with the slug of d
  Unmanaged,     \* Docker resources made by hand: name -> config
  MaxJobs,       \* bound: deployment events
  MaxOverlap,    \* bound: deployment events once jobs have overlapped
  MaxFaults      \* bound: failed calls, failed writes, crashes

VARIABLES
  docker,        \* name -> [by, config, on, up] for what exists in Docker
  latest,        \* latest[d]: the last applied snapshot, or None
  manifest,      \* manifest[d]: providers of d in recipe_providers.json
  running,       \* providers the capability manager has running
  jobs,          \* job number -> its local state, for the jobs received
  inFlight,      \* Drainer.inFlight: jobs started and not completed
  reports,       \* job number -> success, as reported to the control plane
  faults,
  (* history *)
  alone          \* no two jobs have overlapped, and the manifest is intact

vars == <<docker, latest, manifest, running, jobs, inFlight, reports, faults, alone>>

Deployments == {p.dep : p \in Payloads}
None == [nodes |-> << >>, caps |-> << >>]
Live == {j \in DOMAIN jobs : jobs[j].pc \notin {"done", "lost"}}

-----------------------------------------------------------------------------
(* The compiler. *)

\* The networks of the payload, as graph nodes.
CompileNetworks(p) == {n \in DOMAIN p.nodes : p.nodes[n].kind = "network"}

\* The volumes of the payload, as graph nodes.
CompileVolumes(p) == {n \in DOMAIN p.nodes : p.nodes[n].kind = "volume"}

\* The services, as graph nodes, and what each depends on.
CompileServices(p) == {n \in DOMAIN p.nodes : p.nodes[n].kind = "container"}
ServiceDeps(p, n) == ToSet(p.nodes[n].nets) \cup ToSet(p.nodes[n].vols)

\* Compile fails on a dependency that is not declared.
Compiles(p) ==
  \A n \in CompileServices(p) :
    ServiceDeps(p, n) \subseteq CompileNetworks(p) \cup CompileVolumes(p)

\* The creation orders the topological sort may return (see DeployGraph):
\* only services have dependencies, so they follow what is free of them.
CreationOrders(p) ==
  LET free == {n \in DOMAIN p.nodes : ServiceDeps(p, n) = {}}
  IN  {f \o g : f \in SetToSeqs(free), g \in SetToSeqs(DOMAIN p.nodes \ free)}

-----------------------------------------------------------------------------
(* The three-way reconciliation. *)

\* A resource belongs to a deployment by its label or by its name.
belongsToDeployment(n, d) == docker[n].by = d \/ n \in Prefixed[d]

\* What GetDeploymentResources reports: a container's config is read back
\* without its mounts, and its networks include Docker's default one.
Observed(n) ==
  [by |-> docker[n].by,
   config |-> IF docker[n].config.kind = "container"
              THEN [kind |-> "container", setting |-> docker[n].config.setting,
                    nets |-> docker[n].on \cup {"bridge"}, vols |-> {}]
              ELSE [kind |-> docker[n].config.kind, setting |-> docker[n].config.setting,
                    nets |-> {}, vols |-> {}]]

GetDeploymentResources(d) ==
  [n \in {m \in DOMAIN docker : belongsToDeployment(m, d)} |-> Observed(n)]

\* (Mutant) Only the image or driver is compared.
configMatchesSetting(d, config, obs) == obs.by = d /\ obs.config.setting = config.setting

\* Desired and observed configs are compared as normalised JSON; the labels
\* are part of a network's and a volume's config.
configMatches(d, config, obs) ==
  /\ obs.by = d
  /\ obs.config = [kind |-> config.kind, setting |-> config.setting,
                   nets |-> ToSet(config.nets), vols |-> ToSet(config.vols)]

\* The operation for one desired resource.
reconcileResource(p, n, obs, last) ==
  CASE n \notin DOMAIN obs -> "create"
    [] n \in DOMAIN obs /\ n \notin DOMAIN last.nodes ->
         IF obs[n].by # p.dep THEN "adopt" ELSE "update"
    [] OTHER -> IF configMatches(p.dep, p.nodes[n], obs[n]) THEN "noop" ELSE "update"

\* (Mutant) Everything observed and not desired is deleted.
addPruneAll(p, obs, last) == DOMAIN obs \ DOMAIN p.nodes

\* What is observed, not desired, and in the last applied snapshot is deleted
\* (PruneUnknown is false).
addPruneOperations(p, obs, last) ==
  {n \in DOMAIN obs \ DOMAIN p.nodes : n \in DOMAIN last.nodes}

\* The type of every operation of the diff.
Reconcile(p, obs, last) ==
  [n \in DOMAIN p.nodes \cup addPruneOperations(p, obs, last) |->
     IF n \in DOMAIN p.nodes THEN reconcileResource(p, n, obs, last) ELSE "delete"]

-----------------------------------------------------------------------------
(* The planner: deletes, updates, creates and adoptions, the rest.  None of *)
(* the deleted resources is in the graph, so all of them are put in front   *)
(* in the order of a map.                                                   *)
Plans(p, diff) ==
  LET Ops(order, types) == SelectSeq(order, LAMBDA n : diff[n] \in types)
  IN  {del \o Ops(order, {"update"}) \o Ops(order, {"create", "adopt"})
           \o Ops(order, {"noop"}) :
         del \in SetToSeqs({n \in DOMAIN diff : diff[n] = "delete"}),
         order \in CreationOrders(p)}

-----------------------------------------------------------------------------
(* The runner.  An operation is a series of Docker calls; its trail is the  *)
(* series of Docker states after each call, and whether the last call       *)
(* succeeded.  Docker itself is external: it refuses a name that exists     *)
(* (but hands back an existing volume), a network that does not, and to     *)
(* remove a network with running containers on it.                          *)

Put(D, n, r) == [m \in DOMAIN D \cup {n} |-> IF m = n THEN r ELSE D[m]]
Drop(D, n) == [m \in DOMAIN D \ {n} |-> D[m]]
Fresh(p, n) == [by |-> p.dep, config |-> p.nodes[n], on |-> {}, up |-> FALSE]
Endpoints(D, n) == {c \in DOMAIN D : D[c].up /\ n \in D[c].on}
Disconnected(D, n) ==
  [c \in DOMAIN D |-> IF c \in Endpoints(D, n) THEN [D[c] EXCEPT !.on = @ \ {n}] ELSE D[c]]

Done(trail) == [trail |-> trail, ok |-> TRUE]
Refused(trail) == [trail |-> trail, ok |-> FALSE]

executeNetworkOperation(D, p, n, type) ==
  CASE type \in {"create", "adopt"} ->
         IF n \in DOMAIN D THEN Refused(<<D>>) ELSE Done(<<Put(D, n, Fresh(p, n))>>)
    [] type = "delete" ->
         IF n \notin DOMAIN D \/ Endpoints(D, n) # {} THEN Refused(<<D>>)
         ELSE Done(<<Drop(D, n)>>)
    [] type = "update" ->
         LET gone == Drop(Disconnected(D, n), n)
         IN  IF n \notin DOMAIN D THEN Refused(<<D>>)
             ELSE Done(<<Disconnected(D, n), gone, Put(gone, n, Fresh(p, n))>>)
    [] type = "noop" -> Done(<<D>>)

executeVolumeOperation(D, p, n, type) ==
  CASE type \in {"create", "adopt"} ->
         Done(<<IF n \in DOMAIN D THEN D ELSE Put(D, n, Fresh(p, n))>>)
    [] type = "delete" -> Done(<<Drop(D, n)>>)
    [] type = "update" -> Done(<<Drop(D, n), Put(D, n, Fresh(p, n))>>)
    [] type = "noop" -> Done(<<D>>)

\* Create, connect to each network in turn, start.
createContainer(D, p, n) ==
  LET nets == p.nodes[n].nets
      On(k) == [Fresh(p, n) EXCEPT !.on = ToSet(SubSeq(nets, 1, k))]
      connected == {k \in 0..Len(nets) : ToSet(SubSeq(nets, 1, k)) \subseteq DOMAIN D}
      reach == CHOOSE k \in connected : \A l \in connected : l <= k
      trail == [k \in 1..(reach + 1) |-> Put(D, n, On(k - 1))]
  IN  IF n \in DOMAIN D THEN Refused(<<D>>)
      ELSE IF reach < Len(nets) THEN Refused(trail)
      ELSE Done(trail \o <<Put(D, n, [On(reach) EXCEPT !.up = TRUE])>>)

\* Pulling the image changes nothing here; it can fail before the create.
executeContainerOperation(D, p, n, type) ==
  LET stopped == Put(D, n, [D[n] EXCEPT !.up = FALSE])
      again == createContainer(Drop(D, n), p, n)
  IN  CASE type \in {"create", "adopt"} -> createContainer(D, p, n)
        [] type \in {"delete", "update"} /\ n \notin DOMAIN D -> Refused(<<D>>)
        [] type = "delete" /\ n \in DOMAIN D -> Done(<<stopped, Drop(D, n)>>)
        [] type = "update" /\ n \in DOMAIN D ->
             [again EXCEPT !.trail = <<stopped, Drop(D, n)>> \o @]
        [] type = "noop" -> Done(<<D>>)

executeOperation(D, p, op) ==
  CASE op.kind = "network" -> executeNetworkOperation(D, p, op.name, op.type)
    [] op.kind = "volume" -> executeVolumeOperation(D, p, op.name, op.type)
    [] op.kind = "container" -> executeContainerOperation(D, p, op.name, op.type)

-----------------------------------------------------------------------------
(* The recipe reconciler's manifest of providers in use. *)

isProviderUsedByOtherDeployment(d, c) == \E e \in Deployments \ {d} : c \in manifest[e]

\* The manifest with the providers of one deployment replaced.
Listing(m, d, caps) == [m EXCEPT ![d] = ToSet(caps)]

\* An unreadable manifest is taken for an empty one.
FreshManifest == [d \in Deployments |-> {}]

-----------------------------------------------------------------------------
(* The last applied snapshots, and the drainer's set of running jobs. *)

GetLatest(d) == latest[d]
Save(p) == latest' = [latest EXCEPT ![p.dep] = [nodes |-> p.nodes, caps |-> p.caps]]

DrainerStart(j) == inFlight' = inFlight \cup {j}
DrainerComplete(j) == inFlight' = inFlight \ {j}

-----------------------------------------------------------------------------
Init ==
  /\ docker = [n \in DOMAIN Unmanaged |->
                 [by |-> "", config |-> Unmanaged[n], on |-> {}, up |-> FALSE]]
  /\ latest = [d \in Deployments |-> None]
  /\ manifest = FreshManifest
  /\ running = {}
  /\ jobs = << >>
  /\ inFlight = {}
  /\ reports = << >>
  /\ faults = 0
  /\ alone = TRUE

Goto(j, pc) == jobs' = [jobs EXCEPT ![j].pc = pc]
Fail(j) == jobs' = [jobs EXCEPT ![j].pc = "report", ![j].ok = FALSE, ![j].plan = << >>]
Fault == faults < MaxFaults /\ faults' = faults + 1

\* An event with a job id arrives: the drainer counts it, and the capability
\* phase, if there is one, starts from the last applied capabilities.
HandleDeploymentEvent(p) ==
  /\ Len(jobs) < IF alone /\ Live = {} THEN MaxJobs ELSE MaxOverlap
  /\ LET j == Len(jobs) + 1
         removed == SelectSeq(GetLatest(p.dep).caps, LAMBDA c : c \notin ToSet(p.caps))
     IN  /\ jobs' = Append(jobs,
              [pc |-> IF p.caps = << >> THEN "containers" ELSE "ensure",
               p |-> p, todo |-> p.caps, removed |-> removed, mf |-> << >>,
               obs |-> << >>, plan |-> << >>, ok |-> TRUE])
         /\ DrainerStart(j)
  /\ alone' = (alone /\ Live = {})
  /\ UNCHANGED <<docker, latest, manifest, running, reports, faults>>

\* EnsureCapability for the next requirement; a failure is recorded and the
\* others are still ensured.
EnsureCapability(j) ==
  /\ jobs[j].pc = "ensure"
  /\ jobs[j].todo # << >>
  /\ \/ /\ running' = running \cup {Head(jobs[j].todo)}
        /\ jobs' = [jobs EXCEPT ![j].todo = Tail(@)]
        /\ UNCHANGED faults
     \/ /\ Fault
        /\ jobs' = [jobs EXCEPT ![j].todo = Tail(@), ![j].ok = FALSE]
        /\ UNCHANGED running
  /\ UNCHANGED <<docker, latest, manifest, inFlight, reports, alone>>

\* Phase 3 of ReconcileCapabilities: a capability no longer required loses
\* its provider unless the manifest lists it for another deployment.
RemoveCapability(j) ==
  /\ jobs[j].pc = "ensure"
  /\ jobs[j].todo = << >>
  /\ jobs[j].removed # << >>
  /\ jobs' = [jobs EXCEPT ![j].removed = Tail(@)]
  /\ LET c == Head(jobs[j].removed)
     IN  IF isProviderUsedByOtherDeployment(jobs[j].p.dep, c)
         THEN UNCHANGED <<running, faults>>
         ELSE \/ running' = running \ {c} /\ UNCHANGED faults
              \/ Fault /\ UNCHANGED running
  /\ UNCHANGED <<docker, latest, manifest, inFlight, reports, alone>>

\* One failed requirement fails the deployment; else the manifest is loaded.
CapabilityPhaseDone(j) ==
  /\ jobs[j].pc = "ensure"
  /\ jobs[j].todo = << >>
  /\ jobs[j].removed = << >>
  /\ IF jobs[j].ok
     THEN jobs' = [jobs EXCEPT ![j].pc = "manifest", ![j].mf = manifest]
     ELSE Fail(j)
  /\ UNCHANGED <<docker, latest, manifest, running, inFlight, reports, faults, alone>>

\* UpdateManifest writes back what it loaded with the entry of this
\* deployment replaced; a failed write is only logged.
UpdateManifest(j) ==
  /\ jobs[j].pc = "manifest"
  /\ \/ /\ manifest' = Listing(jobs[j].mf, jobs[j].p.dep, jobs[j].p.caps)
        /\ UNCHANGED <<faults, alone>>
     \/ /\ Fault
        /\ alone' = FALSE
        /\ UNCHANGED manifest
  /\ jobs' = [jobs EXCEPT ![j].pc = "containers", ![j].mf = << >>]
  /\ UNCHANGED <<docker, latest, running, inFlight, reports>>

\* No container specs: done, and saved if there were capabilities.
\* Otherwise the payload is compiled.
ContainerPhase(j) ==
  /\ jobs[j].pc = "containers"
  /\ LET p == jobs[j].p
     IN  CASE DOMAIN p.nodes = {} -> Goto(j, IF p.caps # << >> THEN "save" ELSE "report")
           [] DOMAIN p.nodes # {} /\ Compiles(p) -> Goto(j, "observe")
           [] OTHER -> Fail(j)
  /\ UNCHANGED <<docker, latest, manifest, running, inFlight, reports, faults, alone>>

\* Query Docker for the resources of the deployment.
ObserveDocker(j) ==
  /\ jobs[j].pc = "observe"
  /\ \/ /\ jobs' = [jobs EXCEPT ![j].pc = "plan",
                                ![j].obs = GetDeploymentResources(jobs[j].p.dep)]
        /\ UNCHANGED faults
     \/ Fault /\ Fail(j)
  /\ UNCHANGED <<docker, latest, manifest, running, inFlight, reports, alone>>

\* Load the last applied snapshot, reconcile and plan.
GeneratePlan(j) ==
  /\ jobs[j].pc = "plan"
  /\ LET p == jobs[j].p
         last == GetLatest(p.dep)
         diff == Reconcile(p, jobs[j].obs, last)
         Kind(n) == IF n \in DOMAIN p.nodes THEN p.nodes[n].kind ELSE jobs[j].obs[n].config.kind
     IN  \E plan \in Plans(p, diff) :
           jobs' = [jobs EXCEPT ![j].obs = << >>, ![j].pc = IF plan = << >> THEN "report" ELSE "execute",
                      ![j].plan = [i \in DOMAIN plan |->
                         [name |-> plan[i], kind |-> Kind(plan[i]), type |-> diff[plan[i]]]]]
  /\ UNCHANGED <<docker, latest, manifest, running, inFlight, reports, faults, alone>>

\* The next operation of the plan.  It stops half way when a Docker call
\* fails; the first failed operation ends the plan.
Execute(j) ==
  /\ jobs[j].pc = "execute"
  /\ jobs[j].plan # << >>
  /\ LET res == executeOperation(docker, jobs[j].p, Head(jobs[j].plan))
     IN  \/ /\ docker' = Last(res.trail)
            /\ IF res.ok THEN jobs' = [jobs EXCEPT ![j].plan = Tail(@)] ELSE Fail(j)
            /\ UNCHANGED faults
         \/ /\ Fault
            /\ \E k \in 0..(Len(res.trail) - 1) :
                 docker' = IF k = 0 THEN docker ELSE res.trail[k]
            /\ Fail(j)
  /\ UNCHANGED <<latest, manifest, running, inFlight, reports, alone>>

ExecuteDone(j) ==
  /\ jobs[j].pc = "execute"
  /\ jobs[j].plan = << >>
  /\ Goto(j, "save")
  /\ UNCHANGED <<docker, latest, manifest, running, inFlight, reports, faults, alone>>

\* The snapshot replaces the last one; a failed write is only logged.
saveLastAppliedWithCapabilities(j) ==
  /\ jobs[j].pc = "save"
  /\ \/ /\ Save(jobs[j].p)
        /\ UNCHANGED faults
     \/ Fault /\ UNCHANGED latest
  /\ Goto(j, "report")
  /\ UNCHANGED <<docker, manifest, running, inFlight, reports, alone>>

\* The result goes to the control plane, once; a failure is only logged.
ReportResult(j) ==
  /\ jobs[j].pc = "report"
  /\ \/ reports' = [i \in DOMAIN reports \cup {j} |-> IF i = j THEN jobs[j].ok ELSE reports[i]]
        /\ UNCHANGED faults
     \/ Fault /\ UNCHANGED reports
  /\ Goto(j, "done")
  /\ DrainerComplete(j)
  /\ UNCHANGED <<docker, latest, manifest, running, alone>>

-----------------------------------------------------------------------------
(* The environment. *)

\* The agent crashes: its jobs are lost.  A file being written is truncated
\* first, and is unreadable, hence ignored, if the write does not finish.
Crash ==
  /\ Live # {}
  /\ Fault
  /\ jobs' = [j \in DOMAIN jobs |-> IF j \in Live THEN [jobs[j] EXCEPT !.pc = "lost"] ELSE jobs[j]]
  /\ inFlight' = {}
  /\ \/ UNCHANGED <<manifest, latest, alone>>
     \/ /\ \E j \in Live : jobs[j].pc = "manifest"
        /\ manifest' = FreshManifest
        /\ alone' = FALSE
        /\ UNCHANGED latest
     \/ /\ \E j \in Live : jobs[j].pc = "save" /\ latest' = [latest EXCEPT ![jobs[j].p.dep] = None]
        /\ UNCHANGED <<manifest, alone>>
  /\ UNCHANGED <<docker, running, reports>>

\* Someone removes a container or a volume by hand, while no job runs.
RemoveByHand(n) ==
  /\ Live = {}
  /\ Fault
  /\ docker[n].config.kind # "network"
  /\ docker' = Drop(docker, n)
  /\ UNCHANGED <<latest, manifest, running, jobs, inFlight, reports, alone>>

Step(j) ==
  \/ EnsureCapability(j) \/ RemoveCapability(j) \/ CapabilityPhaseDone(j)
  \/ UpdateManifest(j) \/ ContainerPhase(j) \/ ObserveDocker(j) \/ GeneratePlan(j)
  \/ Execute(j) \/ ExecuteDone(j) \/ saveLastAppliedWithCapabilities(j) \/ ReportResult(j)

Next ==
  \/ \E p \in Payloads : HandleDeploymentEvent(p)
  \/ \E j \in DOMAIN jobs : Step(j)
  \/ Crash
  \/ \E n \in DOMAIN docker : RemoveByHand(n)

Spec == Init /\ [][Next]_vars

\* A goroutine that can take a step takes one.
FairSpec == Spec /\ \A j \in 1..MaxJobs : WF_vars(j \in DOMAIN jobs /\ Step(j))

-----------------------------------------------------------------------------
TypeOK ==
  /\ \A n \in DOMAIN docker :
       /\ docker[n].by \in Deployments \cup {""}
       /\ docker[n].up => docker[n].config.kind = "container"
  /\ \A d \in Deployments : DOMAIN latest[d] = {"nodes", "caps"}
  /\ manifest \in [Deployments -> SUBSET UNION {ToSet(p.caps) : p \in Payloads}]
  /\ inFlight = Live
  /\ DOMAIN reports \subseteq DOMAIN jobs
  /\ faults \in 0..MaxFaults

\* The resource is in Docker as the payload asks: a container runs, from the
\* desired image, on exactly the desired networks; a network has the driver.
AsDesired(p, n) ==
  /\ n \in DOMAIN docker
  /\ p.nodes[n].kind = "volume"
       \/ /\ docker[n].by = p.dep
          /\ docker[n].config = p.nodes[n]
          /\ docker[n].on = ToSet(p.nodes[n].nets)
          /\ docker[n].up = (p.nodes[n].kind = "container")

(* A deployment that is about to be recorded as applied is applied: every   *)
(* resource is in Docker as desired, and nothing of the last applied        *)
(* version that the new one drops is left.  This holds after any number of  *)
(* failed attempts, crashes and resources removed by hand, as long as jobs  *)
(* do not overlap.                                                          *)
SuccessMeansConverged ==
  \A j \in DOMAIN jobs :
    jobs[j].pc = "save" /\ alone =>
      LET p == jobs[j].p
      IN  /\ \A n \in DOMAIN p.nodes : AsDesired(p, n)
          /\ DOMAIN p.nodes # {} =>
               \A n \in DOMAIN latest[p.dep].nodes \ DOMAIN p.nodes : n \notin DOMAIN docker

(* A job never removes or replaces what another deployment or a person      *)
(* made, even when the name carries its slug: only what its deployment      *)
(* labelled, or has recorded as applied.                                    *)
OnlyOwnRemoved ==
  [][\A n \in DOMAIN docker :
       Live # {} /\ (IF n \in DOMAIN docker' THEN docker'[n].by # docker[n].by ELSE TRUE) =>
         \E j \in Live : \/ docker[n].by = jobs[j].p.dep
                        \/ n \in DOMAIN latest[jobs[j].p.dep].nodes]_vars

\* The last job of the deployment that touched its capabilities succeeded.
LastApplied(d, j) ==
  /\ jobs[j].p.dep = d /\ jobs[j].p.caps # << >>
  /\ jobs[j].pc = "done" /\ jobs[j].ok
  /\ \A i \in DOMAIN jobs : i > j => jobs[i].p.dep # d

(* Two deployments may share a provider.  One that was applied keeps its    *)
(* providers running while others drop the capability, as long as jobs do   *)
(* not overlap and the manifest was written.                                *)
SharedProviderSurvives ==
  \A d \in Deployments, j \in DOMAIN jobs :
    alone /\ LastApplied(d, j) => ToSet(jobs[j].p.caps) \subseteq running

(* Every job ends, whatever fails: its result is reported, or the agent     *)
(* crashed.                                                                 *)
JobsEnd == \A j \in 1..MaxJobs : []<>(j \notin inFlight)
=============================================================================
