----------------------------- MODULE Capability -----------------------------
(***************************************************************************)
(* The capability manager of one agent: internal/capability/manager.go,    *)
(* resolver.go, registry.go, lifecycle.go, binary_lifecycle.go,            *)
(* binary_downloader.go and store/provider_store.go, with the callers that *)
(* drive it: the start-up installs and their retry loop in agent/wiring.go, *)
(* the local API (api.go) and the kernel's ProviderServer.                  *)
(*                                                                         *)
(* Every call runs in a goroutine of its own and none holds a lock across  *)
(* its steps; in particular SaveProvider and DeleteProvider load the whole *)
(* state.json, change one provider and write it back.  The supervisor is   *)
(* seen through its entry's state (module Supervisor), the registry through *)
(* what it holds (module RegistrySync).  The agent may crash at any point:  *)
(* state.json, binaries and containers survive, child processes do not.    *)
(***************************************************************************)
EXTENDS Integers, FiniteSets, Functions

CONSTANTS
  Catalogue,     \* provider -> [id, text, semver, tier, caps, kind, onDemand]
  CapVersion,    \* capability -> the version the registry gives for it
  Requests,      \* EnsureCapability requests: [cap, tier, range]
  Auto,          \* the provider IDs installed at start-up
  MaxCalls,      \* bound: API and kernel calls
  MaxBusy,       \* bound: a call begins only when fewer are in flight
  MaxCapFaults   \* bound: failed downloads, Docker calls, writes; crashes

VARIABLES
  registry,      \* the providers the registry knows
  records,       \* state.json: provider -> [state, rt]
  files,         \* providers whose binary is in the provider directory
  runtime,       \* provider -> supervisor entry's, or container's, state
  ops,           \* slot -> the call in flight in it
  boot,          \* [phase, failed, todo] of the start-up goroutines
  calls, capFaults,
  (* history *)
  accidents      \* <<what, provider>>: what happened that the code does not heal

cvars == <<registry, records, files, runtime, ops, boot, calls, capFaults, accidents>>

Providers == DOMAIN Catalogue
IdOf(p) == Catalogue[p].id
Binary(p) == Catalogue[p].kind = "binary"
Slots == Auto \cup {"retry", "call"}

\* A call: rest are the providers still to do, bad that one of them failed;
\* inst and loaded are its copies of the record and of state.json.
Gone == [state |-> "gone", rt |-> FALSE]
Idle == [kind |-> "none", arg |-> "none", p |-> "none", pc |-> "idle", then |-> "none",
         inst |-> Gone, loaded |-> << >>, rest |-> {}, bad |-> FALSE]
Busy == {o \in Slots : ops[o].pc # "idle"}

CapInit ==
  /\ registry = {}  /\ records = << >>  /\ files = {}
  /\ runtime = [p \in Providers |-> "none"]
  /\ ops = [o \in Slots |-> Idle]
  /\ boot = [phase |-> "down", failed |-> {}, todo |-> {}]
  /\ calls = 0  /\ capFaults = 0  /\ accidents = {}

-----------------------------------------------------------------------------
(* The registry's and the resolver's operators. *)

\* FindProviderByID: the greatest version, compared as text.
FindProviderByID(id) ==
  {p \in registry : /\ IdOf(p) = id
                    /\ \A q \in registry : IdOf(q) = id => Catalogue[q].text <= Catalogue[p].text}

GetCapability(cap) == \E p \in registry : cap \in DOMAIN Catalogue[p].caps
FindProviders(cap) == {p \in registry : cap \in DOMAIN Catalogue[p].caps}

trustTierRank(tier) ==
  CASE tier = "official" -> 5 [] tier = "certified" -> 4 [] tier = "community" -> 3
    [] tier = "experimental" -> 2 [] tier = "local" -> 1 [] OTHER -> 0

matchesTrustTier(p, constraint) ==
  CASE constraint = "official_only" -> Catalogue[p].tier = "official"
    [] constraint = "community+" -> Catalogue[p].tier \in {"official", "certified", "community"}
    [] constraint = "all" -> TRUE
    [] OTHER -> Catalogue[p].tier \in {"official", "certified"}

\* An empty constraint filters nothing.
applyFilters(S, constraint) ==
  {p \in S : constraint = "" \/ matchesTrustTier(p, constraint)}

providerSupportsCapabilityVersion(p, cap, v) == v \in Catalogue[p].caps[cap]

\* selectBest: trust tier first, then the newer semantic version.
Better(p, q) ==
  LET rp == trustTierRank(Catalogue[p].tier)
      rq == trustTierRank(Catalogue[q].tier)
  IN  rp > rq \/ (rp = rq /\ Catalogue[p].semver > Catalogue[q].semver)
selectBest(S) == {p \in S : \A q \in S : ~ Better(q, p)}

\* Resolve: nothing unless the capability is known, its version is in the
\* requested range, and a provider passes the filters and supports it.
Resolve(r) ==
  LET found == IF GetCapability(r.cap) THEN applyFilters(FindProviders(r.cap), r.tier) ELSE {}
      v     == CapVersion[r.cap]
  IN  IF r.range = {} THEN selectBest(found)
      ELSE IF v \notin r.range THEN {}
      ELSE selectBest({p \in found : providerSupportsCapabilityVersion(p, r.cap, v)})

-----------------------------------------------------------------------------
(* Steps shared by the calls. *)

Fault == capFaults < MaxCapFaults /\ capFaults' = capFaults + 1
Set(o, new) == ops' = [ops EXCEPT ![o] = new]
Goto(o, pc) == Set(o, [ops[o] EXCEPT !.pc = pc])
\* Go on at pc; the copies are not used again.
Drop(o, pc) == Set(o, [ops[o] EXCEPT !.pc = pc, !.then = "none", !.inst = Gone, !.loaded = << >>])
\* Save inst as the record of p, then go on at pc.
SaveThen(o, inst, pc) ==
  Set(o, [ops[o] EXCEPT !.pc = "load", !.inst = inst, !.then = pc])

\* ProviderStore.Load.
StoreLoad(o) ==
  /\ ops[o].pc = "load"
  /\ Set(o, [ops[o] EXCEPT !.pc = "write", !.loaded = records])
  /\ UNCHANGED <<registry, records, files, runtime, boot, calls, capFaults, accidents>>

\* The state.json that SaveProvider and DeleteProvider write back.
Without(f, p) == [q \in DOMAIN f \ {p} |-> f[q]]
With(f, p, r) == [q \in DOMAIN f \cup {p} |-> IF q = p THEN r ELSE f[q]]
Written(o) ==
  IF ops[o].inst = Gone THEN Without(ops[o].loaded, ops[o].p)
  ELSE With(ops[o].loaded, ops[o].p, ops[o].inst)
\* Other providers' records that this write takes back.
Clobbered(o) ==
  LET f == ops[o].loaded IN
  {q \in Providers \ {ops[o].p} :
     \/ (q \in DOMAIN f) # (q \in DOMAIN records)
     \/ q \in DOMAIN f /\ q \in DOMAIN records /\ f[q] # records[q]}

\* ProviderStore.Save: temporary file, then rename.
StoreSave(o) ==
  /\ ops[o].pc = "write"
  /\ records' = Written(o)
  /\ accidents' = accidents \cup ({"clobbered"} \X Clobbered(o))
  /\ Drop(o, ops[o].then)
  /\ UNCHANGED <<registry, files, runtime, boot, calls, capFaults>>

\* A failed save is returned to the caller, except the one uninstallOCI
\* ignores.  What could not be recorded has happened all the same.
StoreSaveFails(o) ==
  /\ ops[o].pc = "write"  /\ Fault
  /\ Drop(o, IF ops[o].then = "remove" THEN "remove" ELSE "err")
  /\ accidents' = accidents \cup
       {<<"unrecorded", ops[o].p>>}
  /\ UNCHANGED <<registry, records, files, runtime, boot, calls>>

-----------------------------------------------------------------------------
(* EnsureCapability and InstallProviderByID. *)

Candidates(o) ==
  IF ops[o].kind = "install" THEN FindProviderByID(ops[o].arg) ELSE Resolve(ops[o].arg)

\* An installed instance is reused; InstallProviderByID passes over a failed one.
Reused(o, p) ==
  p \in DOMAIN records /\ (ops[o].kind = "install" => records[p].state # "failed")

NeedsStart(p, state) == state # "running" /\ ~ Catalogue[p].onDemand
AfterInstall(p, state) == IF NeedsStart(p, state) THEN "get" ELSE "ok"

Lookup(o) ==
  /\ ops[o].pc = "lookup"  /\ ops[o].kind \in {"install", "ensure"}
  /\ \/ Candidates(o) = {} /\ Goto(o, "err")
     \/ \E p \in Candidates(o) :
          Set(o, IF Reused(o, p)
                 THEN [ops[o] EXCEPT !.p = p, !.pc = AfterInstall(p, records[p].state)]
                 ELSE [ops[o] EXCEPT !.p = p, !.pc = "load", !.then = "fetch",
                                     !.inst = [state |-> "installing", rt |-> FALSE]])
  /\ UNCHANGED <<registry, records, files, runtime, boot, calls, capFaults, accidents>>

\* BinaryDownloader.Download: staged, checked against the digest, renamed;
\* then moved to the provider directory.
installBinary(o) ==
  LET p == ops[o].p IN
  /\ ops[o].pc = "fetch"  /\ Binary(p)
  /\ files' = files \cup {p}
  /\ SaveThen(o, [state |-> "installed", rt |-> TRUE], AfterInstall(p, "installed"))
  /\ UNCHANGED <<registry, records, runtime, boot, calls, capFaults, accidents>>

\* The image is pulled and the container created.
installOCI(o) ==
  LET p == ops[o].p IN
  /\ ops[o].pc = "fetch"  /\ ~ Binary(p)
  /\ runtime' = [runtime EXCEPT ![p] = "stopped"]
  /\ SaveThen(o, [state |-> "stopped", rt |-> TRUE], AfterInstall(p, "stopped"))
  /\ UNCHANGED <<registry, records, files, boot, calls, capFaults, accidents>>

\* Download, checksum, pull or create fails: the record becomes failed.
InstallFails(o) ==
  /\ ops[o].pc = "fetch"  /\ Fault
  /\ SaveThen(o, [state |-> "failed", rt |-> FALSE], "err")
  /\ UNCHANGED <<registry, records, files, runtime, boot, calls, accidents>>

-----------------------------------------------------------------------------
(* LifecycleManager.Start. *)

Known(p) == p \in DOMAIN records /\ records[p].rt

GetProvider(o) ==
  /\ ops[o].pc = "get"
  /\ Set(o, IF Known(ops[o].p)
            THEN [ops[o] EXCEPT !.pc = "launch", !.inst = records[ops[o].p]]
            ELSE [ops[o] EXCEPT !.pc = "err"])
  /\ UNCHANGED <<registry, records, files, runtime, boot, calls, capFaults, accidents>>

\* The supervisor refuses a running entry; that marks the record failed.
startBinary(o) ==
  LET p == ops[o].p IN
  /\ ops[o].pc = "launch"  /\ Binary(p)
  /\ IF runtime[p] = "running"
     THEN /\ SaveThen(o, [ops[o].inst EXCEPT !.state = "failed"], "err")
          /\ UNCHANGED runtime
     ELSE /\ SaveThen(o, [ops[o].inst EXCEPT !.state = "running"], "ok")
          /\ runtime' = [runtime EXCEPT ![p] = "running"]
  /\ UNCHANGED <<registry, records, files, boot, calls, capFaults, accidents>>

startOCI(o) ==
  LET p == ops[o].p IN
  /\ ops[o].pc = "launch"  /\ ~ Binary(p)
  /\ \/ /\ runtime[p] # "none"
        /\ SaveThen(o, [ops[o].inst EXCEPT !.state = "running"], "ok")
        /\ runtime' = [runtime EXCEPT ![p] = "running"]
        /\ UNCHANGED capFaults
     \/ /\ IF runtime[p] = "none" THEN UNCHANGED capFaults ELSE Fault
        /\ SaveThen(o, [ops[o].inst EXCEPT !.state = "failed"], "err")
        /\ UNCHANGED runtime
  /\ UNCHANGED <<registry, records, files, boot, calls, accidents>>

-----------------------------------------------------------------------------
(* LifecycleManager.Stop, for one or several versions. *)

\* StopProvider stops every version the supervisor lists, whatever its
\* state; UninstallProviderByID removes every recorded version.
Targets(o) ==
  IF ops[o].kind = "stop"
  THEN {p \in Providers : Binary(p) /\ IdOf(p) = ops[o].arg /\ runtime[p] # "none"}
  ELSE {p \in DOMAIN records : IdOf(p) = ops[o].arg}

FindTargets(o) ==
  /\ ops[o].pc = "lookup"  /\ ops[o].kind \in {"stop", "uninstall"}
  /\ Set(o, IF Targets(o) = {} /\ ops[o].kind = "uninstall" THEN [ops[o] EXCEPT !.pc = "err"]
            ELSE [ops[o] EXCEPT !.pc = "next", !.rest = Targets(o)])
  /\ UNCHANGED <<registry, records, files, runtime, boot, calls, capFaults, accidents>>

NextTarget(o) ==
  /\ ops[o].pc = "next"
  /\ IF ops[o].rest = {} THEN Goto(o, IF ops[o].bad THEN "err" ELSE "ok")
     ELSE \E p \in ops[o].rest :
            Set(o, [ops[o] EXCEPT !.p = p, !.rest = @ \ {p}, !.pc = ops[o].kind])
  /\ UNCHANGED <<registry, records, files, runtime, boot, calls, capFaults, accidents>>

\* A version that cannot be stopped does not keep the others from it.
stopBinary(o) ==
  LET p == ops[o].p IN
  /\ ops[o].pc = "stop"
  /\ IF Known(p) /\ runtime[p] # "none"
     THEN /\ runtime' = [runtime EXCEPT ![p] = "stopped"]
          /\ SaveThen(o, [records[p] EXCEPT !.state = "stopped"], "next")
     ELSE /\ Set(o, [ops[o] EXCEPT !.pc = "next", !.bad = TRUE])
          /\ UNCHANGED runtime
  /\ UNCHANGED <<registry, records, files, boot, calls, capFaults, accidents>>

-----------------------------------------------------------------------------
(* LifecycleManager.Uninstall. *)

\* A record without a binary path is taken for a container's.
IsBinary(p) == Binary(p) /\ records[p].rt

uninstallBinaryRunning(o) ==
  LET p == ops[o].p IN
  /\ ops[o].pc = "uninstall"  /\ p \in DOMAIN records  /\ IsBinary(p)
  /\ files' = files \ {p}
  /\ SaveThen(o, Gone, "next")
  /\ UNCHANGED <<registry, records, runtime, boot, calls, capFaults, accidents>>

uninstallBinary(o) ==
  LET p == ops[o].p IN
  /\ ops[o].pc = "uninstall"  /\ p \in DOMAIN records  /\ IsBinary(p)
  /\ runtime' = [runtime EXCEPT ![p] = IF @ = "none" THEN "none" ELSE "stopped"]
  /\ files' = files \ {p}
  /\ SaveThen(o, Gone, "next")
  /\ UNCHANGED <<registry, records, boot, calls, capFaults, accidents>>

\* stopOCI, its error ignored; then the container is removed.
uninstallOCI(o) ==
  LET p == ops[o].p IN
  /\ ops[o].pc = "uninstall"  /\ p \in DOMAIN records  /\ ~ IsBinary(p)
  /\ IF records[p].rt
     THEN /\ runtime' = [runtime EXCEPT ![p] = IF @ = "none" THEN "none" ELSE "stopped"]
          /\ SaveThen(o, [records[p] EXCEPT !.state = "stopped"], "remove")
     ELSE /\ SaveThen(o, Gone, "next")
          /\ UNCHANGED runtime
  /\ UNCHANGED <<registry, records, files, boot, calls, capFaults, accidents>>

RemoveContainer(o) ==
  /\ ops[o].pc = "remove"
  /\ \/ runtime' = [runtime EXCEPT ![ops[o].p] = "none"] /\ UNCHANGED capFaults
     \/ Fault /\ UNCHANGED runtime
  /\ SaveThen(o, Gone, "next")
  /\ UNCHANGED <<registry, records, files, boot, calls, accidents>>

UninstallAbsent(o) ==
  /\ ops[o].pc = "uninstall"  /\ ops[o].p \notin DOMAIN records
  /\ Goto(o, "err")
  /\ UNCHANGED <<registry, records, files, runtime, boot, calls, capFaults, accidents>>

-----------------------------------------------------------------------------
(* The callers. *)

\* Calls on the same provider that overlap.
Touches(op) ==
  IF op.kind = "ensure" THEN {p \in Providers : op.arg.cap \in DOMAIN Catalogue[p].caps}
  ELSE IF op.kind = "start" THEN {op.p}
  ELSE {p \in Providers : IdOf(p) = op.arg}
Crossed(op) ==
  UNION {Touches(ops[o]) \cap Touches(op) : o \in Busy}

Begin(op) ==
  /\ ops["call"].pc = "idle"  /\ calls < MaxCalls  /\ boot.phase # "down"
  /\ Cardinality(Busy) < MaxBusy
  /\ calls' = calls + 1
  /\ Set("call", op)
  /\ accidents' = accidents \cup ({"crossed"} \X Crossed(op))
  /\ UNCHANGED <<registry, records, files, runtime, boot, capFaults>>

HandleEnsureCapability(r) ==
  Begin([Idle EXCEPT !.kind = "ensure", !.arg = r, !.pc = "lookup"])
HandleInstallProvider(id) ==
  Begin([Idle EXCEPT !.kind = "install", !.arg = id, !.pc = "lookup"])
HandleUninstallProvider(id) ==
  Begin([Idle EXCEPT !.kind = "uninstall", !.arg = id, !.pc = "lookup"])
StartProvider(p) ==
  Begin([Idle EXCEPT !.kind = "start", !.p = p, !.pc = "get"])
StopProvider(id) ==
  Begin([Idle EXCEPT !.kind = "stop", !.arg = id, !.pc = "lookup"])

CallReturns ==
  /\ ops["call"].pc \in {"ok", "err"}
  /\ Set("call", Idle)
  /\ UNCHANGED <<registry, records, files, runtime, boot, calls, capFaults, accidents>>

\* Start-up: one goroutine per provider, all at once.
BootInstalls ==
  /\ boot.phase = "down"
  /\ boot' = [phase |-> "installing", failed |-> {}, todo |-> {}]
  /\ ops' = [o \in Slots |-> IF o \in Auto
               THEN [Idle EXCEPT !.kind = "install", !.arg = o, !.pc = "lookup"] ELSE ops[o]]
  /\ UNCHANGED <<registry, records, files, runtime, calls, capFaults, accidents>>

ensureProviderInstalled(o) ==
  /\ o \in Auto  /\ ops[o].pc \in {"ok", "err"}
  /\ boot' = [boot EXCEPT !.failed = IF ops[o].pc = "err" THEN @ \cup {o} ELSE @]
  /\ Set(o, Idle)
  /\ UNCHANGED <<registry, records, files, runtime, calls, capFaults, accidents>>

\* When all have returned: online, or the retry loop.  The other subsystems
\* may be unhealthy.
Verdict(failed) ==
  \/ /\ failed = {}
     /\ boot' = [phase |-> "online", failed |-> {}, todo |-> {}]
     /\ UNCHANGED capFaults
  \/ /\ IF failed = {} THEN Fault ELSE UNCHANGED capFaults
     /\ boot' = [phase |-> "retry", failed |-> failed, todo |-> failed]

ProviderHealthAggregator ==
  /\ boot.phase = "installing"
  /\ \A o \in Auto : ops[o].pc = "idle"
  /\ Verdict(boot.failed)
  /\ UNCHANGED <<registry, records, files, runtime, ops, calls, accidents>>

\* One pass of the retry loop goes through the failed list in turn.
RetryNext ==
  /\ boot.phase = "retry"  /\ ops["retry"].pc = "idle"
  /\ \E id \in boot.todo :
       LET op == [Idle EXCEPT !.kind = "install", !.arg = id, !.pc = "lookup"] IN
       /\ boot' = [boot EXCEPT !.todo = @ \ {id}]
       /\ Set("retry", op)
       /\ accidents' = accidents \cup ({"crossed"} \X Crossed(op))
  /\ UNCHANGED <<registry, records, files, runtime, calls, capFaults>>

Recovered(id) == boot.failed \ {id}

RetryReturns ==
  /\ ops["retry"].pc \in {"ok", "err"}
  /\ boot' = [boot EXCEPT !.failed =
                IF ops["retry"].pc = "ok" THEN Recovered(ops["retry"].arg) ELSE @]
  /\ Set("retry", Idle)
  /\ UNCHANGED <<registry, records, files, runtime, calls, capFaults, accidents>>

RetryPassDone ==
  /\ boot.phase = "retry"  /\ ops["retry"].pc = "idle"  /\ boot.todo = {}
  /\ Verdict(boot.failed)
  /\ UNCHANGED <<registry, records, files, runtime, ops, calls, accidents>>

-----------------------------------------------------------------------------
(* The environment. *)

\* The registry is filled by a sync.
RegistryFilled ==
  /\ boot.phase # "down"  /\ registry # Providers
  /\ registry' = Providers
  /\ UNCHANGED <<records, files, runtime, ops, boot, calls, capFaults, accidents>>

\* A child or container exits; the supervisor restarts a child, or gives up.
ChildExits(p) ==
  /\ runtime[p] = "running"  /\ Fault
  /\ runtime' = [runtime EXCEPT ![p] = IF Binary(p) THEN "restarting" ELSE "stopped"]
  /\ UNCHANGED <<registry, records, files, ops, boot, calls, accidents>>

SupervisorActs(p) ==
  /\ runtime[p] = "restarting"
  /\ \E s \in {"running", "failed"} : runtime' = [runtime EXCEPT ![p] = s]
  /\ UNCHANGED <<registry, records, files, ops, boot, calls, capFaults, accidents>>

CutShort == {p \in DOMAIN records : records[p].state = "installing"}
Interrupted == {ops[o].p : o \in Busy} \cap Providers
Stale == {p \in DOMAIN records : Binary(p) /\ records[p].state = "running"}

AgentCrash ==
  /\ boot.phase # "down"  /\ Fault
  /\ registry' = {}
  /\ runtime' = [p \in Providers |-> IF Binary(p) THEN "none" ELSE runtime[p]]
  /\ ops' = [o \in Slots |-> Idle]
  /\ boot' = [phase |-> "down", failed |-> {}, todo |-> {}]
  /\ accidents' = accidents \cup ({"cut short"} \X CutShort) \cup ({"stale"} \X Stale)
                   \cup ({"interrupted"} \X Interrupted)
  /\ UNCHANGED <<records, files, calls>>

OpStep(o) ==
  \/ StoreLoad(o) \/ StoreSave(o) \/ Lookup(o) \/ installBinary(o) \/ installOCI(o)
  \/ GetProvider(o) \/ startBinary(o) \/ startOCI(o) \/ FindTargets(o) \/ NextTarget(o)
  \/ stopBinary(o) \/ uninstallBinary(o) \/ uninstallOCI(o) \/ RemoveContainer(o)
  \/ UninstallAbsent(o) \/ ensureProviderInstalled(o)

\* The start-up goroutine, which becomes the aggregator's retry loop.
StartUp ==
  \/ BootInstalls \/ ProviderHealthAggregator
  \/ RetryNext \/ RetryReturns \/ RetryPassDone

BootStep == StartUp \/ RegistryFilled \/ CallReturns

CapNext ==
  \/ BootStep \/ AgentCrash
  \/ \E o \in Slots : OpStep(o) \/ StoreSaveFails(o) \/ InstallFails(o)
  \/ \E p \in Providers : ChildExits(p) \/ SupervisorActs(p) \/ StartProvider(p)
  \/ \E r \in Requests : HandleEnsureCapability(r)
  \/ \E p \in Providers :
       \/ HandleInstallProvider(IdOf(p)) \/ HandleUninstallProvider(IdOf(p))
       \/ StopProvider(IdOf(p))

\* Every goroutine runs; the retry ticker ticks; the registry sync succeeds
\* in the end.
CapFairness ==
  /\ \A o \in Slots : WF_cvars(OpStep(o))
  /\ WF_cvars(StartUp) /\ WF_cvars(RegistryFilled) /\ WF_cvars(CallReturns)

CapSpec == CapInit /\ [][CapNext]_cvars
CapFairSpec == CapSpec /\ CapFairness

-----------------------------------------------------------------------------
(* Properties. *)

Had(what, p) == \E w \in what : <<w, p>> \in accidents

\* Records, runtime states and calls have their types.
CapTypeOK ==
  /\ registry \subseteq Providers  /\ DOMAIN records \subseteq Providers  /\ files \subseteq Providers
  /\ \A p \in DOMAIN records :
       records[p].state \in {"installing", "installed", "stopped", "running", "failed"}
  /\ \A p \in Providers : runtime[p] \in {"none", "running", "restarting", "failed", "stopped"}
  /\ boot.phase \in {"down", "installing", "retry", "online"}
  /\ boot.failed \subseteq Auto  /\ boot.todo \subseteq Auto
  /\ DOMAIN ops = Slots

\* When InstallProviderByID or EnsureCapability succeeds for a provider that
\* is not on-demand, its process or container exists, unless its record was
\* left over from an earlier life of the agent, was taken back by another
\* provider's save, or another call on it overlapped.
SuccessMeansSupervised ==
  \A o \in Slots :
    LET p == ops[o].p IN
    ops[o].pc = "ok" /\ ops[o].kind \in {"install", "ensure"} /\ ~ Catalogue[p].onDemand
      => runtime[p] # "none" \/ Had({"stale", "clobbered", "crossed"}, p)

\* With no call in flight on it, a provider recorded as running or stopped
\* is so at the supervisor or in Docker, one that is not recorded does not
\* run, and an installed one has its binary, unless one of the accidents
\* happened to it.
RecordsMatch ==
  \A p \in Providers :
    \/ Had({"stale", "clobbered", "crossed", "unrecorded", "interrupted"}, p)
    \/ \E o \in Busy : p \in Touches(ops[o]) \/ ops[o].p = p
    \/ IF p \notin DOMAIN records THEN runtime[p] \in {"none", "stopped"}
       ELSE /\ records[p].state = "running" => runtime[p] # "none"
            /\ records[p].state = "stopped" => runtime[p] \in {"none", "stopped"}
            /\ Binary(p) /\ records[p].rt => p \in files

\* A call only changes the record of its own provider, unless it overlapped
\* another one: what state.json says of the others is kept.
OthersKept ==
  [][\A p \in Providers :
       (p \in DOMAIN records /\ (p \in DOMAIN records' => records'[p] # records[p]))
         => \/ \E o \in Slots : ops[o].p = p /\ ops[o].pc = "write"
            \/ <<"clobbered", p>> \in accidents']_cvars

\* The start-up installs and their retry loop end with the agent reporting
\* online, unless a provider's record was damaged by an accident that no
\* retry heals: an install cut short by a crash, a state that could not be
\* saved, a record taken back by another save, or crossing calls.
Converged == \/ boot.phase = "online"
             \/ \E p \in Providers : Had({"cut short", "unrecorded", "clobbered", "crossed"}, p)

=============================================================================
