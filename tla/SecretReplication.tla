------------------------- MODULE SecretReplication --------------------------
(***************************************************************************)
(* Replication of one org-scoped secret from the cluster it originates in  *)
(* to other clusters (internal/agent/secret_replication.go), with the two  *)
(* other writers of its record in server_api: the sync reporter            *)
(* (internal/agent/secret_sync_reporter.go) and the commands "ufctl        *)
(* secrets rotate" and "delete" (internal/commands/secrets).               *)
(*                                                                         *)
(* A value of the secret is the number of the local version it is the data *)
(* of.  server_api (external) keeps one record; every writer reads it and  *)
(* later patches it, the list of targets as a whole.  The origin is one    *)
(* agent that leads its cluster.  One channel is one grant; a failed       *)
(* delivery leaves the connection the destination may still be serving.    *)
(***************************************************************************)
EXTENDS Integers, FiniteSets

CONSTANTS Targets,           \* destination clusters with a known server
          MaxAttempts,       \* 5 in the code: deliveries tried on a channel
          MaxPatchAttempts,  \* 3 in the code: status updates tried by the origin
          Channels, Conns,   \* bounds: channels and connections at a time
          MaxCommands,       \* bound: rotations and revocations
          MaxReplicaFaults          \* bound: failed calls, races lost, restarts, and
                             \* guards that expire under a live channel

ASSUME ReplicaAssumption ==
    /\ IsFiniteSet(Channels) /\ MaxAttempts \in Nat \ {0} /\ MaxPatchAttempts \in Nat \ {0}
    /\ MaxCommands \in Nat /\ MaxReplicaFaults \in Nat

VARIABLES local,     \* origin: latest version of the secret
          linked,    \* origin: "yes" while that version's metadata has the server_api_id
          remote,    \* server_api: the secret's record
          dest,      \* destination: the value a Get returns, 0 for none
          guard,     \* origin: inFlightTargets, "set" or "clear"
          loop,      \* origin: the replication loop
          channel,      \* origin: grants, payloads queued and deliveries
          conn,      \* destination: connections served
          reporter,  \* origin: the sync reporter
          command,   \* the rotate command
          commands, replicaFaults,
          early,     \* history: guards that expired under a live channel
          blurred    \* history: targets sent a payload with a newer version
                     \* number than its data, or an older value after a newer one

revars == <<local, linked, remote, dest, guard, loop, channel, conn, reporter, command,
          commands, replicaFaults, early, blurred>>
origin == <<guard, loop, channel>>
writers == <<reporter, command>>
bounds == <<commands, early, replicaFaults>>

Free == [st |-> "free"]
NextFree(slots, s) == slots[s] = Free /\ \A r \in DOMAIN slots : slots[r] = Free => s <= r
IdleLoop == [pc |-> "idle", todo |-> {}]
Idle == [pc |-> "idle"]

\* add: version 1 is stored and registered; server_api lists every target.
ReplicaInit ==
    /\ local = 1 /\ linked = "yes"
    /\ remote = [current |-> 1, state |-> "active",
                 targets |-> [t \in Targets |-> [status |-> "pending", synced |-> 0]]]
    /\ dest = [t \in Targets |-> 0]
    /\ guard = [t \in Targets |-> "clear"]
    /\ loop = IdleLoop
    /\ channel = [c \in Channels |-> Free]
    /\ conn = [i \in Conns |-> Free]
    /\ reporter = Idle /\ command = Idle
    /\ commands = 0 /\ early = [t \in Targets |-> 0] /\ replicaFaults = 0
    /\ blurred = {}

ReplicaFault == replicaFaults < MaxReplicaFaults /\ replicaFaults' = replicaFaults + 1 /\ UNCHANGED <<commands, early>>

-----------------------------------------------------------------------------
(***************************************************************************)
(* The replication loop.                                                   *)
(***************************************************************************)
\* Mutant: a target once delivered is never looked at again.
NeedsOnlyPending(r, t) == r.targets[t].status = "pending"

\* The switch of ReplicatePending over the target's status.  A target that
\* server_api shows "granted" is one more that is always attempted, "pending" here.
Needs(r, t) == \/ r.targets[t].status = "pending"
               \/ r.targets[t].synced < r.current

\* A tick: the loop fetches the record and goes through the targets in it.
\* What it decides about them rests on this one read.
Tick ==
    /\ loop.pc = "idle" /\ linked = "yes" /\ remote.state = "active"
    /\ loop' = [pc |-> "scan", todo |-> {t \in Targets : Needs(remote, t)}]
    /\ loop'.todo # {}
    /\ UNCHANGED <<local, linked, remote, dest, guard, channel, conn, writers, bounds, blurred>>

\* The loop after it is done with t.
Past(t) == IF loop.todo = {t} THEN IdleLoop ELSE [pc |-> "scan", todo |-> loop.todo \ {t}]

SkipInFlight(t) ==
    /\ loop.pc = "scan" /\ t \in loop.todo /\ guard[t] = "set"
    /\ loop' = Past(t)
    /\ UNCHANGED <<local, linked, remote, dest, guard, channel, conn, writers, bounds, blurred>>

\* The guard is set and replicateToTarget reads the local secret.
BeginTarget(t) ==
    /\ loop.pc = "scan" /\ t \in loop.todo /\ guard[t] = "clear"
    /\ guard' = [guard EXCEPT ![t] = "set"]
    /\ loop' = [pc |-> "grant", todo |-> loop.todo, target |-> t, value |-> local]
    /\ UNCHANGED <<local, linked, remote, dest, channel, conn, writers, bounds, blurred>>

\* server_api makes a channel and answers with the version it has now.
Grant(c) ==
    /\ loop.pc = "grant" /\ NextFree(channel, c)
    /\ channel' = [channel EXCEPT ![c] = [st |-> "granted", to |-> loop.target, value |-> loop.value,
                                    version |-> remote.current, tries |-> 0]]
    /\ loop' = [pc |-> "queue", todo |-> loop.todo, target |-> loop.target, channel |-> c]
    /\ blurred' = IF loop.value < remote.current THEN blurred \cup {loop.target} ELSE blurred
    /\ UNCHANGED <<local, linked, remote, dest, guard, conn, writers, bounds>>

\* No grant, no public key of the destination, or no key to wrap with: the
\* guard stays set.
GrantFails ==
    /\ loop.pc = "grant" /\ ReplicaFault
    /\ loop' = Past(loop.target)
    /\ UNCHANGED <<local, linked, remote, dest, guard, channel, conn, writers, blurred>>

\* The payload is put into pendingDeliveries, for a bind event to pick up.
Queue ==
    LET c == loop.channel
    IN  /\ loop.pc = "queue"
        /\ channel' = [channel EXCEPT ![c] = IF @.st = "missed" THEN Free ELSE [@ EXCEPT !.st = "pending"]]
        /\ loop' = Past(loop.target)
        /\ UNCHANGED <<local, linked, remote, dest, guard, conn, writers, bounds, blurred>>

\* The channels whose payload may yet reach t, the one being made included.
Live(t) == {c \in Channels : channel[c] # Free /\ channel[c].to = t
                             /\ channel[c].st \notin {"fetch", "patch", "missed"}}
Begun(t) == loop.pc = "grant" /\ loop.target = t

\* The guard of t is five minutes old.  Grants take ten seconds at most.
Expire(t) ==
    /\ guard[t] = "set"
    /\ ~(loop.pc \in {"grant", "queue"} /\ loop.target = t)
    /\ guard' = [guard EXCEPT ![t] = "clear"]
    /\ IF Live(t) = {}
       THEN UNCHANGED <<replicaFaults, early>>
       ELSE /\ replicaFaults < MaxReplicaFaults /\ replicaFaults' = replicaFaults + 1
            /\ early' = [early EXCEPT ![t] = @ + 1]
    /\ UNCHANGED <<local, linked, remote, dest, loop, channel, conn, writers, commands, blurred>>

-----------------------------------------------------------------------------
(***************************************************************************)
(* Delivery.                                                               *)
(***************************************************************************)
\* HandleLinkBindCompleted: the channel is up.  An event that comes before
\* the payload is queued is the last of its channel.
BindCompleted(c) ==
    /\ \/ channel[c].st = "pending" /\ channel' = [channel EXCEPT ![c].st = "sending"] /\ UNCHANGED bounds
       \/ channel[c].st = "granted" /\ channel' = [channel EXCEPT ![c] = [st |-> "missed", to |-> @.to]] /\ ReplicaFault
    /\ UNCHANGED <<local, linked, remote, dest, guard, loop, conn, writers, blurred>>

\* The channel does not come up, or its result cannot be posted to server_api
\* and the handler returns before it starts the delivery.
BindFails(c) ==
    /\ channel[c].st = "pending" /\ ReplicaFault
    /\ channel' = [channel EXCEPT ![c] = Free]
    /\ UNCHANGED <<local, linked, remote, dest, guard, loop, conn, writers, blurred>>

\* deliverOnce: the payload goes out on a connection of its own.
Send(c, i) ==
    /\ channel[c].st = "sending" /\ NextFree(conn, i)
    /\ conn' = [conn EXCEPT ![i] = [st |-> "sent", to |-> channel[c].to, value |-> channel[c].value,
                                    version |-> channel[c].version]]
    /\ channel' = [channel EXCEPT ![c] = [st |-> "waiting", to |-> @.to, value |-> @.value,
                                    version |-> @.version, tries |-> @.tries + 1, conn |-> i]]
    /\ UNCHANGED <<local, linked, remote, dest, guard, loop, writers, bounds, blurred>>

\* The channel after a failed attempt: tried again, or given up for dead.
Retried(ch) ==
    IF ch.tries < MaxAttempts
    THEN [st |-> "sending", to |-> ch.to, value |-> ch.value, version |-> ch.version, tries |-> ch.tries]
    ELSE Free

\* The connection breaks, perhaps with the acknowledgement on it.
AttemptFails(c) ==
    /\ channel[c].st \in {"waiting", "acked"} /\ ReplicaFault
    /\ channel' = [channel EXCEPT ![c] = Retried(@)]
    /\ UNCHANGED <<local, linked, remote, dest, guard, loop, conn, writers, blurred>>

\* clearInFlight clears the target's guard, whichever channel set it.
AckReceived(c) ==
    /\ channel[c].st = "acked"
    /\ guard' = [guard EXCEPT ![channel[c].to] = "clear"]
    /\ channel' = [channel EXCEPT ![c] = [st |-> "fetch", to |-> @.to, version |-> @.version, tries |-> 0]]
    /\ UNCHANGED <<local, linked, remote, dest, loop, conn, writers, bounds, blurred>>

\* The list of targets with t's entry marked.
Marked(t, status, version) ==
    [remote.targets EXCEPT ![t] = [status |-> status, synced |-> version]]

\* updateReplicationTargetStatus: read, then patch.
UpdateFetch(c) ==
    /\ channel[c].st = "fetch"
    /\ channel' = [channel EXCEPT ![c] = [st |-> "patch", to |-> @.to, version |-> @.version, tries |-> @.tries,
                                    list |-> Marked(@.to, "delivered", @.version)]]
    /\ UNCHANGED <<local, linked, remote, dest, guard, loop, conn, writers, bounds, blurred>>

UpdatePatch(c) ==
    /\ channel[c].st = "patch"
    /\ remote' = [remote EXCEPT !.targets = channel[c].list]
    /\ channel' = [channel EXCEPT ![c] = Free]
    /\ UNCHANGED <<local, linked, dest, guard, loop, conn, writers, bounds, blurred>>

UpdateFails(c) ==
    /\ channel[c].st \in {"fetch", "patch"} /\ ReplicaFault
    /\ channel' = [channel EXCEPT ![c] = IF @.tries + 1 < MaxPatchAttempts
                                   THEN [st |-> "fetch", to |-> @.to, version |-> @.version,
                                         tries |-> @.tries + 1]
                                   ELSE Free]
    /\ UNCHANGED <<local, linked, remote, dest, guard, loop, conn, writers, blurred>>

-----------------------------------------------------------------------------
(***************************************************************************)
(* The destination: handleReplicationConnection.                           *)
(***************************************************************************)
\* The channels waiting for connection i.
WaitingFor(i) == {c \in Channels : channel[c].st = "waiting" /\ channel[c].conn = i}

\* The payload is unwrapped, stored and acknowledged to the sender.
Store(i) ==
    /\ conn[i].st = "sent"
    /\ dest' = [dest EXCEPT ![conn[i].to] = conn[i].value]
    /\ conn' = [conn EXCEPT ![i] = [st |-> "stored", to |-> @.to, version |-> @.version]]
    /\ channel' = [c \in Channels |-> IF c \in WaitingFor(i) THEN [channel[c] EXCEPT !.st = "acked"] ELSE channel[c]]
    /\ blurred' = IF conn[i].value < dest[conn[i].to] THEN blurred \cup {conn[i].to} ELSE blurred
    /\ UNCHANGED <<local, linked, remote, guard, loop, writers, bounds>>

\* It cannot be unwrapped or stored, and the sender is told so.
StoreFails(i) ==
    /\ conn[i].st = "sent" /\ ReplicaFault
    /\ conn' = [conn EXCEPT ![i] = Free]
    /\ channel' = [c \in Channels |-> IF c \in WaitingFor(i) THEN Retried(channel[c]) ELSE channel[c]]
    /\ UNCHANGED <<local, linked, remote, dest, guard, loop, writers, blurred>>

\* Mutant: the target is marked with the version of the record.
AcknowledgeFetchCurrent(i) ==
    /\ conn[i].st = "stored"
    /\ conn' = [conn EXCEPT ![i] = [st |-> "fetched",
                                    list |-> Marked(@.to, "acknowledged", remote.current)]]
    /\ UNCHANGED <<local, linked, remote, dest, origin, writers, bounds, blurred>>

\* Its status in server_api, in a goroutine of its own: read, then patch, once.
AcknowledgeFetch(i) ==
    /\ conn[i].st = "stored"
    /\ conn' = [conn EXCEPT ![i] = [st |-> "fetched",
                                    list |-> Marked(@.to, "acknowledged", @.version)]]
    /\ UNCHANGED <<local, linked, remote, dest, origin, writers, bounds, blurred>>

AcknowledgePatch(i) ==
    /\ conn[i].st = "fetched"
    /\ remote' = [remote EXCEPT !.targets = conn[i].list]
    /\ conn' = [conn EXCEPT ![i] = Free]
    /\ UNCHANGED <<local, linked, dest, origin, writers, bounds, blurred>>

AcknowledgeFails(i) ==
    /\ conn[i].st \in {"stored", "fetched"} /\ ReplicaFault
    /\ conn' = [conn EXCEPT ![i] = Free]
    /\ UNCHANGED <<local, linked, remote, dest, origin, writers, blurred>>

-----------------------------------------------------------------------------
(***************************************************************************)
(* The other writers of the record.                                        *)
(***************************************************************************)
\* syncSecret: the local version differs from the one in the record.
ReportFetch ==
    /\ reporter.pc = "idle" /\ linked = "yes" /\ local # remote.current
    /\ reporter' = [pc |-> "patch", version |-> local]
    /\ UNCHANGED <<local, linked, remote, dest, origin, conn, command, bounds, blurred>>

ReportPatch ==
    /\ reporter.pc = "patch"
    /\ remote' = [remote EXCEPT !.current = reporter.version]
    /\ reporter' = Idle
    /\ UNCHANGED <<local, linked, dest, origin, conn, command, bounds, blurred>>

ReportFails ==
    /\ reporter.pc = "patch" /\ ReplicaFault
    /\ reporter' = Idle
    /\ UNCHANGED <<local, linked, remote, dest, origin, conn, command, blurred>>

Command == commands < MaxCommands /\ commands' = commands + 1 /\ UNCHANGED early

\* rotate stores a new version, with the custom metadata of the old one: none
\* if it could not be fetched.
RotatePut ==
    /\ command.pc = "idle" /\ Command
    /\ local' = local + 1
    /\ \/ UNCHANGED <<linked, replicaFaults>>
       \/ replicaFaults < MaxReplicaFaults /\ replicaFaults' = replicaFaults + 1 /\ linked' = "no"
    /\ command' = [pc |-> "list"]
    /\ UNCHANGED <<remote, dest, origin, conn, reporter, blurred>>

\* The version rotate reads from the agent's answer.  The agent answers
\* {"metadata": {"version": ...}}; rotate looks for "version" one level up and
\* keeps its default.
VersionInAnswer == 1

RotateList ==
    /\ command.pc = "list"
    /\ command' = [pc |-> "patch",
                   list |-> [t \in Targets |-> [remote.targets[t] EXCEPT !.status = "pending"]]]
    /\ UNCHANGED <<local, linked, remote, dest, origin, conn, reporter, bounds, blurred>>

RotatePatch ==
    /\ command.pc = "patch"
    /\ remote' = [current |-> VersionInAnswer, state |-> "active", targets |-> command.list]
    /\ command' = Idle
    /\ UNCHANGED <<local, linked, dest, origin, conn, reporter, bounds, blurred>>

\* The value is rotated on this cluster only, with a warning.
RotateFails ==
    /\ command.pc \in {"list", "patch"} /\ ReplicaFault
    /\ command' = Idle
    /\ UNCHANGED <<local, linked, remote, dest, origin, conn, reporter, blurred>>

\* delete marks the local version, which Get and List do not look at, and
\* then the record.
Revoke ==
    /\ command.pc = "idle" /\ Command /\ UNCHANGED replicaFaults
    /\ remote' = [remote EXCEPT !.state = "revoked"]
    /\ UNCHANGED <<local, linked, dest, origin, conn, writers, blurred>>

\* The origin agent restarts: guards, queued payloads and deliveries are gone.
OriginRestart ==
    /\ ReplicaFault
    /\ guard' = [t \in Targets |-> "clear"]
    /\ loop' = IdleLoop
    /\ channel' = [c \in Channels |-> Free]
    /\ reporter' = Idle
    /\ UNCHANGED <<local, linked, remote, dest, conn, command, blurred>>

-----------------------------------------------------------------------------
Scan(t) == SkipInFlight(t) \/ BeginTarget(t)
LoopStep == Tick \/ Queue \/ (\E t \in Targets : Scan(t)) \/ (\E c \in Channels : Grant(c))
Deliver(c) == BindCompleted(c) \/ (\E i \in Conns : Send(c, i)) \/ AckReceived(c)
              \/ UpdateFetch(c) \/ UpdatePatch(c)
Serve(i) == Store(i) \/ AcknowledgeFetch(i) \/ AcknowledgePatch(i)
Report == ReportFetch \/ ReportPatch
Rotate == RotateList \/ RotatePatch

Failures ==
    \/ GrantFails \/ ReportFails \/ RotateFails \/ OriginRestart
    \/ \E c \in Channels : BindFails(c) \/ AttemptFails(c) \/ UpdateFails(c)
    \/ \E i \in Conns : StoreFails(i) \/ AcknowledgeFails(i)

ReplicaNext ==
    \/ LoopStep
    \/ \E t \in Targets : Expire(t)
    \/ \E c \in Channels : Deliver(c)
    \/ \E i \in Conns : Serve(i)
    \/ Report \/ RotatePut \/ Rotate \/ Revoke
    \/ Failures

ReplicaSpec == ReplicaInit /\ [][ReplicaNext]_revars

\* Tickers tick, goroutines run, calls are answered; a rotation once begun is
\* carried through.
ReplicaFairness ==
    /\ WF_revars(LoopStep)
    /\ \A t \in Targets : WF_revars(Expire(t))
    /\ \A c \in Channels : WF_revars(Deliver(c))
    /\ \A i \in Conns : WF_revars(Serve(i))
    /\ WF_revars(Report) /\ WF_revars(Rotate)

ReplicaFairSpec == ReplicaSpec /\ ReplicaFairness

-----------------------------------------------------------------------------
(***************************************************************************)
(* Properties.                                                             *)
(***************************************************************************)
Versions == 0 .. MaxCommands + 1
TargetList == [Targets -> [status : {"pending", "delivered", "acknowledged"}, synced : Versions]]

\* A channel before its payload goes out, with the payload out, and after the
\* acknowledgement, while the record is updated.
Carrying == [st : {"granted", "pending", "sending"}, to : Targets, value : Versions,
             version : Versions, tries : 0 .. MaxAttempts - 1]
Delivering == [st : {"waiting", "acked"}, to : Targets, value : Versions, version : Versions,
               tries : 1 .. MaxAttempts, conn : Conns]
Fetching == [st : {"fetch"}, to : Targets, version : Versions, tries : 0 .. MaxPatchAttempts - 1]
Patching == [st : {"patch"}, to : Targets, version : Versions, tries : 0 .. MaxPatchAttempts - 1,
             list : TargetList]
MissedBind == [st : {"missed"}, to : Targets]
ChannelStates == {Free} \cup Carrying \cup Delivering \cup Fetching \cup Patching \cup MissedBind

Received == [st : {"sent"}, to : Targets, value : Versions, version : Versions]
Kept == [st : {"stored"}, to : Targets, version : Versions]
Acknowledging == [st : {"fetched"}, list : TargetList]
ConnStates == {Free} \cup Received \cup Kept \cup Acknowledging

LoopStates == [pc : {"idle", "scan"}, todo : SUBSET Targets]
              \cup [pc : {"grant"}, todo : SUBSET Targets, target : Targets, value : Versions]
              \cup [pc : {"queue"}, todo : SUBSET Targets, target : Targets, channel : Channels]

\* The record, the guards, the slots of channels and connections and the writers
\* have their types; versions are as many as there were rotations.
ReplicaTypeOK ==
    /\ commands \in 0 .. MaxCommands /\ replicaFaults \in 0 .. MaxReplicaFaults
    /\ local \in 1 .. commands + 1 /\ linked \in {"yes", "no"}
    /\ remote \in [current : Versions, state : {"active", "revoked"}, targets : TargetList]
    /\ dest \in [Targets -> Versions]
    /\ guard \in [Targets -> {"set", "clear"}]
    /\ loop \in LoopStates
    /\ channel \in [Channels -> ChannelStates] /\ conn \in [Conns -> ConnStates]
    /\ reporter \in {Idle} \cup [pc : {"patch"}, version : Versions]
    /\ command \in [pc : {"idle", "list"}] \cup [pc : {"patch"}, list : TargetList]
    /\ early \in [Targets -> 0 .. replicaFaults] /\ blurred \subseteq Targets

\* The in-flight guard bounds the channels under way to a target: one, and one
\* more for every guard that expired under a channel that was still alive.
ChannelsBounded ==
    \A t \in Targets :
        Cardinality(Live(t)) + (IF Begun(t) THEN 1 ELSE 0)
            <= early[t] + (IF guard[t] = "set" THEN 1 ELSE 0)

Synced(t) == remote.targets[t].status # "pending" /\ remote.targets[t].synced >= remote.current

\* A target the record shows in sync at the secret's latest version has its
\* latest value, unless a grant was answered with a newer version than the
\* value read for it, or an older payload was stored after a newer one.
SyncedHasValue ==
    \A t \in Targets \ blurred :
        remote.current = local /\ Synced(t) => dest[t] = local

\* A target the record shows in sync has the latest value, and the in-flight
\* guard bounds the channels under way to it.
SyncedMeansReceived == ReplicaTypeOK /\ SyncedHasValue /\ ChannelsBounded

\* A destination goes back to an older value only after a guard expired early
\* or a call failed: the guard keeps deliveries to it in order.
NoLateStore ==
    [][\A t \in Targets : dest'[t] < dest[t] => replicaFaults > 0]_revars

\* A rotated value reaches every target in the end: late acknowledgements,
\* lost updates of the record, failed deliveries and restarts are repaired by
\* the next ticks.  Not after a revocation, a rotation that lost the
\* link to the record, or for a target with mixed-up versions.
Replicated == \/ remote.state = "revoked" \/ linked = "no"
              \/ \A t \in Targets \ blurred : dest[t] = local
=============================================================================
