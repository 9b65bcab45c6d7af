----------------------- MODULE ReplicaChannelsProofs -----------------------
(***************************************************************************)
(* Replication of a secret, for any number of targets, channels,           *)
(* connections, rotations and faults: the types, and the number of         *)
(* channels under way to a target, counted against its guard.              *)
(***************************************************************************)
EXTENDS SecretReplication, FiniteSetTheorems, TLAPS

-----------------------------------------------------------------------------
(***************************************************************************)
(* Types.                                                                  *)
(***************************************************************************)
\* What a slot of the origin's deliveries holds, by its state.
LEMMA ChannelKinds ==
    ASSUME NEW x \in ChannelStates
    PROVE  /\ x.st = "free" <=> x = Free
           /\ x.st \in {"granted", "pending", "sending"} <=> x \in Carrying
           /\ x.st \in {"waiting", "acked"} <=> x \in Delivering
           /\ x.st = "fetch" <=> x \in Fetching
           /\ x.st = "patch" <=> x \in Patching
           /\ x.st = "missed" <=> x \in MissedBind
<1> USE DEF Free
<1>1. CASE x = Free
  BY <1>1 DEF Carrying, Delivering, Fetching, Patching, MissedBind
<1>2. CASE x \in Carrying
  BY <1>2 DEF Carrying, Delivering, Fetching, Patching, MissedBind
<1>3. CASE x \in Delivering
  BY <1>3 DEF Carrying, Delivering, Fetching, Patching, MissedBind
<1>4. CASE x \in Fetching
  BY <1>4 DEF Carrying, Delivering, Fetching, Patching, MissedBind
<1>5. CASE x \in Patching
  BY <1>5 DEF Carrying, Delivering, Fetching, Patching, MissedBind
<1>6. CASE x \in MissedBind
  BY <1>6 DEF Carrying, Delivering, Fetching, Patching, MissedBind
<1> QED
  BY <1>1, <1>2, <1>3, <1>4, <1>5, <1>6 DEF ChannelStates

\* What a connection of a destination holds, by its state.
LEMMA ConnKinds ==
    ASSUME NEW x \in ConnStates
    PROVE  /\ x.st = "free" <=> x = Free
           /\ x.st = "sent" <=> x \in Received
           /\ x.st = "stored" <=> x \in Kept
           /\ x.st = "fetched" <=> x \in Acknowledging
<1> USE DEF Free, Received, Kept, Acknowledging
<1>1. CASE x = Free
  BY <1>1
<1>2. CASE x \in Received
  BY <1>2
<1>3. CASE x \in Kept
  BY <1>3
<1>4. CASE x \in Acknowledging
  BY <1>4
<1> QED
  BY <1>1, <1>2, <1>3, <1>4 DEF ConnStates

\* Every patch of the list of targets is a list of targets.
LEMMA MarkedList ==
    ASSUME ReplicaTypeOK, NEW t \in Targets, NEW v \in Versions,
           NEW status \in {"delivered", "acknowledged"}
    PROVE  Marked(t, status, v) \in TargetList
  BY DEF ReplicaTypeOK, Marked, TargetList

\* The loop goes on to another target or is idle.
LEMMA PastLoop ==
    ASSUME ReplicaTypeOK, NEW t
    PROVE  Past(t) \in [pc : {"idle", "scan"}, todo : SUBSET Targets]
<1>1. loop.todo \subseteq Targets
  BY DEF ReplicaTypeOK, LoopStates
<1> QED
  BY <1>1 DEF Past, IdleLoop

\* A channel after a failed attempt: its payload as it was, or nothing.
LEMMA RetriedChannel ==
    ASSUME NEW x \in Delivering
    PROVE  \/ Retried(x) = Free
           \/ /\ Retried(x) \in Carrying /\ Retried(x).st = "sending"
              /\ Retried(x).to = x.to /\ Retried(x).value = x.value /\ Retried(x).version = x.version
  BY ReplicaAssumption DEF Retried, Delivering, Carrying

\* The channel whose payload the loop has yet to queue is there, or its bind
\* event has been and gone.
QueueInv == loop.pc = "queue" => channel[loop.channel].st \in {"granted", "missed"}

\* One more fault.
LEMMA FaultTypes ==
    ReplicaTypeOK /\ ReplicaFault =>
        /\ replicaFaults' \in 0 .. MaxReplicaFaults /\ early' \in [Targets -> 0 .. replicaFaults']
        /\ commands' = commands
<1> SUFFICES ASSUME ReplicaTypeOK, ReplicaFault
             PROVE  /\ replicaFaults' \in 0 .. MaxReplicaFaults
                    /\ early' \in [Targets -> 0 .. replicaFaults']
                    /\ commands' = commands
  OBVIOUS
<1>1. /\ replicaFaults \in 0 .. MaxReplicaFaults /\ replicaFaults < MaxReplicaFaults
      /\ replicaFaults' = replicaFaults + 1 /\ early' = early /\ commands' = commands
      /\ early \in [Targets -> 0 .. replicaFaults]
  BY DEF ReplicaTypeOK, ReplicaFault
<1>2. 0 .. replicaFaults \subseteq 0 .. replicaFaults'
  BY <1>1, ReplicaAssumption
<1>3. early' \in [Targets -> 0 .. replicaFaults']
  BY <1>1, <1>2
<1> QED
  BY <1>1, <1>3, ReplicaAssumption

\* Nothing but version 1 exists.
LEMMA TypeInit == ReplicaInit => ReplicaTypeOK
  BY ReplicaAssumption
     DEF ReplicaInit, ReplicaTypeOK, Versions, TargetList, LoopStates, IdleLoop, Idle, ChannelStates,
         ConnStates

\* The loop keeps the types.
LEMMA LoopTypes ==
    ReplicaTypeOK /\ QueueInv /\ (LoopStep \/ GrantFails \/ \E t \in Targets : Expire(t)) => ReplicaTypeOK'
<1> SUFFICES ASSUME ReplicaTypeOK, QueueInv, LoopStep \/ GrantFails \/ \E t \in Targets : Expire(t)
             PROVE  ReplicaTypeOK'
  OBVIOUS
<1> USE DEF ReplicaTypeOK, bounds, writers, origin
<1>1. CASE Tick
  <2>1. loop' \in LoopStates
    BY <1>1 DEF Tick, LoopStates
  <2> QED
    BY <1>1, <2>1 DEF Tick
<1>2. ASSUME NEW t \in Targets, SkipInFlight(t) PROVE ReplicaTypeOK'
  BY <1>2, PastLoop DEF SkipInFlight, LoopStates
<1>3. ASSUME NEW t \in Targets, BeginTarget(t) PROVE ReplicaTypeOK'
  <2>1. loop' \in LoopStates
    BY <1>3, ReplicaAssumption DEF BeginTarget, LoopStates, Versions
  <2> QED
    BY <1>3, <2>1 DEF BeginTarget
<1>4. ASSUME NEW c \in Channels, Grant(c) PROVE ReplicaTypeOK'
  <2>1. loop.target \in Targets /\ loop.value \in Versions /\ loop.todo \subseteq Targets
    BY <1>4 DEF Grant, LoopStates
  <2>2. loop' \in LoopStates
    BY <1>4, <2>1 DEF Grant, LoopStates
  <2> DEFINE r == [st |-> "granted", to |-> loop.target, value |-> loop.value,
                   version |-> remote.current, tries |-> 0]
  <2>3. r \in ChannelStates
    BY <2>1, ReplicaAssumption DEF ChannelStates, Carrying
  <2>4. channel' = [channel EXCEPT ![c] = r] /\ blurred' \subseteq Targets
    BY <1>4, <2>1 DEF Grant
  <2> HIDE DEF r
  <2> QED
    BY <1>4, <2>2, <2>3, <2>4 DEF Grant
<1>5. CASE GrantFails
  <2>1. ReplicaFault /\ loop' \in LoopStates
    BY <1>5, PastLoop DEF GrantFails, LoopStates
  <2> QED
    BY <1>5, <2>1, FaultTypes DEF GrantFails
<1>6. CASE Queue
  <2>1. loop.channel \in Channels /\ loop' \in LoopStates
    BY <1>6, PastLoop DEF Queue, LoopStates
  <2> DEFINE x == channel[loop.channel]
             r == IF x.st = "missed" THEN Free ELSE [x EXCEPT !.st = "pending"]
  <2>2. x \in Carrying \/ x.st = "missed"
    BY <1>6, <2>1, ChannelKinds DEF Queue, QueueInv
  <2>3. r \in ChannelStates
    BY <2>2 DEF ChannelStates, Carrying
  <2>4. channel' = [channel EXCEPT ![loop.channel] = r]
    BY <1>6 DEF Queue
  <2> HIDE DEF r
  <2> QED
    BY <1>6, <2>1, <2>3, <2>4 DEF Queue
<1>7. ASSUME NEW t \in Targets, Expire(t) PROVE ReplicaTypeOK'
  <2>1. replicaFaults' \in 0 .. MaxReplicaFaults /\ early' \in [Targets -> 0 .. replicaFaults']
    <3>1. CASE Live(t) = {}
      BY <1>7, <3>1 DEF Expire
    <3>2. CASE Live(t) # {}
      <4>1. /\ replicaFaults < MaxReplicaFaults /\ replicaFaults' = replicaFaults + 1
            /\ early' = [early EXCEPT ![t] = @ + 1]
        BY <1>7, <3>2 DEF Expire
      <4>2. 0 .. replicaFaults \subseteq 0 .. replicaFaults' /\ early[t] + 1 \in 0 .. replicaFaults'
        BY <4>1, ReplicaAssumption
      <4> QED
        BY <4>1, <4>2, ReplicaAssumption
    <3> QED
      BY <3>1, <3>2
  <2> QED
    BY <1>7, <2>1, Zenon DEF Expire
<1> QED
  BY <1>1, <1>2, <1>3, <1>4, <1>5, <1>6, <1>7 DEF LoopStep, Scan

\* Deliveries keep the types.
LEMMA DeliveryTypes ==
    ASSUME ReplicaTypeOK, NEW c \in Channels,
           Deliver(c) \/ BindFails(c) \/ AttemptFails(c) \/ UpdateFails(c)
    PROVE  ReplicaTypeOK'
<1> USE DEF ReplicaTypeOK, bounds, writers, origin
<1>0. channel[c] \in ChannelStates
  OBVIOUS
<1>1. ASSUME NEW r \in ChannelStates, channel' = [channel EXCEPT ![c] = r],
             UNCHANGED <<local, linked, remote, dest, guard, loop, conn, writers, blurred>>,
             ReplicaFault \/ UNCHANGED bounds
      PROVE  ReplicaTypeOK'
  BY <1>1, FaultTypes
<1>2. CASE BindCompleted(c)
  <2>1. CASE channel[c].st = "pending"
    <3>1. [channel[c] EXCEPT !.st = "sending"] \in ChannelStates
      BY <1>0, <2>1, ChannelKinds DEF ChannelStates, Carrying
    <3> QED
      BY <1>1, <1>2, <2>1, <3>1 DEF BindCompleted
  <2>2. CASE channel[c].st = "granted"
    <3>1. [st |-> "missed", to |-> channel[c].to] \in ChannelStates
      BY <1>0, <2>2, ChannelKinds DEF ChannelStates, Carrying, MissedBind
    <3> QED
      BY <1>1, <1>2, <2>2, <3>1 DEF BindCompleted
  <2> QED
    BY <1>2, <2>1, <2>2 DEF BindCompleted
<1>3. CASE BindFails(c)
  <2>1. Free \in ChannelStates
    BY DEF ChannelStates
  <2> QED
    BY <1>1, <1>3, <2>1, Zenon DEF BindFails
<1>4. ASSUME NEW i \in Conns, Send(c, i) PROVE ReplicaTypeOK'
  <2>1. channel[c] \in Carrying
    BY <1>0, <1>4, ChannelKinds DEF Send
  <2> DEFINE r == [st |-> "waiting", to |-> channel[c].to, value |-> channel[c].value,
                   version |-> channel[c].version, tries |-> channel[c].tries + 1, conn |-> i]
             k == [st |-> "sent", to |-> channel[c].to, value |-> channel[c].value,
                   version |-> channel[c].version]
  <2>2. r \in ChannelStates
    BY <2>1, ReplicaAssumption DEF ChannelStates, Carrying, Delivering
  <2>3. k \in ConnStates
    BY <2>1 DEF ConnStates, Carrying, Received
  <2>4. /\ channel' = [channel EXCEPT ![c] = r] /\ conn' = [conn EXCEPT ![i] = k]
        /\ UNCHANGED <<local, linked, remote, dest, guard, loop, writers, bounds, blurred>>
    BY <1>4 DEF Send
  <2> HIDE DEF r, k
  <2> QED
    BY <2>2, <2>3, <2>4
<1>5. CASE AttemptFails(c)
  <2>1. Retried(channel[c]) \in ChannelStates
    BY <1>0, <1>5, ChannelKinds, RetriedChannel DEF AttemptFails, ChannelStates
  <2> QED
    BY <1>1, <1>5, <2>1, Zenon DEF AttemptFails
<1>6. CASE AckReceived(c)
  <2>1. channel[c] \in Delivering
    BY <1>0, <1>6, ChannelKinds DEF AckReceived
  <2> DEFINE r == [st |-> "fetch", to |-> channel[c].to, version |-> channel[c].version, tries |-> 0]
  <2>2. r \in ChannelStates /\ channel[c].to \in Targets
    BY <2>1, ReplicaAssumption DEF ChannelStates, Delivering, Fetching
  <2>3. /\ channel' = [channel EXCEPT ![c] = r] /\ guard' = [guard EXCEPT ![channel[c].to] = "clear"]
        /\ UNCHANGED <<local, linked, remote, dest, loop, conn, writers, bounds, blurred>>
    BY <1>6 DEF AckReceived
  <2> HIDE DEF r
  <2> QED
    BY <2>2, <2>3
<1>7. CASE UpdateFetch(c)
  <2>1. channel[c] \in Fetching
    BY <1>0, <1>7, ChannelKinds DEF UpdateFetch
  <2> DEFINE r == [st |-> "patch", to |-> channel[c].to, version |-> channel[c].version,
                   tries |-> channel[c].tries,
                   list |-> Marked(channel[c].to, "delivered", channel[c].version)]
  <2>2. channel[c].to \in Targets /\ channel[c].version \in Versions
    BY <2>1 DEF Fetching
  <2>3. Marked(channel[c].to, "delivered", channel[c].version) \in TargetList
    BY <2>2, MarkedList
  <2>4. r \in ChannelStates
    BY <2>1, <2>3 DEF ChannelStates, Fetching, Patching
  <2>5. channel' = [channel EXCEPT ![c] = r]
    BY <1>7 DEF UpdateFetch
  <2> HIDE DEF r
  <2> QED
    BY <1>1, <1>7, <2>4, <2>5 DEF UpdateFetch
<1>8. CASE UpdatePatch(c)
  <2>1. channel[c].list \in TargetList /\ Free \in ChannelStates
    BY <1>0, <1>8, ChannelKinds DEF UpdatePatch, Patching, ChannelStates
  <2>2. remote' \in [current : Versions, state : {"active", "revoked"}, targets : TargetList]
    BY <1>8, <2>1 DEF UpdatePatch
  <2> QED
    BY <1>8, <2>1, <2>2 DEF UpdatePatch
<1>9. CASE UpdateFails(c)
  <2>1. channel[c] \in Fetching \cup Patching
    BY <1>0, <1>9, ChannelKinds DEF UpdateFails
  <2> DEFINE r == IF channel[c].tries + 1 < MaxPatchAttempts
                  THEN [st |-> "fetch", to |-> channel[c].to, version |-> channel[c].version,
                        tries |-> channel[c].tries + 1]
                  ELSE Free
  <2>2. r \in ChannelStates
    BY <2>1, ReplicaAssumption DEF ChannelStates, Fetching, Patching
  <2>3. channel' = [channel EXCEPT ![c] = r]
    BY <1>9 DEF UpdateFails
  <2> HIDE DEF r
  <2> QED
    BY <1>1, <1>9, <2>2, <2>3, Zenon DEF UpdateFails
<1> QED
  BY <1>2, <1>3, <1>4, <1>5, <1>6, <1>7, <1>8, <1>9, Zenon DEF Deliver

\* The destination keeps the types.
LEMMA ServiceTypes ==
    ASSUME ReplicaTypeOK, NEW i \in Conns, Serve(i) \/ StoreFails(i) \/ AcknowledgeFails(i)
    PROVE  ReplicaTypeOK'
<1> USE DEF ReplicaTypeOK, bounds, writers, origin
<1>0. conn[i] \in ConnStates /\ Free \in ConnStates /\ Free \in ChannelStates
  BY DEF ConnStates, ChannelStates
<1>1. \A c \in WaitingFor(i) : channel[c] \in Delivering
  BY ChannelKinds DEF WaitingFor
<1>2. CASE Store(i)
  <2>1. conn[i] \in Received
    BY <1>0, <1>2, ConnKinds DEF Store
  <2> DEFINE k == [st |-> "stored", to |-> conn[i].to, version |-> conn[i].version]
  <2>2. k \in ConnStates /\ conn[i].to \in Targets /\ conn[i].value \in Versions
    BY <2>1 DEF ConnStates, Received, Kept
  <2>3. conn' = [conn EXCEPT ![i] = k] /\ blurred' \subseteq Targets
    BY <1>2, <2>2 DEF Store
  <2>4. \A c \in WaitingFor(i) : [channel[c] EXCEPT !.st = "acked"] \in ChannelStates
    BY <1>1 DEF ChannelStates, Delivering
  <2>5. channel' \in [Channels -> ChannelStates]
    BY <1>2, <2>4 DEF Store
  <2> HIDE DEF k
  <2> QED
    BY <1>2, <2>2, <2>3, <2>5 DEF Store
<1>3. CASE StoreFails(i)
  <2>1. \A c \in WaitingFor(i) : Retried(channel[c]) \in ChannelStates
    BY <1>1, RetriedChannel DEF ChannelStates
  <2>2. channel' \in [Channels -> ChannelStates]
    BY <1>3, <2>1 DEF StoreFails
  <2> QED
    BY <1>0, <1>3, <2>2, FaultTypes DEF StoreFails
<1>4. CASE AcknowledgeFetch(i)
  <2>1. conn[i].to \in Targets /\ conn[i].version \in Versions
    BY <1>0, <1>4, ConnKinds DEF AcknowledgeFetch, Kept
  <2> DEFINE k == [st |-> "fetched", list |-> Marked(conn[i].to, "acknowledged", conn[i].version)]
  <2>2. k \in ConnStates
    BY <2>1, MarkedList DEF ConnStates, Acknowledging
  <2>3. conn' = [conn EXCEPT ![i] = k]
    BY <1>4 DEF AcknowledgeFetch
  <2> HIDE DEF k
  <2> QED
    BY <1>4, <2>2, <2>3 DEF AcknowledgeFetch
<1>5. CASE AcknowledgePatch(i)
  <2>1. conn[i].list \in TargetList
    BY <1>0, <1>5, ConnKinds DEF AcknowledgePatch, Acknowledging
  <2>2. remote' \in [current : Versions, state : {"active", "revoked"}, targets : TargetList]
    BY <1>5, <2>1 DEF AcknowledgePatch
  <2> QED
    BY <1>0, <1>5, <2>2 DEF AcknowledgePatch
<1>6. CASE AcknowledgeFails(i)
  BY <1>0, <1>6, FaultTypes DEF AcknowledgeFails
<1> QED
  BY <1>2, <1>3, <1>4, <1>5, <1>6 DEF Serve

\* So do the other writers of the record and a restart of the origin.
LEMMA WriterTypes ==
    ReplicaTypeOK /\ (Report \/ ReportFails \/ RotatePut \/ Rotate \/ RotateFails \/ Revoke \/ OriginRestart)
      => ReplicaTypeOK'
<1> SUFFICES ASSUME ReplicaTypeOK,
                    Report \/ ReportFails \/ RotatePut \/ Rotate \/ RotateFails \/ Revoke \/ OriginRestart
             PROVE  ReplicaTypeOK'
  OBVIOUS
<1> USE DEF ReplicaTypeOK, bounds, writers, origin
<1>1. CASE ReportFetch
  <2>1. reporter' \in [pc : {"patch"}, version : Versions]
    BY <1>1, ReplicaAssumption DEF ReportFetch, Versions
  <2> QED
    BY <1>1, <2>1 DEF ReportFetch
<1>2. CASE ReportPatch
  <2>1. reporter.version \in Versions
    BY <1>2 DEF ReportPatch, Idle
  <2>2. remote' \in [current : Versions, state : {"active", "revoked"}, targets : TargetList]
    BY <1>2, <2>1 DEF ReportPatch
  <2> QED
    BY <1>2, <2>2 DEF ReportPatch
<1>3. CASE ReportFails
  BY <1>3, FaultTypes DEF ReportFails
<1>4. CASE RotatePut
  <2>1. /\ commands' \in 0 .. MaxCommands /\ local' \in 1 .. commands' + 1
        /\ command' \in [pc : {"idle", "list"}] /\ linked' \in {"yes", "no"}
    BY <1>4, ReplicaAssumption DEF RotatePut, Command
  <2>2. replicaFaults' \in 0 .. MaxReplicaFaults /\ early' \in [Targets -> 0 .. replicaFaults']
    <3>1. CASE UNCHANGED <<linked, replicaFaults>>
      BY <1>4, <3>1 DEF RotatePut, Command
    <3>2. CASE replicaFaults < MaxReplicaFaults /\ replicaFaults' = replicaFaults + 1
      <4>1. 0 .. replicaFaults \subseteq 0 .. replicaFaults' /\ early' = early
        BY <1>4, <3>2, ReplicaAssumption DEF RotatePut, Command
      <4> QED
        BY <3>2, <4>1, ReplicaAssumption
    <3> QED
      BY <1>4, <3>1, <3>2 DEF RotatePut
  <2> QED
    BY <1>4, <2>1, <2>2, Zenon DEF RotatePut
<1>5. CASE RotateList
  <2>1. [t \in Targets |-> [remote.targets[t] EXCEPT !.status = "pending"]] \in TargetList
    BY DEF TargetList
  <2>2. command' \in [pc : {"patch"}, list : TargetList]
    BY <1>5, <2>1 DEF RotateList
  <2> QED
    BY <1>5, <2>2 DEF RotateList
<1>6. CASE RotatePatch
  <2>1. command.list \in TargetList /\ 1 \in Versions
    BY <1>6, ReplicaAssumption DEF RotatePatch, Versions
  <2>2. remote' \in [current : Versions, state : {"active", "revoked"}, targets : TargetList]
    BY <1>6, <2>1 DEF RotatePatch, VersionInAnswer
  <2>3. Idle \in [pc : {"idle", "list"}]
    BY DEF Idle
  <2> QED
    BY <1>6, <2>2, <2>3 DEF RotatePatch
<1>7. CASE RotateFails
  <2>1. Idle \in [pc : {"idle", "list"}]
    BY DEF Idle
  <2> QED
    BY <1>7, <2>1, FaultTypes DEF RotateFails
<1>8. CASE Revoke
  <2>1. remote' \in [current : Versions, state : {"active", "revoked"}, targets : TargetList]
    BY <1>8 DEF Revoke
  <2> QED
    BY <1>8, <2>1, ReplicaAssumption DEF Revoke, Command
<1>9. CASE OriginRestart
  <2>1. IdleLoop \in LoopStates /\ [c \in Channels |-> Free] \in [Channels -> ChannelStates]
    BY DEF IdleLoop, LoopStates, ChannelStates
  <2> QED
    BY <1>9, <2>1, FaultTypes DEF OriginRestart
<1> QED
  BY <1>1, <1>2, <1>3, <1>4, <1>5, <1>6, <1>7, <1>8, <1>9, Zenon DEF Report, Rotate

\* The types are kept, and so is the payload that the loop is about to queue: a
\* channel that is granted changes only by Queue, or by a bind event that comes
\* too early.
LEMMA TypeStep ==
    ReplicaTypeOK /\ QueueInv /\ [ReplicaNext]_revars => ReplicaTypeOK' /\ QueueInv'
<1> SUFFICES ASSUME ReplicaTypeOK, QueueInv, [ReplicaNext]_revars PROVE ReplicaTypeOK' /\ QueueInv'
  OBVIOUS
<1>1. ReplicaTypeOK'
  <2>1. CASE UNCHANGED revars
    BY <2>1 DEF revars, ReplicaTypeOK
  <2> QED
    BY <2>1, LoopTypes, DeliveryTypes, ServiceTypes, WriterTypes DEF ReplicaNext, Failures
<1>2. QueueInv'
  <2> USE DEF QueueInv
  <2>1. loop.pc = "queue" => loop.channel \in Channels
    BY DEF ReplicaTypeOK, LoopStates
  <2>2. ASSUME NEW c \in Channels, loop' = loop, channel[c].st \notin {"granted", "missed"},
               \A d \in Channels \ {c} : channel'[d] = channel[d]
        PROVE  QueueInv'
    BY <2>1, <2>2
  <2>3. CASE UNCHANGED <<loop, channel>>
    BY <2>3
  <2>4. ASSUME NEW t \in Targets, SkipInFlight(t) PROVE QueueInv'
    BY <2>4, PastLoop DEF SkipInFlight
  <2>5. CASE GrantFails \/ Queue
    BY <2>5, PastLoop DEF GrantFails, Queue
  <2>6. ASSUME NEW c \in Channels, Grant(c) PROVE QueueInv'
    BY <2>6 DEF Grant, ReplicaTypeOK
  <2>7. CASE Tick \/ \E t \in Targets : BeginTarget(t)
    BY <2>7 DEF Tick, BeginTarget
  <2>8. ASSUME NEW c \in Channels, BindCompleted(c) PROVE QueueInv'
    BY <2>1, <2>8 DEF BindCompleted, ReplicaTypeOK
  <2>9. ASSUME NEW c \in Channels,
               \/ BindFails(c) \/ AttemptFails(c) \/ UpdateFails(c)
               \/ (\E i \in Conns : Send(c, i)) \/ AckReceived(c) \/ UpdateFetch(c) \/ UpdatePatch(c)
        PROVE  QueueInv'
    <3>1. /\ loop' = loop /\ channel[c].st \notin {"granted", "missed"}
          /\ \A d \in Channels \ {c} : channel'[d] = channel[d]
      BY <2>9 DEF BindFails, AttemptFails, UpdateFails, Send, AckReceived, UpdateFetch, UpdatePatch,
                  ReplicaTypeOK
    <3> QED
      BY <2>2, <3>1
  <2>10. ASSUME NEW i \in Conns, Store(i) \/ StoreFails(i) PROVE QueueInv'
    BY <2>1, <2>10 DEF Store, StoreFails, WaitingFor, ReplicaTypeOK
  <2>11. CASE OriginRestart
    BY <2>11 DEF OriginRestart, IdleLoop
  <2>12. CASE \/ \E t \in Targets : Expire(t)
              \/ \E i \in Conns : AcknowledgeFetch(i) \/ AcknowledgePatch(i) \/ AcknowledgeFails(i)
    BY <2>3, <2>12 DEF Expire, AcknowledgeFetch, AcknowledgePatch, AcknowledgeFails, origin
  <2>13. CASE Report \/ ReportFails \/ RotatePut \/ Rotate \/ RotateFails \/ Revoke \/ UNCHANGED revars
    BY <2>3, <2>13 DEF Report, ReportFetch, ReportPatch, ReportFails, RotatePut, Rotate, RotateList,
                       RotatePatch, RotateFails, Revoke, origin, revars
  <2> QED
    BY <2>3, <2>4, <2>5, <2>6, <2>7, <2>8, <2>9, <2>10, <2>11, <2>12, <2>13, Zenon
       DEF ReplicaNext, LoopStep, Scan, Deliver, Serve, Failures
<1> QED
  BY <1>1, <1>2

-----------------------------------------------------------------------------
(***************************************************************************)
(* The channels under way to a target.                                     *)
(***************************************************************************)
\* A channel whose payload may yet reach its target.
InFlight(c) == channel[c].st \in {"granted", "pending", "sending", "waiting", "acked"}

\* A step that leaves a payload under way leaves it as it was.
SamePayload(c) == InFlight(c)' => /\ InFlight(c) /\ channel'[c].to = channel[c].to
                                  /\ channel'[c].value = channel[c].value
                                  /\ channel'[c].version = channel[c].version

\* What InFlight says of a channel's record.
LEMMA InFlightKinds ==
    ASSUME ReplicaTypeOK, NEW c \in Channels
    PROVE  /\ channel[c] \in ChannelStates
           /\ InFlight(c) <=> channel[c] \in Carrying \cup Delivering
           /\ InFlight(c) => /\ channel[c].to \in Targets /\ channel[c].value \in Versions
                             /\ channel[c].version \in Versions
<1>1. channel[c] \in ChannelStates
  BY DEF ReplicaTypeOK
<1>2. InFlight(c) <=> channel[c] \in Carrying \cup Delivering
  BY <1>1, ChannelKinds DEF InFlight
<1> QED
  BY <1>1, <1>2 DEF Carrying, Delivering

\* Only a grant makes a payload: deliverOnce and its retries send the one that
\* replicateToTarget put together.
LEMMA PayloadKept ==
    ASSUME ReplicaTypeOK, QueueInv, [ReplicaNext]_revars, NEW c \in Channels
    PROVE  SamePayload(c) \/ Grant(c)
<1> USE DEF SamePayload
<1>0. channel \in [Channels -> ChannelStates]
  BY DEF ReplicaTypeOK
<1>1. channel'[c] = channel[c] => SamePayload(c)
  BY DEF InFlight
<1>2. channel'[c].st \notin {"granted", "pending", "sending", "waiting", "acked"} => SamePayload(c)
  BY DEF InFlight
<1>3. ASSUME NEW d \in Channels, NEW r, channel' = [channel EXCEPT ![d] = r],
             \/ r.st \notin {"granted", "pending", "sending", "waiting", "acked"}
             \/ /\ channel[d].st \in {"granted", "pending", "sending", "waiting", "acked"}
                /\ r.to = channel[d].to /\ r.value = channel[d].value
                /\ r.version = channel[d].version
      PROVE  SamePayload(c)
  BY <1>0, <1>3 DEF InFlight
<1>4. Free.st \notin {"granted", "pending", "sending", "waiting", "acked"}
  BY DEF Free
<1>5. ASSUME NEW d \in Channels, Grant(d) PROVE SamePayload(c) \/ Grant(c)
  <2>1. CASE d # c
    BY <1>0, <1>1, <1>5, <2>1 DEF Grant
  <2> QED
    BY <1>5, <2>1
<1>6. CASE Queue
  <2> DEFINE d == loop.channel
             r == IF channel[d].st = "missed" THEN Free ELSE [channel[d] EXCEPT !.st = "pending"]
  <2>1. d \in Channels /\ channel' = [channel EXCEPT ![d] = r] /\ channel[d].st \in {"granted", "missed"}
    BY <1>6 DEF Queue, QueueInv, ReplicaTypeOK, LoopStates
  <2>2. channel[d].st = "granted" => channel[d] \in Carrying
    BY <1>0, <2>1, ChannelKinds
  <2>3. channel[d].st = "granted" => /\ r.to = channel[d].to /\ r.value = channel[d].value
                                     /\ r.version = channel[d].version
    BY <2>2 DEF Carrying
  <2>4. channel[d].st = "missed" => r = Free
    OBVIOUS
  <2> HIDE DEF r, d
  <2> QED
    BY <1>3, <1>4, <2>1, <2>3, <2>4, Zenon
<1>7. ASSUME NEW d \in Channels, BindCompleted(d) PROVE SamePayload(c)
  <2>1. CASE channel[d].st = "pending"
    <3> DEFINE r == [channel[d] EXCEPT !.st = "sending"]
    <3>1. channel[d] \in Carrying /\ channel' = [channel EXCEPT ![d] = r]
      BY <1>0, <1>7, <2>1, ChannelKinds DEF BindCompleted
    <3>2. r.to = channel[d].to /\ r.value = channel[d].value /\ r.version = channel[d].version
      BY <3>1 DEF Carrying
    <3> HIDE DEF r
    <3> QED
      BY <1>3, <2>1, <3>1, <3>2, Zenon
  <2>2. CASE channel[d].st = "granted"
    <3> DEFINE r == [st |-> "missed", to |-> channel[d].to]
    <3>1. channel' = [channel EXCEPT ![d] = r] /\ r.st = "missed"
      BY <1>7, <2>2 DEF BindCompleted
    <3> HIDE DEF r
    <3> QED
      BY <1>3, <3>1, Zenon
  <2> QED
    BY <1>7, <2>1, <2>2 DEF BindCompleted
<1>8. ASSUME NEW d \in Channels, BindFails(d) \/ UpdatePatch(d) PROVE SamePayload(c)
  BY <1>3, <1>4, <1>8 DEF BindFails, UpdatePatch
<1>9. ASSUME NEW d \in Channels, NEW i \in Conns, Send(d, i) PROVE SamePayload(c)
  <2> DEFINE r == [st |-> "waiting", to |-> channel[d].to, value |-> channel[d].value,
                   version |-> channel[d].version, tries |-> channel[d].tries + 1, conn |-> i]
  <2>1. /\ channel' = [channel EXCEPT ![d] = r] /\ channel[d].st = "sending"
        /\ r.to = channel[d].to /\ r.value = channel[d].value /\ r.version = channel[d].version
    BY <1>9 DEF Send
  <2> HIDE DEF r
  <2> QED
    BY <1>3, <2>1, Zenon
<1>10. ASSUME NEW d \in Channels, AttemptFails(d) PROVE SamePayload(c)
  <2>1. channel[d] \in Delivering /\ channel' = [channel EXCEPT ![d] = Retried(channel[d])]
    BY <1>0, <1>10, ChannelKinds DEF AttemptFails
  <2> QED
    BY <1>3, <1>4, <1>10, <2>1, RetriedChannel, Zenon DEF AttemptFails
<1>11. ASSUME NEW d \in Channels, AckReceived(d) PROVE SamePayload(c)
  <2> DEFINE r == [st |-> "fetch", to |-> channel[d].to, version |-> channel[d].version, tries |-> 0]
  <2>1. channel' = [channel EXCEPT ![d] = r] /\ r.st = "fetch"
    BY <1>11 DEF AckReceived
  <2> HIDE DEF r
  <2> QED
    BY <1>3, <2>1, Zenon
<1>12. ASSUME NEW d \in Channels, UpdateFetch(d) PROVE SamePayload(c)
  <2> DEFINE r == [st |-> "patch", to |-> channel[d].to, version |-> channel[d].version,
                   tries |-> channel[d].tries,
                   list |-> Marked(channel[d].to, "delivered", channel[d].version)]
  <2>1. channel' = [channel EXCEPT ![d] = r] /\ r.st = "patch"
    BY <1>12 DEF UpdateFetch
  <2> HIDE DEF r
  <2> QED
    BY <1>3, <2>1, Zenon
<1>13. ASSUME NEW d \in Channels, UpdateFails(d) PROVE SamePayload(c)
  <2> DEFINE r == IF channel[d].tries + 1 < MaxPatchAttempts
                  THEN [st |-> "fetch", to |-> channel[d].to, version |-> channel[d].version,
                        tries |-> channel[d].tries + 1]
                  ELSE Free
  <2>1. channel' = [channel EXCEPT ![d] = r] /\ r.st \in {"fetch", "free"}
    BY <1>13 DEF UpdateFails, Free
  <2> HIDE DEF r
  <2> QED
    BY <1>3, <2>1, Zenon
<1>14. ASSUME NEW i \in Conns, Store(i) PROVE SamePayload(c)
  <2>1. CASE c \in WaitingFor(i)
    <3>1. channel[c] \in Delivering /\ channel'[c] = [channel[c] EXCEPT !.st = "acked"]
      BY <1>0, <1>14, <2>1, ChannelKinds DEF Store, WaitingFor
    <3>2. /\ channel'[c].to = channel[c].to /\ channel'[c].value = channel[c].value
          /\ channel'[c].version = channel[c].version
      BY <3>1 DEF Delivering
    <3> QED
      BY <2>1, <3>2 DEF InFlight, WaitingFor
  <2>2. CASE c \notin WaitingFor(i)
    BY <1>1, <1>14, <2>2 DEF Store
  <2> QED
    BY <2>1, <2>2
<1>15. ASSUME NEW i \in Conns, StoreFails(i) PROVE SamePayload(c)
  <2>1. CASE c \in WaitingFor(i)
    <3>1. channel[c] \in Delivering /\ channel'[c] = Retried(channel[c])
      BY <1>0, <1>15, <2>1, ChannelKinds DEF StoreFails, WaitingFor
    <3> QED
      BY <1>4, <2>1, <3>1, RetriedChannel DEF InFlight, WaitingFor
  <2>2. CASE c \notin WaitingFor(i)
    BY <1>1, <1>15, <2>2 DEF StoreFails
  <2> QED
    BY <2>1, <2>2
<1>16. CASE OriginRestart
  BY <1>2, <1>4, <1>16 DEF OriginRestart
<1>17. UNCHANGED channel => SamePayload(c)
  BY <1>1
<1>18. CASE \/ Tick \/ (\E t \in Targets : Scan(t) \/ Expire(t)) \/ GrantFails \/ Report \/ ReportFails
            \/ RotatePut \/ Rotate \/ RotateFails \/ Revoke \/ UNCHANGED revars
            \/ \E i \in Conns : AcknowledgeFetch(i) \/ AcknowledgePatch(i) \/ AcknowledgeFails(i)
  BY <1>17, <1>18, Zenon
     DEF Tick, Scan, SkipInFlight, BeginTarget, GrantFails, Expire, Report, ReportFetch, ReportPatch,
         ReportFails, RotatePut, Rotate, RotateList, RotatePatch, RotateFails, Revoke, revars, origin,
         AcknowledgeFetch, AcknowledgePatch, AcknowledgeFails
<1> HIDE DEF SamePayload
<1> QED
  BY <1>5, <1>6, <1>7, <1>8, <1>9, <1>10, <1>11, <1>12, <1>13, <1>14, <1>15, <1>16, <1>18, Zenon
     DEF ReplicaNext, LoopStep, Deliver, Serve, Failures

\* Sets of channels, counted.
LEMMA CountChannels ==
    ASSUME NEW A \in SUBSET Channels, NEW B \in SUBSET Channels, NEW x \in Channels
    PROVE  /\ Cardinality(A) \in Nat /\ Cardinality(B) \in Nat
           /\ A \subseteq B => Cardinality(A) <= Cardinality(B)
           /\ A \subseteq B \cup {x} => Cardinality(A) <= Cardinality(B) + 1
           /\ x \in B /\ A \subseteq B \ {x} => Cardinality(A) + 1 <= Cardinality(B)
           /\ A = {} => Cardinality(A) = 0
<1>1. IsFiniteSet(A) /\ IsFiniteSet(B) /\ IsFiniteSet(B \cup {x}) /\ IsFiniteSet(B \ {x})
  BY ReplicaAssumption, FS_Subset
<1>2. Cardinality(A) \in Nat /\ Cardinality(B) \in Nat
  BY <1>1, FS_CardinalityType
<1>3. A \subseteq B => Cardinality(A) <= Cardinality(B)
  BY <1>1, FS_Subset
<1>4. A \subseteq B \cup {x} => Cardinality(A) <= Cardinality(B) + 1
  <2>1. Cardinality(B \cup {x}) <= Cardinality(B) + 1 /\ Cardinality(B \cup {x}) \in Nat
    BY <1>1, <1>2, FS_AddElement, FS_CardinalityType
  <2>2. A \subseteq B \cup {x} => Cardinality(A) <= Cardinality(B \cup {x})
    BY <1>1, FS_Subset
  <2> QED
    BY <1>2, <2>1, <2>2
<1>5. x \in B /\ A \subseteq B \ {x} => Cardinality(A) + 1 <= Cardinality(B)
  <2>1. x \in B => Cardinality(B \ {x}) = Cardinality(B) - 1
    BY <1>1, FS_RemoveElement
  <2>2. A \subseteq B \ {x} => Cardinality(A) <= Cardinality(B \ {x})
    BY <1>1, FS_Subset
  <2> QED
    BY <1>2, <2>1, <2>2
<1> QED
  BY <1>2, <1>3, <1>4, <1>5, FS_EmptySet

\* The channels and the grant under way to t, and what the guard allows.
Under(t) == Cardinality(Live(t)) + (IF Begun(t) THEN 1 ELSE 0)
Allowed(t) == early[t] + (IF guard[t] = "set" THEN 1 ELSE 0)

LiveMeansInFlight ==
    \A t \in Targets : Live(t) = {c \in Channels : InFlight(c) /\ channel[c].to = t}

\* Live channels are those in flight.
LEMMA LiveInFlight == ReplicaTypeOK => LiveMeansInFlight
<1> SUFFICES ASSUME ReplicaTypeOK PROVE LiveMeansInFlight
  OBVIOUS
<1>1. \A c \in Channels : channel[c] \in ChannelStates
  BY DEF ReplicaTypeOK
<1>2. \A c \in Channels : channel[c] # Free /\ channel[c].st \notin {"fetch", "patch", "missed"}
                          <=> InFlight(c)
  <2> TAKE c \in Channels
  <2>1. /\ channel[c].st = "free" <=> channel[c] = Free
        /\ channel[c].st \in {"free", "granted", "pending", "sending", "waiting", "acked", "fetch",
                              "patch", "missed"}
    BY <1>1, ChannelKinds DEF ChannelStates, Carrying, Delivering, Fetching, Patching, MissedBind
  <2> QED
    BY <2>1 DEF InFlight
<1> QED
  BY <1>2 DEF Live, LiveMeansInFlight

\* Nothing is under way at the start.
LEMMA BoundInit == ReplicaInit => ChannelsBounded
<1> SUFFICES ASSUME ReplicaInit PROVE ChannelsBounded
  OBVIOUS
<1>1. \A c \in Channels : channel[c] = Free
  BY DEF ReplicaInit
<1>2. \A t \in Targets : ~Begun(t) /\ early[t] = 0
  BY DEF ReplicaInit, Begun, IdleLoop
<1>3. \A t \in Targets : Live(t) = {}
  BY <1>1 DEF Live
<1> QED
  BY <1>2, <1>3, FS_EmptySet DEF ChannelsBounded

\* The guard keeps its promise: it is set when a grant is begun, and cleared
\* when a payload is acknowledged or the guard is too old.
LEMMA BoundStep ==
    ReplicaTypeOK /\ QueueInv /\ ChannelsBounded /\ [ReplicaNext]_revars => ChannelsBounded'
<1> SUFFICES ASSUME ReplicaTypeOK, QueueInv, ChannelsBounded, [ReplicaNext]_revars, NEW t \in Targets
             PROVE  Under(t)' <= Allowed(t)'
  BY DEF ChannelsBounded, Under, Allowed
<1>1. ReplicaTypeOK'
  BY TypeStep
<1> DEFINE n == Cardinality(Live(t))
           m == Cardinality(Live(t)')
<1>2. /\ Live(t) = {c \in Channels : InFlight(c) /\ channel[c].to = t}
      /\ Live(t)' = {c \in Channels : InFlight(c)' /\ channel'[c].to = t}
  <2>1. LiveMeansInFlight /\ LiveMeansInFlight'
    BY <1>1, LiveInFlight, PTL
  <2> QED
    BY <2>1 DEF LiveMeansInFlight
<1>3. /\ Live(t) \subseteq Channels /\ Live(t)' \subseteq Channels
      /\ early[t] \in Nat /\ early'[t] \in Nat
  BY <1>1, <1>2, ReplicaAssumption DEF ReplicaTypeOK
<1>4. n \in Nat /\ m \in Nat
  BY <1>3, ReplicaAssumption, FS_Subset, FS_CardinalityType
<1>5. n + (IF Begun(t) THEN 1 ELSE 0) <= early[t] + (IF guard[t] = "set" THEN 1 ELSE 0)
  BY DEF ChannelsBounded
<1>6. SUFFICES m + (IF Begun(t)' THEN 1 ELSE 0) <= early'[t] + (IF guard'[t] = "set" THEN 1 ELSE 0)
  BY DEF Under, Allowed
<1>7. ASSUME NEW c \in Channels, Grant(c)
      PROVE  m + (IF Begun(t)' THEN 1 ELSE 0) <= early'[t] + (IF guard'[t] = "set" THEN 1 ELSE 0)
  <2>1. /\ \A d \in Channels \ {c} : channel'[d] = channel[d]
        /\ channel'[c].to = loop.target /\ ~Begun(t)' /\ guard' = guard /\ early' = early
        /\ loop.target = t <=> Begun(t)
    <3>1. /\ \A d \in Channels \ {c} : channel'[d] = channel[d]
          /\ channel'[c].to = loop.target
      BY <1>7 DEF Grant, ReplicaTypeOK
    <3>2. guard' = guard /\ early' = early /\ loop.pc = "grant" /\ loop'.pc = "queue"
      BY <1>7 DEF Grant, bounds
    <3> QED
      BY <3>1, <3>2 DEF Begun
  <2>2. CASE Begun(t)
    <3>1. Live(t)' \subseteq Live(t) \cup {c}
      BY <1>2, <2>1 DEF InFlight
    <3>2. m <= n + 1
      BY <1>3, <3>1, CountChannels
    <3> HIDE DEF n, m
    <3> QED
      BY <1>3, <1>4, <1>5, <2>1, <2>2, <3>2
  <2>3. CASE ~Begun(t)
    <3>1. Live(t)' \subseteq Live(t)
      BY <1>2, <2>1, <2>3 DEF InFlight
    <3>2. m <= n
      BY <1>3, <3>1, CountChannels
    <3> HIDE DEF n, m
    <3> QED
      BY <1>3, <1>4, <1>5, <2>1, <2>3, <3>2
  <2> QED
    BY <2>2, <2>3
<1>8. CASE \A c \in Channels : ~Grant(c)
  <2>1. Live(t)' \subseteq Live(t)
    BY <1>2, <1>8, PayloadKept DEF SamePayload
  <2>2. m <= n
    <3>1. CASE Channels = {}
      BY <1>3, <3>1, FS_EmptySet
    <3> QED
      BY <1>3, <2>1, <3>1, CountChannels
  <2>3. ASSUME Begun(t)' => Begun(t), guard'[t] = guard[t], early'[t] = early[t]
        PROVE  m + (IF Begun(t)' THEN 1 ELSE 0) <= early'[t] + (IF guard'[t] = "set" THEN 1 ELSE 0)
    <3> HIDE DEF n, m
    <3> QED
      BY <1>3, <1>4, <1>5, <2>2, <2>3
  <2>4. ASSUME NEW u \in Targets, BeginTarget(u)
        PROVE  m + (IF Begun(t)' THEN 1 ELSE 0) <= early'[t] + (IF guard'[t] = "set" THEN 1 ELSE 0)
    <3>1. CASE u # t
      <4>1. ~Begun(t)' /\ guard'[t] = guard[t] /\ early' = early
        BY <2>4, <3>1 DEF BeginTarget, Begun, bounds, ReplicaTypeOK
      <4> QED
        BY <2>3, <4>1
    <3>2. CASE u = t
      <4>1. ~Begun(t) /\ guard[t] # "set" /\ guard'[t] = "set" /\ early' = early
        BY <2>4, <3>2 DEF BeginTarget, Begun, bounds, ReplicaTypeOK
      <4> HIDE DEF n, m
      <4> QED
        BY <1>3, <1>4, <1>5, <2>2, <4>1
    <3> QED
      BY <3>1, <3>2
  <2>5. ASSUME NEW u \in Targets, Expire(u)
        PROVE  m + (IF Begun(t)' THEN 1 ELSE 0) <= early'[t] + (IF guard'[t] = "set" THEN 1 ELSE 0)
    <3>1. CASE u # t
      <4>1. loop' = loop /\ guard'[t] = guard[t] /\ early'[t] = early[t]
        BY <2>5, <3>1 DEF Expire, ReplicaTypeOK
      <4> QED
        BY <2>3, <4>1 DEF Begun
    <3>2. CASE u = t
      <4>1. ~Begun(t) /\ ~Begun(t)' /\ guard'[t] # "set" /\ guard[t] = "set"
        BY <2>5, <3>2 DEF Expire, Begun, ReplicaTypeOK
      <4>2. Live(t) = {} => n = 0
        BY FS_EmptySet
      <4>3. Live(t) # {} => early'[t] = early[t] + 1
        BY <2>5, <3>2 DEF Expire, ReplicaTypeOK
      <4> HIDE DEF n, m
      <4> QED
        BY <1>3, <1>4, <1>5, <2>2, <4>1, <4>2, <4>3
    <3> QED
      BY <3>1, <3>2
  <2>6. ASSUME NEW c \in Channels, AckReceived(c)
        PROVE  m + (IF Begun(t)' THEN 1 ELSE 0) <= early'[t] + (IF guard'[t] = "set" THEN 1 ELSE 0)
    <3>0. InFlight(c) /\ ~InFlight(c)' /\ loop' = loop /\ early' = early
      BY <2>6 DEF AckReceived, InFlight, bounds, ReplicaTypeOK
    <3>1. CASE channel[c].to # t
      <4>1. guard'[t] = guard[t]
        BY <2>6, <3>1 DEF AckReceived, ReplicaTypeOK
      <4> QED
        BY <2>3, <3>0, <4>1 DEF Begun
    <3>2. CASE channel[c].to = t
      <4>1. c \in Live(t) /\ Live(t)' \subseteq Live(t) \ {c}
        BY <1>2, <2>1, <3>0, <3>2
      <4>2. m + 1 <= n /\ (Begun(t)' <=> Begun(t))
        BY <1>3, <3>0, <4>1, CountChannels DEF Begun
      <4>3. early'[t] = early[t]
        BY <3>0
      <4> HIDE DEF n, m
      <4> QED
        BY <1>3, <1>4, <1>5, <4>2, <4>3
    <3> QED
      BY <3>1, <3>2
  <2>7. CASE OriginRestart
    <3>0. \A c \in Channels : ~InFlight(c)'
      BY <2>7 DEF OriginRestart, InFlight, Free
    <3>a. loop'.pc = "idle"
      BY <2>7 DEF OriginRestart, IdleLoop
    <3>1. Live(t)' = {} /\ ~Begun(t)'
      BY <1>2, <3>0, <3>a DEF Begun
    <3>2. m = 0
      BY <3>1, FS_EmptySet
    <3> HIDE DEF m
    <3> QED
      BY <1>3, <3>1, <3>2
  <2>8. CASE Tick \/ Queue \/ GrantFails \/ \E u \in Targets : SkipInFlight(u)
    <3>1. ~Begun(t)' /\ guard' = guard /\ early' = early
      BY <2>8, PastLoop DEF Tick, Queue, GrantFails, SkipInFlight, Begun, bounds, ReplicaFault
    <3> QED
      BY <2>3, <3>1
  <2>9. CASE UNCHANGED <<loop, guard, early>>
    BY <2>3, <2>9 DEF Begun
  <2>10. ASSUME NEW c \in Channels,
                \/ BindCompleted(c) \/ (\E i \in Conns : Send(c, i)) \/ UpdateFetch(c) \/ UpdatePatch(c)
                \/ BindFails(c) \/ AttemptFails(c) \/ UpdateFails(c)
         PROVE  UNCHANGED <<loop, guard, early>>
    BY <2>10, Zenon DEF BindCompleted, Send, UpdateFetch, UpdatePatch, BindFails, AttemptFails, UpdateFails,
                        ReplicaFault, bounds
  <2>11. ASSUME NEW i \in Conns, Serve(i) \/ StoreFails(i) \/ AcknowledgeFails(i)
         PROVE  UNCHANGED <<loop, guard, early>>
    BY <2>11, Zenon DEF Serve, Store, AcknowledgeFetch, AcknowledgePatch, StoreFails, AcknowledgeFails,
                        ReplicaFault, bounds, origin
  <2>12. ASSUME Report \/ ReportFails \/ RotatePut \/ Rotate \/ RotateFails \/ Revoke \/ UNCHANGED revars
         PROVE  UNCHANGED <<loop, guard, early>>
    BY <2>12, Zenon DEF Report, ReportFetch, ReportPatch, ReportFails, RotatePut, Rotate, RotateList, RotatePatch,
                        RotateFails, Revoke, Command, ReplicaFault, bounds, origin, revars
  <2> HIDE DEF n, m
  <2> QED
    BY <1>8, <2>4, <2>5, <2>6, <2>7, <2>8, <2>9, <2>10, <2>11, <2>12, Zenon
       DEF ReplicaNext, LoopStep, Scan, Deliver, Failures
<1> HIDE DEF n, m
<1> QED
  BY <1>7, <1>8

\* Never are more channels under way to a target than its guard lets through:
\* one while it is set, and one for each time it expired with one under way.
THEOREM GuardBoundsChannels == ReplicaSpec => [](ReplicaTypeOK /\ ChannelsBounded)
<1>0. ReplicaInit => QueueInv
  BY DEF ReplicaInit, QueueInv, IdleLoop
<1>1. ReplicaInit => ReplicaTypeOK /\ QueueInv /\ ChannelsBounded
  BY <1>0, TypeInit, BoundInit, Zenon
<1>2. ReplicaTypeOK /\ QueueInv /\ ChannelsBounded /\ [ReplicaNext]_revars =>
        (ReplicaTypeOK /\ QueueInv /\ ChannelsBounded)'
  BY TypeStep, BoundStep
<1> QED
  BY <1>1, <1>2, PTL DEF ReplicaSpec
=============================================================================
