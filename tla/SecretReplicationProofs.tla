---------------------- MODULE SecretReplicationProofs ----------------------
(***************************************************************************)
(* Replication of a secret, for any number of targets, channels,           *)
(* connections, rotations and faults.                                      *)
(*                                                                         *)
(* The record is patched as a whole by four writers, each with a list that *)
(* it read earlier.  What makes that harmless: every list on its way into  *)
(* the record is backed, it claims no version for a target that the target *)
(* has not got, and what a target has never shrinks unless it is blurred   *)
(* (BackedInv).  As long as nothing failed at most one channel is under    *)
(* way to a target, so that deliveries to it stay in order (CalmInv).      *)
(***************************************************************************)
EXTENDS ReplicaChannelsProofs

-----------------------------------------------------------------------------
(***************************************************************************)
(* What the record says of a target, and what the target has.              *)
(***************************************************************************)
\* A channel that waits does so for a connection that carries its payload.
Waits(c) ==
    channel[c].st = "waiting" =>
        /\ conn[channel[c].conn].st = "sent" /\ conn[channel[c].conn].to = channel[c].to
        /\ conn[channel[c].conn].value = channel[c].value
        /\ conn[channel[c].conn].version = channel[c].version

\* A payload under way is no newer than the origin's secret and, unless its
\* target is blurred, no older than the version it is labelled with.
PayloadInv(c) ==
    InFlight(c) => /\ channel[c].value <= local
                   /\ channel[c].to \notin blurred => channel[c].version <= channel[c].value

\* A list of targets that may become the record's claims nothing for a target
\* that the target has not got.
Backed(list) == \A t \in Targets \ blurred : list[t].synced <= dest[t]

\* An acknowledged channel will report a version that its target has.
AckedInv(c) ==
    /\ channel[c].st \in {"acked", "fetch", "patch"} /\ channel[c].to \notin blurred =>
          channel[c].version <= dest[channel[c].to]
    /\ channel[c].st = "patch" => Backed(channel[c].list)

\* So will the destination, and what it is about to store is as new as it says.
ConnInv(i) ==
    /\ conn[i].st = "sent" => /\ conn[i].value <= local
                              /\ conn[i].to \notin blurred => conn[i].version <= conn[i].value
    /\ conn[i].st = "stored" /\ conn[i].to \notin blurred => conn[i].version <= dest[conn[i].to]
    /\ conn[i].st = "fetched" => Backed(conn[i].list)

\* The loop, the rotate command and the record.
RecordInv ==
    /\ loop.pc = "grant" => loop.value <= local
    /\ command.pc = "patch" => Backed(command.list)
    /\ Backed(remote.targets)
    /\ \A t \in Targets : dest[t] <= local

BackedInv == /\ RecordInv
             /\ \A c \in Channels : Waits(c) /\ PayloadInv(c) /\ AckedInv(c)
             /\ \A i \in Conns : ConnInv(i)

\* Rotations only add versions, and a target that is not blurred only moves on.
Grows == /\ local <= local' /\ blurred \subseteq blurred'
         /\ \A t \in Targets \ blurred' : dest[t] <= dest'[t]

LEMMA GrowsStep == ReplicaTypeOK /\ [ReplicaNext]_revars => Grows
<1> SUFFICES ASSUME ReplicaTypeOK, [ReplicaNext]_revars PROVE Grows
  OBVIOUS
<1>0. local \in Int /\ dest \in [Targets -> Int]
  BY DEF ReplicaTypeOK, Versions
<1>1. ASSUME UNCHANGED <<local, dest>>, blurred \subseteq blurred' PROVE Grows
  BY <1>0, <1>1 DEF Grows
<1>2. ASSUME NEW i \in Conns, Store(i) PROVE Grows
  <2>1. conn[i].to \in Targets /\ conn[i].value \in Int
    BY <1>2, ConnKinds DEF Store, ReplicaTypeOK, Received, Versions
  <2> QED
    BY <1>0, <1>2, <2>1 DEF Store, Grows
<1>3. CASE RotatePut
  BY <1>0, <1>3 DEF RotatePut, Grows
<1>4. CASE \E c \in Channels : Grant(c)
  BY <1>1, <1>4 DEF Grant
<1>5. CASE Tick \/ Queue \/ GrantFails \/ \E t \in Targets : Scan(t) \/ Expire(t)
  BY <1>1, <1>5, Zenon DEF Tick, Queue, GrantFails, Scan, SkipInFlight, BeginTarget, Expire
<1>6. ASSUME NEW c \in Channels, Deliver(c) \/ BindFails(c) \/ AttemptFails(c) \/ UpdateFails(c)
      PROVE  Grows
  BY <1>1, <1>6, Zenon DEF Deliver, BindCompleted, Send, AckReceived, UpdateFetch, UpdatePatch,
                           BindFails, AttemptFails, UpdateFails
<1>7. ASSUME NEW i \in Conns,
             AcknowledgeFetch(i) \/ AcknowledgePatch(i) \/ StoreFails(i) \/ AcknowledgeFails(i)
      PROVE  Grows
  BY <1>1, <1>7, Zenon DEF AcknowledgeFetch, AcknowledgePatch, StoreFails, AcknowledgeFails
<1>8. CASE Report \/ ReportFails \/ Rotate \/ RotateFails \/ Revoke \/ OriginRestart \/ UNCHANGED revars
  BY <1>1, <1>8, Zenon DEF Report, ReportFetch, ReportPatch, ReportFails, Rotate, RotateList, RotatePatch,
                           RotateFails, Revoke, OriginRestart, revars
<1> QED
  BY <1>2, <1>3, <1>4, <1>5, <1>6, <1>7, <1>8, Zenon DEF ReplicaNext, LoopStep, Serve, Failures

\* A grant labels the value that was read with the record's version, and blurs
\* the target if that is the newer one; nothing else touches a payload.
LEMMA PayloadStep ==
    ASSUME ReplicaTypeOK, QueueInv, RecordInv, [ReplicaNext]_revars, NEW c \in Channels, PayloadInv(c)
    PROVE  PayloadInv(c)'
<1>1. local \in Int /\ local' \in Int
  BY TypeStep DEF ReplicaTypeOK
<1>2. CASE SamePayload(c)
  <2>1. InFlight(c) => channel[c].value \in Int
    BY InFlightKinds DEF Versions
  <2> QED
    BY <1>1, <1>2, <2>1, GrowsStep DEF SamePayload, PayloadInv, Grows
<1>3. CASE Grant(c)
  <2> DEFINE r == [st |-> "granted", to |-> loop.target, value |-> loop.value,
                   version |-> remote.current, tries |-> 0]
  <2>1. channel'[c] = r /\ local' = local /\ loop.pc = "grant"
    BY <1>3 DEF Grant, ReplicaTypeOK
  <2>2. loop.value \in Int /\ remote.current \in Int
    <3>1. loop \in LoopStates /\ remote.current \in Versions
      BY DEF ReplicaTypeOK
    <3> QED
      BY <2>1, <3>1 DEF LoopStates, Versions
  <2>3. loop.target \notin blurred' => remote.current <= loop.value
    BY <1>3, <2>2 DEF Grant
  <2>4. r.value = loop.value /\ r.to = loop.target /\ r.version = remote.current
    OBVIOUS
  <2> HIDE DEF r
  <2> QED
    BY <2>1, <2>3, <2>4 DEF PayloadInv, RecordInv
<1> QED
  BY <1>2, <1>3, PayloadKept, Zenon

\* A connection is given up by no channel that waits for it: it answers first.
LEMMA WaitsStep ==
    ASSUME ReplicaTypeOK, QueueInv, [ReplicaNext]_revars, NEW c \in Channels, Waits(c)
    PROVE  Waits(c)'
<1> USE DEF Waits
<1>0. channel \in [Channels -> ChannelStates] /\ conn \in [Conns -> ConnStates]
  BY DEF ReplicaTypeOK
<1>1. channel'[c].st # "waiting" => Waits(c)'
  OBVIOUS
<1>2. channel'[c] = channel[c] /\ conn' = conn => Waits(c)'
  OBVIOUS
<1>3. Free.st # "waiting"
  BY DEF Free
<1>4. ASSUME NEW d \in Channels, channel'[d].st # "waiting", conn' = conn,
             \A e \in Channels \ {d} : channel'[e] = channel[e]
      PROVE  Waits(c)'
  BY <1>0, <1>4
<1>5. ASSUME NEW i \in Conns, NEW k, channel'[c] = channel[c], conn' = [conn EXCEPT ![i] = k],
             channel[c].st = "waiting" => channel[c].conn # i
      PROVE  Waits(c)'
  BY <1>0, <1>5
<1>6. ASSUME NEW d \in Channels, NEW i \in Conns, Send(d, i) PROVE Waits(c)'
  <2> DEFINE r == [st |-> "waiting", to |-> channel[d].to, value |-> channel[d].value,
                   version |-> channel[d].version, tries |-> channel[d].tries + 1, conn |-> i]
             k == [st |-> "sent", to |-> channel[d].to, value |-> channel[d].value,
                   version |-> channel[d].version]
  <2>0. channel' = [channel EXCEPT ![d] = r] /\ conn' = [conn EXCEPT ![i] = k]
    BY <1>6, Zenon DEF Send
  <2>a. /\ r.conn = i /\ k.st = "sent" /\ k.to = r.to /\ k.value = r.value /\ k.version = r.version
    OBVIOUS
  <2>1. conn[i].st # "sent"
    <3>1. conn[i] = Free
      BY <1>6, Zenon DEF Send, NextFree
    <3> QED
      BY <3>1 DEF Free
  <2> HIDE DEF r, k
  <2>2. CASE d # c
    <3>1. channel'[c] = channel[c]
      BY <1>0, <2>0, <2>2
    <3>2. channel[c].st = "waiting" => channel[c].conn # i
      BY <2>1
    <3> QED
      BY <1>5, <2>0, <3>1, <3>2, Zenon
  <2>3. CASE d = c
    <3>1. channel'[c] = r /\ conn'[i] = k
      BY <1>0, <2>0, <2>3
    <3> QED
      BY <2>a, <3>1
  <2> QED
    BY <2>2, <2>3
<1>7. ASSUME NEW i \in Conns, Store(i) \/ StoreFails(i) PROVE Waits(c)'
  <2>1. CASE c \in WaitingFor(i)
    <3>1. channel[c] \in Delivering
      BY <1>0, <2>1, ChannelKinds DEF WaitingFor
    <3>2. channel'[c] \in {[channel[c] EXCEPT !.st = "acked"], Retried(channel[c])}
      BY <1>7, <2>1 DEF Store, StoreFails
    <3>3. [channel[c] EXCEPT !.st = "acked"].st = "acked" /\ Retried(channel[c]).st # "waiting"
      BY <1>3, <3>1, RetriedChannel DEF Delivering
    <3> QED
      BY <1>1, <3>2, <3>3, Zenon
  <2>2. CASE c \notin WaitingFor(i)
    <3>1. channel'[c] = channel[c]
      BY <1>7, <2>2 DEF Store, StoreFails
    <3>2. channel[c].st = "waiting" => channel[c].conn # i
      BY <2>2, Zenon DEF WaitingFor
    <3> QED
      BY <1>5, <1>7, <3>1, <3>2 DEF Store, StoreFails
  <2> QED
    BY <2>1, <2>2
<1>8. ASSUME NEW i \in Conns, AcknowledgeFetch(i) \/ AcknowledgePatch(i) \/ AcknowledgeFails(i)
      PROVE  Waits(c)'
  <2>1. conn[i].st # "sent" /\ channel' = channel
    BY <1>8 DEF AcknowledgeFetch, AcknowledgePatch, AcknowledgeFails, origin
  <2> QED
    BY <1>5, <1>8, <2>1 DEF AcknowledgeFetch, AcknowledgePatch, AcknowledgeFails
<1>9. ASSUME NEW d \in Channels, Grant(d) \/ BindCompleted(d) PROVE Waits(c)'
  <2>1. CASE Grant(d)
    <3>1. channel'[d].st = "granted"
      BY <1>0, <2>1 DEF Grant
    <3> QED
      BY <1>0, <1>4, <2>1, <3>1 DEF Grant
  <2>2. CASE BindCompleted(d)
    <3>1. channel[d].st = "pending" => channel[d] \in Carrying
      BY <1>0, ChannelKinds
    <3>2. channel'[d].st \in {"sending", "missed"}
      BY <1>0, <2>2, <3>1 DEF BindCompleted, Carrying
    <3> QED
      BY <1>0, <1>4, <2>2, <3>2 DEF BindCompleted
  <2> QED
    BY <1>9, <2>1, <2>2
<1>10. CASE Queue
  <2> DEFINE x == channel[loop.channel]
             r == IF x.st = "missed" THEN Free ELSE [x EXCEPT !.st = "pending"]
  <2>1. loop.channel \in Channels /\ channel' = [channel EXCEPT ![loop.channel] = r]
        /\ x.st \in {"granted", "missed"} /\ conn' = conn
    BY <1>10 DEF Queue, QueueInv, ReplicaTypeOK, LoopStates
  <2>2. x.st = "granted" => x \in Carrying
    BY <1>0, <2>1, ChannelKinds
  <2>3. r.st # "waiting"
    BY <1>3, <2>1, <2>2 DEF Carrying
  <2> HIDE DEF r
  <2> QED
    <3>1. channel'[loop.channel].st # "waiting" /\ \A e \in Channels \ {loop.channel} : channel'[e] = channel[e]
      BY <1>0, <2>1, <2>3
    <3> QED
      BY <1>4, <2>1, <3>1, Zenon
<1>11. ASSUME NEW d \in Channels,
              \/ BindFails(d) \/ AttemptFails(d) \/ AckReceived(d) \/ UpdateFetch(d) \/ UpdatePatch(d)
              \/ UpdateFails(d)
       PROVE  Waits(c)'
  <2>1. channel'[d].st # "waiting"
    <3>1. CASE AttemptFails(d)
      <4>1. channel[d] \in Delivering /\ channel'[d] = Retried(channel[d])
        BY <1>0, <3>1, ChannelKinds DEF AttemptFails
      <4> QED
        BY <1>3, <4>1, RetriedChannel
    <3>2. CASE BindFails(d) \/ UpdatePatch(d)
      BY <1>0, <1>3, <3>2 DEF BindFails, UpdatePatch
    <3>3. CASE AckReceived(d)
      BY <1>0, <3>3 DEF AckReceived
    <3>4. CASE UpdateFetch(d)
      BY <1>0, <3>4 DEF UpdateFetch
    <3>5. CASE UpdateFails(d)
      BY <1>0, <1>3, <3>5 DEF UpdateFails
    <3> QED
      BY <1>11, <3>1, <3>2, <3>3, <3>4, <3>5
  <2>2. conn' = conn /\ \A e \in Channels \ {d} : channel'[e] = channel[e]
    BY <1>0, <1>11 DEF BindFails, AttemptFails, AckReceived, UpdateFetch, UpdatePatch, UpdateFails
  <2> QED
    BY <1>4, <2>1, <2>2
<1>12. CASE OriginRestart
  BY <1>1, <1>3, <1>12 DEF OriginRestart
<1>13. CASE \/ Tick \/ (\E t \in Targets : Scan(t) \/ Expire(t)) \/ GrantFails \/ Report \/ ReportFails
            \/ RotatePut \/ Rotate \/ RotateFails \/ Revoke \/ UNCHANGED revars
  <2>1. UNCHANGED <<channel, conn>>
    BY <1>13, Zenon
       DEF Tick, Scan, SkipInFlight, BeginTarget, GrantFails, Expire, Report, ReportFetch, ReportPatch,
           ReportFails, RotatePut, Rotate, RotateList, RotatePatch, RotateFails, Revoke, revars, origin
  <2> QED
    BY <1>2, <2>1
<1> HIDE DEF Waits
<1> QED
  BY <1>6, <1>7, <1>8, <1>9, <1>10, <1>11, <1>12, <1>13, Zenon
     DEF ReplicaNext, LoopStep, Deliver, Serve, Failures

\* What is backed stays so.
LEMMA BackedGrows ==
    ASSUME ReplicaTypeOK, [ReplicaNext]_revars, QueueInv, NEW l \in TargetList, Backed(l)
    PROVE  \A t \in Targets \ blurred' : l[t].synced <= dest'[t]
<1>1. \A t \in Targets : l[t].synced \in Int /\ dest[t] \in Int /\ dest'[t] \in Int
  BY TypeStep DEF ReplicaTypeOK, TargetList, Versions
<1> QED
  BY <1>1, GrowsStep DEF Grows, Backed

\* A target is marked with a version that it has.
LEMMA MarkedBacked ==
    ASSUME ReplicaTypeOK, Backed(remote.targets), NEW t \in Targets, NEW v \in Versions, NEW status,
           t \notin blurred => v <= dest[t]
    PROVE  Backed(Marked(t, status, v))
<1>1. remote.targets \in TargetList
  BY DEF ReplicaTypeOK
<1>2. \A u \in Targets : Marked(t, status, v)[u].synced = IF u = t THEN v ELSE remote.targets[u].synced
  BY <1>1 DEF Marked, TargetList
<1> QED
  BY <1>2 DEF Backed

\* What a step does to the values, in integers.
LEMMA Growing ==
    ASSUME ReplicaTypeOK, QueueInv, [ReplicaNext]_revars
    PROVE  /\ \A t \in Targets : dest[t] \in Int /\ dest'[t] \in Int
           /\ blurred \subseteq blurred' /\ \A t \in Targets \ blurred' : dest[t] <= dest'[t]
           /\ local \in Int /\ local' \in Int /\ local <= local'
<1>1. ReplicaTypeOK' /\ Grows
  BY TypeStep, GrowsStep, Zenon
<1>2. dest \in [Targets -> Versions] /\ local \in Nat
  BY DEF ReplicaTypeOK
<1>3. dest' \in [Targets -> Versions] /\ local' \in Nat
  BY <1>1 DEF ReplicaTypeOK
<1> QED
  BY <1>1, <1>2, <1>3 DEF Grows, Versions

\* The origin's reports of what was received.
LEMMA AckedStep ==
    ASSUME ReplicaTypeOK, QueueInv, BackedInv, [ReplicaNext]_revars, NEW c \in Channels
    PROVE  AckedInv(c)'
<1>0. channel \in [Channels -> ChannelStates] /\ AckedInv(c) /\ Waits(c) /\ Backed(remote.targets)
  BY Zenon DEF ReplicaTypeOK, BackedInv, RecordInv
<1>1. /\ \A t \in Targets : dest[t] \in Int /\ dest'[t] \in Int
      /\ blurred \subseteq blurred' /\ \A t \in Targets \ blurred' : dest[t] <= dest'[t]
  BY Growing
<1>2. channel[c].st \in {"acked", "fetch", "patch"} =>
        channel[c].to \in Targets /\ channel[c].version \in Int /\ channel[c].version \in Versions
  BY <1>0, ChannelKinds DEF Delivering, Fetching, Patching, Versions
<1>3. channel[c].st = "patch" => channel[c].list \in TargetList
  BY <1>0, ChannelKinds DEF Patching
<1>4. channel'[c].st \notin {"acked", "fetch", "patch"} => AckedInv(c)'
  BY DEF AckedInv
<1>5. ASSUME channel[c].st \in {"acked", "fetch", "patch"}, channel'[c].to = channel[c].to,
             channel'[c].version = channel[c].version,
             channel'[c].st = "patch" =>
                \A t \in Targets \ blurred' : channel'[c].list[t].synced <= dest'[t]
      PROVE  AckedInv(c)'
  BY <1>0, <1>1, <1>2, <1>5 DEF AckedInv, Backed
<1>6. channel'[c] = channel[c] => AckedInv(c)'
  <2>1. channel[c].st = "patch" => \A t \in Targets \ blurred' : channel[c].list[t].synced <= dest'[t]
    BY <1>0, <1>3, BackedGrows DEF AckedInv
  <2> QED
    BY <1>4, <1>5, <2>1
<1>7. ASSUME NEW d \in Channels, \A e \in Channels \ {d} : channel'[e] = channel[e],
             d = c => AckedInv(c)'
      PROVE  AckedInv(c)'
  BY <1>6, <1>7
<1>8. ASSUME NEW d \in Channels, Grant(d) \/ BindCompleted(d) \/ BindFails(d) \/ UpdatePatch(d)
      PROVE  AckedInv(c)'
  <2>1. \A e \in Channels \ {d} : channel'[e] = channel[e]
    BY <1>0, <1>8 DEF Grant, BindCompleted, BindFails, UpdatePatch
  <2>2. channel[d].st = "pending" => channel[d] \in Carrying
    BY <1>0, ChannelKinds
  <2>3. channel'[d].st \in {"granted", "sending", "missed", "free"}
    <3>1. CASE Grant(d)
      BY <1>0, <3>1 DEF Grant
    <3>2. CASE BindCompleted(d)
      BY <1>0, <2>2, <3>2 DEF BindCompleted, Carrying
    <3>3. CASE BindFails(d) \/ UpdatePatch(d)
      BY <1>0, <3>3 DEF BindFails, UpdatePatch, Free
    <3> QED
      BY <1>8, <3>1, <3>2, <3>3
  <2> QED
    BY <1>4, <1>7, <2>1, <2>3
<1>9. CASE Queue
  <2>1. /\ loop.channel \in Channels /\ channel[loop.channel].st \in {"granted", "missed"}
        /\ \A e \in Channels \ {loop.channel} : channel'[e] = channel[e]
    BY <1>0, <1>9 DEF Queue, QueueInv, ReplicaTypeOK, LoopStates
  <2>2. channel[loop.channel].st = "granted" => channel[loop.channel] \in Carrying
    BY <1>0, <2>1, ChannelKinds
  <2>3. channel'[loop.channel].st \in {"pending", "free"}
    BY <1>0, <1>9, <2>1, <2>2 DEF Queue, Free, Carrying
  <2> QED
    BY <1>4, <1>7, <2>1, <2>3
<1>10. ASSUME NEW d \in Channels, NEW i \in Conns, Send(d, i) PROVE AckedInv(c)'
  <2>1. /\ \A e \in Channels \ {d} : channel'[e] = channel[e]
        /\ channel'[d].st = "waiting"
    BY <1>0, <1>10 DEF Send
  <2> QED
    BY <1>4, <1>7, <2>1
<1>11. ASSUME NEW d \in Channels, AttemptFails(d) PROVE AckedInv(c)'
  <2>1. /\ \A e \in Channels \ {d} : channel'[e] = channel[e]
        /\ channel'[d] = Retried(channel[d]) /\ channel[d] \in Delivering
    BY <1>0, <1>11, ChannelKinds DEF AttemptFails
  <2>2. channel'[d].st \in {"sending", "free"}
    BY <2>1, RetriedChannel DEF Free
  <2> QED
    BY <1>4, <1>7, <2>1, <2>2
<1>12. ASSUME NEW d \in Channels, AckReceived(d) \/ UpdateFails(d) PROVE AckedInv(c)'
  <2>1. \A e \in Channels \ {d} : channel'[e] = channel[e]
    BY <1>0, <1>12 DEF AckReceived, UpdateFails
  <2>2. /\ channel[d].st \in {"acked", "fetch", "patch"}
        /\ \/ channel'[d].st = "free"
           \/ channel'[d].st = "fetch" /\ channel'[d].to = channel[d].to /\ channel'[d].version = channel[d].version
    <3>1. CASE AckReceived(d)
      BY <1>0, <3>1 DEF AckReceived
    <3>2. CASE UpdateFails(d)
      BY <1>0, <3>2 DEF UpdateFails, Free
    <3> QED
      BY <1>12, <3>1, <3>2
  <2> QED
    BY <1>4, <1>5, <1>7, <2>1, <2>2
<1>13. ASSUME NEW d \in Channels, UpdateFetch(d) PROVE AckedInv(c)'
  <2>1. \A e \in Channels \ {d} : channel'[e] = channel[e]
    BY <1>0, <1>13 DEF UpdateFetch
  <2>2. ASSUME d = c PROVE AckedInv(c)'
    <3> DEFINE l == Marked(channel[c].to, "delivered", channel[c].version)
    <3>1. /\ channel[c].st = "fetch" /\ channel'[c].to = channel[c].to
          /\ channel'[c].version = channel[c].version /\ channel'[c].list = l
      BY <1>0, <1>13, <2>2 DEF UpdateFetch
    <3>2. l \in TargetList
      BY <1>2, <3>1, MarkedList
    <3>3. Backed(l)
      BY <1>0, <1>2, <3>1, MarkedBacked DEF AckedInv
    <3> HIDE DEF l
    <3> QED
      BY <1>5, <3>1, <3>2, <3>3, BackedGrows
  <2> QED
    BY <1>7, <2>1, <2>2
<1>14. ASSUME NEW i \in Conns, Store(i) PROVE AckedInv(c)'
  <2>1. CASE c \in WaitingFor(i)
    <3>1. channel[c] \in Delivering /\ channel[c].st = "waiting" /\ channel[c].conn = i
      BY <1>0, <2>1, ChannelKinds DEF WaitingFor
    <3>2. channel'[c] = [channel[c] EXCEPT !.st = "acked"]
      BY <1>14, <2>1 DEF Store
    <3>3. /\ channel'[c].st = "acked" /\ channel'[c].to = channel[c].to
          /\ channel'[c].version = channel[c].version /\ channel[c].to \in Targets
      BY <3>1, <3>2 DEF Delivering
    <3>4. /\ conn[i].st = "sent" /\ conn[i].to = channel[c].to /\ conn[i].version = channel[c].version
          /\ channel[c].to \notin blurred => conn[i].version <= conn[i].value
      BY <1>0, <3>1, Zenon DEF Waits, BackedInv, ConnInv
    <3>5. dest'[channel[c].to] = conn[i].value
      BY <1>14, <3>3, <3>4 DEF Store, ReplicaTypeOK
    <3> QED
      BY <1>1, <3>3, <3>4, <3>5 DEF AckedInv
  <2>2. CASE c \notin WaitingFor(i)
    BY <1>6, <1>14, <2>2 DEF Store
  <2> QED
    BY <2>1, <2>2
<1>15. ASSUME NEW i \in Conns, StoreFails(i) PROVE AckedInv(c)'
  <2>1. CASE c \in WaitingFor(i)
    <3>1. channel[c] \in Delivering /\ channel'[c] = Retried(channel[c])
      BY <1>0, <1>15, <2>1, ChannelKinds, Zenon DEF WaitingFor, StoreFails
    <3>2. channel'[c].st \in {"sending", "free"}
      BY <3>1, RetriedChannel DEF Free
    <3> QED
      BY <1>4, <3>2
  <2>2. CASE c \notin WaitingFor(i)
    BY <1>6, <1>15, <2>2 DEF StoreFails
  <2> QED
    BY <2>1, <2>2
<1>16. CASE OriginRestart
  BY <1>4, <1>16 DEF OriginRestart, Free
<1>17. CASE \/ Tick \/ (\E t \in Targets : Scan(t) \/ Expire(t)) \/ GrantFails \/ Report \/ ReportFails
            \/ RotatePut \/ Rotate \/ RotateFails \/ Revoke \/ UNCHANGED revars
            \/ \E i \in Conns : AcknowledgeFetch(i) \/ AcknowledgePatch(i) \/ AcknowledgeFails(i)
  <2>1. UNCHANGED channel
    BY <1>17, Zenon
       DEF Tick, Scan, SkipInFlight, BeginTarget, GrantFails, Expire, Report, ReportFetch, ReportPatch,
           ReportFails, RotatePut, Rotate, RotateList, RotatePatch, RotateFails, Revoke, revars, origin,
           AcknowledgeFetch, AcknowledgePatch, AcknowledgeFails
  <2> QED
    BY <1>6, <2>1
<1> QED
  BY <1>8, <1>9, <1>10, <1>11, <1>12, <1>13, <1>14, <1>15, <1>16, <1>17, Zenon
     DEF ReplicaNext, LoopStep, Deliver, Serve, Failures

\* The destination's connections and its reports.
LEMMA ConnStep ==
    ASSUME ReplicaTypeOK, QueueInv, BackedInv, [ReplicaNext]_revars, NEW i \in Conns
    PROVE  ConnInv(i)'
<1>0. conn \in [Conns -> ConnStates] /\ ConnInv(i) /\ Backed(remote.targets)
  BY Zenon DEF ReplicaTypeOK, BackedInv, RecordInv
<1>1. /\ \A t \in Targets : dest[t] \in Int /\ dest'[t] \in Int
      /\ blurred \subseteq blurred' /\ \A t \in Targets \ blurred' : dest[t] <= dest'[t]
      /\ local \in Int /\ local' \in Int /\ local <= local'
  BY Growing
<1>2. conn'[i] = conn[i] => ConnInv(i)'
  <2>1. /\ conn[i].st = "sent" => conn[i].value \in Int
        /\ conn[i].st = "stored" => conn[i].to \in Targets /\ conn[i].version \in Int
        /\ conn[i].st = "fetched" => conn[i].list \in TargetList
    BY <1>0, ConnKinds DEF Received, Kept, Acknowledging, Versions
  <2>2. conn[i].st = "fetched" => \A t \in Targets \ blurred' : conn[i].list[t].synced <= dest'[t]
    BY <1>0, <2>1, BackedGrows DEF ConnInv
  <2>3. conn[i].st = "stored" /\ conn[i].to \notin blurred' => conn[i].version <= dest'[conn[i].to]
    BY <1>0, <1>1, <2>1 DEF ConnInv
  <2>4. conn[i].st = "sent" => conn[i].value <= local'
                               /\ (conn[i].to \notin blurred' => conn[i].version <= conn[i].value)
    BY <1>0, <1>1, <2>1 DEF ConnInv
  <2> QED
    BY <2>2, <2>3, <2>4 DEF ConnInv, Backed
<1>3. conn'[i] = Free => ConnInv(i)'
  BY DEF ConnInv, Free
<1>4. ASSUME NEW j \in Conns, \A k \in Conns \ {j} : conn'[k] = conn[k], j = i => ConnInv(i)'
      PROVE  ConnInv(i)'
  BY <1>2, <1>4
<1>5. ASSUME NEW c \in Channels, NEW j \in Conns, Send(c, j) PROVE ConnInv(i)'
  <2>1. \A k \in Conns \ {j} : conn'[k] = conn[k]
    BY <1>0, <1>5 DEF Send
  <2>2. /\ conn'[j].st = "sent" /\ conn'[j].to = channel[c].to /\ conn'[j].value = channel[c].value
        /\ conn'[j].version = channel[c].version /\ InFlight(c) /\ UNCHANGED <<local, blurred>>
    BY <1>0, <1>5 DEF Send, InFlight
  <2>3. j = i => ConnInv(i)'
    BY <2>2, Zenon DEF BackedInv, PayloadInv, ConnInv
  <2> QED
    BY <1>4, <2>1, <2>3
<1>6. ASSUME NEW j \in Conns, Store(j) PROVE ConnInv(i)'
  <2>1. \A k \in Conns \ {j} : conn'[k] = conn[k]
    BY <1>0, <1>6 DEF Store
  <2>2. /\ conn'[j].st = "stored" /\ conn'[j].to = conn[j].to /\ conn'[j].version = conn[j].version
        /\ conn[j] \in Received
    BY <1>0, <1>6, ConnKinds DEF Store
  <2>3. conn[j].to \in Targets /\ dest'[conn[j].to] = conn[j].value
    BY <1>6, <2>2 DEF Store, Received, ReplicaTypeOK
  <2>4. conn[j].to \notin blurred => conn[j].version <= conn[j].value
    BY <1>6 DEF Store, BackedInv, ConnInv
  <2>5. j = i => ConnInv(i)'
    BY <1>1, <2>2, <2>3, <2>4 DEF ConnInv
  <2> QED
    BY <1>4, <2>1, <2>5
<1>7. ASSUME NEW j \in Conns, AcknowledgeFetch(j) PROVE ConnInv(i)'
  <2>1. \A k \in Conns \ {j} : conn'[k] = conn[k]
    BY <1>0, <1>7 DEF AcknowledgeFetch
  <2> DEFINE l == Marked(conn[j].to, "acknowledged", conn[j].version)
  <2>2. conn'[j].st = "fetched" /\ conn'[j].list = l /\ conn[j].st = "stored" /\ conn[j] \in Kept
    BY <1>0, <1>7, ConnKinds DEF AcknowledgeFetch
  <2>3. /\ conn[j].to \in Targets /\ conn[j].version \in Versions
        /\ conn[j].to \notin blurred => conn[j].version <= dest[conn[j].to]
    BY <2>2 DEF Kept, BackedInv, ConnInv
  <2>4. l \in TargetList /\ Backed(l)
    BY <1>0, <2>3, MarkedList, MarkedBacked
  <2> HIDE DEF l
  <2>5. \A t \in Targets \ blurred' : l[t].synced <= dest'[t]
    BY <2>4, BackedGrows
  <2>6. j = i => ConnInv(i)'
    BY <2>2, <2>5 DEF ConnInv, Backed
  <2> QED
    BY <1>4, <2>1, <2>6
<1>8. ASSUME NEW j \in Conns, StoreFails(j) \/ AcknowledgePatch(j) \/ AcknowledgeFails(j)
      PROVE  ConnInv(i)'
  BY <1>0, <1>3, <1>4, <1>8 DEF StoreFails, AcknowledgePatch, AcknowledgeFails
<1>9. CASE UNCHANGED conn
  BY <1>2, <1>9
<1>10. CASE LoopStep \/ GrantFails \/ \E t \in Targets : Expire(t)
  BY <1>9, <1>10, Zenon
     DEF LoopStep, Tick, Queue, Scan, SkipInFlight, BeginTarget, Grant, GrantFails, Expire
<1>11. ASSUME NEW c \in Channels,
              \/ BindCompleted(c) \/ AckReceived(c) \/ UpdateFetch(c) \/ UpdatePatch(c)
              \/ BindFails(c) \/ AttemptFails(c) \/ UpdateFails(c)
       PROVE  ConnInv(i)'
  BY <1>9, <1>11, Zenon
     DEF BindCompleted, AckReceived, UpdateFetch, UpdatePatch, BindFails, AttemptFails, UpdateFails
<1>12. CASE \/ Report \/ ReportFails \/ RotatePut \/ Rotate \/ RotateFails \/ Revoke \/ OriginRestart
            \/ UNCHANGED revars
  BY <1>9, <1>12, Zenon
     DEF Report, ReportFetch, ReportPatch, ReportFails, RotatePut, Rotate, RotateList, RotatePatch,
         RotateFails, Revoke, OriginRestart, revars
<1> QED
  BY <1>5, <1>6, <1>7, <1>8, <1>10, <1>11, <1>12, Zenon DEF ReplicaNext, Deliver, Serve, Failures

\* The record itself, and the lists that may replace it.
LEMMA RecordStep ==
    ReplicaTypeOK /\ QueueInv /\ BackedInv /\ [ReplicaNext]_revars => RecordInv'
<1> SUFFICES ASSUME ReplicaTypeOK, QueueInv, BackedInv, [ReplicaNext]_revars PROVE RecordInv'
  OBVIOUS
<1>0. /\ RecordInv /\ remote.targets \in TargetList
      /\ command.pc = "patch" => command.list \in TargetList
      /\ channel \in [Channels -> ChannelStates] /\ conn \in [Conns -> ConnStates]
  BY DEF ReplicaTypeOK, BackedInv
<1>1. local \in Int /\ local' \in Int /\ local <= local'
  BY Growing
<1>2. /\ \A t \in Targets \ blurred' : remote.targets[t].synced <= dest'[t]
      /\ command.pc = "patch" => \A t \in Targets \ blurred' : command.list[t].synced <= dest'[t]
  BY <1>0, BackedGrows DEF RecordInv
<1>3. loop'.pc = "grant" => loop'.value <= local'
  <2>1. loop.pc = "grant" => loop.value \in Int
    BY DEF ReplicaTypeOK, LoopStates, Versions
  <2>2. CASE loop' = loop
    BY <1>0, <1>1, <2>1, <2>2 DEF RecordInv
  <2>3. CASE \E t \in Targets : BeginTarget(t)
    BY <1>1, <2>3 DEF BeginTarget
  <2>4. CASE \/ Tick \/ Queue \/ GrantFails \/ OriginRestart \/ (\E t \in Targets : SkipInFlight(t))
             \/ \E c \in Channels : Grant(c)
    <3>1. loop'.pc # "grant"
      BY <2>4, PastLoop DEF Tick, Queue, GrantFails, OriginRestart, SkipInFlight, Grant, IdleLoop
    <3> QED
      BY <3>1
  <2>5. CASE \/ \E t \in Targets : Expire(t)
             \/ \E c \in Channels : Deliver(c) \/ BindFails(c) \/ AttemptFails(c) \/ UpdateFails(c)
    BY <2>2, <2>5, Zenon
       DEF Expire, Deliver, BindCompleted, Send, AckReceived, UpdateFetch, UpdatePatch, BindFails,
           AttemptFails, UpdateFails
  <2>6. CASE \E i \in Conns : Serve(i) \/ StoreFails(i) \/ AcknowledgeFails(i)
    BY <2>2, <2>6, Zenon
       DEF Serve, Store, AcknowledgeFetch, AcknowledgePatch, StoreFails, AcknowledgeFails, origin
  <2>7. CASE \/ Report \/ ReportFails \/ RotatePut \/ Rotate \/ RotateFails \/ Revoke
             \/ UNCHANGED revars
    BY <2>2, <2>7, Zenon
       DEF Report, ReportFetch, ReportPatch, ReportFails, RotatePut, Rotate, RotateList, RotatePatch,
           RotateFails, Revoke, origin, revars
  <2> QED
    BY <2>3, <2>4, <2>5, <2>6, <2>7, Zenon DEF ReplicaNext, LoopStep, Scan, Failures
<1>4. \A t \in Targets : dest'[t] <= local'
  <2>1. \A t \in Targets : dest[t] \in Int /\ dest[t] <= local
    BY <1>0 DEF ReplicaTypeOK, Versions, RecordInv
  <2>2. ASSUME NEW i \in Conns, Store(i) PROVE \A t \in Targets : dest'[t] <= local'
    <3>1. conn[i].value <= local /\ local' = local
      BY <2>2 DEF Store, BackedInv, ConnInv
    <3> QED
      BY <2>1, <2>2, <3>1 DEF Store, ReplicaTypeOK
  <2>3. CASE dest' = dest
    BY <1>1, <2>1, <2>3
  <2>4. CASE LoopStep \/ GrantFails \/ \E t \in Targets : Expire(t)
    BY <2>3, <2>4, Zenon
       DEF LoopStep, Tick, Queue, Scan, SkipInFlight, BeginTarget, Grant, GrantFails, Expire
  <2>5. CASE \E c \in Channels : Deliver(c) \/ BindFails(c) \/ AttemptFails(c) \/ UpdateFails(c)
    BY <2>3, <2>5, Zenon
       DEF Deliver, BindCompleted, Send, AckReceived, UpdateFetch, UpdatePatch, BindFails, AttemptFails,
           UpdateFails
  <2>6. CASE \E i \in Conns : AcknowledgeFetch(i) \/ AcknowledgePatch(i) \/ StoreFails(i) \/ AcknowledgeFails(i)
    BY <2>3, <2>6, Zenon DEF AcknowledgeFetch, AcknowledgePatch, StoreFails, AcknowledgeFails
  <2>7. CASE \/ Report \/ ReportFails \/ RotatePut \/ Rotate \/ RotateFails \/ Revoke \/ OriginRestart
             \/ UNCHANGED revars
    BY <2>3, <2>7, Zenon
       DEF Report, ReportFetch, ReportPatch, ReportFails, RotatePut, Rotate, RotateList, RotatePatch,
           RotateFails, Revoke, OriginRestart, revars
  <2> QED
    BY <2>2, <2>4, <2>5, <2>6, <2>7, Zenon DEF ReplicaNext, Serve, Failures
<1>5. ASSUME \/ remote'.targets = remote.targets
             \/ command.pc = "patch" /\ remote'.targets = command.list
             \/ \A t \in Targets \ blurred' : remote'.targets[t].synced <= dest'[t],
             \/ command' = command
             \/ command'.pc # "patch"
             \/ \A t \in Targets \ blurred' : command'.list[t].synced <= dest'[t]
      PROVE  RecordInv'
  BY <1>2, <1>3, <1>4, <1>5 DEF RecordInv, Backed
<1>6. ASSUME NEW c \in Channels, UpdatePatch(c) PROVE RecordInv'
  <2>1. channel[c].list \in TargetList /\ Backed(channel[c].list)
    BY <1>0, <1>6, ChannelKinds DEF UpdatePatch, Patching, BackedInv, AckedInv
  <2>2. remote'.targets = channel[c].list /\ command' = command
    BY <1>6 DEF UpdatePatch, ReplicaTypeOK, writers
  <2> QED
    BY <1>5, <2>1, <2>2, BackedGrows
<1>7. ASSUME NEW i \in Conns, AcknowledgePatch(i) PROVE RecordInv'
  <2>1. conn[i].list \in TargetList /\ Backed(conn[i].list)
    BY <1>0, <1>7, ConnKinds DEF AcknowledgePatch, Acknowledging, BackedInv, ConnInv
  <2>2. remote'.targets = conn[i].list /\ command' = command
    BY <1>7 DEF AcknowledgePatch, ReplicaTypeOK, writers
  <2> QED
    BY <1>5, <2>1, <2>2, BackedGrows
<1>8. CASE RotateList
  <2>1. /\ remote' = remote
        /\ command'.list = [t \in Targets |-> [remote.targets[t] EXCEPT !.status = "pending"]]
    BY <1>8 DEF RotateList
  <2>2. \A t \in Targets : command'.list[t].synced = remote.targets[t].synced
    BY <1>0, <2>1 DEF TargetList
  <2> QED
    BY <1>2, <1>5, <2>1, <2>2
<1>9. CASE RotatePatch
  BY <1>5, <1>9 DEF RotatePatch, Idle
<1>10. CASE ReportPatch
  <2>1. remote'.targets = remote.targets /\ command' = command
    BY <1>10 DEF ReportPatch, ReplicaTypeOK
  <2> QED
    BY <1>5, <2>1
<1>11. CASE Revoke
  <2>1. remote'.targets = remote.targets /\ command' = command
    BY <1>11 DEF Revoke, ReplicaTypeOK, writers
  <2> QED
    BY <1>5, <2>1
<1>12. CASE RotatePut \/ RotateFails
  <2>1. remote' = remote /\ command'.pc # "patch"
    BY <1>12 DEF RotatePut, RotateFails, Idle
  <2> QED
    BY <1>5, <2>1
<1>13. CASE UNCHANGED <<remote, command>>
  BY <1>5, <1>13
<1>14. CASE LoopStep \/ GrantFails \/ \E t \in Targets : Expire(t)
  BY <1>13, <1>14, Zenon
     DEF LoopStep, Tick, Queue, Scan, SkipInFlight, BeginTarget, Grant, GrantFails, Expire, writers
<1>15. CASE \E c \in Channels : \/ BindCompleted(c) \/ (\E i \in Conns : Send(c, i)) \/ AckReceived(c)
                                \/ UpdateFetch(c) \/ BindFails(c) \/ AttemptFails(c) \/ UpdateFails(c)
  BY <1>13, <1>15, Zenon
     DEF BindCompleted, Send, AckReceived, UpdateFetch, BindFails, AttemptFails, UpdateFails, writers
<1>16. CASE \E i \in Conns : Store(i) \/ AcknowledgeFetch(i) \/ StoreFails(i) \/ AcknowledgeFails(i)
  BY <1>13, <1>16, Zenon DEF Store, AcknowledgeFetch, StoreFails, AcknowledgeFails, writers
<1>17. CASE ReportFetch \/ ReportFails \/ OriginRestart \/ UNCHANGED revars
  BY <1>13, <1>17, Zenon DEF ReportFetch, ReportFails, OriginRestart, revars
<1> QED
  BY <1>6, <1>7, <1>8, <1>9, <1>10, <1>11, <1>12, <1>14, <1>15, <1>16, <1>17, Zenon
     DEF ReplicaNext, Deliver, Serve, Report, Rotate, Failures

-----------------------------------------------------------------------------
(***************************************************************************)
(* Deliveries in order.                                                    *)
(***************************************************************************)
\* Without faults, every connection a payload is on has its channel waiting,
\* and a payload that is under way, or about to be granted, is no older than
\* what its target has.
CalmInv ==
    replicaFaults = 0 =>
        /\ \A i \in Conns : conn[i].st = "sent" => WaitingFor(i) # {}
        /\ \A c \in Channels : InFlight(c) => dest[channel[c].to] <= channel[c].value
        /\ loop.pc = "grant" => dest[loop.target] <= loop.value

\* Without faults, one payload is under way to a target at a time.
LEMMA Alone ==
    ASSUME ReplicaTypeOK, ChannelsBounded, replicaFaults = 0, NEW c \in Channels, InFlight(c)
    PROVE  /\ ~Begun(channel[c].to)
           /\ \A d \in Channels : InFlight(d) /\ channel[d].to = channel[c].to => d = c
<1> DEFINE t == channel[c].to
           n == Cardinality(Live(t))
<1>1. t \in Targets /\ early[t] = 0
  BY InFlightKinds DEF ReplicaTypeOK
<1>2. Live(t) = {d \in Channels : InFlight(d) /\ channel[d].to = t}
  BY <1>1, LiveInFlight DEF LiveMeansInFlight
<1>3. Live(t) \in SUBSET Channels /\ c \in Live(t) /\ Cardinality({c}) = 1
  BY <1>2, FS_Singleton, Zenon
<1>4. n \in Nat /\ 1 <= n
  BY <1>3, CountChannels
<1>5. n + (IF Begun(t) THEN 1 ELSE 0) <= 1
  <2>1. n + (IF Begun(t) THEN 1 ELSE 0) <= 0 + (IF guard[t] = "set" THEN 1 ELSE 0)
    BY <1>1 DEF ChannelsBounded
  <2> HIDE DEF n
  <2> QED
    BY <1>4, <2>1
<1>6. ~Begun(t)
  <2> HIDE DEF n
  <2> QED
    BY <1>4, <1>5
<1>7. ASSUME NEW d \in Channels, InFlight(d), channel[d].to = t, d # c PROVE FALSE
  <2>1. d \in Live(t) /\ {c} \in SUBSET Channels /\ {c} \subseteq Live(t) \ {d}
    BY <1>2, <1>3, <1>7
  <2>2. 1 + 1 <= n
    BY <1>3, <2>1, CountChannels
  <2> HIDE DEF n
  <2> QED
    BY <1>4, <1>5, <1>6, <2>2
<1> QED
  BY <1>6, <1>7

\* What a connection is about to store, without faults: the payload of the
\* channel that waits for it.
LEMMA StoresPayload ==
    ASSUME ReplicaTypeOK, BackedInv, CalmInv, replicaFaults = 0, NEW i \in Conns, conn[i].st = "sent"
    PROVE  \E c \in Channels : /\ InFlight(c) /\ channel[c].to = conn[i].to
                               /\ channel[c].value = conn[i].value
<1>1. PICK c \in Channels : channel[c].st = "waiting" /\ channel[c].conn = i
  BY DEF CalmInv, WaitingFor
<1> QED
  BY <1>1 DEF BackedInv, Waits, InFlight

\* The steps that are no faults.
LEMMA CalmSteps ==
    ASSUME ReplicaTypeOK, [ReplicaNext]_revars, replicaFaults' = 0
    PROVE  /\ replicaFaults = 0 /\ ~Failures
           /\ \A c \in Channels : BindCompleted(c) => channel[c].st = "pending"
<1>1. replicaFaults \in Nat
  <2>1. replicaFaults \in 0..MaxReplicaFaults
    BY DEF ReplicaTypeOK
  <2> QED
    BY <2>1, ReplicaAssumption
<1>2. ~ReplicaFault
  BY <1>1 DEF ReplicaFault
<1>3. ~Failures
  BY <1>2, Zenon DEF Failures, GrantFails, ReportFails, RotateFails, OriginRestart, BindFails, AttemptFails,
                     UpdateFails, StoreFails, AcknowledgeFails
<1>4. \A c \in Channels : BindCompleted(c) => channel[c].st = "pending"
  BY <1>2 DEF BindCompleted
<1>5. replicaFaults = 0
  <2>1. CASE UNCHANGED replicaFaults
    BY <2>1
  <2>2. CASE RotatePut \/ \E t \in Targets : Expire(t)
    BY <1>1, <2>2 DEF RotatePut, Expire
  <2>3. CASE LoopStep \/ Report \/ Rotate \/ Revoke \/ UNCHANGED revars
    BY <2>1, <2>3, Zenon
       DEF LoopStep, Tick, Queue, Scan, SkipInFlight, BeginTarget, Grant, Report, ReportFetch, ReportPatch,
           Rotate, RotateList, RotatePatch, Revoke, revars, bounds
  <2>4. CASE \/ \E c \in Channels : Deliver(c)
             \/ \E i \in Conns : Serve(i)
    BY <1>2, <2>1, <2>4, Zenon
       DEF Deliver, BindCompleted, Send, AckReceived, UpdateFetch, UpdatePatch, Serve, Store,
           AcknowledgeFetch, AcknowledgePatch, bounds
  <2> QED
    BY <1>3, <2>2, <2>3, <2>4, Zenon DEF ReplicaNext
<1> QED
  BY <1>3, <1>4, <1>5, Zenon

\* Without faults, deliveries stay in order.
LEMMA CalmStep ==
    ReplicaTypeOK /\ QueueInv /\ ChannelsBounded /\ BackedInv /\ CalmInv /\ [ReplicaNext]_revars => CalmInv'
<1> SUFFICES ASSUME ReplicaTypeOK, QueueInv, ChannelsBounded, BackedInv, CalmInv, [ReplicaNext]_revars,
                    replicaFaults' = 0
             PROVE  /\ \A i \in Conns : conn'[i].st = "sent" => WaitingFor(i)' # {}
                    /\ \A c \in Channels : InFlight(c)' => dest'[channel'[c].to] <= channel'[c].value
                    /\ loop'.pc = "grant" => dest'[loop'.target] <= loop'.value
  BY DEF CalmInv
<1>0. /\ replicaFaults = 0 /\ ~Failures
      /\ \A c \in Channels : BindCompleted(c) => channel[c].st = "pending"
  BY CalmSteps
<1>1. /\ channel \in [Channels -> ChannelStates] /\ conn \in [Conns -> ConnStates]
      /\ dest \in [Targets -> Int] /\ Free.st = "free"
  BY DEF ReplicaTypeOK, Versions, Free
<1>2. ASSUME NEW t \in Targets, dest'[t] # dest[t]
      PROVE  \E i \in Conns : Store(i) /\ conn[i].to = t /\ dest'[t] = conn[i].value
  <2>1. ASSUME NEW i \in Conns, Store(i) PROVE conn[i].to = t /\ dest'[t] = conn[i].value
    BY <1>1, <1>2, <2>1 DEF Store
  <2>2. dest' # dest
    BY <1>2
  <2>3. ~(LoopStep \/ Report \/ RotatePut \/ Rotate \/ Revoke \/ UNCHANGED revars)
    BY <2>2, Zenon
       DEF LoopStep, Tick, Queue, Scan, SkipInFlight, BeginTarget, Grant, Report, ReportFetch, ReportPatch,
           RotatePut, Rotate, RotateList, RotatePatch, Revoke, revars
  <2>4. /\ \A u \in Targets : ~Expire(u)
        /\ \A c \in Channels : ~Deliver(c)
        /\ \A i \in Conns : ~AcknowledgeFetch(i) /\ ~AcknowledgePatch(i)
    BY <2>2, Zenon
       DEF Expire, Deliver, BindCompleted, Send, AckReceived, UpdateFetch, UpdatePatch,
           AcknowledgeFetch, AcknowledgePatch
  <2> QED
    BY <1>0, <2>1, <2>3, <2>4, Zenon DEF ReplicaNext, Serve
<1>3. ASSUME NEW t \in Targets, dest'[t] # dest[t]
      PROVE  \E c \in Channels : InFlight(c) /\ channel[c].to = t /\ dest'[t] = channel[c].value
  <2>1. PICK i \in Conns : Store(i) /\ conn[i].to = t /\ dest'[t] = conn[i].value
    BY <1>2, <1>3
  <2> QED
    BY <1>0, <2>1, StoresPayload DEF Store
<1>4. ASSUME NEW c \in Channels, InFlight(c)' PROVE dest'[channel'[c].to] <= channel'[c].value
  <2>1. CASE Grant(c)
    <3>1. channel'[c].to = loop.target /\ channel'[c].value = loop.value /\ dest' = dest
          /\ loop.pc = "grant"
      BY <1>1, <2>1 DEF Grant
    <3> QED
      BY <1>0, <3>1 DEF CalmInv
  <2>2. CASE SamePayload(c)
    <3> DEFINE t == channel[c].to
    <3>1. InFlight(c) /\ channel'[c].to = t /\ channel'[c].value = channel[c].value
      BY <1>4, <2>2 DEF SamePayload
    <3>2. t \in Targets /\ channel[c].value \in Int
      BY <3>1, InFlightKinds DEF Versions
    <3>3. CASE dest'[t] = dest[t]
      BY <1>0, <3>1, <3>3 DEF CalmInv
    <3>4. CASE dest'[t] # dest[t]
      <4>1. PICK d \in Channels : InFlight(d) /\ channel[d].to = t /\ dest'[t] = channel[d].value
        BY <1>3, <3>2, <3>4
      <4>2. d = c
        BY <1>0, <3>1, <4>1, Alone
      <4> QED
        BY <3>1, <3>2, <4>1, <4>2
    <3> QED
      BY <3>3, <3>4
  <2> QED
    BY <2>1, <2>2, PayloadKept
<1>5. ASSUME loop'.pc = "grant" PROVE dest'[loop'.target] <= loop'.value
  <2>1. ASSUME NEW t \in Targets, BeginTarget(t) PROVE dest'[loop'.target] <= loop'.value
    BY <2>1 DEF BeginTarget, BackedInv, RecordInv
  <2>2. ASSUME loop' = loop PROVE dest'[loop'.target] <= loop'.value
    <3>1. loop.target \in Targets /\ Begun(loop.target)
      BY <1>5, <2>2 DEF ReplicaTypeOK, LoopStates, Begun
    <3>2. dest'[loop.target] = dest[loop.target]
      BY <1>0, <1>3, <3>1, Alone
    <3> QED
      BY <1>0, <1>5, <2>2, <3>2 DEF CalmInv
  <2>3. CASE Tick \/ Queue \/ (\E t \in Targets : SkipInFlight(t)) \/ \E c \in Channels : Grant(c)
    <3>1. loop'.pc # "grant"
      BY <2>3, PastLoop DEF Tick, Queue, SkipInFlight, Grant
    <3> QED
      BY <1>5, <3>1
  <2>4. CASE Report \/ RotatePut \/ Rotate \/ Revoke \/ UNCHANGED revars
    BY <2>2, <2>4, Zenon DEF Report, ReportFetch, ReportPatch, RotatePut, Rotate, RotateList, RotatePatch,
                             Revoke, revars, origin
  <2>5. CASE \/ \E u \in Targets : Expire(u)
             \/ \E c \in Channels : Deliver(c)
             \/ \E i \in Conns : Serve(i)
    BY <2>2, <2>5, Zenon
       DEF Expire, Deliver, BindCompleted, Send, AckReceived, UpdateFetch, UpdatePatch, Serve, Store,
           AcknowledgeFetch, AcknowledgePatch, origin
  <2> QED
    BY <1>0, <2>1, <2>3, <2>4, <2>5, Zenon DEF ReplicaNext, LoopStep, Scan
<1>6. ASSUME NEW i \in Conns, conn'[i].st = "sent" PROVE WaitingFor(i)' # {}
  <2>1. ASSUME conn'[i] = conn[i],
               \A c \in Channels : channel[c].st = "waiting" /\ channel[c].conn = i => channel'[c] = channel[c]
        PROVE  WaitingFor(i)' # {}
    <3>1. PICK c \in Channels : channel[c].st = "waiting" /\ channel[c].conn = i
      BY <1>0, <1>6, <2>1 DEF CalmInv, WaitingFor
    <3>2. c \in WaitingFor(i)'
      BY <2>1, <3>1 DEF WaitingFor
    <3> QED
      BY <3>2
  <2>2. ASSUME NEW c \in Channels, NEW j \in Conns, Send(c, j) PROVE WaitingFor(i)' # {}
    <3>1. CASE j = i
      <4>1. channel'[c].st = "waiting" /\ channel'[c].conn = i
        BY <1>1, <2>2, <3>1 DEF Send
      <4>2. c \in WaitingFor(i)'
        BY <4>1 DEF WaitingFor
      <4> QED
        BY <4>2
    <3>2. CASE j # i
      BY <1>1, <2>1, <2>2, <3>2 DEF Send
    <3> QED
      BY <3>1, <3>2
  <2>3. ASSUME NEW j \in Conns, Serve(j) PROVE WaitingFor(i)' # {}
    <3>1. CASE Store(j)
      <4>1. j # i
        BY <1>1, <1>6, <3>1 DEF Store
      <4> QED
        BY <1>1, <2>1, <3>1, <4>1, Zenon DEF Store, WaitingFor
    <3>2. CASE AcknowledgeFetch(j)
      <4>1. j # i
        BY <1>1, <1>6, <3>2 DEF AcknowledgeFetch
      <4> QED
        BY <1>1, <2>1, <3>2, <4>1 DEF AcknowledgeFetch, origin
    <3>3. CASE AcknowledgePatch(j)
      <4>1. j # i
        BY <1>1, <1>6, <3>3 DEF AcknowledgePatch
      <4> QED
        BY <1>1, <2>1, <3>3, <4>1 DEF AcknowledgePatch, origin
    <3> QED
      BY <2>3, <3>1, <3>2, <3>3 DEF Serve
  <2>4. ASSUME NEW c \in Channels,
               Grant(c) \/ BindCompleted(c) \/ AckReceived(c) \/ UpdateFetch(c) \/ UpdatePatch(c)
        PROVE  WaitingFor(i)' # {}
    <3>1. channel[c].st # "waiting" /\ conn' = conn /\ \A d \in Channels \ {c} : channel'[d] = channel[d]
      BY <1>1, <2>4 DEF Grant, NextFree, BindCompleted, AckReceived, UpdateFetch, UpdatePatch
    <3> QED
      BY <2>1, <3>1
  <2>5. CASE Queue
    <3>1. /\ channel[loop.channel].st # "waiting" /\ conn' = conn
          /\ \A d \in Channels \ {loop.channel} : channel'[d] = channel[d]
      BY <1>1, <2>5 DEF Queue, QueueInv
    <3> QED
      BY <2>1, <3>1
  <2>6. CASE UNCHANGED <<channel, conn>>
    BY <2>1, <2>6
  <2>7. CASE \/ Tick \/ (\E t \in Targets : Scan(t) \/ Expire(t)) \/ Report \/ RotatePut \/ Rotate \/ Revoke
             \/ UNCHANGED revars
    BY <2>6, <2>7, Zenon
       DEF Tick, Scan, SkipInFlight, BeginTarget, Expire, Report, ReportFetch, ReportPatch, RotatePut,
           Rotate, RotateList, RotatePatch, Revoke, revars, origin
  <2> QED
    BY <1>0, <2>2, <2>3, <2>4, <2>5, <2>7, Zenon DEF ReplicaNext, LoopStep, Deliver
<1> QED
  BY <1>4, <1>5, <1>6

-----------------------------------------------------------------------------
ReplicaInv == ReplicaTypeOK /\ QueueInv /\ ChannelsBounded /\ BackedInv /\ CalmInv

\* Nothing is under way, and nobody has anything.
LEMMA ReplicaInvInit == ReplicaInit => ReplicaInv
<1> SUFFICES ASSUME ReplicaInit PROVE ReplicaInv
  OBVIOUS
<1>1. ReplicaTypeOK /\ QueueInv
  BY TypeInit, Zenon DEF ReplicaInit, QueueInv, IdleLoop
<1>2. ChannelsBounded
  BY BoundInit
<1>3. BackedInv
  <2>1. /\ \A c \in Channels : channel[c].st = "free"
        /\ \A i \in Conns : conn[i].st = "free"
    BY DEF ReplicaInit, Free
  <2>2. RecordInv
    BY DEF ReplicaInit, RecordInv, Backed, IdleLoop, Idle
  <2> QED
    BY <2>1, <2>2, Zenon DEF BackedInv, Waits, PayloadInv, AckedInv, ConnInv, InFlight
<1>4. CalmInv
  BY DEF ReplicaInit, CalmInv, InFlight, IdleLoop, Free
<1> QED
  BY <1>1, <1>2, <1>3, <1>4 DEF ReplicaInv

LEMMA ReplicaInvStep == ReplicaInv /\ [ReplicaNext]_revars => ReplicaInv'
<1> SUFFICES ASSUME ReplicaInv, [ReplicaNext]_revars PROVE ReplicaInv'
  OBVIOUS
<1> USE DEF ReplicaInv
<1>1. BackedInv'
  <2>1. \A c \in Channels : Waits(c)' /\ PayloadInv(c)' /\ AckedInv(c)'
    BY WaitsStep, PayloadStep, AckedStep DEF BackedInv
  <2>2. (\A i \in Conns : ConnInv(i)') /\ RecordInv'
    BY ConnStep, RecordStep
  <2> QED
    BY <2>1, <2>2 DEF BackedInv
<1> QED
  BY <1>1, TypeStep, BoundStep, CalmStep

\* A target that the record shows in sync at the latest version has the latest
\* value, and the guard bounds what is under way to a target: for any number of
\* targets, channels, rotations, failures and restarts.
THEOREM ReplicasAsRecorded == ReplicaSpec => []SyncedMeansReceived
<1>1. ReplicaInv => SyncedMeansReceived
  <2> SUFFICES ASSUME ReplicaInv PROVE SyncedMeansReceived
    OBVIOUS
  <2>1. SyncedHasValue
    <3> SUFFICES ASSUME NEW t \in Targets \ blurred, remote.current = local, Synced(t)
                 PROVE  dest[t] = local
      BY DEF SyncedHasValue
    <3>1. remote.targets[t].synced \in Int /\ dest[t] \in Int /\ local \in Int
      BY DEF ReplicaInv, ReplicaTypeOK, TargetList, Versions
    <3>2. remote.targets[t].synced <= dest[t] /\ dest[t] <= local
      BY DEF ReplicaInv, BackedInv, RecordInv, Backed
    <3> QED
      BY <3>1, <3>2 DEF Synced
  <2> QED
    BY <2>1 DEF ReplicaInv, SyncedMeansReceived
<1> QED
  BY <1>1, ReplicaInvInit, ReplicaInvStep, PTL DEF ReplicaSpec

\* A destination goes back to an older value only after a guard expired early
\* or a call failed.
THEOREM StoresInOrder == ReplicaSpec => NoLateStore
<1>1. ReplicaInv /\ [ReplicaNext]_revars => \A t \in Targets : dest'[t] < dest[t] => replicaFaults > 0
  <2> SUFFICES ASSUME ReplicaInv, [ReplicaNext]_revars, NEW t \in Targets, dest'[t] < dest[t],
                      replicaFaults = 0
               PROVE  FALSE
    <3>1. ReplicaInv => replicaFaults \in 0..MaxReplicaFaults
      BY DEF ReplicaInv, ReplicaTypeOK
    <3> QED
      BY <3>1, ReplicaAssumption
  <2>1. dest \in [Targets -> Int] /\ dest' # dest
    BY DEF ReplicaInv, ReplicaTypeOK, Versions
  <2>2. PICK i \in Conns : Store(i)
    <3>1. ~(LoopStep \/ Report \/ RotatePut \/ Rotate \/ Revoke \/ UNCHANGED revars)
      BY <2>1, Zenon
         DEF LoopStep, Tick, Queue, Scan, SkipInFlight, BeginTarget, Grant, Report, ReportFetch,
             ReportPatch, RotatePut, Rotate, RotateList, RotatePatch, Revoke, revars
    <3>2. ~Failures
      BY <2>1, Zenon
         DEF Failures, GrantFails, ReportFails, RotateFails, OriginRestart, BindFails, AttemptFails,
             UpdateFails, StoreFails, AcknowledgeFails
    <3>3. /\ \A u \in Targets : ~Expire(u)
          /\ \A c \in Channels : ~Deliver(c)
          /\ \A i \in Conns : ~AcknowledgeFetch(i) /\ ~AcknowledgePatch(i)
      BY <2>1, Zenon
         DEF Expire, Deliver, BindCompleted, Send, AckReceived, UpdateFetch, UpdatePatch,
             AcknowledgeFetch, AcknowledgePatch
    <3> QED
      BY <3>1, <3>2, <3>3, Zenon DEF ReplicaNext, Serve
  <2>3. conn[i].st = "sent" /\ conn[i].to = t /\ dest'[t] = conn[i].value
    BY <2>1, <2>2 DEF Store
  <2>4. PICK c \in Channels : InFlight(c) /\ channel[c].to = t /\ channel[c].value = conn[i].value
    BY <2>3, StoresPayload DEF ReplicaInv
  <2>5. dest[t] <= channel[c].value /\ channel[c].value \in Int
    BY <2>4, InFlightKinds DEF ReplicaInv, CalmInv, Versions
  <2> QED
    BY <2>1, <2>3, <2>4, <2>5
<1>2. ReplicaInv /\ [ReplicaNext]_revars =>
        [\A t \in Targets : dest'[t] < dest[t] => replicaFaults > 0]_revars
  BY <1>1
<1> QED
  BY <1>2, ReplicaInvInit, ReplicaInvStep, PTL DEF ReplicaSpec, NoLateStore
=============================================================================
