--------------------------- MODULE LeaderAnnounce ---------------------------
(***************************************************************************)
(* Who announces the cluster's API over mDNS, and who finds it: raft       *)
(* leadership is polled (raft/node.go), changes are handed to the mDNS     *)
(* coordinator in a goroutine each, the coordinator starts and stops the   *)
(* leader's announcement (mdns package), and "cluster discover" lists what *)
(* it hears.                                                               *)
(***************************************************************************)
EXTENDS Integers, FiniteSets, SequencesExt

CONSTANTS Members,      \* the cluster's nodes
          MaxLaEvents   \* bound: elections, failed starts, failed stops

VARIABLES leader,       \* raft's leader, or NoOne
          lastKnown,    \* n -> lastKnownRole is leader
          registered,   \* n -> the coordinator is registered and started
          callbacks,    \* n -> callback goroutines not run yet, in order started
          isLeader,     \* n -> Coordinator.isLeader
          onAir,      \* n -> the leader announcement is on the air
          nodeRunning,  \* n -> the node's own announcement is
          excused,      \* ghost: n once missed a change, ran two in the wrong order, or failed
          query,        \* a running "cluster discover": what it has received
          laEvents

lavars == <<leader, lastKnown, registered, callbacks, isLeader, onAir, nodeRunning,
            excused, query, laEvents>>

NoOne == "none"
Off == [open |-> FALSE, leaderNodes |-> {}, clustered |-> {}]

LaInit == /\ leader = NoOne /\ laEvents = 0
          /\ lastKnown = [n \in Members |-> FALSE]
          /\ registered = [n \in Members |-> FALSE]
          /\ callbacks = [n \in Members |-> << >>]
          /\ isLeader = [n \in Members |-> FALSE]
          /\ onAir = [n \in Members |-> FALSE]
          /\ nodeRunning = [n \in Members |-> FALSE]
          /\ excused = [n \in Members |-> FALSE]
          /\ query = Off

Happens == laEvents < MaxLaEvents /\ laEvents' = laEvents + 1

-----------------------------------------------------------------------------
(***************************************************************************)
(* Leadership, and the monitor that polls it every 500 ms.                 *)
(***************************************************************************)
Elected(n) == /\ Happens /\ leader # n
              /\ leader' = n
              /\ UNCHANGED <<lastKnown, registered, callbacks, isLeader, onAir, nodeRunning,
                             excused, query>>

LastKnownRole(n) == leader = n

\* Mutant: only the loss of leadership is passed on.
InvokeLossOnly(n) == IF leader = n THEN callbacks[n] ELSE Append(callbacks[n], FALSE)

\* go callback(isLeader), for the registered coordinator.
InvokeCallbacks(n) == Append(callbacks[n], leader = n)

monitorLeadershipChanges(n) ==
    /\ lastKnown[n] # (leader = n)
    /\ lastKnown' = [lastKnown EXCEPT ![n] = LastKnownRole(n)]
    /\ callbacks' = IF registered[n] THEN [callbacks EXCEPT ![n] = InvokeCallbacks(n)] ELSE callbacks
    /\ excused' = [excused EXCEPT ![n] = @ \/ ~registered[n]]
    /\ UNCHANGED <<leader, registered, isLeader, onAir, nodeRunning, query, laEvents>>

-----------------------------------------------------------------------------
(***************************************************************************)
(* The coordinator.                                                        *)
(***************************************************************************)

\* An announcement finds an address to announce, or does not.
getPrimaryIPv4 == BOOLEAN

\* Coordinator.Start announces the node, whatever its role.
StartNode(n, ok) == nodeRunning' = [nodeRunning EXCEPT ![n] = ok]

\* initializeMDNSCoordinator has fetched the CA certificate; the callback is
\* registered, and the coordinator started.
RegisterLeaderChangeCallback(n) ==
    /\ ~registered[n]
    /\ registered' = [registered EXCEPT ![n] = TRUE]
    /\ \E ok \in getPrimaryIPv4 : /\ StartNode(n, ok)
                                  /\ IF ok THEN UNCHANGED laEvents ELSE Happens
    /\ UNCHANGED <<leader, lastKnown, callbacks, isLeader, onAir, excused, query>>

\* Server.Start and Server.Stop: the announcement, or an error that the
\* coordinator logs.
ServerStart(n, ok) == onAir' = [onAir EXCEPT ![n] = @ \/ ok]
ServerStop(n, ok) == onAir' = [onAir EXCEPT ![n] = @ /\ ~ok]

NoChange(n, v) == isLeader[n] = v

\* OnLeadershipChange, run by any of the waiting goroutines.
OnLeadershipChange(n, i, ok) ==
    /\ i \in DOMAIN callbacks[n]
    /\ IF ok THEN UNCHANGED laEvents ELSE Happens
    /\ LET v == callbacks[n][i]
       IN  /\ callbacks' = [callbacks EXCEPT ![n] = RemoveAt(@, i)]
           /\ isLeader' = [isLeader EXCEPT ![n] = v]
           /\ IF NoChange(n, v) THEN ok /\ UNCHANGED onAir
              ELSE IF v THEN ServerStart(n, ok) ELSE ServerStop(n, ok)
           /\ excused' = [excused EXCEPT ![n] = @ \/ i # 1 \/ ~ok]
    /\ UNCHANGED <<leader, lastKnown, registered, nodeRunning, query>>

-----------------------------------------------------------------------------
(***************************************************************************)
(* "cluster discover".                                                     *)
(***************************************************************************)
Query == /\ ~query.open
         /\ query' = [Off EXCEPT !.open = TRUE]
         /\ UNCHANGED <<leader, lastKnown, registered, callbacks, isLeader, onAir, nodeRunning,
                        excused, laEvents>>

\* discover keeps one leader entry per cluster: the last that arrived.
LeaderNodes(n) == {n}

\* An entry arrives while DiscoverAll collects: a leader's or a node's own.
Receive(n) ==
    /\ query.open
    /\ \/ onAir[n] /\ query' = [query EXCEPT !.leaderNodes = LeaderNodes(n)]
       \/ nodeRunning[n] /\ query' = [query EXCEPT !.clustered = @ \cup {n}]
    /\ UNCHANGED <<leader, lastKnown, registered, callbacks, isLeader, onAir, nodeRunning,
                   excused, laEvents>>

\* What discover prints for a node when the query ends.
Status(n) == IF n \in query.leaderNodes THEN "Leader" ELSE "Member"

DiscoverAll == /\ query.open
               /\ query' = Off
               /\ UNCHANGED <<leader, lastKnown, registered, callbacks, isLeader, onAir, nodeRunning,
                              excused, laEvents>>

LaNext == \/ \E n \in Members : \/ Elected(n)
                                \/ monitorLeadershipChanges(n)
                                \/ RegisterLeaderChangeCallback(n)
                                \/ \E i \in 1 .. 3, ok \in getPrimaryIPv4 : OnLeadershipChange(n, i, ok)
          \/ Query
          \/ \E n \in Members : Receive(n)
          \/ DiscoverAll

LaSpec == LaInit /\ [][LaNext]_lavars

\* The monitor's ticker, startup and the goroutines run; some attempt of an
\* operation ends without error.  Elections and clients do as they like.
LaFairSpec == /\ LaSpec
              /\ \A n \in Members :
                    /\ WF_lavars(monitorLeadershipChanges(n))
                    /\ WF_lavars(RegisterLeaderChangeCallback(n))
                    /\ WF_lavars(\E i \in 1 .. 3 : OnLeadershipChange(n, i, TRUE))

-----------------------------------------------------------------------------
(***************************************************************************)
(* Properties.                                                             *)
(***************************************************************************)

\* "cluster discover" names at most one leader, also while the old leader's
\* announcement is still on the air next to the new one's.
OneLeaderListed == Cardinality({n \in query.clustered : Status(n) = "Leader"}) <= 1

\* When leadership settles, in the end the leader is on the air and nobody
\* else is, but for a node that once changed role before its coordinator was
\* registered, ran two callbacks in the wrong order, or failed to start or stop.
AnnouncerIsLeader ==
    \A n \in Members :
        <>[](leader = n) => <>[](\A m \in Members : (onAir[m] = (m = n)) \/ excused[m])
=============================================================================
