----------------------------- MODULE Membership -----------------------------
(***************************************************************************)
(* Membership changes of a Raft cluster (internal/raft/membership.go).     *)
(* Every HTTP request, join confirmation or peer-list change makes its own *)
(* Membership object on the leader it reaches: nothing orders two of them. *)
(* Each checks the configuration it reads and then calls the raft library, *)
(* so a check may be stale when its call is carried out.                   *)
(*                                                                         *)
(* A call in flight is [step, at, target]: the raft call it makes next, on *)
(* which node, about which server.  Early returns change nothing and are   *)
(* left out.  The library (external) keeps one configuration, carries out  *)
(* the calls of the current leader one at a time, and steps a leader down  *)
(* that was removed; a call may fail with or without its effect.           *)
(***************************************************************************)
EXTENDS Integers, FiniteSets

CONSTANTS Servers, NoServer,
          Callers,     \* requests that can be in flight at once
          MaxVoters,   \* 3 in the code
          MaxReAdds,   \* bound: re-adds of failed demotions not yet settled
          MaxFaults    \* bound: failed raft calls and restarts

ASSUME MembershipAssumption == /\ NoServer \notin Servers
                               /\ IsFiniteSet(Servers) /\ IsFiniteSet(Callers) /\ Callers # {}
                               /\ MaxVoters \in Nat \ {0}
                               /\ MaxReAdds \in Nat /\ MaxFaults \in Nat

VARIABLES config,       \* server |-> "voter", "nonvoter" or "absent"
          clusterLeader,
          maintenance,  \* per node, in memory: "on" or "off"
          request,      \* caller |-> call in flight
          readds,       \* AddVoter calls of failed demotions nobody waits for
          members,      \* history: servers added and not taken out by RemoveNode
          unsettled,    \* history: servers whose demotion ended in an error or a crash
          peak,         \* history: most calls to AddVoter begun by requests and in
                        \* flight at once, at least 1
          faults

mvars == <<config, clusterLeader, maintenance, request, readds, members, unsettled, peak, faults>>

Steps == {"idle", "addVoter", "addNonvoter", "remove", "demoteRemove", "demoteAdd"}
NoRequest == [step |-> "idle", at |-> NoServer, target |-> NoServer]

Voters == {s \in Servers : config[s] = "voter"}
countVoters == Cardinality(Voters)
Present(s) == config[s] # "absent"

\* bootstrap and BootstrapSelf: at most MaxVoters voters, no learner.
MembershipInit ==
    /\ \E S \in SUBSET Servers \ {{}} :
          /\ Cardinality(S) <= MaxVoters
          /\ config = [s \in Servers |-> IF s \in S THEN "voter" ELSE "absent"]
          /\ members = S
    /\ clusterLeader = NoServer
    /\ maintenance = [s \in Servers |-> "off"]
    /\ request = [c \in Callers |-> NoRequest]
    /\ readds = {} /\ unsettled = {} /\ peak = 1 /\ faults = 0

-----------------------------------------------------------------------------
(***************************************************************************)
(* The requests, up to their first raft call: IsLeader and the checks      *)
(* against the configuration.                                              *)
(***************************************************************************)
Adding(calls) == {c \in Callers : calls[c].step = "addVoter"}

Begin(c, step, t) ==
    /\ clusterLeader # NoServer /\ request[c].step = "idle"
    /\ request' = [request EXCEPT ![c] = [step |-> step, at |-> clusterLeader, target |-> t]]
    /\ peak' = LET n == Cardinality(Adding(request')) IN IF n > peak THEN n ELSE peak
    /\ UNCHANGED <<config, clusterLeader, maintenance, readds, members, unsettled, faults>>

\* Mutant: the count may reach the maximum.
AddNodeOneMore(c, t) ==
    /\ ~Present(t)
    /\ Begin(c, IF countVoters <= MaxVoters THEN "addVoter" ELSE "addNonvoter", t)

AddNode(c, t) ==
    /\ ~Present(t)
    /\ Begin(c, IF countVoters < MaxVoters THEN "addVoter" ELSE "addNonvoter", t)

AddNodeAsLearner(c, t) == ~Present(t) /\ Begin(c, "addNonvoter", t)

RemoveNode(c, t) ==
    /\ Present(t)
    /\ config[t] = "voter" => countVoters > 1
    /\ Begin(c, "remove", t)

InMaintenance == clusterLeader # NoServer /\ maintenance[clusterLeader] = "on"

PromoteNode(c, t) ==
    /\ InMaintenance
    /\ config[t] = "nonvoter"
    /\ countVoters < MaxVoters
    /\ Begin(c, "addVoter", t)

DemoteNode(c, t) ==
    /\ InMaintenance
    /\ config[t] = "voter"
    /\ countVoters > 1
    /\ Begin(c, "demoteRemove", t)

\* EnableMaintenanceMode and DisableMaintenanceMode set the leader's own flag.
SetMaintenanceMode(flag) ==
    /\ clusterLeader # NoServer
    /\ maintenance' = [maintenance EXCEPT ![clusterLeader] = flag]
    /\ UNCHANGED <<config, clusterLeader, request, readds, members, unsettled, peak, faults>>

-----------------------------------------------------------------------------
(***************************************************************************)
(* The raft library.                                                       *)
(***************************************************************************)
WithVoter(t) == [config EXCEPT ![t] = "voter"]

\* AddNonvoter leaves a server that is a voter a voter.
WithNonvoter(t) == [config EXCEPT ![t] = IF @ = "voter" THEN @ ELSE "nonvoter"]

\* The library refuses a configuration without voters.
CanRemove(t) == Voters # {t}
Without(t) == [config EXCEPT ![t] = "absent"]

\* The configuration after the call in flight of c.
Effect(c) ==
    LET t == request[c].target
    IN  CASE request[c].step = "addVoter" -> WithVoter(t)
          [] request[c].step \in {"addNonvoter", "demoteAdd"} -> WithNonvoter(t)
          [] OTHER -> Without(t)

Removes(c) == request[c].step \in {"remove", "demoteRemove"}

\* What c's call does once the leader carries it out.
CarriedOut(c) ==
    /\ request[c].at = clusterLeader
    /\ Removes(c) => CanRemove(request[c].target)
    /\ config' = Effect(c)
    /\ clusterLeader' = IF config'[clusterLeader] = "absent" THEN NoServer ELSE clusterLeader
    /\ members' = IF request[c].step = "remove" THEN members \ {request[c].target}
                  ELSE members \cup {request[c].target}

Finish(c) == request' = [request EXCEPT ![c] = NoRequest]

\* The call succeeds; a demotion goes on to add the server back.
CallSucceeds(c) ==
    /\ request[c].step # "idle"
    /\ CarriedOut(c)
    /\ IF request[c].step = "demoteRemove"
       THEN request' = [request EXCEPT ![c].step = "demoteAdd"]
       ELSE Finish(c)
    /\ UNCHANGED <<maintenance, readds, unsettled, peak, faults>>

\* This node leads no more, the library refuses the call, or it is lost,
\* perhaps after it took effect.
Failure(c) ==
    \/ /\ request[c].at # clusterLeader \/ (Removes(c) /\ ~CanRemove(request[c].target))
       /\ UNCHANGED <<config, clusterLeader, members, faults>>
    \/ /\ faults < MaxFaults /\ faults' = faults + 1
       /\ CarriedOut(c) \/ UNCHANGED <<config, clusterLeader, members>>

\* Mutant: a demotion that fails half-way returns no error.
CallFailsSilently(c) ==
    /\ request[c].step # "idle"
    /\ Failure(c)
    /\ Finish(c)
    /\ UNCHANGED <<maintenance, readds, unsettled, peak>>

\* The call fails.  A demotion that could not add the server back fires
\* AddVoter and does not wait for it.
CallFails(c) ==
    LET demotion == request[c].step \in {"demoteRemove", "demoteAdd"}
    IN  /\ request[c].step # "idle"
        /\ request[c].step = "demoteAdd" => Cardinality(readds) < MaxReAdds
        /\ Failure(c)
        /\ readds' = IF request[c].step = "demoteAdd"
                     THEN readds \cup {[at |-> request[c].at, target |-> request[c].target]} ELSE readds
        /\ unsettled' = IF demotion THEN unsettled \cup {request[c].target} ELSE unsettled
        /\ Finish(c)
        /\ UNCHANGED <<maintenance, peak>>

\* The AddVoter of a failed demotion is carried out, or fails unseen.
ReAdd(r) ==
    /\ r \in readds
    /\ readds' = readds \ {r}
    /\ \/ /\ r.at = clusterLeader
          /\ config' = WithVoter(r.target)
          /\ members' = members \cup {r.target}
       \/ UNCHANGED <<config, members>>
    /\ UNCHANGED <<clusterLeader, maintenance, request, unsettled, peak, faults>>

ElectLeader(s) ==
    /\ clusterLeader = NoServer /\ config[s] = "voter"
    /\ clusterLeader' = s
    /\ UNCHANGED <<config, maintenance, request, readds, members, unsettled, peak, faults>>

LoseLeadership ==
    /\ clusterLeader # NoServer
    /\ clusterLeader' = NoServer
    /\ UNCHANGED <<config, maintenance, request, readds, members, unsettled, peak, faults>>

\* TransferLeadership: the target is checked, but the library is asked for a
\* transfer to whichever voter it prefers.
TransferLeadership(t) ==
    /\ clusterLeader # NoServer /\ config[t] = "voter" /\ t # clusterLeader
    /\ clusterLeader' \in Voters \ {clusterLeader}
    /\ UNCHANGED <<config, maintenance, request, readds, members, unsettled, peak, faults>>

\* A node restarts: its flag and its requests are gone.
RestartServer(s) ==
    LET gone == {c \in Callers : request[c].at = s}
    IN  /\ faults < MaxFaults /\ faults' = faults + 1
        /\ clusterLeader' = IF clusterLeader = s THEN NoServer ELSE clusterLeader
        /\ maintenance' = [maintenance EXCEPT ![s] = "off"]
        /\ request' = [c \in Callers |-> IF c \in gone THEN NoRequest ELSE request[c]]
        /\ readds' = {r \in readds : r.at # s}
        /\ unsettled' = unsettled \cup {request[c].target : c \in {d \in gone : request[d].step = "demoteAdd"}}
        /\ UNCHANGED <<config, members, peak>>

MembershipNext ==
    \/ \E c \in Callers : \/ CallSucceeds(c) \/ CallFails(c)
                          \/ \E t \in Servers : \/ AddNode(c, t) \/ AddNodeAsLearner(c, t)
                                                \/ RemoveNode(c, t) \/ PromoteNode(c, t)
                                                \/ DemoteNode(c, t)
    \/ \E flag \in {"on", "off"} : SetMaintenanceMode(flag)
    \/ \E r \in readds : ReAdd(r)
    \/ \E s \in Servers : ElectLeader(s) \/ TransferLeadership(s) \/ RestartServer(s)
    \/ LoseLeadership

MembershipSpec == MembershipInit /\ [][MembershipNext]_mvars

-----------------------------------------------------------------------------
(***************************************************************************)
(* Properties.                                                             *)
(***************************************************************************)

Readd == [at : Servers, target : Servers]
Call == {NoRequest} \cup [step : Steps \ {"idle"}, at : Servers, target : Servers]

\* The cluster's state has its types, and a leader is a voter.
MembershipTypeOK ==
    /\ config \in [Servers -> {"voter", "nonvoter", "absent"}]
    /\ clusterLeader \in Voters \cup {NoServer}
    /\ maintenance \in [Servers -> {"on", "off"}]
    /\ request \in [Callers -> Call]
    /\ readds \subseteq Readd
    /\ members \subseteq Servers /\ unsettled \subseteq Servers
    /\ peak \in 1 .. Cardinality(Callers) /\ faults \in 0 .. MaxFaults

\* How far AddNode's and PromoteNode's unserialised check of the voter count
\* lets the cluster grow past its maximum: by one voter per further AddVoter
\* that was in flight at the same time, and per server whose demotion failed.
\* One request at a time and no failed demotion: never more than MaxVoters.
VoterBound ==
    Cardinality(Voters) <= MaxVoters + (peak - 1) + Cardinality(unsettled)

\* A server leaves the cluster without a RemoveNode only while a DemoteNode of
\* it is between its two calls, or after one that reported an error or was cut
\* off by a restart.
NoSilentLoss ==
    \A s \in members : Present(s) \/ s \in unsettled
        \/ \E c \in Callers : request[c].step = "demoteAdd" /\ request[c].target = s
=============================================================================
