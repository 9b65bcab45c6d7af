--------------------------- MODULE ClusterProofs ---------------------------
(***************************************************************************)
(* The store of a cluster, and who is in the cluster.                      *)
(*                                                                         *)
(* KVStore's invariants, for every set of keys, values and leases and      *)
(* every limit.                                                            *)
(*                                                                         *)
(* How far unserialised membership changes can push the number of voters,  *)
(* and that no server drops out unnoticed: for any cluster, any number of  *)
(* requests in flight and any number of failures and restarts.             *)
(***************************************************************************)
EXTENDS KVStore, Membership, FSMOpsProofs

-----------------------------------------------------------------------------
(***************************************************************************)
(* Membership.                                                             *)
(***************************************************************************)
\* Servers about to be made voters by a request that passed the voter check,
\* and, failed demotions aside, all that are or are about to be.
AimedBy(calls) ==
    {s \in Servers : \E c \in Callers : calls[c].step = "addVoter" /\ calls[c].target = s}
Aimed == AimedBy(request)
Grown == (Voters \cup Aimed) \ unsettled

Types ==
    /\ config \in [Servers -> {"voter", "nonvoter", "absent"}]
    /\ clusterLeader \in Servers \cup {NoServer}
    /\ request \in [Callers -> Call]
    /\ readds \subseteq Readd
    /\ members \subseteq Servers /\ unsettled \subseteq Servers
    /\ peak \in Nat \ {0}

\* The voter check bounds Grown at the moment a request passes it; every other
\* step leaves Grown alone or shrinks it.  A re-add is of an unsettled server.
MembershipInv ==
    /\ Types
    /\ \A r \in readds : r.target \in unsettled
    /\ Cardinality(Grown) <= MaxVoters + (peak - 1)

-----------------------------------------------------------------------------
\* Sets of servers are finite.
LEMMA FiniteServers ==
    /\ \A S \in SUBSET Servers : IsFiniteSet(S) /\ Cardinality(S) \in Nat
    /\ Cardinality(Callers) \in Nat \ {0}
<1>1. \A S \in SUBSET Servers : IsFiniteSet(S) /\ Cardinality(S) \in Nat
  BY MembershipAssumption, FS_Subset, FS_CardinalityType
<1>2. Cardinality(Callers) \in Nat \ {0}
  BY MembershipAssumption, FS_CardinalityType, FS_EmptySet
<1>3. QED
  BY <1>1, <1>2

\* The requests in flight aim at no more servers than there are of them.
LEMMA AimedBound ==
    ASSUME NEW calls
    PROVE  /\ Cardinality(AimedBy(calls)) <= Cardinality(Adding(calls))
           /\ Cardinality(AimedBy(calls)) \in Nat /\ Cardinality(Adding(calls)) \in Nat
<1> DEFINE A == AimedBy(calls)
           P == {c \in Adding(calls) : calls[c].target \in Servers}
           f == [c \in P |-> calls[c].target]
<1>1. IsFiniteSet(Adding(calls)) /\ Cardinality(Adding(calls)) \in Nat
  BY MembershipAssumption, FS_Subset, FS_CardinalityType DEF Adding
<1>2. IsFiniteSet(P) /\ Cardinality(P) <= Cardinality(Adding(calls))
  BY <1>1, FS_Subset, P \in SUBSET Adding(calls)
<1>3. f \in Surjection(P, A)
  BY DEF Surjection, AimedBy, Adding
<1>4. IsFiniteSet(A) /\ Cardinality(A) <= Cardinality(P)
  <2> HIDE DEF P, f, A
  <2> QED BY <1>2, <1>3, FS_Surjection
<1>5. Cardinality(P) \in Nat /\ Cardinality(A) \in Nat
  BY <1>2, <1>4, FS_CardinalityType
<1>6. QED
  BY <1>1, <1>2, <1>4, <1>5

\* Shrinking Grown keeps its bound.
LEMMA Shrinks ==
    ASSUME MembershipInv, Grown' \subseteq Grown, peak' \in Nat, peak' >= peak
    PROVE  Cardinality(Grown') <= MaxVoters + (peak' - 1)
<1>1. IsFiniteSet(Grown) /\ Cardinality(Grown) \in Nat
  BY FiniteServers DEF Grown, Voters, Aimed, AimedBy
<1>2. Cardinality(Grown') <= Cardinality(Grown) /\ Cardinality(Grown') \in Nat
  BY <1>1, FS_Subset, FS_CardinalityType
<1>3. QED
  BY <1>1, <1>2, MembershipAssumption DEF MembershipInv, Types

\* A request that begins counts towards the peak.
LEMMA PeakRises ==
    ASSUME MembershipInv, NEW c \in Callers, NEW step, NEW t, Begin(c, step, t)
    PROVE  /\ peak' \in Nat \ {0} /\ peak' >= peak
           /\ Cardinality(Aimed') <= peak' /\ Cardinality(Aimed') \in Nat
<1>1. /\ Cardinality(Aimed') <= Cardinality(Adding(request'))
      /\ Cardinality(Aimed') \in Nat /\ Cardinality(Adding(request')) \in Nat
  BY AimedBound DEF Aimed
<1>2. QED
  BY <1>1 DEF Begin, MembershipInv, Types

\* A bootstrapped cluster satisfies the invariant.
LEMMA MembershipInvInit == MembershipInit => MembershipInv
<1> SUFFICES ASSUME MembershipInit PROVE MembershipInv
  OBVIOUS
<1>1. PICK S \in SUBSET Servers \ {{}} :
        /\ Cardinality(S) <= MaxVoters
        /\ config = [s \in Servers |-> IF s \in S THEN "voter" ELSE "absent"]
        /\ members = S
  BY DEF MembershipInit
<1>2. Types
  BY <1>1, MembershipAssumption DEF MembershipInit, Types, Call, NoRequest, Readd
<1>3. Voters = S /\ Aimed = {}
  BY <1>1 DEF MembershipInit, Voters, Aimed, AimedBy, NoRequest
<1>4. Grown = S
  BY <1>3 DEF Grown, MembershipInit
<1>5. Cardinality(S) \in Nat
  BY <1>2, FiniteServers
<1>6. QED
  BY <1>1, <1>2, <1>4, <1>5, MembershipAssumption DEF MembershipInv, MembershipInit

-----------------------------------------------------------------------------
\* Starting a request that will make a voter: the check of AddNode and
\* PromoteNode is what bounds Grown.
LEMMA BeginVoter ==
    ASSUME MembershipInv, NEW c \in Callers, NEW t \in Servers,
           countVoters < MaxVoters, Begin(c, "addVoter", t)
    PROVE  MembershipInv'
<1>1. Types'
  BY PeakRises, Zenon DEF MembershipInv, Types, Begin, Call, Steps
<1>2. Cardinality(Aimed') <= peak' /\ peak' \in Nat
  BY PeakRises
<1>3. Voters' = Voters /\ unsettled' = unsettled /\ readds' = readds
  BY DEF Begin, Voters
<1>4. /\ IsFiniteSet(Voters) /\ IsFiniteSet(Aimed') /\ IsFiniteSet(Voters \cup Aimed')
      /\ Cardinality(Voters) \in Nat /\ Cardinality(Aimed') \in Nat
      /\ Cardinality(Voters \cap Aimed') \in Nat
      /\ Cardinality(Voters \cup Aimed') \in Nat
      /\ Grown' \subseteq Voters \cup Aimed' /\ Cardinality(Grown') \in Nat
  <2>1. Voters \subseteq Servers /\ Aimed' \subseteq Servers
    BY DEF Voters, Aimed, AimedBy
  <2>2. Grown' \subseteq Voters \cup Aimed'
    BY <1>3 DEF Grown
  <2>3. QED
    BY <2>1, <2>2, FiniteServers
<1>5. Cardinality(Voters \cup Aimed')
        = Cardinality(Voters) + Cardinality(Aimed') - Cardinality(Voters \cap Aimed')
  BY <1>4, FS_Union
<1>6. Cardinality(Grown') <= Cardinality(Voters \cup Aimed')
  BY <1>4, FS_Subset
<1>7. Cardinality(Voters) < MaxVoters
  BY DEF countVoters
<1>8. Cardinality(Grown') <= MaxVoters + (peak' - 1)
  BY <1>2, <1>4, <1>5, <1>6, <1>7, MembershipAssumption
<1>9. QED
  BY <1>1, <1>3, <1>8 DEF MembershipInv

\* Starting any other request aims at nothing new.
LEMMA BeginOther ==
    ASSUME MembershipInv, NEW c \in Callers, NEW t \in Servers,
           NEW step \in Steps \ {"idle", "addVoter"}, Begin(c, step, t)
    PROVE  MembershipInv'
<1>1. Types' /\ peak' >= peak
  BY PeakRises, Zenon DEF MembershipInv, Types, Begin, Call, Steps
<1>2. Grown' \subseteq Grown
  BY DEF MembershipInv, Types, Begin, Grown, Voters, Aimed, AimedBy
<1>3. QED
  BY <1>1, <1>2, Shrinks DEF MembershipInv, Types, Begin

\* A raft call that is carried out makes a voter only of a server that was
\* aimed at: AddNonvoter makes none, a removal unmakes one.
LEMMA CarriedOutVoters ==
    ASSUME MembershipInv, NEW c \in Callers, request[c].step # "idle", CarriedOut(c)
    PROVE  /\ config' \in [Servers -> {"voter", "nonvoter", "absent"}]
           /\ clusterLeader' \in Servers \cup {NoServer} /\ members' \subseteq Servers
           /\ Voters' \subseteq Voters \cup Aimed
<1>1. request[c] \in [step : Steps \ {"idle"}, at : Servers, target : Servers]
  BY DEF MembershipInv, Types, Call, NoRequest
<1>2. config' \in [Servers -> {"voter", "nonvoter", "absent"}]
  BY <1>1 DEF CarriedOut, Effect, WithVoter, WithNonvoter, Without, MembershipInv, Types
<1>3. clusterLeader' \in Servers \cup {NoServer} /\ members' \subseteq Servers
  BY <1>1 DEF CarriedOut, MembershipInv, Types
<1>4. Voters' \subseteq Voters \cup Aimed
  BY <1>1 DEF CarriedOut, Effect, WithVoter, WithNonvoter, Without, Voters, Aimed, AimedBy,
              MembershipInv, Types
<1>5. QED
  BY <1>2, <1>3, <1>4

\* The end of a call, carried out or not, keeps the invariant.
LEMMA CallIndInv ==
    ASSUME MembershipInv, NEW c \in Callers, CallSucceeds(c) \/ CallFails(c)
    PROVE  MembershipInv'
<1>1. request[c] \in [step : Steps \ {"idle"}, at : Servers, target : Servers]
  BY DEF MembershipInv, Types, Call, NoRequest, CallSucceeds, CallFails
<1>2. /\ config' \in [Servers -> {"voter", "nonvoter", "absent"}]
      /\ clusterLeader' \in Servers \cup {NoServer} /\ members' \subseteq Servers
      /\ Voters' \subseteq Voters \cup Aimed
  <2>1. CASE CarriedOut(c)
    BY <2>1, <1>1, CarriedOutVoters
  <2>2. CASE UNCHANGED <<config, clusterLeader, members>>
    BY <2>2 DEF MembershipInv, Types, Voters
  <2>3. QED
    BY <2>1, <2>2 DEF CallSucceeds, CallFails, Failure
<1>3. request' \in [Callers -> Call] /\ Aimed' \subseteq Aimed
  <2>1. CASE request' = [request EXCEPT ![c] = NoRequest]
    BY <2>1 DEF MembershipInv, Types, Call, NoRequest, Aimed, AimedBy
  <2>2. CASE request' = [request EXCEPT ![c].step = "demoteAdd"]
    <3>1. [request[c] EXCEPT !.step = "demoteAdd"] \in [step : Steps \ {"idle"}, at : Servers, target : Servers]
      BY <1>1 DEF Steps
    <3>2. request' = [request EXCEPT ![c] = [request[c] EXCEPT !.step = "demoteAdd"]]
      BY <2>2
    <3>3. request' \in [Callers -> Call]
      BY <3>1, <3>2 DEF MembershipInv, Types, Call
    <3>4. Aimed' \subseteq Aimed
      BY <3>2, <1>1 DEF MembershipInv, Types, Aimed, AimedBy
    <3>5. QED
      BY <3>3, <3>4
  <2>3. QED
    BY <2>1, <2>2 DEF CallSucceeds, CallFails, Finish
<1>4. /\ readds' \subseteq Readd /\ unsettled \subseteq unsettled' /\ unsettled' \subseteq Servers
      /\ \A r \in readds' : r.target \in unsettled'
  BY <1>1 DEF MembershipInv, Types, Readd, CallSucceeds, CallFails
<1>5. Grown' \subseteq Grown
  BY <1>2, <1>3, <1>4 DEF Grown
<1>6. peak' = peak
  BY DEF CallSucceeds, CallFails
<1>7. QED
  BY <1>2, <1>3, <1>4, <1>5, <1>6, Shrinks DEF MembershipInv, Types

\* The re-add of a failed demotion makes a voter of an unsettled server.
LEMMA ReAddIndInv ==
    ASSUME MembershipInv, NEW r \in readds, ReAdd(r)
    PROVE  MembershipInv'
<1>1. r.target \in unsettled /\ r.target \in Servers
  BY DEF MembershipInv, Types
<1>2. Types'
  BY <1>1 DEF ReAdd, MembershipInv, Types, WithVoter
<1>3. Grown' \subseteq Grown
  BY <1>1 DEF ReAdd, MembershipInv, Types, WithVoter, Grown, Voters, Aimed, AimedBy
<1>4. QED
  BY <1>2, <1>3, Shrinks DEF MembershipInv, Types, ReAdd

\* A restart drops requests and re-adds.
LEMMA RestartIndInv ==
    ASSUME MembershipInv, NEW s \in Servers, RestartServer(s)
    PROVE  MembershipInv'
<1>1. unsettled \subseteq unsettled' /\ unsettled' \subseteq Servers
  <2>1. \A c \in Callers : request[c].step = "demoteAdd" => request[c].target \in Servers
    BY DEF MembershipInv, Types, Call, NoRequest
  <2>2. QED
    BY <2>1 DEF RestartServer, MembershipInv, Types
<1>2. Types'
  BY <1>1 DEF RestartServer, MembershipInv, Types, Call
<1>3. Grown' \subseteq Grown
  BY <1>1 DEF RestartServer, MembershipInv, Types, Grown, Voters, Aimed, AimedBy, NoRequest
<1>4. QED
  <2>1. peak' = peak /\ peak \in Nat
    BY DEF RestartServer, MembershipInv, Types
  <2>2. Cardinality(Grown') <= MaxVoters + (peak' - 1)
    BY <1>3, <2>1, Shrinks
  <2>3. \A r \in readds' : r.target \in unsettled'
    BY <1>1 DEF MembershipInv, RestartServer
  <2>4. QED
    BY <1>2, <2>2, <2>3 DEF MembershipInv

\* Elections, transfers and the maintenance flag touch nothing of it.
LEMMA LeaderIndInv ==
    ASSUME MembershipInv,
           UNCHANGED <<config, request, readds, members, unsettled, peak>>,
           clusterLeader' \in Servers \cup {NoServer}
    PROVE  MembershipInv'
<1>1. Types' /\ Grown' = Grown
  BY DEF MembershipInv, Types, Grown, Voters, Aimed
<1>2. QED
  BY <1>1 DEF MembershipInv

\* Every step keeps the invariant.
LEMMA MembershipInvStep == MembershipInv /\ [MembershipNext]_mvars => MembershipInv'
<1> SUFFICES ASSUME MembershipInv, [MembershipNext]_mvars PROVE MembershipInv'
  OBVIOUS
<1>1. ASSUME NEW c \in Callers, NEW t \in Servers,
             AddNode(c, t) \/ AddNodeAsLearner(c, t) \/ RemoveNode(c, t)
               \/ PromoteNode(c, t) \/ DemoteNode(c, t)
      PROVE  MembershipInv'
  <2>1. CASE AddNode(c, t)
    BY <2>1, BeginVoter, BeginOther DEF AddNode, Steps
  <2>2. CASE PromoteNode(c, t)
    BY <2>2, BeginVoter DEF PromoteNode
  <2>3. CASE AddNodeAsLearner(c, t) \/ RemoveNode(c, t) \/ DemoteNode(c, t)
    BY <2>3, BeginOther DEF AddNodeAsLearner, RemoveNode, DemoteNode, Steps
  <2>4. QED
    BY <1>1, <2>1, <2>2, <2>3
<1>2. ASSUME NEW flag \in {"on", "off"}, SetMaintenanceMode(flag) PROVE MembershipInv'
  BY <1>2, LeaderIndInv DEF SetMaintenanceMode, MembershipInv, Types
<1>3. ASSUME NEW s \in Servers, ElectLeader(s) \/ TransferLeadership(s) PROVE MembershipInv'
  BY <1>3, LeaderIndInv DEF ElectLeader, TransferLeadership, Voters
<1>4. CASE LoseLeadership
  BY <1>4, LeaderIndInv DEF LoseLeadership
<1>5. CASE UNCHANGED mvars
  BY <1>5, LeaderIndInv DEF mvars, MembershipInv, Types
<1>6. QED
  BY <1>1, <1>2, <1>3, <1>4, <1>5, CallIndInv, ReAddIndInv, RestartIndInv DEF MembershipNext

\* The inductive invariant holds in every reachable state.
THEOREM MembershipInvariance == MembershipSpec => []MembershipInv
  BY MembershipInvInit, MembershipInvStep, PTL DEF MembershipSpec

\* What AddNode's and PromoteNode's voter check is worth without a lock: at
\* most one voter over the maximum per further AddVoter that was in flight at
\* the same time, and one per server whose demotion failed half-way.
THEOREM VotersBounded == MembershipSpec => []VoterBound
<1>1. ASSUME MembershipInv PROVE VoterBound
  <2>1. /\ Voters \subseteq Grown \cup unsettled /\ Grown \cup unsettled \subseteq Servers
        /\ Grown \cap unsettled \subseteq Servers /\ Grown \subseteq Servers
        /\ unsettled \subseteq Servers /\ Voters \subseteq Servers
    BY <1>1 DEF Grown, Voters, Aimed, AimedBy, MembershipInv, Types
  <2>2. /\ IsFiniteSet(Grown) /\ IsFiniteSet(unsettled) /\ IsFiniteSet(Grown \cup unsettled)
        /\ Cardinality(Grown) \in Nat /\ Cardinality(unsettled) \in Nat
        /\ Cardinality(Grown \cup unsettled) \in Nat /\ Cardinality(Voters) \in Nat
        /\ Cardinality(Grown \cap unsettled) \in Nat
    BY <2>1, FiniteServers
  <2>3. Cardinality(Voters) <= Cardinality(Grown \cup unsettled)
    BY <2>1, <2>2, FS_Subset
  <2>4. Cardinality(Grown \cup unsettled)
          = Cardinality(Grown) + Cardinality(unsettled) - Cardinality(Grown \cap unsettled)
    BY <2>2, FS_Union
  <2>5. /\ Cardinality(Grown) <= MaxVoters + (peak - 1) /\ peak \in Nat /\ MaxVoters \in Nat
    BY <1>1, MembershipAssumption DEF MembershipInv, Types
  <2>6. QED
    BY <2>2, <2>3, <2>4, <2>5 DEF VoterBound
<1>2. QED
  BY <1>1, MembershipInvariance, PTL

-----------------------------------------------------------------------------
\* A server that is accounted for stays so over a carried-out call, or it is
\* the target of the call and in between the halves of its demotion.
LEMMA NoSilentLossStep ==
    MembershipInv /\ NoSilentLoss /\ [MembershipNext]_mvars => NoSilentLoss'
<1> SUFFICES ASSUME MembershipInv, NoSilentLoss, [MembershipNext]_mvars, NEW s \in members'
             PROVE  \/ config'[s] # "absent" \/ s \in unsettled'
                    \/ \E c \in Callers : request'[c].step = "demoteAdd" /\ request'[c].target = s
  BY DEF NoSilentLoss, Present
<1> USE DEF MembershipInv, Types
<1>1. ASSUME NEW c \in Callers, NEW t \in Servers, NEW step \in Steps, Begin(c, step, t)
      PROVE  \/ config'[s] # "absent" \/ s \in unsettled'
             \/ \E d \in Callers : request'[d].step = "demoteAdd" /\ request'[d].target = s
  BY <1>1 DEF Begin, NoSilentLoss, Present
<1>2. ASSUME NEW c \in Callers, CallSucceeds(c) \/ CallFails(c)
      PROVE  \/ config'[s] # "absent" \/ s \in unsettled'
             \/ \E d \in Callers : request'[d].step = "demoteAdd" /\ request'[d].target = s
  <2>1. request[c] \in [step : Steps \ {"idle"}, at : Servers, target : Servers]
    <3>1. request[c] \in Call /\ request[c].step # "idle"
      BY <1>2 DEF CallSucceeds, CallFails
    <3> QED
      BY <3>1 DEF Call, NoRequest
  <2>2. CASE s = request[c].target
    <3>1. CASE CallSucceeds(c)
      BY <2>1, <2>2, <3>1 DEF CallSucceeds, CarriedOut, Effect, WithVoter, WithNonvoter,
                              Finish, Steps
    <3>2. CASE CallFails(c) /\ CarriedOut(c)
      BY <2>1, <2>2, <3>2 DEF CallFails, CarriedOut, Effect, WithVoter, WithNonvoter, Steps
    <3>3. CASE CallFails(c) /\ UNCHANGED <<config, clusterLeader, members>>
      BY <2>1, <2>2, <3>3 DEF CallFails, Finish, NoSilentLoss, Present
    <3>4. QED
      BY <1>2, <3>1, <3>2, <3>3 DEF CallFails, Failure
  <2>3. CASE s # request[c].target
    <3>1. config'[s] = config[s] /\ s \in members
      <4>1. CASE CarriedOut(c)
        <5>1. config' \in {WithVoter(request[c].target), WithNonvoter(request[c].target),
                           Without(request[c].target)}
          BY <4>1 DEF CarriedOut, Effect
        <5>2. s \in members /\ s \in Servers
          BY <2>1, <2>3, <4>1 DEF CarriedOut
        <5>3. QED
          BY <2>3, <5>1, <5>2 DEF WithVoter, WithNonvoter, Without
      <4>2. CASE UNCHANGED <<config, clusterLeader, members>>
        BY <4>2
      <4>3. QED
        BY <1>2, <4>1, <4>2 DEF CallSucceeds, CallFails, Failure
    <3>2. \A d \in Callers \ {c} : request'[d] = request[d]
      BY <1>2 DEF CallSucceeds, CallFails, Finish
    <3>3. unsettled \subseteq unsettled'
      BY <1>2 DEF CallSucceeds, CallFails
    <3>4. QED
      <4>1. \/ config[s] # "absent" \/ s \in unsettled
            \/ \E d \in Callers : request[d].step = "demoteAdd" /\ request[d].target = s
        BY <3>1 DEF NoSilentLoss, Present
      <4> HIDE DEF MembershipInv, Types
      <4>2. QED
        BY <2>3, <3>1, <3>2, <3>3, <4>1
  <2>4. QED
    BY <2>2, <2>3
<1>3. ASSUME NEW r \in readds, ReAdd(r)
      PROVE  \/ config'[s] # "absent" \/ s \in unsettled'
             \/ \E d \in Callers : request'[d].step = "demoteAdd" /\ request'[d].target = s
  BY <1>3 DEF ReAdd, WithVoter, NoSilentLoss, Present
<1>4. ASSUME NEW n \in Servers, RestartServer(n)
      PROVE  \/ config'[s] # "absent" \/ s \in unsettled'
             \/ \E d \in Callers : request'[d].step = "demoteAdd" /\ request'[d].target = s
  BY <1>4 DEF RestartServer, NoSilentLoss, Present
<1>5. CASE UNCHANGED <<config, request, members, unsettled>>
  BY <1>5 DEF NoSilentLoss, Present
<1>6. QED
  <2>1. CASE \E c \in Callers, t \in Servers :
               AddNode(c, t) \/ AddNodeAsLearner(c, t) \/ RemoveNode(c, t)
                 \/ PromoteNode(c, t) \/ DemoteNode(c, t)
    BY <2>1, <1>1 DEF AddNode, AddNodeAsLearner, RemoveNode, PromoteNode, DemoteNode, Steps
  <2>2. QED
    BY <2>1, <1>2, <1>3, <1>4, <1>5
       DEF MembershipNext, mvars, SetMaintenanceMode, ElectLeader, TransferLeadership, LoseLeadership

\* No server leaves the cluster without a RemoveNode, other than between the
\* two calls of a DemoteNode or after one that did not succeed.
THEOREM NobodyLostSilently == MembershipSpec => []NoSilentLoss
<1>1. MembershipInit => NoSilentLoss
  BY DEF MembershipInit, NoSilentLoss, Present
<1>2. QED
  BY <1>1, MembershipInvariance, NoSilentLossStep, PTL DEF MembershipSpec

-----------------------------------------------------------------------------
(***************************************************************************)
(* The storage budget.  A budget check guards creation only, so what it    *)
(* bounds is the bytes of the keys; each value is bounded on its own.      *)
(***************************************************************************)
KeyBytes(data) == UNION {{k} \X (1 .. SizeOf[k]) : k \in DOMAIN data}

WithinBudget(data) ==
    /\ IsFiniteSet(DOMAIN data)
    /\ \A k \in DOMAIN data : SizeOf[data[k].value] <= MaxValueSize
    /\ IsFiniteSet(KeyBytes(data))
    /\ Cardinality(KeyBytes(data)) <= MaxStorageSize

\* Keys within the budget and values within their limit bound the whole.
LEMMA BudgetBoundsSize ==
    ASSUME NEW s, Good(s), WithinBudget(s.data)
    PROVE  s.currentSize <= MaxStorageSize + MaxValueSize * Cardinality(DOMAIN s.data)
<1> DEFINE all == StoredBytes(s.data)
           keyPart == KeyBytes(s.data)
           valuePart == all \ keyPart
           room == (DOMAIN s.data) \X (1 .. MaxValueSize)
           f == [b \in valuePart |-> <<b[1], b[2] - SizeOf[b[1]]>>]
<1>1. \A k \in DOMAIN s.data : /\ k \in Keys
                               /\ SizeOf[k] \in Nat
                               /\ SizeOf[s.data[k].value] \in Nat
  BY FSMAssumption DEF Good, IsKVStateMachine, IsMap, KVEntry
<1>2. keyPart \subseteq all
  BY <1>1 DEF KeyBytes, StoredBytes, EntryBytes
<1>3. \A b \in valuePart :
         /\ b = <<b[1], b[2]>> /\ b[1] \in DOMAIN s.data /\ b[2] \in Int
         /\ b[2] - SizeOf[b[1]] \in 1 .. MaxValueSize
  <2> SUFFICES ASSUME NEW b \in valuePart
               PROVE  /\ b = <<b[1], b[2]>> /\ b[1] \in DOMAIN s.data /\ b[2] \in Int
                      /\ b[2] - SizeOf[b[1]] \in 1 .. MaxValueSize
    OBVIOUS
  <2>1. PICK k \in DOMAIN s.data : b \in {k} \X (1 .. (SizeOf[k] + SizeOf[s.data[k].value]))
    BY DEF StoredBytes, EntryBytes
  <2>2. b \notin {k} \X (1 .. SizeOf[k])
    BY DEF KeyBytes
  <2>3. b = <<b[1], b[2]>> /\ b[1] = k /\ b[2] \in Int
    BY <2>1
  <2>4. b[2] <= SizeOf[k] + SizeOf[s.data[k].value] /\ ~(b[2] <= SizeOf[k])
    BY <1>1, <2>1, <2>2, <2>3
  <2>5. SizeOf[s.data[k].value] <= MaxValueSize
    BY DEF WithinBudget
  <2>6. QED
    BY <1>1, <2>3, <2>4, <2>5, FSMAssumption
<1>4. f \in Injection(valuePart, room)
  <2>1. f \in [valuePart -> room]
    BY <1>3
  <2>2. ASSUME NEW b \in valuePart, NEW c \in valuePart, f[b] = f[c]
        PROVE  b = c
    <3>1. b[1] = c[1] /\ b[2] - SizeOf[b[1]] = c[2] - SizeOf[c[1]]
      BY <2>2
    <3>2. b[2] = c[2]
      BY <1>1, <1>3, <3>1
    <3>3. QED
      BY <1>3, <3>1, <3>2
  <2>3. QED
    BY <2>1, <2>2 DEF Injection, IsInjective
<1>5. IsFiniteSet(room) /\ Cardinality(room) = Cardinality(DOMAIN s.data) * MaxValueSize
  <2>1. IsFiniteSet(1 .. MaxValueSize) /\ Cardinality(1 .. MaxValueSize) = MaxValueSize
    BY FS_Interval, FSMAssumption
  <2>2. QED
    BY <2>1, FS_Product, Zenon DEF WithinBudget
<1>6. IsFiniteSet(all) /\ Cardinality(all) = s.currentSize
  BY DEF Good, Finite, SizeIsExact
<1> HIDE DEF all, keyPart, room, f
<1>7. IsFiniteSet(valuePart) /\ Cardinality(valuePart) <= Cardinality(room)
  <2> HIDE DEF valuePart
  <2>1. QED
    BY <1>4, <1>5, FS_Injection
<1>8. Cardinality(valuePart) = Cardinality(all) - Cardinality(keyPart)
  <2>1. all \cap keyPart = keyPart
    BY <1>2
  <2>2. QED
    BY <1>6, <2>1, FS_Difference
<1>9. Cardinality(keyPart) <= MaxStorageSize
  BY DEF WithinBudget, keyPart
<1>10. /\ Cardinality(all) \in Nat /\ Cardinality(valuePart) \in Nat
       /\ Cardinality(keyPart) \in Nat /\ Cardinality(DOMAIN s.data) \in Nat
  BY <1>6, <1>7, FS_CardinalityType DEF WithinBudget, keyPart
<1> HIDE DEF valuePart
<1>11. /\ MaxValueSize * Cardinality(DOMAIN s.data) = Cardinality(DOMAIN s.data) * MaxValueSize
       /\ Cardinality(DOMAIN s.data) * MaxValueSize \in Nat
  BY <1>10, FSMAssumption
<1>12. QED
  BY <1>5, <1>6, <1>7, <1>8, <1>9, <1>10, <1>11, FSMAssumption

\* Dropping keys stays within the budget.
LEMMA BudgetSubset ==
    ASSUME NEW data, WithinBudget(data), NEW S \in SUBSET DOMAIN data
    PROVE  WithinBudget(Restrict(data, S))
<1>1. DOMAIN Restrict(data, S) = S /\ \A k \in S : Restrict(data, S)[k] = data[k]
  BY DEF Restrict
<1>2. KeyBytes(Restrict(data, S)) \subseteq KeyBytes(data)
  BY <1>1 DEF KeyBytes
<1>3. IsFiniteSet(S)
  BY FS_Subset DEF WithinBudget
<1>4. /\ IsFiniteSet(KeyBytes(Restrict(data, S)))
      /\ Cardinality(KeyBytes(Restrict(data, S))) <= Cardinality(KeyBytes(data))
  BY <1>2, FS_Subset DEF WithinBudget
<1>5. Cardinality(KeyBytes(Restrict(data, S))) <= MaxStorageSize
  BY <1>4, FS_CardinalityType, FSMAssumption DEF WithinBudget
<1>6. QED
  BY <1>1, <1>3, <1>4, <1>5 DEF WithinBudget

\* Overwriting a key with a value within the limit stays within the budget.
LEMMA BudgetUpdated ==
    ASSUME NEW data, WithinBudget(data), NEW key \in DOMAIN data, NEW entry,
           SizeOf[entry.value] <= MaxValueSize
    PROVE  WithinBudget(Bind(data, key, entry))
<1>1. /\ DOMAIN Bind(data, key, entry) = DOMAIN data
      /\ \A k \in DOMAIN data :
            Bind(data, key, entry)[k] = IF k = key THEN entry ELSE data[k]
  BY DEF Bind
<1>2. KeyBytes(Bind(data, key, entry)) = KeyBytes(data)
  BY <1>1 DEF KeyBytes
<1>3. QED
  BY <1>1, <1>2 DEF WithinBudget

\* Creating a key checks the size of the whole store, its keys included.
LEMMA BudgetCreated ==
    ASSUME NEW s, Good(s), WithinBudget(s.data), NEW key \in Keys \ DOMAIN s.data,
           NEW entry, entry.value \in Values, SizeOf[entry.value] <= MaxValueSize,
           s.currentSize + SizeOf[key] + SizeOf[entry.value] <= MaxStorageSize
    PROVE  WithinBudget(Bind(s.data, key, entry))
<1> DEFINE data == Bind(s.data, key, entry)
<1>1. /\ DOMAIN data = DOMAIN s.data \cup {key}
      /\ \A k \in DOMAIN data : data[k] = IF k = key THEN entry ELSE s.data[k]
  BY DEF Bind
<1>2. /\ IsFiniteSet(StoredBytes(data))
      /\ Cardinality(StoredBytes(data)) <= MaxStorageSize
  BY BytesAdded DEF Good, Finite, SizeIsExact
<1>3. IsFiniteSet(DOMAIN data)
  BY <1>1, FS_AddElement DEF WithinBudget
<1>4. \A k \in DOMAIN data : SizeOf[k] \in Nat /\ SizeOf[data[k].value] \in Nat
  BY <1>1, FSMAssumption DEF Good, IsKVStateMachine, IsMap, KVEntry
<1> HIDE DEF data
<1>5. KeyBytes(data) \subseteq StoredBytes(data)
  BY <1>4 DEF KeyBytes, StoredBytes, EntryBytes
<1>6. IsFiniteSet(KeyBytes(data)) /\ Cardinality(KeyBytes(data)) <= Cardinality(StoredBytes(data))
  BY <1>2, <1>5, FS_Subset
<1>7. Cardinality(KeyBytes(data)) <= MaxStorageSize
  BY <1>2, <1>6, FS_CardinalityType, FSMAssumption
<1>8. \A k \in DOMAIN data : SizeOf[data[k].value] <= MaxValueSize
  BY <1>1 DEF WithinBudget
<1>9. QED
  BY <1>3, <1>6, <1>7, <1>8 DEF WithinBudget, data

\* No command leaves the budget.
LEMMA ApplyWithinBudget ==
    ASSUME NEW s, Good(s), WithinBudget(s.data), NEW cmd \in FSMCommand
    PROVE  WithinBudget(Apply(s, cmd).fsm.data)
<1> DEFINE t == [s EXCEPT !.revision = @ + 1]
<1>1. t.data = s.data /\ t.currentSize = s.currentSize /\ t.leases = s.leases
  BY DEF Good, IsKVStateMachine
<1>2. Good(t)
  BY IncrementReady DEF Ready
<1> HIDE DEF t
<1>3. CASE \E k \in Keys, v \in Values, l \in LeaseIDs \cup {NoLease} : cmd = PutCmd(k, v, l)
  <2>1. PICK k \in Keys, v \in Values, l \in LeaseIDs \cup {NoLease} : cmd = PutCmd(k, v, l)
    BY <1>3
  <2>2. Apply(s, cmd) = applyPut(t, k, v, l)
    BY <2>1 DEF Apply, PutCmd, t
  <2> DEFINE u == updateEntry(t, k, v)
             c == createEntry(t, k, v)
             attach(x) == [x EXCEPT !.leases = attachIfLeased(x.leases, k, l)]
  <2>4. attach(u).data = u.data /\ attach(c).data = c.data
    BY DEF updateEntry, createEntry, WithData
  <2> HIDE DEF attach
  <2>5. SizeOf[v] \in Nat /\ SizeOf[k] \in Nat /\ MaxValueSize \in Nat
    BY FSMAssumption
  <2>6. \/ applyPut(t, k, v, l).fsm = t
        \/ /\ k \in DOMAIN t.data /\ SizeOf[v] <= MaxValueSize
           /\ applyPut(t, k, v, l).fsm = attach(u)
        \/ /\ k \notin DOMAIN t.data /\ SizeOf[v] <= MaxValueSize
           /\ t.currentSize + SizeOf[k] + SizeOf[v] <= MaxStorageSize
           /\ applyPut(t, k, v, l).fsm = attach(c)
    BY <2>5 DEF applyPut, Done, Fail, attach
  <2>7. CASE k \in DOMAIN t.data /\ SizeOf[v] <= MaxValueSize
    <3>1. WithinBudget(u.data)
      BY <1>1, <2>7, BudgetUpdated DEF updateEntry, WithData
    <3>2. QED
      BY <1>1, <2>2, <2>4, <2>6, <2>7, <3>1
  <2>8. CASE /\ k \notin DOMAIN t.data /\ SizeOf[v] <= MaxValueSize
             /\ t.currentSize + SizeOf[k] + SizeOf[v] <= MaxStorageSize
    <3>1. WithinBudget(c.data)
      BY <1>1, <1>2, <2>8, BudgetCreated DEF createEntry, WithData
    <3>2. QED
      BY <1>1, <2>2, <2>4, <2>6, <2>8, <3>1
  <2>9. CASE applyPut(t, k, v, l).fsm = t
    BY <1>1, <2>2, <2>9
  <2>10. QED
    BY <2>6, <2>7, <2>8, <2>9
<1>4. CASE \E k \in Keys : cmd = DeleteCmd(k)
  <2>1. PICK k \in Keys : cmd = DeleteCmd(k)
    BY <1>4
  <2>2. Apply(s, cmd) = applyDelete(t, k)
    BY <2>1 DEF Apply, DeleteCmd, t
  <2>3. applyDelete(t, k).fsm.data \in {t.data, Restrict(t.data, DOMAIN t.data \ {k})}
    BY DEF applyDelete, Done, Fail, WithData
  <2>4. QED
    BY <1>1, <2>2, <2>3, BudgetSubset
<1>5. CASE \E l \in LeaseIDs, b \in BOOLEAN : cmd = GrantCmd(l, b)
  <2>1. PICK l \in LeaseIDs, b \in BOOLEAN : cmd = GrantCmd(l, b)
    BY <1>5
  <2>2. Apply(s, cmd) = applyGrantLease(t, l, b)
    BY <2>1 DEF Apply, GrantCmd, t
  <2>3. applyGrantLease(t, l, b).fsm.data = t.data
    BY <1>2 DEF applyGrantLease, Done, Fail, Good, IsKVStateMachine
  <2>4. QED
    BY <1>1, <2>2, <2>3
<1>6. CASE \E l \in LeaseIDs : cmd = RevokeCmd(l)
  <2>1. PICK l \in LeaseIDs : cmd = RevokeCmd(l)
    BY <1>6
  <2>2. Apply(s, cmd) = applyRevokeLease(t, l)
    BY <2>1 DEF Apply, RevokeCmd, t
  <2>3. \E S \in SUBSET DOMAIN t.data : applyRevokeLease(t, l).fsm.data = Restrict(t.data, S)
    <3>1. CASE l \in DOMAIN t.leases
      BY <3>1 DEF applyRevokeLease, Done, WithData
    <3>2. CASE l \notin DOMAIN t.leases
      <4>1. Restrict(t.data, DOMAIN t.data) = t.data
        BY <1>2 DEF Restrict, Good, IsKVStateMachine, IsMap
      <4>2. QED
        BY <3>2, <4>1 DEF applyRevokeLease, Fail
    <3>3. QED
      BY <3>1, <3>2
  <2>4. QED
    BY <1>1, <2>2, <2>3, BudgetSubset
<1>7. CASE \E k \in Keys, l \in LeaseIDs : cmd = AttachCmd(k, l)
  <2>1. PICK k \in Keys, l \in LeaseIDs : cmd = AttachCmd(k, l)
    BY <1>7
  <2>2. Apply(s, cmd) = applyAttachLease(t, k, l)
    BY <2>1 DEF Apply, AttachCmd, t
  <2>3. applyAttachLease(t, k, l).fsm.data = t.data
    BY <1>2 DEF applyAttachLease, Done, Fail, Good, IsKVStateMachine
  <2>4. QED
    BY <1>1, <2>2, <2>3
<1>8. CASE cmd \in {UnknownCmd, MalformedCmd}
  <2>1. Apply(s, cmd).fsm \in {s, t}
    BY <1>8 DEF Apply, UnknownCmd, MalformedCmd, Fail, t
  <2>2. QED
    BY <1>1, <2>1
<1>9. QED
  BY <1>3, <1>4, <1>5, <1>6, <1>7, <1>8 DEF FSMCommand

-----------------------------------------------------------------------------
(***************************************************************************)
(* The inductive invariant: the state machine in memory is good, and so is *)
(* the one a restart would build from the snapshot.                        *)
(***************************************************************************)
IndInv == /\ Good(fsm)
          /\ WithinBudget(fsm.data)
          /\ IsFSMSnapshot(snapshot)
          /\ Good(Restore(snapshot))
          /\ WithinBudget(snapshot.data)

\* The snapshot of a good state machine is a well-formed snapshot.
LEMMA SnapshotIsSnapshot ==
    ASSUME NEW s, Good(s)
    PROVE  IsFSMSnapshot(Snapshot(s)) /\ Snapshot(s).data = s.data
  BY DEF Good, IsKVStateMachine, IsFSMSnapshot, Snapshot

\* The invariant holds of a new store.
LEMMA InitIndInv == Init => IndInv
<1> SUFFICES ASSUME Init PROVE IndInv
  OBVIOUS
<1>1. Good(NewKVStateMachine)
  BY NewGood
<1>2. WithinBudget(EmptyMap)
  <2>1. DOMAIN EmptyMap = {} /\ KeyBytes(EmptyMap) = {}
    BY DEF EmptyMap, KeyBytes
  <2>2. QED
    BY <2>1, FS_EmptySet, FSMAssumption DEF WithinBudget
<1>3. NewKVStateMachine.data = EmptyMap
  BY DEF NewKVStateMachine
<1>4. QED
  BY <1>1, <1>2, <1>3, SnapshotIsSnapshot, RestoreInvertsSnapshot DEF Init, IndInv

\* Every step preserves it.
LEMMA NextIndInv == IndInv /\ [Next]_vars => IndInv'
<1> SUFFICES ASSUME IndInv, [Next]_vars PROVE IndInv'
  OBVIOUS
<1>1. ASSUME NEW cmd \in FSMCommand, ApplyCommand(cmd)
      PROVE  IndInv'
  <2>1. Good(fsm') /\ WithinBudget(fsm'.data)
    BY <1>1, ApplyGood, ApplyWithinBudget DEF IndInv, ApplyCommand
  <2>2. snapshot' = snapshot
    BY <1>1 DEF ApplyCommand
  <2>3. QED
    BY <2>1, <2>2 DEF IndInv
<1>2. CASE Put
  BY <1>1, <1>2 DEF Put, FSMCommand
<1>3. CASE Delete
  BY <1>1, <1>3 DEF Delete, FSMCommand
<1>4. CASE GrantLease
  BY <1>1, <1>4 DEF GrantLease, FSMCommand
<1>5. CASE RevokeLease
  BY <1>1, <1>5 DEF RevokeLease, FSMCommand
<1>6. CASE AttachLease
  BY <1>1, <1>6 DEF AttachLease, FSMCommand
<1>7. CASE Unrecognised
  BY <1>1, <1>7 DEF Unrecognised, FSMCommand
<1>8. CASE TakeSnapshot
  <2>1. snapshot' = Snapshot(fsm) /\ fsm' = fsm
    BY <1>8 DEF TakeSnapshot
  <2>2. QED
    BY <2>1, SnapshotIsSnapshot, RestoreInvertsSnapshot DEF IndInv
<1>9. CASE Restart
  <2>1. fsm' = Restore(snapshot) /\ snapshot' = snapshot
    BY <1>9 DEF Restart
  <2>2. Restore(snapshot).data = snapshot.data
    BY DEF Restore
  <2>3. QED
    BY <2>1, <2>2 DEF IndInv
<1>10. CASE UNCHANGED vars
  BY <1>10 DEF vars, IndInv
<1>11. QED
  BY <1>2, <1>3, <1>4, <1>5, <1>6, <1>7, <1>8, <1>9, <1>10 DEF Next, Command

\* The inductive invariant holds in every state a replica's state machine can
\* reach by Apply, Snapshot and Restore.
THEOREM Invariance == Spec => []IndInv
  BY InitIndInv, NextIndInv, PTL DEF Spec

\* The Go structs keep their shape through every command, snapshot and restart.
THEOREM TypeCorrect == Spec => []TypeOK
<1>1. IndInv => TypeOK
  BY DEF IndInv, Good, TypeOK
<1>2. QED
  BY <1>1, Invariance, PTL

\* currentSize is always exactly the number of bytes stored (fsm.go's
\* incremental bookkeeping never drifts from Restore's recount).
THEOREM SizeAccountingHolds == Spec => []SizeAccounting
<1>1. IndInv => SizeAccounting
  BY DEF IndInv, Good, SizeAccounting
<1>2. QED
  BY <1>1, Invariance, PTL

\* The revisions applyPut stamps on entries are always ordered and distinct.
THEOREM RevisionOrderHolds == Spec => []RevisionOrder
<1>1. IndInv => RevisionOrder
  BY DEF IndInv, Good, RevisionOrder
<1>2. QED
  BY <1>1, Invariance, PTL

\* The budget is never exceeded by more than one maximal value per key.
THEOREM OvershootBounded == Spec => []OvershootBound
<1>1. IndInv => OvershootBound
  BY BudgetBoundsSize DEF IndInv, OvershootBound
<1>2. QED
  BY <1>1, Invariance, PTL
=============================================================================
