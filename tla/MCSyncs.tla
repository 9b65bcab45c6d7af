------------------------------ MODULE MCSyncs ------------------------------
(***************************************************************************)
(* What the agent keeps in step with the control plane and other agents,   *)
(* for TLC: the outbox of results, the policy, and replicated secrets.     *)
(* The modules share no state, so a behaviour of the whole is one of one   *)
(* of them: component names it, the others keep their initial values.      *)
(***************************************************************************)
EXTENDS Outbox, PolicyManager, SecretReplication

VARIABLE component

On(c) == component = c

MCInit == /\ component \in {"outbox", "policy", "replication"}
          /\ Init /\ PolicyInit /\ ReplicaInit

MCNext ==
  /\ UNCHANGED component
  /\ \/ On("outbox") /\ Next /\ UNCHANGED <<povars, revars>>
     \/ On("policy") /\ PolicyNext /\ UNCHANGED <<vars, revars>>
     \/ On("replication") /\ ReplicaNext /\ UNCHANGED <<vars, povars>>

(* Bound: at most three of the replication loop, the deliveries, the          *)
(* acknowledgements to server_api, the reporter and the command are under way.*)
Overlap ==
  LET One(b) == IF b THEN 1 ELSE 0
  IN  One(loop.pc # "idle") + Cardinality({c \in Channels : channel[c].st # "free"})
        + Cardinality({i \in Conns : conn[i].st \in {"stored", "fetched"}})
        + One(reporter.pc # "idle") + One(command.pc # "idle") <= 3

\* The fairness of each module, for its own behaviours.
Fairness ==
  /\ WF_vars(On("outbox") /\ BeginDrain) /\ WF_vars(On("outbox") /\ SkipLine)
  /\ WF_vars(On("outbox") /\ (DeliverFails \/ \E i \in Items : DeliverOk(i)))
  /\ SF_vars(On("outbox") /\ \E i \in Items : DeliverOk(i))
  /\ WF_vars(On("outbox") /\ (Rewrite \/ RewriteFails))
  /\ WF_vars(On("outbox") /\ agent = "cancelled" /\ Exit) /\ WF_vars(On("outbox") /\ Restart)
  /\ WF_povars(On("policy") /\ Reconcile("periodic"))
  /\ \A u \in Updaters : WF_povars(On("policy") /\ Update(u))
  /\ WF_povars(On("policy") /\ (ReadSettings \/ Watch))
  /\ WF_povars(On("policy") /\ UpdateSettings)
  /\ WF_revars(On("replication") /\ LoopStep)
  /\ \A t \in Targets : WF_revars(On("replication") /\ Expire(t))
  /\ \A c \in Channels : WF_revars(On("replication") /\ Deliver(c))
  /\ \A i \in Conns : WF_revars(On("replication") /\ Serve(i))
  /\ WF_revars(On("replication") /\ Report) /\ WF_revars(On("replication") /\ Rotate)

MCSpec == MCInit /\ [][MCNext]_<<component, vars, povars, revars>> /\ Fairness
-----------------------------------------------------------------------------
\* The policy in memory falls back only when two updates overlap, and becomes
\* and stays the latest.
PolicyMovesForward == DowngradeNeedsOverlap /\ EventuallyCurrent

\* A rotated value reaches every target in the end, and a destination goes
\* back to an older one only after a fault.
ReplicasMoveForward == NoLateStore /\ <>[](On("replication") => Replicated)
=============================================================================
