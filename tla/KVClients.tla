----------------------------- MODULE KVClients -----------------------------
(***************************************************************************)
(* The callers of the store on one node: the conditional and batched       *)
(* operations of internal/raft/kv.go, the node's HTTP handlers and the     *)
(* ufctl commands behind them, and the PutKV and GetKV system calls.       *)
(* Each is a sequence of linearizable reads and of single commands, and    *)
(* other callers, other nodes and elections come in between.               *)
(*                                                                         *)
(* The cluster is RaftKV seen from this node: the states that the          *)
(* committed commands go through, and how far this node has applied them   *)
(* (its own state is one of those, by RaftKV's ReplicaAgreement).          *)
(***************************************************************************)
EXTENDS FSMOps, SequencesExt

CONSTANTS Callers,      \* goroutines calling into this node
          Requests,     \* the requests they make
          RemoteCmds,   \* what other nodes' callers write
          MaxCommits,   \* bound: commands committed
          MaxKvEvents   \* bound: requests made and elections

VARIABLES states,    \* the states the committed commands go through
          at,        \* the one this node's state machine is in
          leads,     \* this node is the leader
          req,       \* per caller: its request and how far it is
          kvEvents   \* requests and elections so far

kcvars == <<states, at, leads, req, kvEvents>>

Free == [kind |-> "none", pc |-> "free"]

\* What a caller asks for.  ops are the commands it would have committed,
\* expect the revision CompareAndSwap is given.
Request(kind, ops, expect) == [kind |-> kind, ops |-> ops, expect |-> expect]

\* A request under way.  wrote: where its commands are among the committed
\* ones; seen: the state it last read; alone: no other request, and no change
\* of leadership, since it began on a node that had applied everything.
Started(r, alone) == [kind |-> r.kind, ops |-> r.ops, expect |-> r.expect, pc |-> "begin",
                      wrote |-> << >>, seen |-> 0, alone |-> alone, result |-> "none"]

Key(r) == r.ops[1].key
Busy(c) == req[c].pc \notin {"free", "done"}
Local == states[at]

KcInit == /\ states = <<NewKVStateMachine>>
          /\ at = 1 /\ leads \in BOOLEAN
          /\ req = [c \in Callers |-> Free]
          /\ kvEvents = 0

Disturbed(r) == [c \in Callers |-> IF r[c].pc \in {"free", "done"} THEN r[c]
                                   ELSE [r[c] EXCEPT !.alone = FALSE]]

\* The call returns this to its caller.
Returned(r, result) == [r EXCEPT !.pc = "done", !.result = result]

-----------------------------------------------------------------------------
(***************************************************************************)
(* Node.Apply, shared by every write.                                      *)
(***************************************************************************)

\* A node that is not the leader refuses at once.
ApplyRefused(c, cmd) ==
    /\ ~leads
    /\ req' = [req EXCEPT ![c] = Returned(@, "not_leader")]
    /\ UNCHANGED <<states, at, leads, kvEvents>>

\* Mutant: the loop goes on after an error.
CommitNextAnyway(r, err) ==
    IF Len(r.wrote) = Len(r.ops) THEN Returned(r, "nil") ELSE r

\* After one command of a transaction: the first error ends it.
CommitNext(r, err) ==
    IF err # "nil" THEN Returned(r, err)
    ELSE IF Len(r.wrote) = Len(r.ops) THEN Returned(r, "nil") ELSE r

\* What a request does with the state machine's answer to one of its commands:
\* a transaction goes on, PutKV reads its entry back, every other call returns.
AfterWrite(r, err) ==
    CASE r.kind = "commit" -> CommitNext(r, err)
      [] r.kind = "putkv" /\ err = "nil" -> [r EXCEPT !.pc = "readback"]
      [] OTHER -> Returned(r, err)

\* What this node has applied when the future of the next command resolves.
AppliedThrough == Len(states) + 1

\* The leader commits the command, applies everything up to it, and the
\* caller gets the state machine's answer.
ApplyReturns(c, cmd) ==
    /\ leads /\ Len(states) <= MaxCommits
    /\ LET out == Apply(Last(states), cmd)
           mine == [req[c] EXCEPT !.wrote = Append(@, Len(states) + 1)]
       IN  /\ states' = Append(states, out.fsm)
           /\ at' = AppliedThrough
           /\ req' = [req EXCEPT ![c] = AfterWrite(mine, out.err)]
    /\ UNCHANGED <<leads, kvEvents>>

\* Leadership is lost, or the 10 seconds pass, while the command is in
\* flight: the caller gets an error and the command may be committed or not.
ApplyLost(c, cmd) ==
    /\ leads /\ leads' = FALSE
    /\ \/ /\ Len(states) <= MaxCommits
          /\ states' = Append(states, Apply(Last(states), cmd).fsm)
          /\ req' = [Disturbed(req) EXCEPT
                       ![c] = Returned([req[c] EXCEPT !.wrote = Append(@, Len(states) + 1)], "lost")]
       \/ /\ UNCHANGED states
          /\ req' = [Disturbed(req) EXCEPT ![c] = Returned(req[c], "lost")]
    /\ UNCHANGED <<at, kvEvents>>

Write(c, cmd) == \/ ApplyRefused(c, cmd)
                 \/ ApplyReturns(c, cmd)
                 \/ ApplyLost(c, cmd)

\* KV.Put looks at the key before it bothers raft.
KVPut(c, cmd) ==
    IF isValidKey(cmd.key) THEN Write(c, cmd)
    ELSE /\ req' = [req EXCEPT ![c] = Returned(@, "ErrInvalidKey")]
         /\ UNCHANGED <<states, at, leads, kvEvents>>

\* KV.Delete does not.
KVDelete(c, cmd) == Write(c, cmd)

-----------------------------------------------------------------------------
(***************************************************************************)
(* Reads of this node's state machine.                                     *)
(***************************************************************************)
Get(key) == IF key \in DOMAIN Local.data THEN {Local.data[key]} ELSE {}

List(keys) == {Local.data[k] : k \in keys \cap DOMAIN Local.data}

\* CompareAndSwap's test: the entry's Revision is the one given, or there is
\* no entry and 0 was given.
RevisionMatches(r, e) ==
    IF e = {} THEN r.expect = 0 ELSE \A entry \in e : entry.revision = r.expect

\* What a request does with the entry it read, in a set that may be empty: a
\* conditional put goes on if its condition holds, GetKV and PutKV answer it.
AfterRead(r, e) ==
    CASE r.kind = "swap" -> IF RevisionMatches(r, e) THEN [r EXCEPT !.pc = "put"]
                            ELSE Returned(r, "revision_mismatch")
      [] r.kind = "create" -> IF e = {} THEN [r EXCEPT !.pc = "put"] ELSE Returned(r, "exists")
      [] OTHER -> Returned(r, IF e = {} THEN "ErrKeyNotFound" ELSE "nil")

\* KV.getLinearizable: an error unless this node leads, else what its own
\* state machine holds.
getLinearizable(c, key) ==
    /\ req' = [req EXCEPT ![c] = IF leads THEN AfterRead([@ EXCEPT !.seen = at], Get(key))
                                 ELSE Returned(@, "not_leader")]
    /\ UNCHANGED <<states, at, leads, kvEvents>>

\* ClusterServer.GetKV answers the entry it read, or that there is none.
GetKV(c) ==
    /\ req[c].kind = "getkv" /\ req[c].pc = "begin"
    /\ getLinearizable(c, Key(req[c]))

\* handleRaftKVGet and handleRaftKVList read without asking who leads unless
\* the query says ?mode=linearizable.
handleRaftKVGet(c) ==
    /\ req[c].kind = "get" /\ req[c].pc = "begin"
    /\ req' = [req EXCEPT ![c] = Returned([@ EXCEPT !.seen = at],
                                          IF Get(Key(req[c])) = {} THEN "ErrKeyNotFound" ELSE "nil")]
    /\ UNCHANGED <<states, at, leads, kvEvents>>

handleRaftKVList(c) ==
    /\ req[c].kind = "list" /\ req[c].pc = "begin"
    /\ req' = [req EXCEPT ![c] = Returned([@ EXCEPT !.seen = at],
                                          IF List({Key(req[c])}) = {} THEN "empty" ELSE "nil")]
    /\ UNCHANGED <<states, at, leads, kvEvents>>

-----------------------------------------------------------------------------
(***************************************************************************)
(* Conditional puts: a linearizable read, then a plain put.                *)
(***************************************************************************)

CompareAndSwap(c) ==
    /\ req[c].kind = "swap" /\ req[c].pc = "begin"
    /\ getLinearizable(c, Key(req[c]))

PutIfNotExists(c) ==
    /\ req[c].kind = "create" /\ req[c].pc = "begin"
    /\ getLinearizable(c, Key(req[c]))

ConditionalPut(c) ==
    /\ req[c].kind \in {"swap", "create"} /\ req[c].pc = "put"
    /\ KVPut(c, req[c].ops[1])

\* KV.Commit: one command after another.
Commit(c) ==
    /\ req[c].kind = "commit" /\ req[c].pc = "begin"
    /\ Write(c, req[c].ops[Len(req[c].wrote) + 1])

-----------------------------------------------------------------------------
(***************************************************************************)
(* System calls and HTTP handlers that write.                              *)
(***************************************************************************)

\* ClusterServer.PutKV puts, then reads the entry back for its version.
PutKV(c) ==
    /\ req[c].kind = "putkv" /\ req[c].pc = "begin"
    /\ KVPut(c, req[c].ops[1])

ReadBack(c) ==
    /\ req[c].kind = "putkv" /\ req[c].pc = "readback"
    /\ getLinearizable(c, Key(req[c]))

\* An empty value fails the request's binding (400); not_leader is answered
\* 307, any other error 500.
handleRaftKVPut(c) ==
    /\ req[c].kind = "put" /\ req[c].pc = "begin"
    /\ IF SizeOf[req[c].ops[1].value] = 0
       THEN /\ req' = [req EXCEPT ![c] = Returned(@, "bad_request")]
            /\ UNCHANGED <<states, at, leads, kvEvents>>
       ELSE KVPut(c, req[c].ops[1])

handleRaftKVDelete(c) ==
    /\ req[c].kind = "delete" /\ req[c].pc = "begin"
    /\ KVDelete(c, req[c].ops[1])

StatusCode(result) == CASE result = "nil" -> 200
                        [] result = "bad_request" -> 400
                        [] result = "not_leader" -> 307
                        [] OTHER -> 500

\* Client.DoRequest: what ufctl cluster kv put and delete print.  Anything
\* but a 2xx is a failure.
DoRequest(status) == status \in 200 .. 299

-----------------------------------------------------------------------------
(***************************************************************************)
(* Callers, and the rest of the cluster.                                   *)
(***************************************************************************)
Begin(c, r) ==
    /\ ~Busy(c) /\ kvEvents < MaxKvEvents
    /\ kvEvents' = kvEvents + 1
    /\ LET alone == (\A d \in Callers : ~Busy(d)) /\ at = Len(states)
       IN  req' = [Disturbed(req) EXCEPT ![c] = Started(r, alone)]
    /\ UNCHANGED <<states, at, leads>>

\* Another node leads: its callers' commands are committed.
RemoteCommit(cmd) ==
    /\ ~leads /\ Len(states) <= MaxCommits
    /\ states' = Append(states, Apply(Last(states), cmd).fsm)
    /\ UNCHANGED <<at, leads, req, kvEvents>>

CatchUp == /\ at < Len(states)
           /\ at' = at + 1
           /\ UNCHANGED <<states, leads, req, kvEvents>>

\* An election: a new leader holds every committed command, but need not
\* have applied them.
LeaderChange == /\ kvEvents < MaxKvEvents
                /\ kvEvents' = kvEvents + 1
                /\ leads' = ~leads
                /\ req' = Disturbed(req)
                /\ UNCHANGED <<states, at>>

Step(c) == \/ GetKV(c)
           \/ handleRaftKVGet(c)
           \/ handleRaftKVList(c)
           \/ CompareAndSwap(c)
           \/ PutIfNotExists(c)
           \/ ConditionalPut(c)
           \/ Commit(c)
           \/ PutKV(c)
           \/ ReadBack(c)
           \/ handleRaftKVPut(c)
           \/ handleRaftKVDelete(c)

KcNext == \/ \E c \in Callers, r \in Requests : Begin(c, r)
          \/ \E c \in Callers : Step(c)
          \/ \E cmd \in RemoteCmds : RemoteCommit(cmd)
          \/ CatchUp
          \/ LeaderChange

KcSpec == KcInit /\ [][KcNext]_kcvars

-----------------------------------------------------------------------------
(***************************************************************************)
(* Properties.                                                             *)
(***************************************************************************)

\* Whatever callers, handlers and system calls do, the store goes through the
\* states of KVStore one command at a time: nothing they offer, the
\* transaction included, takes a larger step.  This is Store!DurableSpec: a
\* step that leaves states alone leaves the store alone.
Store == INSTANCE KVStore WITH fsm <- Last(states), MaxRevision <- MaxCommits,
                               snapshot <- Snapshot(NewKVStateMachine)
ImplementsStore == Store!Init /\ [][states' # states => Store!Command]_(Store!vars)

Finished(c) == req[c].pc = "done"
\* The state a committed command of a request was applied to.
Before(i) == states[i - 1]

\* What a caller is told agrees with what it left in the log.  Success means
\* that every command was committed and accepted; a refusal (a failed condition, a bad
\* request, a node that does not lead) that none was, except that a
\* transaction keeps what it had committed and PutKV may fail in its
\* read-back; commands are committed in order and the first rejected one is
\* the last.
AnswersMatchLog ==
    \A c \in Callers : Finished(c) =>
       LET r == req[c]
           writes == r.kind \in {"swap", "create", "commit", "putkv", "put", "delete"}
           ok(i) == Apply(Before(r.wrote[i]), r.ops[i]).err = "nil"
       IN  /\ writes /\ r.result = "nil" => Len(r.wrote) = Len(r.ops) /\ \A i \in 1 .. Len(r.ops) : ok(i)
           /\ r.result \in {"revision_mismatch", "exists", "bad_request", "ErrInvalidKey"} => r.wrote = << >>
           /\ r.result = "not_leader" /\ r.kind \in {"swap", "create"} => r.wrote = << >>
           /\ \A i \in 1 .. Len(r.wrote) - 1 : ok(i)
           /\ \A i \in 1 .. Len(r.wrote) :
                 /\ states[r.wrote[i]] = Apply(Before(r.wrote[i]), r.ops[i]).fsm
                 /\ \A j \in 1 .. i - 1 : r.wrote[j] < r.wrote[i]

\* A 307 of the HTTP handlers may be retried at the leader: the request left
\* nothing behind, so the retry cannot write twice.  ufctl calls it a failure.
RedirectIsSafe ==
    \A c \in Callers : Finished(c) /\ req[c].kind \in {"put", "delete"} =>
        /\ StatusCode(req[c].result) = 307 => req[c].wrote = << >>
        /\ DoRequest(StatusCode(req[c].result)) => req[c].wrote # << >>

\* A conditional put that had the node to itself under one leadership did what
\* its name says: PutIfNotExists created the key, CompareAndSwap replaced an
\* entry that carried the revision it was given (or created one, given 0).
ConditionHeldWhenAlone ==
    \A c \in Callers :
       LET r == req[c]
       IN  Finished(c) /\ r.kind \in {"swap", "create"} /\ r.alone /\ r.result = "nil" =>
             LET old == Before(r.wrote[1]).data
             IN  IF Key(r) \in DOMAIN old
                 THEN r.kind = "swap" /\ old[Key(r)].revision = r.expect
                 ELSE r.kind = "create" \/ r.expect = 0

\* PutKV's read-back is never older than its own put: a version it reports
\* belongs to this put or to a later writer's.
ReadBackIsCurrent ==
    \A c \in Callers : Finished(c) /\ req[c].kind = "putkv" /\ req[c].result = "nil" =>
        states[req[c].seen].data[Key(req[c])].modifiedRevision >= states[req[c].wrote[1]].revision

\* kv.go: "CompareAndSwap atomically updates a key only if the current
\* revision matches", and types.go calls Revision the "revision number when
\* this entry was created/updated".  So a successful swap replaced an entry
\* that nobody had updated since the revision it was given.
SwapIsAtomic ==
    \A c \in Callers :
       LET r == req[c]
       IN  Finished(c) /\ r.kind = "swap" /\ r.result = "nil" /\ r.alone =>
             LET old == Before(r.wrote[1]).data
             IN  IF Key(r) \in DOMAIN old THEN old[Key(r)].modifiedRevision = r.expect
                 ELSE r.expect = 0
=============================================================================
