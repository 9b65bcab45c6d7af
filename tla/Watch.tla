------------------------------- MODULE Watch -------------------------------
(***************************************************************************)
(* One watch stream of internal/raft/watch.go over the state machine of    *)
(* one node: watchLoop polls the revision, lists the keys when it moved,   *)
(* and sends an event for every entry modified since the last round.  The  *)
(* poll and the list take the state machine's lock separately, so commands *)
(* commit between them.                                                    *)
(*                                                                         *)
(* An event is [key, revision]; the listed entries are a Go map's values,  *)
(* sent in any order.                                                      *)
(***************************************************************************)
EXTENDS FSMOps

CONSTANTS Watched,      \* the keys with the watcher's prefix
          StartRevisions, \* what callers ask for (0: the current revision)
          BufferSize,   \* capacity of eventCh
          Writes,       \* the commands others may commit
          MaxWrites     \* bound: commands that commit

VARIABLES fsm,
          pc,          \* "none", "created", "poll", "list", "send", "tail", "closed"
          start,       \* startRevision as requested, then watchRevision
          lastSeen,    \* lastSeenRevision
          currentRev,  \* the revision this round polled
          entries,     \* listed entries still to be looked at, as events
          eventCh,     \* the channel
          received,    \* history: the events the reader took, in order
          ctx,         \* "live" or "done": Close, CloseAll or the caller's context
          shutdown,    \* "no" or "yes": the node's shutdownCh is closed
          watchers,    \* is the watcher in the registry: "in" or "out"
          reader       \* "reading" or "gone": does anyone read the events?

loop == <<start, lastSeen, currentRev, entries>>
vars == <<fsm, pc, loop, eventCh, received, ctx, shutdown, watchers, reader>>
env == <<ctx, shutdown, reader>>

Event(k, r) == [key |-> k, revision |-> r]
Events == [key : Watched, revision : 1 .. MaxWrites]

Init == /\ fsm = NewKVStateMachine
        /\ pc = "none" /\ start = 0 /\ lastSeen = 0 /\ currentRev = 0 /\ entries = {}
        /\ eventCh = << >> /\ received = << >>
        /\ ctx = "live" /\ shutdown = "no" /\ watchers = "out" /\ reader = "reading"

-----------------------------------------------------------------------------
(***************************************************************************)
(* The environment: committed commands, the reader, the ways to stop.      *)
(***************************************************************************)
Commit ==
    /\ fsm.revision < MaxWrites
    /\ \E cmd \in Writes : fsm' = Apply(fsm, cmd).fsm
    /\ UNCHANGED <<pc, loop, eventCh, received, env, watchers>>

Receive ==
    /\ reader = "reading" /\ eventCh # << >>
    /\ received' = Append(received, Head(eventCh))
    /\ eventCh' = Tail(eventCh)
    /\ UNCHANGED <<fsm, pc, loop, env, watchers>>

ReaderLeaves ==
    /\ reader' = "gone" /\ reader # "gone"
    /\ UNCHANGED <<fsm, pc, loop, eventCh, received, ctx, shutdown, watchers>>

\* Close, or the end of the context the watcher was created with.
Close ==
    /\ pc # "none" /\ ctx = "live"
    /\ ctx' = "done"
    /\ UNCHANGED <<fsm, pc, loop, eventCh, received, shutdown, watchers, reader>>

\* CloseAll cancels the registered watchers and clears the registry.
CloseAll ==
    /\ watchers = "in"
    /\ ctx' = "done" /\ watchers' = "out"
    /\ UNCHANGED <<fsm, pc, loop, eventCh, received, shutdown, reader>>

Shutdown ==
    /\ shutdown' = "yes" /\ shutdown # "yes"
    /\ UNCHANGED <<fsm, pc, loop, eventCh, received, ctx, watchers, reader>>

-----------------------------------------------------------------------------
(***************************************************************************)
(* The watcher.                                                            *)
(***************************************************************************)
CreateWatcher ==
    /\ pc = "none"
    /\ start' \in StartRevisions
    /\ pc' = "created" /\ watchers' = "in"
    /\ UNCHANGED <<fsm, lastSeen, currentRev, entries, eventCh, received, env>>

\* The goroutine reads the current revision only once it runs.
BeginLoop ==
    /\ pc = "created"
    /\ start' = IF start = 0 THEN fsm.revision ELSE start
    /\ lastSeen' = start'
    /\ pc' = "poll"
    /\ UNCHANGED <<fsm, currentRev, entries, eventCh, received, env, watchers>>

\* A return from the loop: the deferred cleanup.
Return == pc' = "closed" /\ watchers' = "out" /\ UNCHANGED <<fsm, loop, eventCh, received, env>>

Poll ==
    /\ pc = "poll"
    /\ \/ ctx = "done" /\ Return
       \/ /\ ctx = "live"
          /\ currentRev' = fsm.revision
          /\ pc' = IF currentRev' > lastSeen THEN "list" ELSE "tail"
          /\ UNCHANGED <<fsm, start, lastSeen, entries, eventCh, received, env, watchers>>

\* Mutant: entries modified after the poll are left for the next round by
\* their revision, but the round is numbered by the list.
ListRenumbering ==
    /\ pc = "list"
    /\ entries' = {e \in {Event(k, fsm.data[k].modifiedRevision) : k \in Watched \cap DOMAIN fsm.data} :
                      e.revision <= currentRev}
    /\ currentRev' = fsm.revision /\ pc' = "send"
    /\ UNCHANGED <<fsm, start, lastSeen, eventCh, received, env, watchers>>

\* fsm.List(prefix), which copies the entries.
List ==
    /\ pc = "list"
    /\ entries' = {Event(k, fsm.data[k].modifiedRevision) : k \in Watched \cap DOMAIN fsm.data}
    /\ pc' = "send"
    /\ UNCHANGED <<fsm, start, lastSeen, currentRev, eventCh, received, env, watchers>>

\* The blocking send.
Send(e) ==
    /\ pc = "send" /\ e \in entries /\ e.revision > lastSeen
    /\ Len(eventCh) < BufferSize
    /\ eventCh' = Append(eventCh, e)
    /\ entries' = entries \ {e}
    /\ UNCHANGED <<fsm, pc, start, lastSeen, currentRev, received, env, watchers>>

\* The other branch of the select around the send.
SendCancelled ==
    /\ pc = "send" /\ ctx = "done" /\ \E e \in entries : e.revision > lastSeen
    /\ Return

EndRound ==
    /\ pc = "send" /\ \A e \in entries : e.revision <= lastSeen
    /\ entries' = {} /\ lastSeen' = currentRev /\ pc' = "tail"
    /\ UNCHANGED <<fsm, start, currentRev, eventCh, received, env, watchers>>

\* The select at the end of the loop's body; it is the only look at shutdownCh.
LoopTail ==
    /\ pc = "tail"
    /\ \/ (ctx = "done" \/ shutdown = "yes") /\ Return
       \/ /\ ctx = "live" /\ shutdown = "no"
          /\ pc' = "poll"
          /\ UNCHANGED <<fsm, loop, eventCh, received, env, watchers>>

watchLoop == \/ BeginLoop \/ Poll \/ List \/ SendCancelled \/ EndRound \/ LoopTail
             \/ \E e \in Events : Send(e)

Next == \/ Commit \/ Receive \/ ReaderLeaves \/ Close \/ CloseAll \/ Shutdown
        \/ CreateWatcher \/ watchLoop

Spec == Init /\ [][Next]_vars

\* The loop is a goroutine that never sleeps; a reader that stays reads.
FairSpec == Spec /\ WF_vars(watchLoop) /\ WF_vars(Receive)

-----------------------------------------------------------------------------
(***************************************************************************)
(* Properties.                                                             *)
(***************************************************************************)

Sent == received \o eventCh
Looping == pc \notin {"none", "created"}

\* The watcher's state has its types; the channel keeps its capacity.
TypeOK ==
    /\ IsKVStateMachine(fsm)
    /\ pc \in {"none", "created", "poll", "list", "send", "tail", "closed"}
    /\ {start, lastSeen, currentRev} \subseteq 0 .. MaxWrites
    /\ entries \subseteq Events
    /\ eventCh \in Seq(Events) /\ Len(eventCh) <= BufferSize
    /\ received \in Seq(Events)
    /\ ctx \in {"live", "done"} /\ shutdown \in {"no", "yes"}
    /\ watchers \in {"in", "out"} /\ reader \in {"reading", "gone"}

\* Whatever commits between the poll of the revision and the list of the keys,
\* a round never steps over an entry: every watched entry still present that
\* was last modified after the start and up to lastSeenRevision has been sent
\* with that very revision.
NothingSteppedOver ==
    Looping => \A k \in Watched \cap DOMAIN fsm.data :
        LET r == fsm.data[k].modifiedRevision
        IN  start < r /\ r <= lastSeen => Event(k, r) \in Range(Sent)

\* An update is reported again only by the round after the one whose list ran
\* ahead of its poll: no event is sent more than twice, and one that was sent
\* twice is at or below the revision the current round polled.
AtMostTwice ==
    \A i, j \in DOMAIN Sent : i < j /\ Sent[i] = Sent[j] =>
        /\ Sent[i].revision <= currentRev
        /\ \A m \in DOMAIN Sent : Sent[m] = Sent[i] => m \in {i, j}

\* A reader that stays ends up with the last version of every watched key
\* that is there, unless the watch is closed or the node stops.
LatestReceived ==
    \A k \in Watched :
        <>[](\/ ~Looping \/ ctx = "done" \/ shutdown = "yes" \/ reader = "gone"
             \/ k \notin DOMAIN fsm.data
             \/ fsm.data[k].modifiedRevision <= start
             \/ Event(k, fsm.data[k].modifiedRevision) \in Range(received))

\* Closing a watch ends its goroutine and takes it out of the registry, with
\* a full channel nobody reads included; stopping the node does the same as
\* long as the events are read.
CloseEndsLoop ==
    /\ []<>(ctx = "done" => pc = "closed" /\ watchers = "out")
    /\ []<>(shutdown = "yes" /\ pc # "none" => reader = "gone" \/ (pc = "closed" /\ watchers = "out"))
=============================================================================
