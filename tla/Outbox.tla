------------------------------- MODULE Outbox -------------------------------
(***************************************************************************)
(* DeliveryOutbox (internal/agent/outbox.go): deployment results and       *)
(* progress reports are appended to a JSONL file, and one drain goroutine  *)
(* delivers them to the server.  drainOnce reads the file under the mutex, *)
(* delivers without it, and takes it again to rewrite the file; Spine      *)
(* handlers (wiring.go) enqueue in between.                                *)
(*                                                                         *)
(* An item is the number of the Enqueue call that wrote it.  A line of the *)
(* file is an item or Garbage, what a write that failed half way leaves: it*)
(* has no newline, so the next item written continues it.                  *)
(***************************************************************************)
EXTENDS Integers, Sequences, Functions

CONSTANTS MaxItems,   \* bound: Enqueue calls
          MaxFaults,  \* bound: failed file operations, cancellations, crashes
          Unhandled,  \* items of a type nobody registered a handler for
          Oversized   \* items whose line is longer than bufio.Scanner's buffer

Items == 1 .. MaxItems
Garbage == 0

ASSUME OutboxAssumption == /\ MaxItems \in Nat /\ MaxFaults \in Nat
                           /\ Unhandled \subseteq Items /\ Oversized \subseteq Items

VARIABLES file,       \* the lines of the outbox file (<< >>: no file)
          tail,       \* how the file ends: in a "newline", or "torn"
          agent,      \* "up", "cancelled" (its context is) or "down"
          drain,      \* the drain goroutine: "idle", "deliver", "rewrite", "gone"
          todo,       \* its items still to deliver in this cycle
          remaining,  \* its items that failed in this cycle
          attempt,    \* failed attempts at the head of todo
          next,       \* Enqueue calls so far
          accepted,   \* history: items whose Enqueue returned nil
          exposed,    \* history: items written during a cycle or on a torn line
          acks,       \* history: per item, how often its handler returned nil
          faults

vars == <<file, tail, agent, drain, todo, remaining, attempt, next,
          accepted, exposed, acks, faults>>
cycle == <<drain, todo, remaining, attempt>>

Done == {i \in Items : acks[i] > 0}
Fault == faults < MaxFaults /\ faults' = faults + 1

Init == /\ file = << >> /\ tail = "newline"
        /\ agent = "up" /\ drain = "idle"
        /\ todo = << >> /\ remaining = << >> /\ attempt = 0
        /\ next = 0 /\ accepted = {} /\ exposed = {}
        /\ acks = [i \in Items |-> 0]
        /\ faults = 0

-----------------------------------------------------------------------------
(***************************************************************************)
(* Enqueue, under the mutex: one open, one write.                          *)
(***************************************************************************)
Enqueue ==
    /\ agent # "down" /\ next < MaxItems
    /\ next' = next + 1
    /\ accepted' = accepted \cup {next'}
    /\ exposed' = IF tail = "torn" \/ drain \in {"deliver", "rewrite"}
                  THEN exposed \cup {next'} ELSE exposed
    /\ file' = IF tail = "torn" THEN file ELSE Append(file, next')
    /\ tail' = "newline"
    /\ UNCHANGED <<agent, drain, todo, remaining, attempt, acks, faults>>

\* The open fails, or the write stops half way.  The caller then reports the
\* result directly, which may fail as well.
EnqueueFails ==
    /\ agent # "down" /\ next < MaxItems
    /\ Fault
    /\ next' = next + 1
    /\ \/ UNCHANGED <<file, tail>>
       \/ /\ file' = IF tail = "torn" THEN file ELSE Append(file, Garbage)
          /\ tail' = "torn"
    /\ \/ UNCHANGED acks
       \/ acks' = [acks EXCEPT ![next'] = @ + 1]
    /\ UNCHANGED <<agent, drain, todo, remaining, attempt, accepted, exposed>>

-----------------------------------------------------------------------------
(***************************************************************************)
(* drainOnce.                                                              *)
(***************************************************************************)

\* readItems: a line too long for the scanner ends it with an error, and the
\* cycle with it; no item, no cycle.
BeginDrain ==
    /\ agent # "down" /\ drain = "idle"
    /\ Range(file) \cap Oversized = {}
    /\ Range(file) \cap Items # {}
    /\ drain' = "deliver"
    /\ todo' = file
    /\ remaining' = << >> /\ attempt' = 0
    /\ UNCHANGED <<file, tail, agent, next, accepted, exposed, acks, faults>>

\* The batch without its head.
Advance ==
    /\ todo' = Tail(todo) /\ attempt' = 0
    /\ drain' = IF Tail(todo) = << >> THEN "rewrite" ELSE "deliver"

\* readItems skips a malformed line, drainOnce an item without a handler.
SkipLine ==
    /\ drain = "deliver" /\ Head(todo) \in Unhandled \cup {Garbage}
    /\ Advance
    /\ UNCHANGED <<file, tail, agent, remaining, next, accepted, exposed, acks, faults>>

DeliverOk(i) ==
    /\ drain = "deliver" /\ Head(todo) = i /\ i \notin Unhandled
    /\ acks' = [acks EXCEPT ![i] = @ + 1]
    /\ Advance
    /\ UNCHANGED <<file, tail, agent, remaining, next, accepted, exposed, faults>>

\* Mutant: a failed item is not kept for the next cycle.
DeliverFailsDropping ==
    /\ drain = "deliver" /\ Head(todo) \in Items \ Unhandled
    /\ IF attempt < 2
       THEN attempt' = attempt + 1 /\ UNCHANGED <<drain, todo, remaining>>
       ELSE Advance /\ UNCHANGED remaining
    /\ UNCHANGED <<file, tail, agent, next, accepted, exposed, acks, faults>>

\* Mutant: failed items are collected latest first.
DeliverFailsReversing ==
    /\ drain = "deliver" /\ Head(todo) \in Items \ Unhandled
    /\ IF attempt < 2
       THEN attempt' = attempt + 1 /\ UNCHANGED <<drain, todo, remaining>>
       ELSE Advance /\ remaining' = <<Head(todo)>> \o remaining
    /\ UNCHANGED <<file, tail, agent, next, accepted, exposed, acks, faults>>

\* deliverWithBackoff: three attempts, fewer when the context is cancelled
\* while waiting; then the item is kept for the next cycle.
DeliverFails ==
    /\ drain = "deliver" /\ Head(todo) \in Items \ Unhandled
    /\ \/ /\ attempt < 2
          /\ attempt' = attempt + 1
          /\ UNCHANGED <<drain, todo, remaining>>
       \/ /\ attempt = 2 \/ agent = "cancelled"
          /\ Advance
          /\ remaining' = Append(remaining, Head(todo))
    /\ UNCHANGED <<file, tail, agent, next, accepted, exposed, acks, faults>>

\* writeItems: a temporary file renamed over the outbox, or the outbox removed.
Rewrite ==
    /\ drain = "rewrite"
    /\ file' = remaining /\ tail' = "newline"
    /\ drain' = "idle"
    /\ UNCHANGED <<agent, todo, remaining, attempt, next, accepted, exposed, acks, faults>>

RewriteFails ==
    /\ drain = "rewrite"
    /\ Fault
    /\ drain' = "idle"
    /\ UNCHANGED <<file, tail, agent, todo, remaining, attempt, next, accepted, exposed, acks>>

-----------------------------------------------------------------------------
(***************************************************************************)
(* Shutdown, crash and restart of the agent.                               *)
(***************************************************************************)
Cancel ==
    /\ agent = "up"
    /\ Fault
    /\ agent' = "cancelled"
    /\ UNCHANGED <<file, tail, cycle, next, accepted, exposed, acks>>

\* drainLoop returns between cycles.
DrainLoopEnds ==
    /\ agent = "cancelled" /\ drain = "idle"
    /\ drain' = "gone"
    /\ UNCHANGED <<file, tail, agent, todo, remaining, attempt, next, accepted, exposed, acks, faults>>

\* The process exits, after a cancellation or by a crash.
Exit ==
    /\ \/ agent = "cancelled" /\ UNCHANGED faults
       \/ agent = "up" /\ Fault
    /\ agent' = "down" /\ drain' = "gone"
    /\ UNCHANGED <<file, tail, todo, remaining, attempt, next, accepted, exposed, acks>>

\* A new process; drainLoop starts with a cycle.
Restart ==
    /\ agent = "down"
    /\ agent' = "up" /\ drain' = "idle"
    /\ UNCHANGED <<file, tail, todo, remaining, attempt, next, accepted, exposed, acks, faults>>

Next == \/ Enqueue \/ EnqueueFails
        \/ BeginDrain \/ SkipLine \/ (\E i \in Items : DeliverOk(i)) \/ DeliverFails
        \/ Rewrite \/ RewriteFails
        \/ Cancel \/ DrainLoopEnds \/ Exit \/ Restart

Spec == Init /\ [][Next]_vars

\* The drain goroutine runs (its ticker fires, its attempts return), a stopped
\* agent exits and is restarted by its service manager, and a server that is
\* asked again and again answers every item some time.
FairSpec ==
    /\ Spec
    /\ WF_vars(BeginDrain) /\ WF_vars(SkipLine)
    /\ WF_vars(DeliverFails \/ \E i \in Items : DeliverOk(i))
    /\ SF_vars(\E i \in Items : DeliverOk(i))
    /\ WF_vars(Rewrite \/ RewriteFails)
    /\ WF_vars(agent = "cancelled" /\ Exit) /\ WF_vars(Restart)

-----------------------------------------------------------------------------
(***************************************************************************)
(* Properties.                                                             *)
(***************************************************************************)

\* The outbox's state has its types.
TypeOK ==
    /\ file \in Seq(Items \cup {Garbage}) /\ tail \in {"newline", "torn"}
    /\ agent \in {"up", "cancelled", "down"}
    /\ drain \in {"idle", "deliver", "rewrite", "gone"}
    /\ todo \in Seq(Items \cup {Garbage}) /\ remaining \in Seq(Items) /\ attempt \in 0 .. 2
    /\ next \in 0 .. MaxItems /\ accepted \subseteq 1 .. next /\ exposed \subseteq accepted
    /\ acks \in [Items -> Nat] /\ faults \in 0 .. MaxFaults

\* "An entry is removed from the file only after the handler returns nil", as
\* far as it holds: an accepted item that was not enqueued during a drain
\* cycle or right after a failed write stays in the file until it has been
\* delivered, across failed deliveries, failed rewrites, crashes and restarts.
KeptUntilDelivered ==
    accepted \ (exposed \cup Done \cup Unhandled) \subseteq Range(file)

\* Items are "replayed in order": the file, and the batch a cycle works on,
\* list every item once and in the order they were enqueued.
InEnqueueOrder ==
    LET ordered(s) == \A i, j \in DOMAIN s :
                         i < j /\ s[i] # Garbage /\ s[j] # Garbage => s[i] < s[j]
    IN  ordered(file) /\ ordered(remaining \o todo)

\* A delivered item is removed: it is only delivered again when a rewrite
\* failed or the process died between the delivery and the rewrite.
RedeliveredOnlyOnFault == \A i \in Items : acks[i] <= 1 + faults

\* Items are delivered in order and, but for faults, once.
DeliveredInOrder == InEnqueueOrder /\ RedeliveredOnlyOnFault

\* Every accepted item is delivered eventually, across restarts and outages,
\* unless it was exposed, its type has no handler, or a line longer than the
\* scanner's buffer got into the file, which stops the delivery of all others.
EventuallyDelivered ==
    \A i \in Items : []<>(i \in accepted => \/ i \in Done \cup exposed \cup Unhandled
                                             \/ Range(file) \cap Oversized # {})

\* "Concurrent Enqueue calls are safe while draining is running": without any
\* failure, an accepted item is in the file until it has been delivered.
EnqueueSafeWhileDraining ==
    faults = 0 => accepted \ (Done \cup Unhandled) \subseteq Range(file)
=============================================================================
