----------------------------- MODULE Supervisor -----------------------------
(***************************************************************************)
(* ProcessSupervisor of internal/capability/supervisor.go, for one         *)
(* providerID-version key (entries of different keys share only the table  *)
(* lock).  Every Start that is accepted makes a supervisedProcess and a    *)
(* goroutine that keeps a child process running; Stop and Shutdown run in  *)
(* goroutines of their callers and read and write the same record without  *)
(* a lock.  A child may exit at any time.  SIGTERM only asks a child to    *)
(* exit, which it may do anyway, so it is no step of its own.              *)
(***************************************************************************)
EXTENDS Naturals, Sequences, FiniteSets

CONSTANTS
  MaxRestarts,   \* RestartPolicy.MaxRestarts (10 in the default policy)
  MaxStarts,     \* bound: accepted calls of Start
  MaxStops       \* bound: calls of Stop

\* No limit on restarts is a MaxRestarts of 0.
ASSUME RestartsAssumption == MaxRestarts \in Nat

VARIABLES
  procs,         \* the supervisedProcess records made so far
  entry,         \* processes[key]: an index into procs, or 0
  stops,         \* the calls of Stop made so far
  shutdown,      \* "no", "stopping", "waiting" or "done"
  (* history *)
  displaced      \* displaced[p]: the state in which Start replaced p

svars == <<procs, entry, stops, shutdown, displaced>>

States == {"starting", "running", "stopping", "stopped", "crashed", "failed", "restarting"}
None == "none"

\* cmd: the child; cancel: proc.cancel has been set; done: its context is
\* cancelled; pc: where the goroutine is.
NewProc == [state |-> "starting", cmd |-> None, cancel |-> FALSE, done |-> FALSE,
            restarts |-> 0, pc |-> "spawned"]

Goroutines == DOMAIN procs
Alive(p) == procs[p].cmd = "alive"
Cancelled(p) == procs[p].done \/ shutdown # "no"

SupInit ==
  /\ procs = << >>  /\ entry = 0  /\ stops = << >>
  /\ shutdown = "no"  /\ displaced = << >>

-----------------------------------------------------------------------------
(* Callers. *)

\* Start refuses only an entry whose state is "running"; any other entry is
\* replaced in the table.
MayStart == IF entry = 0 THEN TRUE ELSE procs[entry].state # "running"

Start ==
  /\ MayStart  /\ Len(procs) < MaxStarts
  /\ procs' = Append(procs, NewProc)
  /\ entry' = Len(procs) + 1
  /\ displaced' = IF entry = 0 THEN Append(displaced, None)
                  ELSE Append([displaced EXCEPT ![entry] = procs[entry].state], None)
  /\ UNCHANGED <<stops, shutdown>>

\* Stop, first half: look the entry up and mark it stopping.
StopBegin ==
  /\ entry # 0  /\ Len(stops) < MaxStops
  /\ stops' = Append(stops, [on |-> entry, pc |-> "cancel"])
  /\ procs' = [procs EXCEPT ![entry].state = "stopping"]
  /\ UNCHANGED <<entry, shutdown, displaced>>

\* Stop, second half: cancel the context if the goroutine has set it.
CancelProc(p) == [procs EXCEPT ![p].done = @ \/ procs[p].cancel]

StopCancel(s) ==
  /\ stops[s].pc = "cancel"
  /\ procs' = CancelProc(stops[s].on)
  /\ stops' = [stops EXCEPT ![s].pc = "wait"]
  /\ UNCHANGED <<entry, shutdown, displaced>>

\* Stop, after the two seconds: kill what still runs, mark it stopped.
StopFinish(s) ==
  /\ stops[s].pc = "wait"
  /\ procs' = [procs EXCEPT ![stops[s].on].state = "stopped",
                            ![stops[s].on].cmd = IF @ = "alive" THEN "dead" ELSE @]
  /\ stops' = [stops EXCEPT ![s].pc = "done"]
  /\ UNCHANGED <<entry, shutdown, displaced>>

\* Shutdown cancels the supervisor's context, stops the keys it finds and
\* waits for the goroutines.
Shutdown ==
  /\ shutdown = "no"
  /\ shutdown' = IF entry = 0 THEN "waiting" ELSE "stopping"
  /\ UNCHANGED <<procs, entry, stops, displaced>>

ShutdownStop ==
  /\ shutdown = "stopping"
  /\ procs' = [procs EXCEPT ![entry].state = "stopped", ![entry].done = @ \/ procs[entry].cancel,
                            ![entry].cmd = IF @ = "alive" THEN "dead" ELSE @]
  /\ shutdown' = "waiting"
  /\ UNCHANGED <<entry, stops, displaced>>

ShutdownWait ==
  /\ shutdown = "waiting"
  /\ \A p \in Goroutines : procs[p].pc = "ended"
  /\ shutdown' = "done"
  /\ UNCHANGED <<procs, entry, stops, displaced>>

-----------------------------------------------------------------------------
(* The goroutine superviseProcess. *)

Step(p, from, new) ==
  /\ procs[p].pc = from
  /\ procs' = [procs EXCEPT ![p] = new]
  /\ UNCHANGED <<entry, stops, shutdown, displaced>>

\* The context the goroutine makes is a child of the supervisor's.
SuperviseEnter(p) == Step(p, "spawned", [procs[p] EXCEPT !.cancel = TRUE, !.pc = "loop"])

\* The loop ends on a cancelled context, and at the restart limit.
Exhausted(p) == MaxRestarts > 0 /\ procs[p].restarts >= MaxRestarts
LoopContextOwn(p) == procs[p].done
LoopContext(p) == Cancelled(p)

LoopHead(p) ==
  Step(p, "loop",
       IF LoopContext(p) THEN [procs[p] EXCEPT !.pc = "ended"]
       ELSE IF Exhausted(p) THEN [procs[p] EXCEPT !.pc = "ended", !.state = "failed"]
       ELSE [procs[p] EXCEPT !.pc = "start", !.state = "starting", !.cmd = None])

\* cmd.Start looks at the context before it forks.
CmdStart(p) ==
  \/ /\ ~ LoopContext(p)
     /\ Step(p, "start", [procs[p] EXCEPT !.pc = "fork"])
  \/ Step(p, "start", [procs[p] EXCEPT !.pc = "backoff", !.state = "crashed"])

CmdFork(p) == Step(p, "fork", [procs[p] EXCEPT !.pc = "started", !.cmd = "alive"])
MarkRunning(p) == Step(p, "started", [procs[p] EXCEPT !.pc = "wait", !.state = "running"])

\* cmd.Wait returns once the child is gone.
CmdWait(p) ==
  /\ ~ Alive(p)
  /\ Step(p, "wait",
          IF LoopContext(p) THEN [procs[p] EXCEPT !.pc = "ended"]
          ELSE [procs[p] EXCEPT !.pc = "backoff", !.state = "restarting"])

Backoff(p) ==
  Step(p, "backoff", [procs[p] EXCEPT !.pc = "loop", !.restarts = @ + 1])

\* exec.CommandContext kills the child once the context is cancelled.
ContextKillNever(p) == FALSE /\ UNCHANGED svars
ContextKill(p) ==
  /\ Alive(p)  /\ Cancelled(p)
  /\ procs' = [procs EXCEPT ![p].cmd = "dead"]
  /\ UNCHANGED <<entry, stops, shutdown, displaced>>

\* The child exits or crashes.
ChildExit(p) ==
  /\ Alive(p)
  /\ procs' = [procs EXCEPT ![p].cmd = "dead"]
  /\ UNCHANGED <<entry, stops, shutdown, displaced>>

Supervise(p) ==
  \/ SuperviseEnter(p) \/ LoopHead(p) \/ CmdStart(p) \/ CmdFork(p)
  \/ MarkRunning(p) \/ CmdWait(p) \/ Backoff(p) \/ ContextKill(p)

StopStep(s) == StopCancel(s) \/ StopFinish(s)

SupNext ==
  \/ Start \/ StopBegin \/ Shutdown \/ ShutdownStop \/ ShutdownWait
  \/ \E s \in DOMAIN stops : StopStep(s)
  \/ \E p \in Goroutines : Supervise(p) \/ ChildExit(p)

\* The Go scheduler runs every goroutine; nobody has to call Start, Stop or
\* Shutdown, and no child has to exit.
SupFairness ==
  /\ \A p \in 1..MaxStarts : WF_svars(p \in Goroutines /\ Supervise(p))
  /\ \A s \in 1..MaxStops : WF_svars(s \in DOMAIN stops /\ StopStep(s))
  /\ WF_svars(ShutdownStop \/ ShutdownWait)

SupSpec == SupInit /\ [][SupNext]_svars
SupFairSpec == SupSpec /\ SupFairness

-----------------------------------------------------------------------------
(* Properties. *)

Processes == [state : States, cmd : {None, "alive", "dead"}, cancel : BOOLEAN, done : BOOLEAN,
              restarts : Nat,
              pc : {"spawned", "loop", "start", "fork", "started", "wait", "backoff", "ended"}]

\* The records, the table, the calls and the histories have their types, and
\* the limit on restarts is kept to.
SupTypeOK ==
  /\ procs \in Seq(Processes)
  /\ entry \in 0..Len(procs)
  /\ stops \in Seq([on : Goroutines, pc : {"cancel", "wait", "done"}])
  /\ shutdown \in {"no", "stopping", "waiting", "done"}
  /\ displaced \in Seq(States \cup {None}) /\ Len(displaced) = Len(procs)
  /\ \A p \in Goroutines : MaxRestarts > 0 => procs[p].restarts <= MaxRestarts

\* A child that runs without being the table's entry, and that nothing is
\* about to kill, was left behind in one of two ways: its entry was replaced
\* by Start while it was between two children (starting, crashed or
\* restarting), or a Stop came before its goroutine had set proc.cancel.
\* Start on a running entry, and a full Stop followed by Start, never leave
\* one behind.
StrayWasLeftBehind ==
  \A p \in Goroutines :
    Alive(p) /\ ~ Cancelled(p) /\ p # entry =>
      \/ displaced[p] \in {"starting", "crashed", "restarting"}
      \/ \E s \in DOMAIN stops : stops[s].on = p

\* Once Shutdown has returned no child is left, whatever Start and Stop did
\* while it ran.
ShutdownLeavesNothing ==
  shutdown = "done" => \A p \in Goroutines : ~ Alive(p)

\* A goroutine that has ended has no child, and it ended because it was
\* cancelled or because the restart limit was reached.
EndedForAReason ==
  \A p \in Goroutines :
    procs[p].pc = "ended" => ~ Alive(p) /\ (Cancelled(p) \/ procs[p].restarts = MaxRestarts)

\* A child is the table's entry, about to be killed, or left behind in one of
\* two known ways; none is left after Shutdown; and a supervising goroutine
\* ends only when cancelled or at the restart limit.
NoStrayChild == SupTypeOK /\ StrayWasLeftBehind /\ ShutdownLeavesNothing /\ EndedForAReason

\* Every cancelled goroutine ends and its child dies, also when the
\* cancellation comes between the check of the context and the fork.
CancelledEnds ==
  \A p \in 1..MaxStarts :
    []<>(p \in Goroutines /\ Cancelled(p) => procs[p].pc = "ended" /\ ~ Alive(p))

\* A child that exits is replaced by a new one, unless the goroutine gives
\* up at the restart limit or is cancelled.
CrashAnswered ==
  \A p \in 1..MaxStarts :
    []<>(p \in Goroutines => Alive(p) \/ procs[p].pc = "ended")

\* Shutdown returns.
ShutdownReturns == []<>(shutdown \in {"no", "done"})

=============================================================================
