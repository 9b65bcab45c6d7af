-------------------------------- MODULE Exec --------------------------------
(***************************************************************************)
(* Running commands: internal/exec (the handler of the Spine's command     *)
(* events, the local HTTP one, the LocalRunner), the drainer of            *)
(* internal/agent that counts the ones in flight, and the kernel's         *)
(* ExecServer, whose table of tracked processes is keyed by trace id.      *)
(* A trace id may come twice: the Spine redelivers what was not            *)
(* acknowledged, and a UMC chooses its own.                                *)
(***************************************************************************)
EXTENDS Naturals, FiniteSets

CONSTANTS
  Traces,
  MaxRuns,          \* bound: commands executed
  MaxExecEvents     \* bound: settings changed, drains, stops, commands that
                    \* fail to start or leave a child behind

VARIABLES
  runs,             \* each call of Execute: who asked, its trace id, its process
  settings,         \* LocalRunner.settings: "open", or "closed" to this command
  inFlight,         \* CommandDrainer.inFlight
  drain,            \* Drain: "idle", "waiting", "drained", "timeout"
  processes,        \* ExecServer.processes: trace id -> the run it tracks, or 0
  stop,             \* a StopProcess call
  execEvents

exvars == <<runs, settings, inFlight, drain, processes, stop, execEvents>>

Runs == 1 .. MaxRuns
NoRun == [src |-> "none", trace |-> "", pc |-> "idle", proc |-> "none", piped |-> FALSE,
          pid |-> FALSE, completed |-> FALSE, cleanup |-> FALSE, tracked |-> 0]
NoStop == [pc |-> "idle", trace |-> "", run |-> 0, answer |-> ""]
ExecBudget == execEvents < MaxExecEvents
SpendExec == execEvents' = execEvents + 1

NextRun(x) == runs[x] = NoRun /\ \A y \in 1 .. x - 1 : runs[y] # NoRun
Begin(x, src, t) == runs' = [runs EXCEPT ![x].src = src, ![x].trace = t, ![x].pc = "validate"]

-----------------------------------------------------------------------------
(* CommandDrainer *)

StartJobNot(t) == inFlight' = inFlight
StartJob(t) == inFlight' = inFlight \union {t}
Complete(t) == inFlight' = inFlight \ {t}
Count == Cardinality(inFlight)

Drain ==
  \/ /\ drain = "idle"  /\ ExecBudget  /\ SpendExec
     /\ drain' = "waiting"
     /\ UNCHANGED <<runs, settings, inFlight, processes, stop>>
  \/ /\ drain = "waiting"
     /\ drain' = IF Count = 0 THEN "drained" ELSE "timeout"
     /\ UNCHANGED <<runs, settings, inFlight, processes, stop, execEvents>>

-----------------------------------------------------------------------------
(* The three entries to Execute. *)

HandleCommandEvent(x, t) ==
  /\ NextRun(x)  /\ Begin(x, "spine", t)
  /\ StartJob(t)
  /\ UNCHANGED <<settings, drain, processes, stop, execEvents>>

ExecuteLocal(x, t) ==
  /\ NextRun(x)  /\ Begin(x, "local", t)
  /\ UNCHANGED <<settings, inFlight, drain, processes, stop, execEvents>>

\* The process is tracked at once and executed in a goroutine.
RunProcess(x, t) ==
  /\ NextRun(x)  /\ Begin(x, "umc", t)
  /\ processes' = [processes EXCEPT ![t] = x]
  /\ UNCHANGED <<settings, inFlight, drain, stop, execEvents>>

-----------------------------------------------------------------------------
(* LocalRunner.Execute *)

validateCommand == settings = "open"
Step(x, pc) == runs' = [runs EXCEPT ![x].pc = pc]

\* Validate against the settings of this moment, then start the command.
Execute(x) ==
  /\ runs[x].pc = "validate"
  /\ IF ~validateCommand THEN Step(x, "returned") /\ UNCHANGED execEvents
     ELSE \/ /\ runs' = [runs EXCEPT ![x].pc = "running", ![x].proc = "alive"]
             /\ UNCHANGED execEvents
          \/ /\ ExecBudget  /\ SpendExec
             /\ Step(x, "returned")
  /\ UNCHANGED <<settings, inFlight, drain, processes, stop>>

\* The command ends; a child that left its process group may go on holding
\* the output pipes, which cmd.Wait waits for.
CommandEnds(x) ==
  /\ runs[x].proc = "alive"
  /\ \/ runs' = [runs EXCEPT ![x].proc = "dead"] /\ UNCHANGED execEvents
     \/ /\ ExecBudget  /\ SpendExec
        /\ runs' = [runs EXCEPT ![x].proc = "dead", ![x].piped = TRUE]
  /\ UNCHANGED <<settings, inFlight, drain, processes, stop>>

\* The context's deadline: kill the process group, then wait for Wait.
killCommand(x) ==
  runs' = [runs EXCEPT ![x].pc = "killed",
                       ![x].proc = IF @ = "alive" THEN "dead" ELSE @]
CommandTimeout(x) ==
  /\ runs[x].pc = "running"
  /\ killCommand(x)
  /\ UNCHANGED <<settings, inFlight, drain, processes, stop, execEvents>>

WaitReturns(x) == runs[x].proc = "dead" /\ ~runs[x].piped
CommandReturns(x) ==
  /\ runs[x].pc \in {"running", "killed"}  /\ WaitReturns(x)
  /\ Step(x, "returned")
  /\ UNCHANGED <<settings, inFlight, drain, processes, stop, execEvents>>

-----------------------------------------------------------------------------
(* What the callers do with the result. *)

\* ReportResult (an error is only logged), then the deferred Complete.
ReportResult(x) ==
  /\ runs[x].pc = "returned"  /\ runs[x].src = "spine"
  /\ Step(x, "done")  /\ Complete(runs[x].trace)
  /\ UNCHANGED <<settings, drain, processes, stop, execEvents>>

LocalAnswer(x) ==
  /\ runs[x].pc = "returned"  /\ runs[x].src = "local"
  /\ Step(x, "done")
  /\ UNCHANGED <<settings, inFlight, drain, processes, stop, execEvents>>

\* The goroutine fills in the tracked process of its trace id, which may be a
\* later run's: its PID first and its Completed flag next, without a lock.
RecordPid(x) ==
  LET t == processes[runs[x].trace] IN
  /\ runs[x].pc = "returned"  /\ runs[x].src = "umc"
  /\ runs' = IF t = 0 THEN [runs EXCEPT ![x].pc = "done", ![x].cleanup = TRUE]
             ELSE [runs EXCEPT ![x].pc = "record", ![x].tracked = t, ![t].pid = (runs[x].proc # "none")]
  /\ UNCHANGED <<settings, inFlight, drain, processes, stop, execEvents>>

RecordCompleted(x) ==
  LET t == runs[x].tracked IN
  /\ runs[x].pc = "record"
  /\ runs' = [y \in Runs |->
                [runs[y] EXCEPT !.completed = @ \/ y = t,
                                !.pc = IF y = x THEN "done" ELSE @,
                                !.cleanup = @ \/ y = x]]
  /\ UNCHANGED <<settings, inFlight, drain, processes, stop, execEvents>>

\* time.AfterFunc of five minutes: the entry of the trace id is deleted.
AutoCleanup(x) ==
  /\ runs[x].cleanup
  /\ runs' = [runs EXCEPT ![x].cleanup = FALSE]
  /\ processes' = [processes EXCEPT ![runs[x].trace] = 0]
  /\ UNCHANGED <<settings, inFlight, drain, stop, execEvents>>

-----------------------------------------------------------------------------
(* StopProcess.  The PID is recorded only when Execute has returned, so the *)
(* signals reach a process only where its PID has been given to another    *)
(* one; they are left out.                                                 *)

StopLookup(t) ==
  /\ stop.pc = "idle"  /\ ExecBudget  /\ SpendExec
  /\ LET p == processes[t] IN
     IF p = 0 \/ runs[p].completed
     THEN /\ stop' = [pc |-> "answered", trace |-> t, run |-> p,
                      answer |-> IF p = 0 THEN "not found" ELSE "success"]
          /\ processes' = [processes EXCEPT ![t] = 0]
     ELSE /\ stop' = [pc |-> "waiting", trace |-> t, run |-> p, answer |-> ""]
          /\ UNCHANGED processes
  /\ UNCHANGED <<runs, settings, inFlight, drain>>

\* Half a second for a PID to appear; then SIGTERM to what is by now dead.
StopNotStarted == "not started yet"
StopProcess ==
  /\ stop.pc = "waiting"
  /\ stop' = [stop EXCEPT !.pc = "answered",
                !.answer = IF runs[stop.run].pid THEN "success" ELSE StopNotStarted]
  /\ processes' = IF runs[stop.run].pid THEN [processes EXCEPT ![stop.trace] = 0] ELSE processes
  /\ UNCHANGED <<runs, settings, inFlight, drain, execEvents>>

\* What InspectProcess answers for trace id t.
InspectProcess(t) ==
  IF processes[t] = 0 \/ runs[processes[t]].completed THEN "stopped" ELSE "running"

\* watchConfigForCommandSettings: a new snapshot's settings.
SetSettings ==
  /\ ExecBudget  /\ SpendExec
  /\ settings' \in {"open", "closed"} \ {settings}
  /\ UNCHANGED <<runs, inFlight, drain, processes, stop>>

ExInit ==
  /\ runs = [x \in Runs |-> NoRun]  /\ settings = "open"  /\ inFlight = {}  /\ drain = "idle"
  /\ processes = [t \in Traces |-> 0]  /\ stop = NoStop  /\ execEvents = 0

Running(x) == Execute(x) \/ CommandTimeout(x) \/ CommandReturns(x) \/ ReportResult(x)
              \/ LocalAnswer(x) \/ RecordPid(x) \/ RecordCompleted(x)

ExNext ==
  \/ Drain \/ SetSettings \/ StopProcess
  \/ \E t \in Traces : StopLookup(t)
  \/ \E x \in Runs : Running(x) \/ CommandEnds(x) \/ AutoCleanup(x)
  \/ \E x \in Runs, t \in Traces : HandleCommandEvent(x, t) \/ ExecuteLocal(x, t) \/ RunProcess(x, t)

ExSpec == ExInit /\ [][ExNext]_exvars

\* Goroutines run and timers fire; a command need not end by itself.
ExFairSpec == ExSpec /\ \A x \in Runs : WF_exvars(Running(x))

-----------------------------------------------------------------------------
(* Properties. *)

ExTypeOK ==
  /\ \A x \in Runs : runs[x].pc \in {"idle", "validate", "running", "killed", "returned",
                                     "record", "done"}
  /\ inFlight \subseteq Traces
  /\ \A x \in Runs : runs[x].src = "spine" /\ runs[x].pc = "done" =>
       runs[x].trace \notin inFlight \/ \E y \in Runs \ {x} : runs[y].trace = runs[x].trace
  /\ \A t \in Traces : processes[t] # 0 => runs[processes[t]].trace = t
  /\ drain \in {"idle", "waiting", "drained", "timeout"}

Reused(x) == \E y \in Runs \ {x} : runs[y].trace = runs[x].trace /\ runs[y].src = runs[x].src

\* A result is given only when the command is over, also when it was cut
\* short by its deadline (Execute waits for the process it has killed).
ResultMeansEnded == \A x \in Runs : runs[x].pc \in {"returned", "record", "done"} => runs[x].proc # "alive"

\* Drain answers true only with no command of the Spine in progress, except
\* where a trace id was delivered twice and the first of the two has ended.
DrainedMeansIdle ==
  [][drain # "drained" /\ drain' = "drained" =>
       \A x \in Runs : runs[x].src = "spine" /\ runs[x].pc # "done" =>
         \E y \in Runs \ {x} : runs[y].src = "spine" /\ runs[y].trace = runs[x].trace
                               /\ runs[y].pc = "done"]_exvars

\* StopProcess answers with success only for a process that has ended; and a
\* process InspectProcess calls stopped has (unless its trace id was reused).
StopIsTrue ==
  /\ stop.answer = "success" /\ ~Reused(stop.run) => runs[stop.run].proc # "alive"
  /\ \A x \in Runs : runs[x].src = "umc" /\ ~Reused(x) /\ InspectProcess(runs[x].trace) = "stopped"
                       => runs[x].proc # "alive"

\* Every command event is answered and leaves the drainer, unless a child of
\* the command holds its output open.
CommandsAnswered ==
  \A x \in Runs : []<>(runs[x].src = "spine" => runs[x].pc = "done" \/ runs[x].piped)

=============================================================================
