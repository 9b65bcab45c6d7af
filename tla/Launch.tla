------------------------------- MODULE Launch -------------------------------
(***************************************************************************)
(* The life of the agent process on one server: the launcher               *)
(* (internal/agent/launch.go), the runtime that turns signals into a stop  *)
(* (internal/agent/runtime.go), the HTTP listener that answers the health  *)
(* check (internal/agent/server.go), and the ufctl commands that start,    *)
(* stop, restart and inspect the agent (internal/commands/local/agent.go). *)
(*                                                                         *)
(* The actors share a PID file, a TCP port and the right to signal each    *)
(* other.  Nothing is locked: every check of the PID file and what follows *)
(* from it are separate steps.  Time is abstract: a wait ends when what it *)
(* waits for happens or when its limit passes.                             *)
(***************************************************************************)
EXTENDS Integers, FiniteSets

CONSTANTS Users,         \* the terminals in which ufctl runs
          MaxAgents,     \* bound: agent processes ever forked
          MaxLnEvents    \* bound: commands, signals and faults

VARIABLES agents,        \* [process -> its two goroutines]
          pidFile,       \* the PID in underleaf-agent.pid, 0 if there is none
          port,          \* the process listening on the agent's port, 0 if none
          engines,       \* the processes whose engine children are alive
          commands,      \* [user -> the ufctl command in progress]
          crossing,       \* ghost: two commands or two agents have overlapped
          forced,        \* ghost: the agents ended by SIGKILL or a crash
          lnEvents

lnvars == <<agents, pidFile, port, engines, commands, crossing, forced, lnEvents>>

Procs == 1..MaxAgents
Kinds == {"start", "launch", "stop", "restart", "status"}

\* st is the goroutine in Start, run the goroutine in Run; stale: IsRunning has
\* found a dead process's PID and is about to remove the file.
Unborn == [st |-> "unborn", run |-> "select", target |-> 0, stale |-> FALSE, cancelled |-> FALSE]
Idle == [pc |-> "idle", kind |-> "status", child |-> 0, target |-> 0, stale |-> FALSE]

Alive(p) == agents[p].st \notin {"unborn", "dead"}
LnHappens == /\ lnEvents < MaxLnEvents
             /\ lnEvents' = lnEvents + 1

LnInit ==
  /\ agents = [p \in Procs |-> Unborn]
  /\ pidFile = 0 /\ port = 0
  /\ engines = {} /\ forced = {} /\ crossing = FALSE
  /\ commands = [u \in Users |-> Idle]
  /\ lnEvents = 0

-----------------------------------------------------------------------------
(* The PID file. *)

IsRunning == pidFile # 0 /\ Alive(pidFile)
StalePIDAny == pidFile # 0
StalePID == pidFile # 0 /\ ~Alive(pidFile)

writePID(p) == pidFile' = p
removePID == pidFile' = 0

\* A process ends: the kernel closes its listener; its children live on.
Ended(as, p) == [as EXCEPT ![p] = [Unborn EXCEPT !.st = "dead"]]
PortWithout(p) == IF port = p THEN 0 ELSE port

\* SIGTERM: the runtime takes one signal from its channel and reads no other.
Terminated(as, p) == IF as[p].run = "select" THEN [as EXCEPT ![p].run = "term"] ELSE as

-----------------------------------------------------------------------------
(* The agent: Start and startDev, in a goroutine of Run. *)

At(p, st) == agents[p].st = st /\ ~agents[p].stale
Go(p, st) == agents' = [agents EXCEPT ![p].st = st]

Start(p) ==
  /\ At(p, "check")
  /\ IF IsRunning THEN Go(p, "returned")
     ELSE agents' = [agents EXCEPT ![p].st = "write", ![p].stale = StalePID]
  /\ UNCHANGED <<pidFile, port, engines, commands, crossing, forced, lnEvents>>

WriteOwnPID(p) ==
  /\ At(p, "write")
  /\ writePID(p)
  /\ Go(p, "listen")
  /\ UNCHANGED <<port, engines, commands, crossing, forced, lnEvents>>

WriteFails(p) ==
  /\ At(p, "write") /\ LnHappens
  /\ Go(p, "returned")
  /\ UNCHANGED <<pidFile, port, engines, commands, crossing, forced>>

ListenEarly(p) ==
  /\ At(p, "listen")
  /\ IF port = 0 THEN port' = p /\ Go(p, "wire")
     ELSE UNCHANGED port /\ Go(p, "unwind")
  /\ UNCHANGED <<pidFile, engines, commands, crossing, forced, lnEvents>>

\* The fatal failures of WireAgent come before it starts any child.
WireAgent(p) ==
  /\ At(p, "wire")
  /\ \/ Go(p, "serve") /\ engines' = engines \cup {p} /\ UNCHANGED lnEvents
     \/ LnHappens /\ Go(p, "unwind") /\ UNCHANGED engines
  /\ UNCHANGED <<pidFile, port, commands, crossing, forced>>

ServerStart(p) ==
  /\ At(p, "serve") /\ agents[p].cancelled
  /\ port' = PortWithout(p)
  /\ Go(p, "clean")
  /\ UNCHANGED <<pidFile, engines, commands, crossing, forced, lnEvents>>

\* The deferred cleanup: the deployment engine, the cron engine and the MMA are
\* asked, then killed; then the servers and the raft node are stopped.
StopComponents(p) ==
  /\ At(p, "clean")
  /\ engines' = engines \ {p}
  /\ Go(p, "unwind")
  /\ UNCHANGED <<pidFile, port, commands, crossing, forced, lnEvents>>

\* The deferred removePID of startDev: whatever PID the file holds.
Unwind(p) ==
  /\ At(p, "unwind")
  /\ removePID
  /\ Go(p, "returned")
  /\ UNCHANGED <<port, engines, commands, crossing, forced, lnEvents>>

Exit(p) ==
  /\ agents' = Ended(agents, p)
  /\ port' = PortWithout(p)

\* Run's select takes the error of Start, or Restart returns it.
RunReturns(p) ==
  /\ At(p, "returned") /\ agents[p].run \in {"select", "again"}
  /\ Exit(p)
  /\ UNCHANGED <<pidFile, engines, commands, crossing, forced, lnEvents>>

-----------------------------------------------------------------------------
(* The agent: the goroutine of Run, stopping itself. *)

Running(p) == Alive(p) /\ ~agents[p].stale

\* SIGTERM or SIGINT: cancel the context and call Stop, which signals the
\* process the PID file names.  With no such process Run returns at once.
StopSelf(p) ==
  /\ Running(p) /\ agents[p].run = "term"
  /\ IF ~IsRunning THEN Exit(p)
     ELSE /\ agents' = [Terminated(agents, pidFile) EXCEPT
                          ![p].run = "poll", ![p].target = pidFile, ![p].cancelled = TRUE]
          /\ UNCHANGED port
  /\ UNCHANGED <<pidFile, engines, commands, crossing, forced, lnEvents>>

\* SIGHUP: Restart calls Stop with the context still live, and Start after it.
RestartSelf(p) ==
  /\ Running(p) /\ agents[p].run = "hup"
  /\ agents' = IF IsRunning
               THEN [Terminated(agents, pidFile) EXCEPT ![p].run = "hupPoll", ![p].target = pidFile]
               ELSE [agents EXCEPT ![p].run = "again", ![p].st = "check", ![p].stale = StalePID]
  /\ UNCHANGED <<pidFile, port, engines, commands, crossing, forced, lnEvents>>

\* Stop's loop ends because the PID file names no living process.
SelfGone(p) ==
  /\ Running(p) /\ agents[p].run \in {"poll", "hupPoll"} /\ ~IsRunning
  /\ agents' = [agents EXCEPT ![p].run = IF @ = "poll" THEN "end" ELSE "hupEnd"]
  /\ UNCHANGED <<pidFile, port, engines, commands, crossing, forced, lnEvents>>

SelfStopped(p) ==
  /\ Running(p) /\ agents[p].run \in {"end", "hupEnd"}
  /\ removePID
  /\ IF agents[p].run = "end" THEN Exit(p)
     ELSE agents' = [agents EXCEPT ![p].run = "again", ![p].st = "check"] /\ UNCHANGED port
  /\ UNCHANGED <<engines, commands, crossing, forced, lnEvents>>

\* Ten seconds have passed: SIGKILL to the process found at the start, which is
\* the agent itself unless another has overwritten the PID file.
SelfKill(p) ==
  /\ Running(p) /\ agents[p].run \in {"poll", "hupPoll"} /\ IsRunning
  /\ LET t == agents[p].target
         as == IF Alive(t) THEN Ended(agents, t) ELSE agents
     IN /\ agents' = IF t = p THEN as
                     ELSE IF Alive(t) THEN [as EXCEPT ![p].run = IF @ = "poll" THEN "end" ELSE "hupEnd"]
                     ELSE Ended(as, p)
        /\ port' = IF Alive(t) THEN PortWithout(t) ELSE PortWithout(p)
        /\ forced' = IF Alive(t) THEN forced \cup {t} ELSE forced
  /\ UNCHANGED <<pidFile, engines, commands, crossing, lnEvents>>

\* IsRunning removes the file of a dead process after it has looked.
RemoveStaleAgent(p) ==
  /\ Alive(p) /\ agents[p].stale
  /\ removePID
  /\ agents' = [agents EXCEPT ![p].stale = FALSE]
  /\ UNCHANGED <<port, engines, commands, crossing, forced, lnEvents>>

-----------------------------------------------------------------------------
(* The ufctl commands. *)

CmdAt(u, pc) == commands[u].pc = pc /\ ~commands[u].stale
Step(u, pc) == commands' = [commands EXCEPT ![u].pc = pc]
Return(u) == commands' = [commands EXCEPT ![u] = Idle]
Busy(u) == commands[u].pc # "idle" \/ commands[u].stale

Starting(p) == agents[p].st \in {"check", "write", "listen"}

Invoke(u, kind) ==
  /\ CmdAt(u, "idle") /\ LnHappens
  /\ commands' = [commands EXCEPT ![u] = [Idle EXCEPT !.pc = "check", !.kind = kind]]
  /\ crossing' = (crossing \/ (\E v \in Users : Busy(v)) \/ \E p \in Procs : Starting(p))
  /\ UNCHANGED <<agents, pidFile, port, engines, forced>>

\* Every command looks first: GetStatus, or IsRunning as here.
Look(u, kinds, running, notRunning) ==
  /\ CmdAt(u, "check") /\ commands[u].kind \in kinds
  /\ commands' = [commands EXCEPT ![u].pc = IF IsRunning THEN running ELSE notRunning,
                                  ![u].stale = StalePID]
  /\ UNCHANGED <<agents, pidFile, port, engines, crossing, forced, lnEvents>>

agentStartCmd(u) == Look(u, {"start", "launch"}, "idle", "fork")
agentStopCmd(u) == Look(u, {"stop"}, "stop", "idle")
agentRestartCmd(u) == Look(u, {"restart"}, "stop", "fork")
agentStatusCmd(u) == Look(u, {"status"}, "idle", "idle")

RemoveStale(u) ==
  /\ commands[u].stale
  /\ removePID
  /\ commands' = [commands EXCEPT ![u].stale = FALSE]
  /\ UNCHANGED <<agents, port, engines, crossing, forced, lnEvents>>

\* Stop: read the PID, SIGTERM.
Stop(u) ==
  /\ CmdAt(u, "stop")
  /\ IF ~IsRunning THEN Return(u) /\ UNCHANGED agents
     ELSE /\ agents' = Terminated(agents, pidFile)
          /\ commands' = [commands EXCEPT ![u].pc = "stopping", ![u].target = pidFile]
  /\ UNCHANGED <<pidFile, port, engines, crossing, forced, lnEvents>>

StopSeesGone(u) ==
  /\ CmdAt(u, "stopping") /\ ~IsRunning
  /\ Step(u, "stopped")
  /\ UNCHANGED <<agents, pidFile, port, engines, crossing, forced, lnEvents>>

StopTimeout(u) ==
  /\ CmdAt(u, "stopping") /\ IsRunning
  /\ LET t == commands[u].target
     IN IF Alive(t)
        THEN /\ agents' = Ended(agents, t)
             /\ port' = PortWithout(t)
             /\ forced' = forced \cup {t}
             /\ Step(u, "stopped")
        ELSE Return(u) /\ UNCHANGED <<agents, port, forced>>
  /\ UNCHANGED <<pidFile, engines, crossing, lnEvents>>

Stopped(u) ==
  /\ CmdAt(u, "stopped")
  /\ removePID
  /\ Step(u, IF commands[u].kind = "restart" THEN "restart" ELSE "idle")
  /\ UNCHANGED <<agents, port, engines, crossing, forced, lnEvents>>

\* Restart ends in Start, which looks again.
StartAgain(u) ==
  /\ CmdAt(u, "restart")
  /\ commands' = [commands EXCEPT ![u].pc = IF IsRunning THEN "idle" ELSE "fork",
                                  ![u].stale = StalePID]
  /\ UNCHANGED <<agents, pidFile, port, engines, crossing, forced, lnEvents>>

\* startDaemon: fork underleaf_agent; the child writes its own PID.  "launch" is
\* a start with the health check disabled.
startDaemon(u) ==
  /\ CmdAt(u, "fork")
  /\ \E p \in Procs :
       /\ agents[p].st = "unborn" /\ \A q \in 1..(p - 1) : agents[q].st # "unborn"
       /\ agents' = [agents EXCEPT ![p].st = "check"]
       /\ commands' = [commands EXCEPT ![u].child = p,
                         ![u].pc = IF commands[u].kind = "launch" THEN "idle" ELSE "health"]
       /\ crossing' = (crossing \/ \E q \in Procs : Alive(q))
  /\ UNCHANGED <<pidFile, port, engines, forced, lnEvents>>

\* findAgentBinary finds nothing, or the log file cannot be opened.
ForkFails(u) ==
  /\ CmdAt(u, "fork")
  /\ IF \E p \in Procs : agents[p].st = "unborn" THEN LnHappens ELSE UNCHANGED lnEvents
  /\ Return(u)
  /\ UNCHANGED <<agents, pidFile, port, engines, crossing, forced>>

\* /health answers: the listener of any agent on the port will do.
HealthPassed(u) ==
  /\ CmdAt(u, "health") /\ port # 0
  /\ commands' = [commands EXCEPT ![u] = [Idle EXCEPT !.stale = StalePID]]
  /\ UNCHANGED <<agents, pidFile, port, engines, crossing, forced, lnEvents>>

HealthTimeout(u) ==
  /\ CmdAt(u, "health") /\ port = 0
  /\ LET c == commands[u].child
     IN IF Alive(c) THEN agents' = Terminated(agents, c) /\ Step(u, "grace")
        ELSE Return(u) /\ UNCHANGED agents
  /\ UNCHANGED <<pidFile, port, engines, crossing, forced, lnEvents>>

\* Five seconds after its SIGTERM the child is killed if it is still there.
Grace(u) ==
  /\ CmdAt(u, "grace")
  /\ LET c == commands[u].child
     IN IF Alive(c)
        THEN agents' = Ended(agents, c) /\ port' = PortWithout(c) /\ forced' = forced \cup {c}
        ELSE UNCHANGED <<agents, port, forced>>
  /\ Return(u)
  /\ UNCHANGED <<pidFile, engines, crossing, lnEvents>>

-----------------------------------------------------------------------------
(* The environment. *)

Hangup(p) ==
  /\ At(p, "serve") /\ agents[p].run = "select" /\ LnHappens
  /\ agents' = [agents EXCEPT ![p].run = "hup"]
  /\ crossing' = TRUE
  /\ UNCHANGED <<pidFile, port, engines, commands, forced>>

AgentCrash(p) ==
  /\ Alive(p) /\ LnHappens
  /\ Exit(p)
  /\ forced' = forced \cup {p}
  /\ UNCHANGED <<pidFile, engines, commands, crossing>>

AgentSteps(p) ==
  \/ Start(p) \/ WriteOwnPID(p) \/ ListenEarly(p) \/ WireAgent(p) \/ ServerStart(p)
  \/ Unwind(p) \/ RunReturns(p) \/ StopSelf(p) \/ RestartSelf(p) \/ SelfGone(p)
  \/ SelfStopped(p) \/ SelfKill(p) \/ RemoveStaleAgent(p)

CommandSteps(u) ==
  \/ agentStartCmd(u) \/ agentStopCmd(u) \/ agentRestartCmd(u) \/ agentStatusCmd(u) \/ RemoveStale(u)
  \/ Stop(u) \/ StopSeesGone(u) \/ StopTimeout(u) \/ Stopped(u)
  \/ StartAgain(u) \/ startDaemon(u) \/ HealthPassed(u) \/ HealthTimeout(u) \/ Grace(u)

LnNext ==
  \/ \E p \in Procs : AgentSteps(p) \/ WriteFails(p) \/ StopComponents(p) \/ Hangup(p) \/ AgentCrash(p)
  \/ \E u \in Users : CommandSteps(u) \/ ForkFails(u) \/ \E k \in Kinds : Invoke(u, k)

LnSpec == LnInit /\ [][LnNext]_lnvars

\* The waits of the code end by the clock; only the cleanup may hang.
LnFairSpec ==
  /\ LnSpec
  /\ \A p \in Procs : WF_lnvars(Start(p)) /\ WF_lnvars(StopSelf(p) \/ RestartSelf(p)) /\ WF_lnvars(SelfGone(p))
                      /\ WF_lnvars(SelfStopped(p)) /\ WF_lnvars(SelfKill(p)) /\ WF_lnvars(RemoveStaleAgent(p))
  /\ \A u \in Users : WF_lnvars(CommandSteps(u) \/ ForkFails(u))

-----------------------------------------------------------------------------
(* Properties. *)

(* While commands overlap neither each other nor the first moments of an      *)
(* agent, and no agent is forked before the previous one has ended, an agent  *)
(* in service is the one the PID file names and the one that holds the port,  *)
(* across crashes, failed starts and timeouts.                                *)
ServingIsNamed ==
  crossing \/ \A p \in Procs : agents[p].st = "serve" => pidFile = p /\ port = p

(* An agent that ends without SIGKILL or a crash has stopped its engines: the *)
(* deferred cleanup of startDev runs before the process may exit.             *)
EnginesStopped ==
  crossing \/ \A p \in engines : Alive(p) \/ p \in forced

(* When ufctl reports the agent stopped, the agent it signalled has released  *)
(* the port, unless it failed to wire up and is about to exit.                *)
StopFreesPort ==
  \A u \in Users : commands[u].pc = "stopped" /\ ~crossing =>
     LET t == commands[u].target
     IN port # t \/ agents[t].st = "returned"

(* An agent told to stop ends, even when its cleanup hangs: its own Stop      *)
(* kills the process after ten seconds.                                       *)
ToldMeansEnds ==
  \A p \in Procs : []<>~(Alive(p) /\ agents[p].run = "term")
=============================================================================
