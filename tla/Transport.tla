----------------------------- MODULE Transport -----------------------------
(***************************************************************************)
(* raft's RPCs over gRPC (internal/raft/transport.go), between one caller  *)
(* and one node, and the node's Stop.  A handler hands its RPC to raft     *)
(* through an unbuffered channel and waits for the answer; a snapshot goes *)
(* through a stream into a pipe that raft reads; Stop ends raft, then the  *)
(* transport, which waits for every handler.                               *)
(***************************************************************************)
EXTENDS Integers, Sequences, FiniteSets

CONSTANTS MaxRPCs,     \* bound: RPCs sent
          MaxChunks    \* bound: chunks of a snapshot

VARIABLES rpcs,        \* the RPCs, in the order they were sent
          consumer,    \* raft's main loop: "run", the RPC it works on, Ended
          closing,     \* who is in Close: a set of "raft" and "stop"
          shutdown,    \* the transport's shutdown flag, and its channel closed
          server,      \* the gRPC server: "serving", "draining", "stopped"
          peers,       \* the caller's connections to the node: in its map, dialled
          stopper      \* Node.Stop: "no", "raft", "transport", "returned"

tpvars == <<rpcs, consumer, closing, shutdown, server, peers, stopper>>

Kinds == {"append", "vote", "timeoutnow", "snapshot"}
RPCs == DOMAIN rpcs
Free == 0
Ended == -1

\* The caller's side and the handler's side of one call; sent and piped count
\* snapshot chunks, pipe is what raft will find at the end of the pipe.
NewRPC(kind, size) == [kind |-> kind, size |-> size, caller |-> "new", handler |-> "none",
                       answer |-> FALSE, sent |-> 0, piped |-> 0,
                       stream |-> IF kind = "snapshot" THEN "open" ELSE "none", pipe |-> "open"]

TpInit == /\ rpcs = << >> /\ consumer = Free
          /\ closing = {} /\ shutdown = FALSE /\ server = "serving"
          /\ peers = [inMap |-> 0, dialled |-> 0] /\ stopper = "no"

-----------------------------------------------------------------------------
(***************************************************************************)
(* The caller.                                                             *)
(***************************************************************************)

\* getConn looks in the map under the read lock.  Without a connection it
\* takes the write lock, behind which another call may have dialled.
Call(kind, size) ==
    /\ Len(rpcs) < MaxRPCs
    /\ rpcs' = Append(rpcs, [NewRPC(kind, size) EXCEPT !.caller = IF peers.inMap > 0 THEN "connected" ELSE "dialing"])
    /\ UNCHANGED <<consumer, closing, shutdown, server, peers, stopper>>

FoundBehindLock == peers.inMap > 0

getConn(i) ==
    /\ rpcs[i].caller = "dialing"
    /\ rpcs' = [rpcs EXCEPT ![i].caller = "connected"]
    /\ peers' = IF FoundBehindLock THEN peers
                ELSE [inMap |-> peers.dialled + 1, dialled |-> peers.dialled + 1]
    /\ UNCHANGED <<consumer, closing, shutdown, server, stopper>>

\* The call reaches a serving node, where its handler starts; a draining or
\* stopped server refuses it.
Send(i) ==
    /\ rpcs[i].caller = "connected"
    /\ rpcs' = [rpcs EXCEPT ![i] =
           IF server = "serving" THEN [@ EXCEPT !.caller = "waiting", !.handler = "offer"]
           ELSE [@ EXCEPT !.caller = "failed", !.stream = "none"]]
    /\ UNCHANGED <<consumer, closing, shutdown, server, peers, stopper>>

AppendEntries == Call("append", 0)
RequestVote == Call("vote", 0)
TimeoutNow == Call("timeoutnow", 0)
InstallSnapshot == \E size \in 1 .. MaxChunks : Call("snapshot", size)

\* InstallSnapshot sends the chunks it reads, then closes its side.
SendChunk(i) ==
    /\ rpcs[i].stream = "open" /\ rpcs[i].caller = "waiting"
    /\ rpcs' = [rpcs EXCEPT ![i] = IF @.sent < @.size THEN [@ EXCEPT !.sent = @ + 1]
                                   ELSE [@ EXCEPT !.stream = "closed"]]
    /\ UNCHANGED <<consumer, closing, shutdown, server, peers, stopper>>

\* The deadline passes (5 seconds, 50 for a snapshot), or the snapshot cannot
\* be read: the call fails and its context is cancelled, which breaks a stream
\* (one the caller had closed may still be read to its end).
Deadline(i) ==
    /\ rpcs[i].caller = "waiting"
    /\ \E s \in CASE rpcs[i].stream = "open" -> {"broken"}
                 [] rpcs[i].stream = "closed" -> {"closed", "broken"}
                 [] OTHER -> {rpcs[i].stream} :
          rpcs' = [rpcs EXCEPT ![i].caller = "failed", ![i].stream = s]
    /\ UNCHANGED <<consumer, closing, shutdown, server, peers, stopper>>

-----------------------------------------------------------------------------
(***************************************************************************)
(* The handlers.                                                           *)
(***************************************************************************)

\* consumeCh <- rpc: raft's main loop takes it when it is free.
Consume(i) ==
    /\ rpcs[i].handler = "offer" /\ consumer = Free
    /\ rpcs' = [rpcs EXCEPT ![i].handler = "await"]
    /\ consumer' = i
    /\ UNCHANGED <<closing, shutdown, server, peers, stopper>>

\* A handler still offering its RPC gives up only when the transport closes:
\* it does not look at the call's context.
OfferShutdown(i) ==
    /\ rpcs[i].handler = "offer" /\ shutdown
    /\ rpcs' = [rpcs EXCEPT ![i].handler = "none",
                            ![i].caller = IF @ = "waiting" THEN "failed" ELSE @,
                            ![i].stream = IF @ = "open" THEN "broken" ELSE @]
    /\ UNCHANGED <<consumer, closing, shutdown, server, peers, stopper>>

\* What the pipe ends with: the end of file when the caller closed the stream,
\* an error when the stream broke.
PipeEnd(r) == IF r.stream = "closed" THEN "eof" ELSE "error"

\* The goroutine that copies chunks from the stream into the pipe, whose
\* writes wait for raft to read.
CopyChunk(i) ==
    /\ rpcs[i].kind = "snapshot" /\ rpcs[i].pipe = "open"
    /\ IF rpcs[i].stream # "broken" /\ rpcs[i].piped < rpcs[i].sent
       THEN /\ consumer = i
            /\ rpcs' = [rpcs EXCEPT ![i].piped = @ + 1]
       ELSE /\ rpcs[i].stream \in {"closed", "broken"}
            /\ rpcs' = [rpcs EXCEPT ![i].pipe = PipeEnd(rpcs[i])]
    /\ UNCHANGED <<consumer, closing, shutdown, server, peers, stopper>>

\* raft processes the RPC and answers (a snapshot once its pipe has ended).
RaftAnswers(i) ==
    /\ consumer = i
    /\ rpcs[i].kind = "snapshot" => rpcs[i].pipe # "open"
    /\ rpcs' = [rpcs EXCEPT ![i].answer = TRUE]
    /\ consumer' = Free
    /\ UNCHANGED <<closing, shutdown, server, peers, stopper>>

\* The handler returns raft's answer, or the call's context is done.
HandlerReturns(i) ==
    /\ rpcs[i].handler = "await"
    /\ rpcs[i].answer \/ rpcs[i].caller = "failed"
    /\ rpcs' = [rpcs EXCEPT ![i].handler = "none",
                            ![i].caller = IF @ = "waiting" THEN "answered" ELSE @]
    /\ UNCHANGED <<consumer, closing, shutdown, server, peers, stopper>>

\* The four handlers; InstallSnapshot's has the copying goroutine besides.
Handle(i) == Consume(i) \/ OfferShutdown(i) \/ HandlerReturns(i)

handleAppendEntries(i) == rpcs[i].kind = "append" /\ Handle(i)
handleRequestVote(i) == rpcs[i].kind = "vote" /\ Handle(i)
handleTimeoutNow(i) == rpcs[i].kind = "timeoutnow" /\ Handle(i)
handleInstallSnapshot(i) == rpcs[i].kind = "snapshot" /\ (Handle(i) \/ CopyChunk(i))

-----------------------------------------------------------------------------
(***************************************************************************)
(* Node.Stop, and GRPCTransport.Close, which raft's own shutdown calls     *)
(* first.                                                                  *)
(***************************************************************************)
Stop == /\ stopper = "no"
        /\ stopper' = "raft"
        /\ UNCHANGED <<rpcs, consumer, closing, shutdown, server, peers>>

\* raft.Shutdown: the main loop ends when it is between two RPCs.
RaftEnds == /\ stopper = "raft" /\ consumer = Free
            /\ consumer' = Ended
            /\ closing' = closing \cup {"raft"}
            /\ UNCHANGED <<rpcs, shutdown, server, peers, stopper>>

\* Mutant: the channel is left open while the server drains.
CloseBeginQuiet(who) ==
    /\ who \in closing /\ ~shutdown /\ server = "serving"
    /\ server' = "draining"
    /\ UNCHANGED <<rpcs, consumer, closing, shutdown, peers, stopper>>

\* Close: the flag, the channel, then GracefulStop, under shutdownMu.
CloseBegin(who) ==
    /\ who \in closing /\ ~shutdown /\ server = "serving"
    /\ shutdown' = TRUE
    /\ server' = "draining"
    /\ UNCHANGED <<rpcs, consumer, closing, peers, stopper>>

\* GracefulStop returns when no handler runs.
GracefulStop == server = "draining" /\ \A i \in RPCs : rpcs[i].handler = "none"

CloseEnd(who) ==
    /\ who \in closing /\ GracefulStop
    /\ server' = "stopped"
    /\ closing' = closing \ {who}
    /\ UNCHANGED <<rpcs, consumer, shutdown, peers, stopper>>

\* A second Close finds the flag set and returns.
CloseAgain(who) ==
    /\ who \in closing /\ server = "stopped"
    /\ closing' = closing \ {who}
    /\ UNCHANGED <<rpcs, consumer, shutdown, server, peers, stopper>>

\* Shutdown's future resolves; Stop closes the transport itself, too.
StopTransport == /\ stopper = "raft" /\ consumer = Ended /\ "raft" \notin closing
                 /\ stopper' = "transport"
                 /\ closing' = closing \cup {"stop"}
                 /\ UNCHANGED <<rpcs, consumer, shutdown, server, peers>>

StopReturns == /\ stopper = "transport" /\ closing = {}
               /\ stopper' = "returned"
               /\ UNCHANGED <<rpcs, consumer, closing, shutdown, server, peers>>

CloseStep == \E who \in closing : CloseBegin(who) \/ CloseEnd(who) \/ CloseAgain(who)
StopStep == RaftEnds \/ StopTransport \/ StopReturns

TpNext == \/ AppendEntries
          \/ RequestVote
          \/ TimeoutNow
          \/ InstallSnapshot
          \/ \E i \in RPCs : \/ getConn(i)
                             \/ Send(i)
                             \/ SendChunk(i)
                             \/ Deadline(i)
                             \/ handleAppendEntries(i)
                             \/ handleRequestVote(i)
                             \/ handleTimeoutNow(i)
                             \/ handleInstallSnapshot(i)
                             \/ RaftAnswers(i)
          \/ Stop
          \/ CloseStep
          \/ StopStep

TpSpec == TpInit /\ [][TpNext]_tpvars

\* Goroutines run, and a call's deadline passes.  Nobody has to call Stop,
\* and raft may be busy with other RPCs whenever one is offered.
TpFairSpec ==
    /\ TpSpec
    /\ \A i \in 1 .. MaxRPCs :
          /\ WF_tpvars(i \in RPCs /\ Deadline(i))
          /\ WF_tpvars(i \in RPCs /\ OfferShutdown(i))
          /\ WF_tpvars(i \in RPCs /\ CopyChunk(i))
          /\ WF_tpvars(i \in RPCs /\ RaftAnswers(i))
          /\ WF_tpvars(i \in RPCs /\ HandlerReturns(i))
    /\ WF_tpvars(CloseStep)
    /\ WF_tpvars(StopStep)

-----------------------------------------------------------------------------
(***************************************************************************)
(* Properties.                                                             *)
(***************************************************************************)

\* raft finds the end of file on a snapshot's pipe only after every chunk the
\* caller read went through it: a call that times out half way never looks
\* like a complete snapshot.
EOFMeansComplete ==
    \A i \in RPCs : rpcs[i].pipe = "eof" => rpcs[i].piped = rpcs[i].size

\* Once Stop has returned no handler is left: each has answered, failed its
\* caller, or given up its RPC.
StoppedMeansQuiet == stopper = "returned" => \A i \in RPCs : rpcs[i].handler = "none"

\* Calls that race for the first connection to a peer dial once: a second
\* connection would replace the first in the map and nobody would close it.
OneConnection == peers.dialled <= 1

\* Node.Stop returns: raft's loop, Close inside raft's shutdown, the handlers
\* that raft will never serve and Close again do not wait for each other.
StopCompletes == []<>(stopper \in {"no", "returned"})
=============================================================================
