---------------------------- MODULE EventStream ----------------------------
(***************************************************************************)
(* internal/eventstream: the stream of events from the agent (UA) to the   *)
(* mesh agent (MMA).  A publisher takes a sequence number under the lock,  *)
(* releases it, adds the event to the ring buffer under the ring's own     *)
(* lock, and only then fans it out to the subscribers under a read lock:   *)
(* publishers overlap between the three.  A subscription registers first,  *)
(* then replays the ring from the last number its client has seen, then    *)
(* forwards its channel.  publishRouteWithRetry of wiring.go is one of the *)
(* publishers.  The MMA is external and is modelled by what the .proto     *)
(* file says of it: it presents the highest number it has seen.            *)
(***************************************************************************)
EXTENDS Naturals, Sequences, FiniteSets

CONSTANTS
  RingBufferSize, MinBufferSize, DefaultBufferSize, MaxBufferSize,
  MaxStreamEvents     \* bound: events published, connections broken, restarts

VARIABLES
  seqCounter,         \* Server.seqCounter
  ring,               \* ringBuffer: events, head, size
  pubs,               \* a goroutine in PublishEvent: its event and where it is
  subscribers,        \* the StreamEvents calls, by session
  routeLoop,          \* publishRouteWithRetry: "start", "retry", "done"
  mma,                \* the client: its session, the highest number it has seen
  got,                \* history: the numbers the MMA has received
  copies,             \* history: how often it received each in this session
  log,                \* history: every event added to the ring, in order
  excused,            \* history: the numbers it was right to do without
  streamFaults

esvars == <<seqCounter, ring, pubs, subscribers, routeLoop, mma, got, copies, log, excused,
            streamFaults>>

EventPublishers == {"membership", "route"}
Sessions == 1 .. MaxStreamEvents + 1
NoEvent == [seq |-> 0, type |-> ""]
IdlePublisher == [pc |-> "idle", evt |-> NoEvent, todo |-> {}, at |-> 0]
NoStream == [phase |-> "none", req |-> 0, replay |-> <<>>, ch |-> <<>>, before |-> 0]

Seqs(s) == {s[i].seq : i \in DOMAIN s}
MaxOf(a, b) == IF a > b THEN a ELSE b
StreamBudget == seqCounter + streamFaults < MaxStreamEvents

-----------------------------------------------------------------------------
(* ringBuffer *)

newRingBuffer == [events |-> [i \in 0 .. RingBufferSize - 1 |-> NoEvent], head |-> 0, size |-> 0]

Add(rb, evt) ==
  [events |-> [rb.events EXCEPT ![rb.head] = evt],
   head |-> (rb.head + 1) % RingBufferSize,
   size |-> IF rb.size < RingBufferSize THEN rb.size + 1 ELSE rb.size]

RingStart(rb) == (rb.head + RingBufferSize - rb.size) % RingBufferSize

GetEventsSince(rb, lastSeen) ==
  LET kept == [i \in 1 .. rb.size |-> rb.events[(RingStart(rb) + i - 1) % RingBufferSize]]
  IN  SelectSeq(kept, LAMBDA e : e.seq > lastSeen)

-----------------------------------------------------------------------------
(* The events.  Payloads of maps of interfaces and slices of interfaces    *)
(* convert to a protobuf struct; slices of maps and maps of strings do not. *)

PublishMemberJoined == "member.joined"
PublishServiceStarted == "service.started"
PublishChannelRouteRegister == "channel.route.register"
MemberEvents == {PublishMemberJoined, PublishServiceStarted}
NewStruct(type) == type # PublishServiceStarted

shouldSend(evt) == mma.filter = {} \/ evt.type \in mma.filter

-----------------------------------------------------------------------------
(* PublishEvent *)

Registered == {s \in Sessions : subscribers[s].phase # "none"}
SubscriberCount == Cardinality(Registered)

\* s.mu can be write-locked: nobody is fanning out under the read lock.
MayLock == \A p \in EventPublishers : pubs[p].pc \notin {"fan", "drop", "retry"}

\* Take a number; a payload that does not convert leaves a gap in them.
PublishEvent(p, type) ==
  /\ pubs[p].pc = "idle"  /\ MayLock
  /\ seqCounter' = seqCounter + 1
  /\ pubs' = IF NewStruct(type)
             THEN [pubs EXCEPT ![p] = [IdlePublisher EXCEPT
                       !.pc = "add", !.evt = [seq |-> seqCounter + 1, type |-> type]]]
             ELSE pubs

PublishAdd(p) ==
  /\ pubs[p].pc = "add"
  /\ ring' = Add(ring, pubs[p].evt)
  /\ log' = Append(log, pubs[p].evt)
  /\ pubs' = [pubs EXCEPT ![p].pc = "added"]
  /\ UNCHANGED <<seqCounter, subscribers, routeLoop, mma, got, copies, excused, streamFaults>>

\* The subscribers the fan-out will visit.
AudienceLive(evt) == {s \in Registered : subscribers[s].phase = "live" /\ shouldSend(evt)}
Audience(evt) == {s \in Registered : shouldSend(evt)}

PublishLocked(p) ==
  LET evt == pubs[p].evt IN
  /\ pubs[p].pc = "added"
  /\ pubs' = [pubs EXCEPT ![p].pc = "fan", ![p].todo = Audience(evt)]
  /\ excused' = IF shouldSend(evt) THEN excused ELSE excused \union {evt.seq}
  /\ UNCHANGED <<seqCounter, ring, subscribers, routeLoop, mma, got, copies, log, streamFaults>>

Full(s) == Len(subscribers[s].ch) >= mma.buffer
Pushed(s, evt) == [subscribers EXCEPT ![s].ch = Append(@, evt)]
Excusing(s, evt) == IF s = mma.session THEN excused \union {evt.seq} ELSE excused
Visited(p, s) == [pubs EXCEPT ![p].pc = "fan", ![p].todo = @ \ {s}]

\* `case sub.ch <- evt`, or on to dropping the oldest.
FanPush(p, s) ==
  /\ pubs[p].pc = "fan"  /\ s \in pubs[p].todo
  /\ IF Full(s)
     THEN /\ pubs' = [pubs EXCEPT ![p].pc = "drop", ![p].at = s]
          /\ UNCHANGED subscribers
     ELSE /\ subscribers' = Pushed(s, pubs[p].evt)
          /\ pubs' = Visited(p, s)
  /\ UNCHANGED <<seqCounter, ring, routeLoop, mma, got, copies, log, excused, streamFaults>>

\* `case <-sub.ch`: the subscription may have emptied it meanwhile.
FanDrop(p) ==
  LET s == pubs[p].at IN
  /\ pubs[p].pc = "drop"
  /\ IF subscribers[s].ch = <<>>
     THEN UNCHANGED <<subscribers, excused>>
     ELSE /\ subscribers' = [subscribers EXCEPT ![s].ch = Tail(@)]
          /\ excused' = Excusing(s, Head(subscribers[s].ch))
  /\ pubs' = [pubs EXCEPT ![p].pc = "retry"]
  /\ UNCHANGED <<seqCounter, ring, routeLoop, mma, got, copies, log, streamFaults>>

\* The second `case sub.ch <- evt`: another publisher may have filled it again,
\* and then it is the new event that is skipped.
FanRetry(p) ==
  LET s == pubs[p].at IN
  /\ pubs[p].pc = "retry"
  /\ IF Full(s)
     THEN /\ excused' = Excusing(s, pubs[p].evt)
          /\ UNCHANGED subscribers
     ELSE /\ subscribers' = Pushed(s, pubs[p].evt)
          /\ UNCHANGED excused
  /\ pubs' = Visited(p, s)
  /\ UNCHANGED <<seqCounter, ring, routeLoop, mma, got, copies, log, streamFaults>>

PublishDone(p) ==
  /\ pubs[p].pc = "fan"  /\ pubs[p].todo = {}
  /\ pubs' = [pubs EXCEPT ![p] = IdlePublisher]
  /\ UNCHANGED <<seqCounter, ring, subscribers, routeLoop, mma, got, copies, log, excused,
                 streamFaults>>

-----------------------------------------------------------------------------
(* StreamEvents *)

BufferSize(hint) ==
  LET size == IF hint = 0 THEN DefaultBufferSize ELSE hint
  IN  IF size < MinBufferSize THEN MinBufferSize
      ELSE IF size > MaxBufferSize THEN MaxBufferSize ELSE size

StreamRequest(lastSeen) == [NoStream EXCEPT !.phase = "registered", !.req = lastSeen]

StreamEvents ==
  \E s \in Sessions :
    /\ mma.session = 0  /\ s > mma.last  /\ \A t \in Sessions : t < s => t <= mma.last
    /\ MayLock
    /\ subscribers' = [subscribers EXCEPT ![s] = [StreamRequest(mma.seen) EXCEPT !.before = Len(log)]]
    /\ mma' = [mma EXCEPT !.session = s, !.last = s]
    /\ copies' = [n \in DOMAIN copies |-> 0]
    /\ UNCHANGED <<seqCounter, ring, pubs, routeLoop, got, log, excused, streamFaults>>

\* What is still on its way to session s: in its channel, or held by a
\* publisher that has yet to visit it.
OnItsWay(s) ==
  Seqs(subscribers[s].ch)
    \union {pubs[p].evt.seq : p \in {q \in EventPublishers :
              \/ pubs[q].pc \in {"add", "added"}
              \/ s \in pubs[q].todo}}

\* (`before` is history: how many events had been added when s registered.)
\* The events a replay from `lastSeen` owes, by the history: those among the
\* last RingBufferSize added.
Owed(lastSeen) ==
  {log[i].seq : i \in {j \in DOMAIN log :
     j + RingBufferSize > Len(log) /\ log[j].seq > lastSeen /\ lastSeen > 0}}

\* A request with an empty LastSeenSeq gets no replay at all.
StreamReplay(s) ==
  /\ subscribers[s].phase = "registered"
  /\ LET since == IF subscribers[s].req = 0 THEN <<>>
                  ELSE GetEventsSince(ring, subscribers[s].req)
     IN  subscribers' = [subscribers EXCEPT ![s].phase = "live",
                                            ![s].replay = SelectSeq(since, shouldSend),
                                            ![s].before = 0]
  /\ excused' = excused \union (Seqs(SubSeq(log, 1, subscribers[s].before))
                                 \ (got \union Owed(subscribers[s].req) \union OnItsWay(s)))
  /\ UNCHANGED <<seqCounter, ring, pubs, routeLoop, mma, got, copies, log, streamFaults>>

\* stream.Send: to the client of this session, or an error that ends the call.
Send(s, evt, rest) ==
  IF mma.session = s
  THEN /\ subscribers' = [subscribers EXCEPT ![s] = rest]
       /\ mma' = [mma EXCEPT !.seen = MaxOf(@, evt.seq)]
       /\ got' = got \union {evt.seq}
       /\ copies' = [copies EXCEPT ![evt.seq] = @ + 1]
  ELSE /\ MayLock
       /\ subscribers' = [subscribers EXCEPT ![s] = NoStream]
       /\ UNCHANGED <<mma, got, copies>>

SendReplay(s) ==
  LET sub == subscribers[s] IN
  /\ sub.phase = "live"  /\ sub.replay # <<>>
  /\ Send(s, Head(sub.replay), [sub EXCEPT !.replay = Tail(@)])
  /\ UNCHANGED <<seqCounter, ring, pubs, routeLoop, log, excused, streamFaults>>

SendLive(s) ==
  LET sub == subscribers[s] IN
  /\ sub.phase = "live"  /\ sub.replay = <<>>  /\ sub.ch # <<>>
  /\ Send(s, Head(sub.ch), [sub EXCEPT !.ch = Tail(@)])
  /\ UNCHANGED <<seqCounter, ring, pubs, routeLoop, log, excused, streamFaults>>

\* `case <-ctx.Done()`; the deferred delete takes the write lock.
StreamDone(s) ==
  /\ subscribers[s].phase = "live"  /\ subscribers[s].replay = <<>>
  /\ mma.session # s  /\ MayLock
  /\ subscribers' = [subscribers EXCEPT ![s] = NoStream]
  /\ UNCHANGED <<seqCounter, ring, pubs, routeLoop, mma, got, copies, log, excused, streamFaults>>

-----------------------------------------------------------------------------
(* publishRouteWithRetry, and the other publisher. *)

RouteTo(state) ==
  /\ routeLoop' = state
  /\ UNCHANGED <<ring, subscribers, mma, got, copies, log, excused, streamFaults>>

RoutePublish ==
  /\ PublishEvent("route", PublishChannelRouteRegister)
  /\ RouteTo("done")

\* The fast path, or the background loop.
publishRouteWithRetry ==
  /\ routeLoop = "start"
  /\ IF SubscriberCount > 0 THEN RoutePublish
     ELSE RouteTo("retry") /\ UNCHANGED <<seqCounter, pubs>>

\* A tick with a subscriber to publish to; a tick without one changes nothing.
RouteTick == routeLoop = "retry" /\ SubscriberCount > 0 /\ RoutePublish

\* `case <-deadline`.
RouteDeadline == routeLoop = "retry" /\ RoutePublish

PublishMember ==
  /\ StreamBudget
  /\ \E type \in MemberEvents : PublishEvent("membership", type)
  /\ UNCHANGED <<ring, subscribers, routeLoop, mma, got, copies, log, excused, streamFaults>>

-----------------------------------------------------------------------------
(* Faults. *)

ConnectionBreaks ==
  /\ StreamBudget  /\ mma.session # 0
  /\ mma' = [mma EXCEPT !.session = 0]
  /\ streamFaults' = streamFaults + 1
  /\ UNCHANGED <<seqCounter, ring, pubs, subscribers, routeLoop, got, copies, log, excused>>

\* A new MMA process has seen nothing.
MMARestart ==
  /\ StreamBudget  /\ mma.seen # 0
  /\ mma' = [mma EXCEPT !.session = 0, !.seen = 0]
  /\ got' = {}
  /\ streamFaults' = streamFaults + 1
  /\ UNCHANGED <<seqCounter, ring, pubs, subscribers, routeLoop, copies, log, excused>>

NewServer ==
  /\ seqCounter = 0
  /\ ring = newRingBuffer
  /\ pubs = [p \in EventPublishers |-> IdlePublisher]
  /\ subscribers = [s \in Sessions |-> NoStream]

EsInit ==
  /\ NewServer
  /\ routeLoop = "start"
  /\ \E r \in {[filter |-> {}, hint |-> 0],
               [filter |-> {PublishChannelRouteRegister}, hint |-> MaxBufferSize + 1]} :
       mma = [session |-> 0, last |-> 0, seen |-> 0, filter |-> r.filter,
              buffer |-> BufferSize(r.hint)]
  /\ got = {}  /\ copies = [n \in 1 .. MaxStreamEvents + 1 |-> 0]
  /\ log = <<>>  /\ excused = {}  /\ streamFaults = 0

PublishStep(p) ==
  \/ PublishAdd(p) \/ PublishLocked(p) \/ FanDrop(p) \/ FanRetry(p) \/ PublishDone(p)
  \/ \E s \in Sessions : FanPush(p, s)
StreamStep(s) == StreamReplay(s) \/ SendReplay(s) \/ SendLive(s) \/ StreamDone(s)

EsNext ==
  \/ \E p \in EventPublishers : PublishStep(p)
  \/ StreamEvents
  \/ \E s \in Sessions : StreamStep(s)
  \/ publishRouteWithRetry \/ RouteTick \/ RouteDeadline
  \/ PublishMember
  \/ ConnectionBreaks \/ MMARestart

EsSpec == EsInit /\ [][EsNext]_esvars

\* Goroutines run; the MMA reconnects (its backoff is bounded); the retry loop
\* ticks.  Its deadline may or may not come first, and faults are never owed.
EsFairSpec ==
  /\ EsSpec
  /\ \A p \in EventPublishers : WF_esvars(PublishStep(p))
  /\ \A s \in Sessions : WF_esvars(StreamStep(s))
  /\ WF_esvars(StreamEvents)
  /\ WF_esvars(publishRouteWithRetry \/ RouteTick)

-----------------------------------------------------------------------------
(* Properties. *)

EsTypeOK ==
  /\ seqCounter \in 0 .. MaxStreamEvents + 1
  /\ ring.head \in 0 .. RingBufferSize - 1  /\ ring.size \in 0 .. RingBufferSize
  /\ \A s \in Sessions : Len(subscribers[s].ch) <= mma.buffer
  /\ \A p \in EventPublishers : pubs[p].todo \subseteq Registered
  /\ got \union excused \subseteq 1 .. seqCounter
  /\ routeLoop \in {"start", "retry", "done"}

\* The ring's index arithmetic, wrap-around included, gives back exactly the
\* last RingBufferSize events added, oldest first, less those already seen
\* (Add and GetEventsSince against the history of what was added).
RingIsLog ==
  \A n \in 0 .. seqCounter :
    GetEventsSince(ring, n) =
      SelectSeq(SubSeq(log, 1 + Len(log) - ring.size, Len(log)), LAMBDA e : e.seq > n)

Quiet ==
  /\ mma.session # 0
  /\ subscribers[mma.session] = [NoStream EXCEPT !.phase = "live", !.req = subscribers[mma.session].req]
  /\ \A p \in EventPublishers : pubs[p].pc = "idle"

\* A connected MMA with nothing on its way has every event it is owed: the
\* only ones it lacks were dropped from a full channel, filtered out, pushed
\* out of the ring before the replay, numbered below one it had seen when they
\* were added, or older than a connection that presented no number.
\* (Registering before the replay is what makes this true of an event that is
\* published while a connection is being set up.)
NothingLostInBetween == Quiet => Seqs(log) \subseteq got \union excused

\* In one session an event is received at most twice (once from the replay and
\* once from the channel).
AtMostTwicePerSession == \A n \in DOMAIN copies : copies[n] <= 2

\* While the MMA stays connected everything published reaches it or is
\* excused, and the route is published.
StreamSettles == <>[](mma.session # 0) => <>[](Quiet /\ routeLoop = "done")
=============================================================================
