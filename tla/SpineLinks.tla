----------------------------- MODULE SpineLinks -----------------------------
(***************************************************************************)
(* The agent's inbound messages: internal/spine's dispatch loop and        *)
(* watchdog, the kernel's event server (EmitEvent, SubscribeLocal), and    *)
(* the link handlers of internal/agent, with the CLI's local tunnel binds, *)
(* for ONE tunnel link.  The Spine (a mailbox of envelopes that redelivers *)
(* the unacknowledged ones to a new subscription) and the MMA (it answers  *)
(* each request with a completion) are external.                           *)
(***************************************************************************)
EXTENDS Naturals, Sequences, FiniteSets

CONSTANTS
  MaxSpineEvents,   \* bound: requests, events, subscriptions made or ended
  MaxSpineFaults,   \* bound: subscriptions lost, acknowledgements that fail
  MaxGoroutines     \* bound: completion handlers at work at once

VARIABLES
  traffic,          \* bound: a behaviour has UMC events or link messages
  mailbox,          \* the unacknowledged envelopes, in order
  cursor,           \* how many of them the subscription has delivered
  subscription,     \* "on", "lost" (silently), "closed" (its channels are)
  everDelivered,    \* lastDeliveryNano # 0
  loop,             \* dispatchLoop: the envelope and the handlers it still owes
  umcs,             \* SubscribeLocal streams
  goroutines,       \* the completion handlers, each in a goroutine
  streamUp,         \* the event stream server is set (later than the Spine client)
  kvLink,           \* "/links/<id>" in the store
  toMMA, mmaLink,   \* requests on the event stream; what the MMA did last
  pendingBind,      \* pendingTunnelBinds[id]: the call whose channel it is, or 0
  calls,            \* handleTunnelBind calls
  nextMsg, spineEvents, spineFaults,
  disturbed,        \* history: a fault, a redelivery or overlapping completions
  unreported        \* history: bind results published and not yet reported on

slvars == <<traffic, mailbox, cursor, subscription, everDelivered, loop, umcs, goroutines, streamUp,
            kvLink, toMMA, mmaLink, pendingBind, calls, nextMsg, spineEvents, spineFaults,
            disturbed, unreported>>
mmavars == <<toMMA, mmaLink>>
cliVars == <<pendingBind, calls>>
countVars == <<nextMsg, spineEvents, spineFaults>>

Umcs == {"u1", "u2"}
Calls == {1, 2}
Slots == 1 .. MaxGoroutines
NoMsg == [id |-> 0, type |-> "", arg |-> ""]
Idle == [pc |-> "select", msg |-> NoMsg, todo |-> <<>>]
NoGoroutine == [pc |-> "none", msg |-> NoMsg, full |-> FALSE, ch |-> 0]
NoLink == [status |-> "none", full |-> FALSE]
NoUmc == [phase |-> "new", ch |-> <<>>, got |-> {}, owed |-> {}]
NoCall == [pc |-> "idle", ch |-> ""]
LocalBuffer == 1    \* bound: the buffer of a SubscribeLocal stream

SpineBudget == spineEvents < MaxSpineEvents
Spend == spineEvents' = spineEvents + 1 /\ UNCHANGED spineFaults
Fault == spineFaults < MaxSpineFaults /\ spineFaults' = spineFaults + 1 /\ UNCHANGED spineEvents

-----------------------------------------------------------------------------
(* Publishing: control messages are durable and need an acknowledgement. *)

Publish(type, arg) ==
  /\ mailbox' = Append(mailbox, [id |-> nextMsg, type |-> type, arg |-> arg])
  /\ nextMsg' = nextMsg + 1

\* server_api asks for a bind or an unbind.
LinkRequested ==
  /\ traffic = "link"  /\ SpineBudget  /\ Spend
  /\ \E type \in {"link.bind.request", "link.unbind.request"} : Publish(type, "")
  /\ UNCHANGED <<cursor, subscription, everDelivered, loop, umcs, goroutines, streamUp, kvLink,
                 toMMA, mmaLink, pendingBind, calls, disturbed, unreported>>

\* A UMC's event, routed back to this server.  The streams open now are owed it.
EmitEvent ==
  /\ traffic = "umc"  /\ SpineBudget  /\ Spend
  /\ Publish("umc.event", "")
  /\ umcs' = [u \in Umcs |-> IF umcs[u].phase = "registered"
                             THEN [umcs[u] EXCEPT !.owed = @ \union {nextMsg}] ELSE umcs[u]]
  /\ UNCHANGED <<cursor, subscription, everDelivered, loop, goroutines, streamUp, kvLink, toMMA,
                 mmaLink, pendingBind, calls, disturbed, unreported>>

-----------------------------------------------------------------------------
(* dispatchLoop *)

\* The handlers registered for a type, in the order they registered; the
\* streams of UMCs are entries of their own.
Handlers(type) ==
  IF type = "umc.event"
  THEN SelectSeq(<<"u1", "u2">>, LAMBDA u : umcs[u].phase = "registered")
  ELSE <<type>>

\* `case frame := <-deliveries`, up to the copy of the handler list.
Deliver ==
  /\ subscription = "on"  /\ loop.pc = "select"  /\ cursor < Len(mailbox)
  /\ LET msg == mailbox[cursor + 1] IN
     loop' = [pc |-> "dispatch", msg |-> msg, todo |-> Handlers(msg.type)]
  /\ cursor' = cursor + 1
  /\ everDelivered' = TRUE
  /\ UNCHANGED <<mailbox, subscription, umcs, goroutines, streamUp, kvLink, mmavars, cliVars,
                 countVars, disturbed, unreported>>

\* The channel is closed: the next incarnation asks for the fresh one.
dispatchLoopEnds == loop' = [Idle EXCEPT !.pc = "gone"]
dispatchLoopRestarts == loop' = Idle

ChannelClosed ==
  /\ subscription = "closed"  /\ loop.pc = "select"
  /\ dispatchLoopRestarts
  /\ subscription' = IF loop'.pc = "gone" THEN "closed" ELSE "on"
  /\ cursor' = 0
  /\ disturbed' = (disturbed \/ cursor > 0)
  /\ UNCHANGED <<mailbox, everDelivered, umcs, goroutines, streamUp, kvLink, mmavars, cliVars,
                 countVars, unreported>>

HandlerRan == [loop EXCEPT !.todo = Tail(@)]

\* safeDispatch recovers a handler's panic: what is left of the envelope's
\* handlers, and its acknowledgement, are skipped.
safeDispatch == loop' = Idle

\* The handler of a SubscribeLocal stream: a send that never blocks, and
\* that panics on a channel closed after the handlers were copied.
LocalHandler ==
  LET u == Head(loop.todo) IN
  /\ loop.pc = "dispatch"  /\ loop.todo # <<>>  /\ loop.msg.type = "umc.event"
  /\ IF umcs[u].phase = "closed"
     THEN safeDispatch /\ UNCHANGED umcs
     ELSE /\ loop' = HandlerRan
          /\ umcs' = IF Len(umcs[u].ch) < LocalBuffer
                     THEN [umcs EXCEPT ![u].ch = Append(@, loop.msg.id)]
                     ELSE [umcs EXCEPT ![u].owed = @ \ {loop.msg.id}]
  /\ UNCHANGED <<mailbox, cursor, subscription, everDelivered, goroutines, streamUp, kvLink,
                 mmavars, cliVars, countVars, disturbed, unreported>>

\* Ack after all handlers have run.
CursorAfterAck == IF \E i \in 1 .. cursor : mailbox[i].id = loop.msg.id THEN cursor - 1 ELSE cursor

Ack ==
  /\ loop.pc = "dispatch"  /\ loop.todo = <<>>
  /\ loop' = Idle
  /\ \/ /\ mailbox' = SelectSeq(mailbox, LAMBDA m : m.id # loop.msg.id)
        /\ cursor' = CursorAfterAck
        /\ UNCHANGED <<spineEvents, spineFaults>>
     \/ /\ Fault                          \* Ack returns an error: only logged
        /\ UNCHANGED <<mailbox, cursor>>
  /\ UNCHANGED <<subscription, everDelivered, umcs, goroutines, streamUp, kvLink, mmavars,
                 cliVars, nextMsg, disturbed, unreported>>

\* The subscription is lost, silently or with its channels.
SubscriptionLost ==
  /\ Fault
  /\ subscription = "on"
  /\ subscription' \in {"lost", "closed"}
  /\ UNCHANGED <<mailbox, cursor, everDelivered, loop, umcs, goroutines, streamUp, kvLink,
                 mmavars, cliVars, nextMsg, disturbed, unreported>>

\* livenessWatchdog after livenessStaleThreshold without a delivery: a new
\* subscription, to which the Spine redelivers what is not acknowledged.  It
\* does nothing before the first delivery.
Resubscribe ==
  /\ subscription' = "on"
  /\ cursor' = 0
  /\ disturbed' = (disturbed \/ cursor > 0)

livenessWatchdog ==
  /\ everDelivered  /\ loop.pc \in {"select", "gone"}  /\ subscription # "closed"
  /\ subscription = "lost" \/ cursor > 0
  /\ Resubscribe
  /\ UNCHANGED <<mailbox, everDelivered, loop, umcs, goroutines, streamUp, kvLink, mmavars,
                 cliVars, countVars, unreported>>

-----------------------------------------------------------------------------
(* SubscribeLocal *)

SubscribeLocal(u) ==
  /\ traffic = "umc"  /\ SpineBudget  /\ Spend
  /\ umcs[u] = NoUmc
  /\ umcs' = [umcs EXCEPT ![u].phase = "registered"]
  /\ UNCHANGED <<mailbox, cursor, subscription, everDelivered, loop, goroutines, streamUp, kvLink,
                 mmavars, cliVars, nextMsg, disturbed, unreported>>

\* stream.Send of the oldest event buffered.
LocalSend(u) ==
  /\ umcs[u].phase = "registered"  /\ umcs[u].ch # <<>>
  /\ umcs' = [umcs EXCEPT ![u].ch = Tail(@), ![u].got = @ \union {Head(umcs[u].ch)}]
  /\ UNCHANGED <<mailbox, cursor, subscription, everDelivered, loop, goroutines, streamUp, kvLink,
                 mmavars, cliVars, countVars, disturbed, unreported>>

\* The UMC disconnects: the deferred function deregisters, then closes.
LocalDeregister(u) ==
  /\ SpineBudget  /\ Spend
  /\ umcs[u].phase = "registered"
  /\ umcs' = [umcs EXCEPT ![u].phase = "deregistered", ![u].owed = {}, ![u].got = {}]
  /\ UNCHANGED <<mailbox, cursor, subscription, everDelivered, loop, goroutines, streamUp, kvLink,
                 mmavars, cliVars, nextMsg, disturbed, unreported>>

LocalClose(u) ==
  /\ umcs[u].phase = "deregistered"
  /\ umcs' = [umcs EXCEPT ![u].phase = "closed", ![u].ch = <<>>]
  /\ UNCHANGED <<mailbox, cursor, subscription, everDelivered, loop, goroutines, streamUp, kvLink,
                 mmavars, cliVars, countVars, disturbed, unreported>>

-----------------------------------------------------------------------------
(* The link handlers, run by the dispatch loop *)

ToMMA(op) == toMMA' = Append(toMMA, op)

\* Store the link as pending, then forward the request; without an event
\* stream server the error is logged and the envelope acknowledged all the same.
HandleLinkBindRequested ==
  /\ loop.pc = "dispatch"  /\ loop.todo = <<"link.bind.request">>
  /\ kvLink' = [status |-> "pending", full |-> TRUE]
  /\ IF streamUp THEN ToMMA("bind") /\ UNCHANGED disturbed
     ELSE disturbed' = TRUE /\ UNCHANGED toMMA
  /\ loop' = HandlerRan
  /\ UNCHANGED <<mailbox, cursor, subscription, everDelivered, umcs, goroutines, streamUp, mmaLink,
                 cliVars, countVars, unreported>>

HandleLinkUnbindRequested ==
  /\ loop.pc = "dispatch"  /\ loop.todo = <<"link.unbind.request">>
  /\ IF streamUp THEN ToMMA("unbind") ELSE UNCHANGED toMMA
  /\ disturbed' = (disturbed \/ ~streamUp)
  /\ loop' = HandlerRan
  /\ UNCHANGED <<mailbox, cursor, subscription, everDelivered, umcs, goroutines, streamUp, kvLink,
                 mmaLink, cliVars, countVars, unreported>>

\* The two completions are handled in a goroutine each.
SpawnCompletion ==
  /\ loop.pc = "dispatch"  /\ loop.todo # <<>>
  /\ loop.msg.type \in {"link.bind.completed", "link.unbind.completed"}
  /\ \E g \in Slots :
       /\ goroutines[g] = NoGoroutine  /\ \A h \in 1 .. g - 1 : goroutines[h] # NoGoroutine
       /\ goroutines' = [goroutines EXCEPT ![g].msg = loop.msg,
            ![g].pc = IF loop.msg.type = "link.bind.completed" THEN "get" ELSE "delete"]
  /\ disturbed' = (disturbed \/ \E g \in Slots : goroutines[g] # NoGoroutine)
  /\ loop' = HandlerRan
  /\ UNCHANGED <<mailbox, cursor, subscription, everDelivered, umcs, streamUp, kvLink, mmavars,
                 cliVars, countVars, unreported>>

LinkUnchanged == UNCHANGED <<mailbox, cursor, subscription, everDelivered, loop, umcs, streamUp,
                             mmavars, nextMsg>>

-----------------------------------------------------------------------------
(* HandleLinkBindCompleted and HandleLinkUnbindCompleted *)

\* Read the record: what it lacks the update will lack.
BindCompletedGet(g) ==
  /\ goroutines[g].pc = "get"
  /\ goroutines' = [goroutines EXCEPT ![g].pc = "put", ![g].full = kvLink.full]
  /\ LinkUnchanged  /\ UNCHANGED <<kvLink, cliVars, spineEvents, spineFaults, disturbed, unreported>>

\* (A Put that fails is only logged, and left out.)  Then
\* SignalTunnelBindResult's lookup: with no channel registered the result is posted to server_api.
SignalLookup(g) ==
  goroutines' = [goroutines EXCEPT ![g].ch = pendingBind,
                                   ![g].pc = IF pendingBind = 0 THEN "post" ELSE "send"]

BindCompletedPut(g) ==
  /\ goroutines[g].pc = "put"
  /\ kvLink' = [status |-> goroutines[g].msg.arg, full |-> goroutines[g].full]
  /\ SignalLookup(g)
  /\ LinkUnchanged  /\ UNCHANGED <<cliVars, spineEvents, spineFaults, disturbed, unreported>>

Finished(g) == goroutines' = [goroutines EXCEPT ![g] = NoGoroutine]

\* Send on the channel of one buffer: it waits while an earlier result is there.
SignalTunnelBindResult(g) ==
  LET c == goroutines[g].ch IN
  /\ goroutines[g].pc = "send"  /\ calls[c].ch = ""
  /\ calls' = [calls EXCEPT ![c].ch = goroutines[g].msg.arg]
  /\ unreported' = unreported \ {goroutines[g].msg.id}
  /\ Finished(g)
  /\ LinkUnchanged  /\ UNCHANGED <<kvLink, pendingBind, spineEvents, spineFaults, disturbed>>

\* (A post that fails is only logged: the result has been reported on.)
PostLinkResult(g) ==
  /\ goroutines[g].pc = "post"
  /\ unreported' = unreported \ {goroutines[g].msg.id}
  /\ Finished(g)
  /\ LinkUnchanged  /\ UNCHANGED <<kvLink, cliVars, spineEvents, spineFaults, disturbed>>

HandleLinkUnbindCompletedKept(g) ==
  /\ goroutines[g].pc = "delete"
  /\ Finished(g)
  /\ LinkUnchanged
  /\ UNCHANGED <<kvLink, cliVars, spineEvents, spineFaults, disturbed, unreported>>
HandleLinkUnbindCompleted(g) ==
  /\ goroutines[g].pc = "delete"
  /\ kvLink' = NoLink
  /\ Finished(g)
  /\ LinkUnchanged  /\ UNCHANGED <<cliVars, spineEvents, spineFaults, disturbed, unreported>>

-----------------------------------------------------------------------------
(* The tunnel endpoints of the agent's HTTP server *)

\* Register the channel, then ask the MMA.  A second call for the same id
\* takes the entry over.
handleTunnelBind(c) ==
  /\ traffic = "link"  /\ SpineBudget  /\ Spend
  /\ calls[c] = NoCall  /\ \A d \in 1 .. c - 1 : calls[d] # NoCall
  /\ streamUp
  /\ calls' = [calls EXCEPT ![c].pc = "waiting"]
  /\ pendingBind' = c
  /\ ToMMA("bind")
  /\ UNCHANGED <<mailbox, cursor, subscription, everDelivered, loop, umcs, goroutines, streamUp,
                 kvLink, mmaLink, nextMsg, disturbed, unreported>>

\* The deferred delete is by id: it may take another call's entry.
Answered(c, ch) ==
  /\ calls' = [calls EXCEPT ![c] = [pc |-> "answered", ch |-> ch]]
  /\ pendingBind' = 0

TunnelBindResult(c) ==
  /\ calls[c].pc = "waiting"  /\ calls[c].ch # ""
  /\ Answered(c, "")
  /\ LinkUnchanged
  /\ UNCHANGED <<goroutines, kvLink, spineEvents, spineFaults, disturbed, unreported>>

TunnelBindTimeout(c) ==
  /\ calls[c].pc = "waiting"
  /\ Answered(c, calls[c].ch)
  /\ LinkUnchanged
  /\ UNCHANGED <<goroutines, kvLink, spineEvents, spineFaults, disturbed, unreported>>

handleTunnelUnbind ==
  /\ traffic = "link"  /\ SpineBudget  /\ Spend
  /\ streamUp
  /\ ToMMA("unbind")
  /\ UNCHANGED <<mailbox, cursor, subscription, everDelivered, loop, umcs, goroutines, streamUp,
                 kvLink, mmaLink, cliVars, nextMsg, disturbed, unreported>>

-----------------------------------------------------------------------------
(* External: the MMA does what it is asked and says so through the kernel. *)

MMAAnswers ==
  /\ toMMA # <<>>
  /\ toMMA' = Tail(toMMA)
  /\ \/ /\ Head(toMMA) = "unbind"
        /\ mmaLink' = "none"
        /\ Publish("link.unbind.completed", "")
        /\ UNCHANGED unreported
     \/ /\ Head(toMMA) = "bind"
        /\ mmaLink' \in {"success", "failure"}
        /\ Publish("link.bind.completed", mmaLink')
        /\ unreported' = unreported \union {nextMsg}
  /\ UNCHANGED <<cursor, subscription, everDelivered, loop, umcs, goroutines, streamUp, kvLink,
                 cliVars, spineEvents, spineFaults, disturbed>>

\* WireAgent starts the Spine client first and the event stream server later.
EventStreamStarts ==
  /\ ~streamUp  /\ streamUp' = TRUE
  /\ UNCHANGED <<mailbox, cursor, subscription, everDelivered, loop, umcs, goroutines, kvLink,
                 mmavars, cliVars, countVars, disturbed, unreported>>

SlInit ==
  /\ traffic \in {"link", "umc"}
  /\ mailbox = <<>>  /\ cursor = 0  /\ subscription = "on"  /\ everDelivered = FALSE
  /\ loop = Idle  /\ umcs \in [Umcs -> {NoUmc} \union {[NoUmc EXCEPT !.phase = "registered"] : t \in {traffic} \ {"link"}}]
  /\ goroutines = [g \in Slots |-> NoGoroutine]
  /\ streamUp = (traffic = "umc")  /\ kvLink = NoLink  /\ toMMA = <<>>  /\ mmaLink = "none"
  /\ pendingBind = 0  /\ calls = [c \in Calls |-> NoCall] 
  /\ nextMsg = 1  /\ spineEvents = 0  /\ spineFaults = 0  /\ disturbed = FALSE  /\ unreported = {}

Dispatching == Deliver \/ ChannelClosed \/ LocalHandler \/ HandleLinkBindRequested
               \/ HandleLinkUnbindRequested \/ SpawnCompletion \/ Ack
Completion(g) == BindCompletedGet(g) \/ BindCompletedPut(g)
                 \/ SignalTunnelBindResult(g) \/ PostLinkResult(g) \/ HandleLinkUnbindCompleted(g)
Answering(c) == TunnelBindResult(c) \/ TunnelBindTimeout(c)

SlStep ==
  \/ LinkRequested \/ EmitEvent \/ Dispatching \/ SubscriptionLost \/ livenessWatchdog
  \/ \E u \in Umcs : SubscribeLocal(u) \/ LocalSend(u) \/ LocalDeregister(u) \/ LocalClose(u)
  \/ \E g \in Slots : Completion(g)
  \/ \E c \in Calls : handleTunnelBind(c) \/ Answering(c)
  \/ handleTunnelUnbind \/ MMAAnswers \/ EventStreamStarts

SlNext == SlStep /\ UNCHANGED traffic

SlSpec == SlInit /\ [][SlNext]_slvars

\* The goroutines run, the watchdog's ticker ticks, a timer of thirty seconds
\* ends every wait.
SlFairSpec ==
  /\ SlSpec
  /\ WF_slvars(Dispatching /\ UNCHANGED traffic) /\ WF_slvars(livenessWatchdog /\ UNCHANGED traffic)
  /\ \A u \in Umcs : WF_slvars(LocalSend(u) /\ UNCHANGED traffic)
  /\ \A g \in Slots : WF_slvars(Completion(g) /\ UNCHANGED traffic)
  /\ \A c \in Calls : WF_slvars(Answering(c) /\ UNCHANGED traffic)

-----------------------------------------------------------------------------
(* Properties. *)

SlTypeOK ==
  /\ cursor \in 0 .. Len(mailbox)
  /\ \A i, j \in DOMAIN mailbox : i < j => mailbox[i].id < mailbox[j].id
  /\ subscription \in {"on", "lost", "closed"}  /\ loop.pc \in {"select", "dispatch", "gone"}
  /\ \A u \in Umcs : Len(umcs[u].ch) <= LocalBuffer
  /\ pendingBind \in {0} \union Calls
  /\ kvLink.status \in {"none", "pending", "success", "failure"}

AllHandled == mailbox = <<>> /\ loop = Idle /\ toMMA = <<>>
              /\ \A g \in Slots : goroutines[g] = NoGoroutine

\* When every message has been handled, the link's record in the store says
\* what the MMA did last: it is absent after an unbind and has the outcome of
\* the last bind otherwise.  (Not so if two completions were handled at once,
\* a message was redelivered or a store write failed.)
RecordFollowsMMA == AllHandled /\ ~disturbed => kvLink.status = mmaLink

\* Every bind result the MMA published is signalled to a waiting command or
\* posted to server_api, redelivery or not (the fallthrough of the tunnel case).
ResultReported == AllHandled => unreported = {}

\* A UMC that stays subscribed has every event emitted meanwhile, or its
\* buffer was full: also when another UMC's stream closes while the loop is
\* in the middle of the event's handlers.
StayingSubscribersGetAll ==
  mailbox = <<>> /\ loop = Idle =>
    \A u \in Umcs : umcs[u].owed \subseteq umcs[u].got \union {umcs[u].ch[i] : i \in DOMAIN umcs[u].ch}

\* A message is eventually handled and acknowledged, whatever happens to the
\* subscription or a handler, unless the subscription is lost silently before
\* the first delivery (the watchdog waits for one).
NeverDeaf == <>[](everDelivered \/ subscription # "lost") => []<>(mailbox = <<>>)

\* A tunnel bind is answered.
BindAnswered == \A c \in Calls : []<>(calls[c].pc # "waiting")

=============================================================================
