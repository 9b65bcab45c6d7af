---------------------------- MODULE MCMessaging ----------------------------
(***************************************************************************)
(* How the agent talks, for TLC: the Spine's mailbox and the links that    *)
(* come through it, the commands it delivers, and the event stream to the  *)
(* MMA.  The modules share no state, so a behaviour of the whole is one of *)
(* one of them: component names it, the others keep their initial values.  *)
(***************************************************************************)
EXTENDS Naturals, Sequences, FiniteSets

CONSTANTS MaxSpineEvents, MaxSpineFaults, MaxGoroutines,
          Traces, MaxRuns, MaxExecEvents,
          RingBufferSize, MinBufferSize, DefaultBufferSize, MaxBufferSize, MaxStreamEvents

VARIABLES component,
          traffic, mailbox, cursor, subscription, everDelivered, loop, umcs, goroutines, streamUp,
          kvLink, toMMA, mmaLink, pendingBind, calls, nextMsg, spineEvents, spineFaults,
          disturbed, unreported,
          runs, settings, inFlight, drain, processes, stop, execEvents,
          seqCounter, ring, pubs, subscribers, routeLoop, mma, got, copies, log, excused,
          streamFaults

Sl == INSTANCE SpineLinks
Ex == INSTANCE Exec
Es == INSTANCE EventStream

slvars == <<traffic, mailbox, cursor, subscription, everDelivered, loop, umcs, goroutines, streamUp,
            kvLink, toMMA, mmaLink, pendingBind, calls, nextMsg, spineEvents, spineFaults,
            disturbed, unreported>>
exvars == <<runs, settings, inFlight, drain, processes, stop, execEvents>>
esvars == <<seqCounter, ring, pubs, subscribers, routeLoop, mma, got, copies, log, excused,
            streamFaults>>
vars == <<component, slvars, exvars, esvars>>

On(c) == component = c

Init == /\ component \in {"spine", "exec", "stream"}
        /\ Sl!SlInit /\ Ex!ExInit /\ Es!EsInit
        /\ On("spine") \/ traffic = "link"
        /\ On("stream") \/ mma.filter = {}

Next ==
  /\ UNCHANGED component
  /\ \/ On("spine") /\ Sl!SlNext /\ UNCHANGED <<exvars, esvars>>
     \/ On("exec") /\ Ex!ExNext /\ UNCHANGED <<slvars, esvars>>
     \/ On("stream") /\ Es!EsNext /\ UNCHANGED <<slvars, exvars>>

\* The fairness of each module, for its own behaviours.
Fairness ==
  /\ WF_slvars(On("spine") /\ Sl!Dispatching /\ UNCHANGED traffic)
  /\ WF_slvars(On("spine") /\ Sl!livenessWatchdog /\ UNCHANGED traffic)
  /\ \A u \in Sl!Umcs : WF_slvars(On("spine") /\ Sl!LocalSend(u) /\ UNCHANGED traffic)
  /\ \A g \in Sl!Slots : WF_slvars(On("spine") /\ Sl!Completion(g) /\ UNCHANGED traffic)
  /\ \A c \in Sl!Calls : WF_slvars(On("spine") /\ Sl!Answering(c) /\ UNCHANGED traffic)
  /\ \A x \in Ex!Runs : WF_exvars(On("exec") /\ Ex!Running(x))
  /\ \A p \in Es!EventPublishers : WF_esvars(On("stream") /\ Es!PublishStep(p))
  /\ \A s \in Es!Sessions : WF_esvars(On("stream") /\ Es!StreamStep(s))
  /\ WF_esvars(On("stream") /\ Es!StreamEvents)
  /\ WF_esvars(On("stream") /\ (Es!publishRouteWithRetry \/ Es!RouteTick))

Spec == Init /\ [][Next]_vars /\ Fairness
-----------------------------------------------------------------------------
\* With every message handled, the link's record says what the MMA did last,
\* every bind result was signalled or posted, and every UMC that stayed
\* subscribed has its events.
LinksFollowMMA == Sl!SlTypeOK /\ Sl!RecordFollowsMMA /\ Sl!ResultReported /\ Sl!StayingSubscribersGetAll

\* A message is handled and acknowledged in the end, and a tunnel bind answered.
NeverDeaf == Sl!NeverDeaf /\ Sl!BindAnswered

\* A result, a successful StopProcess and a completed Drain mean that the
\* process, or every command of the Spine, is over; and every command event
\* is answered.
AnswerMeansEnded ==
  [](Ex!ExTypeOK /\ Ex!ResultMeansEnded /\ Ex!StopIsTrue) /\ Ex!DrainedMeansIdle /\ Ex!CommandsAnswered

\* The ring gives back the last events added, a connected MMA has every event
\* it is owed, in one session at most twice, and the stream settles.
NothingLostInBetween ==
  [](Es!EsTypeOK /\ Es!NothingLostInBetween /\ Es!RingIsLog /\ Es!AtMostTwicePerSession) /\ Es!StreamSettles
=============================================================================
