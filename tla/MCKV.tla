-------------------------------- MODULE MCKV --------------------------------
(***************************************************************************)
(* One node's store for TLC: its state machine, its callers, a watcher of  *)
(* its keys, and the key managers that wrap what is stored.  The modules   *)
(* share no state, so a behaviour of the whole is one of one of them:      *)
(* component names it, the others keep their initial values.               *)
(***************************************************************************)
EXTENDS KVStore, MCKVClients, KeyManager

CONSTANTS Watched, StartRevisions, BufferSize, MaxWrites

VARIABLES component,
          watchedFsm, pc, start, lastSeen, currentRev, entries, eventCh, received, ctx, shutdown,
          watchers, reader

MCWrites == {put(k1, small), put(k2, small), DeleteCmd(k1), DeleteCmd(k2)}

Wa == INSTANCE Watch WITH fsm <- watchedFsm, Writes <- MCWrites

clientvars == <<states, at, leads, req, kvEvents>>
storevars == <<fsm, snapshot>>
wavars == <<watchedFsm, pc, start, lastSeen, currentRev, entries, eventCh, received, ctx, shutdown,
            watchers, reader>>

On(c) == component = c

MCInit == /\ component \in {"store", "clients", "watch", "keys"}
          /\ Init /\ KcInit /\ Wa!Init /\ KmInit

MCNext ==
  /\ UNCHANGED component
  /\ \/ On("store") /\ Next /\ UNCHANGED <<clientvars, wavars, kmvars>>
     \/ On("clients") /\ KcNext /\ UNCHANGED <<storevars, wavars, kmvars>>
     \/ On("watch") /\ Wa!Next /\ UNCHANGED <<storevars, clientvars, kmvars>>
     \/ On("keys") /\ KmNext /\ UNCHANGED <<storevars, clientvars, wavars>>

\* The watcher's loop runs and its reader, if it stays, reads.
Fairness == WF_wavars(On("watch") /\ Wa!watchLoop) /\ WF_wavars(On("watch") /\ Wa!Receive)

MCSpec == MCInit /\ [][MCNext]_<<component, storevars, clientvars, wavars, kmvars>> /\ Fairness
-----------------------------------------------------------------------------
\* Callers drive the store as its specification says, and are told the truth:
\* an answer matches what the log holds, a redirected command was not applied,
\* a condition held if nobody else wrote, and a write reads back at once.
CallersToldTruth ==
  ImplementsStore /\ [](AnswersMatchLog /\ RedirectIsSafe /\ ConditionHeldWhenAlone /\ ReadBackIsCurrent)

\* A watch steps over no version and repeats none more than once, its reader
\* ends up with the last version of every key, and closing it ends its loop.
WatchFaithful ==
  [](Wa!TypeOK /\ Wa!NothingSteppedOver /\ Wa!AtMostTwice) /\ Wa!LatestReceived /\ Wa!CloseEndsLoop
=============================================================================
