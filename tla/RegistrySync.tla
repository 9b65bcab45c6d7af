---------------------------- MODULE RegistrySync ----------------------------
(***************************************************************************)
(* How an agent follows the capability registry: SyncClient of             *)
(* internal/capability/sync_client.go, its SnapshotStore, and the in-memory *)
(* Registry that the onUpdate callback refills.  Snapshots are numbered in  *)
(* the order the registry service publishes them; 0 is none.  A Sync may be *)
(* the start-up one, the periodic one or one asked for over the local API,  *)
(* so two may overlap.  The agent may crash at any point.                   *)
(***************************************************************************)
EXTENDS Naturals, FiniteSets

CONSTANTS
  MaxPublished,  \* bound: snapshots the service publishes
  MaxForced,     \* bound: syncs asked for over the API
  MaxSyncFaults  \* bound: failed requests, bad signatures, failed saves, crashes

VARIABLES
  published,     \* the newest snapshot of the service
  disk,          \* snapshot.json
  current,       \* SyncClient.currentSnapshot
  etag,          \* SyncClient.lastETag
  registry,      \* the snapshot the Registry's indexes are built from
  syncs,         \* caller -> its Sync in flight
  started,       \* Start has run to its end in this life of the agent
  forced, syncFaults,
  (* history *)
  overlapped     \* two Syncs have been in flight together in this life

rvars == <<published, disk, current, etag, registry, syncs, started, forced, syncFaults, overlapped>>

Callers == {"periodic", "api"}
Idle == [pc |-> "idle", tag |-> 0, got |-> 0]

RegInit ==
  /\ published = 1  /\ disk = 0  /\ current = 0  /\ etag = 0  /\ registry = 0
  /\ syncs = [c \in Callers |-> Idle]
  /\ started = FALSE  /\ forced = 0  /\ syncFaults = 0  /\ overlapped = FALSE

\* The service publishes a snapshot.
Publish ==
  /\ published < MaxPublished
  /\ published' = published + 1
  /\ UNCHANGED <<disk, current, etag, registry, syncs, started, forced, syncFaults, overlapped>>

-----------------------------------------------------------------------------
(* One Sync. *)

Moves(c, new) == syncs' = [syncs EXCEPT ![c] = new]

\* The request carries the ETag of the last snapshot applied in memory.
SyncRequest(c) ==
  /\ Moves(c, [Idle EXCEPT !.pc = "sent", !.tag = etag])
  /\ overlapped' = (overlapped \/ \E d \in Callers \ {c} : syncs[d].pc # "idle")

\* Start loads the cached snapshot, verified again, and syncs.  The callback
\* is not called for the cached one.
loadFromDisk == disk

StartSyncTagged ==
  /\ ~ started  /\ syncs["periodic"].pc = "idle"
  /\ started' = TRUE
  /\ current' = loadFromDisk  /\ etag' = disk
  /\ SyncRequest("periodic")
  /\ UNCHANGED <<published, disk, registry, forced, syncFaults>>

StartSync ==
  /\ ~ started  /\ syncs["periodic"].pc = "idle"
  /\ started' = TRUE
  /\ current' = loadFromDisk
  /\ SyncRequest("periodic")
  /\ UNCHANGED <<published, disk, etag, registry, forced, syncFaults>>

periodicSync ==
  /\ started  /\ syncs["periodic"].pc = "idle"
  /\ SyncRequest("periodic")
  /\ UNCHANGED <<published, disk, current, etag, registry, started, forced, syncFaults>>

HandleForceSync ==
  /\ started  /\ syncs["api"].pc = "idle"  /\ forced < MaxForced
  /\ forced' = forced + 1
  /\ SyncRequest("api")
  /\ UNCHANGED <<published, disk, current, etag, registry, started, syncFaults>>

\* The answer: 304 when the tag is the newest snapshot's, else the snapshot.
NotModified(c) == syncs[c].tag = published

Respond(c) ==
  /\ syncs[c].pc = "sent"
  /\ Moves(c, IF NotModified(c) THEN Idle
              ELSE [syncs[c] EXCEPT !.pc = "save", !.got = published])
  /\ UNCHANGED <<published, disk, current, etag, registry, started, forced, syncFaults, overlapped>>

\* The request fails, the answer is not 200, the body does not parse or its
\* signature does not verify, or the snapshot cannot be saved.
SyncFails(c) ==
  /\ syncs[c].pc \in {"sent", "save"}  /\ syncFaults < MaxSyncFaults
  /\ syncFaults' = syncFaults + 1
  /\ Moves(c, Idle)
  /\ UNCHANGED <<published, disk, current, etag, registry, started, forced, overlapped>>

\* SnapshotStore.Save: temporary file, then rename.
SaveSnapshot(c) ==
  /\ syncs[c].pc = "save"
  /\ disk' = syncs[c].got
  /\ Moves(c, [syncs[c] EXCEPT !.pc = "memory"])
  /\ UNCHANGED <<published, current, etag, registry, started, forced, syncFaults, overlapped>>

NewTag(c) == syncs[c].got

\* Snapshot and ETag change together, under the mutex.
UpdateMemory(c) ==
  /\ syncs[c].pc = "memory"
  /\ current' = syncs[c].got
  /\ etag' = NewTag(c)
  /\ Moves(c, [syncs[c] EXCEPT !.pc = "notify"])
  /\ UNCHANGED <<published, disk, registry, started, forced, syncFaults, overlapped>>

\* onUpdate, outside the mutex: Registry.LoadSnapshot rebuilds the indexes.
LoadSnapshot(c) ==
  /\ syncs[c].pc = "notify"
  /\ registry' = syncs[c].got
  /\ Moves(c, Idle)
  /\ UNCHANGED <<published, disk, current, etag, started, forced, syncFaults, overlapped>>

\* The agent crashes: snapshot.json survives.
SyncCrash ==
  /\ syncFaults < MaxSyncFaults
  /\ syncFaults' = syncFaults + 1
  /\ current' = 0  /\ etag' = 0  /\ registry' = 0  /\ started' = FALSE
  /\ syncs' = [c \in Callers |-> Idle]  /\ overlapped' = FALSE
  /\ UNCHANGED <<published, disk, forced>>

SyncStep(c) == Respond(c) \/ SaveSnapshot(c) \/ UpdateMemory(c) \/ LoadSnapshot(c)

RegNext ==
  \/ Publish \/ StartSync \/ periodicSync \/ HandleForceSync \/ SyncCrash
  \/ \E c \in Callers : SyncStep(c) \/ SyncFails(c)

\* Start runs, the ticker ticks, and a request is answered or times out.
RegFairness ==
  /\ WF_rvars(StartSync) /\ WF_rvars(periodicSync)
  /\ \A c \in Callers : WF_rvars(SyncStep(c))

RegSpec == RegInit /\ [][RegNext]_rvars
RegFairSpec == RegSpec /\ RegFairness

-----------------------------------------------------------------------------
(* Properties. *)

\* Snapshots are numbers of published ones, and a Sync is at a known step.
RegTypeOK ==
  /\ published \in 1..MaxPublished
  /\ {disk, current, etag, registry} \subseteq 0..published
  /\ \A c \in Callers : syncs[c].pc \in {"idle", "sent", "save", "memory", "notify"}
  /\ started \in BOOLEAN  /\ overlapped \in BOOLEAN

\* As long as no two Syncs overlap, the ETag the agent sends is that of the
\* snapshot its registry answers from, except between the two assignments:
\* a 304 never hides a snapshot the registry has not loaded.
TagIsTheRegistrys ==
  ~ overlapped => \/ etag = registry
                  \/ \E c \in Callers : syncs[c].pc = "notify" /\ syncs[c].got = etag

\* As long as no two Syncs overlap, what the agent answers from is on disk:
\* a crash never takes it back to an older snapshot.
ServedIsSaved == [][~ overlapped' => disk' >= registry' /\ disk' >= disk]_rvars

\* Once the service stops publishing and requests stop failing the registry
\* is the newest snapshot, unless two Syncs overlapped.
CaughtUp == registry = published \/ overlapped

=============================================================================
