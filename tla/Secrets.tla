------------------------------ MODULE Secrets ------------------------------
(***************************************************************************)
(* The vault: SealManager (raft/seal.go) decides whether a node can use    *)
(* the cluster's master key, SecretStore (raft/secrets.go) keeps versioned *)
(* secrets encrypted under it, and a key manager (crypto/keymanager) holds *)
(* the key of one node.  The HTTP handlers of agent/secret_handlers.go and *)
(* the syscalls of kernel/secret_server.go are thin callers.               *)
(*                                                                         *)
(* The replicated store appears as the sequence of its states: the leader  *)
(* appends one per Put, every node reads a prefix.  A master key is the    *)
(* number of the ceremony that drew it; a ciphertext is the plaintext with *)
(* the key that made it, and opens under that key only.  There is one      *)
(* secret path (paths share nothing).  The status record SealManager also  *)
(* writes is read by nobody and left out.                                  *)
(***************************************************************************)
EXTENDS Integers, Sequences, FiniteSets, FiniteSetsExt, Functions

CONSTANTS Nodes,        \* cluster members
          NoMaster,     \* no master key; also: no blob stored
          MaxInputs     \* bound: Put, Delete and Get calls, operator calls,
                        \* elections, restarts and failed Apply calls, together

ASSUME SecretsAssumption == Nodes # {} /\ NoMaster \notin Nat

VARIABLES hist,       \* the replicated store after 1, 2, ... entries
          leader,     \* the raft leader
          applied,    \* per node: entries its state machine has applied
          kms,        \* per node: key manager [key, initialized]
          sm,         \* per node: seal manager [initialized, sealed]
          boot,       \* per node: where its seal manager's caller is
          call,       \* the Put, Delete and Get calls in progress, by number
          ceremonies, \* master keys drawn so far
          calls, events,   \* counters of the bounds
          failed,     \* history: keys whose Initialize returned an error
          acks,       \* history: the values acknowledged, per version
          clean       \* history: no write began on an outdated or contended secret

sevars == <<hist, leader, applied, kms, sm, boot, call, ceremonies,
          calls, events, failed, acks, clean>>
counters == <<calls, events>>
ceremony == <<ceremonies, failed>>
history == <<acks, clean>>

EmptyFcn == [v \in {} |-> v]
EmptyStore == [blob |-> NoMaster, marker |-> FALSE, data |-> EmptyFcn, meta |-> EmptyFcn]
Assign(m, k, v) == [x \in DOMAIN m \cup {k} |-> IF x = k THEN v ELSE m[x]]

Ready(n) == applied[n] >= 1                 \* AppliedIndex() > 0
Local(n) == IF Ready(n) THEN hist[applied[n]] ELSE EmptyStore
Committed == hist[Len(hist)]

\* The key manager of the software backend: sealed when it holds no key.
kmNew == [key |-> NoMaster, initialized |-> FALSE]
kmInitialize(fresh) == [key |-> fresh, initialized |-> TRUE]
kmSeal(k) == [k EXCEPT !.key = NoMaster]
kmUnseal(k, blob) == [key |-> IF k.key = NoMaster THEN blob ELSE k.key, initialized |-> TRUE]
kmEncrypt(k, value) == [key |-> k.key, value |-> value, deleted |-> FALSE]
kmDecrypts(k, entry) == k.key = entry.key

\* A process that has just created its seal manager.
NewSealManager == [initialized |-> FALSE, sealed |-> TRUE]

SeInit == /\ hist = <<EmptyStore>>
          /\ leader = CHOOSE n \in Nodes : TRUE    \* nodes are alike
          /\ applied = [n \in Nodes |-> 0]
          /\ kms = [n \in Nodes |-> kmNew]
          /\ sm = [n \in Nodes |-> NewSealManager]
          /\ boot = [n \in Nodes |-> "load"]
          /\ call = EmptyFcn
          /\ ceremonies = 0 /\ failed = {}
          /\ calls = 0 /\ events = 0
          /\ acks = {} /\ clean = TRUE

-----------------------------------------------------------------------------
(***************************************************************************)
(* KV.Put through raft.  A leader's successful Put has been applied by the *)
(* leader; a Put that fails may have been committed all the same.          *)
(***************************************************************************)
PutOk(n, state) ==
    /\ leader = n
    /\ hist' = Append(hist, state)
    /\ applied' = [applied EXCEPT ![n] = Len(hist) + 1]
    /\ UNCHANGED events

PutFails(n, state) ==
    \/ leader # n /\ UNCHANGED <<hist, applied, events>>     \* ErrNotLeader
    \/ /\ leader = n /\ calls + events < MaxInputs
       /\ events' = events + 1
       /\ hist' \in {hist, Append(hist, state)}
       /\ UNCHANGED applied

ApplyEntry(n) ==
    /\ applied[n] < Len(hist)
    /\ applied' = [applied EXCEPT ![n] = @ + 1]
    /\ UNCHANGED <<hist, leader, kms, sm, boot, call, ceremony, counters, history>>

Elect(n) ==
    /\ leader # n /\ calls + events < MaxInputs
    /\ leader' = n /\ events' = events + 1
    /\ UNCHANGED <<hist, applied, kms, sm, boot, call, ceremony, calls, history>>

\* The process restarts: keys and calls in memory are gone, and its state
\* machine is filled again from the log.
Restart(n) ==
    /\ calls + events < MaxInputs /\ events' = events + 1
    /\ applied' = [applied EXCEPT ![n] = 0]
    /\ kms' = [kms EXCEPT ![n] = kmNew]
    /\ sm' = [sm EXCEPT ![n] = NewSealManager]
    /\ boot' = [boot EXCEPT ![n] = "load"]
    /\ call' = Restrict(call, {r \in DOMAIN call : call[r].node # n})
    /\ UNCHANGED <<hist, leader, ceremony, calls, history>>

-----------------------------------------------------------------------------
(***************************************************************************)
(* initAndUnsealSecretStore: NewSealManager loads the state, Initialize    *)
(* runs if there is none, AutoUnseal if the node is still sealed.  Waiting *)
(* for the state machine to be ready may time out at each step.            *)
(***************************************************************************)

\* loadStateLocked on a node: the marker is read from the local store, and
\* the seal state is the key manager's, whatever key that one holds.
loadStateLocked(n) ==
    IF Local(n).marker THEN [initialized |-> TRUE, sealed |-> kms[n].key = NoMaster] ELSE sm[n]

\* A state machine that is not filled within waitForReady's time is a fault.
LoadState(n) ==
    /\ boot[n] = "load"
    /\ IF Ready(n) THEN UNCHANGED events ELSE calls + events < MaxInputs /\ events' = events + 1
    /\ sm' = [sm EXCEPT ![n] = loadStateLocked(n)]
    /\ boot' = [boot EXCEPT ![n] = IF sm'[n].initialized THEN "auto" ELSE "init"]
    /\ UNCHANGED <<hist, leader, applied, kms, call, ceremony, calls, history>>

\* Initialize up to the first Put: the key manager draws a master key, once
\* in its life.  "after" is where its caller goes on.
DrawKey(n, after) ==
    IF Ready(n) /\ ~kms[n].initialized
    THEN /\ ceremonies' = ceremonies + 1
         /\ kms' = [kms EXCEPT ![n] = kmInitialize(ceremonies + 1)]
         /\ boot' = [boot EXCEPT ![n] = IF after = "auto" THEN "blob" ELSE "hblob"]
    ELSE /\ boot' = [boot EXCEPT ![n] = after]
         /\ UNCHANGED <<kms, ceremonies>>

BootInitialize(n) ==
    /\ boot[n] = "init"
    /\ DrawKey(n, "auto")
    /\ UNCHANGED <<hist, leader, applied, sm, call, failed, counters, history>>

\* Where Initialize returns to: the start-up, or the HTTP handler.
After(n) == IF boot[n] \in {"blob", "marker"} THEN "auto" ELSE "serving"

\* The Put of the master key blob.  On an error Initialize returns: the key
\* manager keeps the key it drew.
StoreBlob(n) ==
    LET state == [Committed EXCEPT !.blob = kms[n].key]
    IN  /\ boot[n] \in {"blob", "hblob"}
        /\ \/ /\ PutOk(n, state)
              /\ boot' = [boot EXCEPT ![n] = IF @ = "blob" THEN "marker" ELSE "hmarker"]
              /\ UNCHANGED failed
           \/ /\ PutFails(n, state)
              /\ boot' = [boot EXCEPT ![n] = After(n)]
              /\ failed' = failed \cup {kms[n].key}
        /\ UNCHANGED <<leader, kms, sm, call, ceremonies, calls, history>>

\* The Put of the marker, and the flags that follow its success.
StoreMarker(n) ==
    LET state == [Committed EXCEPT !.marker = TRUE]
    IN  /\ boot[n] \in {"marker", "hmarker"}
        /\ \/ /\ PutOk(n, state)
              /\ sm' = [sm EXCEPT ![n] = [initialized |-> TRUE, sealed |-> FALSE]]
              /\ UNCHANGED failed
           \/ /\ PutFails(n, state)
              /\ failed' = failed \cup {kms[n].key} /\ UNCHANGED sm
        /\ boot' = [boot EXCEPT ![n] = After(n)]
        /\ UNCHANGED <<leader, kms, call, ceremonies, calls, history>>

\* Mutant: the key manager draws a key of its own instead of using the blob.
UnsealFresh(n, loaded) ==
    IF loaded.initialized /\ loaded.sealed /\ Local(n).blob # NoMaster
    THEN /\ kms' = [kms EXCEPT ![n] = [key |-> ceremonies + 1, initialized |-> TRUE]]
         /\ sm' = [sm EXCEPT ![n] = [initialized |-> TRUE, sealed |-> FALSE]]
    ELSE /\ sm' = [sm EXCEPT ![n] = loaded]
         /\ UNCHANGED kms

\* Unseal: load the state if need be, and when sealed hand the locally stored
\* blob to the key manager, which ignores it unless it is sealed.
UnsealFrom(n, loaded) ==
    IF loaded.initialized /\ loaded.sealed /\ Local(n).blob # NoMaster
    THEN /\ kms' = [kms EXCEPT ![n] = kmUnseal(@, Local(n).blob)]
         /\ sm' = [sm EXCEPT ![n] = [initialized |-> TRUE, sealed |-> FALSE]]
    ELSE /\ sm' = [sm EXCEPT ![n] = loaded]
         /\ UNCHANGED kms

\* AutoUnseal, unless IsSealed is already false; after it the seal manager
\* and the store are handed to the HTTP server and the kernel.
AutoUnseal(n) ==
    /\ boot[n] = "auto"
    /\ IF sm[n].sealed THEN UnsealFrom(n, loadStateLocked(n)) ELSE UNCHANGED <<kms, sm>>
    /\ boot' = [boot EXCEPT ![n] = "serving"]
    /\ UNCHANGED <<hist, leader, applied, call, ceremony, counters, history>>

-----------------------------------------------------------------------------
(***************************************************************************)
(* The operator's calls on a serving node (vault init, seal, unseal; a     *)
(* status request refreshes an uninitialised seal manager).                *)
(***************************************************************************)
Operator(n) == /\ boot[n] = "serving" /\ calls + events < MaxInputs
               /\ events' = events + 1
               /\ UNCHANGED <<hist, leader, applied, call, calls, history>>

SealNode(n) == /\ sm[n].initialized /\ ~sm[n].sealed
               /\ kms' = [kms EXCEPT ![n] = kmSeal(@)]
               /\ sm' = [sm EXCEPT ![n].sealed = TRUE]

\* Status refreshes a seal manager that has not seen the marker.
Status(n) == /\ ~sm[n].initialized
             /\ sm' = [sm EXCEPT ![n] = loadStateLocked(n)]
             /\ UNCHANGED kms

\* Only this node's flag stands between the operator and a new ceremony.
handleSecretsInit(n) == /\ Operator(n) /\ ~sm[n].initialized
                        /\ DrawKey(n, "serving")
                        /\ UNCHANGED <<sm, failed>>

handleSecretsSeal(n) == Operator(n) /\ SealNode(n) /\ UNCHANGED <<boot, ceremony>>

handleSecretsUnseal(n) ==
    /\ Operator(n)
    /\ UnsealFrom(n, IF sm[n].initialized THEN sm[n] ELSE loadStateLocked(n))
    /\ UNCHANGED <<boot, ceremony>>

handleSecretsStatus(n) == Operator(n) /\ Status(n) /\ UNCHANGED <<boot, ceremony>>

-----------------------------------------------------------------------------
(***************************************************************************)
(* SecretStore.  No lock is held across the steps of a call, so calls on   *)
(* one secret interleave, on one node and between nodes.                   *)
(***************************************************************************)
checkSealed(n) == ~sm[n].sealed /\ sm[n].initialized

\* SetSecretStore: before it the handlers and syscalls answer "not available".
SecretStoreSet(n) == boot[n] = "serving"

getLatestVersion(meta) == Max(DOMAIN meta \cup {0})

\* A write begins on the newest metadata and alone, or the history is marked.
Undisturbed(n) == /\ \A r \in DOMAIN call : call[r].kind = "get"
                  /\ Local(n).meta = Committed.meta

Writing(n) == /\ checkSealed(n) /\ calls + events < MaxInputs
              /\ calls' = calls + 1
              /\ clean' = (clean /\ Undisturbed(n))
              /\ UNCHANGED <<hist, leader, applied, kms, sm, boot, ceremony, events, acks>>

\* Mutant: the version number of an existing secret is not advanced.
nextVersionStuck(meta) == IF DOMAIN meta = {} THEN 1 ELSE getLatestVersion(meta)

nextVersion(meta) == getLatestVersion(meta) + 1

\* Put, up to the version number: the metadata is read from the local store.
BeginPut(n) ==
    /\ Writing(n)
    /\ call' = Assign(call, calls + 1, [kind |-> "put", step |-> "encrypt", node |-> n,
                                   base |-> Local(n).meta, version |-> nextVersion(Local(n).meta),
                                   entry |-> EmptyFcn, value |-> calls + 1])

CallDone(r) == call' = Restrict(call, DOMAIN call \ {r})
Goto(r, step) == call' = [call EXCEPT ![r].step = step]

\* DeriveKey, WrapKey and Encrypt under the node's key; a key manager that
\* was sealed meanwhile refuses.
EncryptVersion(r) ==
    LET c == call[r]
    IN  /\ c.kind = "put" /\ c.step = "encrypt"
        /\ IF kms[c.node].key = NoMaster THEN CallDone(r)
           ELSE call' = [call EXCEPT ![r].step = "data",
                            ![r].entry = kmEncrypt(kms[c.node], c.value)]
        /\ UNCHANGED <<hist, leader, applied, kms, sm, boot, ceremony, counters, history>>

\* Delete, up to the version: the latest one, from the local store.  (Which
\* versions to delete may also be listed; each is treated like this one.)
BeginDelete(n) ==
    /\ Writing(n)
    /\ DOMAIN Local(n).meta # {}
    /\ LET v == getLatestVersion(Local(n).meta)
       IN  call' = Assign(call, calls + 1, [kind |-> "delete", step |-> "fetch", node |-> n,
                                      base |-> [Local(n).meta EXCEPT ![v] = TRUE], version |-> v,
                                      entry |-> EmptyFcn, value |-> 0])

\* The linearizable read of the version Delete is about to mark; a node that
\* is not the leader goes straight to the metadata.
FetchVersion(r) ==
    LET c == call[r]
    IN  /\ c.kind = "delete" /\ c.step = "fetch"
        /\ IF leader = c.node /\ c.version \in DOMAIN Local(c.node).data
           THEN call' = [call EXCEPT ![r].step = "data",
                            ![r].entry = [Local(c.node).data[c.version] EXCEPT !.deleted = TRUE]]
           ELSE Goto(r, "meta")
        /\ UNCHANGED <<hist, leader, applied, kms, sm, boot, ceremony, counters, history>>

\* The Put of the version entry.  Its error ends a Put; Delete ignores it.
StoreVersion(r) ==
    LET c == call[r]
        state == [Committed EXCEPT !.data = Assign(@, c.version, c.entry)]
    IN  /\ c.kind # "get" /\ c.step = "data"
        /\ \/ PutOk(c.node, state) /\ Goto(r, "meta")
           \/ PutFails(c.node, state) /\ IF c.kind = "put" THEN CallDone(r) ELSE Goto(r, "meta")
        /\ UNCHANGED <<leader, kms, sm, boot, ceremony, calls, history>>

\* The Put of the metadata: the whole version list as the call read it, with
\* its own change.  With its success the call returns success.
StoreMetadata(r) ==
    LET c == call[r]
        state == [Committed EXCEPT !.meta = Assign(c.base, c.version, c.kind = "delete")]
    IN  /\ c.kind # "get" /\ c.step = "meta"
        /\ \/ /\ PutOk(c.node, state)
              /\ acks' = IF c.kind = "put" THEN acks \cup {<<c.version, c.value>>} ELSE acks
           \/ PutFails(c.node, state) /\ UNCHANGED acks
        /\ CallDone(r)
        /\ UNCHANGED <<leader, kms, sm, boot, ceremony, calls, clean>>

\* Get, up to the version: any listed version may be asked for, on any node.
BeginGet(n) ==
    /\ checkSealed(n)
    /\ calls + events < MaxInputs /\ calls' = calls + 1
    /\ \E v \in DOMAIN Local(n).meta :
          call' = Assign(call, calls + 1, [kind |-> "get", step |-> "data", node |-> n,
                                     base |-> EmptyFcn, version |-> v,
                                     entry |-> EmptyFcn, value |-> 0])
    /\ UNCHANGED <<hist, leader, applied, kms, sm, boot, ceremony, events, history>>

\* The version entry is read from the local store and opened.
FinishGet(r) ==
    /\ call[r].kind = "get"
    /\ CallDone(r)
    /\ UNCHANGED <<hist, leader, applied, kms, sm, boot, ceremony, counters, history>>

\* The HTTP handlers and the syscalls that reach the store.
handleSecretPut(n) == SecretStoreSet(n) /\ BeginPut(n)
handleSecretDelete(n) == SecretStoreSet(n) /\ BeginDelete(n)
handleSecretGet(n) == SecretStoreSet(n) /\ BeginGet(n)
StoreSecret(n) == SecretStoreSet(n) /\ BeginPut(n)
MountSecret(n) == SecretStoreSet(n) /\ BeginGet(n)

-----------------------------------------------------------------------------
Booting(n) == \/ LoadState(n) \/ BootInitialize(n) \/ StoreBlob(n) \/ StoreMarker(n) \/ AutoUnseal(n)
Handling(n) == \/ handleSecretsInit(n) \/ handleSecretsSeal(n) \/ handleSecretsUnseal(n) \/ handleSecretsStatus(n)
               \/ handleSecretPut(n) \/ handleSecretDelete(n) \/ handleSecretGet(n)
               \/ StoreSecret(n) \/ MountSecret(n)
Running(r) == \/ EncryptVersion(r) \/ FetchVersion(r) \/ StoreVersion(r) \/ StoreMetadata(r)
              \/ FinishGet(r)

SeNext == \/ \E n \in Nodes : Booting(n) \/ Handling(n)
          \/ \E r \in DOMAIN call : Running(r)
          \/ \E n \in Nodes : ApplyEntry(n) \/ Elect(n) \/ Restart(n)

SeSpec == SeInit /\ [][SeNext]_sevars

\* The start-up goroutine runs on, and raft delivers what is committed.
SeFairSpec == SeSpec /\ \A n \in Nodes : WF_sevars(Booting(n)) /\ WF_sevars(ApplyEntry(n))

-----------------------------------------------------------------------------
(***************************************************************************)
(* Properties.                                                             *)
(***************************************************************************)
\* Keys, flags and calls have their types.
SeTypeOK ==
    /\ applied \in [Nodes -> 0 .. Len(hist)] /\ leader \in Nodes
    /\ kms \in [Nodes -> [key : Nat \cup {NoMaster}, initialized : BOOLEAN]]
    /\ sm \in [Nodes -> [initialized : BOOLEAN, sealed : BOOLEAN]]
    /\ boot \in [Nodes -> {"load", "init", "blob", "marker", "auto", "serving", "hblob", "hmarker"}]
    /\ \A r \in DOMAIN call : call[r].node \in Nodes
    /\ failed \subseteq 1 .. ceremonies

StoredBlobs == {hist[i].blob : i \in DOMAIN hist} \ {NoMaster}

\* As long as one master key blob at most has ever been stored, every unsealed
\* node holds that key and opens every listed version, whatever was sealed,
\* unsealed and restarted in between; the exceptions are the keys of
\* Initialize calls that returned an error, which their key managers go on
\* using.
KeyAgreement ==
    Cardinality(StoredBlobs) <= 1 =>
       \A n \in Nodes : ~sm[n].sealed /\ kms[n].key \notin failed =>
          /\ kms[n].key \in StoredBlobs
          /\ \A v \in DOMAIN Committed.meta \cap DOMAIN Committed.data :
                \/ Committed.data[v].key \in failed
                \/ kmDecrypts(kms[n], Committed.data[v])

\* "Secret data is Raft-committed and safe to read from any node's local
\* FSM": a Get that found its version listed finds the version's entry in the
\* same local store, although the two are separate entries and the writer, or
\* the node itself, may have failed between them.
FollowerReadsComplete ==
    \A r \in DOMAIN call : call[r].kind = "get" =>
        call[r].version \in DOMAIN Local(call[r].node).data

\* As long as every Put and Delete began alone and on the newest metadata, an
\* acknowledged version stays listed and keeps the value it was acknowledged
\* with: failed attempts before and after it, and their orphaned entries, do
\* not touch it.
AcknowledgedKept ==
    clean => \A a \in acks : /\ a[1] \in DOMAIN Committed.meta \cap DOMAIN Committed.data
                            /\ Committed.data[a[1]].value = a[2]

\* An acknowledged version of a secret stays with the value acknowledged, and
\* a reader of any node's own store that finds a version listed finds its value.
VersionsKept == SeTypeOK /\ AcknowledgedKept /\ FollowerReadsComplete

\* A seal manager counts as unsealed exactly when its key manager has a key,
\* unless it has not seen the initialisation marker: no order of start-up,
\* seal, unseal and status calls lets the two drift apart.
SealStatesAgree ==
    \A n \in Nodes : sm[n].initialized => (sm[n].sealed <=> kms[n].key = NoMaster)

\* Without elections, restarts or raft errors the cluster gets its master key:
\* the leader's start-up stores blob and marker.
MarkerStored == Committed.marker \/ events > 0

\* A start-up that ends with the marker in the node's store leaves the node
\* unsealed: the marker is never there without a blob that opens.
StartupUnseals ==
    [][\A n \in Nodes : boot[n] = "auto" /\ boot'[n] = "serving" /\ Local(n).marker
          => ~sm'[n].sealed]_sevars
=============================================================================
