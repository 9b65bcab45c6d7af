------------------------------- MODULE FSMOps -------------------------------
(***************************************************************************)
(* The replicated key-value state machine of internal/raft/fsm.go, as      *)
(* operators on a value of the KVStateMachine struct: what one committed   *)
(* FSMCommand does to it, and what Snapshot and Restore carry across.      *)
(* Every component that talks to the store is built on these operators.    *)
(*                                                                         *)
(* A key or a value is an opaque element with a length in bytes (SizeOf);  *)
(* whether a key is well formed is membership of ValidKeys.  Wall-clock    *)
(* fields (CreateTime, ModTime, GrantedAt, ExpiresAt) are left out: no     *)
(* code reads them to decide anything (nothing expires a lease).           *)
(***************************************************************************)
EXTENDS Integers, Sequences, FiniteSets, Functions

CONSTANTS Keys,            \* keys a command may name, valid or not
          ValidKeys,       \* the keys isValidKey accepts
          Values,          \* values a put may carry
          LeaseIDs,        \* lease identifiers
          NoLease,         \* the empty lease ID of a plain put
          SizeOf,          \* byte length of every key and value
          MaxValueSize,    \* Config.MaxValueSize
          MaxStorageSize   \* Config.MaxStorageSize

ASSUME FSMAssumption ==
    /\ ValidKeys \subseteq Keys
    /\ NoLease \notin LeaseIDs
    /\ SizeOf \in [Keys \cup Values -> Nat]
    /\ MaxValueSize \in Nat
    /\ MaxStorageSize \in Nat

-----------------------------------------------------------------------------
(***************************************************************************)
(* The struct.                                                             *)
(***************************************************************************)

KVEntry == [value : Values, revision : Nat, createdRevision : Nat,
            modifiedRevision : Nat, version : Nat]

\* A Go map from S to T is a function on a subset of S.
IsMap(m, S, T) == /\ DOMAIN m \subseteq S
                  /\ m \in [DOMAIN m -> T]

IsKVStateMachine(s) ==
    /\ s \in [data : {s.data}, revision : Nat, currentSize : Int, leases : {s.leases}]
    /\ IsMap(s.data, Keys, KVEntry)
    /\ IsMap(s.leases, LeaseIDs, Seq(Keys))

EmptyMap == [x \in {} |-> x]

NewKVStateMachine == [data |-> EmptyMap, revision |-> 0,
                      currentSize |-> 0, leases |-> EmptyMap]

\* The bytes an entry accounts for, one element per byte, and the bytes of
\* a whole store: the sum of len(key) + len(value) is a cardinality.
EntryBytes(key, entry) ==
    {key} \X (1 .. (SizeOf[key] + SizeOf[entry.value]))

StoredBytes(data) == UNION {EntryBytes(key, data[key]) : key \in DOMAIN data}

-----------------------------------------------------------------------------
(***************************************************************************)
(* Commands.  Each apply operator takes the state machine after Apply has  *)
(* incremented the revision and returns the new state machine and the      *)
(* error the caller sees ("nil" when there is none).                       *)
(***************************************************************************)

Done(s) == [fsm |-> s, err |-> "nil"]
Fail(s, err) == [fsm |-> s, err |-> err]

\* Set or add one binding of a map.
Bind(m, k, v) == [x \in DOMAIN m \cup {k} |-> IF x = k THEN v ELSE m[x]]

\* The state machine with other data, and the size that goes with it.
WithData(s, data, size) == [data |-> data, revision |-> s.revision,
                            currentSize |-> size, leases |-> s.leases]

isValidKey(key) == key \in ValidKeys

\* The lease attachment at the end of applyPut: an unknown lease is ignored.
attachIfLeased(leases, key, leaseID) ==
    IF leaseID \in DOMAIN leases
    THEN [leases EXCEPT ![leaseID] = Append(@, key)]
    ELSE leases

\* Mutant: an update does not stamp the revision that made it.
updateUnstamped(s, key, value) ==
    LET old == s.data[key]
    IN  WithData(s, Bind(s.data, key, [value |-> value,
                                       revision |-> old.revision,
                                       createdRevision |-> old.createdRevision,
                                       modifiedRevision |-> old.modifiedRevision,
                                       version |-> old.version + 1]),
                 s.currentSize - SizeOf[old.value] + SizeOf[value])

\* The update branch of applyPut: no budget check, and Revision is kept.
updateEntry(s, key, value) ==
    LET old == s.data[key]
    IN  WithData(s, Bind(s.data, key, [value |-> value,
                                       revision |-> old.revision,
                                       createdRevision |-> old.createdRevision,
                                       modifiedRevision |-> s.revision,
                                       version |-> old.version + 1]),
                 s.currentSize - SizeOf[old.value] + SizeOf[value])

\* The create branch of applyPut.
createEntry(s, key, value) ==
    WithData(s, Bind(s.data, key, [value |-> value,
                                   revision |-> s.revision,
                                   createdRevision |-> s.revision,
                                   modifiedRevision |-> s.revision,
                                   version |-> 1]),
             s.currentSize + SizeOf[key] + SizeOf[value])

\* Mutant: neither the key nor the size of the value is validated.
putUnbounded(s, key, value, leaseID) ==
    IF key \in DOMAIN s.data THEN Done(updateEntry(s, key, value))
    ELSE IF s.currentSize + SizeOf[key] + SizeOf[value] <= MaxStorageSize
         THEN Done(createEntry(s, key, value))
         ELSE Fail(s, "ErrStorageFull")

applyPut(s, key, value, leaseID) ==
    LET attach(t) == [t EXCEPT !.leases = attachIfLeased(@, key, leaseID)]
        fits == s.currentSize + SizeOf[key] + SizeOf[value] <= MaxStorageSize
    IN  CASE ~isValidKey(key) -> Fail(s, "ErrInvalidKey")
          [] isValidKey(key) /\ SizeOf[value] > MaxValueSize ->
               Fail(s, "ErrValueTooLarge")
          [] OTHER ->
               IF key \in DOMAIN s.data THEN Done(attach(updateEntry(s, key, value)))
               ELSE IF fits THEN Done(attach(createEntry(s, key, value)))
               ELSE Fail(s, "ErrStorageFull")

\* Leases that list the key keep listing it.
applyDelete(s, key) ==
    IF key \in DOMAIN s.data
    THEN Done(WithData(s, Restrict(s.data, DOMAIN s.data \ {key}),
                       s.currentSize - (SizeOf[key] + SizeOf[s.data[key].value])))
    ELSE Fail(s, "ErrKeyNotFound")

\* The TTL of a grant either parses or does not.
applyGrantLease(s, leaseID, ttlParses) ==
    IF ttlParses THEN Done([s EXCEPT !.leases = Bind(@, leaseID, << >>)])
    ELSE Fail(s, "ErrBadTTL")

\* Mutant: the size is reduced once per listing of a key.
revokeCountsListings(s, leaseID) ==
    IF leaseID \in DOMAIN s.leases
    THEN LET keys == s.leases[leaseID]
             gone == DOMAIN s.data \cap Range(keys)
             listed == {i \in DOMAIN keys : keys[i] \in gone}
             size(i) == SizeOf[keys[i]] + SizeOf[s.data[keys[i]].value]
             freed == MapThenFoldSet(+, 0, size, LAMBDA S : CHOOSE i \in S : TRUE, listed)
         IN  Done([WithData(s, Restrict(s.data, DOMAIN s.data \ gone), s.currentSize - freed)
                     EXCEPT !.leases = Restrict(@, DOMAIN @ \ {leaseID})])
    ELSE Fail(s, "ErrLeaseNotFound")

\* applyRevokeLease calls applyDelete on every listed key and ignores its
\* error, so a key listed twice, or no longer there, is freed at most once.
applyRevokeLease(s, leaseID) ==
    IF leaseID \in DOMAIN s.leases
    THEN LET gone == DOMAIN s.data \cap Range(s.leases[leaseID])
             freed == Cardinality(StoredBytes(Restrict(s.data, gone)))
         IN  Done([WithData(s, Restrict(s.data, DOMAIN s.data \ gone), s.currentSize - freed)
                     EXCEPT !.leases = Restrict(@, DOMAIN @ \ {leaseID})])
    ELSE Fail(s, "ErrLeaseNotFound")

applyAttachLease(s, key, leaseID) ==
    CASE leaseID \notin DOMAIN s.leases -> Fail(s, "ErrLeaseNotFound")
      [] leaseID \in DOMAIN s.leases /\ key \notin DOMAIN s.data ->
           Fail(s, "ErrKeyNotFound")
      [] OTHER -> Done([s EXCEPT !.leases = attachIfLeased(@, key, leaseID)])

-----------------------------------------------------------------------------
(***************************************************************************)
(* FSMCommand and its dispatch.  "malformed" stands for log data that is   *)
(* not JSON, "unknown" for an op the switch does not list.                 *)
(***************************************************************************)

PutCmd(key, value, leaseID) ==
    [op |-> "put", key |-> key, value |-> value, lease |-> leaseID]
DeleteCmd(key) == [op |-> "delete", key |-> key]
GrantCmd(leaseID, ttlParses) ==
    [op |-> "grant_lease", key |-> leaseID, ttlParses |-> ttlParses]
RevokeCmd(leaseID) == [op |-> "revoke_lease", key |-> leaseID]
AttachCmd(key, leaseID) == [op |-> "attach_lease", key |-> key, lease |-> leaseID]
UnknownCmd == [op |-> "unknown"]
MalformedCmd == [op |-> "malformed"]

FSMCommand ==
    {PutCmd(k, v, l) : k \in Keys, v \in Values, l \in LeaseIDs \cup {NoLease}}
    \cup {DeleteCmd(k) : k \in Keys}
    \cup {GrantCmd(l, b) : l \in LeaseIDs, b \in BOOLEAN}
    \cup {RevokeCmd(l) : l \in LeaseIDs}
    \cup {AttachCmd(k, l) : k \in Keys, l \in LeaseIDs}
    \cup {UnknownCmd, MalformedCmd}

\* The revision counts every command that parses, the failing ones included.
Apply(fsm, cmd) ==
    LET s == [fsm EXCEPT !.revision = @ + 1]
    IN  CASE cmd.op = "malformed"    -> Fail(fsm, "ErrUnmarshal")
          [] cmd.op = "put"          -> applyPut(s, cmd.key, cmd.value, cmd.lease)
          [] cmd.op = "delete"       -> applyDelete(s, cmd.key)
          [] cmd.op = "grant_lease"  -> applyGrantLease(s, cmd.key, cmd.ttlParses)
          [] cmd.op = "revoke_lease" -> applyRevokeLease(s, cmd.key)
          [] cmd.op = "attach_lease" -> applyAttachLease(s, cmd.key, cmd.lease)
          [] OTHER                   -> Fail(s, "ErrUnknownCommand")

-----------------------------------------------------------------------------
(***************************************************************************)
(* Snapshots.  The JSON snapshot has no size: Restore recomputes it.       *)
(***************************************************************************)

IsFSMSnapshot(snap) ==
    /\ snap \in [revision : Nat, data : {snap.data}, leases : {snap.leases}]
    /\ IsMap(snap.data, Keys, KVEntry)
    /\ IsMap(snap.leases, LeaseIDs, Seq(Keys))

\* Mutant: the snapshot leaves the revision counter behind.
SnapshotUnnumbered(s) == [revision |-> 0, data |-> s.data, leases |-> s.leases]

Snapshot(s) == [revision |-> s.revision, data |-> s.data, leases |-> s.leases]

\* Mutant: the size is not recounted.
RestoreUncounted(snap) == [data |-> snap.data, revision |-> snap.revision,
                           currentSize |-> 0, leases |-> snap.leases]

Restore(snap) == [data |-> snap.data, revision |-> snap.revision,
                  currentSize |-> Cardinality(StoredBytes(snap.data)),
                  leases |-> snap.leases]

-----------------------------------------------------------------------------
(***************************************************************************)
(* What the bookkeeping of a state machine is meant to satisfy.            *)
(***************************************************************************)

\* currentSize is the number of bytes stored.
SizeIsExact(s) == s.currentSize = Cardinality(StoredBytes(s.data))

\* Entries are stamped in the order created, modified, now; no two keys were
\* last modified by one command; an entry has at most one version per command
\* since its creation.
EntriesOrdered(data, revision) ==
    \A k \in DOMAIN data :
       /\ 1 <= data[k].createdRevision
       /\ data[k].revision = data[k].createdRevision
       /\ data[k].createdRevision <= data[k].modifiedRevision
       /\ data[k].modifiedRevision <= revision
       /\ 1 <= data[k].version
       /\ data[k].version <= data[k].modifiedRevision - data[k].createdRevision + 1
       /\ \A j \in DOMAIN data \ {k} :
             data[j].modifiedRevision # data[k].modifiedRevision
=============================================================================
