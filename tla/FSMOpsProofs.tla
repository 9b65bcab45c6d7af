---------------------------- MODULE FSMOpsProofs ----------------------------
(***************************************************************************)
(* Facts about the operators of FSMOps, for any keys, values, leases and   *)
(* limits: every command keeps the state machine well formed, its size     *)
(* exact and its entries ordered.                                          *)
(***************************************************************************)
EXTENDS FSMOps, FiniteSetTheorems, TLAPS

\* The bytes of a store are finitely many.
Finite(s) == IsFiniteSet(StoredBytes(s.data))

-----------------------------------------------------------------------------
(***************************************************************************)
(* Counting bytes.                                                         *)
(***************************************************************************)

\* An entry takes len(key) + len(value) bytes.
LEMMA EntryBytesCount ==
    ASSUME NEW key \in Keys, NEW entry, entry.value \in Values
    PROVE  /\ IsFiniteSet(EntryBytes(key, entry))
           /\ Cardinality(EntryBytes(key, entry)) = SizeOf[key] + SizeOf[entry.value]
<1> DEFINE n == SizeOf[key] + SizeOf[entry.value]
<1>1. n \in Nat
  BY FSMAssumption
<1>2. IsFiniteSet(1..n) /\ Cardinality(1..n) = n
  BY <1>1, FS_Interval
<1>3. IsFiniteSet({key}) /\ Cardinality({key}) = 1
  BY FS_Singleton, Zenon
<1> DEFINE S == {key}
           T == 1..n
<1>4. IsFiniteSet(S \X T) /\ Cardinality(S \X T) = 1 * n
  <2>1. IsFiniteSet(S) /\ Cardinality(S) = 1 /\ IsFiniteSet(T) /\ Cardinality(T) = n
    BY <1>2, <1>3
  <2> HIDE DEF S, T, n
  <2>2. IsFiniteSet(S \X T) /\ Cardinality(S \X T) = Cardinality(S) * Cardinality(T)
    BY <2>1, FS_Product
  <2>3. QED
    BY <2>1, <2>2
<1> HIDE DEF n
<1>5. QED
  BY <1>1, <1>4 DEF EntryBytes, n

\* Bytes of a map are those of any part of it and of the rest, disjointly.
LEMMA BytesSplit ==
    ASSUME NEW data, NEW S \in SUBSET DOMAIN data
    PROVE  /\ StoredBytes(data) = StoredBytes(Restrict(data, S))
                                  \cup StoredBytes(Restrict(data, DOMAIN data \ S))
           /\ StoredBytes(Restrict(data, S))
                \cap StoredBytes(Restrict(data, DOMAIN data \ S)) = {}
  BY DEF StoredBytes, EntryBytes, Restrict

\* Removing keys removes their bytes.
LEMMA BytesRemoved ==
    ASSUME NEW data, NEW S \in SUBSET DOMAIN data, IsFiniteSet(StoredBytes(data))
    PROVE  /\ IsFiniteSet(StoredBytes(Restrict(data, S)))
           /\ IsFiniteSet(StoredBytes(Restrict(data, DOMAIN data \ S)))
           /\ Cardinality(StoredBytes(Restrict(data, DOMAIN data \ S)))
                = Cardinality(StoredBytes(data)) - Cardinality(StoredBytes(Restrict(data, S)))
<1> DEFINE all  == StoredBytes(data)
           part == StoredBytes(Restrict(data, S))
           rest == StoredBytes(Restrict(data, DOMAIN data \ S))
<1>1. all = part \cup rest /\ part \cap rest = {}
  BY BytesSplit
<1> HIDE DEF all, part, rest
<1>2. IsFiniteSet(all)
  BY DEF all
<1>3. IsFiniteSet(part) /\ IsFiniteSet(rest)
  BY <1>1, <1>2, FS_Subset
<1>4. Cardinality(all) = Cardinality(part) + Cardinality(rest) - Cardinality({})
  BY <1>1, <1>3, FS_Union
<1>5. Cardinality(all) = Cardinality(part) + Cardinality(rest)
  BY <1>2, <1>3, <1>4, FS_EmptySet, FS_CardinalityType
<1>6. Cardinality(rest) = Cardinality(all) - Cardinality(part)
  BY <1>2, <1>3, <1>5, FS_CardinalityType
<1>7. QED
  BY <1>3, <1>6 DEF all, part, rest

\* Binding a key that is not there adds the bytes of its entry.
LEMMA BytesAdded ==
    ASSUME NEW data, NEW key \in Keys \ DOMAIN data, NEW entry,
           entry.value \in Values, IsFiniteSet(StoredBytes(data))
    PROVE  /\ IsFiniteSet(StoredBytes(Bind(data, key, entry)))
           /\ Cardinality(StoredBytes(Bind(data, key, entry)))
                = Cardinality(StoredBytes(data)) + SizeOf[key] + SizeOf[entry.value]
<1> DEFINE old == StoredBytes(data)
           new == EntryBytes(key, entry)
<1>1. StoredBytes(Bind(data, key, entry)) = old \cup new
  BY Zenon DEF StoredBytes, Bind
<1>2. old \cap new = {}
  BY DEF StoredBytes, EntryBytes
<1>3. IsFiniteSet(new) /\ Cardinality(new) = SizeOf[key] + SizeOf[entry.value]
  BY EntryBytesCount
<1>4. IsFiniteSet(old)
  OBVIOUS
<1> HIDE DEF old, new
<1>5. /\ IsFiniteSet(old \cup new)
      /\ Cardinality(old \cup new) = Cardinality(old) + Cardinality(new) - Cardinality({})
  BY <1>2, <1>3, <1>4, FS_Union
<1>6. Cardinality(old) \in Nat /\ SizeOf[key] \in Nat /\ SizeOf[entry.value] \in Nat
  BY <1>4, FS_CardinalityType, FSMAssumption
<1>7. Cardinality(old \cup new) = Cardinality(old) + SizeOf[key] + SizeOf[entry.value]
  BY <1>3, <1>5, <1>6, FS_EmptySet
<1>8. QED
  BY <1>1, <1>5, <1>7 DEF old

-----------------------------------------------------------------------------
(***************************************************************************)
(* Each command.  Good is what holds between commands; Ready is what the   *)
(* apply operators start from, Apply having incremented the revision.      *)
(***************************************************************************)

Good(s) == /\ IsKVStateMachine(s)
           /\ Finite(s)
           /\ SizeIsExact(s)
           /\ EntriesOrdered(s.data, s.revision)

Ready(s) == /\ Good(s)
            /\ 1 <= s.revision
            /\ \A k \in DOMAIN s.data : s.data[k].modifiedRevision < s.revision

\* Incrementing the revision leaves every entry strictly in the past.
LEMMA IncrementReady ==
    ASSUME NEW s, Good(s)
    PROVE  Ready([s EXCEPT !.revision = @ + 1])
<1> DEFINE t == [s EXCEPT !.revision = @ + 1]
<1>1. /\ t.data = s.data /\ t.leases = s.leases /\ t.currentSize = s.currentSize
      /\ t.revision = s.revision + 1 /\ t.revision \in Nat /\ s.revision \in Nat
      /\ t \in [data : {t.data}, revision : Nat, currentSize : Int, leases : {t.leases}]
  BY DEF Good, IsKVStateMachine
<1> HIDE DEF t
<1>2. \A k \in DOMAIN s.data :
        /\ s.data[k].createdRevision \in Nat /\ s.data[k].modifiedRevision \in Nat
        /\ s.data[k].version \in Nat
  BY DEF Good, IsKVStateMachine, IsMap, KVEntry
<1> SUFFICES ASSUME EntriesOrdered(s.data, s.revision) PROVE Ready(t)
  BY DEF Good, t
<1>3. IsKVStateMachine(t) /\ Finite(t) /\ SizeIsExact(t)
  BY <1>1 DEF Good, IsKVStateMachine, Finite, SizeIsExact
<1>4. \A k \in DOMAIN t.data : t.data[k].modifiedRevision < t.revision
  BY <1>1, <1>2 DEF EntriesOrdered
<1>5. EntriesOrdered(t.data, t.revision)
  <2>1. \A k \in DOMAIN s.data : s.data[k].modifiedRevision <= t.revision
    BY <1>1, <1>2 DEF EntriesOrdered
  <2>2. t.data = s.data
    BY <1>1
  <2>3. QED
    BY <2>1, <2>2 DEF EntriesOrdered
<1>6. QED
  BY <1>1, <1>3, <1>4, <1>5 DEF Ready, Good, t

\* Appending valid keys to leases keeps the lease table a lease table.
LEMMA AttachIsMap ==
    ASSUME NEW leases, IsMap(leases, LeaseIDs, Seq(Keys)), NEW key \in Keys, NEW leaseID
    PROVE  IsMap(attachIfLeased(leases, key, leaseID), LeaseIDs, Seq(Keys))
  BY DEF IsMap, attachIfLeased

\* A lease table may be replaced by any other well-formed one.
LEMMA LeasesReplaced ==
    ASSUME NEW s, Good(s), NEW leases, IsMap(leases, LeaseIDs, Seq(Keys))
    PROVE  Good([s EXCEPT !.leases = leases])
<1> DEFINE t == [s EXCEPT !.leases = leases]
<1>1. /\ t.data = s.data /\ t.leases = leases /\ t.currentSize = s.currentSize
      /\ t.revision = s.revision
      /\ t \in [data : {t.data}, revision : Nat, currentSize : Int, leases : {t.leases}]
  BY DEF Good, IsKVStateMachine
<1> HIDE DEF t
<1>2. QED
  BY <1>1 DEF Good, IsKVStateMachine, Finite, SizeIsExact, t

\* Keeping only some of the keys, and giving back the bytes of the others.
LEMMA KeysRemoved ==
    ASSUME NEW s, Good(s), NEW S \in SUBSET DOMAIN s.data
    PROVE  Good(WithData(s, Restrict(s.data, DOMAIN s.data \ S),
                         s.currentSize - Cardinality(StoredBytes(Restrict(s.data, S)))))
<1> DEFINE freed == Cardinality(StoredBytes(Restrict(s.data, S)))
           kept == Restrict(s.data, DOMAIN s.data \ S)
<1>1. /\ IsFiniteSet(StoredBytes(kept))
      /\ Cardinality(StoredBytes(kept)) = s.currentSize - freed
      /\ freed \in Nat
  BY BytesRemoved, FS_CardinalityType, Zenon DEF Good, Finite, SizeIsExact
<1>2. IsMap(kept, Keys, KVEntry)
  BY DEF Good, IsKVStateMachine, IsMap, Restrict
<1>3. EntriesOrdered(kept, s.revision)
  BY DEF Good, EntriesOrdered, Restrict
<1> HIDE DEF kept, freed
<1>4. Good(WithData(s, kept, s.currentSize - freed))
  BY <1>1, <1>2, <1>3 DEF Good, IsKVStateMachine, Finite, SizeIsExact, WithData
<1>5. QED
  BY <1>4 DEF kept, freed

\* applyDelete.
LEMMA DeleteGood ==
    ASSUME NEW s, Good(s), NEW key \in Keys
    PROVE  Good(applyDelete(s, key).fsm)
<1>1. CASE key \notin DOMAIN s.data
  BY <1>1 DEF applyDelete, Fail
<1>2. CASE key \in DOMAIN s.data
  <2>1. StoredBytes(Restrict(s.data, {key})) = EntryBytes(key, s.data[key])
    BY <1>2 DEF StoredBytes, Restrict
  <2>2. s.data[key].value \in Values
    BY <1>2 DEF Good, IsKVStateMachine, IsMap, KVEntry
  <2>3. Cardinality(StoredBytes(Restrict(s.data, {key})))
          = SizeOf[key] + SizeOf[s.data[key].value]
    BY <2>1, <2>2, EntryBytesCount
  <2>4. Good(WithData(s, Restrict(s.data, DOMAIN s.data \ {key}),
                      s.currentSize - (SizeOf[key] + SizeOf[s.data[key].value])))
    BY <1>2, <2>3, KeysRemoved, Zenon
  <2>5. QED
    BY <1>2, <2>4 DEF applyDelete, Done
<1>3. QED
  BY <1>1, <1>2

\* applyGrantLease.
LEMMA GrantGood ==
    ASSUME NEW s, Good(s), NEW leaseID \in LeaseIDs, NEW ttlParses \in BOOLEAN
    PROVE  Good(applyGrantLease(s, leaseID, ttlParses).fsm)
<1>1. IsMap(Bind(s.leases, leaseID, << >>), LeaseIDs, Seq(Keys))
  BY DEF Good, IsKVStateMachine, IsMap, Bind
<1>2. Good([s EXCEPT !.leases = Bind(s.leases, leaseID, << >>)])
  BY <1>1, LeasesReplaced
<1>3. QED
  BY <1>2 DEF applyGrantLease, Done, Fail

\* applyRevokeLease.
LEMMA RevokeGood ==
    ASSUME NEW s, Good(s), NEW leaseID
    PROVE  Good(applyRevokeLease(s, leaseID).fsm)
<1>1. CASE leaseID \notin DOMAIN s.leases
  BY <1>1 DEF applyRevokeLease, Fail
<1>2. CASE leaseID \in DOMAIN s.leases
  <2> DEFINE gone == DOMAIN s.data \cap Range(s.leases[leaseID])
             t == WithData(s, Restrict(s.data, DOMAIN s.data \ gone),
                           s.currentSize - Cardinality(StoredBytes(Restrict(s.data, gone))))
             rest == Restrict(s.leases, DOMAIN s.leases \ {leaseID})
  <2>1. Good(t)
    BY KeysRemoved
  <2>2. IsMap(rest, LeaseIDs, Seq(Keys))
    BY DEF Good, IsKVStateMachine, IsMap, Restrict
  <2>3. t.leases = s.leases
    BY DEF WithData
  <2> HIDE DEF t
  <2>4. Good([t EXCEPT !.leases = rest])
    BY <2>1, <2>2, LeasesReplaced
  <2>5. applyRevokeLease(s, leaseID).fsm = [t EXCEPT !.leases = rest]
    BY <1>2, <2>3, Zenon DEF applyRevokeLease, Done, t
  <2>6. QED
    BY <2>4, <2>5
<1>3. QED
  BY <1>1, <1>2

\* applyAttachLease.
LEMMA AttachGood ==
    ASSUME NEW s, Good(s), NEW key \in Keys, NEW leaseID
    PROVE  Good(applyAttachLease(s, key, leaseID).fsm)
<1>1. IsMap(attachIfLeased(s.leases, key, leaseID), LeaseIDs, Seq(Keys))
  BY AttachIsMap DEF Good, IsKVStateMachine
<1>2. Good([s EXCEPT !.leases = attachIfLeased(s.leases, key, leaseID)])
  BY <1>1, LeasesReplaced
<1>3. QED
  BY <1>2 DEF applyAttachLease, Done, Fail

\* An entry stamped with the revision of the command that writes it keeps the
\* stamps of a store ordered, when all others are earlier.
LEMMA OrderedBind ==
    ASSUME NEW data, NEW key, NEW e \in KVEntry, NEW rev \in Nat,
           \A k \in DOMAIN data : data[k] \in KVEntry,
           EntriesOrdered(data, rev),
           \A k \in DOMAIN data : data[k].modifiedRevision < rev,
           1 <= e.createdRevision, e.revision = e.createdRevision,
           e.createdRevision <= rev, e.modifiedRevision = rev,
           1 <= e.version, e.version <= rev - e.createdRevision + 1
    PROVE  EntriesOrdered(Bind(data, key, e), rev)
<1> DEFINE d == Bind(data, key, e)
<1>1. /\ DOMAIN d = DOMAIN data \cup {key} /\ d[key] = e
      /\ \A k \in DOMAIN data \ {key} : d[k] = data[k]
  BY DEF Bind
<1>2. \A k \in DOMAIN data :
         /\ 1 <= data[k].createdRevision /\ data[k].revision = data[k].createdRevision
         /\ data[k].createdRevision <= data[k].modifiedRevision
         /\ data[k].modifiedRevision < rev /\ 1 <= data[k].version
         /\ data[k].version <= data[k].modifiedRevision - data[k].createdRevision + 1
         /\ data[k].modifiedRevision \in Nat
         /\ \A j \in DOMAIN data \ {k} : data[j].modifiedRevision # data[k].modifiedRevision
  BY DEF EntriesOrdered, KVEntry
<1>3. \A k \in DOMAIN data : data[k].modifiedRevision <= rev /\ data[k].modifiedRevision # rev
  BY <1>2
<1> HIDE DEF d
<1>4. SUFFICES ASSUME NEW k \in DOMAIN d
               PROVE  /\ 1 <= d[k].createdRevision /\ d[k].revision = d[k].createdRevision
                      /\ d[k].createdRevision <= d[k].modifiedRevision
                      /\ d[k].modifiedRevision <= rev /\ 1 <= d[k].version
                      /\ d[k].version <= d[k].modifiedRevision - d[k].createdRevision + 1
                      /\ \A j \in DOMAIN d \ {k} : d[j].modifiedRevision # d[k].modifiedRevision
  BY DEF EntriesOrdered, d
<1>5. CASE k = key
  <2>1. \A j \in DOMAIN d \ {k} : d[j].modifiedRevision # rev
    BY <1>1, <1>3, <1>5
  <2>2. QED
    BY <1>1, <1>5, <2>1
<1>6. CASE k # key
  <2>1. k \in DOMAIN data /\ d[k] = data[k]
    BY <1>1, <1>6
  <2>2. \A j \in DOMAIN d \ {k} : d[j].modifiedRevision # d[k].modifiedRevision
    <3>1. ASSUME NEW j \in DOMAIN d \ {k} PROVE d[j].modifiedRevision # d[k].modifiedRevision
      BY <1>1, <1>2, <1>3, <2>1
    <3>2. QED
      BY <3>1
  <2>3. QED
    BY <1>2, <1>3, <2>1, <2>2
<1>7. QED
  BY <1>5, <1>6

\* The update branch of applyPut.
LEMMA UpdateGood ==
    ASSUME NEW s, Ready(s), NEW key \in DOMAIN s.data, NEW value \in Values
    PROVE  Good(updateEntry(s, key, value))
<1> DEFINE old == s.data[key]
           new == [value |-> value, revision |-> old.revision,
                   createdRevision |-> old.createdRevision,
                   modifiedRevision |-> s.revision, version |-> old.version + 1]
           others == Restrict(s.data, DOMAIN s.data \ {key})
           data == Bind(s.data, key, new)
           size == s.currentSize - SizeOf[old.value] + SizeOf[value]
<1>1. /\ IsMap(s.data, Keys, KVEntry) /\ s.revision \in Nat /\ s.currentSize \in Int
      /\ IsMap(s.leases, LeaseIDs, Seq(Keys)) /\ key \in Keys /\ old \in KVEntry
  BY DEF Ready, Good, IsKVStateMachine, IsMap
<1>2. /\ SizeOf[key] \in Nat /\ SizeOf[old.value] \in Nat /\ SizeOf[value] \in Nat
      /\ old.value \in Values
  BY <1>1, FSMAssumption DEF KVEntry
<1>3. /\ IsFiniteSet(StoredBytes(others))
      /\ Cardinality(StoredBytes(others)) = s.currentSize - (SizeOf[key] + SizeOf[old.value])
  <2>1. StoredBytes(Restrict(s.data, {key})) = EntryBytes(key, old)
    BY DEF StoredBytes, Restrict
  <2>2. IsFiniteSet(StoredBytes(s.data)) /\ Cardinality(StoredBytes(s.data)) = s.currentSize
    BY DEF Ready, Good, Finite, SizeIsExact
  <2>3. Cardinality(EntryBytes(key, old)) = SizeOf[key] + SizeOf[old.value]
    BY <1>1, <1>2, EntryBytesCount
  <2> HIDE DEF old
  <2>4. QED
    BY <2>1, <2>2, <2>3, BytesRemoved
<1>4. data = Bind(others, key, new)
  BY DEF Bind, Restrict
<1>5. IsFiniteSet(StoredBytes(data)) /\ Cardinality(StoredBytes(data)) = size
  <2>1. key \in Keys \ DOMAIN others /\ new.value \in Values
    BY <1>1 DEF Restrict
  <2> HIDE DEF others, new, data, old
  <2>2. /\ IsFiniteSet(StoredBytes(data))
        /\ Cardinality(StoredBytes(data))
             = Cardinality(StoredBytes(others)) + SizeOf[key] + SizeOf[new.value]
    BY <1>3, <1>4, <2>1, BytesAdded
  <2>3. new.value = value
    BY DEF new
  <2>4. QED
    BY <1>1, <1>2, <1>3, <2>2, <2>3
<1>6. new \in KVEntry
  BY <1>1 DEF KVEntry
<1>7. IsMap(data, Keys, KVEntry)
  BY <1>1, <1>6 DEF IsMap, Bind
<1>8. EntriesOrdered(data, s.revision)
  <2>1. \A k \in DOMAIN s.data : s.data[k] \in KVEntry
    BY <1>1 DEF IsMap
  <2>2. /\ EntriesOrdered(s.data, s.revision)
        /\ \A k \in DOMAIN s.data : s.data[k].modifiedRevision < s.revision
    BY DEF Ready, Good
  <2>3. /\ 1 <= new.createdRevision /\ new.revision = new.createdRevision
        /\ new.createdRevision <= s.revision /\ new.modifiedRevision = s.revision
        /\ 1 <= new.version /\ new.version <= s.revision - new.createdRevision + 1
    <3>1. /\ s.revision \in Nat /\ old.createdRevision \in Nat /\ old.modifiedRevision \in Nat
          /\ old.version \in Nat
      BY <1>1 DEF KVEntry
    <3>2. /\ 1 <= old.createdRevision /\ old.revision = old.createdRevision
          /\ old.createdRevision <= old.modifiedRevision /\ old.modifiedRevision < s.revision
          /\ 1 <= old.version /\ old.version <= old.modifiedRevision - old.createdRevision + 1
      BY <2>2 DEF EntriesOrdered
    <3>3. /\ new.createdRevision = old.createdRevision /\ new.revision = old.revision
          /\ new.modifiedRevision = s.revision /\ new.version = old.version + 1
      OBVIOUS
    <3> HIDE DEF new, old
    <3>4. QED
      BY <3>1, <3>2, <3>3
  <2> HIDE DEF new
  <2>4. QED
    BY <1>1, <1>6, <2>1, <2>2, <2>3, OrderedBind
<1>9. size \in Int
  BY <1>1, <1>2
<1> HIDE DEF data, size
<1>10. Good(WithData(s, data, size))
  BY <1>1, <1>5, <1>7, <1>8, <1>9
     DEF Good, IsKVStateMachine, Finite, SizeIsExact, WithData
<1>11. QED
  BY <1>10 DEF updateEntry, data, size

\* The create branch of applyPut.
LEMMA CreateGood ==
    ASSUME NEW s, Ready(s), NEW key \in Keys \ DOMAIN s.data, NEW value \in Values
    PROVE  Good(createEntry(s, key, value))
<1> DEFINE new == [value |-> value, revision |-> s.revision,
                   createdRevision |-> s.revision,
                   modifiedRevision |-> s.revision, version |-> 1]
           data == Bind(s.data, key, new)
           size == s.currentSize + SizeOf[key] + SizeOf[value]
<1>1. /\ IsMap(s.data, Keys, KVEntry) /\ s.revision \in Nat /\ s.currentSize \in Int
      /\ IsMap(s.leases, LeaseIDs, Seq(Keys))
  BY DEF Ready, Good, IsKVStateMachine
<1>2. IsFiniteSet(StoredBytes(data)) /\ Cardinality(StoredBytes(data)) = size
  <2>1. new.value \in Values /\ new.value = value
    OBVIOUS
  <2> HIDE DEF new
  <2>2. QED
    BY <2>1, BytesAdded DEF Ready, Good, Finite, SizeIsExact
<1>3. IsMap(data, Keys, KVEntry)
  BY <1>1 DEF IsMap, Bind, KVEntry
<1>4. EntriesOrdered(data, s.revision)
  <2>1. \A k \in DOMAIN s.data : s.data[k] \in KVEntry
    BY <1>1 DEF IsMap
  <2>2. /\ EntriesOrdered(s.data, s.revision) /\ 1 <= s.revision
        /\ \A k \in DOMAIN s.data : s.data[k].modifiedRevision < s.revision
    BY DEF Ready, Good
  <2>3. new \in KVEntry
    BY <1>1 DEF KVEntry
  <2>4. /\ 1 <= new.createdRevision /\ new.revision = new.createdRevision
        /\ new.createdRevision <= s.revision /\ new.modifiedRevision = s.revision
        /\ 1 <= new.version /\ new.version <= s.revision - new.createdRevision + 1
    <3>1. /\ new.createdRevision = s.revision /\ new.revision = s.revision
          /\ new.modifiedRevision = s.revision /\ new.version = 1
      OBVIOUS
    <3>2. s.revision \in Nat /\ 1 <= s.revision
      BY <1>1, <2>2
    <3> HIDE DEF new
    <3>3. QED
      BY <3>1, <3>2
  <2> HIDE DEF new
  <2>5. QED
    BY <1>1, <2>1, <2>2, <2>3, <2>4, OrderedBind
<1>5. size \in Int
  BY <1>1, FSMAssumption
<1> HIDE DEF data, size
<1>6. Good(WithData(s, data, size))
  BY <1>1, <1>2, <1>3, <1>4, <1>5
     DEF Good, IsKVStateMachine, Finite, SizeIsExact, WithData
<1>7. QED
  BY <1>6 DEF createEntry, data, size

\* applyPut.
LEMMA PutGood ==
    ASSUME NEW s, Ready(s), NEW key \in Keys, NEW value \in Values, NEW leaseID
    PROVE  Good(applyPut(s, key, value, leaseID).fsm)
<1> DEFINE attach(t) == [t EXCEPT !.leases = attachIfLeased(t.leases, key, leaseID)]
<1>1. ASSUME NEW t, Good(t)
      PROVE  Good(attach(t))
  <2>1. IsMap(attachIfLeased(t.leases, key, leaseID), LeaseIDs, Seq(Keys))
    BY <1>1, AttachIsMap DEF Good, IsKVStateMachine
  <2>2. QED
    BY <1>1, <2>1, LeasesReplaced
<1> HIDE DEF attach
<1>2. Good(s)
  BY DEF Ready
<1>3. key \in DOMAIN s.data => Good(attach(updateEntry(s, key, value)))
  BY <1>1, UpdateGood
<1>4. key \notin DOMAIN s.data => Good(attach(createEntry(s, key, value)))
  BY <1>1, CreateGood
<1>5. \/ applyPut(s, key, value, leaseID).fsm = s
      \/ key \in DOMAIN s.data
           /\ applyPut(s, key, value, leaseID).fsm = attach(updateEntry(s, key, value))
      \/ key \notin DOMAIN s.data
           /\ applyPut(s, key, value, leaseID).fsm = attach(createEntry(s, key, value))
  BY DEF applyPut, Done, Fail, attach
<1>6. QED
  BY <1>2, <1>3, <1>4, <1>5

-----------------------------------------------------------------------------
(***************************************************************************)
(* Apply, Snapshot and Restore.                                            *)
(***************************************************************************)

\* Whatever committed command it is given, and whether or not the command
\* fails, Apply leaves the state machine well formed, its size exact and its
\* entries ordered.
THEOREM ApplyGood ==
    ASSUME NEW s, Good(s), NEW cmd \in FSMCommand
    PROVE  Good(Apply(s, cmd).fsm)
<1> DEFINE t == [s EXCEPT !.revision = @ + 1]
<1>1. Ready(t) /\ Good(t)
  BY IncrementReady DEF Ready
<1> HIDE DEF t
<1>2. CASE \E k \in Keys, v \in Values, l \in LeaseIDs \cup {NoLease} : cmd = PutCmd(k, v, l)
  <2>1. PICK k \in Keys, v \in Values, l \in LeaseIDs \cup {NoLease} : cmd = PutCmd(k, v, l)
    BY <1>2
  <2>2. Apply(s, cmd) = applyPut(t, k, v, l)
    BY <2>1 DEF Apply, PutCmd, t
  <2>3. QED
    BY <1>1, <2>2, PutGood
<1>3. CASE \E k \in Keys : cmd = DeleteCmd(k)
  <2>1. PICK k \in Keys : cmd = DeleteCmd(k)
    BY <1>3
  <2>2. Apply(s, cmd) = applyDelete(t, k)
    BY <2>1 DEF Apply, DeleteCmd, t
  <2>3. QED
    BY <1>1, <2>2, DeleteGood
<1>4. CASE \E l \in LeaseIDs, b \in BOOLEAN : cmd = GrantCmd(l, b)
  <2>1. PICK l \in LeaseIDs, b \in BOOLEAN : cmd = GrantCmd(l, b)
    BY <1>4
  <2>2. Apply(s, cmd) = applyGrantLease(t, l, b)
    BY <2>1 DEF Apply, GrantCmd, t
  <2>3. QED
    BY <1>1, <2>2, GrantGood
<1>5. CASE \E l \in LeaseIDs : cmd = RevokeCmd(l)
  <2>1. PICK l \in LeaseIDs : cmd = RevokeCmd(l)
    BY <1>5
  <2>2. Apply(s, cmd) = applyRevokeLease(t, l)
    BY <2>1 DEF Apply, RevokeCmd, t
  <2>3. QED
    BY <1>1, <2>2, RevokeGood
<1>6. CASE \E k \in Keys, l \in LeaseIDs : cmd = AttachCmd(k, l)
  <2>1. PICK k \in Keys, l \in LeaseIDs : cmd = AttachCmd(k, l)
    BY <1>6
  <2>2. Apply(s, cmd) = applyAttachLease(t, k, l)
    BY <2>1 DEF Apply, AttachCmd, t
  <2>3. QED
    BY <1>1, <2>2, AttachGood
<1>7. CASE cmd \in {UnknownCmd, MalformedCmd}
  <2>1. Apply(s, cmd).fsm \in {s, t}
    BY <1>7 DEF Apply, UnknownCmd, MalformedCmd, Fail, t
  <2>2. QED
    BY <1>1, <2>1
<1>8. QED
  BY <1>2, <1>3, <1>4, <1>5, <1>6, <1>7 DEF FSMCommand

\* A snapshot gives back exactly the state machine it was taken of: Restore
\* recomputes the one field, the size, that the snapshot leaves out.
THEOREM RestoreInvertsSnapshot ==
    ASSUME NEW s, Good(s)
    PROVE  Restore(Snapshot(s)) = s
  BY DEF Good, IsKVStateMachine, SizeIsExact, Restore, Snapshot

\* A new state machine is good.
LEMMA NewGood == Good(NewKVStateMachine)
<1>1. StoredBytes(EmptyMap) = {}
  BY DEF StoredBytes, EmptyMap
<1>2. IsMap(EmptyMap, Keys, KVEntry) /\ IsMap(EmptyMap, LeaseIDs, Seq(Keys))
  BY DEF IsMap, EmptyMap
<1>3. EntriesOrdered(EmptyMap, 0)
  BY DEF EntriesOrdered, EmptyMap
<1>4. QED
  BY <1>1, <1>2, <1>3, FS_EmptySet
     DEF Good, IsKVStateMachine, Finite, SizeIsExact, NewKVStateMachine
=============================================================================
