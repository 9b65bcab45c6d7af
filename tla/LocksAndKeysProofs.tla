------------------------- MODULE LocksAndKeysProofs -------------------------
(***************************************************************************)
(* The key managers keep what was encrypted readable, for keys of any      *)
(* length, any machines and any order of operations and crashes.           *)
(*                                                                         *)
(* A holder keeps its lease, for any number of contenders, leases and raft *)
(* failures.  Each lease ID is handed out once, and the only command that  *)
(* removes a lease names it: its owner's own revoke.                       *)
(*                                                                         *)
(* Without raft failures a lock key names a lease that exists: of two      *)
(* contenders that both put the key, the later one owns it.                *)
(***************************************************************************)
EXTENDS LockService, KeyManager, FSMOpsProofs

-----------------------------------------------------------------------------
(***************************************************************************)
(* The key managers.                                                       *)
(***************************************************************************)
\* Unsealing undoes sealing, whatever the length of the keys: the software
\* blob is XORed with the same key twice.
LEMMA XorTwice ==
    ASSUME NEW a \in KeyStrings, NEW b \in KeyStrings
    PROVE  Xor(a, b) \in KeyStrings /\ Xor(Xor(a, b), b) = a
<1>1. \A i \in 1 .. KeyBits : a[i] \in {0, 1} /\ b[i] \in {0, 1}
  BY DEF KeyStrings
<1>2. \A x, y \in {0, 1} : (x + y) % 2 \in {0, 1} /\ (((x + y) % 2) + y) % 2 = x
  OBVIOUS
<1>3. Xor(a, b) \in KeyStrings
  BY <1>1, <1>2 DEF Xor, KeyStrings
<1>4. \A i \in 1 .. KeyBits : Xor(Xor(a, b), b)[i] = a[i]
  BY <1>1, <1>2 DEF Xor
<1>5. a = [i \in 1 .. KeyBits |-> a[i]]
  BY DEF KeyStrings
<1>6. Xor(Xor(a, b), b) = [i \in 1 .. KeyBits |-> Xor(Xor(a, b), b)[i]]
  BY DEF Xor
<1> QED
  BY <1>3, <1>4, <1>5, <1>6, Zenon

\* The blobs of the two backends.
Blobs == [backend : {"software"}, on : {"any"}, sealKey : KeyStrings, body : KeyStrings]
         \cup [backend : {"tpm"}, on : Machines, sealKey : {NoKey}, body : KeyStrings]

\* Unseal has from a blob the master key Initialize made it of, on both backends.
LEMMA BlobsRecover ==
    ASSUME NEW k \in KeyStrings, NEW r \in KeyStrings, NEW m \in Machines
    PROVE  /\ sealSoftware(k, r) \in Blobs /\ Recovered(sealSoftware(k, r)) = k
           /\ sealToTPM(m, k) \in Blobs /\ Recovered(sealToTPM(m, k)) = k
<1>1. Xor(k, r) \in KeyStrings /\ Xor(Xor(k, r), r) = k
  BY XorTwice
<1>2. sealSoftware(k, r) \in Blobs /\ sealToTPM(m, k) \in Blobs
  BY <1>1 DEF Blobs, sealSoftware, sealToTPM
<1>3. Recovered(sealToTPM(m, k)) = k
  BY DEF Recovered, sealToTPM, unsealFromTPM
<1>4. Recovered(sealSoftware(k, r)) = Xor(Xor(k, r), r)
  BY DEF Recovered, sealSoftware, unsealSoftware
<1> QED
  BY <1>1, <1>2, <1>3, <1>4

\* A manager, field by field.
Derived == {None} \cup (KeyStrings \X {"key-wrapping", "direct-encryption"})

Identities == {None} \cup ({"fresh"} \X Nat) \cup ({"seeded"} \X KeyStrings \X BOOLEAN)

Managers == [backend : {"none", "software", "tpm"}, initialized : BOOLEAN, sealed : BOOLEAN,
             master : KeyStrings \cup {NoKey}, wrapping : Derived, encryption : Derived,
             identity : Identities, late : BOOLEAN]

\* A manager is sealed and has no key, or is open with keys derived from a
\* master key that was drawn and that, failed Initialize aside, a blob holds.
SoundIn(k, keys, made) ==
    /\ k.sealed => k.master = NoKey /\ k.wrapping = None /\ k.encryption = None
    /\ ~k.sealed => /\ k.master \in keys
                    /\ k.wrapping = Derive(k.master, "key-wrapping")
                    /\ k.encryption = Derive(k.master, "direct-encryption")
                    /\ k.late \/ \E b \in made : Recovered(b) = k.master

Sound(k) == SoundIn(k, drawn, blobs)

\* A ciphertext opens under the key its master key gives.
MadeFrom(c) ==
    /\ c.by \in KeyStrings
    /\ \/ c.kind = "wrapped" /\ c.key = Derive(c.by, "key-wrapping")
       \/ c.kind = "encrypted" /\ c.key = Derive(c.by, "direct-encryption")
       \/ c.kind = "derived" /\ c.key = Derive(c.by, "context")

KmInv ==
    /\ km \in [Machines -> Managers] /\ identities \in Nat
    /\ drawn \subseteq KeyStrings
    /\ blobs \subseteq Blobs /\ \A b \in blobs : Recovered(b) \in drawn
    /\ \A c \in ciphers : MadeFrom(c)
    /\ \A m \in Machines : Sound(km[m])

\* The invariant is what KeysRecoverable needs.
LEMMA KmInvRecovers == KmInv => KeysRecoverable
<1> SUFFICES ASSUME KmInv PROVE KeysRecoverable
  OBVIOUS
<1>1. StillOpens
  BY DEF KmInv, StillOpens, Sound, SoundIn, MadeFrom, UnwrapKey, Decrypt, Rederived, KmReady
<1>2. OpenIsRecoverable
  BY DEF KmInv, OpenIsRecoverable, Sound, SoundIn, KmReady
<1>3. SealedForgets
  <2>1. \A c \in ciphers : c.key # None
    BY DEF KmInv, MadeFrom, Derive, None
  <2> QED
    BY <2>1 DEF KmInv, SealedForgets, Sound, SoundIn
<1> QED
  BY <1>1, <1>2, <1>3 DEF KeysRecoverable

\* At the start there is no manager and no key (Absent, what New has not made).
LEMMA KmInvInit == KmInit => KmInv
<1> SUFFICES ASSUME KmInit PROVE KmInv
  OBVIOUS
<1>1. Absent \in Managers
  BY DEF Absent, Managers, Derived, Identities
<1>2. Sound(Absent)
  BY DEF Absent, Sound, SoundIn
<1> QED
  BY <1>1, <1>2 DEF KmInit, KmInv

\* One manager is replaced; the keys drawn and the blobs only grow.
LEMMA Replaced ==
    ASSUME KmInv, NEW m \in Machines, NEW k \in Managers, km' = [km EXCEPT ![m] = k], SoundIn(k, drawn', blobs'),
           drawn \subseteq drawn', drawn' \subseteq KeyStrings, blobs \subseteq blobs',
           blobs' \subseteq Blobs, \A b \in blobs' : Recovered(b) \in drawn', ciphers' = ciphers,
           identities' \in Nat
    PROVE  KmInv'
<1>1. km' \in [Machines -> Managers] /\ km'[m] = k /\ \A n \in Machines \ {m} : km'[n] = km[n]
  BY DEF KmInv
<1>2. ASSUME NEW n \in Machines, n # m PROVE Sound(km[n])'
  <2>1. Sound(km[n]) /\ km'[n] = km[n]
    BY <1>1, <1>2 DEF KmInv
  <2> QED
    BY <2>1 DEF Sound, SoundIn
<1>3. \A n \in Machines : Sound(km[n])'
  BY <1>1, <1>2 DEF Sound
<1> QED
  BY <1>1, <1>3 DEF KmInv, MadeFrom

\* A manager with a master key and the keys derived from it, open.
OpenWith(k, x) == /\ k \in Managers /\ k.sealed = FALSE /\ k.master = x
                  /\ k.wrapping = Derive(x, "key-wrapping")
                  /\ k.encryption = Derive(x, "direct-encryption")

\* What Initialize and Unseal make of a manager.
LEMMA Opened ==
    ASSUME NEW k \in Managers, NEW x \in KeyStrings, NEW id \in Identities
    PROVE  LET o == [deriveSubKeys(k, x) EXCEPT !.initialized = TRUE, !.sealed = FALSE, !.identity = id]
           IN  OpenWith(o, x) /\ OpenWith([o EXCEPT !.late = TRUE], x) /\ [o EXCEPT !.late = TRUE].late
<1> DEFINE d == deriveSubKeys(k, x)
           o == [d EXCEPT !.initialized = TRUE, !.sealed = FALSE, !.identity = id]
           w == Derive(x, "key-wrapping")
           e == Derive(x, "direct-encryption")
<1>1. w \in Derived /\ e \in Derived
  BY DEF Derive, Derived
<1> HIDE DEF w, e
<1>2. d = [k EXCEPT !.master = x, !.wrapping = w, !.encryption = e, !.late = FALSE]
  BY DEF deriveSubKeys, w, e
<1> HIDE DEF d
<1>3. d \in Managers /\ d.master = x /\ d.wrapping = w /\ d.encryption = e
  BY <1>1, <1>2, Zenon DEF Managers
<1>4. /\ o \in Managers /\ o.sealed = FALSE /\ o.master = x
      /\ o.wrapping = w /\ o.encryption = e
  BY <1>3, Zenon DEF Managers, Identities
<1>5. LET q == [o EXCEPT !.late = TRUE]
      IN  /\ q \in Managers /\ q.sealed = FALSE /\ q.master = x /\ q.wrapping = w
          /\ q.encryption = e /\ q.late
  <2> HIDE DEF o
  <2> QED
    BY <1>4, Zenon DEF Managers
<1> QED
  BY <1>4, <1>5 DEF OpenWith, d, w, e

\* An open manager whose key was drawn and is held by a blob, or whose
\* Initialize failed, is as it should be.
LEMMA OpenSound ==
    ASSUME NEW k, NEW x \in drawn', OpenWith(k, x), k.late \/ \E b \in blobs' : Recovered(b) = x
    PROVE  SoundIn(k, drawn', blobs')
  BY DEF OpenWith, SoundIn

\* The invariant is inductive.
LEMMA KmInvStep == KmInv /\ [KmNext]_kmvars => KmInv'
<1> SUFFICES ASSUME KmInv, [KmNext]_kmvars PROVE KmInv'
  OBVIOUS
<1>1. /\ km \in [Machines -> Managers] /\ identities \in Nat /\ drawn \subseteq KeyStrings
      /\ blobs \subseteq Blobs /\ \A b \in blobs : Recovered(b) \in drawn
      /\ \A m \in Machines : km[m] \in Managers /\ Sound(km[m])
  BY DEF KmInv
<1>2. ASSUME NEW m \in Machines, New(m) PROVE KmInv'
  <2>1. newSoftwareKeyManager \in Managers /\ newTPMKeyManager \in Managers
    BY Zenon DEF newSoftwareKeyManager, newTPMKeyManager, Absent, Managers, Derived, Identities
  <2>2. SoundIn(newSoftwareKeyManager, drawn', blobs') /\ SoundIn(newTPMKeyManager, drawn', blobs')
    BY DEF newSoftwareKeyManager, newTPMKeyManager, Absent, Sound, SoundIn
  <2> QED
    BY <1>1, <1>2, <2>1, <2>2, Replaced DEF New
<1>3. ASSUME NEW m \in Machines, InitializeSoftware(m) PROVE KmInv'
  <2> DEFINE id == FreshIdentity
  <2>1. id \in Identities
    BY <1>1 DEF FreshIdentity, Identities
  <2>2. PICK k \in KeyStrings, r \in KeyStrings :
          /\ drawn' = drawn \cup {k} /\ km' = [km EXCEPT ![m] = InitializeOpen(km[m], k, id)]
          /\ blobs' = blobs \cup {sealSoftware(k, r)}
    BY <1>3, Zenon DEF InitializeSoftware, Draw
  <2> DEFINE o == InitializeOpen(km[m], k, id)
  <2>3. OpenWith(o, k)
    BY <1>1, <2>1, Opened, Zenon DEF InitializeOpen
  <2>4. sealSoftware(k, r) \in Blobs /\ Recovered(sealSoftware(k, r)) = k
    BY BlobsRecover
  <2> HIDE DEF o, id
  <2>5. SoundIn(o, drawn', blobs')
    BY <2>2, <2>3, <2>4, OpenSound
  <2>6. o \in Managers /\ identities' \in Nat /\ ciphers' = ciphers
    BY <1>1, <1>3, <2>3 DEF OpenWith, InitializeSoftware
  <2>7. km' = [km EXCEPT ![m] = o]
    BY <2>2 DEF o
  <2> QED
    BY <1>1, <2>2, <2>4, <2>5, <2>6, <2>7, Replaced, Zenon
<1>4. ASSUME NEW m \in Machines, InitializeTPM(m) PROVE KmInv'
  <2> DEFINE id == FreshIdentity
  <2>1. id \in Identities
    BY <1>1 DEF FreshIdentity, Identities
  <2>2. PICK k \in KeyStrings :
          /\ drawn' = drawn \cup {k} /\ km' = [km EXCEPT ![m] = InitializeOpen(km[m], k, id)]
          /\ blobs' = blobs \cup {sealToTPM(m, k)}
    BY <1>4, Zenon DEF InitializeTPM, Draw
  <2> DEFINE o == InitializeOpen(km[m], k, id)
  <2>3. OpenWith(o, k)
    BY <1>1, <2>1, Opened, Zenon DEF InitializeOpen
  <2>4. sealToTPM(m, k) \in Blobs /\ Recovered(sealToTPM(m, k)) = k
    BY BlobsRecover
  <2> HIDE DEF o, id
  <2>5. SoundIn(o, drawn', blobs')
    BY <2>2, <2>3, <2>4, OpenSound
  <2>6. o \in Managers /\ identities' \in Nat /\ ciphers' = ciphers
    BY <1>1, <1>4, <2>3 DEF OpenWith, InitializeTPM
  <2>7. km' = [km EXCEPT ![m] = o]
    BY <2>2 DEF o
  <2> QED
    BY <1>1, <2>2, <2>4, <2>5, <2>6, <2>7, Replaced, Zenon
<1>5. ASSUME NEW m \in Machines, createIdentityKeyFails(m) PROVE KmInv'
  <2>1. PICK k \in KeyStrings :
          /\ drawn' = drawn \cup {k}
          /\ km' = [km EXCEPT ![m] = [InitializeOpen(km[m], k, None) EXCEPT !.late = TRUE]]
    BY <1>5, Zenon DEF createIdentityKeyFails, Draw
  <2> DEFINE o == [InitializeOpen(km[m], k, None) EXCEPT !.late = TRUE]
  <2>2. OpenWith(o, k) /\ o.late
    BY <1>1, Opened, Zenon DEF InitializeOpen, Identities
  <2> HIDE DEF o
  <2>3. SoundIn(o, drawn', blobs')
    BY <2>1, <2>2, OpenSound
  <2>4. o \in Managers /\ identities' \in Nat /\ ciphers' = ciphers /\ blobs' = blobs
    BY <1>1, <1>5, <2>2 DEF OpenWith, createIdentityKeyFails
  <2>5. km' = [km EXCEPT ![m] = o]
    BY <2>1 DEF o
  <2> QED
    BY <1>1, <2>1, <2>3, <2>4, <2>5, Replaced, Zenon
<1>6. ASSUME NEW m \in Machines, Seal(m) PROVE KmInv'
  <2> DEFINE id == IF km[m].backend = "tpm" THEN km[m].identity ELSE None
             o == [km[m] EXCEPT !.sealed = TRUE, !.master = NoKey, !.wrapping = None, !.encryption = None,
                                !.identity = id]
  <2>1. km' = [km EXCEPT ![m] = o]
    BY <1>1, <1>6, Zenon DEF Seal
  <2>a. id \in Identities /\ None \in Derived
    BY <1>1 DEF Managers, Derived, Identities
  <2> HIDE DEF id
  <2>b. o \in Managers /\ o.sealed = TRUE /\ o.master = NoKey /\ o.wrapping = None /\ o.encryption = None
    BY <1>1, <2>a, Zenon DEF Managers
  <2>2. o \in Managers /\ SoundIn(o, drawn', blobs')
    <3> HIDE DEF o
    <3> QED
      BY <2>b DEF SoundIn
  <2>3. UNCHANGED <<drawn, blobs, ciphers, identities>>
    BY <1>6 DEF Seal
  <2> HIDE DEF o
  <2> QED
    BY <1>1, <2>1, <2>2, <2>3, Replaced, Zenon
<1>7. ASSUME NEW m \in Machines, NEW b \in blobs, UnsealSoftware(m, b) \/ UnsealTPM(m, b)
      PROVE  KmInv'
  <2>1. Recovered(b) \in drawn /\ Recovered(b) \in KeyStrings /\ identities' \in Nat
        /\ UNCHANGED <<drawn, blobs, ciphers>>
    <3>1. UNCHANGED <<drawn, blobs, ciphers>>
      BY <1>7, Zenon DEF UnsealSoftware, UnsealTPM
    <3>2. identities' = identities \/ identities' = identities + 1
      BY <1>7, Zenon DEF UnsealSoftware, UnsealTPM
    <3> QED
      BY <1>1, <3>1, <3>2
  <2>2. \E id \in Identities :
          km' = [km EXCEPT ![m] = [deriveSubKeys(km[m], Recovered(b)) EXCEPT
                                     !.initialized = TRUE, !.sealed = FALSE, !.identity = id]]
    <3>1. CASE UnsealSoftware(m, b)
      <4>1. Recovered(b) = unsealSoftware(b)
        BY <3>1 DEF UnsealSoftware, Recovered
      <4>2. \A skipped \in BOOLEAN : SeededIdentity(Recovered(b), skipped) \in Identities
        BY <2>1 DEF SeededIdentity, Identities
      <4> QED
        BY <3>1, <4>1, <4>2, Zenon DEF UnsealSoftware
    <3>2. CASE UnsealTPM(m, b)
      <4>1. Recovered(b) = unsealFromTPM(b)
        BY <3>2 DEF UnsealTPM, Recovered
      <4>2. FreshIdentity \in Identities
        BY <1>1 DEF FreshIdentity, Identities
      <4> QED
        BY <3>2, <4>1, <4>2, Zenon DEF UnsealTPM
    <3> QED
      BY <1>7, <3>1, <3>2, Zenon
  <2>3. PICK id \in Identities :
          km' = [km EXCEPT ![m] = [deriveSubKeys(km[m], Recovered(b)) EXCEPT
                                     !.initialized = TRUE, !.sealed = FALSE, !.identity = id]]
    BY <2>2, Zenon
  <2> DEFINE o == [deriveSubKeys(km[m], Recovered(b)) EXCEPT
                     !.initialized = TRUE, !.sealed = FALSE, !.identity = id]
  <2>4. OpenWith(o, Recovered(b))
    BY <1>1, <2>1, Opened, Zenon
  <2>5. km' = [km EXCEPT ![m] = o]
    BY <2>3
  <2> HIDE DEF o
  <2>6. SoundIn(o, drawn', blobs')
    BY <2>1, <2>4, OpenSound
  <2> QED
    BY <1>1, <2>1, <2>4, <2>5, <2>6, Replaced, Zenon DEF OpenWith
<1>8. ASSUME NEW m \in Machines, NEW b \in blobs, UnsealRefused(m, b) PROVE KmInv'
  <2> DEFINE o == [km[m] EXCEPT !.initialized = TRUE]
  <2>1. km' = [km EXCEPT ![m] = o] /\ UNCHANGED <<drawn, blobs, ciphers, identities>>
    BY <1>1, <1>8 DEF UnsealRefused
  <2>2. /\ o \in Managers /\ o.sealed = km[m].sealed /\ o.master = km[m].master /\ o.late = km[m].late
        /\ o.wrapping = km[m].wrapping /\ o.encryption = km[m].encryption
    BY <1>1, Zenon DEF Managers
  <2> HIDE DEF o
  <2>3. SoundIn(o, drawn', blobs')
    BY <1>1, <2>1, <2>2 DEF Sound, SoundIn
  <2> QED
    BY <1>1, <2>1, <2>2, <2>3, Replaced, Zenon
<1>9. ASSUME NEW m \in Machines, KmCrash(m) PROVE KmInv'
  <2>1. Absent \in Managers /\ SoundIn(Absent, drawn', blobs')
    BY DEF Absent, Managers, Derived, Identities, Sound, SoundIn
  <2> QED
    BY <1>1, <1>9, <2>1, Replaced, Zenon DEF KmCrash
<1>10. ASSUME NEW c, ciphers' = ciphers \cup {c}, MadeFrom(c), UNCHANGED <<km, blobs, drawn, identities>>
       PROVE  KmInv'
  <2>1. \A d \in ciphers' : MadeFrom(d)
    BY <1>10 DEF KmInv
  <2>2. \A m \in Machines : Sound(km[m])'
    BY <1>1, <1>10 DEF Sound, SoundIn
  <2> QED
    BY <1>1, <1>10, <2>1, <2>2 DEF KmInv, MadeFrom
<1>11. ASSUME NEW m \in Machines, WrapKey(m) \/ Encrypt(m) \/ DeriveKey(m) PROVE KmInv'
  <2>1. /\ km[m].master \in KeyStrings /\ km[m].wrapping = Derive(km[m].master, "key-wrapping")
        /\ km[m].encryption = Derive(km[m].master, "direct-encryption")
    BY <1>1, <1>11 DEF WrapKey, Encrypt, DeriveKey, KmReady, Sound, SoundIn
  <2>2. /\ MadeFrom(Cipher(m, "wrapped", km[m].wrapping))
        /\ MadeFrom(Cipher(m, "encrypted", km[m].encryption))
        /\ MadeFrom(Cipher(m, "derived", Derive(km[m].master, "context")))
    BY <2>1 DEF MadeFrom, Cipher
  <2> QED
    BY <1>10, <1>11, <2>2, Zenon DEF WrapKey, Encrypt, DeriveKey
<1>12. CASE UNCHANGED <<km, blobs, ciphers, drawn, identities>>
  BY <1>12 DEF KmInv, Sound, SoundIn, MadeFrom
<1>13. ASSUME NEW m \in Machines, SignWithIdentityKey(m) \/ ExportPublicKey(m) PROVE KmInv'
  BY <1>12, <1>13, Zenon DEF SignWithIdentityKey, ExportPublicKey
<1>14. CASE UNCHANGED kmvars
  BY <1>12, <1>14, Zenon DEF kmvars
<1> QED
  BY <1>2, <1>3, <1>4, <1>5, <1>6, <1>7, <1>8, <1>9, <1>11, <1>13, <1>14, Zenon DEF KmNext

\* No operation of the key managers loses a master key that something was
\* encrypted under, or leaves a key in memory that is sealed, for keys of any
\* length, any machines and any order of operations and crashes.
THEOREM MasterKeysRecoverable == KmSpec => []KeysRecoverable
<1>1. KmSpec => []KmInv
  BY KmInvInit, KmInvStep, PTL DEF KmSpec
<1> QED
  BY <1>1, KmInvRecovers, PTL

-----------------------------------------------------------------------------
(***************************************************************************)
(* Locks.                                                                  *)
(***************************************************************************)
\* A contender in the middle of Acquire or Release, or holding.
Active(c) == pc[c] \notin {"out", "crashed"}

IndInv ==
    /\ Good(fsm)
    /\ pc \in [Contenders -> Steps]
    /\ lease \in [Contenders -> LeaseIDs \cup {NoLease}]
    /\ used \subseteq LeaseIDs
    /\ faults \in 0 .. MaxFaults
    /\ \A c \in Contenders : lease[c] \in used \cup {NoLease}
    /\ \A c, d \in Contenders : lease[c] = lease[d] => c = d \/ lease[c] = NoLease
    /\ \A c \in Contenders : Active(c) => lease[c] \in DOMAIN fsm.leases

-----------------------------------------------------------------------------
\* What each of the commands the protocol sends does to the set of leases.
\* A put leaves it alone,
LEMMA PutLeases ==
    ASSUME NEW s, Good(s), NEW k \in Keys, NEW v \in Values, NEW l
    PROVE  LET r == Apply(s, PutCmd(k, v, l)).fsm
           IN  Good(r) /\ DOMAIN r.leases = DOMAIN s.leases
<1> DEFINE t == [s EXCEPT !.revision = @ + 1]
<1>1. Ready(t) /\ t.leases = s.leases
  BY IncrementReady DEF Good, IsKVStateMachine
<1> HIDE DEF t
<1>2. Apply(s, PutCmd(k, v, l)) = applyPut(t, k, v, l)
  BY DEF Apply, PutCmd, t
<1>3. DOMAIN attachIfLeased(t.leases, k, l) = DOMAIN t.leases
  BY DEF attachIfLeased
<1>4. \/ applyPut(t, k, v, l).fsm = t
      \/ applyPut(t, k, v, l).fsm.leases = attachIfLeased(t.leases, k, l)
  BY DEF applyPut, updateEntry, createEntry, WithData, Done, Fail
<1>5. QED
  BY <1>1, <1>2, <1>3, <1>4, PutGood

\* and so do a delete
LEMMA DeleteLeases ==
    ASSUME NEW s, Good(s), NEW k \in Keys
    PROVE  LET r == Apply(s, DeleteCmd(k)).fsm
           IN  Good(r) /\ DOMAIN r.leases = DOMAIN s.leases
<1> DEFINE t == [s EXCEPT !.revision = @ + 1]
<1>1. Good(t) /\ t.leases = s.leases
  BY IncrementReady DEF Good, IsKVStateMachine, Ready
<1> HIDE DEF t
<1>2. Apply(s, DeleteCmd(k)) = applyDelete(t, k)
  BY DEF Apply, DeleteCmd, t
<1>3. applyDelete(t, k).fsm.leases = t.leases
  BY DEF applyDelete, WithData, Done, Fail
<1>4. QED
  BY <1>1, <1>2, <1>3, DeleteGood

\* and an attach.
LEMMA AttachLeases ==
    ASSUME NEW s, Good(s), NEW k \in Keys, NEW l
    PROVE  LET r == Apply(s, AttachCmd(k, l)).fsm
           IN  Good(r) /\ DOMAIN r.leases = DOMAIN s.leases
<1> DEFINE t == [s EXCEPT !.revision = @ + 1]
<1>1. /\ Good(t) /\ t.leases = s.leases
      /\ \A x : [t EXCEPT !.leases = x].leases = x
  BY IncrementReady DEF Good, IsKVStateMachine, Ready
<1> HIDE DEF t
<1>2. Apply(s, AttachCmd(k, l)) = applyAttachLease(t, k, l)
  BY DEF Apply, AttachCmd, t
<1>3. DOMAIN attachIfLeased(t.leases, k, l) = DOMAIN t.leases
  BY DEF attachIfLeased
<1>4. applyAttachLease(t, k, l).fsm.leases \in {t.leases, attachIfLeased(t.leases, k, l)}
  BY <1>1 DEF applyAttachLease, Done, Fail
<1>5. QED
  BY <1>1, <1>2, <1>3, <1>4, AttachGood

\* A grant whose TTL parses adds the lease it names,
LEMMA GrantLeases ==
    ASSUME NEW s, Good(s), NEW l \in LeaseIDs
    PROVE  LET r == Apply(s, GrantCmd(l, TRUE)).fsm
           IN  Good(r) /\ DOMAIN r.leases = DOMAIN s.leases \cup {l}
<1> DEFINE t == [s EXCEPT !.revision = @ + 1]
<1>1. /\ Good(t) /\ t.leases = s.leases
      /\ \A x : [t EXCEPT !.leases = x].leases = x
  BY IncrementReady DEF Good, IsKVStateMachine, Ready
<1> HIDE DEF t
<1>2. Apply(s, GrantCmd(l, TRUE)) = applyGrantLease(t, l, TRUE)
  BY DEF Apply, GrantCmd, t
<1>3. applyGrantLease(t, l, TRUE).fsm.leases = Bind(t.leases, l, << >>)
  BY <1>1, Zenon DEF applyGrantLease, Done
<1>4. DOMAIN Bind(t.leases, l, << >>) = DOMAIN t.leases \cup {l}
  BY DEF Bind
<1>5. Good(applyGrantLease(t, l, TRUE).fsm)
  BY <1>1, GrantGood, Zenon
<1>6. QED
  BY <1>1, <1>2, <1>3, <1>4, <1>5, Zenon

\* and a revoke removes no other lease than the one it names.
LEMMA RevokeLeases ==
    ASSUME NEW s, Good(s), NEW l
    PROVE  LET r == Apply(s, RevokeCmd(l)).fsm
           IN  Good(r) /\ DOMAIN s.leases \ {l} \subseteq DOMAIN r.leases
<1> DEFINE t == [s EXCEPT !.revision = @ + 1]
<1>1. Good(t) /\ t.leases = s.leases
  BY IncrementReady DEF Good, IsKVStateMachine, Ready
<1> HIDE DEF t
<1>2. Apply(s, RevokeCmd(l)) = applyRevokeLease(t, l)
  BY DEF Apply, RevokeCmd, t
<1>3. DOMAIN t.leases \ {l} \subseteq DOMAIN applyRevokeLease(t, l).fsm.leases
  BY DEF applyRevokeLease, WithData, Restrict, Done, Fail
<1>4. QED
  BY <1>1, <1>2, <1>3, RevokeGood

\* d's lease is in the store after c's command, or d is c and drops out.
LeaseSurvives(d, c, cmd, onOk, onErr) ==
    \/ d = c /\ onOk = "out" /\ onErr = "out"
    \/ lease[d] \in DOMAIN Apply(fsm, cmd).fsm.leases

\* One call of an active contender that does not change who owns which lease:
\* it is enough that every active contender's lease survives it.
LEMMA CallPreserves ==
    ASSUME IndInv, NEW c \in Contenders, NEW cmd, Good(Apply(fsm, cmd).fsm),
           NEW onOk \in Steps, NEW onErr \in Steps,
           Call(cmd, onOk, onErr, c), UNCHANGED <<lease, used>>,
           \A d \in Contenders : Active(d) => LeaseSurvives(d, c, cmd, onOk, onErr),
           Active(c)
    PROVE  IndInv'
<1>1. fsm' \in {fsm, Apply(fsm, cmd).fsm} /\ Good(fsm')
  BY DEF Call, Answered, RaftError, IndInv
<1>2. pc' \in [Contenders -> Steps] /\ pc'[c] \in {onOk, onErr}
      /\ \A d \in Contenders \ {c} : pc'[d] = pc[d]
  BY DEF Call, Answered, RaftError, IndInv
<1>3. faults' \in 0 .. MaxFaults
  BY LockAssumption DEF Call, Answered, RaftError, IndInv
<1>4. ASSUME NEW d \in Contenders, Active(d)'
      PROVE  lease'[d] \in DOMAIN fsm'.leases
  <2>1. Active(d)
    BY <1>2, <1>4 DEF Active
  <2>2. ~(d = c /\ onOk = "out" /\ onErr = "out")
    BY <1>2, <1>4 DEF Active
  <2>3. QED
    BY <1>1, <2>1, <2>2 DEF IndInv, LeaseSurvives
<1>5. QED
  BY <1>1, <1>2, <1>3, <1>4 DEF IndInv

\* Steps that leave the store alone and make nobody active.
LEMMA LocalPreserves ==
    ASSUME IndInv, NEW c \in Contenders, NEW step \in Steps,
           pc' = [pc EXCEPT ![c] = step], step \in {"out", "crashed"} \/ Active(c),
           faults' \in 0 .. MaxFaults, UNCHANGED <<fsm, lease, used>>
    PROVE  IndInv'
<1>1. pc' \in [Contenders -> Steps] /\ \A d \in Contenders : Active(d)' => Active(d)
  BY DEF IndInv, Active
<1>2. QED
  BY <1>1 DEF IndInv

\* lease.Grant: the ID is fresh, so no other contender owns it, and a
\* contender that goes on to PutIfNotExists has its lease in the store.
LEMMA GrantPreserves ==
    ASSUME IndInv, NEW c \in Contenders, GrantLease(c)
    PROVE  IndInv'
<1>1. PICK l \in LeaseIDs \ used : /\ used' = used \cup {l}
                                   /\ lease' = [lease EXCEPT ![c] = l]
                                   /\ Call(GrantCmd(l, TRUE), "check", "out", c)
  BY Zenon DEF GrantLease
<1> DEFINE s == Apply(fsm, GrantCmd(l, TRUE)).fsm
<1>2. l \in LeaseIDs /\ Good(fsm)
  BY DEF IndInv
<1>3. Good(s) /\ DOMAIN s.leases = DOMAIN fsm.leases \cup {l}
  BY <1>2, GrantLeases, Zenon
<1>4. l # NoLease /\ lease' \in [Contenders -> LeaseIDs \cup {NoLease}]
      /\ lease'[c] = l /\ \A d \in Contenders \ {c} : lease'[d] = lease[d]
  BY <1>1, FSMAssumption DEF IndInv
<1> HIDE DEF s
<1>5. \/ fsm' = s /\ pc' \in {[pc EXCEPT ![c] = "check"], [pc EXCEPT ![c] = "out"]}
      \/ fsm' = fsm /\ pc' = [pc EXCEPT ![c] = "out"]
  BY <1>1, Zenon DEF Call, Answered, RaftError, s
<1>6. faults' \in 0 .. MaxFaults
  <2>1. faults' = faults \/ (faults < MaxFaults /\ faults' = faults + 1)
    BY <1>1, Zenon DEF Call, Answered, RaftError
  <2>2. QED
    BY <2>1, LockAssumption DEF IndInv
<1>7. Good(fsm') /\ pc' \in [Contenders -> Steps]
      /\ \A d \in Contenders \ {c} : pc'[d] = pc[d]
  BY <1>3, <1>5 DEF IndInv, Steps
<1>8. ASSUME NEW d \in Contenders, Active(d)'
      PROVE  lease'[d] \in DOMAIN fsm'.leases
  <2>1. CASE d = c
    BY <1>3, <1>4, <1>5, <1>8, <2>1 DEF IndInv, Active
  <2>2. CASE d # c
    BY <1>3, <1>4, <1>5, <1>7, <1>8, <2>2 DEF IndInv, Active
  <2>3. QED
    BY <2>1, <2>2
<1>9. /\ \A d \in Contenders : lease'[d] \in used' \cup {NoLease}
      /\ \A d, e \in Contenders : lease'[d] = lease'[e] => d = e \/ lease'[d] = NoLease
  BY <1>1, <1>4 DEF IndInv
<1>10. QED
  BY <1>1, <1>4, <1>6, <1>7, <1>8, <1>9 DEF IndInv
-----------------------------------------------------------------------------
\* Nobody has a lease at first.
LEMMA InitIndInv == Init => IndInv
<1> SUFFICES ASSUME Init PROVE IndInv
  OBVIOUS
<1>1. Good(fsm) /\ used \subseteq LeaseIDs /\ faults \in 0 .. MaxFaults
  BY NewGood, LockAssumption DEF Init
<1>2. pc \in [Contenders -> Steps] /\ lease \in [Contenders -> LeaseIDs \cup {NoLease}]
  BY DEF Init, Steps
<1>3. QED
  BY <1>1, <1>2 DEF Init, IndInv, Active

\* The lease of an active contender survives every call of the protocol that
\* is not its own revoke.
LEMMA NextIndInv == IndInv /\ [Next]_vars => IndInv'
<1> SUFFICES ASSUME IndInv, [Next]_vars PROVE IndInv'
  OBVIOUS
<1> USE DEF Steps
<1>1. CASE UNCHANGED vars
  BY <1>1 DEF vars, IndInv, Active
<1>2. ASSUME NEW c \in Contenders, Acquire(c) \/ Release(c) \/ Crash(c)
      PROVE  IndInv'
  <2>0. /\ Good(fsm) /\ LockKey \in Keys
        /\ Active(c) => lease[c] \in LeaseIDs /\ lease[c] \in Values
        /\ faults \in 0 .. MaxFaults
    BY FSMAssumption, LockAssumption DEF IndInv, Good, IsKVStateMachine, IsMap
  <2>1. CASE GrantLease(c)
    BY <2>1, GrantPreserves
  <2>2. CASE CheckAbsent(c)
    <3>1. Active(c)
      BY <2>2 DEF CheckAbsent, Active
    <3>2. PICK step \in {"revoke", "put"} : pc' = [pc EXCEPT ![c] = step]
      BY <2>2 DEF CheckAbsent
    <3>3. faults' \in 0 .. MaxFaults /\ UNCHANGED <<fsm, lease, used>>
      BY <2>0, <2>2, LockAssumption DEF CheckAbsent
    <3>4. QED
      BY <3>1, <3>2, <3>3, LocalPreserves, Zenon
  <2>3. CASE PutLockKey(c)
    <3> DEFINE cmd == PutCmd(LockKey, lease[c], NoLease)
    <3>1. Active(c)
      BY <2>3 DEF PutLockKey, Active
    <3>2. /\ Good(Apply(fsm, cmd).fsm)
          /\ DOMAIN Apply(fsm, cmd).fsm.leases = DOMAIN fsm.leases
      BY <2>0, <3>1, PutLeases
    <3>3. Call(cmd, "attach", "revoke", c) /\ UNCHANGED <<lease, used>>
      BY <2>3 DEF PutLockKey
    <3>4. \A d \in Contenders : Active(d) => lease[d] \in DOMAIN Apply(fsm, cmd).fsm.leases
      BY <3>2 DEF IndInv
    <3>5. \A d \in Contenders : Active(d) => LeaseSurvives(d, c, cmd, "attach", "revoke")
      BY <3>4 DEF LeaseSurvives
    <3>6. "attach" \in Steps /\ "revoke" \in Steps
      OBVIOUS
    <3> HIDE DEF cmd, Steps
    <3>7. QED
      BY <2>0, <3>1, <3>2, <3>3, <3>5, <3>6, CallPreserves
  <2>4. CASE AttachKey(c)
    <3> DEFINE cmd == AttachCmd(LockKey, lease[c])
    <3>1. Active(c)
      BY <2>4 DEF AttachKey, Active
    <3>2. /\ Good(Apply(fsm, cmd).fsm)
          /\ DOMAIN Apply(fsm, cmd).fsm.leases = DOMAIN fsm.leases
      BY <2>0, <3>1, AttachLeases
    <3>3. Call(cmd, "held", "cleanup", c) /\ UNCHANGED <<lease, used>>
      BY <2>4 DEF AttachKey
    <3>4. \A d \in Contenders : Active(d) => lease[d] \in DOMAIN Apply(fsm, cmd).fsm.leases
      BY <3>2 DEF IndInv
    <3>5. \A d \in Contenders : Active(d) => LeaseSurvives(d, c, cmd, "held", "cleanup")
      BY <3>4 DEF LeaseSurvives
    <3>6. "held" \in Steps /\ "cleanup" \in Steps
      OBVIOUS
    <3> HIDE DEF cmd, Steps
    <3>7. QED
      BY <2>0, <3>1, <3>2, <3>3, <3>5, <3>6, CallPreserves
  <2>5. CASE DeleteFailed(c) \/ DeleteLockKey(c)
    <3> DEFINE cmd == DeleteCmd(LockKey)
    <3>1. Active(c)
      BY <2>5 DEF DeleteFailed, DeleteLockKey, Active
    <3>2. /\ Good(Apply(fsm, cmd).fsm)
          /\ DOMAIN Apply(fsm, cmd).fsm.leases = DOMAIN fsm.leases
      BY <2>0, <3>1, DeleteLeases
    <3>3. /\ Call(cmd, "revoke", "revoke", c) \/ Call(cmd, "unlease", "failed", c)
          /\ UNCHANGED <<lease, used>>
      BY <2>5 DEF DeleteFailed, DeleteLockKey
    <3>4. \A d \in Contenders : Active(d) => lease[d] \in DOMAIN Apply(fsm, cmd).fsm.leases
      BY <3>2 DEF IndInv
    <3>5. \A d \in Contenders : Active(d) =>
             /\ LeaseSurvives(d, c, cmd, "revoke", "revoke")
             /\ LeaseSurvives(d, c, cmd, "unlease", "failed")
      BY <3>4 DEF LeaseSurvives
    <3>6. "revoke" \in Steps /\ "unlease" \in Steps /\ "failed" \in Steps
      OBVIOUS
    <3> HIDE DEF cmd, Steps
    <3>7. CASE Call(cmd, "revoke", "revoke", c)
      BY <2>0, <3>1, <3>2, <3>3, <3>5, <3>6, <3>7, CallPreserves
    <3>8. CASE Call(cmd, "unlease", "failed", c)
      BY <2>0, <3>1, <3>2, <3>3, <3>5, <3>6, <3>8, CallPreserves
    <3>9. QED
      BY <3>3, <3>7, <3>8
  <2>6. CASE RevokeFailed(c) \/ RevokeLease(c)
    <3> DEFINE cmd == RevokeCmd(lease[c])
    <3>1. Active(c)
      BY <2>6 DEF RevokeFailed, RevokeLease, Active
    <3>2. /\ Good(Apply(fsm, cmd).fsm)
          /\ DOMAIN fsm.leases \ {lease[c]}
               \subseteq DOMAIN Apply(fsm, cmd).fsm.leases
      BY <2>0, RevokeLeases
    <3>3. ASSUME NEW d \in Contenders, Active(d), d # c
          PROVE  lease[d] \in DOMAIN Apply(fsm, cmd).fsm.leases
      <4>1. lease[d] \in DOMAIN fsm.leases /\ lease[d] # lease[c]
        BY <2>0, <3>1, <3>3, FSMAssumption DEF IndInv
      <4>2. QED
        BY <3>2, <4>1
    <3>4. Call(cmd, "out", "out", c) /\ UNCHANGED <<lease, used>>
      BY <2>6 DEF RevokeFailed, RevokeLease
    <3>5. \A d \in Contenders : Active(d) => LeaseSurvives(d, c, cmd, "out", "out")
      BY <3>3 DEF LeaseSurvives
    <3>6. "out" \in Steps
      OBVIOUS
    <3> HIDE DEF cmd, Steps
    <3>7. QED
      BY <2>0, <3>1, <3>2, <3>4, <3>5, <3>6, CallPreserves
  <2>7. CASE BeginRelease(c)
    BY <2>0, <2>7, LocalPreserves, Zenon DEF BeginRelease, Active
  <2>8. CASE GiveUp(c)
    BY <2>0, <2>8, LocalPreserves, Zenon DEF GiveUp, Active
  <2>9. CASE Crash(c)
    <3>1. faults' \in 0 .. MaxFaults
      BY <2>0, <2>9, LockAssumption DEF Crash
    <3>2. QED
      BY <2>9, <3>1, LocalPreserves, Zenon DEF Crash
  <2>10. QED
    BY <1>2, <2>1, <2>2, <2>3, <2>4, <2>5, <2>6, <2>7, <2>8, <2>9 DEF Acquire, Release
<1>3. QED
  BY <1>1, <1>2 DEF Next

\* The ownership of leases is an invariant of the lock protocol.
THEOREM Invariance == Spec => []IndInv
BY InitIndInv, NextIndInv, PTL DEF Spec

\* The protocol's state keeps its types, the store's bookkeeping included.
THEOREM TypeCorrect == Spec => []TypeOK
<1>1. IndInv => TypeOK
  BY DEF IndInv, TypeOK, Good
<1>2. QED
  BY <1>1, Invariance, PTL

\* While a contender holds the lock (between Acquire and Release) its lease
\* is in the store, for any number of contenders and raft failures.
THEOREM HoldersHaveLeases == Spec => []HolderHasLease
<1>1. IndInv => HolderHasLease
  BY DEF IndInv, HolderHasLease, Active
<1>2. QED
  BY <1>1, Invariance, PTL

-----------------------------------------------------------------------------
(***************************************************************************)
(* The lock key is never left behind.  Without raft failures the key names *)
(* the lease of a contender that is attaching, holding or deleting it.     *)
(***************************************************************************)
Owns(c) == pc[c] \in {"attach", "held", "delete"} /\ fsm.data[LockKey].value = lease[c]

KeyOwned == faults = 0 /\ LockKey \in DOMAIN fsm.data => \E c \in Contenders : Owns(c)

\* What the commands do to the entry of a key.  A put that is answered without
\* an error sets its value, any other put leaves the data alone,
LEMMA PutData ==
    ASSUME NEW s, Good(s), NEW k \in Keys, NEW v, NEW l
    PROVE  LET r == Apply(s, PutCmd(k, v, l))
           IN  IF r.err = "nil" THEN r.fsm.data[k].value = v ELSE r.fsm.data = s.data
<1> DEFINE t == [s EXCEPT !.revision = @ + 1]
<1>1. t.data = s.data
  BY DEF Good, IsKVStateMachine
<1>2. Apply(s, PutCmd(k, v, l)) = applyPut(t, k, v, l)
  BY DEF Apply, PutCmd
<1> HIDE DEF t
<1>3. /\ \A x : [updateEntry(t, k, v) EXCEPT !.leases = x].data = updateEntry(t, k, v).data
      /\ \A x : [createEntry(t, k, v) EXCEPT !.leases = x].data = createEntry(t, k, v).data
      /\ updateEntry(t, k, v).data[k].value = v
      /\ createEntry(t, k, v).data[k].value = v
  BY DEF updateEntry, createEntry, WithData, Bind
<1>4. \/ applyPut(t, k, v, l).fsm = t /\ applyPut(t, k, v, l).err # "nil"
      \/ applyPut(t, k, v, l).fsm.data[k].value = v /\ applyPut(t, k, v, l).err = "nil"
  BY <1>3 DEF applyPut, Done, Fail
<1>5. QED
  BY <1>1, <1>2, <1>4

\* a delete leaves no entry,
LEMMA DeleteData ==
    ASSUME NEW s, Good(s), NEW k \in Keys
    PROVE  k \notin DOMAIN Apply(s, DeleteCmd(k)).fsm.data
  BY DEF Apply, DeleteCmd, applyDelete, WithData, Restrict, Done, Fail

\* an attach leaves the data alone, and succeeds when key and lease are there,
LEMMA AttachData ==
    ASSUME NEW s, Good(s), NEW k \in Keys, NEW l
    PROVE  LET r == Apply(s, AttachCmd(k, l))
           IN  /\ r.fsm.data = s.data
               /\ k \in DOMAIN s.data /\ l \in DOMAIN s.leases => r.err = "nil"
<1> DEFINE t == [s EXCEPT !.revision = @ + 1]
<1>1. /\ t.data = s.data /\ t.leases = s.leases
      /\ \A x : [t EXCEPT !.leases = x].data = t.data
  BY DEF Good, IsKVStateMachine
<1>2. Apply(s, AttachCmd(k, l)) = applyAttachLease(t, k, l)
  BY DEF Apply, AttachCmd
<1> HIDE DEF t
<1>3. QED
  BY <1>1, <1>2 DEF applyAttachLease, Done, Fail

\* and so does a grant.
LEMMA GrantData ==
    ASSUME NEW s, Good(s), NEW l
    PROVE  Apply(s, GrantCmd(l, TRUE)).fsm.data = s.data
<1> DEFINE t == [s EXCEPT !.revision = @ + 1]
<1>1. t.data = s.data /\ \A x : [t EXCEPT !.leases = x].data = t.data
  BY DEF Good, IsKVStateMachine
<1>2. Apply(s, GrantCmd(l, TRUE)) = applyGrantLease(t, l, TRUE)
  BY DEF Apply, GrantCmd
<1> HIDE DEF t
<1>3. applyGrantLease(t, l, TRUE).fsm = [t EXCEPT !.leases = Bind(t.leases, l, << >>)]
  BY DEF applyGrantLease, Done
<1>4. QED
  BY <1>1, <1>2, <1>3, Zenon

\* A revoke deletes entries, and changes none.
LEMMA RevokeData ==
    ASSUME NEW s, Good(s), NEW l
    PROVE  LET r == Apply(s, RevokeCmd(l)).fsm
           IN  \A k \in DOMAIN r.data : k \in DOMAIN s.data /\ r.data[k] = s.data[k]
<1> DEFINE t == [s EXCEPT !.revision = @ + 1]
           gone == DOMAIN t.data \cap Range(t.leases[l])
           kept == Restrict(t.data, DOMAIN t.data \ gone)
<1>1. t.data = s.data
  BY DEF Good, IsKVStateMachine
<1>2. Apply(s, RevokeCmd(l)) = applyRevokeLease(t, l)
  BY DEF Apply, RevokeCmd
<1>3. \A k \in DOMAIN kept : k \in DOMAIN t.data /\ kept[k] = t.data[k]
  BY DEF Restrict
<1> HIDE DEF t
<1>4. applyRevokeLease(t, l).fsm.data \in {t.data, kept}
  <2>1. \A size, x : [WithData(t, kept, size) EXCEPT !.leases = x].data = kept
    BY DEF WithData
  <2> HIDE DEF kept
  <2>2. CASE l \notin DOMAIN t.leases
    BY <2>2 DEF applyRevokeLease, Fail
  <2>3. CASE l \in DOMAIN t.leases
    BY <2>1, <2>3, Zenon DEF applyRevokeLease, Done, kept
  <2>4. QED
    BY <2>2, <2>3
<1>5. QED
  BY <1>1, <1>2, <1>3, <1>4

\* While no fault has been counted, every call was answered.
LEMMA CallAnswered ==
    ASSUME IndInv, faults' = 0, NEW c, NEW cmd, NEW onOk, NEW onErr, Call(cmd, onOk, onErr, c)
    PROVE  Answered(cmd, onOk, onErr, c) /\ faults = 0
<1>1. faults \in Nat
  BY LockAssumption DEF IndInv
<1>2. ~RaftError(cmd, onErr, c)
  BY <1>1 DEF RaftError
<1>3. QED
  BY <1>2 DEF Call, Answered

\* A call that is answered at once, by a contender that does not own the key,
\* or that leaves it an owner: the key stays owned.
LEMMA CallKeepsOwner ==
    ASSUME IndInv, KeyOwned, NEW c \in Contenders, NEW cmd, NEW onOk \in Steps, NEW onErr \in Steps,
           Call(cmd, onOk, onErr, c), UNCHANGED lease,
           LET r == Apply(fsm, cmd)
           IN  /\ LockKey \in DOMAIN r.fsm.data =>
                    LockKey \in DOMAIN fsm.data /\ r.fsm.data[LockKey] = fsm.data[LockKey]
               /\ LockKey \in DOMAIN r.fsm.data /\ Owns(c) =>
                    (IF r.err = "nil" THEN onOk ELSE onErr) \in {"attach", "held", "delete"}
    PROVE  KeyOwned'
<1> SUFFICES ASSUME faults' = 0, LockKey \in DOMAIN fsm'.data
             PROVE  \E d \in Contenders : Owns(d)'
  BY DEF KeyOwned
<1>1. Answered(cmd, onOk, onErr, c) /\ faults = 0
  BY CallAnswered
<1>2. LockKey \in DOMAIN fsm.data /\ fsm'.data[LockKey] = fsm.data[LockKey]
  BY <1>1 DEF Answered
<1>3. PICK d \in Contenders : Owns(d)
  BY <1>1, <1>2 DEF KeyOwned
<1>4. pc'[d] \in {"attach", "held", "delete"}
  BY <1>1, <1>3 DEF Answered, IndInv, Owns
<1>5. QED
  BY <1>2, <1>3, <1>4 DEF Owns

\* Every step leaves the key with an owner, or absent: a put makes its caller
\* the owner, attaching a key that is there succeeds, and a delete removes it.
LEMMA KeyOwnedStep == IndInv /\ KeyOwned /\ [Next]_vars => KeyOwned'
<1> SUFFICES ASSUME IndInv, KeyOwned, [Next]_vars PROVE KeyOwned'
  OBVIOUS
<1> USE DEF Steps
<1>1. CASE UNCHANGED vars
  BY <1>1 DEF vars, KeyOwned, Owns
<1>2. ASSUME NEW c \in Contenders, Acquire(c) \/ Release(c) \/ Crash(c)
      PROVE  KeyOwned'
  <2>0. Good(fsm) /\ LockKey \in Keys /\ pc \in [Contenders -> Steps]
    BY FSMAssumption, LockAssumption DEF IndInv
  <2>1. CASE GrantLease(c)
    <3> SUFFICES ASSUME faults' = 0, LockKey \in DOMAIN fsm'.data
                 PROVE  \E d \in Contenders : Owns(d)'
      BY DEF KeyOwned
    <3>1. PICK l \in LeaseIDs : /\ lease' = [lease EXCEPT ![c] = l]
                                /\ Call(GrantCmd(l, TRUE), "check", "out", c)
      BY <2>1, Zenon DEF GrantLease
    <3>2. Answered(GrantCmd(l, TRUE), "check", "out", c) /\ faults = 0
      BY <3>1, CallAnswered, Zenon
    <3>3. fsm'.data = fsm.data
      BY <2>0, <3>2, GrantData, Zenon DEF Answered
    <3>4. PICK d \in Contenders : Owns(d)
      BY <3>2, <3>3 DEF KeyOwned
    <3>5. d # c
      BY <2>1, <3>4 DEF GrantLease, Owns
    <3>6. pc'[d] = pc[d] /\ lease'[d] = lease[d]
      BY <2>0, <3>1, <3>2, <3>5 DEF Answered, IndInv
    <3>7. QED
      BY <3>3, <3>4, <3>6 DEF Owns
  <2>2. CASE CheckAbsent(c) \/ BeginRelease(c) \/ GiveUp(c) \/ Crash(c)
    <3> SUFFICES ASSUME faults' = 0, LockKey \in DOMAIN fsm'.data
                 PROVE  \E d \in Contenders : Owns(d)'
      BY DEF KeyOwned
    <3>1. ~Crash(c) /\ faults = 0 /\ UNCHANGED <<fsm, lease>>
      <4>1. faults \in Nat /\ ~Crash(c)
        BY DEF IndInv, Crash
      <4>2. CASE CheckAbsent(c)
        BY <4>1, <4>2 DEF CheckAbsent
      <4>3. CASE BeginRelease(c)
        BY <4>1, <4>3 DEF BeginRelease
      <4>4. CASE GiveUp(c)
        BY <4>1, <4>4 DEF GiveUp
      <4>5. QED
        BY <2>2, <4>1, <4>2, <4>3, <4>4
    <3>2. PICK d \in Contenders : Owns(d)
      BY <3>1 DEF KeyOwned
    <3>3. pc'[d] \in {"attach", "held", "delete"}
      BY <2>0, <2>2, <3>1, <3>2 DEF CheckAbsent, BeginRelease, GiveUp, Owns
    <3>4. QED
      BY <3>1, <3>2, <3>3 DEF Owns
  <2>3. CASE PutLockKey(c)
    <3> DEFINE cmd == PutCmd(LockKey, lease[c], NoLease)
    <3> SUFFICES ASSUME faults' = 0, LockKey \in DOMAIN fsm'.data
                 PROVE  \E d \in Contenders : Owns(d)'
      BY DEF KeyOwned
    <3>1. Answered(cmd, "attach", "revoke", c) /\ faults = 0 /\ UNCHANGED lease
      BY <2>3, CallAnswered DEF PutLockKey
    <3>0. LET r == Apply(fsm, cmd)
          IN  IF r.err = "nil" THEN r.fsm.data[LockKey].value = lease[c] ELSE r.fsm.data = fsm.data
      BY <2>0, PutData
    <3> HIDE DEF cmd
    <3>2. IF Apply(fsm, cmd).err = "nil" THEN fsm'.data[LockKey].value = lease[c]
                                         ELSE fsm'.data = fsm.data
      BY <3>0, <3>1 DEF Answered
    <3>3. CASE Apply(fsm, cmd).err = "nil"
      <4>1. pc'[c] = "attach"
        BY <2>0, <3>1, <3>3 DEF Answered
      <4>2. QED
        BY <3>1, <3>2, <3>3, <4>1 DEF Owns
    <3>4. CASE Apply(fsm, cmd).err # "nil"
      <4>1. PICK d \in Contenders : Owns(d)
        BY <3>1, <3>2, <3>4 DEF KeyOwned
      <4>2. pc'[d] = pc[d]
        BY <2>0, <2>3, <3>1, <4>1 DEF PutLockKey, Answered, Owns
      <4>3. QED
        BY <3>1, <3>2, <3>4, <4>1, <4>2 DEF Owns
    <3>5. QED
      BY <3>3, <3>4
  <2>4. CASE AttachKey(c)
    <3> DEFINE cmd == AttachCmd(LockKey, lease[c])
    <3>1. lease[c] \in DOMAIN fsm.leases
      BY <2>4 DEF AttachKey, IndInv, Active
    <3>2. /\ Apply(fsm, cmd).fsm.data = fsm.data
          /\ LockKey \in DOMAIN fsm.data => Apply(fsm, cmd).err = "nil"
      <4>1. LET r == Apply(fsm, cmd)
            IN  /\ r.fsm.data = fsm.data
                /\ LockKey \in DOMAIN fsm.data /\ lease[c] \in DOMAIN fsm.leases => r.err = "nil"
        BY <2>0, AttachData
      <4> HIDE DEF cmd
      <4>2. QED
        BY <3>1, <4>1
    <3>3. Call(cmd, "held", "cleanup", c) /\ UNCHANGED lease
      BY <2>4 DEF AttachKey
    <3> HIDE DEF cmd
    <3>4. QED
      BY <3>2, <3>3, CallKeepsOwner, Zenon
  <2>5. CASE DeleteFailed(c) \/ DeleteLockKey(c)
    <3> DEFINE cmd == DeleteCmd(LockKey)
    <3>1. LockKey \notin DOMAIN Apply(fsm, cmd).fsm.data
      BY <2>0, DeleteData
    <3>2. faults' = 0 => fsm' = Apply(fsm, cmd).fsm
      BY <2>5, CallAnswered DEF DeleteFailed, DeleteLockKey, Answered
    <3>3. QED
      BY <3>1, <3>2 DEF KeyOwned
  <2>6. CASE RevokeFailed(c) \/ RevokeLease(c)
    <3> DEFINE cmd == RevokeCmd(lease[c])
    <3>1. LockKey \in DOMAIN Apply(fsm, cmd).fsm.data =>
            LockKey \in DOMAIN fsm.data /\ Apply(fsm, cmd).fsm.data[LockKey] = fsm.data[LockKey]
      BY <2>0, RevokeData
    <3>2. Call(cmd, "out", "out", c) /\ UNCHANGED lease /\ ~Owns(c)
      BY <2>6 DEF RevokeFailed, RevokeLease, Owns
    <3> HIDE DEF cmd
    <3>3. QED
      BY <3>1, <3>2, CallKeepsOwner, Zenon
  <2>7. QED
    BY <1>2, <2>1, <2>2, <2>3, <2>4, <2>5, <2>6 DEF Acquire, Release
<1>3. QED
  BY <1>1, <1>2 DEF Next

\* As long as no Apply fails in raft and no caller dies, the lock key names a
\* lease that is in the store: no release, clean-up or lost race of lease.go
\* leaves a key behind that nobody would delete.
THEOREM KeysNameLiveLeases == Spec => []KeyNamesLiveLease
<1>1. Init => KeyOwned
  BY DEF Init, KeyOwned, NewKVStateMachine, EmptyMap
<1>2. IndInv /\ KeyOwned => KeyNamesLiveLease
  <2> SUFFICES ASSUME IndInv, KeyOwned, faults = 0, LockKey \in DOMAIN fsm.data
               PROVE  fsm.data[LockKey].value \in DOMAIN fsm.leases
    BY DEF KeyNamesLiveLease
  <2>1. PICK c \in Contenders : Owns(c)
    BY DEF KeyOwned
  <2>2. QED
    BY <2>1 DEF IndInv, Active, Owns
<1>3. QED
  BY <1>1, <1>2, InitIndInv, NextIndInv, KeyOwnedStep, PTL DEF Spec
=============================================================================
