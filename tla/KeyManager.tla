----------------------------- MODULE KeyManager -----------------------------
(***************************************************************************)
(* The key managers (internal/crypto/keymanager): the software backend,    *)
(* which the seal manager of the secret store uses, and the TPM backend.   *)
(* A manager holds a master key, the wrapping and encryption keys derived  *)
(* from it, and an identity key; Seal forgets them and Unseal recovers     *)
(* them from the blob that Initialize returned.  A mutex makes every       *)
(* operation atomic.                                                       *)
(*                                                                         *)
(* Keys are strings of KeyBits bits, so that the XOR of the software blob  *)
(* is computed; a ciphertext records the key that opens it.                *)
(***************************************************************************)
EXTENDS Integers, Sequences

CONSTANTS Machines,
          TPMs,          \* the machines that have a TPM
          KeyBits,       \* bound: 256 in the code
          MaxIdentities, \* bound: identity keys generated
          MaxKmEvents    \* bound: operations

ASSUME KeyAssumption == KeyBits \in Nat \ {0}

VARIABLES km,            \* [machine -> its manager]
          blobs,         \* every blob Initialize has returned
          ciphers,       \* every wrapped key and ciphertext made
          exported,      \* [machine -> the public key it exported last]
          signed,        \* [machine -> the signature it made last]
          drawn,         \* ghost: the master keys drawn
          identities, kmEvents

kmvars == <<km, blobs, ciphers, exported, signed, drawn, identities, kmEvents>>

KeyStrings == [1 .. KeyBits -> {0, 1}]
NoKey == << >>
None == << >>

Xor(a, b) == [i \in 1 .. KeyBits |-> (a[i] + b[i]) % 2]

KmHappens == /\ kmEvents < MaxKmEvents
             /\ kmEvents' = kmEvents + 1

\* late is a ghost: Initialize failed after drawing the master key.
Absent == [backend |-> "none", initialized |-> FALSE, sealed |-> TRUE, master |-> NoKey,
           wrapping |-> None, encryption |-> None, identity |-> None, late |-> FALSE]

KmInit ==
  /\ km = [m \in Machines |-> Absent]
  /\ blobs = {} /\ ciphers = {} /\ drawn = {}
  /\ exported = [m \in Machines |-> None] /\ signed = [m \in Machines |-> None]
  /\ identities = 0 /\ kmEvents = 0

-----------------------------------------------------------------------------
(* Creating a manager. *)

newSoftwareKeyManager == [Absent EXCEPT !.backend = "software"]

\* The device is opened and its storage root key made sure of.
newTPMKeyManager == [Absent EXCEPT !.backend = "tpm"]

\* New: the TPM if there is one and it works, the software backend otherwise.
New(m) ==
  /\ km[m].backend = "none" /\ KmHappens
  /\ \/ m \in TPMs /\ km' = [km EXCEPT ![m] = newTPMKeyManager]
     \/ km' = [km EXCEPT ![m] = newSoftwareKeyManager]
  /\ UNCHANGED <<blobs, ciphers, exported, signed, drawn, identities>>

-----------------------------------------------------------------------------
(* Keys. *)

Derive(master, context) == <<master, context>>

deriveSubKeys(k, master) ==
  [k EXCEPT !.master = master, !.wrapping = Derive(master, "key-wrapping"),
            !.encryption = Derive(master, "direct-encryption"), !.late = FALSE]

\* The software blob carries the seal key and the master key XORed with it.
sealSoftware(master, sealKey) == [backend |-> "software", on |-> "any", sealKey |-> sealKey,
                                  body |-> Xor(master, sealKey)]
sealToTPM(m, master) == [backend |-> "tpm", on |-> m, sealKey |-> NoKey, body |-> master]

unsealSoftware(b) == Xor(b.body, b.sealKey)
unsealFromTPM(b) == b.body
Recovered(b) == IF b.backend = "tpm" THEN unsealFromTPM(b) ELSE unsealSoftware(b)

\* ecdsa.GenerateKey with a random reader, or TPM2_Create: a key never seen before.
FreshIdentity == <<"fresh", identities + 1>>

\* ecdsa.GenerateKey may discard a byte of the reader first, so a reader seeded
\* with the master key gives one of two keys.
SeededIdentity(master, skipped) == <<"seeded", master, skipped>>

-----------------------------------------------------------------------------
(* Operations. *)

Draw(k) == k \in KeyStrings \ drawn /\ drawn' = drawn \cup {k}

InitializeOpen(k, master, identity) ==
  [deriveSubKeys(k, master) EXCEPT !.initialized = TRUE, !.sealed = FALSE, !.identity = identity]

\* Initialize of the software backend.
InitializeSoftware(m) ==
  /\ km[m].backend = "software" /\ ~km[m].initialized /\ KmHappens
  /\ identities < MaxIdentities /\ identities' = identities + 1
  /\ \E k, r \in KeyStrings :
       /\ Draw(k)
       /\ km' = [km EXCEPT ![m] = InitializeOpen(@, k, FreshIdentity)]
       /\ blobs' = blobs \cup {sealSoftware(k, r)}
  /\ UNCHANGED <<ciphers, exported, signed>>

\* Initialize of the TPM backend.
InitializeTPM(m) ==
  /\ km[m].backend = "tpm" /\ ~km[m].initialized /\ KmHappens
  /\ identities < MaxIdentities /\ identities' = identities + 1
  /\ \E k \in KeyStrings :
       /\ Draw(k)
       /\ km' = [km EXCEPT ![m] = InitializeOpen(@, k, FreshIdentity)]
       /\ blobs' = blobs \cup {sealToTPM(m, k)}
  /\ UNCHANGED <<ciphers, exported, signed>>

\* The identity key cannot be created: Initialize returns an error and no blob
\* from a manager that is initialised and open.
createIdentityKeyFails(m) ==
  /\ km[m].backend = "tpm" /\ ~km[m].initialized /\ KmHappens
  /\ \E k \in KeyStrings :
       /\ Draw(k)
       /\ km' = [km EXCEPT ![m] = [InitializeOpen(@, k, None) EXCEPT !.late = TRUE]]
  /\ UNCHANGED <<blobs, ciphers, exported, signed, identities>>

\* Seal, and Close through it.  The TPM's identity blob stays in memory.
Seal(m) ==
  /\ km[m].initialized /\ ~km[m].sealed /\ KmHappens
  /\ km' = [km EXCEPT ![m].sealed = TRUE, ![m].master = NoKey, ![m].wrapping = None, ![m].encryption = None,
                      ![m].identity = IF km[m].backend = "tpm" THEN @ ELSE None]
  /\ UNCHANGED <<blobs, ciphers, exported, signed, drawn, identities>>

UnsealSoftwareBare(m, b) ==
  /\ km[m].backend = "software" /\ km[m].sealed /\ b.backend = "software" /\ KmHappens
  /\ km' = [km EXCEPT ![m] = [deriveSubKeys(@, b.body) EXCEPT
              !.initialized = TRUE, !.sealed = FALSE, !.master = unsealSoftware(b), !.identity = SeededIdentity(b.body, TRUE)]]
  /\ UNCHANGED <<blobs, ciphers, exported, signed, drawn, identities>>

\* Unseal of the software backend, from a software blob.
UnsealSoftware(m, b) ==
  /\ km[m].backend = "software" /\ km[m].sealed /\ b.backend = "software" /\ KmHappens
  /\ \E skipped \in BOOLEAN :
       km' = [km EXCEPT ![m] = [deriveSubKeys(@, unsealSoftware(b)) EXCEPT
                !.initialized = TRUE, !.sealed = FALSE, !.identity = SeededIdentity(unsealSoftware(b), skipped)]]
  /\ UNCHANGED <<blobs, ciphers, exported, signed, drawn, identities>>

\* Unseal of the TPM backend, which creates a new identity key.
UnsealTPM(m, b) ==
  /\ km[m].backend = "tpm" /\ km[m].sealed /\ b.backend = "tpm" /\ b.on = m /\ KmHappens
  /\ identities < MaxIdentities /\ identities' = identities + 1
  /\ km' = [km EXCEPT ![m] = [deriveSubKeys(@, unsealFromTPM(b)) EXCEPT
              !.initialized = TRUE, !.sealed = FALSE, !.identity = FreshIdentity]]
  /\ UNCHANGED <<blobs, ciphers, exported, signed, drawn>>

\* A blob of another machine's TPM: the error leaves the manager initialised.
UnsealRefused(m, b) ==
  /\ km[m].backend = "tpm" /\ km[m].sealed /\ (b.backend = "tpm" => b.on # m) /\ KmHappens
  /\ km' = [km EXCEPT ![m].initialized = TRUE]
  /\ UNCHANGED <<blobs, ciphers, exported, signed, drawn, identities>>

KmReady(m) == km[m].backend # "none" /\ ~km[m].sealed /\ km[m].initialized

Cipher(m, kind, key) == [kind |-> kind, key |-> key, by |-> km[m].master]

WrapKey(m) ==
  /\ KmReady(m) /\ KmHappens
  /\ ciphers' = ciphers \cup {Cipher(m, "wrapped", km[m].wrapping)}
  /\ UNCHANGED <<km, blobs, exported, signed, drawn, identities>>

Encrypt(m) ==
  /\ KmReady(m) /\ KmHappens
  /\ ciphers' = ciphers \cup {Cipher(m, "encrypted", km[m].encryption)}
  /\ UNCHANGED <<km, blobs, exported, signed, drawn, identities>>

\* A caller encrypts under a key it has derived for a context of its own.
DeriveKey(m) ==
  /\ KmReady(m) /\ KmHappens
  /\ ciphers' = ciphers \cup {Cipher(m, "derived", Derive(km[m].master, "context"))}
  /\ UNCHANGED <<km, blobs, exported, signed, drawn, identities>>

\* AES-GCM opens a ciphertext under the key that made it and no other.
UnwrapKey(m, c) == KmReady(m) /\ c.kind = "wrapped" /\ c.key = km[m].wrapping
Decrypt(m, c) == KmReady(m) /\ c.kind = "encrypted" /\ c.key = km[m].encryption
Rederived(m, c) == KmReady(m) /\ c.kind = "derived" /\ c.key = Derive(km[m].master, "context")

SignWithIdentityKey(m) ==
  /\ KmReady(m) /\ km[m].identity # None /\ KmHappens
  /\ signed' = [signed EXCEPT ![m] = km[m].identity]
  /\ UNCHANGED <<km, blobs, ciphers, exported, drawn, identities>>

ExportPublicKey(m) ==
  /\ KmReady(m) /\ km[m].identity # None /\ KmHappens
  /\ exported' = [exported EXCEPT ![m] = km[m].identity]
  /\ UNCHANGED <<km, blobs, ciphers, signed, drawn, identities>>

\* The process ends; the manager is made again by New.
KmCrash(m) ==
  /\ km[m].backend # "none" /\ KmHappens
  /\ km' = [km EXCEPT ![m] = Absent]
  /\ UNCHANGED <<blobs, ciphers, exported, signed, drawn, identities>>

KmNext ==
  \E m \in Machines :
    \/ New(m) \/ InitializeSoftware(m) \/ InitializeTPM(m) \/ createIdentityKeyFails(m) \/ Seal(m)
    \/ \E b \in blobs : UnsealSoftware(m, b) \/ UnsealTPM(m, b) \/ UnsealRefused(m, b)
    \/ WrapKey(m) \/ Encrypt(m) \/ DeriveKey(m)
    \/ SignWithIdentityKey(m) \/ ExportPublicKey(m) \/ KmCrash(m)

KmSpec == KmInit /\ [][KmNext]_kmvars

-----------------------------------------------------------------------------
(* Properties. *)

\* What was wrapped or encrypted opens on every manager that is open with the
\* same master key, across seals, restarts and machines.
StillOpens ==
  \A c \in ciphers, m \in Machines :
     KmReady(m) /\ km[m].master = c.by => UnwrapKey(m, c) \/ Decrypt(m, c) \/ Rederived(m, c)

\* An open manager holds a master key that some Initialize drew, and unless
\* that Initialize failed half-way there is a blob that gives it back.
OpenIsRecoverable ==
  \A m \in Machines : KmReady(m) =>
     km[m].master \in drawn /\ (km[m].late \/ \E b \in blobs : Recovered(b) = km[m].master)

\* A sealed manager keeps no key that opens anything.
SealedForgets ==
  \A m \in Machines : km[m].sealed =>
     km[m].master = NoKey /\ \A c \in ciphers : c.key \notin {km[m].wrapping, km[m].encryption}

\* Whatever Initialize, Seal, Unseal and restarts do, no secret is lost with its
\* key and none stays behind: what was wrapped or encrypted opens with its
\* master key, an open manager's master key can be had back from a blob, and a
\* sealed one keeps no key.
KeysRecoverable == StillOpens /\ OpenIsRecoverable /\ SealedForgets
=============================================================================
