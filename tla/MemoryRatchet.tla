--------------------------- MODULE MemoryRatchet ---------------------------
(***************************************************************************)
(* The second Double Ratchet of the repository, ratchet/double_ratchet.py, *)
(* as operators on its state: the one the in-memory session stack uses.    *)
(* Both public keys may be known from the start, the skipped-key store     *)
(* raises when it is full instead of evicting, and there is no window of   *)
(* received ids.                                                           *)
(*                                                                         *)
(* Keys are symbolic: a Diffie-Hellman secret is the set of its two key    *)
(* pairs, a root key the sequence of secrets it was derived from, a chain  *)
(* key its root and the number of times it was advanced, and a message key *)
(* is named by the chain key it is drawn from.                             *)
(***************************************************************************)
EXTENDS Integers, Sequences, FiniteSets

CONSTANTS
    None,           \* Python's None
    KeyPair,        \* the names of X25519 key pairs
    MaxSkippedKeys  \* SkippedKeyStore.max_keys

RootKey == Seq(SUBSET KeyPair)
ChainKey == [root : RootKey, i : Nat]
SkippedKey == [dh : KeyPair, n : Nat, mk : ChainKey]
\* RatchetHeader and the ciphertext, which only its message key opens.
EncryptedMessage == [dh : KeyPair, n : Nat, pn : Nat, mk : ChainKey]

ASSUME MemoryRatchetAssumption ==
    /\ None \notin KeyPair /\ None \notin ChainKey
    /\ MaxSkippedKeys \in Nat

RatchetState ==
    [root_key : RootKey, dhs : KeyPair, dhr : KeyPair \cup {None},
     ck_s : ChainKey \cup {None}, ck_r : ChainKey \cup {None},
     Ns : Nat, Nr : Nat, PN : Nat, skipped_keys : SUBSET SkippedKey]

-----------------------------------------------------------------------------
(* Key derivation: injective, as the KDFs are taken to be. *)

kdf_root(rk, a, b) ==
    [root  |-> Append(rk, {a, b}),
     chain |-> [root |-> Append(rk, {a, b}), i |-> 0]]

kdf_chain(ck) == [next |-> [ck EXCEPT !.i = @ + 1], mk |-> ck]

\* DoubleRatchet(root_key, dhs, dhr, is_initiator): with the peer's key known
\* the first chain is there at once, to send with or to receive with.
InitialRatchet(root_key, dhs, dhr, is_initiator) ==
    LET kdf == kdf_root(root_key, dhs, dhr)
    IN  [root_key |-> IF dhr = None THEN root_key ELSE kdf.root,
         dhs  |-> dhs, dhr |-> dhr,
         ck_s |-> IF dhr # None /\ is_initiator THEN kdf.chain ELSE None,
         ck_r |-> IF dhr # None /\ ~ is_initiator THEN kdf.chain ELSE None,
         Ns |-> 0, Nr |-> 0, PN |-> 0, skipped_keys |-> {}]

-----------------------------------------------------------------------------
(* encrypt *)

_dh_ratchet_step(s) ==
    IF s.dhr = None
    THEN s
    ELSE LET kdf == kdf_root(s.root_key, s.dhs, s.dhr)
         IN  [s EXCEPT !.root_key = kdf.root, !.ck_s = kdf.chain, !.Ns = 0]

\* Without a sending chain and without the peer's key kdf_chain(None) raises.
CanEncrypt(s) == s.ck_s # None \/ s.dhr # None

ReadyToSend(s) == IF s.ck_s = None THEN _dh_ratchet_step(s) ELSE s

\* A plausible slip: the chain key is not stored back.
EncryptedStateSameChain(s) == [ReadyToSend(s) EXCEPT !.Ns = @ + 1]

EncryptedState(s) ==
    LET r == ReadyToSend(s)
    IN  [r EXCEPT !.ck_s = kdf_chain(r.ck_s).next, !.Ns = @ + 1]

Encrypted(s) ==
    LET r == ReadyToSend(s)
    IN  [dh |-> r.dhs, n |-> r.Ns, pn |-> r.PN, mk |-> kdf_chain(r.ck_s).mk]

-----------------------------------------------------------------------------
(* decrypt: the state it leaves behind and its result, an exception's name  *)
(* or "ok".                                                                 *)

Outcome(s, result) == [state |-> s, result |-> result]

SkippedFor(s, m) == {k \in s.skipped_keys : k.dh = m.dh /\ k.n = m.n}

\* One turn of _skip_message_keys.  When the store is full, add raises after
\* ck_r has been advanced and before Nr is.
SkipOne(s) ==
    LET kdf == kdf_chain(s.ck_r)
        id  == [dh |-> s.dhr, n |-> s.Nr]
    IN  IF Cardinality(s.skipped_keys) >= MaxSkippedKeys
        THEN Outcome([s EXCEPT !.ck_r = kdf.next], "SkippedKeyStorageLimitError")
        ELSE Outcome([s EXCEPT
                        !.ck_r = kdf.next,
                        !.skipped_keys = (@ \ SkippedFor(s, id))
                             \cup {[dh |-> s.dhr, n |-> s.Nr, mk |-> kdf.mk]},
                        !.Nr = @ + 1],
                     "ok")

\* A plausible slip: the loop stops one number early.
SkipOneShort(s, until) ==
    IF s.ck_r = None \/ until <= s.Nr + 1
    THEN Outcome(s, "ok")
    ELSE LET after[k \in 0..(until - s.Nr - 1)] ==
                 IF k = 0 THEN Outcome(s, "ok")
                 ELSE IF after[k - 1].result # "ok" THEN after[k - 1]
                 ELSE SkipOne(after[k - 1].state)
         IN  after[until - s.Nr - 1]

_skip_message_keys(s, until) ==
    IF s.ck_r = None \/ until <= s.Nr
    THEN Outcome(s, "ok")
    ELSE LET after[k \in 0..(until - s.Nr)] ==
                 IF k = 0 THEN Outcome(s, "ok")
                 ELSE IF after[k - 1].result # "ok" THEN after[k - 1]
                 ELSE SkipOne(after[k - 1].state)
         IN  after[until - s.Nr]

\* fresh: the key pair X25519PrivateKey.generate() returns.
_dh_ratchet_receive(s, dh, fresh) ==
    LET kdf == kdf_root(s.root_key, s.dhs, dh)
    IN  [s EXCEPT !.PN = s.Ns, !.Ns = 0, !.Nr = 0, !.dhr = dh,
                  !.root_key = kdf.root, !.ck_r = kdf.chain,
                  !.dhs = fresh, !.ck_s = None]

\* The receiving chain of the peer's known key on its first message, or a DH
\* ratchet for another key.  Skipping up to Nr skips nothing.
FollowRatchet(s, dh, fresh) ==
    LET kdf   == kdf_root(s.root_key, s.dhs, dh)
        first == s.ck_r = None /\ s.dhr # None /\ dh = s.dhr
    IN  IF first THEN [s EXCEPT !.root_key = kdf.root, !.ck_r = kdf.chain]
        ELSE IF s.dhr = None \/ dh # s.dhr THEN _dh_ratchet_receive(s, dh, fresh)
        ELSE s

\* A plausible slip: the tag is not checked.
OpenedUnchecked(s, mk, m) == Outcome(s, "ok")

\* _aead_decrypt opens with the sender's message key only.
Opened(s, mk, m) == Outcome(s, IF mk = m.mk THEN "ok" ELSE "InvalidTag")

decrypt(s, m, fresh) ==
    IF SkippedFor(s, m) # {}
    THEN LET k == CHOOSE k \in SkippedFor(s, m) : TRUE
         IN  Opened([s EXCEPT !.skipped_keys = @ \ {k}], k.mk, m)
    ELSE LET r    == FollowRatchet(s, m.dh, fresh)
             skip == _skip_message_keys(r, m.n)
             kdf  == kdf_chain(skip.state.ck_r)
         IN  IF m.n < r.Nr THEN Outcome(r, "DuplicateMessageError")
             ELSE IF skip.result # "ok" THEN skip
             ELSE Opened([skip.state EXCEPT !.ck_r = kdf.next, !.Nr = @ + 1],
                         kdf.mk, m)
=============================================================================
