--------------------------- MODULE RatchetEngine ---------------------------
(***************************************************************************)
(* The Double Ratchet engine of client/crypto/double_ratchet.py as pure    *)
(* operators on a session state: what one call of ratchet_encrypt or       *)
(* ratchet_decrypt makes of the state, failures included.                  *)
(*                                                                         *)
(* Keys are symbolic.  A key pair is a name; its public half is the same   *)
(* name.  A Diffie-Hellman secret is the set of the two key pairs.  A root *)
(* key is the sequence of secrets it was derived from, so that two root    *)
(* keys are equal exactly when their derivations are.  A chain key names   *)
(* the root it comes from, the label of its derivation and how many times  *)
(* it was advanced; a message key is named by the chain key it is drawn    *)
(* from.                                                                   *)
(***************************************************************************)
EXTENDS Integers, Sequences

CONSTANTS
    None,               \* Python's None: a key that is not set yet
    KeyPair,            \* the names of X25519 key pairs
    MAX_SKIP_DISTANCE,  \* largest gap h.n - Nr that is skipped over
    MaxSkippedKeys,     \* SkippedMessageKeys.max_keys
    MaxReceivedIds      \* ReceivedIdsStore.max_size

RootKey == Seq(SUBSET KeyPair)
ChainKey == [label : {"initial", "root"}, root : RootKey, i : Nat]
MessageId == [dh : KeyPair, n : Nat]
SkippedEntry == [id : MessageId, mk : ChainKey]
WireMessage == [dh : KeyPair, n : Nat, pn : Nat, mk : ChainKey]

ASSUME EngineAssumption ==
    /\ None \notin KeyPair
    /\ None \notin ChainKey
    /\ MAX_SKIP_DISTANCE \in Nat
    /\ MaxSkippedKeys \in Nat \ {0}
    /\ MaxReceivedIds \in Nat \ {0}

\* DoubleRatchetState, without the session_version of the session store.
RatchetState ==
    [root_key             : RootKey,
     sending_chain_key    : ChainKey \cup {None},
     receiving_chain_key  : ChainKey \cup {None},
     dhs                  : KeyPair,
     dhr                  : KeyPair \cup {None},
     Ns                   : Nat,
     Nr                   : Nat,
     PN                   : Nat,
     skipped_message_keys : Seq(SkippedEntry),
     received_ids         : Seq(MessageId)]

-----------------------------------------------------------------------------
(* Key derivation: injective, as the KDFs are taken to be. *)

dh_secret(a, b) == {a, b}

kdf_initial_chain(rk) == [label |-> "initial", root |-> rk, i |-> 0]

\* kdf_root(rk, secret): the next root key and the chain key derived with it.
kdf_root(rk, secret) ==
    [root  |-> Append(rk, secret),
     chain |-> [label |-> "root", root |-> Append(rk, secret), i |-> 0]]

\* kdf_chain(ck) yields the next chain key and the message key named ck.
kdf_chain(ck) == [next |-> [ck EXCEPT !.i = @ + 1], mk |-> ck]

-----------------------------------------------------------------------------
(* The two bounded stores: OrderedDicts, oldest entry first. *)

\* A plausible slip: one entry too many before the oldest is dropped.
EvictOldestLate(store, max) ==
    IF Len(store) > max
    THEN SubSeq(store, Len(store) - max + 2, Len(store))
    ELSE store

\* popitem(last=False) while the store has max or more entries.
EvictOldest(store, max) ==
    IF Len(store) >= max
    THEN SubSeq(store, Len(store) - max + 2, Len(store))
    ELSE store

ReceivedIdsContains(ids, id) == \E j \in 1..Len(ids) : ids[j] = id

ReceivedIdsAdd(ids, id) ==
    IF ReceivedIdsContains(ids, id)
    THEN ids
    ELSE Append(EvictOldest(ids, MaxReceivedIds), id)

SkippedHas(store, id) == \E j \in 1..Len(store) : store[j].id = id

SkippedIndex(store, id) == CHOOSE j \in 1..Len(store) : store[j].id = id

\* Eviction comes first, even when id is present and only overwritten.
SkippedAdd(store, id, mk) ==
    LET kept == EvictOldest(store, MaxSkippedKeys)
    IN  IF SkippedHas(kept, id)
        THEN [kept EXCEPT ![SkippedIndex(kept, id)] = [id |-> id, mk |-> mk]]
        ELSE Append(kept, [id |-> id, mk |-> mk])

\* A plausible slip: a skipped key is read and not removed.
SkippedPeek(store, id) == store

SkippedPop(store, id) ==
    LET j == SkippedIndex(store, id)
    IN  SubSeq(store, 1, j - 1) \o SubSeq(store, j + 1, Len(store))

-----------------------------------------------------------------------------
(* The private steps of the engine. *)

\* A plausible slip: the skipped key is filed under the following number.
SkipOneMisfiled(s) ==
    LET kdf == kdf_chain(s.receiving_chain_key)
    IN  [s EXCEPT
           !.receiving_chain_key = kdf.next,
           !.skipped_message_keys =
               SkippedAdd(@, [dh |-> s.dhr, n |-> s.Nr + 1], kdf.mk),
           !.Nr = @ + 1]

\* One turn of the loop of _skip_receiving_until.
SkipOne(s) ==
    LET kdf == kdf_chain(s.receiving_chain_key)
    IN  [s EXCEPT
           !.receiving_chain_key = kdf.next,
           !.skipped_message_keys =
               SkippedAdd(@, [dh |-> s.dhr, n |-> s.Nr], kdf.mk),
           !.Nr = @ + 1]

_skip_receiving_until(s, until) ==
    IF s.receiving_chain_key = None \/ s.dhr = None \/ until <= s.Nr
    THEN s
    ELSE LET after[k \in 0..(until - s.Nr)] ==
                 IF k = 0 THEN s ELSE SkipOne(after[k - 1])
         IN  after[until - s.Nr]

_dh_ratchet_receive_first(s, dh) ==
    [s EXCEPT !.dhr = dh,
              !.receiving_chain_key = kdf_initial_chain(s.root_key)]

\* A plausible slip: PN is the last number sent, not the length of the chain.
RatchetReceiveLastNumber(s, dh, fresh) ==
    LET kdf == kdf_root(s.root_key, dh_secret(s.dhs, dh))
    IN  [s EXCEPT !.PN = s.Ns - 1, !.Ns = 0, !.Nr = 0,
                  !.dhr = dh,
                  !.root_key = kdf.root,
                  !.receiving_chain_key = kdf.chain,
                  !.dhs = fresh,
                  !.sending_chain_key = None]

\* fresh: the key pair X25519PrivateKey.generate() returns.
_dh_ratchet_receive(s, dh, fresh) ==
    LET kdf == kdf_root(s.root_key, dh_secret(s.dhs, dh))
    IN  [s EXCEPT !.PN = s.Ns, !.Ns = 0, !.Nr = 0,
                  !.dhr = dh,
                  !.root_key = kdf.root,
                  !.receiving_chain_key = kdf.chain,
                  !.dhs = fresh,
                  !.sending_chain_key = None]

_dh_ratchet_step_send(s) ==
    IF s.dhr = None
    THEN s
    ELSE LET kdf == kdf_root(s.root_key, dh_secret(s.dhs, s.dhr))
         IN  [s EXCEPT !.root_key = kdf.root,
                       !.sending_chain_key = kdf.chain,
                       !.Ns = 0]

\* The bootstrap cases of ratchet_decrypt: dhr and the receiving chain are set.
Bootstrap(s, dh, fresh) ==
    CASE s.dhr = None /\ s.receiving_chain_key # None /\ s.sending_chain_key = None
           -> [s EXCEPT !.dhr = dh]
      [] s.dhr = None /\ s.sending_chain_key # None
           -> _dh_ratchet_receive(_skip_receiving_until(s, s.Nr), dh, fresh)
      [] s.dhr = None /\ s.receiving_chain_key = None /\ s.sending_chain_key = None
           -> _dh_ratchet_receive_first(_skip_receiving_until(s, s.Nr), dh)
      [] s.dhr # None /\ s.receiving_chain_key = None /\ dh = s.dhr
           -> LET kdf == kdf_root(s.root_key, dh_secret(s.dhs, s.dhr))
              IN  [s EXCEPT !.root_key = kdf.root,
                            !.receiving_chain_key = kdf.chain]
      [] OTHER -> s

\* ... and the DH ratchet for a header key other than dhr.  The chain being
\* left is skipped up to Nr, that is not at all: header.pn is not consulted.
FollowRatchet(s, dh, fresh) ==
    LET b == Bootstrap(s, dh, fresh)
    IN  IF b.dhr # None /\ dh # b.dhr
        THEN _dh_ratchet_receive(_skip_receiving_until(b, b.Nr), dh, fresh)
        ELSE b

-----------------------------------------------------------------------------
(* The public operations. *)

create_initial_state(root_key, is_initiator, dhs) ==
    LET ck == kdf_initial_chain(root_key)
    IN  [root_key             |-> root_key,
         sending_chain_key    |-> IF is_initiator THEN ck ELSE None,
         receiving_chain_key  |-> IF is_initiator THEN None ELSE ck,
         dhs                  |-> dhs,
         dhr                  |-> None,
         Ns                   |-> 0,
         Nr                   |-> 0,
         PN                   |-> 0,
         skipped_message_keys |-> << >>,
         received_ids         |-> << >>]

\* ratchet_encrypt raises, changing nothing, when no sending chain can be made.
CanEncrypt(s) == s.sending_chain_key # None \/ s.dhr # None

\* A plausible slip: a DH step before every message.
ReadyToSendAlways(s) == _dh_ratchet_step_send(s)

ReadyToSend(s) ==
    IF s.sending_chain_key = None THEN _dh_ratchet_step_send(s) ELSE s

\* A plausible slip: the sending chain does not advance.
EncryptedStateSameChain(s) == [ReadyToSend(s) EXCEPT !.Ns = @ + 1]

\* The session state and the wire message of a successful ratchet_encrypt.
EncryptedState(s) ==
    LET r == ReadyToSend(s)
    IN  [r EXCEPT !.sending_chain_key = kdf_chain(r.sending_chain_key).next,
                  !.Ns = @ + 1]

EncryptedMessage(s) ==
    LET r == ReadyToSend(s)
    IN  [dh |-> r.dhs, n |-> r.Ns, pn |-> r.PN,
         mk |-> kdf_chain(r.sending_chain_key).mk]

\* aead_decrypt and the nonce check before it succeed with the sender's
\* message key only; the header is the associated data, untouched in transit.
Opens(mk, m) == mk = m.mk

Outcome(s, result) == [state |-> s, result |-> result]

\* The skipped-key path: the key is gone whether or not the message opens.
OpenSkipped(s, m, id) ==
    LET mk     == s.skipped_message_keys[SkippedIndex(s.skipped_message_keys, id)].mk
        popped == [s EXCEPT !.skipped_message_keys = SkippedPop(@, id)]
    IN  IF Opens(mk, m)
        THEN Outcome([popped EXCEPT !.received_ids = ReceivedIdsAdd(@, id)], "ok")
        ELSE Outcome(popped, "DecryptionError")

\* The chain path: the chain has advanced whether or not the message opens.
OpenNext(s, m, id) ==
    LET kdf      == kdf_chain(s.receiving_chain_key)
        advanced == [s EXCEPT !.receiving_chain_key = kdf.next, !.Nr = @ + 1]
    IN  IF Opens(kdf.mk, m)
        THEN Outcome([advanced EXCEPT !.received_ids = ReceivedIdsAdd(@, id)], "ok")
        ELSE Outcome(advanced, "DecryptionError")

\* A plausible slip: the limit is exceeded by one.
SkipTooFarByOne(s, n) == n - s.Nr > MAX_SKIP_DISTANCE + 1

SkipTooFar(s, n) == n - s.Nr > MAX_SKIP_DISTANCE

ratchet_decrypt(s, m, fresh) ==
    LET id == [dh |-> m.dh, n |-> m.n]
        r  == FollowRatchet(s, m.dh, fresh)
    IN  CASE ReceivedIdsContains(s.received_ids, id)
               -> Outcome(s, "DuplicateMessageError")
          [] /\ ~ ReceivedIdsContains(s.received_ids, id)
             /\ SkippedHas(s.skipped_message_keys, id)
               -> OpenSkipped(s, m, id)
          [] OTHER
               -> IF s.dhr # None /\ m.dh = s.dhr /\ m.n < s.Nr
                  THEN Outcome(s, "DuplicateMessageError")
                  ELSE IF m.n < r.Nr
                  THEN Outcome(r, "DuplicateMessageError")
                  ELSE IF SkipTooFar(r, m.n)
                  THEN Outcome(r, "SkipDistanceExceededError")
                  ELSE OpenNext(_skip_receiving_until(r, m.n), m, id)
=============================================================================
