--------------------------- MODULE SessionManager --------------------------
(***************************************************************************)
(* client/session_manager.py: what encrypt_for, encrypt_sealed,            *)
(* decrypt_from and decrypt_sealed make of a SessionContext, with the      *)
(* replay cache and the fork detection every received envelope passes      *)
(* before it reaches the ratchet.                                          *)
(***************************************************************************)
EXTENDS MemoryRatchet

CONSTANT MaxEntries     \* SessionReplayCache.max_entries

ASSUME SessionManagerAssumption == MaxEntries \in Nat

\* The session_id of a cache key is the same for all envelopes of a session.
CacheKey == [dh : KeyPair, n : Nat]

\* highest holds highest_by_ratchet as a set of pairs, one for each key.
SessionContext ==
    [ratchet : RatchetState,
     seen    : SUBSET CacheKey,
     highest : SUBSET CacheKey,
     fork    : [n : Nat \cup {-1}, pn : Nat \cup {-1}, pub : KeyPair \cup {None}],
     reset   : {None, "replay-detected", "fork-detected"}]

create_symmetric_session(root_key, dhs, dhr, is_initiator) ==
    [ratchet |-> InitialRatchet(root_key, dhs, dhr, is_initiator),
     seen    |-> {},
     highest |-> {},
     fork    |-> [n |-> -1, pn |-> -1, pub |-> None],
     reset   |-> None]

-----------------------------------------------------------------------------
(* SessionReplayCache.accept *)

HeaderId(m) == [dh |-> m.dh, n |-> m.n]

HighestOf(c, dh) == {h \in c.highest : h.dh = dh}

Accepts(c, m) ==
    /\ HeaderId(m) \notin c.seen
    /\ \A h \in HighestOf(c, m.dh) : m.n >= h.n
    /\ Cardinality(c.seen) < MaxEntries

\* Accepts has refused numbers below the highest: this one is the new highest.
Accepted(c, m) ==
    [c EXCEPT !.seen = @ \cup {HeaderId(m)},
              !.highest = (@ \ HighestOf(c, m.dh)) \cup {HeaderId(m)}]

-----------------------------------------------------------------------------
(* detect_fork *)

\* A plausible slip: an unchanged chain length counts as a regression.
ForkAtSameLength(f, m) == (f.pub # None /\ m.n < f.n) \/ m.pn <= f.pn

\* The number is compared whether or not the ratchet key is the last one's.
detect_fork(f, m) == (f.pub # None /\ m.n < f.n) \/ m.pn < f.pn

Forwarded(c, m) == [c EXCEPT !.fork = [n |-> m.n, pn |-> m.pn, pub |-> m.dh]]

-----------------------------------------------------------------------------
(* Receiving: the context left behind and the result.                      *)

Received(c, result) == [ctx |-> c, result |-> result]

mark_for_reset(c, reason) == [c EXCEPT !.reset = reason]

\* decrypt_from, and decrypt_sealed after unseal.
decrypt_from(c, m, fresh) ==
    LET a   == Accepted(c, m)
        f   == Forwarded(a, m)
        out == decrypt(c.ratchet, m, fresh)
    IN  IF ~ Accepts(c, m)
        THEN Received(mark_for_reset(c, "replay-detected"), "replayed-or-stale")
        ELSE IF detect_fork(a.fork, m)
        THEN Received(mark_for_reset(a, "fork-detected"), "forked")
        ELSE Received([f EXCEPT !.ratchet = out.state], out.result)

\* seal and unseal: the sealing key is derived from the root key alone, and
\* no key opens the random payload (seal = None) of a dummy packet.
Unseals(c, env) == env.seal = c.ratchet.root_key

-----------------------------------------------------------------------------
(* Sending: encrypt_for and encrypt_sealed.  The sealing key is derived     *)
(* after the ratchet has encrypted, and perhaps changed the root key.       *)

SentContext(c) == [c EXCEPT !.ratchet = EncryptedState(@)]

SentMessage(c) == Encrypted(c.ratchet)

SealingKey(c) == SentContext(c).ratchet.root_key
=============================================================================
