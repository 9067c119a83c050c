----------------------------- MODULE Handshake -----------------------------
(***************************************************************************)
(* How chat clients establish sessions: the prekey bundle                  *)
(* (client/crypto/prekey.py), X3DH (client/crypto/x3dh.py) and the part of *)
(* client/client.py that uses them, with processes that stop and start     *)
(* again.  The relay (module Relay) is reduced to what it stores for a     *)
(* client and to the session_init frames on their way.                     *)
(*                                                                         *)
(* A Diffie-Hellman secret is the set of the two keys; a root key is the   *)
(* tuple of secrets and the transcript it is derived from.                 *)
(***************************************************************************)
EXTENDS Integers, Sequences, FiniteSets, FiniteSetsExt

CONSTANTS
    None,
    Client,
    Opk,            \* the key ids of the one-time prekeys in every bundle file
    MaxStarts       \* bound: starts of all clients together

ASSUME HandshakeAssumption ==
    /\ Opk \subseteq Nat /\ Opk # {} /\ IsFiniteSet(Opk)
    /\ None \notin Nat
    /\ MaxStarts \in Nat

VARIABLES
    phase,      \* "down", "registered", "starting", "fetched", "legacy", "running"
    run,        \* the number of a client's present start; names its legacy key
    bundle,     \* the ClientPreKeyBundle in memory: keys left, ids used
    published,  \* _bundles of the relay: the ids in the bundle, None if none
    legacy,     \* _ephemeral_pubs of the relay: the run that registered
    session,    \* session[u][v]: root key and session_version in u's file with v
    engine,     \* the one engine of a running client: its peer and root key
    fetched,    \* the answer to get_bundle: the peer and the ids in its bundle
    inits,      \* session_init frames on their way to a client
    handshakes, \* the root keys of the handshakes initiated, with their parties
    consumed,   \* the consumptions of one-time prekeys
    starts

vars == <<phase, run, bundle, published, legacy, session, engine, fetched,
          inits, handshakes, consumed, starts>>

Init ==
    /\ phase = [u \in Client |-> "down"]
    /\ run = [u \in Client |-> 0]
    /\ bundle = [u \in Client |-> None]
    /\ published = [u \in Client |-> None]
    /\ legacy = [u \in Client |-> None]
    /\ session = [u \in Client |-> [v \in Client |-> None]]
    /\ engine = [u \in Client |-> None]
    /\ fetched = [u \in Client |-> None]
    /\ inits = [u \in Client |-> {}]
    /\ handshakes = {}
    /\ consumed = {}
    /\ starts = 0

-----------------------------------------------------------------------------
(* prekey.py *)

Consumable(b, id) == id \notin b.used /\ id \in b.opks

\* Slips: the key is used and stays; it stays although it is noted as used.
ConsumedPeek(b, id) == b
ConsumedKeepingKey(b, id) == [b EXCEPT !.used = @ \cup {id}]

Consumed(b, id) == [opks |-> b.opks \ {id}, used |-> b.used \cup {id}]

\* client.py takes opks[0] of the bundle, which is sorted by key id.
FirstOpk(ids) == IF ids = {} THEN None ELSE Min(ids)

-----------------------------------------------------------------------------
(* x3dh.py *)

\* The keys, by owner; an ephemeral key is named by the run that made it.
ik(u) == <<"ik", u>>
spk(u) == <<"spk", u>>
opk(u, id) == <<"opk", u, id>>
eph(u, r) == <<"eph", u, r>>

_dh(a, b) == {a, b}

_build_transcript(ik_a, ik_b, spk_b, eph_a, opk_id) == <<ik_a, ik_b, spk_b, eph_a, opk_id>>

\* x3dh_initiator, run by a with peer b.
x3dh_initiator(a, e, b, id) ==
    [ikm |-> <<_dh(ik(a), spk(b)), _dh(e, ik(b)), _dh(e, spk(b))>>
             \o (IF id = None THEN << >> ELSE <<_dh(e, opk(b, id))>>),
     transcript |-> _build_transcript(ik(a), ik(b), spk(b), e, id)]

\* A slip: the responder leaves out the fourth secret.
ResponderWithoutDh4(b, ik_a, e, id) ==
    [ikm |-> <<_dh(spk(b), ik_a), _dh(ik(b), e), _dh(spk(b), e)>>,
     transcript |-> _build_transcript(ik_a, ik(b), spk(b), e, id)]

\* x3dh_responder, run by b on the keys of a session_init.
x3dh_responder(b, ik_a, e, id) ==
    [ikm |-> <<_dh(spk(b), ik_a), _dh(ik(b), e), _dh(spk(b), e)>>
             \o (IF id = None THEN << >> ELSE <<_dh(opk(b, id), e)>>),
     transcript |-> _build_transcript(ik_a, ik(b), spk(b), e, id)]

\* KeyExchange.derive_shared_secret and derive_root_key.
legacy_root(u, v) ==
    [ikm |-> <<_dh(<<"kex", u, run[u]>>, <<"kex", v, legacy[v]>>)>>, transcript |-> << >>]

-----------------------------------------------------------------------------
(* client.py *)

\* main and connect: the bundle is read from its file, which is written when it
\* is generated and never again; then register.
Start(u) ==
    /\ phase[u] = "down"
    /\ starts < MaxStarts
    /\ starts' = starts + 1
    /\ run' = [run EXCEPT ![u] = @ + 1]
    /\ bundle' = [bundle EXCEPT ![u] = [opks |-> Opk, used |-> {}]]
    /\ legacy' = [legacy EXCEPT ![u] = run[u] + 1]
    /\ phase' = [phase EXCEPT ![u] = "registered"]
    /\ UNCHANGED <<published, session, engine, fetched, inits, handshakes, consumed>>

UploadBundle(u) ==
    /\ phase[u] = "registered"
    /\ published' = [published EXCEPT ![u] = bundle[u].opks]
    /\ phase' = [phase EXCEPT ![u] = "starting"]
    /\ UNCHANGED <<run, bundle, legacy, session, engine, fetched, inits, handshakes,
                   consumed, starts>>

\* get_peer_bundle.  A session_init that is there before the answers of the relay
\* is read in their place, and the start fails (module Relay).
FetchBundle(u, v) ==
    /\ phase[u] = "starting" /\ v # u
    /\ inits[u] = {}
    /\ fetched' = [fetched EXCEPT ![u] = [peer |-> v, opks |-> published[v]]]
    /\ phase' = [phase EXCEPT ![u] = IF published[v] = None THEN "legacy" ELSE "fetched"]
    /\ UNCHANGED <<run, bundle, published, legacy, session, engine, inits, handshakes,
                   consumed, starts>>

\* The session_version of create_initial_state.
NewVersion == 1

\* What save_session writes for a state with the given version.
SavedState(root, version) == [root |-> root, version |-> version + 1]

\* save_session raises SessionRollbackError when the file is newer.
SaveRaises(u, v, version) == session[u][v] # None /\ session[u][v].version > version

\* load_session, or create_initial_state and save_session for a new session.
OpenSession(u, v, root) ==
    LET file == IF session[u][v] = None THEN SavedState(root, NewVersion) ELSE session[u][v]
    IN  /\ session' = [session EXCEPT ![u][v] = file]
        /\ engine' = [engine EXCEPT ![u] = [peer |-> v, root |-> file.root]]
        /\ phase' = [phase EXCEPT ![u] = "running"]

\* X3DH with the bundle that was fetched.  The session_init is lost when nobody
\* is there to read it.
Initiate(u) ==
    /\ phase[u] = "fetched"
    /\ LET v    == fetched[u].peer
           e    == eph(u, run[u])
           id   == FirstOpk(fetched[u].opks)
           root == x3dh_initiator(u, e, v, id)
           init == [from |-> u, identity_dh_pub |-> ik(u), eph_pub |-> e, opk_id_used |-> id]
       IN  /\ handshakes' = handshakes \cup {[from |-> u, to |-> v, root |-> root]}
           /\ inits' = IF phase[v] = "down" THEN inits
                       ELSE [inits EXCEPT ![v] = @ \cup {init}]
           /\ OpenSession(u, v, root)
    /\ fetched' = [fetched EXCEPT ![u] = None]
    /\ UNCHANGED <<run, bundle, published, legacy, consumed, starts>>

\* No bundle: get_peer_key, and the root key comes from the two keys of register.
LegacySession(u) ==
    /\ phase[u] = "legacy"
    /\ inits[u] = {}
    /\ LET v == fetched[u].peer
       IN  legacy[v] # None /\ OpenSession(u, v, legacy_root(u, v))
    /\ fetched' = [fetched EXCEPT ![u] = None]
    /\ UNCHANGED <<run, bundle, published, legacy, inits, handshakes, consumed, starts>>

\* A slip: the engine is switched before the session is saved.
AdoptBeforeSave(u, v, root) ==
    /\ session' = IF SaveRaises(u, v, NewVersion) THEN session
                  ELSE [session EXCEPT ![u][v] = SavedState(root, NewVersion)]
    /\ engine' = [engine EXCEPT ![u] = [peer |-> v, root |-> root]]

\* The end of handle_session_inits: a new session is saved and then used; when
\* save_session raises, the engine stays the one it was.
AdoptSession(u, v, root) ==
    IF SaveRaises(u, v, NewVersion)
    THEN UNCHANGED <<session, engine>>
    ELSE /\ session' = [session EXCEPT ![u][v] = SavedState(root, NewVersion)]
         /\ engine' = [engine EXCEPT ![u] = [peer |-> v, root |-> root]]

\* handle_session_inits.  Each error is logged; a one-time prekey that was
\* consumed before the error stays consumed.
HandleSessionInit(u, m) ==
    /\ phase[u] = "running"
    /\ m \in inits[u]
    /\ inits' = [inits EXCEPT ![u] = @ \ {m}]
    /\ LET id   == m.opk_id_used
           v    == m.from
           ok   == id = None \/ Consumable(bundle[u], id)
           root == x3dh_responder(u, m.identity_dh_pub, m.eph_pub, id)
       IN  /\ IF ok /\ id # None
              THEN /\ bundle' = [bundle EXCEPT ![u] = Consumed(@, id)]
                   /\ consumed' = consumed \cup
                        {[client |-> u, opk |-> id, run |-> run[u], eph |-> m.eph_pub]}
              ELSE UNCHANGED <<bundle, consumed>>
           /\ IF ok THEN AdoptSession(u, v, root) ELSE UNCHANGED <<session, engine>>
    /\ UNCHANGED <<phase, run, published, legacy, fetched, handshakes, starts>>

\* The process ends, or gives up on its start: what is not in a file is gone,
\* and so is what was on its way.
Stop(u) ==
    /\ phase[u] # "down"
    /\ phase' = [phase EXCEPT ![u] = "down"]
    /\ bundle' = [bundle EXCEPT ![u] = None]
    /\ engine' = [engine EXCEPT ![u] = None]
    /\ fetched' = [fetched EXCEPT ![u] = None]
    /\ inits' = [inits EXCEPT ![u] = {}]
    /\ UNCHANGED <<run, published, legacy, session, handshakes, consumed, starts>>

Next ==
    \E u \in Client :
        \/ Start(u) \/ UploadBundle(u)
        \/ \E v \in Client : FetchBundle(u, v)
        \/ Initiate(u) \/ LegacySession(u) \/ Stop(u)
        \/ \E m \in inits[u] : HandleSessionInit(u, m)

Spec == Init /\ [][Next]_vars

-----------------------------------------------------------------------------
(* Properties. *)

Runs == 0..MaxStarts
EphKey == {eph(u, r) : u \in Client, r \in Runs}
SessionInit == [from : Client, identity_dh_pub : {ik(u) : u \in Client},
                eph_pub : EphKey, opk_id_used : Opk \cup {None}]

\* The variables hold what the clients and the relay can store in them; a
\* one-time prekey is either available or used.
TypeOK ==
    /\ phase \in [Client -> {"down", "registered", "starting", "fetched", "legacy",
                            "running"}]
    /\ run \in [Client -> Runs]
    /\ \A u \in Client : bundle[u] # None =>
         /\ bundle[u] \in [opks : SUBSET Opk, used : SUBSET Opk]
         /\ bundle[u].opks \cap bundle[u].used = {}
    /\ published \in [Client -> (SUBSET Opk) \cup {None}]
    /\ legacy \in [Client -> Runs \cup {None}]
    /\ fetched \in [Client -> [peer : Client, opks : (SUBSET Opk) \cup {None}] \cup {None}]
    /\ \A u \in Client : inits[u] \subseteq SessionInit
    /\ consumed \subseteq [client : Client, opk : Opk, run : Runs, eph : EphKey]
    /\ starts \in Runs

\* While a client runs, no one-time prekey enters two sessions, whatever the
\* order of the handshakes and however many of them name the same key.
OpkOncePerRun ==
    \A x, y \in consumed :
        x.client = y.client /\ x.opk = y.opk /\ x.run = y.run => x = y

\* A session that was opened for a session_init has the root key that the peer
\* derived when it sent it, even when other handshakes have run in between and
\* the file has been loaded since.
ResponderSharesRoot ==
    \A u \in Client : engine[u] # None =>
        LET v == engine[u].peer
            r == engine[u].root
        IN  r.transcript # << >> /\ r.transcript[1] # ik(u)
              => [from |-> v, to |-> u, root |-> r] \in handshakes

\* A running client uses the session that a restart would load from its file,
\* whichever handshakes it has initiated, answered or failed to save: a
\* session_init that meets an older session leaves file and engine as they were.
EngineIsOnDisk ==
    \A u \in Client : engine[u] # None =>
        session[u][engine[u].peer].root = engine[u].root
=============================================================================
