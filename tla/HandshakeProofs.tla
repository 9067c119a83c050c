-------------------------- MODULE HandshakeProofs --------------------------
(***************************************************************************)
(* Safety of the handshakes, for any number of clients, one-time prekeys   *)
(* and starts.                                                             *)
(***************************************************************************)
EXTENDS Handshake, TLAPS, WellFoundedInduction

Phase == {"down", "registered", "starting", "fetched", "legacy", "running"}
Fetched == [peer : Client, opks : (SUBSET Opk) \cup {None}]

\* The starts bound the runs.
RunsInv ==
    /\ phase \in [Client -> Phase]
    /\ run \in [Client -> Nat] /\ starts \in Runs
    /\ \A u \in Client : run[u] <= starts

\* A client has a bundle exactly while it is up; a key is available or used.
BundleType(b) == b \in [opks : SUBSET Opk, used : SUBSET Opk] /\ b.opks \cap b.used = {}

BundlesInv ==
    /\ bundle = [u \in Client |-> bundle[u]]
    /\ \A u \in Client : IF phase[u] = "down" THEN bundle[u] = None ELSE BundleType(bundle[u])

\* A client that goes on after get_bundle has an answer.
FetchedInv ==
    /\ fetched \in [Client -> Fetched \cup {None}]
    /\ \A u \in Client :
          /\ phase[u] \in {"fetched", "legacy"} => fetched[u] \in Fetched
          /\ phase[u] = "fetched" => fetched[u].opks \in SUBSET Opk

RelayInv ==
    /\ published \in [Client -> (SUBSET Opk) \cup {None}]
    /\ legacy \in [Client -> Runs \cup {None}]
    /\ inits \in [Client -> SUBSET SessionInit]

ConsumedType ==
    consumed \subseteq [client : Client, opk : Opk, run : Runs, eph : EphKey]

\* The functions that hold root keys, whose values are not typed further.
SessionTables ==
    /\ session = [u \in Client |-> [v \in Client |-> session[u][v]]]
    /\ engine = [u \in Client |-> engine[u]]

\* Type correctness with what its proof needs.
TypeInv ==
    /\ RunsInv
    /\ BundlesInv
    /\ FetchedInv
    /\ RelayInv
    /\ ConsumedType
    /\ SessionTables

\* What was consumed in the present run is noted as used.
ConsumedIsUsed ==
    \A x \in consumed :
        /\ x.run <= run[x.client]
        /\ x.run = run[x.client] /\ phase[x.client] # "down"
              => x.opk \in bundle[x.client].used

\* The root keys that u did not derive as an initiator come from a handshake
\* that v initiated.
FromInitiator(u, v, r) ==
    r.transcript # << >> /\ r.transcript[1] # ik(u)
        => [from |-> v, to |-> u, root |-> r] \in handshakes

SessionsShared ==
    \A u, v \in Client : session[u][v] # None => FromInitiator(u, v, session[u][v].root)

EnginesShared ==
    \A u \in Client : engine[u] # None =>
        engine[u].peer \in Client /\ FromInitiator(u, engine[u].peer, engine[u].root)

\* Every session_init belongs to a handshake of its sender.
InitsGenuine ==
    \A u \in Client : \A m \in inits[u] :
        /\ m.identity_dh_pub = ik(m.from)
        /\ [from |-> m.from, to |-> u,
            root |-> x3dh_initiator(m.from, m.eph_pub, u, m.opk_id_used)] \in handshakes

HandshakeInv ==
    /\ TypeInv
    /\ ConsumedIsUsed
    /\ OpkOncePerRun
    /\ SessionsShared
    /\ EnginesShared
    /\ EngineIsOnDisk
    /\ InitsGenuine

-----------------------------------------------------------------------------
\* A non-empty set of natural numbers has a least element.
LEMMA LeastNatural ==
    ASSUME NEW T \in SUBSET Nat, T # {}
    PROVE  \E x \in T : \A y \in T : x <= y
<1> DEFINE R == OpToRel(<, Nat)
<1>1. IsWellFoundedOn(R, Nat)
  BY NatLessThanWellFounded, Zenon
<1>2. PICK x \in T : \A y \in T : ~(<<y, x>> \in R)
  <2> HIDE DEF R
  <2> QED BY <1>1, WFMin
<1>3. \A a, b \in Nat : <<a, b>> \in R <=> a < b
  BY DEF OpToRel
<1>4. \A y \in T : x \in Nat /\ y \in Nat /\ ~(y < x)
  BY <1>2, <1>3
<1> QED BY <1>4

\* The prekey an initiator takes is one of the bundle.
LEMMA FirstOpkType ==
    ASSUME NEW ids \in SUBSET Opk
    PROVE  FirstOpk(ids) \in Opk \cup {None}
<1>1. CASE ids # {}
  <2>1. \E x \in ids : \A y \in ids : x <= y
    BY <1>1, LeastNatural, HandshakeAssumption
  <2>2. Min(ids) \in ids
    BY <2>1 DEF Min
  <2> QED BY <1>1, <2>2 DEF FirstOpk
<1>2. CASE ids = {}
  BY <1>2 DEF FirstOpk
<1> QED BY <1>1, <1>2

\* x3dh_responder gives the root key that x3dh_initiator gave.
LEMMA SameRoot ==
    ASSUME NEW a, NEW b, NEW e, NEW id
    PROVE  x3dh_responder(b, ik(a), e, id) = x3dh_initiator(a, e, b, id)
<1>1. \A x, y : _dh(x, y) = _dh(y, x)
  BY DEF _dh
<1> QED BY <1>1 DEF x3dh_responder, x3dh_initiator

\* The initiator's own identity key comes first in the transcript.
LEMMA InitiatorTranscript ==
    ASSUME NEW a, NEW b, NEW e, NEW id
    PROVE  x3dh_initiator(a, e, b, id).transcript[1] = ik(a)
  BY DEF x3dh_initiator, _build_transcript

-----------------------------------------------------------------------------
\* No client has started.
LEMMA InitInv == Init => HandshakeInv
<1> SUFFICES ASSUME Init PROVE HandshakeInv
  OBVIOUS
<1> USE DEF Init
<1>1. TypeInv
  BY HandshakeAssumption DEF TypeInv, RunsInv, Phase, BundlesInv, FetchedInv, RelayInv,
                             ConsumedType, Runs, SessionTables
<1>2. ConsumedIsUsed /\ OpkOncePerRun
  BY DEF ConsumedIsUsed, OpkOncePerRun
<1>3. SessionsShared /\ EnginesShared /\ EngineIsOnDisk /\ InitsGenuine
  BY DEF SessionsShared, EnginesShared, EngineIsOnDisk, InitsGenuine
<1> QED BY <1>1, <1>2, <1>3 DEF HandshakeInv

-----------------------------------------------------------------------------
(* The actions. *)

\* The runs fit their bound, as TypeOK states it.
LEMMA RunsBounded ==
    ASSUME RunsInv
    PROVE  run \in [Client -> Runs]
  BY HandshakeAssumption DEF RunsInv, Runs

\* What an action that leaves the sessions, the consumptions, the handshakes and
\* the session_inits alone need not show again.
LEMMA SharedUnchanged ==
    ASSUME HandshakeInv, UNCHANGED <<session, engine, inits, handshakes, consumed>>
    PROVE  /\ OpkOncePerRun' /\ SessionsShared' /\ EnginesShared' /\ InitsGenuine'
           /\ ConsumedType' /\ SessionTables' /\ EngineIsOnDisk'
  BY DEF HandshakeInv, TypeInv, ConsumedType, SessionTables, OpkOncePerRun,
         SessionsShared, EnginesShared, EngineIsOnDisk, InitsGenuine, FromInitiator

\* A start makes a new run, in which nothing is consumed.
LEMMA StartInv ==
    ASSUME HandshakeInv, NEW u \in Client, Start(u)
    PROVE  HandshakeInv'
<1>0. RunsInv /\ BundlesInv /\ FetchedInv /\ RelayInv /\ ConsumedType
  BY DEF HandshakeInv, TypeInv
<1>1. RunsInv'
  BY <1>0, HandshakeAssumption DEF RunsInv, Start, Runs, Phase
<1>2. BundlesInv'
  <2> DEFINE b == [opks |-> Opk, used |-> {}]
  <2>1. BundleType(b)
    BY DEF BundleType
  <2> HIDE DEF b
  <2> QED BY <1>0, <2>1 DEF RunsInv, BundlesInv, Start, b
<1>3. FetchedInv'
  BY <1>0 DEF RunsInv, FetchedInv, Start
<1>4. RelayInv'
  <2>1. run[u] + 1 \in Runs
    BY <1>0, HandshakeAssumption DEF RunsInv, Start, Runs
  <2> QED BY <1>0, <2>1 DEF RelayInv, Start
<1>5. ConsumedIsUsed'
  <2> SUFFICES ASSUME NEW x \in consumed'
               PROVE  /\ x.run <= run'[x.client]
                      /\ x.run = run'[x.client] /\ phase'[x.client] # "down"
                            => x.opk \in bundle'[x.client].used
    BY DEF ConsumedIsUsed
  <2>1. x \in consumed /\ x.client \in Client /\ x.run \in Nat /\ x.run <= run[x.client]
    BY <1>0, HandshakeAssumption DEF Start, HandshakeInv, ConsumedType, ConsumedIsUsed, Runs
  <2>2. CASE x.client = u
    BY <1>0, <2>1, <2>2 DEF Start, RunsInv
  <2>3. CASE x.client # u
    BY <1>0, <2>1, <2>3 DEF Start, RunsInv, BundlesInv, HandshakeInv, ConsumedIsUsed
  <2> QED BY <2>2, <2>3
<1>6. UNCHANGED <<session, engine, inits, handshakes, consumed>>
  BY DEF Start
<1> QED BY <1>1, <1>2, <1>3, <1>4, <1>5, <1>6, SharedUnchanged DEF HandshakeInv, TypeInv

\* What is published is what the bundle holds.
LEMMA UploadBundleInv ==
    ASSUME HandshakeInv, NEW u \in Client, UploadBundle(u)
    PROVE  HandshakeInv'
<1>0. RunsInv /\ BundlesInv /\ FetchedInv /\ RelayInv /\ ConsumedType
  BY DEF HandshakeInv, TypeInv
<1>1. RunsInv'
  BY <1>0 DEF RunsInv, UploadBundle, Phase
<1>2. BundlesInv' /\ BundleType(bundle[u])
  BY <1>0 DEF RunsInv, BundlesInv, UploadBundle
<1>3. FetchedInv'
  BY <1>0 DEF RunsInv, FetchedInv, UploadBundle
<1>4. RelayInv'
  BY <1>0, <1>2 DEF RelayInv, UploadBundle, BundleType
<1>5. ConsumedIsUsed'
  BY <1>0 DEF UploadBundle, RunsInv, ConsumedType, HandshakeInv, ConsumedIsUsed
<1>6. UNCHANGED <<session, engine, inits, handshakes, consumed>>
  BY DEF UploadBundle
<1> QED BY <1>1, <1>2, <1>3, <1>4, <1>5, <1>6, SharedUnchanged DEF HandshakeInv, TypeInv

\* What is fetched was published.
LEMMA FetchBundleInv ==
    ASSUME HandshakeInv, NEW u \in Client, NEW v \in Client, FetchBundle(u, v)
    PROVE  HandshakeInv'
<1>0. RunsInv /\ BundlesInv /\ FetchedInv /\ RelayInv /\ ConsumedType
  BY DEF HandshakeInv, TypeInv
<1> DEFINE f == [peer |-> v, opks |-> published[v]]
<1>1. /\ fetched' = [fetched EXCEPT ![u] = f]
      /\ phase' = [phase EXCEPT ![u] = IF published[v] = None THEN "legacy" ELSE "fetched"]
  BY DEF FetchBundle
<1>2. f \in Fetched /\ (published[v] # None => f.opks \in SUBSET Opk)
  BY <1>0 DEF RelayInv, Fetched
<1> HIDE DEF f
<1>3. RunsInv' /\ \A w \in Client : phase'[w] = "down" <=> phase[w] = "down"
  BY <1>0, <1>1 DEF RunsInv, FetchBundle, Phase
<1>4. BundlesInv'
  BY <1>0, <1>3 DEF BundlesInv, FetchBundle
<1>5. FetchedInv'
  BY <1>0, <1>1, <1>2 DEF RunsInv, FetchedInv
<1>6. RelayInv'
  BY <1>0 DEF RelayInv, FetchBundle
<1>7. ConsumedIsUsed'
  BY <1>0, <1>3 DEF FetchBundle, ConsumedType, HandshakeInv, ConsumedIsUsed
<1>8. UNCHANGED <<session, engine, inits, handshakes, consumed>>
  BY DEF FetchBundle
<1> QED BY <1>3, <1>4, <1>5, <1>6, <1>7, <1>8, SharedUnchanged DEF HandshakeInv, TypeInv

\* A file that is written and the engine made from it keep what is known of the
\* sessions and engines, when the root key is the client's own or comes from a
\* handshake of the peer.
LEMMA FileAndEngine ==
    ASSUME HandshakeInv, NEW u \in Client, NEW v \in Client, NEW file,
           FromInitiator(u, v, file.root),
           session' = [session EXCEPT ![u][v] = file],
           engine' = [engine EXCEPT ![u] = [peer |-> v, root |-> file.root]],
           handshakes \subseteq handshakes'
    PROVE  SessionTables' /\ SessionsShared' /\ EnginesShared' /\ EngineIsOnDisk'
<1>1. /\ session = [x \in Client |-> [y \in Client |-> session[x][y]]]
      /\ engine = [x \in Client |-> engine[x]]
  BY DEF HandshakeInv, TypeInv, SessionTables
<1>2. \A x, y, k : FromInitiator(x, y, k) => FromInitiator(x, y, k)'
  BY DEF FromInitiator
<1>3. /\ session' = [x \in Client |-> [y \in Client |-> session'[x][y]]]
      /\ session'[u][v] = file
      /\ \A x, y \in Client : x # u \/ y # v => session'[x][y] = session[x][y]
  BY <1>1
<1>4. /\ engine' = [x \in Client |-> engine'[x]]
      /\ engine'[u].peer = v /\ engine'[u].root = file.root
      /\ \A x \in Client \ {u} : engine'[x] = engine[x]
  BY <1>1
<1>5. SessionTables'
  BY <1>3, <1>4 DEF SessionTables
<1>6. FromInitiator(u, v, file.root)'
  BY <1>2
<1>7. SessionsShared'
  <2> SUFFICES ASSUME NEW x \in Client, NEW y \in Client, session'[x][y] # None
               PROVE  FromInitiator(x, y, session[x][y].root)'
    BY DEF SessionsShared
  <2>1. CASE x = u /\ y = v
    BY <1>3, <1>6, <2>1 DEF FromInitiator
  <2>2. CASE x # u \/ y # v
    <3>1. FromInitiator(x, y, session[x][y].root) /\ session'[x][y] = session[x][y]
      BY <1>3, <2>2 DEF HandshakeInv, SessionsShared
    <3> QED BY <3>1 DEF FromInitiator
  <2> QED BY <2>1, <2>2
<1>8. ASSUME NEW x \in Client, engine'[x] # None
      PROVE  /\ engine'[x].peer \in Client
             /\ FromInitiator(x, engine[x].peer, engine[x].root)'
             /\ session'[x][engine'[x].peer].root = engine'[x].root
  <2>1. CASE x = u
    BY <1>3, <1>4, <1>6, <2>1 DEF FromInitiator
  <2>2. CASE x # u
    <3>1. engine'[x] = engine[x] /\ engine[x] # None
      BY <1>4, <1>8, <2>2
    <3>2. /\ engine[x].peer \in Client /\ FromInitiator(x, engine[x].peer, engine[x].root)
          /\ session[x][engine[x].peer].root = engine[x].root
      BY <3>1 DEF HandshakeInv, EnginesShared, EngineIsOnDisk
    <3>3. session'[x][engine[x].peer] = session[x][engine[x].peer]
      BY <1>3, <2>2, <3>2
    <3>4. FromInitiator(x, engine[x].peer, engine[x].root)'
      BY <3>1, <3>2 DEF FromInitiator
    <3> QED BY <3>1, <3>2, <3>3, <3>4
  <2> QED BY <2>1, <2>2
<1>9. EnginesShared' /\ EngineIsOnDisk'
  BY <1>8 DEF EnginesShared, EngineIsOnDisk
<1> QED BY <1>5, <1>7, <1>9

\* OpenSession keeps what is known of the sessions and engines when the root key
\* it is called with is the client's own.
LEMMA OpenSessionShared ==
    ASSUME HandshakeInv, NEW u \in Client, NEW v \in Client, NEW root,
           root.transcript # << >> => root.transcript[1] = ik(u),
           OpenSession(u, v, root), handshakes \subseteq handshakes'
    PROVE  SessionTables' /\ SessionsShared' /\ EnginesShared' /\ EngineIsOnDisk'
<1>1. PICK file :
        /\ session' = [session EXCEPT ![u][v] = file]
        /\ engine' = [engine EXCEPT ![u] = [peer |-> v, root |-> file.root]]
        /\ file = IF session[u][v] = None THEN SavedState(root, NewVersion) ELSE session[u][v]
  BY DEF OpenSession
<1>2. FromInitiator(u, v, file.root)
  <2>1. CASE session[u][v] = None
    <3>1. file.root = root
      BY <1>1, <2>1 DEF SavedState
    <3> QED BY <3>1 DEF FromInitiator
  <2>2. CASE session[u][v] # None
    BY <1>1, <2>2 DEF HandshakeInv, SessionsShared
  <2> QED BY <2>1, <2>2
<1> QED BY <1>1, <1>2, FileAndEngine

\* A client that comes to its session has a bundle and no consumptions of its
\* bundle are forgotten.
LEMMA OpenSessionTypes ==
    ASSUME HandshakeInv, NEW u \in Client, phase[u] # "down",
           phase' = [phase EXCEPT ![u] = "running"],
           fetched' = [fetched EXCEPT ![u] = None],
           UNCHANGED <<run, bundle, consumed, starts>>
    PROVE  /\ RunsInv' /\ BundlesInv' /\ FetchedInv' /\ ConsumedType'
           /\ ConsumedIsUsed' /\ OpkOncePerRun'
<1>0. RunsInv /\ BundlesInv /\ FetchedInv /\ ConsumedType /\ ConsumedIsUsed /\ OpkOncePerRun
  BY DEF HandshakeInv, TypeInv
<1>1. RunsInv' /\ \A w \in Client : phase'[w] = "down" <=> phase[w] = "down"
  BY <1>0 DEF RunsInv, Phase
<1>2. BundlesInv'
  BY <1>0, <1>1 DEF BundlesInv
<1>3. FetchedInv'
  BY <1>0 DEF FetchedInv, RunsInv
<1>4. ConsumedType' /\ OpkOncePerRun'
  BY <1>0 DEF ConsumedType, OpkOncePerRun
<1>5. ConsumedIsUsed'
  BY <1>0, <1>1 DEF ConsumedIsUsed, ConsumedType
<1> QED BY <1>1, <1>2, <1>3, <1>4, <1>5

\* The session_init belongs to the handshake noted in the same step.
LEMMA InitiateInv ==
    ASSUME HandshakeInv, NEW u \in Client, Initiate(u)
    PROVE  HandshakeInv'
<1>0. RunsInv /\ FetchedInv /\ RelayInv /\ InitsGenuine
  BY DEF HandshakeInv, TypeInv
<1>1. PICK v, e, id, root, init :
         /\ v = fetched[u].peer /\ e = eph(u, run[u]) /\ id = FirstOpk(fetched[u].opks)
         /\ root = x3dh_initiator(u, e, v, id)
         /\ init = [from |-> u, identity_dh_pub |-> ik(u), eph_pub |-> e, opk_id_used |-> id]
         /\ handshakes' = handshakes \cup {[from |-> u, to |-> v, root |-> root]}
         /\ inits' = IF phase[v] = "down" THEN inits
                     ELSE [inits EXCEPT ![v] = @ \cup {init}]
         /\ OpenSession(u, v, root)
  BY DEF Initiate
<1>2. v \in Client /\ fetched[u].opks \in SUBSET Opk
  BY <1>0, <1>1 DEF Initiate, FetchedInv, Fetched
<1>3. init \in SessionInit
  <2>1. id \in Opk \cup {None}
    BY <1>1, <1>2, FirstOpkType
  <2>2. e \in EphKey
    BY <1>0, <1>1, RunsBounded DEF EphKey
  <2> QED BY <1>1, <2>1, <2>2 DEF SessionInit
<1>4. /\ inits \in [Client -> SUBSET SessionInit]
      /\ inits' \in [Client -> SUBSET SessionInit]
      /\ \A w \in Client : \A m \in inits'[w] : m \in inits[w] \/ (w = v /\ m = init)
  BY <1>0, <1>1, <1>2, <1>3 DEF RelayInv
<1>5. RelayInv'
  BY <1>0, <1>4 DEF RelayInv, Initiate, Runs
<1>6. InitsGenuine'
  <2> SUFFICES ASSUME NEW w \in Client, NEW m \in inits'[w]
               PROVE  /\ m.identity_dh_pub = ik(m.from)
                      /\ [from |-> m.from, to |-> w,
                          root |-> x3dh_initiator(m.from, m.eph_pub, w, m.opk_id_used)]
                            \in handshakes'
    BY DEF InitsGenuine
  <2>1. CASE m \in inits[w]
    BY <1>0, <1>1, <2>1 DEF InitsGenuine
  <2>2. CASE w = v /\ m = init
    BY <1>1, <2>2
  <2> QED BY <1>4, <2>1, <2>2
<1>7. SessionTables' /\ SessionsShared' /\ EnginesShared' /\ EngineIsOnDisk'
  <2>1. root.transcript[1] = ik(u) /\ handshakes \subseteq handshakes'
    BY <1>1, InitiatorTranscript
  <2> QED BY <1>1, <1>2, <2>1, OpenSessionShared
<1>8. /\ RunsInv' /\ BundlesInv' /\ FetchedInv' /\ ConsumedType'
      /\ ConsumedIsUsed' /\ OpkOncePerRun'
  BY <1>1, OpenSessionTypes DEF Initiate, OpenSession
<1> QED BY <1>5, <1>6, <1>7, <1>8 DEF HandshakeInv, TypeInv

\* A legacy root key has no transcript.
LEMMA LegacySessionInv ==
    ASSUME HandshakeInv, NEW u \in Client, LegacySession(u)
    PROVE  HandshakeInv'
<1>0. RunsInv /\ FetchedInv /\ RelayInv /\ InitsGenuine
  BY DEF HandshakeInv, TypeInv
<1>1. PICK v, root : v = fetched[u].peer /\ root = legacy_root(u, v) /\ OpenSession(u, v, root)
  BY DEF LegacySession
<1>2. v \in Client /\ root.transcript = << >>
  BY <1>0, <1>1 DEF LegacySession, FetchedInv, Fetched, legacy_root
<1>3. RelayInv' /\ InitsGenuine'
  BY <1>0 DEF RelayInv, InitsGenuine, LegacySession, Runs
<1>4. SessionTables' /\ SessionsShared' /\ EnginesShared' /\ EngineIsOnDisk'
  BY <1>1, <1>2, OpenSessionShared DEF LegacySession
<1>5. /\ RunsInv' /\ BundlesInv' /\ FetchedInv' /\ ConsumedType'
      /\ ConsumedIsUsed' /\ OpkOncePerRun'
  BY <1>1, OpenSessionTypes DEF LegacySession, OpenSession
<1> QED BY <1>3, <1>4, <1>5 DEF HandshakeInv, TypeInv

\* handle_session_inits consumes a prekey that was not used in this run.
LEMMA ConsumeInv ==
    ASSUME HandshakeInv, NEW u \in Client, NEW m \in inits[u], HandleSessionInit(u, m)
    PROVE  BundlesInv' /\ ConsumedType' /\ ConsumedIsUsed' /\ OpkOncePerRun'
<1>0. RunsInv /\ BundlesInv /\ RelayInv /\ ConsumedType /\ ConsumedIsUsed /\ OpkOncePerRun
  BY DEF HandshakeInv, TypeInv
<1> DEFINE id == m.opk_id_used
           ok == id = None \/ Consumable(bundle[u], id)
           c  == [client |-> u, opk |-> id, run |-> run[u], eph |-> m.eph_pub]
<1>1. UNCHANGED <<phase, run>>
  BY DEF HandleSessionInit
<1>2. CASE ~ (ok /\ id # None)
  <2>1. UNCHANGED <<bundle, consumed>>
    BY <1>2 DEF HandleSessionInit
  <2> QED BY <1>0, <1>1, <2>1 DEF BundlesInv, ConsumedType, ConsumedIsUsed, OpkOncePerRun, Runs
<1>3. CASE ok /\ id # None
  <2>1. /\ bundle' = [bundle EXCEPT ![u] = Consumed(bundle[u], id)]
        /\ consumed' = consumed \cup {c}
    BY <1>3 DEF HandleSessionInit
  <2>2. m \in SessionInit /\ id \in Opk /\ phase[u] = "running"
    BY <1>0, <1>3 DEF RelayInv, SessionInit, HandleSessionInit
  <2>3. BundleType(bundle[u]) /\ id \notin bundle[u].used
    BY <1>0, <1>3, <2>2 DEF BundlesInv, Consumable
  <2>4. /\ BundleType(Consumed(bundle[u], id))
        /\ Consumed(bundle[u], id).used = bundle[u].used \cup {id}
    BY <2>2, <2>3 DEF BundleType, Consumed
  <2>5. c \in [client : Client, opk : Opk, run : Runs, eph : EphKey]
    BY <1>0, <2>2, RunsBounded DEF SessionInit
  <2>6. c.client = u /\ c.opk = id /\ c.run = run[u]
    OBVIOUS
  <2> HIDE DEF c
  <2>7. /\ \A w \in Client \ {u} : bundle'[w] = bundle[w]
        /\ bundle'[u].used = bundle[u].used \cup {id}
    BY <1>0, <2>1, <2>4 DEF BundlesInv
  <2>8. BundlesInv'
    BY <1>0, <1>1, <2>1, <2>2, <2>4 DEF BundlesInv
  <2>9. ConsumedType'
    BY <1>0, <2>1, <2>5 DEF ConsumedType, Runs
  <2>10. ConsumedIsUsed'
    <3> SUFFICES ASSUME NEW x \in consumed'
                 PROVE  /\ x.run <= run[x.client]
                        /\ x.run = run[x.client] /\ phase[x.client] # "down"
                              => x.opk \in bundle'[x.client].used
      BY <1>1 DEF ConsumedIsUsed
    <3>1. CASE x = c
      BY <1>0, <2>6, <2>7, <3>1 DEF RunsInv
    <3>2. CASE x \in consumed
      <4>1. x.client \in Client
        BY <1>0, <3>2 DEF ConsumedType
      <4> QED BY <1>0, <2>7, <3>2, <4>1 DEF ConsumedIsUsed
    <3> QED BY <2>1, <3>1, <3>2
  <2>11. \A x \in consumed : x.client = u /\ x.run = run[u] => x.opk # id
    BY <1>0, <2>2, <2>3 DEF ConsumedIsUsed
  <2>12. OpkOncePerRun'
    BY <1>0, <2>1, <2>6, <2>11 DEF OpkOncePerRun
  <2> QED BY <2>8, <2>9, <2>10, <2>12
<1> QED BY <1>2, <1>3

\* The root key that handle_session_inits derives is the initiator's.
LEMMA RespondShared ==
    ASSUME HandshakeInv, NEW u \in Client, NEW m \in inits[u], HandleSessionInit(u, m)
    PROVE  SessionTables' /\ SessionsShared' /\ EnginesShared' /\ EngineIsOnDisk'
<1>0. /\ SessionTables /\ SessionsShared /\ EnginesShared /\ EngineIsOnDisk /\ InitsGenuine
      /\ RelayInv
  BY DEF HandshakeInv, TypeInv
<1>1. handshakes' = handshakes
  BY DEF HandleSessionInit
<1>2. CASE UNCHANGED <<session, engine>>
  BY <1>0, <1>1, <1>2 DEF SessionTables, SessionsShared, EnginesShared, EngineIsOnDisk,
                          FromInitiator
<1>3. CASE ~ UNCHANGED <<session, engine>>
  <2> DEFINE v    == m.from
             r    == x3dh_responder(u, m.identity_dh_pub, m.eph_pub, m.opk_id_used)
             file == SavedState(r, NewVersion)
  <2>1. AdoptSession(u, v, r)
    BY <1>3 DEF HandleSessionInit
  <2>2. /\ session' = [session EXCEPT ![u][v] = file]
        /\ engine' = [engine EXCEPT ![u] = [peer |-> v, root |-> r]]
        /\ file.root = r
    BY <1>3, <2>1 DEF AdoptSession, SavedState
  <2>3. v \in Client
    BY <1>0 DEF RelayInv, SessionInit
  <2>4. r = x3dh_initiator(v, m.eph_pub, u, m.opk_id_used)
    <3>1. m.identity_dh_pub = ik(v)
      BY <1>0 DEF InitsGenuine
    <3> QED BY <3>1, SameRoot
  <2>5. FromInitiator(u, v, r)
    BY <1>0, <2>4 DEF InitsGenuine, FromInitiator
  <2> HIDE DEF v, r, file
  <2> QED BY <1>1, <2>2, <2>3, <2>5, FileAndEngine
<1> QED BY <1>2, <1>3

\* handle_session_inits, on both paths.
LEMMA HandleSessionInitInv ==
    ASSUME HandshakeInv, NEW u \in Client, NEW m \in inits[u], HandleSessionInit(u, m)
    PROVE  HandshakeInv'
<1>0. RunsInv /\ FetchedInv /\ RelayInv /\ InitsGenuine
  BY DEF HandshakeInv, TypeInv
<1>1. RunsInv' /\ FetchedInv'
  BY <1>0 DEF HandleSessionInit, RunsInv, FetchedInv, Runs
<1>2. inits' = [inits EXCEPT ![u] = @ \ {m}]
  BY DEF HandleSessionInit
<1>3. RelayInv'
  BY <1>0, <1>2 DEF HandleSessionInit, RelayInv, Runs
<1>4. InitsGenuine'
  <2>1. \A w \in Client : inits'[w] \subseteq inits[w]
    BY <1>0, <1>2 DEF RelayInv
  <2> QED BY <1>0, <2>1 DEF HandleSessionInit, InitsGenuine
<1> QED BY <1>1, <1>3, <1>4, ConsumeInv, RespondShared DEF HandshakeInv, TypeInv

\* A client that is down has consumed nothing in its next run.
LEMMA StopInv ==
    ASSUME HandshakeInv, NEW u \in Client, Stop(u)
    PROVE  HandshakeInv'
<1>0. /\ RunsInv /\ BundlesInv /\ FetchedInv /\ RelayInv /\ ConsumedType /\ SessionTables
      /\ ConsumedIsUsed /\ OpkOncePerRun /\ SessionsShared /\ EnginesShared /\ InitsGenuine
      /\ EngineIsOnDisk
  BY DEF HandshakeInv, TypeInv
<1>1. RunsInv'
  BY <1>0 DEF Stop, RunsInv, Phase, Runs
<1>2. BundlesInv'
  BY <1>0 DEF Stop, RunsInv, BundlesInv
<1>3. FetchedInv'
  BY <1>0 DEF Stop, RunsInv, FetchedInv
<1>4. RelayInv' /\ \A w \in Client : inits'[w] \subseteq inits[w]
  BY <1>0 DEF Stop, RelayInv, Runs
<1>5. InitsGenuine'
  BY <1>0, <1>4 DEF Stop, InitsGenuine
<1>6. ConsumedType' /\ OpkOncePerRun' /\ SessionsShared'
  BY <1>0 DEF Stop, ConsumedType, OpkOncePerRun, SessionsShared, FromInitiator, Runs
<1>7. ConsumedIsUsed'
  BY <1>0 DEF Stop, ConsumedIsUsed, ConsumedType, RunsInv, BundlesInv
<1>8. engine' = [engine EXCEPT ![u] = None] /\ session' = session /\ handshakes' = handshakes
  BY DEF Stop
<1>9. SessionTables'
  BY <1>0, <1>8 DEF SessionTables
<1>10. EnginesShared' /\ EngineIsOnDisk'
  <2>1. ASSUME NEW x \in Client, engine'[x] # None
        PROVE  /\ engine'[x] = engine[x] /\ engine[x].peer \in Client
               /\ FromInitiator(x, engine[x].peer, engine[x].root)
               /\ session'[x][engine[x].peer].root = engine[x].root
    <3>1. engine'[x] = engine[x]
      BY <1>0, <1>8, <2>1 DEF SessionTables
    <3>2. engine[x].peer \in Client /\ FromInitiator(x, engine[x].peer, engine[x].root)
      BY <1>0, <2>1, <3>1 DEF EnginesShared
    <3>3. session[x][engine[x].peer].root = engine[x].root
      BY <1>0, <2>1, <3>1 DEF EngineIsOnDisk
    <3> QED BY <1>8, <3>1, <3>2, <3>3
  <2>2. ASSUME NEW x \in Client, engine'[x] # None
        PROVE  engine'[x].peer \in Client /\ FromInitiator(x, engine[x].peer, engine[x].root)'
    <3>1. FromInitiator(x, engine[x].peer, engine[x].root) /\ engine'[x] = engine[x]
      BY <2>1, <2>2
    <3> QED BY <1>8, <2>1, <2>2, <3>1 DEF FromInitiator
  <2>3. ASSUME NEW x \in Client, engine'[x] # None
        PROVE  session'[x][engine'[x].peer].root = engine'[x].root
    BY <2>1, <2>3
  <2> QED BY <2>2, <2>3 DEF EnginesShared, EngineIsOnDisk
<1> QED BY <1>1, <1>2, <1>3, <1>4, <1>5, <1>6, <1>7, <1>9, <1>10 DEF HandshakeInv, TypeInv

-----------------------------------------------------------------------------
(* The theorems. *)

\* HandshakeInv is inductive.
LEMMA NextInv ==
    ASSUME HandshakeInv, [Next]_vars
    PROVE  HandshakeInv'
<1>1. CASE UNCHANGED vars
  BY <1>1 DEF vars, HandshakeInv, TypeInv, RunsInv, BundlesInv, FetchedInv, RelayInv,
              ConsumedType, SessionTables, ConsumedIsUsed, OpkOncePerRun, SessionsShared,
              EnginesShared, EngineIsOnDisk, FromInitiator, InitsGenuine, Runs
<1>2. CASE Next
  <2> PICK u \in Client :
        \/ Start(u) \/ UploadBundle(u)
        \/ \E v \in Client : FetchBundle(u, v)
        \/ Initiate(u) \/ LegacySession(u) \/ Stop(u)
        \/ \E m \in inits[u] : HandleSessionInit(u, m)
    BY <1>2 DEF Next
  <2> QED BY StartInv, UploadBundleInv, FetchBundleInv, InitiateInv, LegacySessionInv,
             StopInv, HandleSessionInitInv
<1> QED BY <1>1, <1>2

\* The inductive invariant holds in every state.
LEMMA HandshakeInvariant == Spec => []HandshakeInv
  BY InitInv, NextInv, PTL DEF Spec

\* Every state the clients and the relay reach is well typed, and a one-time
\* prekey is either available or used, for any clients, keys and starts.
THEOREM HandshakeTypeCorrect == Spec => []TypeOK
<1>1. HandshakeInv => TypeOK
  <2> SUFFICES ASSUME HandshakeInv PROVE TypeOK
    OBVIOUS
  <2>1. RunsInv /\ BundlesInv /\ FetchedInv /\ RelayInv /\ ConsumedType
    BY DEF HandshakeInv, TypeInv
  <2>2. run \in [Client -> Runs]
    BY <2>1, RunsBounded
  <2>3. \A u \in Client : bundle[u] # None => BundleType(bundle[u])
    BY <2>1 DEF BundlesInv
  <2> QED BY <2>1, <2>2, <2>3 DEF TypeOK, RunsInv, Phase, BundleType, FetchedInv, Fetched,
                                  RelayInv, ConsumedType
<1> QED BY <1>1, HandshakeInvariant, PTL

\* handle_session_inits never consumes a one-time prekey twice in one run of a
\* client, whatever session_inits reach it and in which order.
THEOREM PrekeyConsumedOnce == Spec => []OpkOncePerRun
<1>1. HandshakeInv => OpkOncePerRun
  BY DEF HandshakeInv
<1> QED BY <1>1, HandshakeInvariant, PTL

\* A client that answered a session_init, in this run or an earlier one, has the
\* root key that the initiator derived.
THEOREM ResponderHasInitiatorsRoot == Spec => []ResponderSharesRoot
<1>1. HandshakeInv => ResponderSharesRoot
  BY DEF HandshakeInv, EnginesShared, FromInitiator, ResponderSharesRoot
<1> QED BY <1>1, HandshakeInvariant, PTL

\* A running client uses the session its file holds, also after a handshake whose
\* session could not be saved.
THEOREM SessionInUseIsSaved == Spec => []EngineIsOnDisk
<1>1. HandshakeInv => EngineIsOnDisk
  BY DEF HandshakeInv
<1> QED BY <1>1, HandshakeInvariant, PTL
=============================================================================
