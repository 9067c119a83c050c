------------------------- MODULE SessionStackProofs -------------------------
(***************************************************************************)
(* Safety of the in-memory session stack, for any number of endpoints,     *)
(* sessions, messages, dummies and repeated envelopes.                     *)
(*                                                                         *)
(* All root keys of a session begin with the secret of its two first keys, *)
(* so a message opens only in the session it was made in.  Each end's      *)
(* sending chains have ever longer roots, and a chain that is not the      *)
(* first starts with the secret of a key pair that is newer than anything  *)
(* the peer has sealed, so that no key seals two messages.  While an end   *)
(* has met only the peer's first key, replay cache, fork state and ratchet *)
(* count the same messages.                                                *)
(***************************************************************************)
EXTENDS SessionStack, TLAPS, SequenceTheorems, FiniteSetTheorems, WellFoundedInduction

Roots == Seq(SUBSET OwnedKey)
Chain == [root : Roots, i : Nat]
Skipped == [dh : OwnedKey, n : Nat, mk : Chain]
Message == [dh : OwnedKey, n : Nat, pn : Nat, mk : Chain]
Ratchet ==
    [root_key : Roots, dhs : OwnedKey, dhr : OwnedKey,
     ck_s : Chain \cup {None}, ck_r : Chain \cup {None},
     Ns : Nat, Nr : Nat, PN : Nat, skipped_keys : SUBSET Skipped]
Id == [dh : OwnedKey, n : Nat]
Context ==
    [ratchet : Ratchet, seen : SUBSET Id, highest : SUBSET Id,
     fork : [n : Int, pn : Int, pub : OwnedKey \cup {None}],
     reset : {None, "replay-detected", "fork-detected"}]
Letter ==
    [kind : {"plain", "sealed"}, from : Endpoint, to : Endpoint,
     seal : Roots \cup {None}, m : Message]

\* The secret of the first keys of p and q, and the roots of their first chains.
Secret(p, q) == {FirstKey(p, q), FirstKey(q, p)}
Started(r, p, q) == r \in Roots /\ Len(r) >= 1 /\ r[1] = Secret(p, q)
FirstRoot(p, q) == <<Secret(p, q)>>
SecondRoot(p, q) == <<Secret(p, q), Secret(p, q)>>

\* The root of the chain p sends to q with under its first key.
SendRoot(p, q) == IF <<p, q>> \in Link THEN FirstRoot(p, q) ELSE SecondRoot(p, q)

\* As long as p has met no key of q but the first.
FirstPhase(s, p, q) ==
    /\ s.dhr = FirstKey(q, p) /\ s.PN = 0
    /\ s.ck_s = None => <<p, q>> \notin Link /\ s.Ns = 0 /\ s.root_key = FirstRoot(p, q)
    /\ s.ck_s # None => s.ck_s.root = SendRoot(p, q) /\ s.ck_s.i = s.Ns
    /\ s.ck_r = None => <<p, q>> \in Link /\ s.Nr = 0 /\ s.root_key = FirstRoot(p, q)
    /\ s.ck_r # None => s.ck_r.root = SendRoot(q, p)

\* A sending chain of a later key starts with the secret of that key.
LaterPhase(s) ==
    /\ Len(s.root_key) >= 2
    /\ s.ck_s # None => Len(s.ck_s.root) >= 3 /\ s.ck_s.root[Len(s.ck_s.root)] = {s.dhs, s.dhr}

RatchetInv(s, p, q) ==
    /\ s \in Ratchet
    /\ s.dhs[1] = p /\ s.dhs[2] = q
    /\ Started(s.root_key, p, q)
    /\ s.ck_s # None => Started(s.ck_s.root, p, q) /\ Len(s.ck_s.root) <= Len(s.root_key)
    /\ s.ck_r # None => Started(s.ck_r.root, p, q)
    /\ s.dhs[3] = 0 => FirstPhase(s, p, q)
    /\ s.dhs[3] > 0 => LaterPhase(s)

\* A skipped key is older than the newest message of its chain.
ContextInv(c, p, q) ==
    /\ c \in Context /\ RatchetInv(c.ratchet, p, q)
    /\ IsFiniteSet(c.seen) /\ Cardinality(c.seen) <= MaxEntries
    /\ c.highest \subseteq c.seen
    /\ \A k \in c.ratchet.skipped_keys : \E h \in c.highest : h.dh = k.dh /\ k.n < h.n

TablesInv ==
    /\ session = [p \in Endpoint |-> [q \in PeersOf(p) |-> session[p][q]]]
    /\ opened = [p \in Endpoint |-> [q \in PeersOf(p) |-> opened[p][q]]]
    /\ errors = [p \in Endpoint |-> [q \in PeersOf(p) |-> errors[p][q]]]
    /\ inbox = [p \in Endpoint |-> inbox[p]]
    /\ shown = [p \in Endpoint |-> shown[p]]

SessionsInv ==
    \A p \in Endpoint : \A q \in PeersOf(p) : ContextInv(session[p][q], p, q)

\* A key that some end has generated.
Known(k) ==
    /\ k \in OwnedKey /\ k[2] \in PeersOf(k[1])
    /\ k[3] <= session[k[1]][k[2]].ratchet.dhs[3]

\* A message from p to q.
MessageInv(m, p, q) ==
    /\ m \in Message /\ m.dh[1] = p /\ m.dh[2] = q
    /\ Started(m.mk.root, p, q)
    /\ m.dh[3] = 0 => m.mk = [root |-> SendRoot(p, q), i |-> m.n] /\ m.pn = 0
    /\ m.dh[3] > 0 => /\ Len(m.mk.root) >= 3
                      /\ \E d : Known(d) /\ m.mk.root[Len(m.mk.root)] = {m.dh, d}

\* ... which the ratchet s of p has left behind.
LeftBehind(m, s) ==
    /\ m.dh[3] <= s.dhs[3]
    /\ Len(m.mk.root) <= Len(s.root_key)
    /\ m.dh = s.dhs => s.ck_s # None /\ m.mk.root = s.ck_s.root /\ m.mk.i < s.ck_s.i
    /\ m.dh # s.dhs /\ s.ck_s # None => Len(m.mk.root) < Len(s.ck_s.root)

Letters == {sent[j] : j \in 1..Len(sent)}

LettersInv ==
    /\ sent \in Seq(Letter)
    /\ \A env \in Letters :
         /\ env.to \in PeersOf(env.from)
         /\ MessageInv(env.m, env.from, env.to)
         /\ LeftBehind(env.m, session[env.from][env.to].ratchet)

\* The peer's key is a first key or from a header.
Met(k) == Known(k) /\ (k[3] = 0 \/ \E env \in Letters : env.m.dh = k)

\* The messages under the peer's key are older than the own key.
OlderInv(s, p, q) ==
    \A env \in Letters :
        /\ env.from = q /\ env.to = p /\ env.m.dh = s.dhr /\ env.m.dh[3] > 0
        => s.dhs \notin env.m.mk.root[Len(env.m.mk.root)]

KeysInv ==
    \A p \in Endpoint : \A q \in PeersOf(p) :
        Met(session[p][q].ratchet.dhr) /\ OlderInv(session[p][q].ratchet, p, q)

\* No secret starts a later chain of both ends.
DisjointInv ==
    \A e, f \in Letters :
        e.from = f.to /\ e.to = f.from /\ e.m.dh[3] > 0 /\ f.m.dh[3] > 0 =>
            e.m.mk.root[Len(e.m.mk.root)] # f.m.mk.root[Len(f.m.mk.root)]

\* An envelope on its way is a letter or a dummy.
MailInv ==
    /\ transit \subseteq Letters
    /\ \A p \in Endpoint :
         /\ inbox[p] \in Seq(Letter \cup {Dummy(p)})
         /\ \A j \in 1..Len(inbox[p]) :
              \/ inbox[p][j] \in Letters /\ inbox[p][j].to = p
              \/ inbox[p][j] = Dummy(p)

ShownTypes == \A p \in Endpoint : shown[p] \in Seq([peer : Endpoint, env : Letter])

\* While an end is clean its three counts agree, and all that was accepted was
\* decrypted.
CleanContext(c, errs, p, q) ==
    /\ \A k \in c.seen : k.dh = FirstKey(q, p)
    /\ "SkippedKeyStorageLimitError" \notin errs

InStep(c, done, errs) ==
    /\ c.ratchet.dhs[3] = 0
    /\ c.ratchet.ck_r # None => c.ratchet.ck_r.i = c.ratchet.Nr
    /\ c.seen = {} => c.ratchet.Nr = 0
    /\ c.seen # {} => c.highest # {}
    /\ \A h \in c.highest : c.ratchet.Nr = h.n + 1
    /\ c.fork.n < c.ratchet.Nr /\ c.fork.pn <= 0
    /\ c.seen = {HeaderId(m) : m \in done}
    /\ errs \subseteq {"replayed-or-stale"}

CleanInv ==
    \A p \in Endpoint : \A q \in PeersOf(p) :
        CleanContext(session[p][q], errors[p][q], p, q) =>
            InStep(session[p][q], opened[p][q], errors[p][q])

StackInv ==
    /\ TablesInv /\ SessionsInv /\ LettersInv /\ KeysInv /\ DisjointInv /\ NoKeyReuse
    /\ MailInv /\ ShownTypes /\ ShownFromPeer /\ CleanInv

-----------------------------------------------------------------------------
(* Induction in first-order form. *)

\* A non-empty set of natural numbers has a least element.
LEMMA LeastNatural ==
    ASSUME NEW T \in SUBSET Nat, T # {}
    PROVE  \E x \in T : \A y \in T : x <= y
<1> DEFINE R == OpToRel(<, Nat)
<1>1. IsWellFoundedOn(R, Nat)
  BY NatLessThanWellFounded, Zenon
<1>2. PICK x \in T : \A y \in T : ~(<<y, x>> \in R)
  <2> HIDE DEF R
  <2> QED BY <1>1, WFMin
<1>3. \A a, b \in Nat : <<a, b>> \in R <=> a < b
  BY DEF OpToRel
<1>4. \A y \in T : x \in Nat /\ y \in Nat /\ ~(y < x)
  BY <1>2, <1>3
<1> QED BY <1>4

\* A set with 0 and with every successor holds all of Nat.
LEMMA InductiveSet ==
    ASSUME NEW S \in SUBSET Nat, 0 \in S, \A n \in S : n + 1 \in S
    PROVE  S = Nat
<1>1. SUFFICES ASSUME Nat \ S # {} PROVE FALSE
  OBVIOUS
<1>2. PICK x \in Nat \ S : \A y \in Nat \ S : x <= y
  BY <1>1, LeastNatural
<1>3. x - 1 \in S /\ x # 0
  BY <1>2
<1> QED BY <1>2, <1>3

-----------------------------------------------------------------------------
(* Peers, first keys and roots. *)

\* The two ends of a session.
LEMMA PeerFacts ==
    ASSUME NEW p \in Endpoint, NEW q \in PeersOf(p)
    PROVE  /\ q \in Endpoint /\ p # q /\ p \in PeersOf(q)
           /\ <<p, q>> \in Link <=> <<q, p>> \notin Link
           /\ FirstKey(p, q) \in OwnedKey /\ FirstKey(q, p) \in OwnedKey
           /\ Secret(p, q) = Secret(q, p) /\ Secret(p, q) \in SUBSET OwnedKey
<1>1. q \in Endpoint /\ (<<p, q>> \in Link \/ <<q, p>> \in Link)
  BY DEF PeersOf
<1>2. p # q /\ (<<p, q>> \in Link <=> <<q, p>> \notin Link)
  BY <1>1, StackAssumption
<1>3. p \in PeersOf(q)
  BY <1>1 DEF PeersOf
<1>4. FirstKey(p, q) \in OwnedKey /\ FirstKey(q, p) \in OwnedKey
  BY <1>1 DEF FirstKey, OwnedKey
<1> QED BY <1>1, <1>2, <1>3, <1>4 DEF Secret

\* The secret of the first keys names the session.
LEMMA SecretNames ==
    ASSUME NEW p, NEW q, NEW a, NEW b, Secret(p, q) = Secret(a, b)
    PROVE  (p = a /\ q = b) \/ (p = b /\ q = a)
<1>1. FirstKey(p, q) \in {FirstKey(a, b), FirstKey(b, a)}
  BY DEF Secret
<1> QED BY <1>1 DEF FirstKey

\* A root with one more secret.
LEMMA LongerRoot ==
    ASSUME NEW p \in Endpoint, NEW q \in PeersOf(p), NEW r, Started(r, p, q),
           NEW e \in SUBSET OwnedKey
    PROVE  /\ Started(Append(r, e), p, q) /\ Len(r) \in Nat /\ Len(r) >= 1
           /\ Len(Append(r, e)) = Len(r) + 1 /\ Append(r, e)[Len(Append(r, e))] = e
<1>1. r \in Seq(SUBSET OwnedKey)
  BY DEF Started, Roots
<1>2. /\ Append(r, e) \in Seq(SUBSET OwnedKey) /\ Len(Append(r, e)) = Len(r) + 1
      /\ \A i \in 1..Len(r) : Append(r, e)[i] = r[i]
      /\ Append(r, e)[Len(r) + 1] = e
  BY <1>1, AppendProperties
<1>3. Len(r) \in Nat /\ 1 \in 1..Len(r)
  BY <1>1, LenProperties DEF Started
<1> QED BY <1>2, <1>3 DEF Started, Roots

\* The roots of the first chains.
LEMMA FirstRoots ==
    ASSUME NEW p \in Endpoint, NEW q \in PeersOf(p)
    PROVE  /\ Started(FirstRoot(p, q), p, q) /\ Len(FirstRoot(p, q)) = 1
           /\ Started(SecondRoot(p, q), p, q) /\ Len(SecondRoot(p, q)) = 2
           /\ FirstRoot(p, q) = FirstRoot(q, p) /\ SecondRoot(p, q) = SecondRoot(q, p)
           /\ Append(<< >>, Secret(p, q)) = FirstRoot(p, q)
           /\ Append(FirstRoot(p, q), Secret(p, q)) = SecondRoot(p, q)
           /\ Started(SendRoot(p, q), p, q) /\ Len(SendRoot(p, q)) \in 1..2
           /\ Len(SendRoot(p, q)) # Len(SendRoot(q, p))
<1>1. PICK x : x = Secret(p, q)
  OBVIOUS
<1>2. x \in SUBSET OwnedKey /\ x = Secret(q, p)
  BY <1>1, PeerFacts
<1>3. <<x>> \in Seq(SUBSET OwnedKey) /\ Len(<<x>>) = 1 /\ <<x>>[1] = x
  BY <1>2
<1>4. <<x, x>> \in Seq(SUBSET OwnedKey) /\ Len(<<x, x>>) = 2 /\ <<x, x>>[1] = x
  BY <1>2
<1>5. Append(<< >>, x) = <<x>> /\ Append(<<x>>, x) = <<x, x>>
  <2>1. << >> \in Seq(SUBSET OwnedKey) /\ Len(<< >>) = 0
    OBVIOUS
  <2>2. /\ Append(<< >>, x) \in Seq(SUBSET OwnedKey) /\ Len(Append(<< >>, x)) = 1
        /\ Append(<< >>, x)[1] = x
    BY <1>2, <2>1, AppendProperties
  <2>3. /\ Append(<<x>>, x) \in Seq(SUBSET OwnedKey) /\ Len(Append(<<x>>, x)) = 2
        /\ Append(<<x>>, x)[1] = x /\ Append(<<x>>, x)[2] = x
    BY <1>2, <1>3, AppendProperties
  <2>4. <<x, x>>[2] = x
    OBVIOUS
  <2>5. \A i \in 1..1 : Append(<< >>, x)[i] = <<x>>[i]
    BY <2>2, <1>3
  <2>6. \A i \in 1..2 : Append(<<x>>, x)[i] = <<x, x>>[i]
    BY <2>3, <2>4, <1>4
  <2> QED BY <1>3, <1>4, <2>2, <2>3, <2>5, <2>6, SeqEqual
<1>6. /\ Started(FirstRoot(p, q), p, q) /\ Len(FirstRoot(p, q)) = 1
      /\ Started(SecondRoot(p, q), p, q) /\ Len(SecondRoot(p, q)) = 2
  BY <1>1, <1>3, <1>4 DEF FirstRoot, SecondRoot, Started, Roots
<1>7. /\ FirstRoot(p, q) = FirstRoot(q, p) /\ SecondRoot(p, q) = SecondRoot(q, p)
      /\ Append(<< >>, Secret(p, q)) = FirstRoot(p, q)
      /\ Append(FirstRoot(p, q), Secret(p, q)) = SecondRoot(p, q)
  BY <1>1, <1>2, <1>5 DEF FirstRoot, SecondRoot
<1>8. <<p, q>> \in Link <=> <<q, p>> \notin Link
  BY PeerFacts
<1> QED BY <1>6, <1>7, <1>8 DEF SendRoot

\* The next key pair.
LEMMA FreshKeys ==
    ASSUME NEW k \in OwnedKey
    PROVE  /\ FreshKey(k) \in OwnedKey /\ FreshKey(k)[1] = k[1] /\ FreshKey(k)[2] = k[2]
           /\ FreshKey(k)[3] = k[3] + 1 /\ k[3] \in Nat
BY DEF FreshKey, OwnedKey

-----------------------------------------------------------------------------
(* encrypt *)

\* The types of a ratchet's parts.
LEMMA RatchetParts ==
    ASSUME NEW s \in Ratchet
    PROVE  /\ s.root_key \in Roots /\ s.dhs \in OwnedKey /\ s.dhr \in OwnedKey
           /\ s.ck_s # None => s.ck_s \in Chain
           /\ s.ck_r # None => s.ck_r \in Chain
           /\ s.Ns \in Nat /\ s.Nr \in Nat /\ s.PN \in Nat /\ s.skipped_keys \in SUBSET Skipped
           /\ s.dhs[3] \in Nat /\ s.dhr # None
<1>1. s.dhs \in OwnedKey /\ s.dhr \in OwnedKey
  BY DEF Ratchet
<1>2. s.dhs[3] \in Nat /\ s.dhr # None
  BY <1>1, StackAssumption DEF OwnedKey
<1> QED BY <1>2 DEF Ratchet

IsRatchet(s) ==
    s = [root_key |-> s.root_key, dhs |-> s.dhs, dhr |-> s.dhr, ck_s |-> s.ck_s,
         ck_r |-> s.ck_r, Ns |-> s.Ns, Nr |-> s.Nr, PN |-> s.PN, skipped_keys |-> s.skipped_keys]

\* ... and a ratchet from its parts.
LEMMA RatchetMade ==
    ASSUME NEW s, IsRatchet(s),
           s.root_key \in Roots, s.dhs \in OwnedKey, s.dhr \in OwnedKey,
           s.ck_s # None => s.ck_s \in Chain,
           s.ck_r # None => s.ck_r \in Chain,
           s.Ns \in Nat, s.Nr \in Nat, s.PN \in Nat, s.skipped_keys \in SUBSET Skipped
    PROVE  s \in Ratchet
BY DEF IsRatchet, Ratchet

\* A chain key as a record.
LEMMA ChainFields ==
    ASSUME NEW ck \in Chain
    PROVE  /\ ck.root \in Roots /\ ck.i \in Nat /\ ck # None
           /\ kdf_chain(ck).mk = ck
           /\ kdf_chain(ck).next \in Chain
           /\ kdf_chain(ck).next.root = ck.root /\ kdf_chain(ck).next.i = ck.i + 1
           /\ kdf_chain(ck).next # None
<1>1. ck.root \in Roots /\ ck.i \in Nat
  BY DEF Chain
<1>2. \A c \in Chain : c # None
  BY StackAssumption DEF Chain, Roots
<1>3. /\ kdf_chain(ck).next \in Chain
      /\ kdf_chain(ck).next.root = ck.root /\ kdf_chain(ck).next.i = ck.i + 1
  BY <1>1 DEF kdf_chain, Chain
<1> QED BY <1>1, <1>2, <1>3 DEF kdf_chain

Derived(kdf, r, e, p, q) ==
    /\ kdf.root = Append(r, e) /\ kdf.root \in Roots
    /\ kdf.chain \in Chain /\ kdf.chain # None
    /\ kdf.chain.root = kdf.root /\ kdf.chain.i = 0
    /\ Started(kdf.root, p, q) /\ Len(r) \in Nat /\ Len(r) >= 1
    /\ Len(kdf.root) = Len(r) + 1 /\ kdf.root[Len(kdf.root)] = e

\* kdf_root with two keys of endpoints.
LEMMA KdfRoot ==
    ASSUME NEW p \in Endpoint, NEW q \in PeersOf(p), NEW r, Started(r, p, q),
           NEW a \in OwnedKey, NEW b \in OwnedKey
    PROVE  Derived(kdf_root(r, a, b), r, {a, b}, p, q)
<1> PICK e : e = {a, b}
  OBVIOUS
<1>0. e \in SUBSET OwnedKey
  OBVIOUS
<1>1. /\ Started(Append(r, e), p, q) /\ Len(r) \in Nat /\ Len(r) >= 1
      /\ Len(Append(r, e)) = Len(r) + 1 /\ Append(r, e)[Len(Append(r, e))] = e
  BY <1>0, LongerRoot
<1>2. /\ kdf_root(r, a, b).root = Append(r, e)
      /\ kdf_root(r, a, b).chain = [root |-> Append(r, e), i |-> 0]
  BY DEF kdf_root
<1>3. kdf_root(r, a, b).chain \in Chain /\ Append(r, e) \in Roots
  BY <1>1, <1>2 DEF Chain, Started
<1>4. kdf_root(r, a, b).chain # None
  BY <1>3, ChainFields
<1> QED BY <1>1, <1>2, <1>3, <1>4 DEF Derived

SameReceiver(s, t) ==
    /\ t.dhs = s.dhs /\ t.dhr = s.dhr /\ t.ck_r = s.ck_r /\ t.Nr = s.Nr /\ t.PN = s.PN
    /\ t.skipped_keys = s.skipped_keys

\* Before encrypt there is a chain to send with, the newest of the session if
\* it had to be made.
LEMMA ReadyChain ==
    ASSUME NEW p \in Endpoint, NEW q \in PeersOf(p), NEW s, RatchetInv(s, p, q)
    PROVE  /\ RatchetInv(ReadyToSend(s), p, q) /\ ReadyToSend(s).ck_s # None
           /\ SameReceiver(s, ReadyToSend(s))
           /\ s.ck_s # None => ReadyToSend(s) = s
           /\ s.ck_s = None => Len(ReadyToSend(s).ck_s.root) = Len(s.root_key) + 1
           /\ Len(s.root_key) \in Nat /\ Len(s.root_key) <= Len(ReadyToSend(s).root_key)
<1>1. s \in Ratchet /\ Started(s.root_key, p, q)
  BY DEF RatchetInv
<1>2. /\ s.dhs \in OwnedKey /\ s.dhr \in OwnedKey /\ s.dhr # None /\ s.dhs[3] \in Nat
      /\ s.root_key \in Roots
  BY <1>1, RatchetParts
<1>3. Len(s.root_key) \in Nat
  BY <1>2, LenProperties DEF Roots
<1>4. CASE s.ck_s # None
  BY <1>3, <1>4 DEF ReadyToSend, SameReceiver
<1>5. CASE s.ck_s = None
  <2> PICK e : e = {s.dhs, s.dhr}
    OBVIOUS
  <2> PICK kdf : kdf = kdf_root(s.root_key, s.dhs, s.dhr)
    OBVIOUS
  <2>0. Derived(kdf, s.root_key, e, p, q)
    BY <1>1, <1>2, KdfRoot
  <2> PICK a : a = kdf.root
    OBVIOUS
  <2> PICK ck : ck = kdf.chain
    OBVIOUS
  <2>1. /\ ck \in Chain /\ ck # None /\ a \in Roots /\ ck.root = a /\ ck.i = 0
        /\ a = Append(s.root_key, e)
    BY <2>0 DEF Derived
  <2>2. /\ Started(a, p, q) /\ Len(a) = Len(s.root_key) + 1 /\ a[Len(a)] = e
        /\ Len(s.root_key) >= 1
    BY <2>0 DEF Derived
  <2> PICK t : t = ReadyToSend(s)
    OBVIOUS
  <2>3. t = [s EXCEPT !.root_key = a, !.ck_s = ck, !.Ns = 0]
    BY <1>2, <1>5 DEF ReadyToSend, _dh_ratchet_step
  <2>5. /\ t.root_key = a /\ t.ck_s = ck /\ t.Ns = 0 /\ SameReceiver(s, t) /\ IsRatchet(t)
    BY <1>1, <2>3 DEF Ratchet, SameReceiver, IsRatchet
  <2>4. t \in Ratchet
    <3>1. /\ s.dhs \in OwnedKey /\ s.dhr \in OwnedKey /\ (s.ck_r # None => s.ck_r \in Chain)
          /\ s.Nr \in Nat /\ s.PN \in Nat /\ s.skipped_keys \in SUBSET Skipped
      BY <1>1, RatchetParts
    <3>2. /\ t.dhs \in OwnedKey /\ t.dhr \in OwnedKey /\ (t.ck_r # None => t.ck_r \in Chain)
          /\ t.Nr \in Nat /\ t.PN \in Nat /\ t.skipped_keys \in SUBSET Skipped
      BY <2>5, <3>1 DEF SameReceiver
    <3>3. t.Ns \in Nat /\ t.root_key \in Roots /\ t.ck_s \in Chain
      BY <2>1, <2>5
    <3> QED BY <2>5, <3>2, <3>3, RatchetMade
  <2>6. t.dhs[3] = 0 => FirstPhase(t, p, q)
    <3> SUFFICES ASSUME s.dhs[3] = 0 PROVE FirstPhase(t, p, q)
      BY <2>5 DEF SameReceiver
    <3>1. FirstPhase(s, p, q) /\ s.dhs[1] = p /\ s.dhs[2] = q
      BY DEF RatchetInv
    <3>2. s.dhr = FirstKey(q, p) /\ s.root_key = FirstRoot(p, q) /\ <<p, q>> \notin Link
          /\ s.ck_r # None
      BY <1>5, <3>1 DEF FirstPhase
    <3>3. s.dhs = FirstKey(p, q)
      BY <1>2, <3>1 DEF FirstKey, OwnedKey
    <3>4. {s.dhs, s.dhr} = Secret(p, q)
      BY <3>2, <3>3 DEF Secret
    <3>5. a = SendRoot(p, q)
      <4>1. a = Append(FirstRoot(p, q), Secret(p, q))
        BY <2>1, <3>2, <3>4
      <4> QED BY <3>2, <4>1, FirstRoots DEF SendRoot
    <3> QED BY <2>1, <2>5, <3>1, <3>2, <3>5 DEF FirstPhase, SameReceiver
  <2>7. t.dhs[3] > 0 => LaterPhase(t)
    <3> SUFFICES ASSUME s.dhs[3] > 0 PROVE LaterPhase(t)
      BY <2>5 DEF SameReceiver
    <3>1. Len(s.root_key) >= 2
      BY DEF RatchetInv, LaterPhase
    <3> QED BY <1>3, <2>1, <2>2, <2>5, <3>1 DEF LaterPhase, SameReceiver
  <2>8. RatchetInv(t, p, q)
    <3>1. s.dhs[1] = p /\ s.dhs[2] = q /\ (s.ck_r # None => Started(s.ck_r.root, p, q))
      BY DEF RatchetInv
    <3>2. Len(ck.root) <= Len(a)
      BY <1>3, <2>1, <2>2
    <3> QED BY <2>1, <2>2, <2>4, <2>5, <2>6, <2>7, <3>1, <3>2 DEF RatchetInv, SameReceiver
  <2> QED BY <1>3, <1>5, <2>1, <2>2, <2>5, <2>8
<1> QED BY <1>4, <1>5

\* What encrypt makes of the ratchet and of the message.
LEMMA EncryptRatchet ==
    ASSUME NEW p \in Endpoint, NEW q \in PeersOf(p), NEW s, RatchetInv(s, p, q)
    PROVE  LET t == EncryptedState(s)
               m == Encrypted(s)
           IN  /\ RatchetInv(t, p, q) /\ SameReceiver(s, t)
               /\ Len(s.root_key) \in Nat /\ Len(s.root_key) <= Len(t.root_key)
               /\ m \in Message /\ m.dh = s.dhs /\ Started(m.mk.root, p, q)
               /\ t.ck_s # None /\ t.ck_s.root = m.mk.root /\ t.ck_s.i = m.mk.i + 1
               /\ s.ck_s # None => m.mk = s.ck_s
               /\ s.ck_s = None => Len(m.mk.root) = Len(s.root_key) + 1
               /\ s.dhs[3] = 0 => m.mk = [root |-> SendRoot(p, q), i |-> m.n] /\ m.pn = 0
               /\ s.dhs[3] > 0 => /\ Len(m.mk.root) >= 3
                                  /\ m.mk.root[Len(m.mk.root)] = {s.dhs, s.dhr}
<1> PICK r : r = ReadyToSend(s)
  OBVIOUS
<1> PICK t : t = EncryptedState(s)
  OBVIOUS
<1> PICK m : m = Encrypted(s)
  OBVIOUS
<1>1. /\ RatchetInv(r, p, q) /\ r.ck_s # None /\ SameReceiver(s, r)
      /\ s.ck_s # None => r = s
      /\ s.ck_s = None => Len(r.ck_s.root) = Len(s.root_key) + 1
      /\ Len(s.root_key) \in Nat /\ Len(s.root_key) <= Len(r.root_key)
  BY ReadyChain
<1>2. r \in Ratchet
  BY <1>1 DEF RatchetInv
<1>3. /\ r.ck_s \in Chain /\ r.dhs \in OwnedKey /\ r.dhs[3] \in Nat
      /\ r.Ns \in Nat /\ r.PN \in Nat
  BY <1>1, <1>2, RatchetParts
<1> PICK next : next = kdf_chain(r.ck_s).next
  OBVIOUS
<1>4. /\ kdf_chain(r.ck_s).mk = r.ck_s /\ next \in Chain /\ next # None
      /\ next.root = r.ck_s.root /\ next.i = r.ck_s.i + 1
  BY <1>3, ChainFields
<1>5. t = [r EXCEPT !.ck_s = next, !.Ns = r.Ns + 1]
  BY DEF EncryptedState
<1>6. m = [dh |-> r.dhs, n |-> r.Ns, pn |-> r.PN, mk |-> r.ck_s]
  BY <1>4 DEF Encrypted
<1>8. /\ t.root_key = r.root_key /\ t.ck_s = next /\ t.Ns = r.Ns + 1 /\ SameReceiver(r, t)
      /\ IsRatchet(t)
  BY <1>2, <1>5 DEF Ratchet, SameReceiver, IsRatchet
<1>7. t \in Ratchet
  BY <1>2, <1>3, <1>4, <1>8, RatchetParts, RatchetMade DEF SameReceiver
<1>9. m \in Message /\ m.dh = r.dhs /\ m.n = r.Ns /\ m.pn = r.PN /\ m.mk = r.ck_s
  BY <1>3, <1>6 DEF Message
<1>10. SameReceiver(s, t) /\ t.dhs = r.dhs /\ r.dhs = s.dhs /\ r.dhr = s.dhr
  BY <1>1, <1>8 DEF SameReceiver
<1>11. /\ Started(r.ck_s.root, p, q) /\ Len(r.ck_s.root) <= Len(r.root_key)
       /\ Started(r.root_key, p, q) /\ (r.ck_r # None => Started(r.ck_r.root, p, q))
       /\ r.dhs[1] = p /\ r.dhs[2] = q
  BY <1>1 DEF RatchetInv
<1>12. r.dhs[3] = 0 => FirstPhase(t, p, q) /\ r.ck_s.root = SendRoot(p, q) /\ r.ck_s.i = r.Ns /\ r.PN = 0
  <2> SUFFICES ASSUME r.dhs[3] = 0
               PROVE  FirstPhase(t, p, q) /\ r.ck_s.root = SendRoot(p, q) /\ r.ck_s.i = r.Ns /\ r.PN = 0
    OBVIOUS
  <2>1. FirstPhase(r, p, q)
    BY <1>1 DEF RatchetInv
  <2>2. r.ck_s.root = SendRoot(p, q) /\ r.ck_s.i = r.Ns /\ r.PN = 0
    BY <1>1, <2>1 DEF FirstPhase
  <2>3. t.dhr = r.dhr /\ t.PN = r.PN /\ t.ck_r = r.ck_r /\ t.Nr = r.Nr
    BY <1>8 DEF SameReceiver
  <2>4. FirstPhase(t, p, q)
    BY <1>4, <1>8, <2>1, <2>2, <2>3 DEF FirstPhase
  <2> QED BY <2>2, <2>4
<1>13. r.dhs[3] > 0 => /\ LaterPhase(t) /\ Len(r.ck_s.root) >= 3
                       /\ r.ck_s.root[Len(r.ck_s.root)] = {r.dhs, r.dhr}
  <2> SUFFICES ASSUME r.dhs[3] > 0
               PROVE  /\ LaterPhase(t) /\ Len(r.ck_s.root) >= 3
                      /\ r.ck_s.root[Len(r.ck_s.root)] = {r.dhs, r.dhr}
    OBVIOUS
  <2>1. LaterPhase(r)
    BY <1>1 DEF RatchetInv
  <2> QED BY <1>1, <1>4, <1>8, <2>1 DEF LaterPhase, SameReceiver
<1>14. RatchetInv(t, p, q)
  <2>1. t.ck_s # None => Started(t.ck_s.root, p, q) /\ Len(t.ck_s.root) <= Len(t.root_key)
    BY <1>4, <1>8, <1>11
  <2>2. t.ck_r # None => Started(t.ck_r.root, p, q)
    BY <1>8, <1>11 DEF SameReceiver
  <2> QED BY <1>7, <1>8, <1>10, <1>11, <1>12, <1>13, <2>1, <2>2 DEF RatchetInv
<1>15. s.dhs[3] = 0 => m.mk = [root |-> SendRoot(p, q), i |-> m.n] /\ m.pn = 0
  <2>1. r.ck_s = [root |-> r.ck_s.root, i |-> r.ck_s.i]
    BY <1>3 DEF Chain
  <2> QED BY <1>9, <1>10, <1>12, <2>1
<1>16. s.dhs[3] > 0 => Len(m.mk.root) >= 3 /\ m.mk.root[Len(m.mk.root)] = {s.dhs, s.dhr}
  BY <1>9, <1>10, <1>13
<1>17. /\ t.ck_s # None /\ t.ck_s.root = m.mk.root /\ t.ck_s.i = m.mk.i + 1
       /\ Started(m.mk.root, p, q) /\ m.dh = s.dhs
  BY <1>4, <1>8, <1>9, <1>10, <1>11
<1>18. Len(s.root_key) <= Len(t.root_key)
  BY <1>1, <1>8
<1> QED BY <1>1, <1>9, <1>10, <1>14, <1>15, <1>16, <1>17, <1>18

-----------------------------------------------------------------------------
(* _skip_message_keys *)

SameSender(s, t) ==
    /\ t.root_key = s.root_key /\ t.dhs = s.dhs /\ t.dhr = s.dhr /\ t.ck_s = s.ck_s
    /\ t.Ns = s.Ns /\ t.PN = s.PN

\* Every stored id is still stored.
IdsKept(s, t) ==
    \A k \in s.skipped_keys : \E l \in t.skipped_keys : l.dh = k.dh /\ l.n = k.n

\* The keys that were added are numbered from s.Nr and below n.
AddedBelow(s, t, n) ==
    \A k \in t.skipped_keys :
        k \in s.skipped_keys \/ (k.dh = s.dhr /\ k.n < n)

\* What k turns of the loop make of s.
Skipping(s, o, k) ==
    /\ o.state \in Ratchet /\ SameSender(s, o.state)
    /\ o.state.ck_r # None /\ o.state.ck_r.root = s.ck_r.root
    /\ IdsKept(s, o.state) /\ AddedBelow(s, o.state, s.Nr + k)
    /\ o.result \in {"ok", "SkippedKeyStorageLimitError"}
    /\ o.result = "ok" => o.state.Nr = s.Nr + k /\ o.state.ck_r.i = s.ck_r.i + k

\* One turn of the loop.
LEMMA SkipOneTurn ==
    ASSUME NEW s \in Ratchet, s.ck_r # None
    PROVE  Skipping(s, SkipOne(s), 1)
<1>1. /\ s.ck_r \in Chain /\ s.Nr \in Nat /\ s.dhr \in OwnedKey /\ s.skipped_keys \in SUBSET Skipped
  BY RatchetParts
<1> PICK next : next = kdf_chain(s.ck_r).next
  OBVIOUS
<1>2. /\ kdf_chain(s.ck_r).mk = s.ck_r /\ next \in Chain /\ next # None
      /\ next.root = s.ck_r.root /\ next.i = s.ck_r.i + 1
  BY <1>1, ChainFields
<1>3. CASE Cardinality(s.skipped_keys) >= MaxSkippedKeys
  <2> PICK t : t = [s EXCEPT !.ck_r = next]
    OBVIOUS
  <2>1. SkipOne(s) = Outcome(t, "SkippedKeyStorageLimitError")
    BY <1>3 DEF SkipOne
  <2>2. /\ t \in Ratchet /\ SameSender(s, t) /\ t.ck_r = next /\ t.skipped_keys = s.skipped_keys
    BY <1>2 DEF Ratchet, SameSender
  <2>3. SkipOne(s).state = t /\ SkipOne(s).result = "SkippedKeyStorageLimitError"
    BY <2>1 DEF Outcome
  <2> QED BY <1>2, <2>2, <2>3 DEF Skipping, IdsKept, AddedBelow
<1>4. CASE ~(Cardinality(s.skipped_keys) >= MaxSkippedKeys)
  <2> PICK new : new = [dh |-> s.dhr, n |-> s.Nr, mk |-> s.ck_r]
    OBVIOUS
  <2> PICK keys : keys = (s.skipped_keys \ SkippedFor(s, [dh |-> s.dhr, n |-> s.Nr])) \cup {new}
    OBVIOUS
  <2> PICK t : t = [s EXCEPT !.ck_r = next, !.skipped_keys = keys, !.Nr = s.Nr + 1]
    OBVIOUS
  <2>1. SkipOne(s) = Outcome(t, "ok")
    BY <1>2, <1>4 DEF SkipOne
  <2>2. new \in Skipped /\ new.dh = s.dhr /\ new.n = s.Nr
    BY <1>1 DEF Skipped
  <2>3. keys \in SUBSET Skipped
    BY <1>1, <2>2
  <2>4. /\ SameSender(s, t) /\ t.ck_r = next /\ t.skipped_keys = keys /\ t.Nr = s.Nr + 1
        /\ IsRatchet(t)
    BY DEF Ratchet, SameSender, IsRatchet
  <2>5. t \in Ratchet
    <3>1. /\ s.root_key \in Roots /\ s.dhs \in OwnedKey /\ (s.ck_s # None => s.ck_s \in Chain)
          /\ s.Ns \in Nat /\ s.PN \in Nat
      BY RatchetParts
    <3>2. /\ t.root_key \in Roots /\ t.dhs \in OwnedKey /\ (t.ck_s # None => t.ck_s \in Chain)
          /\ t.Ns \in Nat /\ t.PN \in Nat /\ t.dhr \in OwnedKey
      BY <1>1, <2>4, <3>1 DEF SameSender
    <3>3. t.Nr \in Nat /\ t.ck_r \in Chain /\ t.skipped_keys \in SUBSET Skipped
      BY <1>1, <1>2, <2>3, <2>4
    <3> QED BY <2>4, <3>2, <3>3, RatchetMade
  <2>6. SkipOne(s).state = t /\ SkipOne(s).result = "ok"
    BY <2>1 DEF Outcome
  <2>7. IdsKept(s, t)
    <3> SUFFICES ASSUME NEW k \in s.skipped_keys
                 PROVE  \E l \in keys : l.dh = k.dh /\ l.n = k.n
      BY <2>4 DEF IdsKept
    <3>1. CASE k.dh = s.dhr /\ k.n = s.Nr
      BY <2>2, <3>1
    <3>2. CASE ~(k.dh = s.dhr /\ k.n = s.Nr)
      <4>1. k \in keys
        BY <3>2 DEF SkippedFor
      <4> QED BY <4>1
    <3> QED BY <3>1, <3>2
  <2>8. AddedBelow(s, t, s.Nr + 1)
    BY <1>1, <2>2, <2>4 DEF AddedBelow
  <2> QED BY <1>2, <2>4, <2>5, <2>6, <2>7, <2>8 DEF Skipping
<1> QED BY <1>3, <1>4

\* Turns follow on each other.
LEMMA SkipMore ==
    ASSUME NEW s \in Ratchet, s.ck_r # None, NEW o, NEW k \in Nat, Skipping(s, o, k),
           NEW x, IF o.result # "ok" THEN x = o ELSE Skipping(o.state, x, 1)
    PROVE  Skipping(s, x, k + 1)
<1>1. s.Nr \in Nat /\ s.ck_r \in Chain /\ s.ck_r.i \in Nat
  BY RatchetParts, ChainFields
<1> PICK t : t = o.state
  OBVIOUS
<1>2. /\ t \in Ratchet /\ SameSender(s, t) /\ t.ck_r # None /\ t.ck_r.root = s.ck_r.root
      /\ IdsKept(s, t) /\ AddedBelow(s, t, s.Nr + k)
      /\ o.result \in {"ok", "SkippedKeyStorageLimitError"}
      /\ o.result = "ok" => t.Nr = s.Nr + k /\ t.ck_r.i = s.ck_r.i + k
  BY DEF Skipping
<1>3. CASE o.result # "ok"
  <2>1. \A j \in t.skipped_keys : j.n \in Nat
    BY <1>2, RatchetParts DEF Skipped
  <2>2. AddedBelow(s, t, s.Nr + (k + 1))
    BY <1>1, <1>2, <2>1 DEF AddedBelow
  <2> QED BY <1>2, <1>3, <2>2 DEF Skipping
<1>4. CASE o.result = "ok"
  <2> PICK u : u = x.state
    OBVIOUS
  <2>1. /\ u \in Ratchet /\ SameSender(t, u) /\ u.ck_r # None /\ u.ck_r.root = t.ck_r.root
        /\ IdsKept(t, u) /\ AddedBelow(t, u, t.Nr + 1)
        /\ x.result \in {"ok", "SkippedKeyStorageLimitError"}
        /\ x.result = "ok" => u.Nr = t.Nr + 1 /\ u.ck_r.i = t.ck_r.i + 1
    BY <1>4 DEF Skipping
  <2>2. SameSender(s, u) /\ u.ck_r.root = s.ck_r.root
    BY <1>2, <2>1 DEF SameSender
  <2>3. IdsKept(s, u)
    <3> SUFFICES ASSUME NEW a \in s.skipped_keys
                 PROVE  \E c \in u.skipped_keys : c.dh = a.dh /\ c.n = a.n
      BY DEF IdsKept
    <3>1. PICK b \in t.skipped_keys : b.dh = a.dh /\ b.n = a.n
      BY <1>2 DEF IdsKept
    <3>2. PICK c \in u.skipped_keys : c.dh = b.dh /\ c.n = b.n
      BY <2>1 DEF IdsKept
    <3> QED BY <3>1, <3>2
  <2>4. AddedBelow(s, u, s.Nr + (k + 1))
    <3>1. \A j \in u.skipped_keys : j.n \in Nat
      BY <2>1, RatchetParts DEF Skipped
    <3>2. t.dhr = s.dhr /\ t.Nr + 1 = s.Nr + (k + 1)
      BY <1>1, <1>2, <1>4 DEF SameSender
    <3> QED BY <1>1, <1>2, <2>1, <3>1, <3>2 DEF AddedBelow
  <2>5. x.result = "ok" => u.Nr = s.Nr + (k + 1) /\ u.ck_r.i = s.ck_r.i + (k + 1)
    BY <1>1, <1>2, <1>4, <2>1
  <2> QED BY <2>1, <2>2, <2>3, <2>4, <2>5 DEF Skipping
<1> QED BY <1>3, <1>4

SkipTurn(o) == IF o.result # "ok" THEN o ELSE SkipOne(o.state)

IsSkipRun(after, s, k) ==
    after = [j \in 0..k |-> IF j = 0 THEN Outcome(s, "ok") ELSE SkipTurn(after[j - 1])]

\* The recursive function of _skip_message_keys is well defined.
LEMMA SkipRunExists ==
    ASSUME NEW s, NEW k \in Nat
    PROVE  \E after : IsSkipRun(after, s, k)
<1> DEFINE S == {n \in Nat : \E after : IsSkipRun(after, s, n)}
<1>1. 0 \in S
  <2> DEFINE g == [j \in 0..0 |-> Outcome(s, "ok")]
  <2>1. IsSkipRun(g, s, 0)
    BY DEF IsSkipRun
  <2> QED BY <2>1
<1>2. ASSUME NEW n \in S PROVE n + 1 \in S
  <2>1. PICK g : IsSkipRun(g, s, n)
    OBVIOUS
  <2> DEFINE h == [j \in 0..(n + 1) |-> IF j = n + 1 THEN SkipTurn(g[n]) ELSE g[j]]
  <2>2. IsSkipRun(h, s, n + 1)
    BY <2>1 DEF IsSkipRun
  <2> QED BY <2>2
<1>3. S = Nat
  <2> HIDE DEF S
  <2>1. S \subseteq Nat BY DEF S
  <2> QED BY <2>1, <1>1, <1>2, InductiveSet
<1> QED BY <1>3

\* The whole loop.
LEMMA SkipLoop ==
    ASSUME NEW s \in Ratchet, s.ck_r # None, NEW until \in Nat
    PROVE  Skipping(s, _skip_message_keys(s, until), IF until <= s.Nr THEN 0 ELSE until - s.Nr)
<1>0. s.Nr \in Nat /\ s.ck_r \in Chain /\ s.ck_r.i \in Nat
  BY RatchetParts, ChainFields
<1>1. Skipping(s, Outcome(s, "ok"), 0)
  <2>1. Outcome(s, "ok").state = s /\ Outcome(s, "ok").result = "ok"
    BY DEF Outcome
  <2> QED BY <1>0, <2>1 DEF Skipping, SameSender, IdsKept, AddedBelow
<1>2. CASE until <= s.Nr
  BY <1>1, <1>2 DEF _skip_message_keys
<1>3. CASE ~(until <= s.Nr)
  <2> PICK n : n = until - s.Nr
    OBVIOUS
  <2>1. n \in Nat
    BY <1>0, <1>3
  <2> DEFINE c == CHOOSE after : IsSkipRun(after, s, n)
  <2>2. IsSkipRun(c, s, n)
    BY <2>1, SkipRunExists
  <2>3. _skip_message_keys(s, until) = c[n]
    BY <1>3 DEF _skip_message_keys, IsSkipRun, SkipTurn
  <2> PICK after : after = c
    OBVIOUS
  <2> HIDE DEF c
  <2>4. after[0] = Outcome(s, "ok") /\ \A k \in 1..n : after[k] = SkipTurn(after[k - 1])
    <3>1. IsSkipRun(after, s, n)
      BY <2>2
    <3> QED BY <2>1, <3>1 DEF IsSkipRun
  <2> DEFINE S == {k \in Nat : k <= n => Skipping(s, after[k], k)}
  <2>5. 0 \in S
    BY <1>1, <2>4
  <2>6. ASSUME NEW k \in S PROVE k + 1 \in S
    <3> SUFFICES ASSUME k + 1 <= n PROVE Skipping(s, after[k + 1], k + 1)
      OBVIOUS
    <3>1. k \in Nat /\ Skipping(s, after[k], k)
      BY <2>1
    <3>2. k + 1 \in 1..n /\ (k + 1) - 1 = k
      BY <2>1, <3>1
    <3>3. after[k + 1] = SkipTurn(after[k])
      BY <2>4, <3>2
    <3>4. after[k].state \in Ratchet /\ after[k].state.ck_r # None
      BY <3>1 DEF Skipping
    <3>5. IF after[k].result # "ok" THEN after[k + 1] = after[k]
                                   ELSE Skipping(after[k].state, after[k + 1], 1)
      BY <3>3, <3>4, SkipOneTurn DEF SkipTurn
    <3> QED BY <3>1, <3>5, SkipMore
  <2>7. S = Nat
    <3> HIDE DEF S
    <3>1. S \subseteq Nat BY DEF S
    <3> QED BY <2>5, <2>6, <3>1, InductiveSet
  <2>8. Skipping(s, after[n], n)
    BY <2>1, <2>7
  <2> QED BY <1>3, <2>3, <2>8
<1> QED BY <1>2, <1>3

-----------------------------------------------------------------------------
(* decrypt *)

\* Where the sending side of a ratchet s can get to by receiving messages under
\* the keys in K: it stays, or it has a newer key and no chain to send with.
Later(s, t, K) ==
    /\ Len(s.root_key) <= Len(t.root_key)
    /\ \/ t.dhs = s.dhs /\ t.dhr = s.dhr /\ t.ck_s = s.ck_s
       \/ s.dhs[3] < t.dhs[3] /\ t.ck_s = None /\ t.dhr \in K

\* A ratchet stays in order while its receiving chain is advanced.
LEMMA AdvancedChain ==
    ASSUME NEW p \in Endpoint, NEW q \in PeersOf(p), NEW s, RatchetInv(s, p, q), s.ck_r # None,
           NEW t \in Ratchet, SameSender(s, t), t.ck_r # None, t.ck_r.root = s.ck_r.root
    PROVE  RatchetInv(t, p, q)
<1>1. t.dhs[1] = p /\ t.dhs[2] = q /\ Started(t.root_key, p, q) /\ Started(t.ck_r.root, p, q)
  BY DEF RatchetInv, SameSender
<1>2. t.ck_s # None => Started(t.ck_s.root, p, q) /\ Len(t.ck_s.root) <= Len(t.root_key)
  BY DEF RatchetInv, SameSender
<1>3. t.dhs[3] = 0 => FirstPhase(t, p, q)
  BY DEF RatchetInv, SameSender, FirstPhase
<1>4. t.dhs[3] > 0 => LaterPhase(t)
  BY DEF RatchetInv, SameSender, LaterPhase
<1> QED BY <1>1, <1>2, <1>3, <1>4 DEF RatchetInv

Follows(s, r, dh) ==
    /\ r.ck_r # None /\ r.dhr = dh /\ r.skipped_keys = s.skipped_keys /\ Later(s, r, {dh})

\* The first message of the peer's known key: a chain to receive with.
LEMMA FollowFirst ==
    ASSUME NEW p \in Endpoint, NEW q \in PeersOf(p), NEW s, RatchetInv(s, p, q), s.ck_r = None,
           NEW fresh
    PROVE  LET r == FollowRatchet(s, s.dhr, fresh)
           IN  RatchetInv(r, p, q) /\ Follows(s, r, s.dhr) /\ r.dhs = s.dhs /\ r.Nr = s.Nr /\ r.ck_r.i = 0
<1>1. s \in Ratchet /\ Started(s.root_key, p, q)
  BY DEF RatchetInv
<1>2. /\ s.dhs \in OwnedKey /\ s.dhr \in OwnedKey /\ s.dhr # None /\ s.dhs[3] \in Nat
      /\ (s.ck_s # None => s.ck_s \in Chain)
      /\ s.Ns \in Nat /\ s.Nr \in Nat /\ s.PN \in Nat /\ s.skipped_keys \in SUBSET Skipped
  BY <1>1, RatchetParts
<1> PICK e : e = {s.dhs, s.dhr}
  OBVIOUS
<1> PICK kdf : kdf = kdf_root(s.root_key, s.dhs, s.dhr)
  OBVIOUS
<1>3. Derived(kdf, s.root_key, e, p, q)
  BY <1>1, <1>2, KdfRoot
<1> PICK r : r = FollowRatchet(s, s.dhr, fresh)
  OBVIOUS
<1>4. r = [s EXCEPT !.root_key = kdf.root, !.ck_r = kdf.chain]
  BY <1>2 DEF FollowRatchet
<1>5. /\ r.root_key = kdf.root /\ r.ck_r = kdf.chain /\ r.dhs = s.dhs /\ r.dhr = s.dhr
      /\ r.ck_s = s.ck_s /\ r.Ns = s.Ns /\ r.Nr = s.Nr /\ r.PN = s.PN
      /\ r.skipped_keys = s.skipped_keys /\ IsRatchet(r)
  BY <1>1, <1>4 DEF Ratchet, IsRatchet
<1>6. /\ kdf.root \in Roots /\ kdf.chain \in Chain /\ kdf.chain # None /\ kdf.chain.i = 0
      /\ kdf.root = Append(s.root_key, e) /\ kdf.chain.root = kdf.root /\ Started(kdf.root, p, q)
      /\ Len(s.root_key) \in Nat /\ Len(s.root_key) >= 1 /\ Len(kdf.root) = Len(s.root_key) + 1
  BY <1>3 DEF Derived
<1>7. r \in Ratchet
  BY <1>2, <1>5, <1>6, RatchetMade
<1>8. r.ck_s # None => Started(r.ck_s.root, p, q) /\ Len(r.ck_s.root) <= Len(r.root_key)
  <2>1. s.ck_s # None => Started(s.ck_s.root, p, q) /\ Len(s.ck_s.root) <= Len(s.root_key)
    BY DEF RatchetInv
  <2>2. s.ck_s # None => Len(s.ck_s.root) \in Nat
    BY <1>2, ChainFields, LenProperties DEF Roots
  <2> QED BY <1>5, <1>6, <2>1, <2>2
<1>9. s.dhs[3] = 0 => FirstPhase(r, p, q)
  <2> SUFFICES ASSUME s.dhs[3] = 0 PROVE FirstPhase(r, p, q)
    OBVIOUS
  <2>1. FirstPhase(s, p, q) /\ s.dhs[1] = p /\ s.dhs[2] = q
    BY DEF RatchetInv
  <2>2. s.dhr = FirstKey(q, p) /\ s.root_key = FirstRoot(p, q) /\ <<p, q>> \in Link
        /\ s.ck_s # None
    BY <2>1 DEF FirstPhase
  <2>3. s.dhs = FirstKey(p, q)
    BY <1>2, <2>1 DEF FirstKey, OwnedKey
  <2>4. e = Secret(p, q)
    BY <2>2, <2>3 DEF Secret
  <2>5. kdf.root = Append(FirstRoot(p, q), Secret(p, q))
    BY <1>6, <2>2, <2>4
  <2>6. kdf.root = SendRoot(q, p)
    BY <2>2, <2>5, FirstRoots, PeerFacts DEF SendRoot
  <2> QED BY <1>5, <1>6, <2>1, <2>2, <2>6 DEF FirstPhase
<1>10. s.dhs[3] > 0 => LaterPhase(r)
  <2>1. s.dhs[3] > 0 => LaterPhase(s)
    BY DEF RatchetInv
  <2> QED BY <1>5, <1>6, <2>1 DEF LaterPhase
<1>11. RatchetInv(r, p, q)
  <2>1. s.dhs[1] = p /\ s.dhs[2] = q
    BY DEF RatchetInv
  <2> QED BY <1>5, <1>6, <1>7, <1>8, <1>9, <1>10, <2>1 DEF RatchetInv
<1>12. Follows(s, r, s.dhr)
  BY <1>5, <1>6 DEF Follows, Later
<1> QED BY <1>5, <1>6, <1>11, <1>12

\* A message under another key: a DH ratchet.
LEMMA FollowOther ==
    ASSUME NEW p \in Endpoint, NEW q \in PeersOf(p), NEW s, RatchetInv(s, p, q),
           NEW dh \in OwnedKey, dh # s.dhr
    PROVE  LET r == FollowRatchet(s, dh, FreshKey(s.dhs))
           IN  RatchetInv(r, p, q) /\ Follows(s, r, dh)
<1>1. s \in Ratchet /\ Started(s.root_key, p, q) /\ s.dhs[1] = p /\ s.dhs[2] = q
  BY DEF RatchetInv
<1>2. /\ s.dhs \in OwnedKey /\ s.Ns \in Nat /\ s.skipped_keys \in SUBSET Skipped
  BY <1>1, RatchetParts
<1> PICK fresh : fresh = FreshKey(s.dhs)
  OBVIOUS
<1>3. /\ fresh \in OwnedKey /\ fresh[1] = p /\ fresh[2] = q /\ fresh[3] = s.dhs[3] + 1
      /\ s.dhs[3] \in Nat
  BY <1>1, <1>2, FreshKeys
<1> PICK kdf : kdf = kdf_root(s.root_key, s.dhs, dh)
  OBVIOUS
<1>4. Derived(kdf, s.root_key, {s.dhs, dh}, p, q)
  BY <1>1, <1>2, KdfRoot
<1>5. /\ kdf.root \in Roots /\ kdf.chain \in Chain /\ kdf.chain # None
      /\ kdf.chain.root = kdf.root /\ Started(kdf.root, p, q)
      /\ Len(s.root_key) \in Nat /\ Len(s.root_key) >= 1 /\ Len(kdf.root) = Len(s.root_key) + 1
  BY <1>4 DEF Derived
<1> PICK r : r = FollowRatchet(s, dh, fresh)
  OBVIOUS
<1>6. r = [s EXCEPT !.PN = s.Ns, !.Ns = 0, !.Nr = 0, !.dhr = dh, !.root_key = kdf.root,
                    !.ck_r = kdf.chain, !.dhs = fresh, !.ck_s = None]
  BY DEF FollowRatchet, _dh_ratchet_receive
<1>7. r = [root_key |-> kdf.root, dhs |-> fresh, dhr |-> dh, ck_s |-> None, ck_r |-> kdf.chain,
           Ns |-> 0, Nr |-> 0, PN |-> s.Ns, skipped_keys |-> s.skipped_keys]
  BY <1>1, <1>6 DEF Ratchet
<1>8. /\ r.root_key = kdf.root /\ r.dhs = fresh /\ r.dhr = dh /\ r.ck_s = None /\ r.ck_r = kdf.chain
      /\ r.Ns = 0 /\ r.Nr = 0 /\ r.PN = s.Ns /\ r.skipped_keys = s.skipped_keys /\ IsRatchet(r)
  BY <1>7 DEF IsRatchet
<1>9. r \in Ratchet
  BY <1>2, <1>3, <1>5, <1>8, RatchetMade
<1>10. LaterPhase(r)
  BY <1>5, <1>8 DEF LaterPhase
<1>11. RatchetInv(r, p, q)
  <2>1. r.dhs[3] # 0
    BY <1>3, <1>8
  <2> QED BY <1>3, <1>5, <1>8, <1>9, <1>10, <2>1 DEF RatchetInv
<1>12. Follows(s, r, dh)
  BY <1>3, <1>5, <1>8 DEF Follows, Later
<1> QED BY <1>11, <1>12

\* What FollowRatchet does in all cases.
LEMMA FollowAny ==
    ASSUME NEW p \in Endpoint, NEW q \in PeersOf(p), NEW s, RatchetInv(s, p, q),
           NEW dh \in OwnedKey
    PROVE  LET r == FollowRatchet(s, dh, FreshKey(s.dhs))
           IN  /\ RatchetInv(r, p, q) /\ Follows(s, r, dh)
               /\ dh = s.dhr => /\ r.dhs = s.dhs /\ r.Nr = s.Nr
                                /\ s.ck_r = None => r.ck_r.i = 0
                                /\ s.ck_r # None => r = s
<1>1. s \in Ratchet
  BY DEF RatchetInv
<1>2. s.dhr # None /\ s.root_key \in Roots
  BY <1>1, RatchetParts
<1>3. CASE dh # s.dhr
  BY <1>3, FollowOther
<1>4. CASE dh = s.dhr /\ s.ck_r = None
  BY <1>4, FollowFirst
<1>5. CASE dh = s.dhr /\ s.ck_r # None
  <2>1. FollowRatchet(s, dh, FreshKey(s.dhs)) = s
    BY <1>2, <1>5 DEF FollowRatchet
  <2>2. Len(s.root_key) \in Nat
    BY <1>2, LenProperties DEF Roots
  <2>3. Follows(s, s, dh)
    BY <1>5, <2>2 DEF Follows, Later
  <2> QED BY <1>5, <2>1, <2>3
<1> QED BY <1>3, <1>4, <1>5

\* The last step of decrypt: one more turn of the receiving chain.
LEMMA TurnChain ==
    ASSUME NEW s \in Ratchet, s.ck_r # None
    PROVE  LET t == [s EXCEPT !.ck_r = kdf_chain(s.ck_r).next, !.Nr = @ + 1]
           IN  /\ t \in Ratchet /\ SameSender(s, t) /\ t.skipped_keys = s.skipped_keys
               /\ t.ck_r # None /\ t.ck_r.root = s.ck_r.root /\ t.ck_r.i = s.ck_r.i + 1
               /\ t.Nr = s.Nr + 1
<1>1. s.ck_r \in Chain /\ s.Nr \in Nat
  BY RatchetParts
<1> PICK next : next = kdf_chain(s.ck_r).next
  OBVIOUS
<1>2. /\ next \in Chain /\ next # None /\ next.root = s.ck_r.root /\ next.i = s.ck_r.i + 1
  BY <1>1, ChainFields
<1> PICK t : t = [s EXCEPT !.ck_r = next, !.Nr = s.Nr + 1]
  OBVIOUS
<1>3. /\ SameSender(s, t) /\ t.skipped_keys = s.skipped_keys /\ t.ck_r = next /\ t.Nr = s.Nr + 1
      /\ IsRatchet(t)
  BY DEF Ratchet, SameSender, IsRatchet
<1>4. t \in Ratchet
  <2>1. /\ s.root_key \in Roots /\ s.dhs \in OwnedKey /\ s.dhr \in OwnedKey
        /\ (s.ck_s # None => s.ck_s \in Chain)
        /\ s.Ns \in Nat /\ s.PN \in Nat /\ s.skipped_keys \in SUBSET Skipped
    BY RatchetParts
  <2>2. /\ t.root_key \in Roots /\ t.dhs \in OwnedKey /\ t.dhr \in OwnedKey
        /\ (t.ck_s # None => t.ck_s \in Chain)
        /\ t.Ns \in Nat /\ t.PN \in Nat /\ t.skipped_keys \in SUBSET Skipped
    BY <1>3, <2>1 DEF SameSender
  <2>3. t.Nr \in Nat /\ t.ck_r \in Chain
    BY <1>1, <1>2, <1>3
  <2> QED BY <1>3, <2>2, <2>3, RatchetMade
<1> QED BY <1>2, <1>3, <1>4

\* The keys that decrypt has stored are of the chain of m and before it.
AddedBefore(s, t, m) ==
    \A k \in t.skipped_keys : k \in s.skipped_keys \/ (k.dh = m.dh /\ k.n < m.n)

Results == {"ok", "InvalidTag", "DuplicateMessageError", "SkippedKeyStorageLimitError"}

\* What decrypt makes of a ratchet.
Decrypted(s, o, m, p, q) ==
    /\ RatchetInv(o.state, p, q) /\ Later(s, o.state, {m.dh})
    /\ IdsKept(s, o.state) /\ AddedBefore(s, o.state, m)
    /\ o.result \in Results
    /\ o.result = "ok" => Started(m.mk.root, p, q)

\* A message that comes next, or later, on the peer's first chain.
InOrder(s, m, p, q) ==
    /\ s.dhs[3] = 0 /\ m.dh = FirstKey(q, p)
    /\ s.ck_r # None => s.ck_r.i = s.Nr
    /\ s.Nr <= m.n /\ m.mk = [root |-> SendRoot(q, p), i |-> m.n]

Opens(o, m) ==
    /\ o.result = "ok" /\ o.state.dhs[3] = 0 /\ o.state.Nr = m.n + 1
    /\ o.state.ck_r # None /\ o.state.ck_r.i = m.n + 1

\* decrypt of a message without a skipped key.
LEMMA DecryptRatchet ==
    ASSUME NEW p \in Endpoint, NEW q \in PeersOf(p), NEW s, RatchetInv(s, p, q),
           NEW m \in Message, SkippedFor(s, m) = {}
    PROVE  LET o == decrypt(s, m, FreshKey(s.dhs))
           IN  /\ Decrypted(s, o, m, p, q)
               /\ InOrder(s, m, p, q) /\ o.result # "SkippedKeyStorageLimitError" => Opens(o, m)
<1> PICK o : o = decrypt(s, m, FreshKey(s.dhs))
  OBVIOUS
<1> PICK r : r = FollowRatchet(s, m.dh, FreshKey(s.dhs))
  OBVIOUS
<1> PICK skip : skip = _skip_message_keys(r, m.n)
  OBVIOUS
<1>0. m.dh \in OwnedKey /\ m.n \in Nat /\ m.mk \in Chain
  BY DEF Message
<1>1. /\ RatchetInv(r, p, q) /\ r.ck_r # None /\ r.dhr = m.dh
      /\ r.skipped_keys = s.skipped_keys /\ Later(s, r, {m.dh})
      /\ m.dh = s.dhr => /\ r.dhs = s.dhs /\ r.Nr = s.Nr
                         /\ s.ck_r = None => r.ck_r.i = 0
                         /\ s.ck_r # None => r = s
  <2>1. PICK dh \in OwnedKey : dh = m.dh
    BY <1>0
  <2>2. r = FollowRatchet(s, dh, FreshKey(s.dhs))
    BY <2>1
  <2>3. /\ RatchetInv(r, p, q) /\ Follows(s, r, dh)
        /\ dh = s.dhr => /\ r.dhs = s.dhs /\ r.Nr = s.Nr
                         /\ s.ck_r = None => r.ck_r.i = 0
                         /\ s.ck_r # None => r = s
    BY <2>2, FollowAny
  <2> QED BY <2>1, <2>3 DEF Follows
<1>2. r \in Ratchet
  BY <1>1 DEF RatchetInv
<1>3. r.Nr \in Nat /\ r.ck_r \in Chain /\ r.ck_r.i \in Nat
  BY <1>1, <1>2, RatchetParts, ChainFields
<1>4. InOrder(s, m, p, q) => /\ r.dhs[3] = 0 /\ r.Nr = s.Nr /\ r.ck_r.i = r.Nr
                             /\ r.ck_r.root = SendRoot(q, p)
  <2> SUFFICES ASSUME InOrder(s, m, p, q)
               PROVE  /\ r.dhs[3] = 0 /\ r.Nr = s.Nr /\ r.ck_r.i = r.Nr
                      /\ r.ck_r.root = SendRoot(q, p)
    OBVIOUS
  <2>1. s.dhs[3] = 0 /\ m.dh = FirstKey(q, p) /\ (s.ck_r # None => s.ck_r.i = s.Nr)
    BY DEF InOrder
  <2>2. s.dhr = m.dh /\ (s.ck_r = None => s.Nr = 0)
    BY <2>1 DEF RatchetInv, FirstPhase
  <2>3. r.dhs[3] = 0 /\ r.Nr = s.Nr /\ r.ck_r.i = r.Nr
    BY <1>1, <2>1, <2>2
  <2>4. FirstPhase(r, p, q)
    BY <1>1, <2>3 DEF RatchetInv
  <2> QED BY <1>1, <2>3, <2>4 DEF FirstPhase
<1>5. CASE m.n < r.Nr
  <2>1. o = Outcome(r, "DuplicateMessageError")
    BY <1>5 DEF decrypt
  <2>2. o.state = r /\ o.result = "DuplicateMessageError"
    BY <2>1 DEF Outcome
  <2>3. IdsKept(s, r) /\ AddedBefore(s, r, m)
    BY <1>1 DEF IdsKept, AddedBefore
  <2>4. ~ InOrder(s, m, p, q)
    <3> SUFFICES ASSUME InOrder(s, m, p, q) PROVE FALSE
      OBVIOUS
    <3>1. s.Nr <= m.n /\ r.Nr = s.Nr
      BY <1>4 DEF InOrder
    <3> QED BY <1>0, <1>3, <1>5, <3>1
  <2> QED BY <1>1, <2>2, <2>3, <2>4 DEF Decrypted, Results
<1>6. CASE ~(m.n < r.Nr)
  <2> PICK k : k = IF m.n <= r.Nr THEN 0 ELSE m.n - r.Nr
    OBVIOUS
  <2>1. k \in Nat /\ r.Nr + k = m.n
    BY <1>0, <1>3, <1>6
  <2>2. Skipping(r, skip, k)
    BY <1>0, <1>1, <1>2, SkipLoop
  <2> PICK u : u = skip.state
    OBVIOUS
  <2>3. /\ u \in Ratchet /\ SameSender(r, u) /\ u.ck_r # None /\ u.ck_r.root = r.ck_r.root
        /\ IdsKept(r, u) /\ AddedBelow(r, u, m.n)
        /\ skip.result \in {"ok", "SkippedKeyStorageLimitError"}
        /\ skip.result = "ok" => u.Nr = m.n /\ u.ck_r.i = r.ck_r.i + k
    BY <2>1, <2>2 DEF Skipping
  <2>4. RatchetInv(u, p, q)
    BY <1>1, <2>3, AdvancedChain
  <2>5. Later(s, u, {m.dh})
    BY <1>1, <2>3 DEF Later, SameSender
  <2>6. IdsKept(s, u) /\ AddedBefore(s, u, m)
    BY <1>1, <2>3 DEF IdsKept, AddedBelow, AddedBefore
  <2>7. CASE skip.result # "ok"
    <3>1. o = skip
      BY <1>6, <2>7 DEF decrypt
    <3>2. o.state = u /\ o.result = "SkippedKeyStorageLimitError"
      BY <2>3, <2>7, <3>1
    <3> QED BY <2>4, <2>5, <2>6, <3>2 DEF Decrypted, Results
  <2>8. CASE skip.result = "ok"
    <3> PICK t : t = [u EXCEPT !.ck_r = kdf_chain(u.ck_r).next, !.Nr = @ + 1]
      OBVIOUS
    <3>1. /\ t \in Ratchet /\ SameSender(u, t) /\ t.skipped_keys = u.skipped_keys
          /\ t.ck_r # None /\ t.ck_r.root = u.ck_r.root /\ t.ck_r.i = u.ck_r.i + 1
          /\ t.Nr = u.Nr + 1
      BY <2>3, TurnChain
    <3>2. u.ck_r \in Chain /\ kdf_chain(u.ck_r).mk = u.ck_r
      BY <2>3, RatchetParts, ChainFields
    <3>3. o = Opened(t, u.ck_r, m)
      BY <1>6, <2>8, <3>2 DEF decrypt
    <3>4. o.state = t /\ o.result = IF u.ck_r = m.mk THEN "ok" ELSE "InvalidTag"
      BY <3>3 DEF Opened, Outcome
    <3>5. RatchetInv(t, p, q)
      BY <2>3, <2>4, <3>1, AdvancedChain
    <3>6. Later(s, t, {m.dh})
      BY <2>5, <3>1 DEF Later, SameSender
    <3>7. IdsKept(s, t) /\ AddedBefore(s, t, m)
      BY <2>6, <3>1 DEF IdsKept, AddedBefore
    <3>8. o.result = "ok" => Started(m.mk.root, p, q)
      BY <2>3, <2>4, <3>4 DEF RatchetInv
    <3>9. Decrypted(s, o, m, p, q)
      BY <3>4, <3>5, <3>6, <3>7, <3>8 DEF Decrypted, Results
    <3>10. InOrder(s, m, p, q) => Opens(o, m)
      <4> SUFFICES ASSUME InOrder(s, m, p, q) PROVE Opens(o, m)
        OBVIOUS
      <4>1. u.ck_r.root = SendRoot(q, p) /\ u.ck_r.i = m.n /\ u.Nr = m.n
        BY <1>4, <1>3, <2>1, <2>3, <2>8
      <4>2. u.ck_r = [root |-> u.ck_r.root, i |-> u.ck_r.i]
        BY <3>2 DEF Chain
      <4>3. u.ck_r = m.mk
        BY <4>1, <4>2 DEF InOrder
      <4>4. t.dhs[3] = 0
        <5>1. r.dhs[3] = 0
          BY <1>4
        <5>2. u.dhs = r.dhs /\ t.dhs = u.dhs
          BY <2>3, <3>1 DEF SameSender
        <5> QED BY <5>1, <5>2
      <4> QED BY <3>1, <3>4, <4>1, <4>3, <4>4 DEF Opens
    <3> QED BY <3>9, <3>10
  <2> QED BY <2>3, <2>7, <2>8
<1> QED BY <1>5, <1>6


-----------------------------------------------------------------------------
(* decrypt_from *)

\* The types of a context's parts.
LEMMA ContextParts ==
    ASSUME NEW c \in Context
    PROVE  /\ c.ratchet \in Ratchet /\ c.seen \in SUBSET Id /\ c.highest \in SUBSET Id
           /\ c.fork.n \in Int /\ c.fork.pn \in Int
           /\ c.fork \in [n : Int, pn : Int, pub : OwnedKey \cup {None}]
           /\ c.reset \in {None, "replay-detected", "fork-detected"}
BY DEF Context

IsContext(c) ==
    c = [ratchet |-> c.ratchet, seen |-> c.seen, highest |-> c.highest, fork |-> c.fork,
         reset |-> c.reset]

\* ... and a context from its parts.
LEMMA ContextMade ==
    ASSUME NEW c, IsContext(c), c.ratchet \in Ratchet, c.seen \in SUBSET Id,
           c.highest \in SUBSET Id, c.fork \in [n : Int, pn : Int, pub : OwnedKey \cup {None}],
           c.reset \in {None, "replay-detected", "fork-detected"}
    PROVE  c \in Context
BY DEF IsContext, Context

\* The header of a message.
LEMMA HeaderParts ==
    ASSUME NEW m \in Message
    PROVE  /\ m.dh \in OwnedKey /\ m.n \in Nat /\ m.pn \in Nat /\ m.mk \in Chain
           /\ HeaderId(m) \in Id /\ HeaderId(m).dh = m.dh /\ HeaderId(m).n = m.n
BY DEF Message, HeaderId, Id

\* What the replay cache makes of the sets it keeps.
Cached(c, m, seen, highest) ==
    /\ seen = c.seen \cup {HeaderId(m)}
    /\ highest = (c.highest \ HighestOf(c, m.dh)) \cup {HeaderId(m)}

\* The replay cache has accepted a message: the counts stay in bounds, the
\* skipped keys are still older than the newest message of their chain, and none
\* of them is for this message.
LEMMA CacheAccepts ==
    ASSUME NEW p \in Endpoint, NEW q \in PeersOf(p), NEW c, ContextInv(c, p, q),
           NEW m \in Message, Accepts(c, m), NEW seen, NEW highest, Cached(c, m, seen, highest)
    PROVE  /\ seen \in SUBSET Id /\ highest \in SUBSET Id
           /\ IsFiniteSet(seen) /\ Cardinality(seen) <= MaxEntries
           /\ highest \subseteq seen
           /\ \A k \in c.ratchet.skipped_keys : \E h \in highest : h.dh = k.dh /\ k.n < h.n
           /\ SkippedFor(c.ratchet, m) = {}
<1> PICK id : id = HeaderId(m)
  OBVIOUS
<1>1. m.n \in Nat /\ id \in Id /\ id.dh = m.dh /\ id.n = m.n
  BY HeaderParts
<1>2. /\ c \in Context /\ IsFiniteSet(c.seen) /\ c.highest \subseteq c.seen
      /\ \A k \in c.ratchet.skipped_keys : \E h \in c.highest : h.dh = k.dh /\ k.n < h.n
  BY DEF ContextInv
<1>3. /\ c.ratchet \in Ratchet /\ c.seen \in SUBSET Id /\ c.highest \in SUBSET Id
  BY <1>2, ContextParts
<1>4. c.ratchet.skipped_keys \in SUBSET Skipped
  BY <1>3, RatchetParts
<1>5. /\ id \notin c.seen /\ (\A h \in c.highest : h.dh = m.dh => m.n >= h.n)
      /\ Cardinality(c.seen) < MaxEntries
  BY DEF Accepts, HighestOf
<1>6. /\ seen = c.seen \cup {id} /\ highest = {h \in c.highest : h.dh # m.dh} \cup {id}
  BY DEF Cached, HighestOf
<1>7. IsFiniteSet(seen) /\ Cardinality(seen) = Cardinality(c.seen) + 1 /\ Cardinality(c.seen) \in Nat
  BY <1>2, <1>5, <1>6, FS_AddElement, FS_CardinalityType
<1>8. Cardinality(seen) <= MaxEntries
  BY <1>5, <1>7, SessionManagerAssumption
<1>9. ASSUME NEW k \in c.ratchet.skipped_keys
      PROVE  (\E h \in highest : h.dh = k.dh /\ k.n < h.n) /\ ~(k.dh = m.dh /\ k.n = m.n)
  <2>1. PICK h \in c.highest : h.dh = k.dh /\ k.n < h.n
    BY <1>2
  <2>2. h.n \in Nat /\ k.n \in Nat
    BY <1>3, <1>4 DEF Id, Skipped
  <2>3. CASE h.dh = m.dh
    <3>1. m.n >= h.n
      BY <1>5, <2>3
    <3>2. id \in highest /\ id.dh = k.dh /\ k.n < id.n
      BY <1>1, <1>6, <2>1, <2>2, <2>3, <3>1
    <3> QED BY <1>1, <3>2
  <2>4. CASE h.dh # m.dh
    BY <1>6, <2>1, <2>4
  <2> QED BY <2>3, <2>4
<1>10. SkippedFor(c.ratchet, m) = {}
  BY <1>9 DEF SkippedFor
<1>11. seen \in SUBSET Id /\ highest \in SUBSET Id /\ highest \subseteq seen
  BY <1>1, <1>2, <1>3, <1>6
<1> QED BY <1>7, <1>8, <1>9, <1>10, <1>11

\* What decrypt_from makes of a context.
ContextStep(c, r, m, p, q) ==
    /\ ContextInv(r.ctx, p, q)
    /\ Later(c.ratchet, r.ctx.ratchet, {m.dh})
    /\ IdsKept(c.ratchet, r.ctx.ratchet)
    /\ r.result = "ok" => Started(m.mk.root, p, q)

\* A ratchet is not later than itself.
LEMMA LaterSame ==
    ASSUME NEW s \in Ratchet, NEW K
    PROVE  Later(s, s, K) /\ IdsKept(s, s)
<1>1. Len(s.root_key) \in Nat
  BY RatchetParts, LenProperties DEF Roots
<1> QED BY <1>1 DEF Later, IdsKept

\* The three ways through decrypt_from.
Refused(c, x, result) ==
    /\ x.ratchet = c.ratchet /\ x.seen = c.seen /\ x.highest = c.highest /\ x.fork = c.fork
    /\ result = "replayed-or-stale"
Forked(c, m, x, result) ==
    /\ x.ratchet = c.ratchet /\ Cached(c, m, x.seen, x.highest) /\ x.fork = c.fork
    /\ result = "forked"
Taken(c, m, o, x, result) ==
    /\ x.ratchet = o.state /\ Cached(c, m, x.seen, x.highest)
    /\ x.fork = [n |-> m.n, pn |-> m.pn, pub |-> m.dh] /\ x.reset = c.reset
    /\ result = o.result

\* The fields of what decrypt_from returns.
LEMMA ReceivedFields ==
    ASSUME NEW x, NEW y
    PROVE  Received(x, y).ctx = x /\ Received(x, y).result = y
BY DEF Received

\* decrypt_from takes one of them, as the cache and the fork detection decide.
LEMMA Ways ==
    ASSUME NEW c \in Context, NEW m, NEW fresh
    PROVE  LET r == decrypt_from(c, m, fresh)
               o == decrypt(c.ratchet, m, fresh)
           IN  /\ IsContext(r.ctx)
               /\ ~ Accepts(c, m) => Refused(c, r.ctx, r.result) /\ r.ctx.reset = "replay-detected"
               /\ Accepts(c, m) /\ detect_fork(c.fork, m) =>
                    Forked(c, m, r.ctx, r.result) /\ r.ctx.reset = "fork-detected"
               /\ Accepts(c, m) /\ ~ detect_fork(c.fork, m) => Taken(c, m, o, r.ctx, r.result)
<1> PICK o : o = decrypt(c.ratchet, m, fresh)
  OBVIOUS
<1> PICK r : r = decrypt_from(c, m, fresh)
  OBVIOUS
<1> PICK a : a = Accepted(c, m)
  OBVIOUS
<1> PICK f : f = Forwarded(a, m)
  OBVIOUS
<1>0. IsContext(c)
  BY DEF Context, IsContext
<1>1. IsContext(a) /\ Cached(c, m, a.seen, a.highest) /\ a.ratchet = c.ratchet /\ a.fork = c.fork
      /\ a.reset = c.reset
  BY <1>0 DEF Accepted, IsContext, Cached
<1>2. IsContext(f) /\ f.seen = a.seen /\ f.highest = a.highest /\ f.ratchet = c.ratchet
      /\ f.fork = [n |-> m.n, pn |-> m.pn, pub |-> m.dh] /\ f.reset = c.reset
  BY <1>1 DEF Forwarded, IsContext
<1>3. CASE ~ Accepts(c, m)
  <2> PICK x : x = mark_for_reset(c, "replay-detected")
    OBVIOUS
  <2>1. r = Received(x, "replayed-or-stale")
    BY <1>3 DEF decrypt_from
  <2>2. r.ctx = x /\ r.result = "replayed-or-stale"
    BY <2>1, ReceivedFields
  <2>3. IsContext(x) /\ x.ratchet = c.ratchet /\ x.seen = c.seen /\ x.highest = c.highest
        /\ x.fork = c.fork /\ x.reset = "replay-detected"
    BY <1>0 DEF mark_for_reset, IsContext
  <2> QED BY <1>3, <2>2, <2>3 DEF Refused
<1>4. CASE Accepts(c, m) /\ detect_fork(c.fork, m)
  <2> PICK x : x = mark_for_reset(a, "fork-detected")
    OBVIOUS
  <2>1. r = Received(x, "forked")
    BY <1>1, <1>4 DEF decrypt_from
  <2>2. r.ctx = x /\ r.result = "forked"
    BY <2>1, ReceivedFields
  <2>3. IsContext(x) /\ x.ratchet = a.ratchet /\ x.seen = a.seen /\ x.highest = a.highest
        /\ x.fork = a.fork /\ x.reset = "fork-detected"
    BY <1>1 DEF mark_for_reset, IsContext
  <2> QED BY <1>1, <1>4, <2>2, <2>3 DEF Forked
<1>5. CASE Accepts(c, m) /\ ~ detect_fork(c.fork, m)
  <2> PICK x : x = [f EXCEPT !.ratchet = o.state]
    OBVIOUS
  <2>1. r = Received(x, o.result)
    BY <1>1, <1>5 DEF decrypt_from
  <2>2. r.ctx = x /\ r.result = o.result
    BY <2>1, ReceivedFields
  <2>3. IsContext(x) /\ x.ratchet = o.state /\ x.seen = f.seen /\ x.highest = f.highest
        /\ x.fork = f.fork /\ x.reset = c.reset
    BY <1>2 DEF IsContext
  <2> QED BY <1>1, <1>2, <1>5, <2>2, <2>3 DEF Taken
<1> QED BY <1>3, <1>4, <1>5

\* What decrypt_from does to the context of an end, whoever sent the message.
LEMMA DecryptFrom ==
    ASSUME NEW p \in Endpoint, NEW q \in PeersOf(p), NEW c, ContextInv(c, p, q),
           NEW m \in Message
    PROVE  ContextStep(c, decrypt_from(c, m, FreshKey(c.ratchet.dhs)), m, p, q)
<1> PICK fresh : fresh = FreshKey(c.ratchet.dhs)
  OBVIOUS
<1> PICK r : r = decrypt_from(c, m, fresh)
  OBVIOUS
<1> PICK o : o = decrypt(c.ratchet, m, fresh)
  OBVIOUS
<1> PICK x : x = r.ctx
  OBVIOUS
<1>1. /\ c \in Context /\ RatchetInv(c.ratchet, p, q)
      /\ IsFiniteSet(c.seen) /\ Cardinality(c.seen) <= MaxEntries
      /\ c.highest \subseteq c.seen
      /\ \A k \in c.ratchet.skipped_keys : \E h \in c.highest : h.dh = k.dh /\ k.n < h.n
  BY DEF ContextInv
<1>2. /\ c.ratchet \in Ratchet /\ c.seen \in SUBSET Id /\ c.highest \in SUBSET Id
      /\ c.fork \in [n : Int, pn : Int, pub : OwnedKey \cup {None}]
      /\ c.reset \in {None, "replay-detected", "fork-detected"}
  BY <1>1, ContextParts
<1>3. /\ IsContext(x)
      /\ ~ Accepts(c, m) => Refused(c, x, r.result) /\ x.reset = "replay-detected"
      /\ Accepts(c, m) /\ detect_fork(c.fork, m) =>
           Forked(c, m, x, r.result) /\ x.reset = "fork-detected"
      /\ Accepts(c, m) /\ ~ detect_fork(c.fork, m) => Taken(c, m, o, x, r.result)
  BY <1>1, Ways
<1>4. Later(c.ratchet, c.ratchet, {m.dh}) /\ IdsKept(c.ratchet, c.ratchet)
  BY <1>2, LaterSame
<1>5. CASE ~ Accepts(c, m)
  <2>1. /\ x.ratchet = c.ratchet /\ x.seen = c.seen /\ x.highest = c.highest /\ x.fork = c.fork
        /\ r.result = "replayed-or-stale" /\ x.reset = "replay-detected"
    BY <1>3, <1>5 DEF Refused
  <2>2. x \in Context
    BY <1>2, <1>3, <2>1, ContextMade
  <2>3. ContextInv(x, p, q)
    BY <1>1, <2>1, <2>2 DEF ContextInv
  <2> QED BY <1>4, <2>1, <2>3 DEF ContextStep
<1>6. ASSUME Accepts(c, m), Cached(c, m, x.seen, x.highest)
      PROVE  /\ x.seen \in SUBSET Id /\ x.highest \in SUBSET Id
             /\ IsFiniteSet(x.seen) /\ Cardinality(x.seen) <= MaxEntries
             /\ x.highest \subseteq x.seen
             /\ \A k \in c.ratchet.skipped_keys : \E h \in x.highest : h.dh = k.dh /\ k.n < h.n
             /\ SkippedFor(c.ratchet, m) = {}
  BY <1>6, CacheAccepts
<1>7. CASE Accepts(c, m) /\ detect_fork(c.fork, m)
  <2>1. /\ x.ratchet = c.ratchet /\ Cached(c, m, x.seen, x.highest) /\ x.fork = c.fork
        /\ r.result = "forked" /\ x.reset = "fork-detected"
    BY <1>3, <1>7 DEF Forked
  <2>2. x \in Context
    BY <1>2, <1>3, <1>6, <1>7, <2>1, ContextMade
  <2>3. ContextInv(x, p, q)
    BY <1>1, <1>6, <1>7, <2>1, <2>2 DEF ContextInv
  <2> QED BY <1>4, <2>1, <2>3 DEF ContextStep
<1>8. CASE Accepts(c, m) /\ ~ detect_fork(c.fork, m)
  <2>1. /\ x.ratchet = o.state /\ Cached(c, m, x.seen, x.highest)
        /\ x.fork = [n |-> m.n, pn |-> m.pn, pub |-> m.dh] /\ x.reset = c.reset
        /\ r.result = o.result
    BY <1>3, <1>8 DEF Taken
  <2>2. Decrypted(c.ratchet, o, m, p, q)
    BY <1>1, <1>6, <1>8, <2>1, DecryptRatchet
  <2>3. /\ RatchetInv(x.ratchet, p, q) /\ Later(c.ratchet, x.ratchet, {m.dh})
        /\ IdsKept(c.ratchet, x.ratchet) /\ AddedBefore(c.ratchet, x.ratchet, m)
        /\ r.result = "ok" => Started(m.mk.root, p, q)
    BY <2>1, <2>2 DEF Decrypted
  <2>4. m.dh \in OwnedKey /\ m.n \in Nat /\ m.pn \in Nat /\ HeaderId(m).dh = m.dh /\ HeaderId(m).n = m.n
    BY HeaderParts
  <2>5. x.fork \in [n : Int, pn : Int, pub : OwnedKey \cup {None}]
    BY <2>1, <2>4
  <2>6. x.ratchet \in Ratchet
    BY <2>3 DEF RatchetInv
  <2>7. x \in Context
    BY <1>2, <1>3, <1>6, <1>8, <2>1, <2>5, <2>6, ContextMade
  <2>8. ASSUME NEW k \in x.ratchet.skipped_keys
        PROVE  \E h \in x.highest : h.dh = k.dh /\ k.n < h.n
    <3>1. HeaderId(m) \in x.highest
      BY <2>1 DEF Cached
    <3>2. k \in c.ratchet.skipped_keys \/ (k.dh = m.dh /\ k.n < m.n)
      BY <2>3 DEF AddedBefore
    <3> QED BY <1>6, <1>8, <2>1, <2>4, <3>1, <3>2
  <2>9. ContextInv(x, p, q)
    BY <1>6, <1>8, <2>1, <2>3, <2>7, <2>8 DEF ContextInv
  <2> QED BY <2>3, <2>9 DEF ContextStep
<1> QED BY <1>5, <1>7, <1>8

\* A message of the first key of q for p.
FirstLetter(m, p, q) ==
    m.dh = FirstKey(q, p) => m.mk = [root |-> SendRoot(q, p), i |-> m.n] /\ m.pn = 0

\* While an end is clean, decrypt_from keeps cache, fork state and ratchet in
\* step: what the cache accepts is not taken for a fork and is decrypted.
LEMMA CleanReceive ==
    ASSUME NEW p \in Endpoint, NEW q \in PeersOf(p), NEW c, ContextInv(c, p, q),
           NEW m \in Message, FirstLetter(m, p, q), NEW done, NEW errs,
           CleanContext(c, errs, p, q) => InStep(c, done, errs)
    PROVE  LET r == decrypt_from(c, m, FreshKey(c.ratchet.dhs))
               done1 == IF r.result = "ok" THEN done \cup {m} ELSE done
               errs1 == IF r.result = "ok" THEN errs ELSE errs \cup {r.result}
           IN  CleanContext(r.ctx, errs1, p, q) => InStep(r.ctx, done1, errs1)
<1> PICK fresh : fresh = FreshKey(c.ratchet.dhs)
  OBVIOUS
<1> PICK r : r = decrypt_from(c, m, fresh)
  OBVIOUS
<1> PICK o : o = decrypt(c.ratchet, m, fresh)
  OBVIOUS
<1> PICK x : x = r.ctx
  OBVIOUS
<1> PICK done1 : done1 = IF r.result = "ok" THEN done \cup {m} ELSE done
  OBVIOUS
<1> PICK errs1 : errs1 = IF r.result = "ok" THEN errs ELSE errs \cup {r.result}
  OBVIOUS
<1> SUFFICES ASSUME CleanContext(x, errs1, p, q) PROVE InStep(x, done1, errs1)
  OBVIOUS
<1>1. /\ c \in Context /\ RatchetInv(c.ratchet, p, q) /\ c.highest \subseteq c.seen
  BY DEF ContextInv
<1>2. /\ c.ratchet \in Ratchet /\ c.seen \in SUBSET Id /\ c.highest \in SUBSET Id
      /\ c.fork.n \in Int /\ c.fork.pn \in Int
  BY <1>1, ContextParts
<1>3. /\ ~ Accepts(c, m) => Refused(c, x, r.result)
      /\ Accepts(c, m) /\ detect_fork(c.fork, m) => Forked(c, m, x, r.result)
      /\ Accepts(c, m) /\ ~ detect_fork(c.fork, m) => Taken(c, m, o, x, r.result)
  BY <1>1, Ways
<1>4. c.seen \subseteq x.seen /\ (Accepts(c, m) => Cached(c, m, x.seen, x.highest))
  BY <1>3 DEF Refused, Forked, Taken, Cached
<1>5. CleanContext(c, errs, p, q)
  BY <1>4 DEF CleanContext
<1>6. /\ c.ratchet.dhs[3] = 0
      /\ c.ratchet.ck_r # None => c.ratchet.ck_r.i = c.ratchet.Nr
      /\ c.seen = {} => c.ratchet.Nr = 0
      /\ c.seen # {} => c.highest # {}
      /\ \A h \in c.highest : c.ratchet.Nr = h.n + 1
      /\ c.fork.n < c.ratchet.Nr /\ c.fork.pn <= 0
      /\ c.seen = {HeaderId(y) : y \in done}
      /\ errs \subseteq {"replayed-or-stale"}
  BY <1>5 DEF InStep
<1>7. CASE ~ Accepts(c, m)
  <2>1. /\ x.ratchet = c.ratchet /\ x.seen = c.seen /\ x.highest = c.highest /\ x.fork = c.fork
        /\ r.result = "replayed-or-stale"
    BY <1>3, <1>7 DEF Refused
  <2>2. done1 = done /\ errs1 \subseteq {"replayed-or-stale"}
    BY <1>6, <2>1
  <2> QED BY <1>6, <2>1, <2>2 DEF InStep
<1>8. CASE Accepts(c, m)
  <2>1. /\ m.dh \in OwnedKey /\ m.n \in Nat /\ m.pn \in Nat
        /\ HeaderId(m) \in Id /\ HeaderId(m).dh = m.dh /\ HeaderId(m).n = m.n
    BY HeaderParts
  <2>2. HeaderId(m) \in x.seen
    BY <1>4, <1>8 DEF Cached
  <2>3. m.dh = FirstKey(q, p)
    BY <2>1, <2>2 DEF CleanContext
  <2>4. m.mk = [root |-> SendRoot(q, p), i |-> m.n] /\ m.pn = 0
    BY <2>3 DEF FirstLetter
  <2>5. \A h \in c.highest : h.dh = m.dh /\ h.n \in Nat /\ h.n < m.n
    <3> SUFFICES ASSUME NEW h \in c.highest PROVE h.dh = m.dh /\ h.n \in Nat /\ h.n < m.n
      OBVIOUS
    <3>1. h \in Id /\ h \in c.seen
      BY <1>1, <1>2
    <3>2. h.dh = m.dh /\ h.n \in Nat
      BY <1>5, <2>3, <3>1 DEF CleanContext, Id
    <3>3. m.n >= h.n
      BY <1>8, <3>2 DEF Accepts, HighestOf
    <3>4. h # HeaderId(m)
      BY <1>8, <3>1 DEF Accepts
    <3>5. h = [dh |-> h.dh, n |-> h.n]
      BY <3>1 DEF Id
    <3>6. h.n # m.n
      BY <3>2, <3>4, <3>5 DEF HeaderId
    <3> QED BY <2>1, <3>2, <3>3, <3>6
  <2>6. c.ratchet.Nr \in Nat /\ c.ratchet.Nr <= m.n
    <3>1. c.ratchet.Nr \in Nat
      BY <1>2, RatchetParts
    <3>2. CASE c.seen = {}
      BY <1>6, <2>1, <3>1, <3>2
    <3>3. CASE c.seen # {}
      BY <1>6, <2>1, <2>5, <3>1, <3>3
    <3> QED BY <3>2, <3>3
  <2>7. ~ detect_fork(c.fork, m)
    BY <1>2, <1>6, <2>1, <2>4, <2>6 DEF detect_fork
  <2>8. /\ x.ratchet = o.state /\ Cached(c, m, x.seen, x.highest)
        /\ x.fork = [n |-> m.n, pn |-> m.pn, pub |-> m.dh] /\ r.result = o.result
    BY <1>3, <1>8, <2>7 DEF Taken
  <2>9. InOrder(c.ratchet, m, p, q)
    BY <1>6, <2>3, <2>4, <2>6 DEF InOrder
  <2>10. SkippedFor(c.ratchet, m) = {}
    BY <1>8, <2>8, CacheAccepts
  <2>11. Decrypted(c.ratchet, o, m, p, q) /\ (o.result # "SkippedKeyStorageLimitError" => Opens(o, m))
    BY <1>1, <2>9, <2>10, DecryptRatchet
  <2>12. o.result # "SkippedKeyStorageLimitError"
    BY <2>8 DEF CleanContext
  <2>13. /\ r.result = "ok" /\ x.ratchet.dhs[3] = 0 /\ x.ratchet.Nr = m.n + 1
         /\ x.ratchet.ck_r # None /\ x.ratchet.ck_r.i = m.n + 1
    BY <2>8, <2>11, <2>12 DEF Opens
  <2>14. done1 = done \cup {m} /\ errs1 = errs
    BY <2>13
  <2>15. x.highest = {HeaderId(m)} /\ x.seen = c.seen \cup {HeaderId(m)}
    BY <2>5, <2>8 DEF Cached, HighestOf
  <2>16. x.seen = {HeaderId(y) : y \in done1}
    BY <1>6, <2>14, <2>15
  <2>17. x.fork.n < x.ratchet.Nr /\ x.fork.pn <= 0
    BY <2>1, <2>4, <2>8, <2>13
  <2>18. \A h \in x.highest : x.ratchet.Nr = h.n + 1
    BY <2>1, <2>13, <2>15
  <2> QED BY <1>6, <2>13, <2>14, <2>15, <2>16, <2>17, <2>18 DEF InStep
<1> QED BY <1>7, <1>8

-----------------------------------------------------------------------------
(* recv_text and recv_sealed: a pass over the inbox. *)

\* What may be in the inbox of p.
Mail(env, p) == (env \in Letters /\ env.to = p) \/ env = Dummy(p)

HeaderKeys == {env.m.dh : env \in Letters}

IsPass(a) ==
    a = [ctx |-> a.ctx, kept |-> a.kept, out |-> a.out, raised |-> a.raised,
         opened |-> a.opened, dropped |-> a.dropped, errors |-> a.errors]

\* Where the pass has come to with the session for q.
PassEnd(a, p, q) ==
    /\ ContextInv(a.ctx[q], p, q)
    /\ Later(session[p][q].ratchet, a.ctx[q].ratchet, HeaderKeys)
    /\ IdsKept(session[p][q].ratchet, a.ctx[q].ratchet)
    /\ CleanContext(a.ctx[q], a.errors[q], p, q) => InStep(a.ctx[q], a.opened[q], a.errors[q])

PassTables(a, p) ==
    /\ IsPass(a)
    /\ a.ctx = [q \in PeersOf(p) |-> a.ctx[q]]
    /\ a.opened = [q \in PeersOf(p) |-> a.opened[q]]
    /\ a.errors = [q \in PeersOf(p) |-> a.errors[q]]

KeptMail(kept, p) ==
    /\ kept \in Seq(Letter \cup {Dummy(p)})
    /\ \A j \in 1..Len(kept) : Mail(kept[j], p)

FromPeer(x, p) == x.env.from = x.peer /\ x.env.to = p

ShownMail(out, p) ==
    /\ out \in Seq([peer : Endpoint, env : Letter])
    /\ \A j \in 1..Len(out) : FromPeer(out[j], p)

PassInv(a, p) ==
    /\ PassTables(a, p)
    /\ \A q \in PeersOf(p) : PassEnd(a, p, q)
    /\ KeptMail(a.kept, p)
    /\ ShownMail(a.out, p)

\* Later is transitive, and so is the keeping of stored ids.
LEMMA LaterTransitive ==
    ASSUME NEW s \in Ratchet, NEW t \in Ratchet, NEW u \in Ratchet, NEW K, NEW J \in SUBSET K,
           Later(s, t, K), Later(t, u, J), IdsKept(s, t), IdsKept(t, u)
    PROVE  Later(s, u, K) /\ IdsKept(s, u)
<1>1. /\ s.dhs[3] \in Nat /\ t.dhs[3] \in Nat /\ u.dhs[3] \in Nat
  BY RatchetParts
<1>2. /\ s.root_key \in Roots /\ t.root_key \in Roots /\ u.root_key \in Roots
  BY RatchetParts
<1>3. Len(s.root_key) \in Nat /\ Len(t.root_key) \in Nat /\ Len(u.root_key) \in Nat
  BY <1>2, LenProperties DEF Roots
<1>4. Later(s, u, K)
  <2>1. Len(s.root_key) <= Len(u.root_key)
    BY <1>3 DEF Later
  <2>2. \/ u.dhs = s.dhs /\ u.dhr = s.dhr /\ u.ck_s = s.ck_s
        \/ s.dhs[3] < u.dhs[3] /\ u.ck_s = None /\ u.dhr \in K
    <3>1. CASE t.dhs = s.dhs /\ t.dhr = s.dhr /\ t.ck_s = s.ck_s
      BY <3>1 DEF Later
    <3>2. CASE s.dhs[3] < t.dhs[3] /\ t.ck_s = None /\ t.dhr \in K
      BY <1>1, <3>2 DEF Later
    <3> QED BY <3>1, <3>2 DEF Later
  <2> QED BY <2>1, <2>2 DEF Later
<1>5. IdsKept(s, u)
  <2> SUFFICES ASSUME NEW x \in s.skipped_keys
               PROVE  \E z \in u.skipped_keys : z.dh = x.dh /\ z.n = x.n
    BY DEF IdsKept
  <2>1. PICK y \in t.skipped_keys : y.dh = x.dh /\ y.n = x.n
    BY DEF IdsKept
  <2>2. PICK z \in u.skipped_keys : z.dh = y.dh /\ z.n = y.n
    BY DEF IdsKept
  <2> QED BY <2>1, <2>2
<1> QED BY <1>4, <1>5

\* A letter that the session for q opens comes from q.
LEMMA LetterFrom ==
    ASSUME LettersInv, NEW p \in Endpoint, NEW q \in PeersOf(p), NEW env \in Letters, env.to = p
    PROVE  /\ env \in Letter /\ env.m \in Message /\ FirstLetter(env.m, p, q)
           /\ Started(env.m.mk.root, p, q) => env.from = q
<1>1. env \in Letter /\ env.to \in PeersOf(env.from) /\ MessageInv(env.m, env.from, env.to)
  <2>1. env \in Letter
    BY ElementOfSeq DEF LettersInv, Letters
  <2> QED BY <2>1 DEF LettersInv
<1>2. p # q
  BY PeerFacts
<1>3. FirstLetter(env.m, p, q)
  <2> SUFFICES ASSUME env.m.dh = FirstKey(q, p)
               PROVE  env.m.mk = [root |-> SendRoot(q, p), i |-> env.m.n] /\ env.m.pn = 0
    BY DEF FirstLetter
  <2>1. env.m.dh[1] = q /\ env.m.dh[3] = 0
    BY DEF FirstKey
  <2> QED BY <1>1, <2>1 DEF MessageInv
<1>4. ASSUME Started(env.m.mk.root, p, q) PROVE env.from = q
  <2>1. Secret(p, q) = Secret(env.from, env.to)
    BY <1>1, <1>4 DEF MessageInv, Started
  <2> QED BY <1>2, <2>1, SecretNames
<1> QED BY <1>1, <1>3, <1>4 DEF MessageInv

\* An envelope stays in the inbox.
LEMMA PassKeeps ==
    ASSUME NEW p \in Endpoint, NEW a, PassInv(a, p), NEW env, Mail(env, p),
           env \in Letter \cup {Dummy(p)}
    PROVE  PassInv(Keep(a, env), p)
<1> PICK b : b = Keep(a, env)
  OBVIOUS
<1>1. PassTables(a, p) /\ KeptMail(a.kept, p) /\ ShownMail(a.out, p)
  BY DEF PassInv
<1>2. /\ b.kept = Append(a.kept, env) /\ b.ctx = a.ctx /\ b.out = a.out /\ b.opened = a.opened
      /\ b.errors = a.errors /\ IsPass(b)
  BY <1>1 DEF Keep, PassTables, IsPass
<1>3. PassTables(b, p)
  BY <1>1, <1>2 DEF PassTables
<1>4. KeptMail(b.kept, p)
  <2>1. /\ a.kept \in Seq(Letter \cup {Dummy(p)}) /\ Len(a.kept) \in Nat
        /\ \A j \in 1..Len(a.kept) : Mail(a.kept[j], p)
    BY <1>1, LenProperties DEF KeptMail
  <2>2. /\ b.kept \in Seq(Letter \cup {Dummy(p)}) /\ Len(b.kept) = Len(a.kept) + 1
        /\ \A i \in 1..Len(a.kept) : b.kept[i] = a.kept[i]
        /\ b.kept[Len(a.kept) + 1] = env
    BY <1>2, <2>1, AppendProperties
  <2>3. ASSUME NEW j \in 1..Len(b.kept) PROVE Mail(b.kept[j], p)
    <3>1. j \in 1..Len(a.kept) \/ j = Len(a.kept) + 1
      BY <2>1, <2>2
    <3> QED BY <2>1, <2>2, <3>1
  <2> QED BY <2>2, <2>3 DEF KeptMail
<1>5. ASSUME NEW q \in PeersOf(p) PROVE PassEnd(b, p, q)
  BY <1>2 DEF PassInv, PassEnd
<1> QED BY <1>1, <1>2, <1>3, <1>4, <1>5 DEF PassInv

Drop(a, env, raised) == [a EXCEPT !.dropped = @ \cup {env}, !.raised = raised]

\* An envelope is dropped.
LEMMA PassDrops ==
    ASSUME NEW p \in Endpoint, NEW a, PassInv(a, p), NEW env, NEW raised
    PROVE  PassInv(Drop(a, env, raised), p)
<1> PICK d : d = a.dropped \cup {env}
  OBVIOUS
<1> PICK b : b = [a EXCEPT !.dropped = d, !.raised = raised]
  OBVIOUS
<1>1. PassTables(a, p) /\ KeptMail(a.kept, p) /\ ShownMail(a.out, p)
  BY DEF PassInv
<1>2. /\ b.kept = a.kept /\ b.ctx = a.ctx /\ b.out = a.out /\ b.opened = a.opened
      /\ b.errors = a.errors /\ IsPass(b)
  BY <1>1 DEF PassTables, IsPass
<1>3. PassTables(b, p)
  BY <1>1, <1>2 DEF PassTables
<1>4. ASSUME NEW q \in PeersOf(p) PROVE PassEnd(b, p, q)
  BY <1>2 DEF PassInv, PassEnd
<1>5. PassInv(b, p)
  BY <1>1, <1>2, <1>3, <1>4 DEF PassInv
<1> QED BY <1>5 DEF Drop

\* The ratchet has moved on under the key of a letter.
LEMMA EndMoves ==
    ASSUME SessionsInv, NEW p \in Endpoint, NEW q \in PeersOf(p), NEW a, PassEnd(a, p, q),
           NEW env \in Letters, NEW c, c = a.ctx[q], NEW r, ContextStep(c, r, env.m, p, q)
    PROVE  /\ ContextInv(r.ctx, p, q)
           /\ Later(session[p][q].ratchet, r.ctx.ratchet, HeaderKeys)
           /\ IdsKept(session[p][q].ratchet, r.ctx.ratchet)
<1>1. PICK s : s = session[p][q].ratchet
  OBVIOUS
<1>2. PICK t : t = c.ratchet
  OBVIOUS
<1>3. PICK u : u = r.ctx.ratchet
  OBVIOUS
<1>4. PICK J : J = {env.m.dh}
  OBVIOUS
<1>5. PICK K : K = HeaderKeys
  OBVIOUS
<1>6. s \in Ratchet
  BY <1>1 DEF SessionsInv, ContextInv, RatchetInv
<1>7. t \in Ratchet /\ Later(s, t, K) /\ IdsKept(s, t)
  BY <1>1, <1>2, <1>5 DEF PassEnd, ContextInv, RatchetInv
<1>8. ContextInv(r.ctx, p, q) /\ Later(t, u, J) /\ IdsKept(t, u)
  BY <1>2, <1>3, <1>4 DEF ContextStep
<1>9. u \in Ratchet
  BY <1>3, <1>8 DEF ContextInv, RatchetInv
<1>10. J \in SUBSET K
  BY <1>4, <1>5 DEF HeaderKeys
<1>11. Later(s, u, K) /\ IdsKept(s, u)
  BY <1>6, <1>7, <1>8, <1>9, <1>10, LaterTransitive
<1> QED BY <1>1, <1>3, <1>5, <1>8, <1>11

\* An envelope is decrypted with the session for q, whoever sent it.
LEMMA PassDecrypts ==
    ASSUME LettersInv, SessionsInv, NEW p \in Endpoint, NEW a, PassInv(a, p),
           NEW q \in PeersOf(p), NEW env \in Letters, env.to = p
    PROVE  PassInv(Decrypts(a, q, env), p)
<1> PICK b : b = Decrypts(a, q, env)
  OBVIOUS
<1> PICK c : c = a.ctx[q]
  OBVIOUS
<1> PICK r : r = decrypt_from(c, env.m, FreshKey(c.ratchet.dhs))
  OBVIOUS
<1>1. PassTables(a, p) /\ PassEnd(a, p, q) /\ KeptMail(a.kept, p) /\ ShownMail(a.out, p)
  BY DEF PassInv
<1>2. /\ env \in Letter /\ env.m \in Message /\ FirstLetter(env.m, p, q)
      /\ Started(env.m.mk.root, p, q) => env.from = q
  BY LetterFrom
<1>3. ContextInv(c, p, q) /\ (CleanContext(c, a.errors[q], p, q) => InStep(c, a.opened[q], a.errors[q]))
  BY <1>1 DEF PassEnd
<1> PICK done : done = IF r.result = "ok" THEN a.opened[q] \cup {env.m} ELSE a.opened[q]
  OBVIOUS
<1> PICK errs : errs = IF r.result = "ok" THEN a.errors[q] ELSE a.errors[q] \cup {r.result}
  OBVIOUS
<1>4. ContextStep(c, r, env.m, p, q)
  BY <1>2, <1>3, DecryptFrom
<1>5. CleanContext(r.ctx, errs, p, q) => InStep(r.ctx, done, errs)
  BY <1>2, <1>3, CleanReceive
<1>6. /\ b.ctx = [a.ctx EXCEPT ![q] = r.ctx] /\ b.kept = a.kept
      /\ b.out = IF r.result = "ok" THEN Append(a.out, [peer |-> q, env |-> env]) ELSE a.out
      /\ b.opened = [a.opened EXCEPT ![q] = done] /\ b.errors = [a.errors EXCEPT ![q] = errs]
      /\ IsPass(b)
  BY DEF Decrypts, IsPass
<1>7. /\ b.ctx = [y \in PeersOf(p) |-> IF y = q THEN r.ctx ELSE a.ctx[y]]
      /\ b.opened = [y \in PeersOf(p) |-> IF y = q THEN done ELSE a.opened[y]]
      /\ b.errors = [y \in PeersOf(p) |-> IF y = q THEN errs ELSE a.errors[y]]
  BY <1>1, <1>6 DEF PassTables
<1>8. PassTables(b, p)
  BY <1>6, <1>7 DEF PassTables
<1>9. ASSUME NEW y \in PeersOf(p) PROVE PassEnd(b, p, y)
  <2>1. CASE y # q
    <3>1. b.ctx[y] = a.ctx[y] /\ b.opened[y] = a.opened[y] /\ b.errors[y] = a.errors[y]
      BY <1>7, <2>1
    <3>2. PassEnd(a, p, y)
      BY DEF PassInv
    <3> QED BY <3>1, <3>2 DEF PassEnd
  <2>2. CASE y = q
    <3>1. b.ctx[q] = r.ctx /\ b.opened[q] = done /\ b.errors[q] = errs
      BY <1>7
    <3>2. /\ ContextInv(r.ctx, p, q)
          /\ Later(session[p][q].ratchet, r.ctx.ratchet, HeaderKeys)
          /\ IdsKept(session[p][q].ratchet, r.ctx.ratchet)
      BY <1>1, <1>4, EndMoves
    <3> QED BY <1>5, <2>2, <3>1, <3>2 DEF PassEnd
  <2> QED BY <2>1, <2>2
<1>10. ShownMail(b.out, p)
  <2>1. CASE r.result # "ok"
    BY <1>1, <1>6, <2>1
  <2>2. CASE r.result = "ok"
    <3> PICK x : x = [peer |-> q, env |-> env]
      OBVIOUS
    <3>1. env.from = q
      BY <1>2, <1>4, <2>2 DEF ContextStep
    <3>2. q \in Endpoint
      BY PeerFacts
    <3>3. x \in [peer : Endpoint, env : Letter] /\ FromPeer(x, p)
      BY <1>2, <3>1, <3>2 DEF FromPeer
    <3>4. /\ a.out \in Seq([peer : Endpoint, env : Letter]) /\ Len(a.out) \in Nat
          /\ \A j \in 1..Len(a.out) : FromPeer(a.out[j], p)
      BY <1>1, LenProperties DEF ShownMail
    <3>5. /\ b.out \in Seq([peer : Endpoint, env : Letter]) /\ Len(b.out) = Len(a.out) + 1
          /\ \A i \in 1..Len(a.out) : b.out[i] = a.out[i]
          /\ b.out[Len(a.out) + 1] = x
      BY <1>6, <2>2, <3>3, <3>4, AppendProperties
    <3>6. ASSUME NEW j \in 1..Len(b.out) PROVE FromPeer(b.out[j], p)
      <4>1. j \in 1..Len(a.out) \/ j = Len(a.out) + 1
        BY <3>4, <3>5
      <4> QED BY <3>3, <3>4, <3>5, <4>1
    <3> QED BY <3>5, <3>6 DEF ShownMail
  <2> QED BY <2>1, <2>2
<1> QED BY <1>1, <1>6, <1>8, <1>9, <1>10 DEF PassInv

\* The beginning of a pass.
LEMMA PassBegins ==
    ASSUME StackInv, NEW p \in Endpoint
    PROVE  PassInv(Pass(p), p)
<1> PICK a : a = Pass(p)
  OBVIOUS
<1>1. /\ a.ctx = session[p] /\ a.kept = << >> /\ a.out = << >> /\ a.opened = opened[p]
      /\ a.errors = errors[p] /\ IsPass(a)
  BY DEF Pass, IsPass
<1>2. /\ session[p] = [q \in PeersOf(p) |-> session[p][q]]
      /\ opened[p] = [q \in PeersOf(p) |-> opened[p][q]]
      /\ errors[p] = [q \in PeersOf(p) |-> errors[p][q]]
  BY DEF StackInv, TablesInv
<1>3. PassTables(a, p)
  BY <1>1, <1>2 DEF PassTables
<1>4. ASSUME NEW q \in PeersOf(p) PROVE PassEnd(a, p, q)
  <2>1. ContextInv(session[p][q], p, q)
    BY DEF StackInv, SessionsInv
  <2>2. session[p][q].ratchet \in Ratchet
    BY <2>1 DEF ContextInv, RatchetInv
  <2>3. /\ Later(session[p][q].ratchet, session[p][q].ratchet, HeaderKeys)
        /\ IdsKept(session[p][q].ratchet, session[p][q].ratchet)
    BY <2>2, LaterSame
  <2>4. CleanContext(session[p][q], errors[p][q], p, q) => InStep(session[p][q], opened[p][q], errors[p][q])
    BY DEF StackInv, CleanInv
  <2> QED BY <1>1, <2>1, <2>3, <2>4 DEF PassEnd
<1>5. KeptMail(a.kept, p) /\ ShownMail(a.out, p)
  BY <1>1, EmptySeq DEF KeptMail, ShownMail
<1> QED BY <1>3, <1>4, <1>5 DEF PassInv

\* One envelope of recv_text: only a plain one, so a letter, is decrypted.
LEMMA PassText ==
    ASSUME LettersInv, SessionsInv, NEW p \in Endpoint, NEW a, PassInv(a, p),
           NEW peer \in PeersOf(p), NEW env, Mail(env, p), env \in Letter \cup {Dummy(p)}
    PROVE  PassInv(TextStep(a, env, peer), p)
<1>1. CASE a.raised \/ IsSealed(env)
  BY <1>1, PassKeeps DEF TextStep
<1>2. CASE ~(a.raised \/ IsSealed(env))
  <2>1. env # Dummy(p)
    BY <1>2 DEF IsSealed, Dummy
  <2>2. env \in Letters /\ env.to = p
    BY <2>1 DEF Mail
  <2> QED BY <1>2, <2>2, PassDecrypts DEF TextStep
<1> QED BY <1>1, <1>2

\* One envelope of recv_sealed: a dummy opens with no root key and is dropped.
LEMMA PassSealed ==
    ASSUME LettersInv, SessionsInv, NEW p \in Endpoint, NEW a, PassInv(a, p),
           NEW drop, NEW env, Mail(env, p), env \in Letter \cup {Dummy(p)}
    PROVE  PassInv(SealedStep(a, env, drop), p)
<1>1. CASE a.raised \/ ~ IsSealed(env)
  BY <1>1, PassKeeps DEF SealedStep
<1>2. CASE ~(a.raised \/ ~ IsSealed(env))
  <2> PICK opens : opens = {q \in DOMAIN a.ctx : Unseals(a.ctx[q], env)}
    OBVIOUS
  <2>1. SealedStep(a, env, drop) =
          IF opens # {} THEN Decrypts(a, CHOOSE q \in opens : TRUE, env)
          ELSE [a EXCEPT !.dropped = @ \cup {env}, !.raised = ~ drop]
    BY <1>2 DEF SealedStep, DecryptsSealed
  <2>2. CASE opens # {}
    <3> PICK q : q = CHOOSE y \in opens : TRUE
      OBVIOUS
    <3>1. q \in opens
      BY <2>2
    <3>2. DOMAIN a.ctx = PeersOf(p)
      BY DEF PassInv, PassTables
    <3>3. q \in PeersOf(p) /\ env.seal = a.ctx[q].ratchet.root_key
      BY <3>1, <3>2 DEF Unseals
    <3>4. a.ctx[q].ratchet \in Ratchet
      BY <3>3 DEF PassInv, PassEnd, ContextInv, RatchetInv
    <3>5. env.seal \in Roots
      BY <3>3, <3>4, RatchetParts
    <3>6. env.seal # None
      BY <3>5, StackAssumption DEF Roots
    <3>7. env # Dummy(p)
      BY <3>6 DEF Dummy
    <3>8. env \in Letters /\ env.to = p
      BY <3>7 DEF Mail
    <3>9. SealedStep(a, env, drop) = Decrypts(a, q, env)
      BY <2>1, <2>2
    <3> QED BY <3>3, <3>8, <3>9, PassDecrypts
  <2>3. CASE opens = {}
    <3>1. SealedStep(a, env, drop) = Drop(a, env, ~ drop)
      BY <2>1, <2>3, Zenon DEF Drop
    <3> PICK raised : raised = ~ drop
      OBVIOUS
    <3>2. PassInv(Drop(a, env, raised), p)
      BY PassDrops
    <3> QED BY <3>1, <3>2
  <2> QED BY <2>2, <2>3
<1> QED BY <1>1, <1>2

IsTextRun(after, first, mail, peer, n) ==
    after = [k \in 0..n |-> IF k = 0 THEN first ELSE TextStep(after[k - 1], mail[k], peer)]

IsSealedRun(after, first, mail, drop, n) ==
    after = [k \in 0..n |-> IF k = 0 THEN first ELSE SealedStep(after[k - 1], mail[k], drop)]

\* The recursive function of recv_text is well defined.
LEMMA TextRunExists ==
    ASSUME NEW first, NEW mail, NEW peer, NEW k \in Nat
    PROVE  \E after : IsTextRun(after, first, mail, peer, k)
<1> DEFINE S == {n \in Nat : \E after : IsTextRun(after, first, mail, peer, n)}
<1>1. 0 \in S
  <2> DEFINE g == [j \in 0..0 |-> first]
  <2>1. IsTextRun(g, first, mail, peer, 0)
    BY DEF IsTextRun
  <2> QED BY <2>1
<1>2. ASSUME NEW n \in S PROVE n + 1 \in S
  <2>1. PICK g : IsTextRun(g, first, mail, peer, n)
    OBVIOUS
  <2> DEFINE h == [j \in 0..(n + 1) |-> IF j = n + 1 THEN TextStep(g[n], mail[n + 1], peer) ELSE g[j]]
  <2>2. IsTextRun(h, first, mail, peer, n + 1)
    BY <2>1 DEF IsTextRun
  <2> QED BY <2>2
<1>3. S = Nat
  <2> HIDE DEF S
  <2>1. S \subseteq Nat BY DEF S
  <2> QED BY <2>1, <1>1, <1>2, InductiveSet
<1> QED BY <1>3

\* ... and that of recv_sealed.
LEMMA SealedRunExists ==
    ASSUME NEW first, NEW mail, NEW drop, NEW k \in Nat
    PROVE  \E after : IsSealedRun(after, first, mail, drop, k)
<1> DEFINE S == {n \in Nat : \E after : IsSealedRun(after, first, mail, drop, n)}
<1>1. 0 \in S
  <2> DEFINE g == [j \in 0..0 |-> first]
  <2>1. IsSealedRun(g, first, mail, drop, 0)
    BY DEF IsSealedRun
  <2> QED BY <2>1
<1>2. ASSUME NEW n \in S PROVE n + 1 \in S
  <2>1. PICK g : IsSealedRun(g, first, mail, drop, n)
    OBVIOUS
  <2> DEFINE h == [j \in 0..(n + 1) |-> IF j = n + 1 THEN SealedStep(g[n], mail[n + 1], drop) ELSE g[j]]
  <2>2. IsSealedRun(h, first, mail, drop, n + 1)
    BY <2>1 DEF IsSealedRun
  <2> QED BY <2>2
<1>3. S = Nat
  <2> HIDE DEF S
  <2>1. S \subseteq Nat BY DEF S
  <2> QED BY <2>1, <1>1, <1>2, InductiveSet
<1> QED BY <1>3

\* A pass whose steps keep the invariant keeps it to the end.
LEMMA PassRuns ==
    ASSUME NEW p, NEW after, NEW n \in Nat, PassInv(after[0], p),
           \A k \in 1..n : PassInv(after[k - 1], p) => PassInv(after[k], p)
    PROVE  \A k \in 0..n : PassInv(after[k], p)
<1> DEFINE S == {k \in Nat : k <= n => PassInv(after[k], p)}
<1>1. 0 \in S
  OBVIOUS
<1>2. ASSUME NEW k \in S PROVE k + 1 \in S
  <2> SUFFICES ASSUME k + 1 <= n PROVE PassInv(after[k + 1], p)
    OBVIOUS
  <2>1. k \in Nat /\ PassInv(after[k], p)
    OBVIOUS
  <2>2. k + 1 \in 1..n /\ (k + 1) - 1 = k
    BY <2>1
  <2> QED BY <2>1, <2>2
<1>3. S = Nat
  <2> HIDE DEF S
  <2>1. S \subseteq Nat BY DEF S
  <2> QED BY <1>1, <1>2, <2>1, InductiveSet
<1> QED BY <1>3

\* A pass over the inbox of p, up to the step that stores its result.
Ran(after, p) ==
    /\ after[0] = Pass(p)
    /\ \A k \in 0..Len(inbox[p]) : PassInv(after[k], p)
    /\ Finish(p, after[Len(inbox[p])])

\* recv_text is a pass that keeps the invariant.
LEMMA TextPass ==
    ASSUME StackInv, NEW p \in Endpoint, NEW peer \in Endpoint, recv_text(p, peer)
    PROVE  \E after : /\ Ran(after, p)
                       /\ \A k \in 1..Len(inbox[p]) : after[k] = TextStep(after[k - 1], inbox[p][k], peer)
<1> PICK mail : mail = inbox[p]
  OBVIOUS
<1> PICK first : first = Pass(p)
  OBVIOUS
<1> PICK n : n = Len(mail)
  OBVIOUS
<1>1. /\ mail \in Seq(Letter \cup {Dummy(p)})
      /\ \A j \in 1..n : Mail(mail[j], p)
  BY DEF StackInv, MailInv, Mail
<1>2. n \in Nat /\ \A j \in 1..n : mail[j] \in Letter \cup {Dummy(p)}
  BY <1>1, LenProperties, ElementOfSeq
<1> DEFINE c == CHOOSE after : IsTextRun(after, first, mail, peer, n)
<1>3. IsTextRun(c, first, mail, peer, n)
  BY <1>2, TextRunExists
<1>4. peer \in PeersOf(p) /\ Finish(p, c[n])
  BY DEF recv_text, IsTextRun
<1> PICK after : after = c
  OBVIOUS
<1>5. IsTextRun(after, first, mail, peer, n) /\ Finish(p, after[n])
  BY <1>3, <1>4
<1> HIDE DEF c
<1>6. after[0] = first /\ \A k \in 1..n : after[k] = TextStep(after[k - 1], mail[k], peer)
  BY <1>2, <1>5 DEF IsTextRun
<1>7. PassInv(after[0], p)
  BY <1>6, PassBegins
<1>8. ASSUME NEW k \in 1..n, PassInv(after[k - 1], p) PROVE PassInv(after[k], p)
  <2>1. Mail(mail[k], p) /\ mail[k] \in Letter \cup {Dummy(p)}
    BY <1>1, <1>2
  <2>2. PassInv(TextStep(after[k - 1], mail[k], peer), p)
    BY <1>4, <1>8, <2>1, PassText DEF StackInv
  <2> QED BY <1>6, <2>2
<1>9. \A k \in 0..n : PassInv(after[k], p)
  BY <1>2, <1>7, <1>8, PassRuns
<1>10. Ran(after, p)
  BY <1>5, <1>6, <1>9 DEF Ran
<1> QED BY <1>6, <1>10

\* ... and so is recv_sealed.
LEMMA SealedPass ==
    ASSUME StackInv, NEW p \in Endpoint, NEW drop \in BOOLEAN, recv_sealed(p, drop)
    PROVE  \E after : /\ Ran(after, p)
                       /\ \A k \in 1..Len(inbox[p]) : after[k] = SealedStep(after[k - 1], inbox[p][k], drop)
<1> PICK mail : mail = inbox[p]
  OBVIOUS
<1> PICK first : first = Pass(p)
  OBVIOUS
<1> PICK n : n = Len(mail)
  OBVIOUS
<1>1. /\ mail \in Seq(Letter \cup {Dummy(p)})
      /\ \A j \in 1..n : Mail(mail[j], p)
  BY DEF StackInv, MailInv, Mail
<1>2. n \in Nat /\ \A j \in 1..n : mail[j] \in Letter \cup {Dummy(p)}
  BY <1>1, LenProperties, ElementOfSeq
<1> DEFINE c == CHOOSE after : IsSealedRun(after, first, mail, drop, n)
<1>3. IsSealedRun(c, first, mail, drop, n)
  BY <1>2, SealedRunExists
<1>4. Finish(p, c[n])
  BY DEF recv_sealed, IsSealedRun
<1> PICK after : after = c
  OBVIOUS
<1>5. IsSealedRun(after, first, mail, drop, n) /\ Finish(p, after[n])
  BY <1>3, <1>4
<1> HIDE DEF c
<1>6. after[0] = first /\ \A k \in 1..n : after[k] = SealedStep(after[k - 1], mail[k], drop)
  BY <1>2, <1>5 DEF IsSealedRun
<1>7. PassInv(after[0], p)
  BY <1>6, PassBegins
<1>8. ASSUME NEW k \in 1..n, PassInv(after[k - 1], p) PROVE PassInv(after[k], p)
  <2>1. Mail(mail[k], p) /\ mail[k] \in Letter \cup {Dummy(p)}
    BY <1>1, <1>2
  <2>2. PassInv(SealedStep(after[k - 1], mail[k], drop), p)
    BY <1>8, <2>1, PassSealed DEF StackInv
  <2> QED BY <1>6, <2>2
<1>9. \A k \in 0..n : PassInv(after[k], p)
  BY <1>2, <1>7, <1>8, PassRuns
<1>10. Ran(after, p)
  BY <1>5, <1>6, <1>9 DEF Ran
<1> QED BY <1>6, <1>10

\* Either ends with a pass that has kept it.
LEMMA RanEnds ==
    ASSUME StackInv, NEW p \in Endpoint, NEW after, Ran(after, p)
    PROVE  \E a : PassInv(a, p) /\ Finish(p, a)
<1>1. Len(inbox[p]) \in 0..Len(inbox[p])
  BY LenProperties DEF StackInv, MailInv
<1> QED BY <1>1 DEF Ran

\* The end of recv_text.
LEMMA ReceiveText ==
    ASSUME StackInv, NEW p \in Endpoint, NEW peer \in Endpoint, recv_text(p, peer)
    PROVE  \E a : PassInv(a, p) /\ Finish(p, a)
BY TextPass, RanEnds

\* The end of recv_sealed.
LEMMA ReceiveSealed ==
    ASSUME StackInv, NEW p \in Endpoint, NEW drop \in BOOLEAN, recv_sealed(p, drop)
    PROVE  \E a : PassInv(a, p) /\ Finish(p, a)
BY SealedPass, RanEnds

-----------------------------------------------------------------------------
(* send_text and encrypt_sealed. *)

\* encrypt has made m and left t behind.
Seals(s, t, m, p, q) ==
    /\ RatchetInv(s, p, q) /\ RatchetInv(t, p, q) /\ SameReceiver(s, t)
    /\ Len(s.root_key) \in Nat /\ Len(s.root_key) <= Len(t.root_key)
    /\ m \in Message /\ m.dh = s.dhs /\ Started(m.mk.root, p, q)
    /\ t.ck_s # None /\ t.ck_s.root = m.mk.root /\ t.ck_s.i = m.mk.i + 1
    /\ s.ck_s # None => m.mk = s.ck_s
    /\ s.ck_s = None => Len(m.mk.root) = Len(s.root_key) + 1
    /\ s.dhs[3] = 0 => m.mk = [root |-> SendRoot(p, q), i |-> m.n] /\ m.pn = 0
    /\ s.dhs[3] > 0 => /\ Len(m.mk.root) >= 3
                       /\ m.mk.root[Len(m.mk.root)] = {s.dhs, s.dhr}

SentWith(c, d, t) ==
    /\ d.ratchet = t /\ d.seen = c.seen /\ d.highest = c.highest /\ d.fork = c.fork
    /\ d.reset = c.reset /\ IsContext(d)

\* The step that makes env, from the state s of the ratchet to t.
Sends(p, q, env, s, t) ==
    /\ q \in PeersOf(p) /\ s = session[p][q].ratchet
    /\ env \in Letter /\ env.from = p /\ env.to = q /\ Seals(s, t, env.m, p, q)
    /\ session' = [x \in Endpoint |-> [y \in PeersOf(x) |-> session'[x][y]]]
    /\ SentWith(session[p][q], session'[p][q], t)
    /\ \A x \in Endpoint : \A y \in PeersOf(x) :
         x # p \/ y # q => session'[x][y] = session[x][y]
    /\ sent \in Seq(Letter) /\ sent' = Append(sent, env)

\* What the senders' steps have in common.
LEMMA EncryptsSends ==
    ASSUME StackInv, NEW p \in Endpoint, NEW q \in Endpoint, NEW env, Encrypts(p, q, env),
           env = Plain(p, q) \/ env = Sealed(p, q)
    PROVE  \E s, t : Sends(p, q, env, s, t)
<1> PICK c : c = session[p][q]
  OBVIOUS
<1> PICK s : s = c.ratchet
  OBVIOUS
<1> PICK t : t = EncryptedState(s)
  OBVIOUS
<1> PICK m : m = Encrypted(s)
  OBVIOUS
<1>1. q \in PeersOf(p)
  BY DEF Encrypts
<1>2. c \in Context /\ RatchetInv(s, p, q)
  BY <1>1 DEF StackInv, SessionsInv, ContextInv
<1>3. Seals(s, t, m, p, q)
  BY <1>1, <1>2, EncryptRatchet DEF Seals
<1> PICK d : d = SentContext(c)
  OBVIOUS
<1>4. SentWith(c, d, t)
  BY <1>2 DEF SentContext, SentWith, IsContext, Context
<1>5. t.root_key \in Roots
  BY <1>3, RatchetParts DEF Seals, RatchetInv
<1>6. env \in Letter /\ env.from = p /\ env.to = q /\ env.m = m
  <2>1. SentMessage(c) = m /\ SealingKey(c) = t.root_key /\ m \in Message
    BY <1>3, <1>4 DEF SentMessage, SealingKey, SentWith, Seals
  <2> PICK key : key = t.root_key
    OBVIOUS
  <2>2. \/ env = [kind |-> "plain", from |-> p, to |-> q, seal |-> None, m |-> m]
        \/ env = [kind |-> "sealed", from |-> p, to |-> q, seal |-> key, m |-> m]
    BY <2>1 DEF Plain, Sealed
  <2>3. key \in Roots
    BY <1>5
  <2> QED BY <2>1, <2>2, <2>3 DEF Letter
<1>7. session = [x \in Endpoint |-> [y \in PeersOf(x) |-> session[x][y]]]
  BY DEF StackInv, TablesInv
<1>8. session' = [session EXCEPT ![p][q] = d]
  BY DEF Encrypts
<1>9. session' = [x \in Endpoint |-> [y \in PeersOf(x) |-> IF x = p /\ y = q THEN d ELSE session[x][y]]]
  BY <1>7, <1>8
<1>10. /\ session' = [x \in Endpoint |-> [y \in PeersOf(x) |-> session'[x][y]]]
       /\ session'[p][q] = d
       /\ \A x \in Endpoint : \A y \in PeersOf(x) :
            x # p \/ y # q => session'[x][y] = session[x][y]
  BY <1>1, <1>9
<1>11. sent \in Seq(Letter) /\ sent' = Append(sent, env)
  BY DEF StackInv, LettersInv, Encrypts
<1>12. Sends(p, q, env, s, t)
  BY <1>1, <1>3, <1>4, <1>6, <1>10, <1>11 DEF Sends
<1> QED BY <1>12

\* The letters and the keys after it.
LEMMA SendsLetters ==
    ASSUME NEW p \in Endpoint, NEW q, NEW env, NEW s, NEW t, Sends(p, q, env, s, t)
    PROVE  /\ Letters' = Letters \cup {env} /\ sent' \in Seq(Letter)
           /\ Len(sent) \in Nat /\ Len(sent') = Len(sent) + 1 /\ sent'[Len(sent')] = env
           /\ \A j \in 1..Len(sent) : sent'[j] = sent[j]
           /\ \A x \in Endpoint : \A y \in PeersOf(x) :
                /\ session'[x][y].ratchet = IF x = p /\ y = q THEN t ELSE session[x][y].ratchet
                /\ session'[x][y].ratchet.dhs = session[x][y].ratchet.dhs
                /\ session'[x][y].ratchet.dhr = session[x][y].ratchet.dhr
           /\ \A k : Known(k) => Known(k)'
<1>1. sent \in Seq(Letter) /\ env \in Letter /\ sent' = Append(sent, env)
  BY DEF Sends
<1>2. /\ sent' \in Seq(Letter) /\ Len(sent) \in Nat /\ Len(sent') = Len(sent) + 1
      /\ \A j \in 1..Len(sent) : sent'[j] = sent[j]
      /\ sent'[Len(sent')] = env
  BY <1>1, AppendProperties, LenProperties
<1>3. Letters' = Letters \cup {env}
  <2>1. ASSUME NEW e \in Letters' PROVE e \in Letters \cup {env}
    <3>1. PICK j \in 1..Len(sent') : e = sent'[j]
      BY DEF Letters
    <3>2. j \in 1..Len(sent) \/ j = Len(sent')
      BY <1>2
    <3> QED BY <1>2, <3>1, <3>2 DEF Letters
  <2>2. ASSUME NEW e \in Letters PROVE e \in Letters'
    <3>1. PICK j \in 1..Len(sent) : e = sent[j]
      BY DEF Letters
    <3>2. j \in 1..Len(sent') /\ sent'[j] = e
      BY <1>2, <3>1
    <3> QED BY <3>2 DEF Letters
  <2>3. env \in Letters'
    <3>1. Len(sent') \in 1..Len(sent')
      BY <1>2
    <3> QED BY <1>2, <3>1 DEF Letters
  <2> QED BY <2>1, <2>2, <2>3
<1>4. ASSUME NEW x \in Endpoint, NEW y \in PeersOf(x)
      PROVE  /\ session'[x][y].ratchet = IF x = p /\ y = q THEN t ELSE session[x][y].ratchet
             /\ session'[x][y].ratchet.dhs = session[x][y].ratchet.dhs
             /\ session'[x][y].ratchet.dhr = session[x][y].ratchet.dhr
  <2>1. CASE x = p /\ y = q
    BY <2>1 DEF Sends, SentWith, Seals, SameReceiver
  <2>2. CASE ~(x = p /\ y = q)
    BY <2>2 DEF Sends
  <2> QED BY <2>1, <2>2
<1>5. ASSUME NEW k, Known(k) PROVE Known(k)'
  <2>1. k[1] \in Endpoint /\ k[2] \in PeersOf(k[1])
    BY <1>5 DEF Known, OwnedKey
  <2> QED BY <1>4, <1>5, <2>1 DEF Known
<1> QED BY <1>2, <1>3, <1>4, <1>5

\* The new message is in order, and its sender has left it behind.
LEMMA SendKeepsLetters ==
    ASSUME StackInv, NEW p \in Endpoint, NEW q \in Endpoint, NEW env, NEW s, NEW t,
           Sends(p, q, env, s, t)
    PROVE  LettersInv'
<1>1. /\ q \in PeersOf(p) /\ s = session[p][q].ratchet /\ env \in Letter
      /\ env.from = p /\ env.to = q
  BY DEF Sends
<1> PICK m : m = env.m
  OBVIOUS
<1>2. /\ RatchetInv(s, p, q) /\ RatchetInv(t, p, q) /\ SameReceiver(s, t)
      /\ Len(s.root_key) \in Nat /\ Len(s.root_key) <= Len(t.root_key)
      /\ m \in Message /\ m.dh = s.dhs /\ Started(m.mk.root, p, q)
      /\ t.ck_s # None /\ t.ck_s.root = m.mk.root /\ t.ck_s.i = m.mk.i + 1
      /\ s.ck_s # None => m.mk = s.ck_s
      /\ s.ck_s = None => Len(m.mk.root) = Len(s.root_key) + 1
      /\ s.dhs[3] = 0 => m.mk = [root |-> SendRoot(p, q), i |-> m.n] /\ m.pn = 0
      /\ s.dhs[3] > 0 => /\ Len(m.mk.root) >= 3
                         /\ m.mk.root[Len(m.mk.root)] = {s.dhs, s.dhr}
  BY DEF Sends, Seals
<1>3. /\ Letters' = Letters \cup {env} /\ sent' \in Seq(Letter)
      /\ \A x \in Endpoint : \A y \in PeersOf(x) :
           session'[x][y].ratchet = IF x = p /\ y = q THEN t ELSE session[x][y].ratchet
      /\ \A k : Known(k) => Known(k)'
  BY SendsLetters
<1>4. m.mk \in Chain /\ m.mk.root \in Roots /\ m.mk.i \in Nat /\ Len(m.mk.root) \in Nat
  <2>1. m.mk \in Chain
    BY <1>2, HeaderParts
  <2>2. m.mk.root \in Roots /\ m.mk.i \in Nat
    BY <2>1, ChainFields
  <2> QED BY <2>1, <2>2, LenProperties DEF Roots
<1>5. t.dhs = s.dhs /\ s.dhs[1] = p /\ s.dhs[2] = q /\ s.dhs[3] \in Nat
  <2>1. s \in Ratchet /\ s.dhs[1] = p /\ s.dhs[2] = q
    BY <1>2 DEF RatchetInv
  <2> QED BY <1>2, <2>1, RatchetParts DEF SameReceiver
<1>6. MessageInv(m, p, q)'
  <2>1. s.dhs[3] > 0 => \E d : Known(d)' /\ m.mk.root[Len(m.mk.root)] = {m.dh, d}
    <3>1. Known(s.dhr)
      BY <1>1 DEF StackInv, KeysInv, Met
    <3>2. Known(s.dhr)'
      BY <1>3, <3>1
    <3> QED BY <1>2, <3>2
  <2> QED BY <1>2, <1>5, <2>1 DEF MessageInv
<1>7. LeftBehind(m, t)
  <2>1. Len(t.ck_s.root) <= Len(t.root_key)
    BY <1>2 DEF RatchetInv
  <2> QED BY <1>2, <1>4, <1>5, <2>1 DEF LeftBehind
<1>8. ASSUME NEW e \in Letters
      PROVE  /\ e.to \in PeersOf(e.from) /\ MessageInv(e.m, e.from, e.to)'
             /\ LeftBehind(e.m, session'[e.from][e.to].ratchet)
  <2>1. /\ e.to \in PeersOf(e.from) /\ MessageInv(e.m, e.from, e.to)
        /\ LeftBehind(e.m, session[e.from][e.to].ratchet)
    BY DEF StackInv, LettersInv
  <2>2. e \in Letter
    BY ElementOfSeq DEF StackInv, LettersInv, Letters
  <2>3. e.from \in Endpoint /\ e.m \in Message
    BY <2>2 DEF Letter
  <2>4. MessageInv(e.m, e.from, e.to)'
    BY <1>3, <2>1 DEF MessageInv
  <2>5. CASE ~(e.from = p /\ e.to = q)
    BY <1>3, <2>1, <2>3, <2>4, <2>5
  <2>6. CASE e.from = p /\ e.to = q
    <3>1. LeftBehind(e.m, s)
      BY <1>1, <2>1, <2>6
    <3>2. e.m.mk \in Chain
      BY <2>3, HeaderParts
    <3>3. e.m.mk.root \in Roots /\ e.m.mk.i \in Nat
      BY <3>2, ChainFields
    <3>4. Len(e.m.mk.root) \in Nat
      BY <3>3, LenProperties DEF Roots
    <3>5. Len(t.root_key) \in Nat
      BY <1>2, RatchetParts, LenProperties DEF RatchetInv, Roots
    <3> PICK x : x = e.m
      OBVIOUS
    <3>11. /\ x.dh[3] <= s.dhs[3] /\ Len(x.mk.root) <= Len(s.root_key)
           /\ x.dh = s.dhs => s.ck_s # None /\ x.mk.root = s.ck_s.root /\ x.mk.i < s.ck_s.i
           /\ x.dh # s.dhs /\ s.ck_s # None => Len(x.mk.root) < Len(s.ck_s.root)
      BY <3>1 DEF LeftBehind
    <3>12. t.ck_s.root = m.mk.root /\ t.ck_s.i = m.mk.i + 1 /\ t.dhs = s.dhs
      BY <1>2, <1>5
    <3>13. /\ s.ck_s # None => m.mk = s.ck_s
           /\ s.ck_s = None => Len(m.mk.root) = Len(s.root_key) + 1
           /\ Len(s.root_key) \in Nat /\ Len(s.root_key) <= Len(t.root_key)
      BY <1>2
    <3>6. x.dh[3] <= t.dhs[3] /\ Len(x.mk.root) <= Len(t.root_key)
      <4>1. Len(x.mk.root) \in Nat
        BY <3>4
      <4> QED BY <3>5, <3>11, <3>12, <3>13, <4>1
    <3>7. x.dh = t.dhs => x.mk.root = t.ck_s.root /\ x.mk.i < t.ck_s.i
      <4>1. x.mk.i \in Nat
        BY <3>3
      <4> QED BY <1>4, <3>11, <3>12, <3>13, <4>1
    <3>8. x.dh # t.dhs => Len(x.mk.root) < Len(t.ck_s.root)
      <4>1. Len(x.mk.root) \in Nat
        BY <3>4
      <4> QED BY <3>11, <3>12, <3>13, <4>1
    <3>9. LeftBehind(e.m, t)
      BY <1>2, <3>6, <3>7, <3>8 DEF LeftBehind
    <3>10. session'[e.from][e.to].ratchet = t
      BY <1>1, <1>3, <2>6
    <3> QED BY <2>1, <2>4, <3>9, <3>10
  <2> QED BY <2>5, <2>6
<1>9. session'[p][q].ratchet = t
  BY <1>1, <1>3
<1>10. ASSUME NEW e \in Letters'
       PROVE  /\ e.to \in PeersOf(e.from) /\ MessageInv(e.m, e.from, e.to)'
              /\ LeftBehind(e.m, session'[e.from][e.to].ratchet)
  <2>1. CASE e \in Letters
    BY <1>8, <2>1
  <2>2. CASE e = env
    BY <1>1, <1>6, <1>7, <1>9, <2>2
  <2> QED BY <1>3, <2>1, <2>2
<1> QED BY <1>3, <1>10 DEF LettersInv

\* The last secret of a later message of q cannot be that of p's next chain: one
\* of the two keys was met before the other was made.
LEMMA LastSecrets ==
    ASSUME StackInv, NEW p \in Endpoint, NEW q \in PeersOf(p), NEW s, s = session[p][q].ratchet,
           NEW f \in Letters, f.from = q, f.to = p, f.m.dh[3] > 0
    PROVE  f.m.mk.root[Len(f.m.mk.root)] # {s.dhs, s.dhr}
<1>1. RatchetInv(s, p, q) /\ OlderInv(s, p, q)
  BY DEF StackInv, SessionsInv, ContextInv, KeysInv
<1>2. p # q /\ s.dhs[1] = p
  BY <1>1, PeerFacts DEF RatchetInv
<1>3. MessageInv(f.m, q, p)
  BY DEF StackInv, LettersInv
<1>4. PICK d : f.m.mk.root[Len(f.m.mk.root)] = {f.m.dh, d}
  BY <1>3 DEF MessageInv
<1>5. f.m.dh[1] = q
  BY <1>3 DEF MessageInv
<1>6. SUFFICES ASSUME {f.m.dh, d} = {s.dhs, s.dhr} PROVE FALSE
  BY <1>4
<1>7. f.m.dh = s.dhr
  BY <1>2, <1>5, <1>6
<1>8. s.dhs \notin {f.m.dh, d}
  BY <1>1, <1>4, <1>7 DEF OlderInv
<1> QED BY <1>6, <1>8

\* The peer's keys stay older than the own key.
LEMMA SendKeepsKeys ==
    ASSUME StackInv, NEW p \in Endpoint, NEW q \in Endpoint, NEW env, NEW s, NEW t,
           Sends(p, q, env, s, t)
    PROVE  KeysInv'
<1>1. /\ q \in PeersOf(p) /\ s = session[p][q].ratchet /\ env.from = p /\ env.to = q
      /\ RatchetInv(s, p, q) /\ env.m.dh = s.dhs
      /\ s.dhs[3] > 0 => env.m.mk.root[Len(env.m.mk.root)] = {s.dhs, s.dhr}
  BY DEF Sends, Seals
<1>2. /\ Letters' = Letters \cup {env}
      /\ \A x \in Endpoint : \A y \in PeersOf(x) :
           /\ session'[x][y].ratchet.dhs = session[x][y].ratchet.dhs
           /\ session'[x][y].ratchet.dhr = session[x][y].ratchet.dhr
      /\ \A k : Known(k) => Known(k)'
  BY SendsLetters
<1>3. p # q /\ p \in PeersOf(q) /\ s.dhs[1] = p
  BY <1>1, PeerFacts DEF RatchetInv
<1> PICK z : z = session[q][p].ratchet
  OBVIOUS
<1>4. RatchetInv(z, q, p)
  BY <1>3 DEF StackInv, SessionsInv, ContextInv
<1>5. ASSUME env.m.dh = z.dhr, env.m.dh[3] > 0
      PROVE  z.dhs \notin env.m.mk.root[Len(env.m.mk.root)]
  <2>1. env.m.mk.root[Len(env.m.mk.root)] = {s.dhs, s.dhr}
    BY <1>1, <1>5
  <2>2. z.dhs[1] = q /\ z.dhs[2] = p /\ z \in Ratchet
    BY <1>4 DEF RatchetInv
  <2>3. z.dhs # s.dhs
    BY <1>3, <2>2
  <2>4. z.dhs[3] \in Nat /\ z.dhs[3] > 0
    <3>1. z.dhs[3] \in Nat
      BY <2>2, RatchetParts
    <3>2. ASSUME z.dhs[3] = 0 PROVE FALSE
      <4>1. z.dhr = FirstKey(p, q)
        BY <1>4, <3>2 DEF RatchetInv, FirstPhase
      <4> QED BY <1>5, <4>1 DEF FirstKey
    <3> QED BY <3>1, <3>2
  <2>5. ASSUME z.dhs = s.dhr PROVE FALSE
    <3>1. PICK f \in Letters : f.m.dh = s.dhr
      BY <1>1, <2>4, <2>5 DEF StackInv, KeysInv, Met
    <3>2. /\ MessageInv(f.m, f.from, f.to) /\ LeftBehind(f.m, session[f.from][f.to].ratchet)
      BY DEF StackInv, LettersInv
    <3>3. f.from = q /\ f.to = p
      BY <2>2, <2>5, <3>1, <3>2 DEF MessageInv
    <3>4. z.ck_s # None /\ f.m.mk.root = z.ck_s.root
      BY <2>5, <3>1, <3>2, <3>3 DEF LeftBehind
    <3>5. z.ck_s.root[Len(z.ck_s.root)] = {z.dhs, z.dhr}
      BY <1>4, <2>4, <3>4 DEF RatchetInv, LaterPhase
    <3>6. f.m.mk.root[Len(f.m.mk.root)] = {s.dhr, s.dhs}
      BY <1>1, <1>5, <2>5, <3>4, <3>5
    <3>7. f.m.dh[3] > 0
      BY <2>4, <2>5, <3>1
    <3>8. f.m.mk.root[Len(f.m.mk.root)] # {s.dhs, s.dhr}
      BY <1>1, <3>3, <3>7, LastSecrets
    <3> QED BY <3>6, <3>8
  <2> QED BY <2>1, <2>3, <2>5
<1>6. ASSUME NEW x \in Endpoint, NEW y \in PeersOf(x)
      PROVE  Met(session[x][y].ratchet.dhr)' /\ OlderInv(session[x][y].ratchet, x, y)'
  <2> PICK u : u = session[x][y].ratchet
    OBVIOUS
  <2>1. Met(u.dhr) /\ OlderInv(u, x, y)
    BY DEF StackInv, KeysInv
  <2>2. session'[x][y].ratchet.dhs = u.dhs /\ session'[x][y].ratchet.dhr = u.dhr
    BY <1>2
  <2>3. Met(u.dhr)'
    BY <1>2, <2>1 DEF Met
  <2>4. ASSUME NEW e \in Letters', e.from = y, e.to = x, e.m.dh = u.dhr, e.m.dh[3] > 0
        PROVE  u.dhs \notin e.m.mk.root[Len(e.m.mk.root)]
    <3>1. CASE e \in Letters
      BY <2>1, <2>4, <3>1 DEF OlderInv
    <3>2. CASE e = env
      BY <1>1, <1>5, <2>4, <3>2
    <3> QED BY <1>2, <3>1, <3>2
  <2>5. OlderInv(session[x][y].ratchet, x, y)'
    BY <2>2, <2>4 DEF OlderInv
  <2> QED BY <2>2, <2>3, <2>5
<1> QED BY <1>6 DEF KeysInv

\* No secret starts a later chain of both ends.
LEMMA SendKeepsDisjoint ==
    ASSUME StackInv, NEW p \in Endpoint, NEW q \in Endpoint, NEW env, NEW s, NEW t,
           Sends(p, q, env, s, t)
    PROVE  DisjointInv'
<1>1. /\ q \in PeersOf(p) /\ s = session[p][q].ratchet /\ env.from = p /\ env.to = q
      /\ env.m.dh = s.dhs
      /\ s.dhs[3] > 0 => env.m.mk.root[Len(env.m.mk.root)] = {s.dhs, s.dhr}
  BY DEF Sends, Seals
<1>2. Letters' = Letters \cup {env}
  BY SendsLetters
<1>3. p # q
  BY <1>1, PeerFacts
<1>4. ASSUME NEW f \in Letters, f.from = q, f.to = p, f.m.dh[3] > 0, env.m.dh[3] > 0
      PROVE  f.m.mk.root[Len(f.m.mk.root)] # env.m.mk.root[Len(env.m.mk.root)]
  <2>1. f.m.mk.root[Len(f.m.mk.root)] # {s.dhs, s.dhr}
    BY <1>1, <1>4, LastSecrets
  <2> QED BY <1>1, <1>4, <2>1
<1>5. ASSUME NEW e \in Letters', NEW f \in Letters', e.from = f.to, e.to = f.from,
             e.m.dh[3] > 0, f.m.dh[3] > 0
      PROVE  e.m.mk.root[Len(e.m.mk.root)] # f.m.mk.root[Len(f.m.mk.root)]
  <2>1. CASE e \in Letters /\ f \in Letters
    BY <1>5, <2>1 DEF StackInv, DisjointInv
  <2>2. CASE e = env /\ f \in Letters
    BY <1>1, <1>4, <1>5, <2>2
  <2>3. CASE e \in Letters /\ f = env
    BY <1>1, <1>4, <1>5, <2>3
  <2>4. CASE e = env /\ f = env
    BY <1>1, <1>3, <1>5, <2>4
  <2> QED BY <1>2, <2>1, <2>2, <2>3, <2>4
<1> QED BY <1>5 DEF DisjointInv

\* The new message has a key of its own.
LEMMA SendKeepsNoReuse ==
    ASSUME StackInv, NEW p \in Endpoint, NEW q \in Endpoint, NEW env, NEW s, NEW t,
           Sends(p, q, env, s, t)
    PROVE  NoKeyReuse'
<1> PICK m : m = env.m
  OBVIOUS
<1>1. /\ q \in PeersOf(p) /\ s = session[p][q].ratchet /\ env.from = p /\ env.to = q
      /\ RatchetInv(s, p, q) /\ Len(s.root_key) \in Nat
      /\ m \in Message /\ m.dh = s.dhs /\ Started(m.mk.root, p, q)
      /\ s.ck_s # None => m.mk = s.ck_s
      /\ s.ck_s = None => Len(m.mk.root) = Len(s.root_key) + 1
      /\ s.dhs[3] = 0 => m.mk = [root |-> SendRoot(p, q), i |-> m.n]
      /\ s.dhs[3] > 0 => /\ Len(m.mk.root) >= 3
                         /\ m.mk.root[Len(m.mk.root)] = {s.dhs, s.dhr}
  BY DEF Sends, Seals
<1>2. /\ Len(sent) \in Nat /\ Len(sent') = Len(sent) + 1 /\ sent'[Len(sent')] = env
      /\ \A j \in 1..Len(sent) : sent'[j] = sent[j]
  BY SendsLetters
<1>3. s.dhs[3] \in Nat
  BY <1>1, RatchetParts DEF RatchetInv
<1>4. ASSUME NEW e \in Letters PROVE e.m.mk # m.mk
  <2>1. /\ e.to \in PeersOf(e.from) /\ MessageInv(e.m, e.from, e.to)
        /\ LeftBehind(e.m, session[e.from][e.to].ratchet)
    BY DEF StackInv, LettersInv
  <2>2. e.m \in Message /\ Started(e.m.mk.root, e.from, e.to)
    BY <2>1 DEF MessageInv
  <2>3. e.m.mk \in Chain /\ e.m.dh[3] \in Nat
    BY <2>2 DEF Message, OwnedKey
  <2>4. e.m.mk.root \in Roots /\ e.m.mk.i \in Nat
    BY <2>3, ChainFields
  <2>5. Len(e.m.mk.root) \in Nat
    BY <2>4, LenProperties DEF Roots
  <2> SUFFICES ASSUME e.m.mk = m.mk PROVE FALSE
    OBVIOUS
  <2>6. Secret(p, q) = Secret(e.from, e.to)
    BY <1>1, <2>2 DEF Started
  <2>7. CASE e.from = p /\ e.to = q
    <3>1. LeftBehind(e.m, s)
      BY <1>1, <2>1, <2>7
    <3>2. CASE s.ck_s # None
      BY <1>1, <2>4, <2>5, <3>1, <3>2 DEF LeftBehind
    <3>3. CASE s.ck_s = None
      BY <1>1, <2>5, <3>1, <3>3 DEF LeftBehind
    <3> QED BY <3>2, <3>3
  <2>8. CASE e.from = q /\ e.to = p
    <3>1. /\ Len(SendRoot(p, q)) \in 1..2 /\ Len(SendRoot(q, p)) \in 1..2
          /\ Len(SendRoot(p, q)) # Len(SendRoot(q, p))
      BY <1>1, FirstRoots, PeerFacts
    <3>2. /\ e.m.dh[3] = 0 => Len(e.m.mk.root) = Len(SendRoot(q, p))
          /\ e.m.dh[3] > 0 => Len(e.m.mk.root) >= 3
      BY <2>1, <2>8 DEF MessageInv
    <3>3. s.dhs[3] = 0 => Len(m.mk.root) = Len(SendRoot(p, q))
      BY <1>1
    <3>4. e.m.dh[3] > 0 /\ s.dhs[3] > 0
      <4>1. Len(m.mk.root) = Len(e.m.mk.root)
        OBVIOUS
      <4>2. s.dhs[3] > 0 => Len(m.mk.root) >= 3
        BY <1>1
      <4> PICK l : l = Len(SendRoot(p, q))
        OBVIOUS
      <4> PICK k : k = Len(SendRoot(q, p))
        OBVIOUS
      <4>3. l \in 1..2 /\ k \in 1..2 /\ l # k
        BY <3>1
      <4>4. /\ e.m.dh[3] = 0 => Len(e.m.mk.root) = k
            /\ s.dhs[3] = 0 => Len(e.m.mk.root) = l
        BY <3>2, <3>3, <4>1
      <4> QED BY <1>3, <2>3, <2>5, <3>2, <4>1, <4>2, <4>3, <4>4
    <3>5. e.m.mk.root[Len(e.m.mk.root)] # {s.dhs, s.dhr}
      BY <1>1, <2>8, <3>4, LastSecrets
    <3> QED BY <1>1, <3>4, <3>5
  <2> QED BY <2>6, <2>7, <2>8, SecretNames
<1>5. ASSUME NEW j \in 1..Len(sent'), NEW k \in 1..Len(sent'), sent'[j].m.mk = sent'[k].m.mk
      PROVE  j = k
  <2>1. CASE j \in 1..Len(sent) /\ k \in 1..Len(sent)
    BY <1>2, <1>5, <2>1 DEF StackInv, NoKeyReuse
  <2>2. ASSUME NEW i \in 1..Len(sent) PROVE sent'[i].m.mk # env.m.mk
    <3>1. sent[i] \in Letters
      BY DEF Letters
    <3> QED BY <1>2, <1>4, <3>1
  <2>3. (j \in 1..Len(sent) \/ j = Len(sent')) /\ (k \in 1..Len(sent) \/ k = Len(sent'))
    BY <1>2
  <2> QED BY <1>2, <1>5, <2>1, <2>2, <2>3
<1> QED BY <1>5 DEF NoKeyReuse

\* The inbox of p, when L is what was ever sent.
MailBox(mail, p, L) ==
    /\ mail \in Seq(Letter \cup {Dummy(p)})
    /\ \A j \in 1..Len(mail) : (mail[j] \in L /\ mail[j].to = p) \/ mail[j] = Dummy(p)

\* MailInv, inbox by inbox.
LEMMA MailBoxes ==
    MailInv <=> transit \subseteq Letters /\ \A p \in Endpoint : MailBox(inbox[p], p, Letters)
BY DEF MailInv, MailBox

\* One more envelope in an inbox.
LEMMA MailAppended ==
    ASSUME NEW p, NEW L, NEW mail, MailBox(mail, p, L), NEW env \in Letter \cup {Dummy(p)},
           (env \in L /\ env.to = p) \/ env = Dummy(p)
    PROVE  MailBox(Append(mail, env), p, L)
<1> PICK new : new = Append(mail, env)
  OBVIOUS
<1>1. /\ mail \in Seq(Letter \cup {Dummy(p)}) /\ Len(mail) \in Nat
      /\ \A j \in 1..Len(mail) : (mail[j] \in L /\ mail[j].to = p) \/ mail[j] = Dummy(p)
  BY LenProperties DEF MailBox
<1>2. /\ new \in Seq(Letter \cup {Dummy(p)}) /\ Len(new) = Len(mail) + 1
      /\ \A i \in 1..Len(mail) : new[i] = mail[i]
      /\ new[Len(mail) + 1] = env
  BY <1>1, AppendProperties
<1>3. ASSUME NEW j \in 1..Len(new)
      PROVE  (new[j] \in L /\ new[j].to = p) \/ new[j] = Dummy(p)
  <2>1. j \in 1..Len(mail) \/ j = Len(mail) + 1
    BY <1>1, <1>2
  <2> QED BY <1>1, <1>2, <2>1
<1> QED BY <1>2, <1>3 DEF MailBox

\* More may have been sent meanwhile.
LEMMA MailMore ==
    ASSUME NEW p, NEW L, NEW M, L \subseteq M, NEW mail, MailBox(mail, p, L)
    PROVE  MailBox(mail, p, M)
BY DEF MailBox

\* A step that appends env to the inbox of q.
LEMMA MailArrives ==
    ASSUME TablesInv, MailInv, NEW q \in Endpoint, NEW env \in Letter \cup {Dummy(q)},
           inbox' = [inbox EXCEPT ![q] = Append(@, env)], Letters \subseteq Letters',
           (env \in Letters' /\ env.to = q) \/ env = Dummy(q),
           transit' \subseteq Letters'
    PROVE  MailInv' /\ inbox' = [p \in Endpoint |-> inbox'[p]]
<1> PICK L : L = Letters'
  OBVIOUS
<1>1. inbox = [p \in Endpoint |-> inbox[p]]
  BY DEF TablesInv
<1>2. inbox' = [p \in Endpoint |-> IF p = q THEN Append(inbox[q], env) ELSE inbox[p]]
  BY <1>1
<1>3. ASSUME NEW p \in Endpoint PROVE MailBox(inbox'[p], p, L)
  <2>1. MailBox(inbox[p], p, Letters)
    BY MailBoxes
  <2>2. MailBox(inbox[p], p, L)
    BY <2>1, MailMore
  <2>3. CASE p # q
    BY <1>2, <2>2, <2>3
  <2>4. CASE p = q
    <3>1. MailBox(Append(inbox[q], env), q, L)
      BY <2>2, <2>4, MailAppended
    <3> QED BY <1>2, <2>4, <3>1
  <2> QED BY <2>3, <2>4
<1>4. MailInv'
  BY <1>3 DEF MailInv, MailBox
<1> QED BY <1>2, <1>4

\* Sending leaves the receiving side of all sessions as it was.
LEMMA SendKeepsRest ==
    ASSUME StackInv, NEW p \in Endpoint, NEW q \in Endpoint, NEW env, NEW s, NEW t,
           Sends(p, q, env, s, t), UNCHANGED history
    PROVE  SessionsInv' /\ CleanInv' /\ ShownTypes' /\ ShownFromPeer'
<1> PICK c : c = session[p][q]
  OBVIOUS
<1> PICK d : d = session'[p][q]
  OBVIOUS
<1>1. q \in PeersOf(p) /\ s = c.ratchet /\ SentWith(c, d, t) /\ Seals(s, t, env.m, p, q)
  BY DEF Sends
<1>2. /\ d.ratchet = t /\ d.seen = c.seen /\ d.highest = c.highest /\ d.fork = c.fork
      /\ d.reset = c.reset /\ IsContext(d)
  BY <1>1 DEF SentWith
<1>3. RatchetInv(t, p, q) /\ SameReceiver(s, t)
  BY <1>1 DEF Seals
<1>4. ContextInv(c, p, q)
  BY <1>1 DEF StackInv, SessionsInv
<1>5. ContextInv(d, p, q)
  <2>1. c \in Context /\ t \in Ratchet
    BY <1>3, <1>4 DEF ContextInv, RatchetInv
  <2>2. d \in Context
    BY <1>2, <2>1, ContextParts, ContextMade
  <2> QED BY <1>1, <1>2, <1>3, <1>4, <2>2 DEF ContextInv, SameReceiver
<1>6. ASSUME NEW x \in Endpoint, NEW y \in PeersOf(x), x # p \/ y # q
      PROVE  session'[x][y] = session[x][y]
  BY <1>6 DEF Sends
<1>7. SessionsInv'
  <2>1. ASSUME NEW x \in Endpoint, NEW y \in PeersOf(x) PROVE ContextInv(session'[x][y], x, y)
    <3>1. CASE x = p /\ y = q
      BY <1>5, <3>1
    <3>2. CASE x # p \/ y # q
      BY <1>6, <3>2 DEF StackInv, SessionsInv
    <3> QED BY <3>1, <3>2
  <2> QED BY <2>1 DEF SessionsInv
<1>8. opened' = opened /\ errors' = errors /\ shown' = shown
  BY DEF history
<1>9. ASSUME NEW x \in Endpoint, NEW y \in PeersOf(x)
      PROVE  CleanContext(session'[x][y], errors[x][y], x, y) =>
                 InStep(session'[x][y], opened[x][y], errors[x][y])
  <2>1. CleanContext(session[x][y], errors[x][y], x, y) =>
            InStep(session[x][y], opened[x][y], errors[x][y])
    BY DEF StackInv, CleanInv
  <2>2. CASE x = p /\ y = q
    <3>1. CleanContext(d, errors[p][q], p, q) => CleanContext(c, errors[p][q], p, q)
      BY <1>2 DEF CleanContext
    <3>2. /\ d.ratchet.dhs = c.ratchet.dhs /\ d.ratchet.ck_r = c.ratchet.ck_r
          /\ d.ratchet.Nr = c.ratchet.Nr
      BY <1>1, <1>2, <1>3 DEF SameReceiver
    <3>3. InStep(c, opened[p][q], errors[p][q]) => InStep(d, opened[p][q], errors[p][q])
      BY <1>2, <3>2 DEF InStep
    <3> QED BY <2>1, <2>2, <3>1, <3>3
  <2>3. CASE x # p \/ y # q
    BY <1>6, <2>1, <2>3
  <2> QED BY <2>2, <2>3
<1>10. CleanInv'
  BY <1>8, <1>9 DEF CleanInv
<1>11. ShownTypes' /\ ShownFromPeer'
  BY <1>8 DEF StackInv, ShownTypes, ShownFromPeer
<1> QED BY <1>7, <1>10, <1>11

\* send_text and SendRelayed, up to where the envelope goes.
LEMMA SendKeeps ==
    ASSUME StackInv, NEW p \in Endpoint, NEW q \in Endpoint, NEW env, Encrypts(p, q, env),
           env = Plain(p, q) \/ env = Sealed(p, q)
    PROVE  /\ SessionsInv' /\ LettersInv' /\ KeysInv' /\ DisjointInv' /\ NoKeyReuse'
           /\ ShownTypes' /\ ShownFromPeer' /\ CleanInv'
           /\ inbox' = [x \in Endpoint |-> inbox'[x]] => TablesInv'
           /\ Letters' = Letters \cup {env} /\ env \in Letter /\ env.to = q
<1>1. UNCHANGED history
  BY DEF Encrypts
<1>2. PICK s, t : Sends(p, q, env, s, t)
  BY EncryptsSends
<1>3. SessionsInv' /\ CleanInv' /\ ShownTypes' /\ ShownFromPeer'
  BY <1>1, <1>2, SendKeepsRest
<1>4. LettersInv' /\ KeysInv' /\ DisjointInv' /\ NoKeyReuse'
  BY <1>2, SendKeepsLetters, SendKeepsKeys, SendKeepsDisjoint, SendKeepsNoReuse
<1>5. session' = [x \in Endpoint |-> [y \in PeersOf(x) |-> session'[x][y]]]
  BY <1>2 DEF Sends
<1>6. inbox' = [x \in Endpoint |-> inbox'[x]] => TablesInv'
  BY <1>1, <1>5 DEF StackInv, TablesInv, history
<1>7. Letters' = Letters \cup {env} /\ env \in Letter /\ env.to = q
  <2>1. Letters' = Letters \cup {env}
    BY <1>2, SendsLetters
  <2>2. env \in Letter /\ env.to = q
    BY <1>2 DEF Sends
  <2> QED BY <2>1, <2>2
<1> QED BY <1>3, <1>4, <1>6, <1>7

\* send_text keeps the invariant.
LEMMA SendTextStep ==
    ASSUME StackInv, NEW p \in Endpoint, NEW q \in Endpoint, NEW sealed \in BOOLEAN,
           send_text(p, q, sealed)
    PROVE  StackInv'
<1>1. PICK env : /\ env = Plain(p, q) \/ env = Sealed(p, q)
                 /\ Encrypts(p, q, env)
                 /\ inbox' = [inbox EXCEPT ![q] = Append(@, env)]
                 /\ UNCHANGED transit
  BY DEF send_text
<1>2. /\ SessionsInv' /\ LettersInv' /\ KeysInv' /\ DisjointInv' /\ NoKeyReuse'
      /\ ShownTypes' /\ ShownFromPeer' /\ CleanInv'
      /\ inbox' = [x \in Endpoint |-> inbox'[x]] => TablesInv'
      /\ Letters' = Letters \cup {env} /\ env \in Letter /\ env.to = q
  BY <1>1, SendKeeps
<1>3. TablesInv /\ MailInv /\ transit' \subseteq Letters'
  BY <1>1, <1>2 DEF StackInv, MailInv
<1>4. MailInv' /\ inbox' = [x \in Endpoint |-> inbox'[x]]
  BY <1>1, <1>2, <1>3, MailArrives
<1> QED BY <1>2, <1>4 DEF StackInv

\* SendRelayed keeps the invariant.
LEMMA SendRelayedStep ==
    ASSUME StackInv, NEW p \in Endpoint, NEW q \in Endpoint, SendRelayed(p, q)
    PROVE  StackInv'
<1> PICK env : env = Sealed(p, q)
  OBVIOUS
<1>1. Encrypts(p, q, env) /\ transit' = transit \cup {env} /\ inbox' = inbox
  BY DEF SendRelayed
<1>2. /\ SessionsInv' /\ LettersInv' /\ KeysInv' /\ DisjointInv' /\ NoKeyReuse'
      /\ ShownTypes' /\ ShownFromPeer' /\ CleanInv'
      /\ inbox' = [x \in Endpoint |-> inbox'[x]] => TablesInv'
      /\ Letters' = Letters \cup {env} /\ env \in Letter /\ env.to = q
  BY <1>1, SendKeeps
<1>3. TablesInv'
  BY <1>1, <1>2 DEF StackInv, TablesInv
<1>4. MailInv'
  BY <1>1, <1>2 DEF StackInv, MailInv
<1> QED BY <1>2, <1>3, <1>4 DEF StackInv

-----------------------------------------------------------------------------
(* The relay. *)

\* A step of the relay leaves all but inbox and transit alone.
LEMMA RelayStep ==
    ASSUME StackInv, UNCHANGED <<session, sent, history>>, MailInv',
           inbox' = [x \in Endpoint |-> inbox'[x]]
    PROVE  StackInv'
<1>1. session' = session /\ sent' = sent /\ opened' = opened /\ shown' = shown /\ errors' = errors
  BY DEF history
<1>2. Letters' = Letters
  BY <1>1 DEF Letters
<1>3. \A k : Known(k)' <=> Known(k)
  BY <1>1 DEF Known
<1>4. TablesInv'
  BY <1>1 DEF StackInv, TablesInv
<1>5. SessionsInv'
  BY <1>1 DEF StackInv, SessionsInv
<1>6. LettersInv'
  BY <1>1, <1>2, <1>3 DEF StackInv, LettersInv, MessageInv
<1>7. KeysInv'
  BY <1>1, <1>2, <1>3 DEF StackInv, KeysInv, Met, OlderInv
<1>8. DisjointInv' /\ NoKeyReuse'
  BY <1>1, <1>2 DEF StackInv, DisjointInv, NoKeyReuse
<1>9. ShownTypes' /\ ShownFromPeer'
  BY <1>1 DEF StackInv, ShownTypes, ShownFromPeer
<1>10. CleanInv'
  BY <1>1 DEF StackInv, CleanInv
<1> QED BY <1>4, <1>5, <1>6, <1>7, <1>8, <1>9, <1>10 DEF StackInv

\* Arrive keeps the invariant, whether or not the relay keeps the envelope.
LEMMA ArriveStep ==
    ASSUME StackInv, NEW env \in transit, Arrive(env)
    PROVE  StackInv'
<1>1. /\ inbox' = [inbox EXCEPT ![env.to] = Append(@, env)] /\ transit' \subseteq transit
      /\ UNCHANGED <<session, sent, history>>
  BY DEF Arrive
<1>2. TablesInv /\ MailInv /\ sent \in Seq(Letter)
  BY DEF StackInv, LettersInv
<1>3. Letters' = Letters /\ env \in Letters /\ transit' \subseteq Letters'
  BY <1>1, <1>2 DEF MailInv, Letters
<1>4. env \in Letter
  BY <1>2, <1>3, ElementOfSeq DEF Letters
<1> PICK q : q = env.to
  OBVIOUS
<1>5. q \in Endpoint
  BY <1>4 DEF Letter
<1>6. MailInv' /\ inbox' = [x \in Endpoint |-> inbox'[x]]
  BY <1>1, <1>2, <1>3, <1>4, <1>5, MailArrives
<1> QED BY <1>1, <1>6, RelayStep

\* So does a dummy packet.
LEMMA ArriveDummyStep ==
    ASSUME StackInv, NEW q \in Endpoint, ArriveDummy(q)
    PROVE  StackInv'
<1>1. /\ inbox' = [inbox EXCEPT ![q] = Append(@, Dummy(q))] /\ transit' = transit
      /\ UNCHANGED <<session, sent, history>>
  BY DEF ArriveDummy
<1>2. TablesInv /\ MailInv
  BY DEF StackInv
<1>3. Letters' = Letters /\ transit' \subseteq Letters'
  BY <1>1, <1>2 DEF MailInv, Letters
<1> PICK env : env = Dummy(q)
  OBVIOUS
<1>4. MailInv' /\ inbox' = [x \in Endpoint |-> inbox'[x]]
  BY <1>1, <1>2, <1>3, MailArrives
<1> QED BY <1>1, <1>4, RelayStep

-----------------------------------------------------------------------------
(* The end of a pass. *)

\* The letters stay in order: what was sent is left behind by a ratchet that
\* stayed where it was, and more so by one that has moved on.
LEMMA StillBehind ==
    ASSUME NEW m \in Message, NEW s \in Ratchet, NEW t \in Ratchet, NEW K, Later(s, t, K),
           LeftBehind(m, s)
    PROVE  LeftBehind(m, t)
<1>1. /\ s.dhs[3] \in Nat /\ t.dhs[3] \in Nat /\ s.root_key \in Roots /\ t.root_key \in Roots
  BY RatchetParts
<1>2. m.mk \in Chain /\ m.dh[3] \in Nat
  BY DEF Message, OwnedKey
<1>3. m.mk.root \in Roots
  BY <1>2, ChainFields
<1>4. Len(s.root_key) \in Nat /\ Len(t.root_key) \in Nat /\ Len(m.mk.root) \in Nat
  BY <1>1, <1>3, LenProperties DEF Roots
<1>5. Len(m.mk.root) <= Len(t.root_key)
  BY <1>4 DEF Later, LeftBehind
<1>6. CASE t.dhs = s.dhs /\ t.dhr = s.dhr /\ t.ck_s = s.ck_s
  BY <1>5, <1>6 DEF LeftBehind
<1>7. CASE s.dhs[3] < t.dhs[3] /\ t.ck_s = None /\ t.dhr \in K
  <2>1. m.dh[3] < t.dhs[3]
    BY <1>1, <1>2, <1>7 DEF LeftBehind
  <2>2. m.dh # t.dhs
    BY <1>1, <1>2, <2>1
  <2> QED BY <1>1, <1>2, <1>5, <1>7, <2>1, <2>2 DEF LeftBehind
<1> QED BY <1>6, <1>7 DEF Later

\* What a pass has done to the ratchets.
Passed ==
    /\ UNCHANGED sent
    /\ \A x \in Endpoint : \A y \in PeersOf(x) :
         /\ ContextInv(session'[x][y], x, y)
         /\ Later(session[x][y].ratchet, session'[x][y].ratchet, HeaderKeys)

\* The number of an end's key never falls.
LEMMA PassedKeys ==
    ASSUME StackInv, Passed
    PROVE  /\ Letters' = Letters
           /\ \A x \in Endpoint : \A y \in PeersOf(x) :
                /\ session[x][y].ratchet \in Ratchet /\ session'[x][y].ratchet \in Ratchet
           /\ \A k : Known(k) => Known(k)'
<1>1. Letters' = Letters
  BY DEF Passed, Letters
<1>2. ASSUME NEW x \in Endpoint, NEW y \in PeersOf(x)
      PROVE  /\ session[x][y].ratchet \in Ratchet /\ session'[x][y].ratchet \in Ratchet
             /\ session[x][y].ratchet.dhs[3] <= session'[x][y].ratchet.dhs[3]
             /\ session[x][y].ratchet.dhs[3] \in Nat /\ session'[x][y].ratchet.dhs[3] \in Nat
  <2> PICK s : s = session[x][y].ratchet
    OBVIOUS
  <2> PICK t : t = session'[x][y].ratchet
    OBVIOUS
  <2>1. s \in Ratchet
    BY DEF StackInv, SessionsInv, ContextInv, RatchetInv
  <2>2. t \in Ratchet /\ Later(s, t, HeaderKeys)
    BY DEF Passed, ContextInv, RatchetInv
  <2>3. s.dhs[3] \in Nat /\ t.dhs[3] \in Nat
    BY <2>1, <2>2, RatchetParts
  <2>4. s.dhs[3] <= t.dhs[3]
    BY <2>2, <2>3 DEF Later
  <2> QED BY <2>1, <2>2, <2>3, <2>4
<1>3. ASSUME NEW k, Known(k) PROVE Known(k)'
  <2>1. k \in OwnedKey /\ k[1] \in Endpoint /\ k[2] \in PeersOf(k[1]) /\ k[3] \in Nat
    BY <1>3 DEF Known, OwnedKey
  <2>2. k[3] <= session[k[1]][k[2]].ratchet.dhs[3]
    BY <1>3 DEF Known
  <2>3. k[3] <= session'[k[1]][k[2]].ratchet.dhs[3]
    BY <1>2, <2>1, <2>2
  <2> QED BY <2>1, <2>3 DEF Known
<1> QED BY <1>1, <1>2, <1>3

\* A pass keeps the letters in order.
LEMMA PassKeepsLetters ==
    ASSUME StackInv, Passed
    PROVE  LettersInv'
<1>1. /\ Letters' = Letters
      /\ \A x \in Endpoint : \A y \in PeersOf(x) :
           /\ session[x][y].ratchet \in Ratchet /\ session'[x][y].ratchet \in Ratchet
      /\ \A k : Known(k) => Known(k)'
  BY PassedKeys
<1>2. sent' = sent /\ sent \in Seq(Letter)
  BY DEF Passed, StackInv, LettersInv
<1>3. ASSUME NEW e \in Letters
      PROVE  /\ e.to \in PeersOf(e.from) /\ MessageInv(e.m, e.from, e.to)'
             /\ LeftBehind(e.m, session'[e.from][e.to].ratchet)
  <2>1. /\ e.to \in PeersOf(e.from) /\ MessageInv(e.m, e.from, e.to)
        /\ LeftBehind(e.m, session[e.from][e.to].ratchet)
    BY DEF StackInv, LettersInv
  <2>2. e \in Letter
    BY <1>2, ElementOfSeq DEF Letters
  <2>3. e.from \in Endpoint /\ e.m \in Message
    BY <2>2 DEF Letter
  <2>4. MessageInv(e.m, e.from, e.to)'
    BY <1>1, <2>1 DEF MessageInv
  <2> PICK s : s = session[e.from][e.to].ratchet
    OBVIOUS
  <2> PICK t : t = session'[e.from][e.to].ratchet
    OBVIOUS
  <2>5. s \in Ratchet /\ t \in Ratchet /\ Later(s, t, HeaderKeys)
    BY <1>1, <2>1, <2>3 DEF Passed
  <2>6. LeftBehind(e.m, t)
    BY <2>1, <2>3, <2>5, StillBehind
  <2> QED BY <2>1, <2>4, <2>6
<1> QED BY <1>1, <1>2, <1>3 DEF LettersInv

\* A new key is newer than everything its end has made, so no message under the
\* header key that led to it was sealed with it.
LEMMA PassKeepsKeys ==
    ASSUME StackInv, Passed
    PROVE  KeysInv'
<1>1. /\ Letters' = Letters
      /\ \A x \in Endpoint : \A y \in PeersOf(x) :
           /\ session[x][y].ratchet \in Ratchet /\ session'[x][y].ratchet \in Ratchet
      /\ \A k : Known(k) => Known(k)'
  BY PassedKeys
<1>2. ASSUME NEW x \in Endpoint, NEW y \in PeersOf(x)
      PROVE  Met(session[x][y].ratchet.dhr)' /\ OlderInv(session[x][y].ratchet, x, y)'
  <2> PICK s : s = session[x][y].ratchet
    OBVIOUS
  <2> PICK t : t = session'[x][y].ratchet
    OBVIOUS
  <2>1. s \in Ratchet /\ t \in Ratchet /\ Later(s, t, HeaderKeys) /\ RatchetInv(t, x, y)
    BY <1>1 DEF Passed, ContextInv
  <2>2. Met(s.dhr) /\ OlderInv(s, x, y)
    BY DEF StackInv, KeysInv
  <2>3. x # y
    BY PeerFacts
  <2>4. CASE t.dhs = s.dhs /\ t.dhr = s.dhr
    <3>1. Met(t.dhr)'
      BY <1>1, <2>2, <2>4 DEF Met
    <3>2. OlderInv(t, x, y)'
      BY <1>1, <2>2, <2>4 DEF OlderInv
    <3> QED BY <3>1, <3>2
  <2>5. CASE s.dhs[3] < t.dhs[3] /\ t.dhr \in HeaderKeys
    <3>1. PICK e \in Letters : t.dhr = e.m.dh
      BY <2>5 DEF HeaderKeys
    <3>2. /\ e.to \in PeersOf(e.from) /\ MessageInv(e.m, e.from, e.to)
          /\ LeftBehind(e.m, session[e.from][e.to].ratchet)
      BY DEF StackInv, LettersInv
    <3>3. Known(e.m.dh)
      BY <3>2 DEF MessageInv, LeftBehind, Message, Known
    <3>4. Met(t.dhr)'
      BY <1>1, <3>1, <3>3 DEF Met
    <3>5. t.dhs[1] = x /\ t.dhs[2] = y /\ s.dhs[3] \in Nat /\ t.dhs[3] \in Nat
      BY <2>1, RatchetParts DEF RatchetInv
    <3>6. ASSUME NEW f \in Letters, f.from = y, f.to = x, f.m.dh[3] > 0
          PROVE  t.dhs \notin f.m.mk.root[Len(f.m.mk.root)]
      <4>1. MessageInv(f.m, y, x)
        BY <3>6 DEF StackInv, LettersInv
      <4>2. PICK d : Known(d) /\ f.m.mk.root[Len(f.m.mk.root)] = {f.m.dh, d}
        BY <3>6, <4>1 DEF MessageInv
      <4>3. f.m.dh # t.dhs
        BY <2>3, <3>5, <4>1 DEF MessageInv
      <4>4. ASSUME d = t.dhs PROVE FALSE
        <5>1. t.dhs[3] <= s.dhs[3]
          BY <3>5, <4>2, <4>4 DEF Known
        <5> QED BY <2>5, <3>5, <5>1
      <4> QED BY <4>2, <4>3, <4>4
    <3>7. OlderInv(t, x, y)'
      BY <1>1, <3>6 DEF OlderInv
    <3> QED BY <3>4, <3>7
  <2> QED BY <2>1, <2>4, <2>5 DEF Later
<1> QED BY <1>2 DEF KeysInv

\* What is returned is appended to what was shown before.
LEMMA ShownMore ==
    ASSUME NEW p, NEW old, ShownMail(old, p), NEW out, ShownMail(out, p)
    PROVE  ShownMail(old \o out, p)
<1> PICK new : new = old \o out
  OBVIOUS
<1>1. /\ old \in Seq([peer : Endpoint, env : Letter]) /\ out \in Seq([peer : Endpoint, env : Letter])
      /\ \A j \in 1..Len(old) : FromPeer(old[j], p)
      /\ \A j \in 1..Len(out) : FromPeer(out[j], p)
  BY DEF ShownMail
<1>2. Len(old) \in Nat /\ Len(out) \in Nat
  BY <1>1, LenProperties
<1>3. /\ new \in Seq([peer : Endpoint, env : Letter]) /\ Len(new) = Len(old) + Len(out)
      /\ \A j \in 1..Len(new) : new[j] = IF j <= Len(old) THEN old[j] ELSE out[j - Len(old)]
  BY <1>1, <1>2, ConcatProperties
<1>4. ASSUME NEW j \in 1..Len(new) PROVE FromPeer(new[j], p)
  <2>1. CASE j <= Len(old)
    <3>1. j \in 1..Len(old)
      BY <1>2, <1>3, <2>1
    <3> QED BY <1>1, <1>3, <2>1, <3>1
  <2>2. CASE ~(j <= Len(old))
    <3>1. j - Len(old) \in 1..Len(out)
      BY <1>2, <1>3, <2>2
    <3> QED BY <1>1, <1>3, <2>2, <3>1
  <2> QED BY <2>1, <2>2
<1> QED BY <1>3, <1>4 DEF ShownMail

\* What Finish stores.
Stores(p, a) ==
    /\ session' = [x \in Endpoint |-> [y \in PeersOf(x) |-> IF x = p THEN a.ctx[y] ELSE session[x][y]]]
    /\ opened' = [x \in Endpoint |-> [y \in PeersOf(x) |-> IF x = p THEN a.opened[y] ELSE opened[x][y]]]
    /\ errors' = [x \in Endpoint |-> [y \in PeersOf(x) |-> IF x = p THEN a.errors[y] ELSE errors[x][y]]]
    /\ inbox' = [x \in Endpoint |-> IF x = p THEN a.kept ELSE inbox[x]]
    /\ shown' = [x \in Endpoint |-> IF x = p THEN (IF a.raised THEN shown[p] ELSE shown[p] \o a.out)
                                             ELSE shown[x]]
    /\ UNCHANGED <<transit, sent>>

\* Finish in terms of the tables.
LEMMA FinishStores ==
    ASSUME TablesInv, NEW p \in Endpoint, NEW a, PassTables(a, p), Finish(p, a)
    PROVE  Stores(p, a)
<1>1. /\ session = [x \in Endpoint |-> [y \in PeersOf(x) |-> session[x][y]]]
      /\ session' = [session EXCEPT ![p] = a.ctx] /\ a.ctx = [y \in PeersOf(p) |-> a.ctx[y]]
  BY DEF TablesInv, PassTables, Finish
<1>2. session' = [x \in Endpoint |-> [y \in PeersOf(x) |-> IF x = p THEN a.ctx[y] ELSE session[x][y]]]
  BY <1>1
<1>3. /\ opened = [x \in Endpoint |-> [y \in PeersOf(x) |-> opened[x][y]]]
      /\ opened' = [opened EXCEPT ![p] = a.opened] /\ a.opened = [y \in PeersOf(p) |-> a.opened[y]]
  BY DEF TablesInv, PassTables, Finish
<1>4. opened' = [x \in Endpoint |-> [y \in PeersOf(x) |-> IF x = p THEN a.opened[y] ELSE opened[x][y]]]
  BY <1>3
<1>5. /\ errors = [x \in Endpoint |-> [y \in PeersOf(x) |-> errors[x][y]]]
      /\ errors' = [errors EXCEPT ![p] = a.errors] /\ a.errors = [y \in PeersOf(p) |-> a.errors[y]]
  BY DEF TablesInv, PassTables, Finish
<1>6. errors' = [x \in Endpoint |-> [y \in PeersOf(x) |-> IF x = p THEN a.errors[y] ELSE errors[x][y]]]
  BY <1>5
<1>7. inbox' = [x \in Endpoint |-> IF x = p THEN a.kept ELSE inbox[x]]
  BY DEF TablesInv, Finish
<1>8. shown' = [x \in Endpoint |-> IF x = p THEN (IF a.raised THEN shown[p] ELSE shown[p] \o a.out)
                                            ELSE shown[x]]
  BY DEF TablesInv, Finish
<1> QED BY <1>2, <1>4, <1>6, <1>7, <1>8 DEF Stores, Finish

\* The end of a pass keeps the invariant.
LEMMA FinishStep ==
    ASSUME StackInv, NEW p \in Endpoint, NEW a, PassInv(a, p), Finish(p, a)
    PROVE  StackInv'
<1>1. Stores(p, a)
  BY FinishStores DEF StackInv, PassInv
<1>2. \A q \in PeersOf(p) : PassEnd(a, p, q)
  BY DEF PassInv
<1>3. KeptMail(a.kept, p) /\ ShownMail(a.out, p)
  BY DEF PassInv
<1>4. sent' = sent /\ transit' = transit /\ Letters' = Letters
  BY <1>1 DEF Stores, Letters
<1>5. ASSUME NEW x \in Endpoint, NEW y \in PeersOf(x)
      PROVE  /\ ContextInv(session'[x][y], x, y)
             /\ Later(session[x][y].ratchet, session'[x][y].ratchet, HeaderKeys)
             /\ CleanContext(session'[x][y], errors'[x][y], x, y) =>
                    InStep(session'[x][y], opened'[x][y], errors'[x][y])
  <2>1. CASE x = p
    <3>1. session'[x][y] = a.ctx[y] /\ opened'[x][y] = a.opened[y] /\ errors'[x][y] = a.errors[y]
      BY <1>1, <2>1 DEF Stores
    <3>2. PassEnd(a, p, y)
      BY <1>2, <2>1
    <3> QED BY <2>1, <3>1, <3>2 DEF PassEnd
  <2>2. CASE x # p
    <3>1. session'[x][y] = session[x][y] /\ opened'[x][y] = opened[x][y] /\ errors'[x][y] = errors[x][y]
      BY <1>1, <2>2 DEF Stores
    <3>2. ContextInv(session[x][y], x, y)
      BY DEF StackInv, SessionsInv
    <3>3. Later(session[x][y].ratchet, session[x][y].ratchet, HeaderKeys)
      BY <3>2, LaterSame DEF ContextInv, RatchetInv
    <3>4. CleanContext(session[x][y], errors[x][y], x, y) =>
              InStep(session[x][y], opened[x][y], errors[x][y])
      BY DEF StackInv, CleanInv
    <3> QED BY <3>1, <3>2, <3>3, <3>4
  <2> QED BY <2>1, <2>2
<1>6. Passed
  BY <1>4, <1>5 DEF Passed
<1>7. LettersInv' /\ KeysInv'
  BY <1>6, PassKeepsLetters, PassKeepsKeys
<1>8. SessionsInv' /\ CleanInv'
  BY <1>5 DEF SessionsInv, CleanInv
<1>9. TablesInv'
  BY <1>1 DEF Stores, TablesInv
<1>10. DisjointInv' /\ NoKeyReuse'
  BY <1>4 DEF StackInv, DisjointInv, NoKeyReuse
<1>11. MailInv'
  <2>1. ASSUME NEW x \in Endpoint PROVE MailBox(inbox'[x], x, Letters)
    <3>1. CASE x = p
      BY <1>1, <1>3, <3>1 DEF Stores, KeptMail, Mail, MailBox
    <3>2. CASE x # p
      BY <1>1, <3>2, MailBoxes DEF Stores, StackInv
    <3> QED BY <3>1, <3>2
  <2>2. transit' \subseteq Letters'
    BY <1>4 DEF StackInv, MailInv
  <2> QED BY <1>4, <2>1, <2>2 DEF MailInv, MailBox
<1>12. ASSUME NEW x \in Endpoint PROVE ShownMail(shown'[x], x)
  <2>1. ShownMail(shown[x], x)
    BY DEF StackInv, ShownTypes, ShownFromPeer, ShownMail, FromPeer
  <2>2. CASE x = p
    BY <1>1, <1>3, <2>1, <2>2, ShownMore DEF Stores
  <2>3. CASE x # p
    BY <1>1, <2>1, <2>3 DEF Stores
  <2> QED BY <2>2, <2>3
<1>13. ShownTypes' /\ ShownFromPeer'
  BY <1>12 DEF ShownTypes, ShownFromPeer, ShownMail, FromPeer
<1> QED BY <1>7, <1>8, <1>9, <1>10, <1>11, <1>13 DEF StackInv

-----------------------------------------------------------------------------
(* The theorems. *)

\* The ratchet of a new session.
LEMMA NewRatchet ==
    ASSUME NEW p \in Endpoint, NEW q \in PeersOf(p)
    PROVE  LET s == InitialRatchet(<< >>, FirstKey(p, q), FirstKey(q, p), <<p, q>> \in Link)
           IN  /\ RatchetInv(s, p, q) /\ s.dhs[3] = 0 /\ s.dhr = FirstKey(q, p) /\ s.Nr = 0
               /\ s.ck_r # None => s.ck_r.i = 0
               /\ s.skipped_keys = {}
<1> PICK r : r = FirstRoot(p, q)
  OBVIOUS
<1> PICK ck : ck = [root |-> r, i |-> 0]
  OBVIOUS
<1> PICK first : first = (<<p, q>> \in Link)
  OBVIOUS
<1> PICK s : s = InitialRatchet(<< >>, FirstKey(p, q), FirstKey(q, p), first)
  OBVIOUS
<1>1. /\ Started(r, p, q) /\ Len(r) = 1 /\ Append(<< >>, Secret(p, q)) = r
  BY FirstRoots
<1>2. FirstKey(p, q) \in OwnedKey /\ FirstKey(q, p) \in OwnedKey
  BY PeerFacts
<1>3. FirstKey(q, p) # None
  BY <1>2, StackAssumption
<1>4. kdf_root(<< >>, FirstKey(p, q), FirstKey(q, p)) = [root |-> r, chain |-> ck]
  BY <1>1 DEF kdf_root, Secret
<1>5. /\ s.root_key = r /\ s.dhs = FirstKey(p, q) /\ s.dhr = FirstKey(q, p)
      /\ s.ck_s = (IF first THEN ck ELSE None) /\ s.ck_r = (IF first THEN None ELSE ck)
      /\ s.Ns = 0 /\ s.Nr = 0 /\ s.PN = 0 /\ s.skipped_keys = {} /\ IsRatchet(s)
  BY <1>3, <1>4 DEF InitialRatchet, IsRatchet
<1>6. r \in Roots /\ ck \in Chain /\ ck.root = r /\ ck.i = 0
  BY <1>1 DEF Started, Chain
<1>7. ck # None
  BY <1>6, ChainFields
<1>8. s \in Ratchet
  BY <1>2, <1>5, <1>6, RatchetMade
<1>9. s.dhs[1] = p /\ s.dhs[2] = q /\ s.dhs[3] = 0
  <2>1. FirstKey(p, q)[1] = p /\ FirstKey(p, q)[2] = q /\ FirstKey(p, q)[3] = 0
    BY DEF FirstKey
  <2>2. s.dhs = FirstKey(p, q)
    BY <1>5
  <2> QED BY <2>1, <2>2
<1>10. <<p, q>> \in Link <=> <<q, p>> \notin Link
  BY PeerFacts
<1>11. FirstRoot(q, p) = r
  BY FirstRoots
<1>12. FirstPhase(s, p, q)
  BY <1>5, <1>6, <1>7, <1>10, <1>11 DEF FirstPhase, SendRoot
<1>13. RatchetInv(s, p, q)
  BY <1>1, <1>5, <1>6, <1>8, <1>9, <1>12 DEF RatchetInv
<1> QED BY <1>5, <1>6, <1>9, <1>13

\* The first state satisfies the invariant.
LEMMA StackInit ==
    ASSUME Init
    PROVE  StackInv
<1>1. ASSUME NEW p \in Endpoint, NEW q \in PeersOf(p)
      PROVE  /\ ContextInv(session[p][q], p, q)
             /\ session[p][q].ratchet.dhr = FirstKey(q, p)
             /\ session[p][q].ratchet.dhs[3] = 0
             /\ InStep(session[p][q], opened[p][q], errors[p][q])
  <2> PICK s : s = InitialRatchet(<< >>, FirstKey(p, q), FirstKey(q, p), <<p, q>> \in Link)
    OBVIOUS
  <2> PICK c : c = session[p][q]
    OBVIOUS
  <2>1. c = [ratchet |-> s, seen |-> {}, highest |-> {},
             fork |-> [n |-> -1, pn |-> -1, pub |-> None], reset |-> None]
    BY DEF Init, create_symmetric_session
  <2>2. /\ RatchetInv(s, p, q) /\ s.dhs[3] = 0 /\ s.dhr = FirstKey(q, p) /\ s.Nr = 0
        /\ s.ck_r # None => s.ck_r.i = 0
        /\ s.skipped_keys = {}
    BY NewRatchet
  <2>3. /\ c.ratchet = s /\ c.seen = {} /\ c.highest = {} /\ c.fork.n = -1 /\ c.fork.pn = -1
        /\ c.fork \in [n : Int, pn : Int, pub : OwnedKey \cup {None}] /\ c.reset = None
        /\ IsContext(c)
    BY <2>1 DEF IsContext
  <2>4. c \in Context
    BY <2>2, <2>3, ContextMade DEF RatchetInv
  <2>5. IsFiniteSet({}) /\ Cardinality({}) = 0
    BY FS_EmptySet
  <2>6. ContextInv(c, p, q)
    BY <2>2, <2>3, <2>4, <2>5, SessionManagerAssumption DEF ContextInv
  <2>7. opened[p][q] = {} /\ errors[p][q] = {}
    BY DEF Init
  <2>8. InStep(c, {}, {})
    BY <2>2, <2>3 DEF InStep
  <2> QED BY <2>2, <2>3, <2>6, <2>7, <2>8
<1>2. sent = << >> /\ transit = {} /\ Letters = {}
  BY DEF Init, Letters
<1>3. TablesInv
  <2>1. session = [p \in Endpoint |-> [q \in PeersOf(p) |-> session[p][q]]]
    BY DEF Init
  <2> QED BY <2>1 DEF TablesInv, Init
<1>4. SessionsInv /\ CleanInv
  BY <1>1 DEF SessionsInv, CleanInv
<1>5. LettersInv /\ DisjointInv /\ NoKeyReuse
  BY <1>2, EmptySeq DEF LettersInv, DisjointInv, NoKeyReuse
<1>6. KeysInv
  <2>1. ASSUME NEW p \in Endpoint, NEW q \in PeersOf(p) PROVE Met(session[p][q].ratchet.dhr)
    <3>1. q \in Endpoint /\ p \in PeersOf(q) /\ FirstKey(q, p) \in OwnedKey
      BY PeerFacts
    <3>2. session[q][p].ratchet.dhs[3] = 0
      BY <1>1, <3>1
    <3>3. Met(FirstKey(q, p))
      BY <3>1, <3>2 DEF Met, Known, FirstKey
    <3> QED BY <1>1, <3>3
  <2> QED BY <1>2, <2>1 DEF KeysInv, OlderInv
<1>7. MailInv /\ ShownTypes /\ ShownFromPeer
  BY <1>2, EmptySeq DEF Init, MailInv, ShownTypes, ShownFromPeer
<1> QED BY <1>3, <1>4, <1>5, <1>6, <1>7 DEF StackInv

\* Every step keeps the invariant.
LEMMA StackNext ==
    ASSUME StackInv, [Next]_vars
    PROVE  StackInv'
<1>1. CASE \E p, q \in Endpoint, sealed \in BOOLEAN : send_text(p, q, sealed)
  BY <1>1, SendTextStep
<1>2. CASE \E p, q \in Endpoint : SendRelayed(p, q)
  BY <1>2, SendRelayedStep
<1>3. CASE \E env \in transit : Arrive(env)
  BY <1>3, ArriveStep
<1>4. CASE \E q \in Endpoint : ArriveDummy(q)
  BY <1>4, ArriveDummyStep
<1>5. CASE \E p, q \in Endpoint : recv_text(p, q)
  BY <1>5, ReceiveText, FinishStep
<1>6. CASE \E p \in Endpoint, drop \in BOOLEAN : recv_sealed(p, drop)
  BY <1>6, ReceiveSealed, FinishStep
<1>7. CASE UNCHANGED vars
  <2>1. UNCHANGED <<session, sent, history>> /\ inbox' = inbox /\ transit' = transit
    BY <1>7 DEF vars, history
  <2>2. Letters' = Letters
    BY <2>1 DEF Letters
  <2>3. MailInv'
    BY <2>1, <2>2 DEF StackInv, MailInv
  <2>4. inbox' = [x \in Endpoint |-> inbox'[x]]
    BY <2>1 DEF StackInv, TablesInv
  <2> QED BY <2>1, <2>3, <2>4, RelayStep
<1> QED BY <1>1, <1>2, <1>3, <1>4, <1>5, <1>6, <1>7 DEF Next

\* The inductive invariant of the stack.
THEOREM StackInvariant == Spec => []StackInv
<1>1. Init => StackInv
  BY StackInit
<1>2. StackInv /\ [Next]_vars => StackInv'
  BY StackNext
<1> QED BY <1>1, <1>2, PTL DEF Spec

\* What recv_text and recv_sealed return as coming from a peer comes from it and
\* was meant for the reader, also where recv_text tried the wrong session.
THEOREM ShownComesFromPeer == Spec => []ShownFromPeer
<1>1. StackInv => ShownFromPeer
  BY DEF StackInv
<1> QED BY <1>1, StackInvariant, PTL

\* No message key that encrypt_for or encrypt_sealed uses seals two messages, also
\* after a session was led astray by the envelope of another peer.
THEOREM StackKeysNeverReused == Spec => []NoKeyReuse
<1>1. StackInv => NoKeyReuse
  BY DEF StackInv
<1> QED BY <1>1, StackInvariant, PTL

\* Replay cache and ratchet of a clean session count the same messages.
THEOREM CacheStaysInStep == Spec => []CacheInStepWithRatchet
<1>1. StackInv => CacheInStepWithRatchet
  BY DEF StackInv, CleanInv, CleanContext, InStep, CacheInStepWithRatchet, Clean
<1> QED BY <1>1, StackInvariant, PTL

\* What the replay cache of a clean session has let through was decrypted, and two
\* honest peers never look forked to each other.
THEOREM AcceptedMessagesOpen == Spec => []AcceptedIsDecrypted
<1>1. StackInv => AcceptedIsDecrypted
  BY DEF StackInv, CleanInv, CleanContext, InStep, AcceptedIsDecrypted, Clean
<1> QED BY <1>1, StackInvariant, PTL

SkippedIds(c) == {[dh |-> k.dh, n |-> k.n] : k \in c.ratchet.skipped_keys}

SkippedStep ==
    \A p \in Endpoint : \A q \in PeersOf(p) :
        SkippedIds(session[p][q]) \subseteq SkippedIds(session'[p][q])

\* A stored key id is still stored, in set form.
LEMMA IdsStay ==
    ASSUME NEW c, NEW d, IdsKept(c.ratchet, d.ratchet)
    PROVE  SkippedIds(c) \subseteq SkippedIds(d)
<1> SUFFICES ASSUME NEW k \in c.ratchet.skipped_keys
             PROVE  \E l \in d.ratchet.skipped_keys : [dh |-> k.dh, n |-> k.n] = [dh |-> l.dh, n |-> l.n]
  BY DEF SkippedIds
<1>1. PICK l \in d.ratchet.skipped_keys : l.dh = k.dh /\ l.n = k.n
  BY DEF IdsKept
<1> QED BY <1>1

\* The keys that _skip_message_keys stores for late messages never serve one, as
\* the documents say they do: a late message is refused by the replay cache
\* before the ratchet could look for its key, so no step takes a key out and the
\* store only fills up.
THEOREM SkippedKeysNeverServe == Spec => [][SkippedStep]_vars
<1>1. ASSUME StackInv, [Next]_vars PROVE SkippedStep \/ UNCHANGED vars
  <2>1. ASSUME session' = session PROVE SkippedStep
    BY <2>1 DEF SkippedStep
  <2>2. ASSUME NEW p \in Endpoint, NEW q \in Endpoint, NEW env, Encrypts(p, q, env),
               env = Plain(p, q) \/ env = Sealed(p, q)
        PROVE  SkippedStep
    <3>1. PICK s, t : Sends(p, q, env, s, t)
      BY <1>1, <2>2, EncryptsSends
    <3>2. ASSUME NEW x \in Endpoint, NEW y \in PeersOf(x)
          PROVE  SkippedIds(session[x][y]) \subseteq SkippedIds(session'[x][y])
      <4>1. CASE x = p /\ y = q
        <5>1. session'[x][y].ratchet.skipped_keys = session[x][y].ratchet.skipped_keys
          BY <3>1, <4>1 DEF Sends, SentWith, Seals, SameReceiver
        <5> QED BY <5>1 DEF SkippedIds
      <4>2. CASE x # p \/ y # q
        BY <3>1, <4>2 DEF Sends
      <4> QED BY <4>1, <4>2
    <3> QED BY <3>2 DEF SkippedStep
  <2>3. ASSUME NEW p \in Endpoint, NEW a, PassInv(a, p), Finish(p, a) PROVE SkippedStep
    <3>1. Stores(p, a)
      BY <1>1, <2>3, FinishStores DEF StackInv, PassInv
    <3>2. ASSUME NEW x \in Endpoint, NEW y \in PeersOf(x)
          PROVE  SkippedIds(session[x][y]) \subseteq SkippedIds(session'[x][y])
      <4>1. CASE x = p
        <5>1. session'[x][y] = a.ctx[y]
          BY <3>1, <4>1 DEF Stores
        <5>2. IdsKept(session[x][y].ratchet, a.ctx[y].ratchet)
          BY <2>3, <4>1 DEF PassInv, PassEnd
        <5> QED BY <5>1, <5>2, IdsStay
      <4>2. CASE x # p
        BY <3>1, <4>2 DEF Stores
      <4> QED BY <4>1, <4>2
    <3> QED BY <3>2 DEF SkippedStep
  <2>4. CASE \E p, q \in Endpoint, sealed \in BOOLEAN : send_text(p, q, sealed)
    BY <2>2, <2>4 DEF send_text
  <2>5. CASE \E p, q \in Endpoint : SendRelayed(p, q)
    BY <2>2, <2>5 DEF SendRelayed
  <2>6. CASE (\E env \in transit : Arrive(env)) \/ (\E q \in Endpoint : ArriveDummy(q))
    BY <2>1, <2>6 DEF Arrive, ArriveDummy
  <2>7. CASE \E p, q \in Endpoint : recv_text(p, q)
    BY <1>1, <2>3, <2>7, ReceiveText
  <2>8. CASE \E p \in Endpoint, drop \in BOOLEAN : recv_sealed(p, drop)
    BY <1>1, <2>3, <2>8, ReceiveSealed
  <2> QED BY <1>1, <2>4, <2>5, <2>6, <2>7, <2>8 DEF Next
<1>2. StackInv /\ [Next]_vars => [SkippedStep]_vars
  BY <1>1
<1> QED BY <1>2, StackInvariant, PTL DEF Spec

-----------------------------------------------------------------------------
(* Why a session is marked for reset. *)

\* The letters under one key are numbered as they were sent.
OrderInv ==
    \A j, k \in 1..Len(sent) :
        j < k /\ sent[j].m.dh = sent[k].m.dh => sent[j].m.mk.i < sent[k].m.mk.i

\* No letter looks like a dummy.
SealInv == \A env \in Letters : IsSealed(env) => env.seal # None

OpenedInv ==
    \A p \in Endpoint : \A q \in PeersOf(p) : opened[p][q] \subseteq {env.m : env \in Letters}

\* No letter is twice in an inbox, or there and at the relay.
Once(mail, L, T) ==
    /\ \A i, j \in 1..Len(mail) : mail[i] \in L /\ mail[i] = mail[j] => i = j
    /\ \A i \in 1..Len(mail) : mail[i] \notin T

\* A letter that has not been read was not opened.
Unread(mail, done, L, T, p) ==
    /\ \A i \in 1..Len(mail) : mail[i] \in L => mail[i].m \notin done
    /\ \A env \in T : env.to = p => env.m \notin done

\* As long as the relay repeats nothing.
OnceInv ==
    repeats = 0 =>
        \A p \in Endpoint :
            /\ Once(inbox[p], Letters, transit)
            /\ \A q \in PeersOf(p) : Unread(inbox[p], opened[p][q], Letters, transit, p)

\* Overtaken, for what a pass over the inbox has opened so far.
OvertakenIn(done, p, q) ==
    \E j, k \in 1..Len(sent) :
        /\ j < k
        /\ sent[j].from = q /\ sent[j].to = p /\ sent[j].m \notin done
        /\ sent[k].m \in done

\* The numbers the cache has accepted are behind the ratchet, and a mark has a
\* reason.
Reasonable(c, done, errs, p, q) ==
    CleanContext(c, errs, p, q) =>
        /\ \A k \in c.seen : k.n < c.ratchet.Nr
        /\ c.reset # None => \/ repeats > 0
                             \/ OvertakenIn(done, p, q)
                             \/ Cardinality(c.seen) = MaxEntries

ReasonInv ==
    /\ repeats \in Nat /\ OrderInv /\ SealInv /\ OpenedInv /\ OnceInv
    /\ \A p \in Endpoint : \A q \in PeersOf(p) :
         Reasonable(session[p][q], opened[p][q], errors[p][q], p, q)

\* Two letters with the same message are one letter.
LEMMA SameLetter ==
    ASSUME NoKeyReuse, NEW e \in Letters, NEW f \in Letters, e.m = f.m
    PROVE  e = f
<1>1. PICK j \in 1..Len(sent) : e = sent[j]
  BY DEF Letters
<1>2. PICK k \in 1..Len(sent) : f = sent[k]
  BY DEF Letters
<1> QED BY <1>1, <1>2 DEF NoKeyReuse

\* A letter under the first key of q for p comes from q, is for p and is numbered
\* by its place in the chain.
LEMMA FirstLetterFacts ==
    ASSUME LettersInv, NEW p \in Endpoint, NEW q \in PeersOf(p), NEW env \in Letters,
           env.m.dh = FirstKey(q, p)
    PROVE  env.from = q /\ env.to = p /\ env.m \in Message /\ env.m.mk.i = env.m.n
<1>1. env.m.dh[1] = q /\ env.m.dh[2] = p /\ env.m.dh[3] = 0
  BY DEF FirstKey
<1>2. MessageInv(env.m, env.from, env.to)
  BY DEF LettersInv
<1> QED BY <1>1, <1>2 DEF MessageInv

\* Of two letters under the first key of q the lower number was sent first.
LEMMA SentEarlier ==
    ASSUME LettersInv, OrderInv, NEW p \in Endpoint, NEW q \in PeersOf(p),
           NEW j \in 1..Len(sent), NEW k \in 1..Len(sent),
           sent[j].m.dh = FirstKey(q, p), sent[k].m.dh = FirstKey(q, p)
    PROVE  j < k <=> sent[j].m.n < sent[k].m.n
<1>1. sent[j] \in Letters /\ sent[k] \in Letters
  BY DEF Letters
<1>2. /\ sent[j].m \in Message /\ sent[j].m.mk.i = sent[j].m.n
      /\ sent[k].m \in Message /\ sent[k].m.mk.i = sent[k].m.n
  BY <1>1, FirstLetterFacts
<1>3. sent[j].m.n \in Nat /\ sent[k].m.n \in Nat
  BY <1>2, HeaderParts
<1>4. j < k => sent[j].m.n < sent[k].m.n
  BY <1>2 DEF OrderInv
<1>5. k < j => sent[k].m.n < sent[j].m.n
  BY <1>2 DEF OrderInv
<1>6. j < k \/ k < j \/ j = k
  OBVIOUS
<1> QED BY <1>3, <1>4, <1>5, <1>6

\* What is in the cache of a clean session is the header of an opened letter.
LEMMA SeenLetter ==
    ASSUME LettersInv, NEW p \in Endpoint, NEW q \in PeersOf(p), NEW c, NEW done, NEW errs,
           CleanContext(c, errs, p, q), InStep(c, done, errs),
           done \subseteq {env.m : env \in Letters}, NEW h \in c.seen
    PROVE  \E k \in 1..Len(sent) :
               sent[k].m \in done /\ sent[k].m.dh = FirstKey(q, p) /\ h.dh = FirstKey(q, p)
               /\ HeaderId(sent[k].m) = h /\ sent[k].m.n = h.n
<1>1. PICK m \in done : h = HeaderId(m)
  BY DEF InStep
<1>2. PICK env \in Letters : m = env.m
  OBVIOUS
<1>3. PICK k \in 1..Len(sent) : env = sent[k]
  BY DEF Letters
<1>4. h.dh = FirstKey(q, p)
  BY DEF CleanContext
<1>5. h.dh = m.dh /\ h.n = m.n
  BY <1>1 DEF HeaderId
<1> QED BY <1>1, <1>2, <1>3, <1>4, <1>5

\* The cache of a clean session refuses a letter that came before, one that was
\* overtaken, or any letter when it is full.
LEMMA RefusedHasReason ==
    ASSUME LettersInv, NoKeyReuse, OrderInv, repeats \in Nat,
           NEW p \in Endpoint, NEW q \in PeersOf(p), NEW c, ContextInv(c, p, q),
           NEW env \in Letters, env.to = p, NEW done, NEW errs,
           CleanContext(c, errs, p, q), InStep(c, done, errs),
           done \subseteq {e.m : e \in Letters}, repeats = 0 => env.m \notin done,
           ~ Accepts(c, env.m)
    PROVE  repeats > 0 \/ OvertakenIn(done, p, q) \/ Cardinality(c.seen) = MaxEntries
<1> PICK m : m = env.m
  OBVIOUS
<1>1. PICK j \in 1..Len(sent) : env = sent[j]
  BY DEF Letters
<1>2. m \in Message
  BY LetterFrom
<1>3. m.n \in Nat /\ HeaderId(m).dh = m.dh /\ HeaderId(m).n = m.n
  BY <1>2, HeaderParts
<1>4. CASE HeaderId(m) \in c.seen
  <2>1. PICK k \in 1..Len(sent) :
            sent[k].m \in done /\ sent[k].m.dh = FirstKey(q, p)
            /\ HeaderId(sent[k].m) = HeaderId(m) /\ sent[k].m.n = HeaderId(m).n
    BY <1>4, SeenLetter
  <2>2. m.dh = FirstKey(q, p) /\ sent[k].m.n = m.n
    BY <1>3, <1>4, <2>1 DEF CleanContext
  <2>3. ~(j < k) /\ ~(k < j)
    BY <1>1, <1>3, <2>1, <2>2, SentEarlier
  <2>4. j = k
    BY <2>3
  <2> QED BY <1>1, <2>1, <2>4
<1>5. CASE HeaderId(m) \notin c.seen /\ \E h \in HighestOf(c, m.dh) : ~(m.n >= h.n)
  <2>1. PICK h \in c.highest : h.dh = m.dh /\ ~(m.n >= h.n)
    BY <1>5 DEF HighestOf
  <2>2. h \in c.seen /\ c.seen \in SUBSET Id
    BY ContextParts DEF ContextInv
  <2>3. h.n \in Nat
    BY <2>2 DEF Id
  <2>4. PICK k \in 1..Len(sent) :
            sent[k].m \in done /\ sent[k].m.dh = FirstKey(q, p) /\ h.dh = FirstKey(q, p)
            /\ sent[k].m.n = h.n
    BY <2>2, SeenLetter
  <2>5. m.dh = FirstKey(q, p) /\ m.n < sent[k].m.n
    BY <1>3, <2>1, <2>3, <2>4
  <2>6. j < k
    BY <1>1, <2>4, <2>5, SentEarlier
  <2>7. m \notin done
    BY <1>5 DEF InStep
  <2>8. sent[j].from = q /\ sent[j].to = p
    BY <1>1, <2>5, FirstLetterFacts
  <2>9. OvertakenIn(done, p, q)
    BY <1>1, <2>4, <2>6, <2>7, <2>8 DEF OvertakenIn
  <2> QED BY <2>9
<1>6. CASE ~(Cardinality(c.seen) < MaxEntries)
  <2>1. Cardinality(c.seen) \in Nat /\ Cardinality(c.seen) <= MaxEntries
    BY FS_CardinalityType DEF ContextInv
  <2> QED BY <1>6, <2>1, SessionManagerAssumption
<1> QED BY <1>4, <1>5, <1>6 DEF Accepts

\* What the cache of a clean session accepts is numbered above all it has seen.
LEMMA AcceptedIsNewest ==
    ASSUME NEW p \in Endpoint, NEW q \in PeersOf(p), NEW c, ContextInv(c, p, q),
           NEW m \in Message, m.dh = FirstKey(q, p), NEW done, NEW errs,
           CleanContext(c, errs, p, q), InStep(c, done, errs),
           \A k \in c.seen : k.n < c.ratchet.Nr, Accepts(c, m)
    PROVE  \A k \in c.seen : k.n \in Nat /\ k.n <= m.n
<1> SUFFICES ASSUME NEW k \in c.seen PROVE k.n \in Nat /\ k.n <= m.n
  OBVIOUS
<1>1. c \in Context /\ c.highest \subseteq c.seen
  BY DEF ContextInv
<1>2. c.seen \in SUBSET Id /\ c.ratchet \in Ratchet
  BY <1>1, ContextParts
<1>3. PICK h \in c.highest : c.ratchet.Nr = h.n + 1
  BY DEF InStep
<1>4. h.dh = m.dh
  BY <1>1 DEF CleanContext
<1>5. m.n >= h.n
  BY <1>4 DEF Accepts, HighestOf
<1>6. k.n \in Nat /\ h.n \in Nat /\ m.n \in Nat /\ k.n < h.n + 1
  BY <1>1, <1>2, <1>3, HeaderParts DEF Id
<1> QED BY <1>5, <1>6

\* decrypt_from has made r of the context c, and of what was opened and raised.
Reads(c, done, errs, m, r, done1, errs1) ==
    /\ r = decrypt_from(c, m, FreshKey(c.ratchet.dhs))
    /\ done1 = IF r.result = "ok" THEN done \cup {m} ELSE done
    /\ errs1 = IF r.result = "ok" THEN errs ELSE errs \cup {r.result}

InOrderIn(c, done, errs, p, q) ==
    ContextInv(c, p, q) /\ (CleanContext(c, errs, p, q) => InStep(c, done, errs))

\* decrypt_from marks a clean session for reset only with a reason, and a reason
\* stays one.
LEMMA ReasonReceive ==
    ASSUME LettersInv, NoKeyReuse, OrderInv, repeats \in Nat,
           NEW p \in Endpoint, NEW q \in PeersOf(p), NEW c, NEW done, NEW errs,
           InOrderIn(c, done, errs, p, q), Reasonable(c, done, errs, p, q),
           NEW env \in Letters, env.to = p, repeats = 0 => env.m \notin done,
           done \subseteq {e.m : e \in Letters}, NEW r, NEW done1, NEW errs1,
           Reads(c, done, errs, env.m, r, done1, errs1), InOrderIn(r.ctx, done1, errs1, p, q)
    PROVE  Reasonable(r.ctx, done1, errs1, p, q)
<1> PICK m : m = env.m
  OBVIOUS
<1> PICK x : x = r.ctx
  OBVIOUS
<1>0. /\ ContextInv(c, p, q) /\ (CleanContext(c, errs, p, q) => InStep(c, done, errs))
      /\ ContextInv(x, p, q) /\ (CleanContext(x, errs1, p, q) => InStep(x, done1, errs1))
      /\ r = decrypt_from(c, m, FreshKey(c.ratchet.dhs))
      /\ done1 = IF r.result = "ok" THEN done \cup {m} ELSE done
      /\ errs1 = IF r.result = "ok" THEN errs ELSE errs \cup {r.result}
  BY DEF Reads, InOrderIn
<1> PICK fresh : fresh = FreshKey(c.ratchet.dhs)
  OBVIOUS
<1> PICK o : o = decrypt(c.ratchet, m, fresh)
  OBVIOUS
<1>1. SUFFICES ASSUME CleanContext(x, errs1, p, q)
               PROVE  /\ \A k \in x.seen : k.n < x.ratchet.Nr
                      /\ x.reset # None => \/ repeats > 0
                                           \/ OvertakenIn(done1, p, q)
                                           \/ Cardinality(x.seen) = MaxEntries
  BY DEF Reasonable
<1>2. c \in Context
  BY <1>0 DEF ContextInv
<1>3. /\ ~ Accepts(c, m) => Refused(c, x, r.result)
      /\ Accepts(c, m) /\ detect_fork(c.fork, m) => Forked(c, m, x, r.result)
      /\ Accepts(c, m) /\ ~ detect_fork(c.fork, m) => Taken(c, m, o, x, r.result)
  BY <1>0, <1>2, Ways
<1>4. c.seen \subseteq x.seen /\ (Accepts(c, m) => Cached(c, m, x.seen, x.highest))
  BY <1>3 DEF Refused, Forked, Taken, Cached
<1>5. CleanContext(c, errs, p, q)
  BY <1>0, <1>1, <1>4 DEF CleanContext
<1>6. InStep(c, done, errs) /\ InStep(x, done1, errs1)
  BY <1>0, <1>1, <1>5
<1>7. /\ \A k \in c.seen : k.n < c.ratchet.Nr
      /\ c.reset # None => \/ repeats > 0
                           \/ OvertakenIn(done, p, q)
                           \/ Cardinality(c.seen) = MaxEntries
  BY <1>5 DEF Reasonable
<1>8. CASE ~ Accepts(c, m)
  <2>1. x.ratchet = c.ratchet /\ x.seen = c.seen /\ r.result = "replayed-or-stale"
    BY <1>3, <1>8 DEF Refused
  <2>2. done1 = done
    BY <1>0, <2>1
  <2>3. repeats > 0 \/ OvertakenIn(done, p, q) \/ Cardinality(c.seen) = MaxEntries
    BY <1>0, <1>5, <1>6, <1>8, RefusedHasReason
  <2> QED BY <1>7, <2>1, <2>2, <2>3
<1>9. CASE Accepts(c, m)
  <2>1. Cached(c, m, x.seen, x.highest)
    BY <1>4, <1>9
  <2>2. m \in Message
    BY LetterFrom
  <2>3. m.n \in Nat /\ HeaderId(m).dh = m.dh /\ HeaderId(m).n = m.n
    BY <2>2, HeaderParts
  <2>4. HeaderId(m) \in x.highest /\ x.seen = c.seen \cup {HeaderId(m)} /\ HeaderId(m) \notin c.seen
    BY <1>9, <2>1 DEF Cached, Accepts
  <2>5. m.dh = FirstKey(q, p) /\ x.ratchet.Nr = m.n + 1
    BY <1>1, <1>6, <2>3, <2>4 DEF CleanContext, InStep
  <2>6. \A k \in c.seen : k.n \in Nat /\ k.n <= m.n
    BY <1>0, <1>5, <1>6, <1>7, <1>9, <2>2, <2>5, AcceptedIsNewest
  <2>7. \A k \in x.seen : k.n < x.ratchet.Nr
    BY <2>3, <2>4, <2>5, <2>6
  <2>8. r.result = "ok" /\ done1 = done \cup {m}
    BY <1>0, <1>6, <2>4 DEF InStep
  <2>9. r.result # "forked"
    BY <2>8
  <2>10. x.reset = c.reset
    BY <1>3, <1>9, <2>9 DEF Forked, Taken
  <2>11. ASSUME OvertakenIn(done, p, q) PROVE OvertakenIn(done1, p, q)
    <3>1. PICK j, k \in 1..Len(sent) :
              /\ j < k
              /\ sent[j].from = q /\ sent[j].to = p /\ sent[j].m \notin done
              /\ sent[k].m \in done
      BY <2>11 DEF OvertakenIn
    <3>2. HeaderId(sent[k].m) \in c.seen
      BY <1>6, <3>1 DEF InStep
    <3>3. sent[k].m.dh = FirstKey(q, p) /\ sent[k].m.n \in Nat /\ sent[k].m.n <= m.n
      BY <1>5, <2>6, <3>2 DEF CleanContext, HeaderId
    <3>4. sent[j].m # m
      <4>1. ASSUME sent[j].m = m PROVE FALSE
        <5>1. m.n < sent[k].m.n
          BY <2>5, <3>1, <3>3, <4>1, SentEarlier
        <5> QED BY <2>3, <3>3, <5>1
      <4> QED BY <4>1
    <3> QED BY <2>8, <3>1, <3>4 DEF OvertakenIn
  <2>12. Cardinality(c.seen) # MaxEntries
    BY <1>9, SessionManagerAssumption DEF Accepts
  <2> QED BY <1>7, <2>7, <2>10, <2>11, <2>12
<1> QED BY <1>8, <1>9

\* Where a pass has come to after k envelopes: what it has opened were letters,
\* and what it has kept and not yet looked at is unread.
PassOnce(a, p, mail, k) ==
    /\ Once(a.kept, Letters, transit)
    /\ \A i \in 1..Len(a.kept) : \A j \in (k + 1)..Len(mail) :
         a.kept[i] \in Letters => a.kept[i] # mail[j]
    /\ \A q \in PeersOf(p) :
         /\ Unread(a.kept, a.opened[q], Letters, transit, p)
         /\ \A j \in (k + 1)..Len(mail) : mail[j] \in Letters => mail[j].m \notin a.opened[q]

PassReason(a, p, mail, k) ==
    /\ \A q \in PeersOf(p) :
         /\ a.opened[q] \subseteq {env.m : env \in Letters}
         /\ Reasonable(a.ctx[q], a.opened[q], a.errors[q], p, q)
    /\ repeats = 0 => PassOnce(a, p, mail, k)

\* What the pass goes over.
Unique(mail) == repeats = 0 => Once(mail, Letters, transit)

\* An envelope stays in the inbox.
LEMMA ReasonKeeps ==
    ASSUME NEW p \in Endpoint, NEW a, PassInv(a, p), NEW mail \in Seq(Letter \cup {Dummy(p)}),
           Unique(mail), NEW k \in 1..Len(mail), PassReason(a, p, mail, k - 1)
    PROVE  PassReason(Keep(a, mail[k]), p, mail, k)
<1> PICK env : env = mail[k]
  OBVIOUS
<1> PICK b : b = Keep(a, env)
  OBVIOUS
<1> PICK n : n = Len(a.kept)
  OBVIOUS
<1>1. PassTables(a, p) /\ KeptMail(a.kept, p)
  BY DEF PassInv
<1>2. /\ b.kept = Append(a.kept, env) /\ b.ctx = a.ctx /\ b.opened = a.opened
      /\ b.errors = a.errors
  BY <1>1 DEF Keep, PassTables, IsPass
<1>3. Len(mail) \in Nat /\ env \in Letter \cup {Dummy(p)} /\ a.kept \in Seq(Letter \cup {Dummy(p)})
  BY <1>1, LenProperties, ElementOfSeq DEF KeptMail
<1>4. /\ n \in Nat /\ Len(b.kept) = n + 1
      /\ \A i \in 1..n : b.kept[i] = a.kept[i]
      /\ b.kept[n + 1] = env
  BY <1>2, <1>3, AppendProperties, LenProperties
<1>5. \A i \in 1..Len(b.kept) : i \in 1..n \/ i = n + 1
  BY <1>4
<1>6. ASSUME repeats = 0 PROVE PassOnce(b, p, mail, k)
  <2>1. /\ Once(a.kept, Letters, transit) /\ Once(mail, Letters, transit)
        /\ \A i \in 1..n : \A j \in k..Len(mail) : a.kept[i] \in Letters => a.kept[i] # mail[j]
        /\ \A q \in PeersOf(p) :
             /\ Unread(a.kept, a.opened[q], Letters, transit, p)
             /\ \A j \in k..Len(mail) : mail[j] \in Letters => mail[j].m \notin a.opened[q]
    <3>1. (k - 1) + 1 = k
      BY <1>3
    <3> QED BY <1>6, <3>1 DEF PassReason, PassOnce, Unique
  <2>2. k \in k..Len(mail) /\ \A j \in (k + 1)..Len(mail) : j \in k..Len(mail) /\ j \in 1..Len(mail) /\ j # k
    BY <1>3
  <2>3. ASSUME NEW i \in 1..Len(b.kept), NEW j \in 1..Len(b.kept),
               b.kept[i] \in Letters, b.kept[i] = b.kept[j]
        PROVE  i = j
    <3>1. CASE i \in 1..n /\ j \in 1..n
      BY <1>4, <2>1, <2>3, <3>1 DEF Once
    <3>2. CASE i \in 1..n /\ j = n + 1
      <4>1. a.kept[i] \in Letters /\ a.kept[i] = mail[k]
        BY <1>4, <2>3, <3>2
      <4> QED BY <2>1, <2>2, <3>2, <4>1
    <3>3. CASE i = n + 1 /\ j \in 1..n
      <4>1. a.kept[j] \in Letters /\ a.kept[j] = mail[k]
        BY <1>4, <2>3, <3>3
      <4> QED BY <2>1, <2>2, <3>3, <4>1
    <3> QED BY <1>5, <3>1, <3>2, <3>3
  <2>4. ASSUME NEW i \in 1..Len(b.kept) PROVE b.kept[i] \notin transit
    BY <1>4, <1>5, <2>1 DEF Once
  <2>5. ASSUME NEW i \in 1..Len(b.kept), NEW j \in (k + 1)..Len(mail), b.kept[i] \in Letters
        PROVE  b.kept[i] # mail[j]
    <3>1. CASE i \in 1..n
      BY <1>4, <2>1, <2>2, <2>5, <3>1
    <3>2. CASE i = n + 1
      <4>1. mail[k] \in Letters /\ j \in 1..Len(mail) /\ j # k
        BY <1>4, <2>2, <2>5, <3>2
      <4> QED BY <1>4, <2>1, <3>2, <4>1 DEF Once
    <3> QED BY <1>5, <3>1, <3>2
  <2>6. ASSUME NEW q \in PeersOf(p) PROVE Unread(b.kept, b.opened[q], Letters, transit, p)
    <3>1. ASSUME NEW i \in 1..Len(b.kept), b.kept[i] \in Letters
          PROVE  b.kept[i].m \notin a.opened[q]
      <4>1. CASE i \in 1..n
        BY <1>4, <2>1, <3>1, <4>1 DEF Unread
      <4>2. CASE i = n + 1
        BY <1>4, <2>1, <2>2, <3>1, <4>2
      <4> QED BY <1>5, <4>1, <4>2
    <3> QED BY <1>2, <2>1, <3>1 DEF Unread
  <2>7. Once(b.kept, Letters, transit)
    BY <2>3, <2>4 DEF Once
  <2> QED BY <1>2, <2>1, <2>2, <2>5, <2>6, <2>7 DEF PassOnce
<1> QED BY <1>2, <1>6 DEF PassReason

\* What a step of the pass has opened, if anything, is env.
OpenedOne(a, b, p, env) ==
    \A q \in PeersOf(p) :
        \/ b.opened[q] = a.opened[q]
        \/ env \in Letters /\ b.opened[q] = a.opened[q] \cup {env.m}

\* An envelope leaves the inbox: whatever else is unread stays so.
LEMMA OnceReads ==
    ASSUME NEW p \in Endpoint, NoKeyReuse, transit \subseteq Letters, NEW a, NEW b,
           NEW mail, Len(mail) \in Nat,
           NEW k \in 1..Len(mail), Once(mail, Letters, transit), PassOnce(a, p, mail, k - 1),
           b.kept = a.kept, OpenedOne(a, b, p, mail[k])
    PROVE  PassOnce(b, p, mail, k)
<1> PICK env : env = mail[k]
  OBVIOUS
<1>1. /\ Once(a.kept, Letters, transit)
      /\ \A i \in 1..Len(a.kept) : \A j \in k..Len(mail) : a.kept[i] \in Letters => a.kept[i] # mail[j]
      /\ \A q \in PeersOf(p) :
           /\ Unread(a.kept, a.opened[q], Letters, transit, p)
           /\ \A j \in k..Len(mail) : mail[j] \in Letters => mail[j].m \notin a.opened[q]
  <2>1. (k - 1) + 1 = k
    OBVIOUS
  <2> QED BY <2>1 DEF PassOnce
<1>2. k \in k..Len(mail) /\ \A j \in (k + 1)..Len(mail) : j \in k..Len(mail) /\ j \in 1..Len(mail) /\ j # k
  OBVIOUS
<1>3. ASSUME NEW q \in PeersOf(p), NEW e \in Letters, e # env, e.m \notin a.opened[q]
      PROVE  e.m \notin b.opened[q]
  <2>1. CASE b.opened[q] = a.opened[q]
    BY <1>3, <2>1
  <2>2. CASE env \in Letters /\ b.opened[q] = a.opened[q] \cup {env.m}
    <3>1. e.m # env.m
      BY <1>3, <2>2, SameLetter
    <3> QED BY <1>3, <2>2, <3>1
  <2> QED BY <2>1, <2>2 DEF OpenedOne
<1>4. ASSUME NEW q \in PeersOf(p) PROVE Unread(b.kept, b.opened[q], Letters, transit, p)
  <2>1. ASSUME NEW i \in 1..Len(b.kept), b.kept[i] \in Letters PROVE b.kept[i].m \notin b.opened[q]
    <3>1. a.kept[i] # env /\ a.kept[i].m \notin a.opened[q]
      BY <1>1, <1>2, <2>1 DEF Unread
    <3> QED BY <1>3, <2>1, <3>1
  <2>2. ASSUME NEW e \in transit, e.to = p PROVE e.m \notin b.opened[q]
    <3>1. e # env /\ e.m \notin a.opened[q]
      BY <1>1, <2>2 DEF Unread, Once
    <3> QED BY <1>3, <3>1
  <2> QED BY <2>1, <2>2 DEF Unread
<1>5. ASSUME NEW q \in PeersOf(p), NEW j \in (k + 1)..Len(mail), mail[j] \in Letters
      PROVE  mail[j].m \notin b.opened[q]
  <2>1. mail[j] # env /\ mail[j].m \notin a.opened[q]
    BY <1>1, <1>2, <1>5 DEF Once
  <2> QED BY <1>3, <1>5, <2>1
<1> QED BY <1>1, <1>2, <1>4, <1>5 DEF PassOnce

\* An envelope is dropped.
LEMMA ReasonDrops ==
    ASSUME NEW p \in Endpoint, NoKeyReuse, transit \subseteq Letters, NEW a, PassInv(a, p),
           NEW mail, Len(mail) \in Nat, Unique(mail), NEW k \in 1..Len(mail),
           PassReason(a, p, mail, k - 1), NEW env, NEW raised
    PROVE  PassReason(Drop(a, env, raised), p, mail, k)
<1> PICK d : d = a.dropped \cup {env}
  OBVIOUS
<1> PICK b : b = [a EXCEPT !.dropped = d, !.raised = raised]
  OBVIOUS
<1>1. b.kept = a.kept /\ b.ctx = a.ctx /\ b.opened = a.opened /\ b.errors = a.errors
  BY DEF PassInv, PassTables, IsPass
<1>2. repeats = 0 => PassOnce(b, p, mail, k)
  <2>1. OpenedOne(a, b, p, mail[k])
    BY <1>1 DEF OpenedOne
  <2> QED BY <1>1, <2>1, OnceReads DEF PassReason, Unique
<1>3. PassReason(b, p, mail, k)
  BY <1>1, <1>2 DEF PassReason
<1> QED BY <1>3 DEF Drop

\* What decrypting with the session for q changes in a pass.
ReadWith(a, b, p, q, r, done, errs) ==
    /\ b.kept = a.kept
    /\ b.ctx[q] = r.ctx /\ b.opened[q] = done /\ b.errors[q] = errs
    /\ \A y \in PeersOf(p) : y # q =>
         b.ctx[y] = a.ctx[y] /\ b.opened[y] = a.opened[y] /\ b.errors[y] = a.errors[y]

\* ... which is nothing else.
LEMMA DecryptsFields ==
    ASSUME NEW p, NEW a, PassTables(a, p), NEW q \in PeersOf(p), NEW env, NEW r, NEW done, NEW errs,
           Reads(a.ctx[q], a.opened[q], a.errors[q], env.m, r, done, errs)
    PROVE  ReadWith(a, Decrypts(a, q, env), p, q, r, done, errs)
<1> PICK b : b = Decrypts(a, q, env)
  OBVIOUS
<1>1. /\ b.ctx = [a.ctx EXCEPT ![q] = r.ctx] /\ b.kept = a.kept
      /\ b.opened = [a.opened EXCEPT ![q] = done] /\ b.errors = [a.errors EXCEPT ![q] = errs]
  BY DEF Decrypts, Reads
<1>2. /\ a.ctx = [y \in PeersOf(p) |-> a.ctx[y]] /\ a.opened = [y \in PeersOf(p) |-> a.opened[y]]
      /\ a.errors = [y \in PeersOf(p) |-> a.errors[y]]
  BY DEF PassTables
<1>3. b.ctx[q] = r.ctx /\ \A y \in PeersOf(p) : y # q => b.ctx[y] = a.ctx[y]
  BY <1>1, <1>2
<1>4. b.opened[q] = done /\ \A y \in PeersOf(p) : y # q => b.opened[y] = a.opened[y]
  BY <1>1, <1>2
<1>5. b.errors[q] = errs /\ \A y \in PeersOf(p) : y # q => b.errors[y] = a.errors[y]
  BY <1>1, <1>2
<1> QED BY <1>1, <1>3, <1>4, <1>5 DEF ReadWith

\* An envelope is decrypted with the session for q, whoever sent it.
LEMMA ReasonDecrypts ==
    ASSUME StackInv, OrderInv, repeats \in Nat, NEW p \in Endpoint, NEW a, PassInv(a, p),
           NEW mail, Len(mail) \in Nat, Unique(mail), NEW k \in 1..Len(mail),
           PassReason(a, p, mail, k - 1), NEW q \in PeersOf(p),
           mail[k] \in Letters, mail[k].to = p
    PROVE  PassReason(Decrypts(a, q, mail[k]), p, mail, k)
<1> PICK env : env = mail[k]
  OBVIOUS
<1> PICK b : b = Decrypts(a, q, env)
  OBVIOUS
<1>1. LettersInv /\ SessionsInv /\ NoKeyReuse /\ transit \subseteq Letters
  BY DEF StackInv, MailInv
<1>2. PassTables(a, p) /\ PassEnd(a, p, q)
  BY DEF PassInv
<1>3. env \in Letters /\ env.to = p
  OBVIOUS
<1>4. PassInv(b, p)
  BY <1>1, <1>3, PassDecrypts
<1>5. PICK r, done, errs : Reads(a.ctx[q], a.opened[q], a.errors[q], env.m, r, done, errs)
  BY DEF Reads
<1>6. /\ b.kept = a.kept
      /\ b.ctx[q] = r.ctx /\ b.opened[q] = done /\ b.errors[q] = errs
      /\ \A y \in PeersOf(p) : y # q =>
           b.ctx[y] = a.ctx[y] /\ b.opened[y] = a.opened[y] /\ b.errors[y] = a.errors[y]
  <2>1. ReadWith(a, b, p, q, r, done, errs)
    BY <1>2, <1>5, DecryptsFields
  <2> QED BY <2>1 DEF ReadWith
<1>7. done = a.opened[q] \/ done = a.opened[q] \cup {env.m}
  BY <1>5 DEF Reads
<1>8. repeats = 0 => env.m \notin a.opened[q]
  <2>1. k \in ((k - 1) + 1)..Len(mail)
    OBVIOUS
  <2> QED BY <2>1 DEF PassReason, PassOnce
<1>9. a.opened[q] \subseteq {e.m : e \in Letters} /\ Reasonable(a.ctx[q], a.opened[q], a.errors[q], p, q)
  BY DEF PassReason
<1>10. InOrderIn(a.ctx[q], a.opened[q], a.errors[q], p, q) /\ InOrderIn(r.ctx, done, errs, p, q)
  <2>1. PassEnd(b, p, q)
    BY <1>4 DEF PassInv
  <2> QED BY <1>2, <1>6, <2>1 DEF PassEnd, InOrderIn
<1>11. Reasonable(r.ctx, done, errs, p, q)
  <2> PICK c : c = a.ctx[q]
    OBVIOUS
  <2> PICK read : read = a.opened[q]
    OBVIOUS
  <2> PICK raised : raised = a.errors[q]
    OBVIOUS
  <2>1. /\ InOrderIn(c, read, raised, p, q) /\ Reasonable(c, read, raised, p, q)
        /\ Reads(c, read, raised, env.m, r, done, errs)
        /\ repeats = 0 => env.m \notin read
        /\ read \subseteq {e.m : e \in Letters}
    BY <1>5, <1>8, <1>9, <1>10
  <2> QED BY <1>1, <1>3, <1>10, <2>1, ReasonReceive
<1>12. done \subseteq {e.m : e \in Letters}
  BY <1>3, <1>7, <1>9
<1>13. ASSUME NEW y \in PeersOf(p)
       PROVE  /\ b.opened[y] \subseteq {e.m : e \in Letters}
              /\ Reasonable(b.ctx[y], b.opened[y], b.errors[y], p, y)
  <2>1. CASE y # q
    BY <1>6, <2>1 DEF PassReason
  <2>2. CASE y = q
    BY <1>6, <1>11, <1>12, <2>2
  <2> QED BY <2>1, <2>2
<1>14. ASSUME repeats = 0 PROVE PassOnce(b, p, mail, k)
  <2>1. Once(mail, Letters, transit) /\ PassOnce(a, p, mail, k - 1)
    BY <1>14 DEF Unique, PassReason
  <2>2. OpenedOne(a, b, p, env)
    BY <1>3, <1>6, <1>7 DEF OpenedOne
  <2> QED BY <1>1, <1>6, <2>1, <2>2, OnceReads
<1> QED BY <1>13, <1>14 DEF PassReason

\* One envelope of recv_text.
LEMMA ReasonText ==
    ASSUME StackInv, OrderInv, repeats \in Nat, NEW p \in Endpoint, NEW a, PassInv(a, p),
           NEW mail \in Seq(Letter \cup {Dummy(p)}), Unique(mail), NEW k \in 1..Len(mail),
           Mail(mail[k], p), PassReason(a, p, mail, k - 1), NEW peer \in PeersOf(p)
    PROVE  PassReason(TextStep(a, mail[k], peer), p, mail, k)
<1>1. CASE a.raised \/ IsSealed(mail[k])
  BY <1>1, ReasonKeeps DEF TextStep
<1>2. CASE ~(a.raised \/ IsSealed(mail[k]))
  <2>1. mail[k] # Dummy(p)
    BY <1>2 DEF IsSealed, Dummy
  <2>2. mail[k] \in Letters /\ mail[k].to = p /\ Len(mail) \in Nat
    BY <2>1, LenProperties DEF Mail
  <2> QED BY <1>2, <2>2, ReasonDecrypts DEF TextStep
<1> QED BY <1>1, <1>2

\* What a session opens is sealed with a root key.
LEMMA Opener ==
    ASSUME NEW p \in Endpoint, NEW a, PassInv(a, p), NEW env, NEW q \in DOMAIN a.ctx,
           Unseals(a.ctx[q], env)
    PROVE  q \in PeersOf(p) /\ env.seal # None
<1>1. q \in PeersOf(p)
  BY DEF PassInv, PassTables
<1>2. a.ctx[q].ratchet \in Ratchet
  BY <1>1 DEF PassInv, PassEnd, ContextInv, RatchetInv
<1> QED BY <1>1, <1>2, RatchetParts, StackAssumption DEF Unseals, Roots

\* One envelope of recv_sealed.
LEMMA ReasonSealed ==
    ASSUME StackInv, OrderInv, repeats \in Nat, NEW p \in Endpoint, NEW a, PassInv(a, p),
           NEW mail \in Seq(Letter \cup {Dummy(p)}), Unique(mail), NEW k \in 1..Len(mail),
           Mail(mail[k], p), PassReason(a, p, mail, k - 1), NEW drop
    PROVE  PassReason(SealedStep(a, mail[k], drop), p, mail, k)
<1>0. Len(mail) \in Nat
  BY LenProperties
<1>1. CASE a.raised \/ ~ IsSealed(mail[k])
  BY <1>1, ReasonKeeps DEF SealedStep
<1>2. CASE ~(a.raised \/ ~ IsSealed(mail[k]))
  <2> PICK env : env = mail[k]
    OBVIOUS
  <2> PICK opens : opens = {q \in DOMAIN a.ctx : Unseals(a.ctx[q], env)}
    OBVIOUS
  <2>1. SealedStep(a, env, drop) =
          IF opens # {} THEN Decrypts(a, CHOOSE q \in opens : TRUE, env)
          ELSE [a EXCEPT !.dropped = @ \cup {env}, !.raised = ~ drop]
    BY <1>2 DEF SealedStep, DecryptsSealed
  <2>2. CASE opens # {}
    <3> PICK q : q = CHOOSE y \in opens : TRUE
      OBVIOUS
    <3>1. q \in opens
      BY <2>2
    <3>2. q \in DOMAIN a.ctx /\ Unseals(a.ctx[q], env)
      BY <3>1
    <3>3. q \in PeersOf(p) /\ env.seal # None
      BY <3>2, Opener
    <3>4. env \in Letters /\ env.to = p
      BY <3>3 DEF Mail, Dummy
    <3>5. SealedStep(a, env, drop) = Decrypts(a, q, env)
      BY <2>1, <2>2
    <3> QED BY <1>0, <3>3, <3>4, <3>5, ReasonDecrypts
  <2>3. CASE opens = {}
    <3>1. SealedStep(a, env, drop) = Drop(a, env, ~ drop)
      BY <2>1, <2>3, Zenon DEF Drop
    <3> PICK raised : raised = ~ drop
      OBVIOUS
    <3>2. NoKeyReuse /\ transit \subseteq Letters
      BY DEF StackInv, MailInv
    <3>3. PassReason(Drop(a, env, raised), p, mail, k)
      BY <1>0, <3>2, ReasonDrops
    <3> QED BY <3>1, <3>3
  <2> QED BY <2>2, <2>3
<1> QED BY <1>1, <1>2

\* A pass whose steps keep it keeps it to the end.
LEMMA ReasonRuns ==
    ASSUME NEW p, NEW mail, NEW after, NEW n \in Nat, PassReason(after[0], p, mail, 0),
           \A k \in 1..n : PassReason(after[k - 1], p, mail, k - 1) => PassReason(after[k], p, mail, k)
    PROVE  PassReason(after[n], p, mail, n)
<1> DEFINE S == {k \in Nat : k <= n => PassReason(after[k], p, mail, k)}
<1>1. 0 \in S
  OBVIOUS
<1>2. ASSUME NEW k \in S PROVE k + 1 \in S
  <2> SUFFICES ASSUME k + 1 <= n PROVE PassReason(after[k + 1], p, mail, k + 1)
    OBVIOUS
  <2>1. k \in Nat /\ PassReason(after[k], p, mail, k)
    OBVIOUS
  <2>2. k + 1 \in 1..n /\ (k + 1) - 1 = k
    BY <2>1
  <2> QED BY <2>1, <2>2
<1>3. S = Nat
  <2> HIDE DEF S
  <2>1. S \subseteq Nat BY DEF S
  <2> QED BY <1>1, <1>2, <2>1, InductiveSet
<1> QED BY <1>3

\* The beginning of a pass.
LEMMA ReasonBegins ==
    ASSUME StackInv, ReasonInv, NEW p \in Endpoint
    PROVE  PassReason(Pass(p), p, inbox[p], 0) /\ Unique(inbox[p])
<1> PICK a : a = Pass(p)
  OBVIOUS
<1> PICK mail : mail = inbox[p]
  OBVIOUS
<1>1. a.ctx = session[p] /\ a.kept = << >> /\ a.opened = opened[p] /\ a.errors = errors[p]
  BY DEF Pass
<1>2. Len(a.kept) = 0 /\ 1..Len(a.kept) = {}
  BY <1>1
<1>3. ASSUME NEW q \in PeersOf(p)
      PROVE  /\ a.opened[q] \subseteq {env.m : env \in Letters}
             /\ Reasonable(a.ctx[q], a.opened[q], a.errors[q], p, q)
  BY <1>1 DEF ReasonInv, OpenedInv
<1>4. ASSUME repeats = 0 PROVE PassOnce(a, p, mail, 0) /\ Once(mail, Letters, transit)
  <2>1. /\ Once(mail, Letters, transit)
        /\ \A q \in PeersOf(p) : Unread(mail, a.opened[q], Letters, transit, p)
    BY <1>1, <1>4 DEF ReasonInv, OnceInv
  <2>2. Once(a.kept, Letters, transit)
    BY <1>2 DEF Once
  <2>3. \A q \in PeersOf(p) : Unread(a.kept, a.opened[q], Letters, transit, p)
    BY <1>2, <2>1 DEF Unread
  <2>4. \A q \in PeersOf(p) : \A j \in (0 + 1)..Len(mail) :
            mail[j] \in Letters => mail[j].m \notin a.opened[q]
    BY <2>1 DEF Unread
  <2> QED BY <1>2, <2>1, <2>2, <2>3, <2>4 DEF PassOnce
<1> QED BY <1>3, <1>4 DEF PassReason, Unique

\* A pass ends with a reason for every mark.
LEMMA RanReason ==
    ASSUME StackInv, ReasonInv, NEW p \in Endpoint, NEW after, Ran(after, p),
           \A k \in 1..Len(inbox[p]) :
               /\ PassInv(after[k - 1], p)
               /\ PassReason(after[k - 1], p, inbox[p], k - 1)
               => PassReason(after[k], p, inbox[p], k)
    PROVE  \E a : PassInv(a, p) /\ PassReason(a, p, inbox[p], Len(inbox[p])) /\ Finish(p, a)
<1> PICK n : n = Len(inbox[p])
  OBVIOUS
<1>1. n \in Nat /\ n \in 0..n
  BY LenProperties DEF StackInv, MailInv
<1>2. PassReason(after[0], p, inbox[p], 0)
  BY ReasonBegins DEF Ran
<1>3. ASSUME NEW k \in 1..n PROVE PassInv(after[k - 1], p)
  <2>1. k - 1 \in 0..n
    BY <1>1
  <2> QED BY <2>1 DEF Ran
<1>4. PassReason(after[n], p, inbox[p], n)
  BY <1>1, <1>2, <1>3, ReasonRuns
<1> QED BY <1>1, <1>4 DEF Ran

\* The end of recv_text.
LEMMA TextReason ==
    ASSUME StackInv, ReasonInv, NEW p \in Endpoint, NEW peer \in Endpoint, recv_text(p, peer)
    PROVE  \E a : PassInv(a, p) /\ PassReason(a, p, inbox[p], Len(inbox[p])) /\ Finish(p, a)
<1>1. PICK after : Ran(after, p) /\ \A k \in 1..Len(inbox[p]) : after[k] = TextStep(after[k - 1], inbox[p][k], peer)
  BY TextPass
<1>2. peer \in PeersOf(p)
  BY DEF recv_text
<1>3. ASSUME NEW k \in 1..Len(inbox[p]), PassInv(after[k - 1], p),
             PassReason(after[k - 1], p, inbox[p], k - 1)
      PROVE  PassReason(after[k], p, inbox[p], k)
  <2>1. inbox[p] \in Seq(Letter \cup {Dummy(p)}) /\ Mail(inbox[p][k], p)
    BY DEF StackInv, MailInv, Mail
  <2>2. Unique(inbox[p]) /\ OrderInv /\ repeats \in Nat
    BY ReasonBegins DEF ReasonInv
  <2>3. PassReason(TextStep(after[k - 1], inbox[p][k], peer), p, inbox[p], k)
    BY <1>2, <1>3, <2>1, <2>2, ReasonText
  <2> QED BY <1>1, <2>3
<1> QED BY <1>1, <1>3, RanReason

\* ... and of recv_sealed.
LEMMA SealedReason ==
    ASSUME StackInv, ReasonInv, NEW p \in Endpoint, NEW drop \in BOOLEAN, recv_sealed(p, drop)
    PROVE  \E a : PassInv(a, p) /\ PassReason(a, p, inbox[p], Len(inbox[p])) /\ Finish(p, a)
<1>1. PICK after : Ran(after, p) /\ \A k \in 1..Len(inbox[p]) : after[k] = SealedStep(after[k - 1], inbox[p][k], drop)
  BY SealedPass
<1>2. ASSUME NEW k \in 1..Len(inbox[p]), PassInv(after[k - 1], p),
             PassReason(after[k - 1], p, inbox[p], k - 1)
      PROVE  PassReason(after[k], p, inbox[p], k)
  <2>1. inbox[p] \in Seq(Letter \cup {Dummy(p)}) /\ Mail(inbox[p][k], p)
    BY DEF StackInv, MailInv, Mail
  <2>2. Unique(inbox[p]) /\ OrderInv /\ repeats \in Nat
    BY ReasonBegins DEF ReasonInv
  <2>3. PassReason(SealedStep(after[k - 1], inbox[p][k], drop), p, inbox[p], k)
    BY <1>2, <2>1, <2>2, ReasonSealed
  <2> QED BY <1>1, <2>3
<1> QED BY <1>1, <1>2, RanReason

\* No dummy is a letter.
LEMMA DummyIsNone ==
    ASSUME SealInv, NEW p
    PROVE  Dummy(p) \notin Letters
<1>1. IsSealed(Dummy(p)) /\ Dummy(p).seal = None
  BY DEF Dummy, IsSealed
<1> QED BY <1>1 DEF SealInv

\* Nothing new in this inbox.
LEMMA OnceStays ==
    ASSUME NEW mail, NEW L, NEW M, NEW T, NEW U, NEW done, NEW p,
           \A i \in 1..Len(mail) : mail[i] \in M => mail[i] \in L,
           \A i \in 1..Len(mail) : mail[i] \notin U,
           \A e \in U : e.to = p => e.m \notin done
    PROVE  /\ Once(mail, L, T) => Once(mail, M, U)
           /\ Unread(mail, done, L, T, p) => Unread(mail, done, M, U, p)
BY DEF Once, Unread

\* A new envelope in this inbox.
LEMMA OnceAppended ==
    ASSUME NEW S, NEW mail \in Seq(S), NEW env \in S, NEW L, NEW U, NEW done, NEW p,
           env \in L => env.m \notin done /\ \A i \in 1..Len(mail) : mail[i] # env,
           env \notin U, Once(mail, L, U)
    PROVE  /\ Once(Append(mail, env), L, U)
           /\ Unread(mail, done, L, U, p) => Unread(Append(mail, env), done, L, U, p)
<1> PICK new : new = Append(mail, env)
  OBVIOUS
<1> PICK n : n = Len(mail)
  OBVIOUS
<1>1. /\ n \in Nat /\ Len(new) = n + 1 /\ new[n + 1] = env
      /\ \A i \in 1..n : new[i] = mail[i]
  BY AppendProperties, LenProperties
<1>2. \A i \in 1..Len(new) : i \in 1..n \/ i = n + 1
  BY <1>1
<1>3. ASSUME NEW i \in 1..Len(new), NEW j \in 1..Len(new), new[i] \in L, new[i] = new[j]
      PROVE  i = j
  <2>1. CASE i \in 1..n /\ j \in 1..n
    BY <1>1, <1>3, <2>1 DEF Once
  <2>2. CASE i = n + 1 /\ j \in 1..n
    BY <1>1, <1>3, <2>2
  <2>3. CASE i \in 1..n /\ j = n + 1
    BY <1>1, <1>3, <2>3
  <2> QED BY <1>2, <2>1, <2>2, <2>3
<1>4. ASSUME NEW i \in 1..Len(new) PROVE new[i] \notin U
  BY <1>1, <1>2 DEF Once
<1>5. ASSUME Unread(mail, done, L, U, p), NEW i \in 1..Len(new), new[i] \in L
      PROVE  new[i].m \notin done
  BY <1>1, <1>2, <1>5 DEF Unread
<1>6. Once(new, L, U)
  BY <1>3, <1>4 DEF Once
<1>7. Unread(mail, done, L, U, p) => Unread(new, done, L, U, p)
  BY <1>5 DEF Unread
<1> QED BY <1>6, <1>7

\* The envelope just made is new: no letter has its message.
LEMMA NewLetter ==
    ASSUME NoKeyReuse', NEW p \in Endpoint, NEW q \in Endpoint, NEW env, NEW s, NEW t,
           Sends(p, q, env, s, t), NEW e \in Letters
    PROVE  e # env /\ e.m # env.m
<1>1. /\ Len(sent) \in Nat /\ Len(sent') = Len(sent) + 1 /\ sent'[Len(sent')] = env
      /\ \A j \in 1..Len(sent) : sent'[j] = sent[j]
  BY SendsLetters
<1>2. PICK j \in 1..Len(sent) : e = sent[j]
  BY DEF Letters
<1>3. j \in 1..Len(sent') /\ Len(sent') \in 1..Len(sent') /\ j # Len(sent')
  BY <1>1
<1>4. sent'[j].m.mk # sent'[Len(sent')].m.mk
  BY <1>3 DEF NoKeyReuse
<1> QED BY <1>1, <1>2, <1>4

\* The new letter has the highest number of its chain.
LEMMA SendKeepsOrder ==
    ASSUME StackInv, OrderInv, NEW p \in Endpoint, NEW q \in Endpoint, NEW env, NEW s, NEW t,
           Sends(p, q, env, s, t)
    PROVE  OrderInv'
<1>1. /\ Len(sent) \in Nat /\ Len(sent') = Len(sent) + 1 /\ sent'[Len(sent')] = env
      /\ \A j \in 1..Len(sent) : sent'[j] = sent[j]
  BY SendsLetters
<1> SUFFICES ASSUME NEW j \in 1..Len(sent'), NEW k \in 1..Len(sent'), j < k,
                    sent'[j].m.dh = sent'[k].m.dh
             PROVE  sent'[j].m.mk.i < sent'[k].m.mk.i
  BY DEF OrderInv
<1>2. j \in 1..Len(sent) /\ (k \in 1..Len(sent) \/ k = Len(sent'))
  BY <1>1
<1>3. CASE k \in 1..Len(sent)
  BY <1>1, <1>2, <1>3 DEF OrderInv
<1>4. CASE k = Len(sent')
  <2> PICK e : e = sent[j]
    OBVIOUS
  <2>1. e \in Letters /\ e.m.dh = env.m.dh
    BY <1>1, <1>2, <1>4 DEF Letters
  <2>2. MessageInv(e.m, e.from, e.to) /\ LeftBehind(e.m, session[e.from][e.to].ratchet)
    BY <2>1 DEF StackInv, LettersInv
  <2>3. s = session[p][q].ratchet /\ Seals(s, t, env.m, p, q)
    BY DEF Sends
  <2>4. env.m.dh = s.dhs /\ s.dhs[1] = p /\ s.dhs[2] = q
    BY <2>3 DEF Seals, RatchetInv
  <2>5. e.from = p /\ e.to = q
    BY <2>1, <2>2, <2>4 DEF MessageInv
  <2>6. s.ck_s # None /\ e.m.mk.i < s.ck_s.i
    BY <2>1, <2>2, <2>3, <2>4, <2>5 DEF LeftBehind
  <2>7. env.m.mk = s.ck_s
    BY <2>3, <2>6 DEF Seals
  <2> QED BY <1>1, <1>2, <1>4, <2>6, <2>7
<1> QED BY <1>2, <1>3, <1>4

\* What was overtaken stays overtaken when more is sent.
LEMMA SendKeepsReasons ==
    ASSUME StackInv, ReasonInv, NEW p \in Endpoint, NEW q \in Endpoint, NEW env, NEW s, NEW t,
           Sends(p, q, env, s, t), UNCHANGED <<repeats, history>>,
           NEW x \in Endpoint, NEW y \in PeersOf(x)
    PROVE  Reasonable(session[x][y], opened[x][y], errors[x][y], x, y)'
<1> PICK c : c = session[x][y]
  OBVIOUS
<1> PICK d : d = session'[x][y]
  OBVIOUS
<1>1. /\ Len(sent) \in Nat /\ Len(sent') = Len(sent) + 1
      /\ \A j \in 1..Len(sent) : sent'[j] = sent[j]
  BY SendsLetters
<1>2. d.seen = c.seen /\ d.reset = c.reset /\ d.ratchet.Nr = c.ratchet.Nr
  <2>1. CASE x = p /\ y = q
    BY <2>1 DEF Sends, SentWith, Seals, SameReceiver
  <2>2. CASE x # p \/ y # q
    BY <2>2 DEF Sends
  <2> QED BY <2>1, <2>2
<1>3. opened' = opened /\ errors' = errors /\ repeats' = repeats
  BY DEF history
<1>4. Reasonable(c, opened[x][y], errors[x][y], x, y)
  BY DEF ReasonInv
<1>5. CleanContext(d, errors[x][y], x, y) => CleanContext(c, errors[x][y], x, y)
  BY <1>2 DEF CleanContext
<1>6. ASSUME OvertakenIn(opened[x][y], x, y) PROVE OvertakenIn(opened[x][y], x, y)'
  <2>1. PICK j, k \in 1..Len(sent) :
            /\ j < k
            /\ sent[j].from = y /\ sent[j].to = x /\ sent[j].m \notin opened[x][y]
            /\ sent[k].m \in opened[x][y]
    BY <1>6 DEF OvertakenIn
  <2>2. j \in 1..Len(sent') /\ k \in 1..Len(sent') /\ sent'[j] = sent[j] /\ sent'[k] = sent[k]
    BY <1>1
  <2> QED BY <1>3, <2>1, <2>2 DEF OvertakenIn
<1> QED BY <1>2, <1>3, <1>4, <1>5, <1>6 DEF Reasonable

\* What the two ways of sending have in common.
LEMMA SendReason ==
    ASSUME StackInv, StackInv', ReasonInv, NEW p \in Endpoint, NEW q \in Endpoint, NEW env,
           Encrypts(p, q, env), env = Plain(p, q) \/ env = Sealed(p, q)
    PROVE  /\ Letters' = Letters \cup {env} /\ SealInv'
           /\ \A e \in Letters : e # env /\ e.m # env.m
           /\ OnceInv' => ReasonInv'
<1>1. UNCHANGED <<repeats, history>> /\ opened' = opened /\ errors' = errors /\ repeats' = repeats
  BY DEF Encrypts, history
<1>2. PICK s, t : Sends(p, q, env, s, t)
  BY EncryptsSends
<1>3. Letters' = Letters \cup {env}
  BY <1>2, SendsLetters
<1>4. \A e \in Letters : e # env /\ e.m # env.m
  BY <1>2, NewLetter DEF StackInv
<1>5. OrderInv'
  BY <1>2, SendKeepsOrder DEF ReasonInv
<1>6. SealInv'
  <2>1. ASSUME IsSealed(env) PROVE env.seal # None
    <3>1. env = Sealed(p, q)
      BY <2>1 DEF IsSealed, Plain
    <3>2. q \in PeersOf(p) /\ session' = [session EXCEPT ![p][q] = SentContext(@)]
      BY DEF Encrypts
    <3>3. session = [x \in Endpoint |-> [y \in PeersOf(x) |-> session[x][y]]]
      BY DEF StackInv, TablesInv
    <3>4. session'[p][q] = SentContext(session[p][q])
      BY <3>2, <3>3
    <3>5. env.seal = session'[p][q].ratchet.root_key
      BY <3>1, <3>4 DEF Sealed, SealingKey
    <3>6. session'[p][q].ratchet \in Ratchet
      BY <3>2 DEF StackInv, SessionsInv, ContextInv, RatchetInv
    <3> QED BY <3>5, <3>6, RatchetParts, StackAssumption DEF Roots
  <2> QED BY <1>3, <2>1 DEF ReasonInv, SealInv
<1>7. OpenedInv'
  BY <1>1, <1>3 DEF ReasonInv, OpenedInv
<1>8. ASSUME NEW x \in Endpoint, NEW y \in PeersOf(x)
      PROVE  Reasonable(session[x][y], opened[x][y], errors[x][y], x, y)'
  BY <1>1, <1>2, SendKeepsReasons
<1>9. OnceInv' => ReasonInv'
  BY <1>1, <1>5, <1>6, <1>7, <1>8 DEF ReasonInv
<1> QED BY <1>3, <1>4, <1>6, <1>9

\* No envelope in an inbox is the one just made.
LEMMA NotInBox ==
    ASSUME StackInv, SealInv', NEW env \in Letters', \A e \in Letters : e # env,
           NEW p \in Endpoint, NEW i \in 1..Len(inbox[p])
    PROVE  inbox[p][i] # env
<1>1. inbox[p][i] \in Letters \/ inbox[p][i] = Dummy(p)
  BY DEF StackInv, MailInv
<1>2. IsSealed(Dummy(p)) /\ Dummy(p).seal = None
  BY DEF Dummy, IsSealed
<1>3. env # Dummy(p)
  BY <1>2 DEF SealInv
<1> QED BY <1>1, <1>3

\* send_text keeps it.
LEMMA SendTextReason ==
    ASSUME StackInv, StackInv', ReasonInv, NEW p \in Endpoint, NEW q \in Endpoint,
           NEW sealed \in BOOLEAN, send_text(p, q, sealed)
    PROVE  ReasonInv'
<1>1. PICK env : /\ env = Plain(p, q) \/ env = Sealed(p, q)
                 /\ Encrypts(p, q, env)
                 /\ inbox' = [inbox EXCEPT ![q] = Append(@, env)]
                 /\ UNCHANGED transit
  BY DEF send_text
<1>2. /\ Letters' = Letters \cup {env} /\ SealInv'
      /\ \A e \in Letters : e # env /\ e.m # env.m
      /\ OnceInv' => ReasonInv'
  BY <1>1, SendReason
<1>3. opened' = opened /\ repeats' = repeats /\ transit' = transit /\ transit \subseteq Letters
  BY <1>1 DEF Encrypts, history, StackInv, MailInv
<1>4. inbox = [x \in Endpoint |-> inbox[x]]
  BY DEF StackInv, TablesInv
<1>5. inbox' = [x \in Endpoint |-> IF x = q THEN Append(inbox[q], env) ELSE inbox[x]]
  BY <1>1, <1>4
<1>6. ASSUME repeats = 0, NEW x \in Endpoint, NEW y \in PeersOf(x)
      PROVE  /\ Once(inbox'[x], Letters', transit)
             /\ Unread(inbox'[x], opened[x][y], Letters', transit, x)
  <2>1. Once(inbox[x], Letters, transit) /\ Unread(inbox[x], opened[x][y], Letters, transit, x)
    BY <1>6 DEF ReasonInv, OnceInv
  <2>2. \A i \in 1..Len(inbox[x]) : inbox[x][i] # env
    BY <1>2, NotInBox
  <2>3. \A e \in transit : e.to = x => e.m \notin opened[x][y]
    BY <2>1 DEF Unread
  <2>4. \A i \in 1..Len(inbox[x]) : inbox[x][i] \notin transit
    BY <2>1 DEF Once
  <2>5. Once(inbox[x], Letters', transit) /\ Unread(inbox[x], opened[x][y], Letters', transit, x)
    BY <1>2, <2>1, <2>2, <2>3, <2>4, OnceStays
  <2>6. CASE x # q
    BY <1>5, <2>5, <2>6
  <2>7. CASE x = q
    <3>1. inbox[x] \in Seq(Letter \cup {Dummy(x)})
      BY DEF StackInv, MailInv
    <3>2. env \in Letter
      BY <1>1, SendKeeps
    <3>3. env.m \notin opened[x][y] /\ env \notin transit
      BY <1>2, <1>3 DEF ReasonInv, OpenedInv
    <3>4. env \in Letter \cup {Dummy(x)}
      BY <3>2
    <3>5. /\ Once(Append(inbox[x], env), Letters', transit)
          /\ Unread(Append(inbox[x], env), opened[x][y], Letters', transit, x)
      BY <2>2, <2>5, <3>1, <3>3, <3>4, OnceAppended
    <3> QED BY <1>5, <2>7, <3>5
  <2> QED BY <2>6, <2>7
<1>7. ASSUME repeats = 0, NEW x \in Endpoint PROVE Once(inbox'[x], Letters', transit)
  <2>1. CASE PeersOf(x) # {}
    BY <1>6, <1>7, <2>1
  <2>2. CASE PeersOf(x) = {}
    <3>1. q \in PeersOf(p) /\ p \in PeersOf(q)
      BY <1>1, PeerFacts DEF Encrypts
    <3>2. x # q
      BY <2>2, <3>1
    <3>3. Once(inbox[x], Letters, transit)
      BY <1>7 DEF ReasonInv, OnceInv
    <3>4. \A i \in 1..Len(inbox[x]) : inbox[x][i] # env
      BY <1>2, NotInBox
    <3> QED BY <1>2, <1>5, <3>2, <3>3, <3>4 DEF Once
  <2> QED BY <2>1, <2>2
<1>8. OnceInv'
  BY <1>3, <1>6, <1>7 DEF OnceInv
<1> QED BY <1>2, <1>8

\* SendRelayed keeps it.
LEMMA SendRelayedReason ==
    ASSUME StackInv, StackInv', ReasonInv, NEW p \in Endpoint, NEW q \in Endpoint,
           SendRelayed(p, q)
    PROVE  ReasonInv'
<1> PICK env : env = Sealed(p, q)
  OBVIOUS
<1>1. Encrypts(p, q, env) /\ transit' = transit \cup {env} /\ inbox' = inbox
  BY DEF SendRelayed
<1>2. /\ Letters' = Letters \cup {env} /\ SealInv'
      /\ \A e \in Letters : e # env /\ e.m # env.m
      /\ OnceInv' => ReasonInv'
  BY <1>1, SendReason
<1>3. opened' = opened /\ repeats' = repeats
  BY <1>1 DEF Encrypts, history
<1>4. ASSUME repeats = 0, NEW x \in Endpoint
      PROVE  /\ Once(inbox[x], Letters', transit')
             /\ \A y \in PeersOf(x) : Unread(inbox[x], opened[x][y], Letters', transit', x)
  <2>1. /\ Once(inbox[x], Letters, transit)
        /\ \A y \in PeersOf(x) : Unread(inbox[x], opened[x][y], Letters, transit, x)
    BY <1>4 DEF ReasonInv, OnceInv
  <2>2. \A i \in 1..Len(inbox[x]) : inbox[x][i] # env
    BY <1>2, NotInBox
  <2>3. \A y \in PeersOf(x) : env.m \notin opened[x][y]
    BY <1>2 DEF ReasonInv, OpenedInv
  <2>4. Once(inbox[x], Letters', transit')
    BY <1>1, <1>2, <2>1, <2>2 DEF Once
  <2>5. ASSUME NEW y \in PeersOf(x) PROVE Unread(inbox[x], opened[x][y], Letters', transit', x)
    BY <1>1, <1>2, <2>1, <2>2, <2>3 DEF Unread
  <2> QED BY <2>4, <2>5
<1>5. OnceInv'
  BY <1>1, <1>3, <1>4 DEF OnceInv
<1> QED BY <1>2, <1>5

\* A step of the relay has only to keep the letters apart.
LEMMA RelayReason ==
    ASSUME ReasonInv, UNCHANGED <<session, sent, history>>, repeats' \in Nat,
           repeats' >= repeats, OnceInv'
    PROVE  ReasonInv'
<1>1. session' = session /\ sent' = sent /\ opened' = opened /\ errors' = errors
  BY DEF history
<1>2. Letters' = Letters
  BY <1>1 DEF Letters
<1>3. OrderInv' /\ SealInv' /\ OpenedInv'
  BY <1>1, <1>2 DEF ReasonInv, OrderInv, SealInv, OpenedInv
<1>4. ASSUME NEW x \in Endpoint, NEW y \in PeersOf(x)
      PROVE  Reasonable(session[x][y], opened[x][y], errors[x][y], x, y)'
  <2>1. Reasonable(session[x][y], opened[x][y], errors[x][y], x, y)
    BY DEF ReasonInv
  <2>2. OvertakenIn(opened[x][y], x, y)' <=> OvertakenIn(opened[x][y], x, y)
    BY <1>1 DEF OvertakenIn
  <2>3. repeats > 0 => repeats' > 0
    BY DEF ReasonInv
  <2> QED BY <1>1, <2>1, <2>2, <2>3 DEF Reasonable, CleanContext
<1> QED BY <1>3, <1>4 DEF ReasonInv

\* An envelope that is in no inbox arrives in one.
LEMMA OnceArrives ==
    ASSUME StackInv, ReasonInv, repeats = 0, NEW q \in Endpoint,
           NEW env \in Letter \cup {Dummy(q)},
           inbox' = [inbox EXCEPT ![q] = Append(@, env)],
           UNCHANGED <<sent, history>>, NEW U \in SUBSET transit, transit' = U, env \notin U,
           env \in Letters => env \in transit /\ env.to = q
    PROVE  OnceInv'
<1>1. Letters' = Letters /\ opened' = opened
  BY DEF Letters, history
<1>2. inbox = [x \in Endpoint |-> inbox[x]]
  BY DEF StackInv, TablesInv
<1>3. inbox' = [x \in Endpoint |-> IF x = q THEN Append(inbox[q], env) ELSE inbox[x]]
  BY <1>2
<1>4. ASSUME NEW x \in Endpoint
      PROVE  /\ Once(inbox'[x], Letters, U)
             /\ \A y \in PeersOf(x) : Unread(inbox'[x], opened[x][y], Letters, U, x)
  <2>1. /\ Once(inbox[x], Letters, transit)
        /\ \A y \in PeersOf(x) : Unread(inbox[x], opened[x][y], Letters, transit, x)
    BY DEF ReasonInv, OnceInv
  <2>2. /\ Once(inbox[x], Letters, U)
        /\ \A y \in PeersOf(x) : Unread(inbox[x], opened[x][y], Letters, U, x)
    BY <2>1 DEF Once, Unread
  <2>3. CASE x # q
    BY <1>3, <2>2, <2>3
  <2>4. CASE x = q
    <3>1. inbox[q] \in Seq(Letter \cup {Dummy(q)})
      BY DEF StackInv, MailInv
    <3>2. env \in Letters => \A i \in 1..Len(inbox[q]) : inbox[q][i] # env
      BY <2>1, <2>4 DEF Once
    <3>3. \A y \in PeersOf(q) : env \in Letters => env.m \notin opened[q][y]
      BY <2>1, <2>4 DEF Unread
    <3>4. Once(Append(inbox[q], env), Letters, U)
      <4> PICK none : none = {}
        OBVIOUS
      <4>1. env.m \notin none
        OBVIOUS
      <4> QED BY <2>2, <2>4, <3>1, <3>2, <4>1, OnceAppended
    <3>5. ASSUME NEW y \in PeersOf(q) PROVE Unread(Append(inbox[q], env), opened[q][y], Letters, U, q)
      <4> PICK done : done = opened[q][y]
        OBVIOUS
      <4>1. env \in Letters => env.m \notin done
        BY <3>3
      <4>2. Unread(inbox[q], done, Letters, U, q) /\ Once(inbox[q], Letters, U)
        BY <2>2, <2>4
      <4>3. Unread(Append(inbox[q], env), done, Letters, U, q)
        BY <3>1, <3>2, <4>1, <4>2, OnceAppended
      <4> QED BY <4>3
    <3> QED BY <1>3, <2>4, <3>4, <3>5
  <2> QED BY <2>3, <2>4
<1> QED BY <1>1, <1>4 DEF OnceInv

\* Arrive keeps it: an envelope the relay also keeps is a repetition.
LEMMA ArriveReason ==
    ASSUME StackInv, ReasonInv, NEW env \in transit, Arrive(env)
    PROVE  ReasonInv'
<1>1. /\ inbox' = [inbox EXCEPT ![env.to] = Append(@, env)]
      /\ UNCHANGED <<session, sent, history>>
      /\ \/ transit' = transit \ {env} /\ repeats' = repeats
         \/ repeats' = repeats + 1
  BY DEF Arrive
<1>2. env \in Letters /\ repeats \in Nat
  BY DEF StackInv, MailInv, ReasonInv
<1>3. env \in Letter
  BY <1>2, ElementOfSeq DEF StackInv, LettersInv, Letters
<1>4. repeats' \in Nat /\ repeats' >= repeats
  BY <1>1, <1>2
<1>5. OnceInv'
  <2>1. CASE repeats' # 0
    BY <2>1 DEF OnceInv
  <2>2. CASE repeats' = 0
    <3> PICK q : q = env.to
      OBVIOUS
    <3> PICK U : U = transit \ {env}
      OBVIOUS
    <3>1. repeats = 0 /\ transit' = U
      BY <1>1, <1>2, <2>2
    <3>2. q \in Endpoint /\ env \in Letter \cup {Dummy(q)}
      BY <1>3 DEF Letter
    <3>3. U \in SUBSET transit /\ env \notin U
      OBVIOUS
    <3> QED BY <1>1, <3>1, <3>2, <3>3, OnceArrives
  <2> QED BY <2>1, <2>2
<1> QED BY <1>1, <1>4, <1>5, RelayReason

\* A dummy is no letter.
LEMMA ArriveDummyReason ==
    ASSUME StackInv, ReasonInv, NEW q \in Endpoint, ArriveDummy(q)
    PROVE  ReasonInv'
<1> PICK env : env = Dummy(q)
  OBVIOUS
<1>1. /\ inbox' = [inbox EXCEPT ![q] = Append(@, env)] /\ transit' = transit /\ repeats' = repeats
      /\ UNCHANGED <<session, sent, history>>
  BY DEF ArriveDummy
<1>2. env \notin Letters
  BY DummyIsNone DEF ReasonInv
<1>3. env \notin transit
  BY <1>2 DEF StackInv, MailInv
<1>4. repeats \in Nat /\ repeats' \in Nat /\ repeats' >= repeats
  BY <1>1 DEF ReasonInv
<1>5. OnceInv'
  <2>1. CASE repeats # 0
    BY <1>1, <2>1 DEF OnceInv
  <2>2. CASE repeats = 0
    <3> PICK U : U = transit
      OBVIOUS
    <3>1. U \in SUBSET transit /\ transit' = U /\ env \notin U /\ env \in Letter \cup {Dummy(q)}
      BY <1>1, <1>3
    <3> QED BY <1>1, <1>2, <2>2, <3>1, OnceArrives
  <2> QED BY <2>1, <2>2
<1> QED BY <1>1, <1>4, <1>5, RelayReason

\* The end of a pass keeps it.
LEMMA FinishReason ==
    ASSUME StackInv, ReasonInv, NEW p \in Endpoint, NEW a, PassInv(a, p),
           PassReason(a, p, inbox[p], Len(inbox[p])), Finish(p, a)
    PROVE  ReasonInv'
<1>1. Stores(p, a) /\ repeats' = repeats
  BY FinishStores DEF StackInv, PassInv, Finish
<1>2. sent' = sent /\ transit' = transit /\ Letters' = Letters
  BY <1>1 DEF Stores, Letters
<1>3. OrderInv' /\ SealInv'
  BY <1>2 DEF ReasonInv, OrderInv, SealInv
<1>4. ASSUME NEW x \in Endpoint, NEW y \in PeersOf(x)
      PROVE  /\ opened'[x][y] \subseteq {env.m : env \in Letters}
             /\ Reasonable(session'[x][y], opened'[x][y], errors'[x][y], x, y)
             /\ repeats = 0 => Unread(inbox'[x], opened'[x][y], Letters, transit, x)
  <2>1. CASE x = p
    <3>1. /\ session'[x][y] = a.ctx[y] /\ opened'[x][y] = a.opened[y] /\ errors'[x][y] = a.errors[y]
          /\ inbox'[x] = a.kept
      BY <1>1, <2>1 DEF Stores
    <3> QED BY <2>1, <3>1 DEF PassReason, PassOnce
  <2>2. CASE x # p
    <3>1. /\ session'[x][y] = session[x][y] /\ opened'[x][y] = opened[x][y]
          /\ errors'[x][y] = errors[x][y] /\ inbox'[x] = inbox[x]
      BY <1>1, <2>2 DEF Stores
    <3> QED BY <3>1 DEF ReasonInv, OpenedInv, OnceInv
  <2> QED BY <2>1, <2>2
<1>5. ASSUME repeats = 0, NEW x \in Endpoint PROVE Once(inbox'[x], Letters, transit)
  <2>1. inbox'[x] = IF x = p THEN a.kept ELSE inbox[x]
    BY <1>1 DEF Stores
  <2> QED BY <1>5, <2>1 DEF PassReason, PassOnce, ReasonInv, OnceInv
<1>6. OpenedInv' /\ OnceInv'
  BY <1>1, <1>2, <1>4, <1>5 DEF OpenedInv, OnceInv
<1>7. ASSUME NEW x \in Endpoint, NEW y \in PeersOf(x)
      PROVE  Reasonable(session[x][y], opened[x][y], errors[x][y], x, y)'
  <2>1. OvertakenIn(opened[x][y], x, y)' <=> OvertakenIn(opened'[x][y], x, y)
    BY <1>2 DEF OvertakenIn
  <2> QED BY <1>1, <1>4, <2>1 DEF Reasonable
<1> QED BY <1>1, <1>3, <1>6, <1>7 DEF ReasonInv

\* No session starts with a mark.
LEMMA ReasonInit ==
    ASSUME Init
    PROVE  ReasonInv
<1>1. sent = << >> /\ transit = {} /\ Letters = {} /\ repeats = 0 /\ Len(sent) = 0
  BY DEF Init, Letters
<1>2. OrderInv /\ SealInv
  BY <1>1 DEF OrderInv, SealInv
<1>3. ASSUME NEW p \in Endpoint PROVE Len(inbox[p]) = 0
  BY DEF Init
<1>4. ASSUME NEW p \in Endpoint, NEW q \in PeersOf(p)
      PROVE  /\ opened[p][q] = {} /\ session[p][q].seen = {} /\ session[p][q].reset = None
  BY DEF Init, create_symmetric_session
<1>5. OpenedInv
  BY <1>4 DEF OpenedInv
<1>6. OnceInv
  BY <1>1, <1>3 DEF OnceInv, Once, Unread
<1>7. ASSUME NEW p \in Endpoint, NEW q \in PeersOf(p)
      PROVE  Reasonable(session[p][q], opened[p][q], errors[p][q], p, q)
  BY <1>4 DEF Reasonable
<1> QED BY <1>1, <1>2, <1>5, <1>6, <1>7 DEF ReasonInv

\* Every step keeps it.
LEMMA ReasonNext ==
    ASSUME StackInv, StackInv', ReasonInv, [Next]_vars
    PROVE  ReasonInv'
<1>1. CASE \E p, q \in Endpoint, sealed \in BOOLEAN : send_text(p, q, sealed)
  BY <1>1, SendTextReason
<1>2. CASE \E p, q \in Endpoint : SendRelayed(p, q)
  BY <1>2, SendRelayedReason
<1>3. CASE \E env \in transit : Arrive(env)
  BY <1>3, ArriveReason
<1>4. CASE \E q \in Endpoint : ArriveDummy(q)
  BY <1>4, ArriveDummyReason
<1>5. CASE \E p, q \in Endpoint : recv_text(p, q)
  BY <1>5, TextReason, FinishReason
<1>6. CASE \E p \in Endpoint, drop \in BOOLEAN : recv_sealed(p, drop)
  BY <1>6, SealedReason, FinishReason
<1>7. CASE UNCHANGED vars
  <2>1. UNCHANGED <<session, sent, history>> /\ inbox' = inbox /\ transit' = transit
        /\ repeats' = repeats /\ opened' = opened
    BY <1>7 DEF vars, history
  <2>2. Letters' = Letters
    BY <2>1 DEF Letters
  <2>3. OnceInv'
    BY <2>1, <2>2 DEF ReasonInv, OnceInv
  <2>4. repeats' \in Nat /\ repeats' >= repeats
    BY <2>1 DEF ReasonInv
  <2> QED BY <2>1, <2>3, <2>4, RelayReason
<1> QED BY <1>1, <1>2, <1>3, <1>4, <1>5, <1>6, <1>7 DEF Next

\* A session is marked for reset only when the relay has repeated an envelope,
\* one was overtaken, or the replay cache is full: decrypt_from never takes an
\* honest peer for a fork, and a dummy marks nothing.
THEOREM ResetsHaveReasons == Spec => []ResetHasReason
<1>1. Init => ReasonInv
  BY ReasonInit
<1>2. StackInv /\ StackInv' /\ ReasonInv /\ [Next]_vars => ReasonInv'
  BY ReasonNext
<1>3. ReasonInv => ResetHasReason
  BY DEF ReasonInv, Reasonable, ResetHasReason, Clean, CleanContext, OvertakenIn, Overtaken
<1> QED BY <1>1, <1>2, <1>3, StackInvariant, PTL DEF Spec
=============================================================================
