-------------------------- MODULE ChatClientProofs --------------------------
(***************************************************************************)
(* Safety of clients that switch one engine between several sessions, for  *)
(* any number of clients, starts, messages, crashes and exits.             *)
(*                                                                         *)
(* Every session a client has in memory or in a file descends from one     *)
(* handshake the client is a party of, so a message opens only between the *)
(* two parties.  While all is calm (see Calm), the file named after        *)
(* a peer holds the session with that peer and has seen every message key  *)
(* used in it, but for a message that is being sent.                       *)
(***************************************************************************)
EXTENDS ChatClient, RatchetEngineProofs

\* The key pairs u can have, and the first n of them.
Own(u) == {<<u, k>> : k \in 0..MaxGenerated}
FirstKeys(u, n) == {<<u, k>> : k \in 0..(n - 1)}

Handshakes == [eph : KeyPair, from : Client, to : Client]
InitFrame == [from : Client, eph : KeyPair]
MsgFrame == [from : Client, wire : WireMessage \cup {None}]
SentMessage == [from : Client, to : Client, mk : ChainKey]
ShownMessage == [from : Client, mk : ChainKey \cup {None}]

\* TypeOK and the types of the variables it leaves out.
TypesOK ==
    /\ TypeOK
    /\ file \in [Client -> [Client -> Session \cup {None}]]
    /\ opk_used \in [Client -> BOOLEAN]
    /\ handshakes \subseteq Handshakes
    /\ sent \in Seq(SentMessage)
    /\ shown \in [Client -> Seq(ShownMessage)]

\* A handshake is between two clients and no other has its ephemeral key.
HandshakesInv ==
    /\ \A h \in handshakes : h.from # h.to /\ h.eph \in FirstKeys(h.from, generated[h.from])
    /\ \A g, h \in handshakes : g.eph = h.eph => g = h

Parties(h) == {h.from, h.to}

\* s is u's side of a session that one of the handshakes hs has started.
Descends(s, u, hs) ==
    \E h \in hs : u \in Parties(h) /\ Rooted(s, {h.eph}) /\ SenderInv(s, Own(u), u = h.from)

\* d is a saved session of u, who has generated n key pairs.
SessionOf(u, d, hs, n) ==
    /\ d \in Session /\ d.version >= 2
    /\ SessionInv(d.state, {}, {})
    /\ d.state.dhs \in FirstKeys(u, n)
    /\ Descends(d.state, u, hs)

SessionsInv ==
    \A u \in Client :
        /\ engine[u] # None => SessionOf(u, engine[u], handshakes, generated[u])
        /\ \A v \in Client :
              file[u][v] # None => SessionOf(u, file[u][v], handshakes, generated[u])

\* A client that is down waits for nothing; a running one talks to another.
ControlInv ==
    \A u \in Client :
        /\ engine[u] = None => sending[u] = None
        /\ engine[u] # None => peer[u] \in Client \ {u}

\* A session_init names its handshake.
InitOk(f, u, hs) == [eph |-> f.eph, from |-> f.from, to |-> u] \in hs

InitsInv == \A u \in Client : \A j \in 1..Len(inits[u]) : InitOk(inits[u][j], u, handshakes)

\* A message in a queue is from another client and from a session of that one, or
\* it is in the clear.
MsgOk(f, u, hs) ==
    f.wire # None =>
        /\ f.from # u /\ f.wire.dh \in Own(f.from)
        /\ \E h \in hs : f.from \in Parties(h) /\ Begins(f.wire.mk, {h.eph})

MsgsInv == \A u \in Client : \A j \in 1..Len(msgs[u]) : MsgOk(msgs[u][j], u, handshakes)

\* A message was sealed by its sender in a session of the sender.
SentOk(m, hs) ==
    \E h \in hs : /\ m.from \in Parties(h) /\ Begins(m.mk, {h.eph})
                  /\ SealedBy(m.mk, Own(m.from), m.from = h.from)

SentInv == \A j \in 1..Len(sent) : SentOk(sent[j], handshakes)

\* The keys of the messages from u to v.
SealedTo(ms, u, v) == {ms[j].mk : j \in {i \in 1..Len(ms) : ms[i].from = u /\ ms[i].to = v}}

\* The engine is the session with the peer, the file of the peer is as new, and
\* a message that is being sent goes to the peer.
EngineCalm(u) ==
    engine[u] # None =>
        /\ Between(engine[u].state.root_key, u, peer[u])
        /\ sending[u] \in {None, peer[u]}
        /\ file[u][peer[u]] # None
        /\ file[u][peer[u]].version = engine[u].version
        /\ SessionInv(engine[u].state, {}, SealedTo(sent, u, peer[u]))

\* The file knows the keys used in the session, but for a message being sent.
FileCalm(u, v) ==
    IF file[u][v] = None
    THEN SealedTo(sent, u, v) = {}
    ELSE /\ Between(file[u][v].state.root_key, u, v)
         /\ SessionInv(file[u][v].state, {},
                       IF sending[u] = v THEN {} ELSE SealedTo(sent, u, v))

CalmInv ==
    Calm => /\ \A u \in Client : EngineCalm(u) /\ \A v \in Client : FileCalm(u, v)
            /\ SealedForRecipient /\ NoKeyReuse

ChatInv ==
    /\ TypesOK /\ HandshakesInv /\ SessionsInv /\ ControlInv /\ InitsInv /\ MsgsInv
    /\ SentInv /\ ShownIsAuthentic /\ CalmInv

-----------------------------------------------------------------------------
(* Queues, keys and handshakes. *)

\* The elements of a queue after a frame is taken or put.
LEMMA QueueTail ==
    ASSUME NEW S, NEW q \in Seq(S), q # << >>
    PROVE  /\ Tail(q) \in Seq(S) /\ 1 \in 1..Len(q) /\ Head(q) = q[1] /\ Head(q) \in S
           /\ \A j \in 1..Len(Tail(q)) : j + 1 \in 1..Len(q) /\ Tail(q)[j] = q[j + 1]
<1>1. /\ Len(q) \in Nat /\ Len(q) # 0 /\ Tail(q) \in Seq(S) /\ Len(Tail(q)) = Len(q) - 1
      /\ \A j \in 1..Len(Tail(q)) : Tail(q)[j] = q[j + 1]
  OBVIOUS
<1>2. 1 \in 1..Len(q) /\ Head(q) = q[1]
  BY <1>1
<1>3. Head(q) \in S
  BY <1>2, ElementOfSeq
<1>4. \A j \in 1..Len(Tail(q)) : j + 1 \in 1..Len(q)
  BY <1>1
<1> QED BY <1>1, <1>2, <1>3, <1>4

LEMMA QueueAppend ==
    ASSUME NEW S, NEW q \in Seq(S), NEW x \in S
    PROVE  /\ Append(q, x) \in Seq(S)
           /\ Len(Append(q, x)) = Len(q) + 1 /\ Len(q) \in Nat
           /\ \A j \in 1..Len(Append(q, x)) :
                 \/ j = Len(q) + 1 /\ Append(q, x)[j] = x
                 \/ j \in 1..Len(q) /\ Append(q, x)[j] = q[j]
<1>1. /\ Append(q, x) \in Seq(S) /\ Len(Append(q, x)) = Len(q) + 1 /\ Len(q) \in Nat
      /\ \A j \in 1..Len(q) : Append(q, x)[j] = q[j]
      /\ Append(q, x)[Len(q) + 1] = x
  BY AppendProperties, LenProperties
<1> QED BY <1>1

\* Key pairs are their owner's alone.
LEMMA Owners ==
    ASSUME NEW u \in Client
    PROVE  /\ Own(u) \subseteq KeyPair /\ None \notin Own(u)
           /\ \A v \in Client \ {u} : Own(u) \cap Own(v) = {}
           /\ \A n \in 0..MaxGenerated : FirstKeys(u, n) \subseteq Own(u)
           /\ \A n \in 0..MaxGenerated : <<u, n>> \in Own(u) /\ <<u, n>> \notin FirstKeys(u, n)
           /\ \A m, n \in Nat : m <= n => FirstKeys(u, m) \subseteq FirstKeys(u, n)
<1>1. Own(u) \subseteq KeyPair
  BY ChatAssumption DEF Own
<1>2. None \notin Own(u)
  BY <1>1, EngineAssumption
<1>3. \A v \in Client \ {u} : Own(u) \cap Own(v) = {}
  BY DEF Own
<1>4. \A n \in 0..MaxGenerated : 0..(n - 1) \subseteq 0..MaxGenerated /\ n \notin 0..(n - 1)
  BY ChatAssumption
<1>5. \A n \in 0..MaxGenerated : FirstKeys(u, n) \subseteq Own(u) /\ <<u, n>> \in Own(u)
  BY <1>4 DEF Own, FirstKeys
<1>6. \A n \in 0..MaxGenerated : <<u, n>> \notin FirstKeys(u, n)
  BY <1>4 DEF FirstKeys
<1>7. \A m, n \in Nat : m <= n => FirstKeys(u, m) \subseteq FirstKeys(u, n)
  BY DEF FirstKeys
<1> QED BY <1>1, <1>2, <1>3, <1>5, <1>6, <1>7

\* A secret belongs to one handshake, and so to one pair of clients.
LEMMA OneHandshake ==
    ASSUME HandshakesInv, NEW h \in handshakes, NEW root, root[1] = {h.eph},
           NEW u, NEW v, Between(root, u, v)
    PROVE  Parties(h) = {u, v}
<1>1. PICK g \in handshakes : root[1] = {g.eph} /\ {g.from, g.to} = {u, v}
  BY DEF Between
<1>2. g = h
  BY <1>1 DEF HandshakesInv
<1> QED BY <1>1, <1>2 DEF Parties

LEMMA SamePeer ==
    ASSUME HandshakesInv, NEW root, NEW rk, root[1] = rk[1], NEW u, NEW v, NEW w,
           Between(root, u, v), Between(rk, u, w)
    PROVE  v = w
<1>1. PICK g \in handshakes : root[1] = {g.eph} /\ {g.from, g.to} = {u, v}
  BY DEF Between
<1>2. rk[1] = {g.eph}
  BY <1>1
<1>3. Parties(g) = {u, w}
  BY <1>2, OneHandshake
<1> QED BY <1>1, <1>3 DEF Parties

\* What held for some handshakes and key pairs holds for more.
LEMMA SessionOfGrows ==
    ASSUME NEW u \in Client, NEW d, NEW hs, NEW gs, hs \subseteq gs,
           NEW m \in Nat, NEW n \in Nat, m <= n, SessionOf(u, d, hs, m)
    PROVE  SessionOf(u, d, gs, n)
<1>1. d.state.dhs \in FirstKeys(u, n)
  BY Owners DEF SessionOf
<1>2. Descends(d.state, u, gs)
  BY DEF SessionOf, Descends
<1> QED BY <1>1, <1>2 DEF SessionOf

\* The sessions after a step in which only u's change.
LEMMA SessionsKept ==
    ASSUME TypesOK, SessionsInv, NEW u \in Client, handshakes \subseteq handshakes',
           \A w \in Client : generated'[w] \in Nat /\ generated[w] <= generated'[w],
           \A w \in Client \ {u} : engine'[w] = engine[w] /\ file'[w] = file[w],
           \/ engine'[u] \in {None, engine[u]}
           \/ SessionOf(u, engine'[u], handshakes', generated'[u]),
           \A v \in Client : \/ file'[u][v] = file[u][v]
                             \/ SessionOf(u, file'[u][v], handshakes', generated'[u])
    PROVE  SessionsInv'
<1>1. \A w \in Client : generated[w] \in Nat
  BY ChatAssumption DEF TypesOK, TypeOK
<1>2. ASSUME NEW w \in Client, engine'[w] # None
      PROVE  SessionOf(w, engine'[w], handshakes', generated'[w])
  <2>1. CASE engine'[w] = engine[w]
    <3>1. SessionOf(w, engine[w], handshakes, generated[w])
      BY <1>2, <2>1 DEF SessionsInv
    <3>2. SessionOf(w, engine[w], handshakes', generated'[w])
      BY <1>1, <3>1, SessionOfGrows
    <3> QED BY <2>1, <3>2
  <2>2. CASE engine'[w] # engine[w]
    BY <1>2, <2>2
  <2> QED BY <2>1, <2>2
<1>3. ASSUME NEW w \in Client, NEW v \in Client, file'[w][v] # None
      PROVE  SessionOf(w, file'[w][v], handshakes', generated'[w])
  <2>1. CASE file'[w][v] = file[w][v]
    <3>1. SessionOf(w, file[w][v], handshakes, generated[w])
      BY <1>3, <2>1 DEF SessionsInv
    <3>2. SessionOf(w, file[w][v], handshakes', generated'[w])
      BY <1>1, <3>1, SessionOfGrows
    <3> QED BY <2>1, <3>2
  <2>2. CASE file'[w][v] # file[w][v]
    BY <1>3, <2>2
  <2> QED BY <2>1, <2>2
<1> QED BY <1>2, <1>3 DEF SessionsInv

\* The records of the past after a step that adds handshakes at most.
LEMMA PastKept ==
    ASSUME ChatInv, handshakes \subseteq handshakes'
    PROVE  /\ inits' = inits => InitsInv'
           /\ msgs' = msgs => MsgsInv'
           /\ sent' = sent => SentInv' /\ (NoKeyReuse => NoKeyReuse')
           /\ sent' = sent /\ Calm /\ Calm' => SealedForRecipient'
           /\ shown' = shown => ShownIsAuthentic'
           /\ \A root, v, w : Between(root, v, w) =>
                 \E h \in handshakes' : root[1] = {h.eph} /\ {h.from, h.to} = {v, w}
<1>1. inits' = inits => InitsInv'
  BY DEF ChatInv, InitsInv, InitOk
<1>2. msgs' = msgs => MsgsInv'
  BY DEF ChatInv, MsgsInv, MsgOk
<1>3. sent' = sent => SentInv'
  BY DEF ChatInv, SentInv, SentOk
<1>4. sent' = sent => (NoKeyReuse => NoKeyReuse')
  BY DEF NoKeyReuse
<1>5. sent' = sent /\ Calm /\ Calm' => SealedForRecipient'
  BY DEF ChatInv, CalmInv, SealedForRecipient, Between
<1>6. shown' = shown => ShownIsAuthentic'
  <2>1. ASSUME NEW u \in Client, NEW j \in 1..Len(shown[u]), shown[u][j].mk # None
        PROVE  \E h \in handshakes' : /\ shown[u][j].mk.root[1] = {h.eph}
                                      /\ {h.from, h.to} = {u, shown[u][j].from}
    <3>1. Between(shown[u][j].mk.root, u, shown[u][j].from)
      BY <2>1 DEF ChatInv, ShownIsAuthentic
    <3> QED BY <3>1 DEF Between
  <2>2. SUFFICES ASSUME shown' = shown PROVE ShownIsAuthentic'
    OBVIOUS
  <2> QED BY <2>1, <2>2 DEF ShownIsAuthentic, Between
<1>7. \A root, v, w : Between(root, v, w) =>
         \E h \in handshakes' : root[1] = {h.eph} /\ {h.from, h.to} = {v, w}
  BY DEF Between
<1> QED BY <1>1, <1>2, <1>3, <1>4, <1>5, <1>6, <1>7

\* A client that takes no part stays calm.
LEMMA OtherCalm ==
    ASSUME NEW w \in Client, EngineCalm(w), \A v \in Client : FileCalm(w, v),
           handshakes \subseteq handshakes',
           engine'[w] = engine[w], peer'[w] = peer[w], sending'[w] = sending[w],
           file'[w] = file[w],
           \A v : SealedTo(sent', w, v) = SealedTo(sent, w, v)
    PROVE  EngineCalm(w)' /\ \A v \in Client : FileCalm(w, v)'
<1>1. EngineCalm(w)'
  BY DEF EngineCalm, Between
<1>2. \A v \in Client : FileCalm(w, v)'
  BY DEF FileCalm, Between
<1> QED BY <1>1, <1>2

-----------------------------------------------------------------------------
(* The actions. *)

\* NewSession and its first save.
LEMMA NewSessionOf ==
    ASSUME NEW u \in Client, NEW eph \in KeyPair, NEW first \in BOOLEAN,
           NEW n \in Nat, NEW k \in 0..(n - 1), k <= MaxGenerated,
           NEW hs, NEW h \in hs, h.eph = eph, u \in Parties(h), first = (u = h.from)
    PROVE  LET d == NewSession(eph, first, <<u, k>>)
           IN  /\ d.version = 1
               /\ SessionOf(u, Saved(d), hs, n)
               /\ Saved(d).version = 2
               /\ Saved(d).state.root_key = <<{eph}>>
               /\ SessionInv(Saved(d).state, {}, {})
<1> DEFINE key == <<u, k>>
           s   == create_initial_state(<<{eph}>>, first, key)
           d   == NewSession(eph, first, key)
<1>1. key \in Own(u) /\ key \in FirstKeys(u, n) /\ key \in KeyPair /\ Own(u) \subseteq KeyPair
  <2>1. k \in 0..MaxGenerated
    BY ChatAssumption
  <2> QED BY <2>1, Owners DEF FirstKeys
<1>2. /\ Rooted(s, {eph}) /\ SenderInv(s, Own(u), first)
      /\ s.root_key = <<{eph}>> /\ <<{eph}>> \in RootKey
  BY <1>1, CreateInitialRooted
<1>3. SessionInv(s, {}, {}) /\ s.dhs = key
  BY <1>1, <1>2, CreateInitialInv
<1>4. s \in RatchetState
  BY <1>3 DEF SessionInv
<1> HIDE DEF s, key
<1>5. d = [state |-> s, version |-> 1]
  BY DEF NewSession, s, key
<1>6. Saved(d) = [state |-> s, version |-> 2]
  BY <1>5 DEF Saved
<1>7. Descends(s, u, hs)
  BY <1>2 DEF Descends
<1>8. [state |-> s, version |-> 2] \in Session
  BY <1>4 DEF Session
<1>9. SessionOf(u, Saved(d), hs, n)
  BY <1>1, <1>3, <1>6, <1>7, <1>8 DEF SessionOf
<1> HIDE DEF d
<1>10. /\ d.version = 1 /\ Saved(d).version = 2
       /\ Saved(d).state.root_key = <<{eph}>> /\ SessionInv(Saved(d).state, {}, {})
  BY <1>2, <1>3, <1>5, <1>6
<1> QED BY <1>9, <1>10 DEF d, key

\* A start makes a handshake and a session from it, or takes the session on disk.
LEMMA StartChat ==
    ASSUME ChatInv, NEW u \in Client, NEW v \in Client, Start(u, v)
    PROVE  ChatInv'
<1> DEFINE g   == generated[u]
           eph == <<u, g>>
           new == Saved(NewSession(eph, TRUE, <<u, g + 1>>))
           s   == IF file[u][v] # None THEN file[u][v] ELSE new
           h   == [eph |-> eph, from |-> u, to |-> v]
           f   == [from |-> u, eph |-> eph]
<1>0. /\ TypesOK /\ TypeOK /\ HandshakesInv /\ SessionsInv /\ ControlInv /\ InitsInv /\ CalmInv
  BY DEF ChatInv, TypesOK
<1>1. /\ g \in Nat /\ g + 2 <= MaxGenerated /\ MaxGenerated \in Nat
      /\ generated \in [Client -> 0..MaxGenerated]
      /\ u # v /\ engine[u] = None
  BY <1>0, ChatAssumption DEF Start, TypeOK, Running
<1>2. eph \in KeyPair /\ eph \in Own(u) /\ eph \notin FirstKeys(u, g) /\ eph \in FirstKeys(u, g + 2)
  <2>1. g \in 0..MaxGenerated /\ g \in 0..(g + 2 - 1)
    BY <1>1
  <2> QED BY <2>1, Owners DEF FirstKeys
<1>3. h \in Handshakes /\ f \in InitFrame
  BY <1>2 DEF Handshakes, InitFrame
<1>4. /\ handshakes' = handshakes \cup {h}
      /\ inits' = Forwarded(inits, v, f)
      /\ engine' = [engine EXCEPT ![u] = s]
      /\ file' = [file EXCEPT ![u][v] = s]
      /\ generated' = [generated EXCEPT ![u] = g + 2]
      /\ peer' = [peer EXCEPT ![u] = v]
      /\ opk_used' = [opk_used EXCEPT ![u] = FALSE]
      /\ starts' = starts + 1 /\ starts < MaxStarts
      /\ UNCHANGED <<sending, msgs, sent, shown, raced, misfiled, crashes, interrupts, raws>>
  <2>1. Fresh(u, 0) = eph /\ Fresh(u, 1) = <<u, g + 1>>
    BY <1>1 DEF Fresh
  <2> QED BY <2>1 DEF Start, faults
<1>5. /\ SessionOf(u, new, handshakes', g + 2)
      /\ new.state.root_key = <<{eph}>> /\ SessionInv(new.state, {}, {})
  <2>1. /\ h.eph = eph /\ u \in Parties(h) /\ TRUE = (u = h.from) /\ h \in handshakes'
        /\ g + 1 \in 0..(g + 2 - 1) /\ g + 1 <= MaxGenerated /\ g + 2 \in Nat
    BY <1>1, <1>4 DEF Parties
  <2> DEFINE k == g + 1
             n == g + 2
  <2>2. k \in 0..(n - 1) /\ k <= MaxGenerated /\ n \in Nat
    BY <1>1
  <2> HIDE DEF h, eph, g, k, n
  <2>3. LET d == NewSession(eph, TRUE, <<u, k>>)
        IN  /\ SessionOf(u, Saved(d), handshakes', n)
            /\ Saved(d).state.root_key = <<{eph}>>
            /\ SessionInv(Saved(d).state, {}, {})
    BY <1>2, <2>1, <2>2, NewSessionOf, ZenonT(40)
  <2> QED BY <2>3 DEF k, n
<1>6. SessionOf(u, s, handshakes', g + 2)
  <2>1. CASE file[u][v] # None
    <3>1. SessionOf(u, file[u][v], handshakes, g)
      BY <1>0, <2>1 DEF SessionsInv
    <3>2. handshakes \subseteq handshakes' /\ g + 2 \in Nat /\ g <= g + 2
      BY <1>1, <1>4
    <3>3. SessionOf(u, file[u][v], handshakes', g + 2)
      BY <1>1, <3>1, <3>2, SessionOfGrows
    <3> QED BY <2>1, <3>3
  <2>2. CASE file[u][v] = None
    BY <1>5, <2>2
  <2> QED BY <2>1, <2>2
<1>7. s \in Session /\ s # None
  BY <1>6, ChatAssumption DEF SessionOf
<1> HIDE DEF new, s, g, h, f
<1>8. TypesOK'
  <2>1. /\ engine' \in [Client -> Session \cup {None}]
        /\ peer' \in [Client -> Client \cup {None}]
        /\ generated' \in [Client -> 0..MaxGenerated]
        /\ opk_used' \in [Client -> BOOLEAN] /\ handshakes' \subseteq Handshakes
    BY <1>0, <1>1, <1>3, <1>4, <1>7 DEF TypesOK, TypeOK
  <2>2. file' \in [Client -> [Client -> Session \cup {None}]]
    BY <1>0, <1>4, <1>7 DEF TypesOK
  <2>3. inits' \in [Client -> Seq(InitFrame)]
    <3>1. inits \in [Client -> Seq(InitFrame)]
      BY <1>0 DEF TypeOK, InitFrame
    <3>2. Append(inits[v], f) \in Seq(InitFrame)
      BY <1>3, <3>1, QueueAppend
    <3> QED BY <1>4, <3>1, <3>2 DEF Forwarded
  <2>4. starts' \in 0..MaxStarts
    <3>1. starts \in 0..MaxStarts
      BY <1>0 DEF TypeOK
    <3>2. starts' = starts + 1 /\ starts < MaxStarts /\ MaxStarts \in Nat
      BY <1>4, ChatAssumption
    <3> QED BY <3>1, <3>2
  <2> QED BY <1>0, <1>4, <2>1, <2>2, <2>3, <2>4 DEF TypesOK, TypeOK, InitFrame
<1>9. /\ generated'[u] = g + 2 /\ engine'[u] = s /\ peer'[u] = v /\ file'[u][v] = s
      /\ \A x \in Client \ {v} : file'[u][x] = file[u][x]
      /\ \A w \in Client \ {u} : /\ generated'[w] = generated[w] /\ engine'[w] = engine[w]
                                 /\ peer'[w] = peer[w] /\ file'[w] = file[w]
  BY <1>0, <1>1, <1>4 DEF TypesOK, TypeOK
<1>10. HandshakesInv'
  <2>1. h.from = u /\ h.to = v /\ h.eph = eph
    BY DEF h
  <2>2. ASSUME NEW x \in handshakes
        PROVE x.from # x.to /\ x.eph \in FirstKeys(x.from, generated'[x.from]) /\ x.eph # eph
    <3>1. /\ x.from \in Client /\ x.from # x.to
          /\ x.eph \in FirstKeys(x.from, generated[x.from])
      BY <1>0 DEF TypesOK, Handshakes, HandshakesInv
    <3>2. CASE x.from = u
      <4>1. FirstKeys(u, g) \subseteq FirstKeys(u, g + 2)
        BY <1>1, Owners
      <4> QED BY <1>2, <1>9, <3>1, <3>2, <4>1 DEF g
    <3>3. CASE x.from # u
      <4>1. x.eph # eph
        BY <3>1, <3>3 DEF FirstKeys
      <4> QED BY <1>9, <3>1, <3>3, <4>1
    <3> QED BY <3>2, <3>3
  <2>3. h.eph \in FirstKeys(h.from, generated'[h.from]) /\ h.from # h.to
    BY <1>1, <1>2, <1>9, <2>1
  <2>4. \A x, y \in handshakes : x.eph = y.eph => x = y
    BY <1>0 DEF HandshakesInv
  <2> QED BY <1>4, <2>1, <2>2, <2>3, <2>4 DEF HandshakesInv
<1>11. SessionsInv'
  <2>1. \A w \in Client : generated'[w] \in Nat /\ generated[w] <= generated'[w]
    BY <1>1, <1>9 DEF g
  <2>2. handshakes \subseteq handshakes'
    BY <1>4
  <2>3. SessionOf(u, engine'[u], handshakes', generated'[u])
    BY <1>6, <1>9
  <2>4. \A x \in Client : \/ file'[u][x] = file[u][x]
                          \/ SessionOf(u, file'[u][x], handshakes', generated'[u])
    BY <1>6, <1>9
  <2> QED BY <1>0, <1>9, <2>1, <2>2, <2>3, <2>4, SessionsKept
<1>12. ControlInv'
  BY <1>0, <1>1, <1>4, <1>7, <1>9 DEF ControlInv
<1>13. handshakes \subseteq handshakes'
  BY <1>4
<1>14. InitsInv'
  <2> SUFFICES ASSUME NEW w \in Client, NEW j \in 1..Len(inits'[w])
               PROVE  InitOk(inits'[w][j], w, handshakes')
    BY DEF InitsInv
  <2>1. inits \in [Client -> Seq(InitFrame)]
    BY <1>0 DEF TypeOK, InitFrame
  <2>2. \A i \in 1..Len(inits[w]) : InitOk(inits[w][i], w, handshakes')
    BY <1>0, <1>13 DEF InitsInv, InitOk
  <2>3. CASE inits'[w] = inits[w]
    BY <2>2, <2>3
  <2>4. CASE w = v /\ inits'[w] = Append(inits[w], f)
    <3>1. InitOk(f, v, handshakes')
      BY <1>4 DEF InitOk, f, h
    <3> QED BY <1>3, <2>1, <2>2, <2>4, <3>1, QueueAppend
  <2> QED BY <1>4, <2>1, <2>3, <2>4 DEF Forwarded
<1>15. MsgsInv' /\ SentInv' /\ ShownIsAuthentic'
  BY <1>4, <1>13, PastKept
<1>16. CalmInv'
  <2> SUFFICES ASSUME Calm'
               PROVE  /\ \A w \in Client : EngineCalm(w)' /\ \A x \in Client : FileCalm(w, x)'
                      /\ SealedForRecipient' /\ NoKeyReuse'
    BY DEF CalmInv
  <2>1. Calm
    BY <1>4 DEF Calm
  <2>2. /\ \A w \in Client : EngineCalm(w) /\ \A x \in Client : FileCalm(w, x)
        /\ NoKeyReuse
    BY <1>0, <2>1 DEF CalmInv
  <2>3. SealedForRecipient' /\ NoKeyReuse'
    BY <1>4, <1>13, <2>1, <2>2, PastKept
  <2>4. ASSUME NEW w \in Client \ {u} PROVE EngineCalm(w)' /\ \A x \in Client : FileCalm(w, x)'
    BY <1>4, <1>9, <1>13, <2>2, OtherCalm
  <2>5. sending[u] = None /\ sending'[u] = None /\ v # None
    BY <1>0, <1>1, <1>4, ChatAssumption DEF ControlInv
  <2>6. /\ SessionInv(s.state, {}, SealedTo(sent, u, v))
        /\ \E x \in handshakes' : s.state.root_key[1] = {x.eph} /\ {x.from, x.to} = {u, v}
    <3>1. FileCalm(u, v)
      BY <2>2
    <3>2. CASE file[u][v] # None
      <4>1. /\ Between(file[u][v].state.root_key, u, v)
            /\ SessionInv(file[u][v].state, {}, SealedTo(sent, u, v))
        BY <2>5, <3>1, <3>2 DEF FileCalm
      <4>2. s = file[u][v]
        BY <3>2 DEF s
      <4> QED BY <1>13, <4>1, <4>2 DEF Between
    <3>3. CASE file[u][v] = None
      <4>1. s = new /\ SealedTo(sent, u, v) = {}
        BY <3>1, <3>3 DEF FileCalm, s
      <4>2. h \in handshakes' /\ h.eph = eph /\ h.from = u /\ h.to = v
        BY <1>4 DEF h
      <4>3. new.state.root_key[1] = {h.eph}
        BY <1>5, <4>2
      <4> QED BY <1>5, <4>1, <4>2, <4>3
    <3> QED BY <3>2, <3>3
  <2>7. EngineCalm(u)'
    BY <1>4, <1>7, <1>9, <2>5, <2>6 DEF EngineCalm, Between
  <2>8. FileCalm(u, v)'
    BY <1>4, <1>7, <1>9, <2>5, <2>6 DEF FileCalm, Between
  <2>9. ASSUME NEW x \in Client \ {v} PROVE FileCalm(u, x)'
    <3>1. FileCalm(u, x) /\ file'[u][x] = file[u][x]
      BY <1>9, <2>2
    <3> QED BY <1>4, <1>13, <3>1 DEF FileCalm, Between
  <2> QED BY <2>3, <2>4, <2>7, <2>8, <2>9
<1> QED BY <1>8, <1>10, <1>11, <1>12, <1>14, <1>15, <1>16 DEF ChatInv

\* A new message keeps the keys of a client distinct, and differs from those of
\* the others.
LEMMA SendChat ==
    ASSUME ChatInv, NEW u \in Client, Send(u)
    PROVE  ChatInv'
<1> DEFINE s  == engine[u].state
           m  == EncryptedMessage(s)
           r  == EncryptedState(s)
<1>0. /\ TypesOK /\ TypeOK /\ HandshakesInv /\ SessionsInv /\ ControlInv /\ MsgsInv
      /\ SentInv /\ CalmInv
  BY DEF ChatInv, TypesOK
<1> PICK to \in Client \ {u} : to = peer[u]
  BY <1>0 DEF Send, Running, ControlInv
<1> DEFINE x  == [from |-> u, to |-> to, mk |-> m.mk]
           f  == [from |-> u, wire |-> m]
<1>1. /\ engine[u] # None /\ sending[u] = None /\ CanEncrypt(s)
      /\ SessionOf(u, engine[u], handshakes, generated[u])
      /\ engine[u] \in Session /\ generated[u] \in 0..MaxGenerated
  BY <1>0 DEF Send, Running, ControlInv, SessionsInv, TypeOK, SessionOf
<1>2. /\ SessionInv(s, {}, {}) /\ s.dhs \in FirstKeys(u, generated[u])
      /\ engine[u] = [state |-> s, version |-> engine[u].version]
      /\ engine[u].version \in Nat /\ engine[u].version >= 2
      /\ Own(u) \subseteq KeyPair /\ s.dhs \in Own(u)
  BY <1>1, Owners DEF SessionOf, Session
<1>3. PICK h \in handshakes : /\ u \in Parties(h) /\ Rooted(s, {h.eph})
                              /\ SenderInv(s, Own(u), u = h.from)
  BY <1>1 DEF SessionOf, Descends
<1>4. /\ m \in WireMessage /\ m.dh = s.dhs /\ r.dhs = s.dhs
      /\ SessionInv(r, {}, {})
  <2>1. SessionInv(r, {}, {} \cup {m.mk}) /\ m \in WireMessage /\ m.dh = s.dhs /\ r.dhs = s.dhs
    BY <1>1, <1>2, RatchetEncryptInv
  <2>2. SessionInv(r, {}, {})
    BY <2>1, SessionInvFewer
  <2> QED BY <2>1, <2>2
<1>5. /\ Rooted(r, {h.eph}) /\ Begins(m.mk, {h.eph})
  BY <1>1, <1>2, <1>3, RatchetEncryptRooted
<1>6. SenderInv(r, Own(u), u = h.from) /\ SealedBy(m.mk, Own(u), u = h.from)
  BY <1>1, <1>2, <1>3, RatchetEncryptSender
<1>7. /\ sending' = [sending EXCEPT ![u] = to]
      /\ msgs' = Forwarded(msgs, to, f)
      /\ sent' = Append(sent, x)
      /\ engine' = [engine EXCEPT ![u].state = r]
      /\ UNCHANGED <<peer, file, inits, opk_used, generated, handshakes, shown, raced,
                     starts, misfiled, crashes, interrupts, raws>>
  BY DEF Send, faults
<1>8. \A Sealed : SessionInv(s, {}, Sealed) =>
          SessionInv(r, {}, Sealed \cup {m.mk}) /\ m.mk \notin Sealed
  BY <1>1, RatchetEncryptInv
<1>9. x \in SentMessage /\ f \in MsgFrame
  <2>1. m.mk \in ChainKey
    BY <1>4 DEF WireMessage
  <2> QED BY <1>1, <1>4, <2>1 DEF SentMessage, MsgFrame
<1> HIDE DEF m, r, s
<1>10. /\ engine'[u] = [state |-> r, version |-> engine[u].version]
       /\ engine' = [engine EXCEPT ![u] = engine'[u]]
       /\ sending'[u] = to
       /\ \A w \in Client \ {u} : engine'[w] = engine[w] /\ sending'[w] = sending[w]
  BY <1>0, <1>2, <1>7 DEF TypeOK
<1>11. SessionOf(u, engine'[u], handshakes', generated'[u])
  <2> DEFINE d == [state |-> r, version |-> engine[u].version]
  <2>1. d \in Session /\ d.version >= 2 /\ d.state = r
    BY <1>2, <1>4 DEF Session, SessionInv
  <2>2. r.dhs \in FirstKeys(u, generated[u])
    BY <1>2, <1>4
  <2>3. Descends(r, u, handshakes)
    BY <1>3, <1>5, <1>6 DEF Descends
  <2> HIDE DEF d
  <2>4. SessionOf(u, d, handshakes, generated[u])
    BY <1>4, <2>1, <2>2, <2>3 DEF SessionOf
  <2> QED BY <1>7, <1>10, <2>4 DEF d
<1>12. engine'[u] \in Session /\ engine'[u] # None
  BY <1>11, ChatAssumption DEF SessionOf
<1>13. /\ Len(sent') = Len(sent) + 1 /\ Len(sent) \in Nat /\ sent' \in Seq(SentMessage)
       /\ \A j \in 1..Len(sent') : \/ j = Len(sent) + 1 /\ sent'[j] = x
                                   \/ j \in 1..Len(sent) /\ sent'[j] = sent[j]
       /\ \A j \in 1..Len(sent) : sent'[j] = sent[j] /\ j \in 1..Len(sent')
       /\ sent'[Len(sent) + 1] = x /\ Len(sent) + 1 \in 1..Len(sent')
  <2>1. sent \in Seq(SentMessage)
    BY <1>0 DEF TypesOK
  <2> HIDE DEF x
  <2> QED BY <1>7, <1>9, <2>1, QueueAppend
<1>14. x.from = u /\ x.to = to /\ x.mk = m.mk /\ f.from = u /\ f.wire = m
  OBVIOUS
<1> HIDE DEF x, f
<1>15. /\ \A w \in Client \ {u} : \A v : SealedTo(sent', w, v) = SealedTo(sent, w, v)
       /\ \A v : v # to => SealedTo(sent', u, v) = SealedTo(sent, u, v)
       /\ SealedTo(sent', u, to) = SealedTo(sent, u, to) \cup {m.mk}
  BY <1>13, <1>14 DEF SealedTo
<1>16. TypesOK'
  <2>1. /\ engine' \in [Client -> Session \cup {None}]
        /\ sending' \in [Client -> Client \cup {None}]
    BY <1>0, <1>1, <1>7, <1>10, <1>12 DEF TypeOK
  <2>2. msgs' \in [Client -> Seq(MsgFrame)]
    <3>1. msgs \in [Client -> Seq(MsgFrame)]
      BY <1>0 DEF TypeOK, MsgFrame
    <3>2. Append(msgs[to], f) \in Seq(MsgFrame)
      BY <1>1, <1>9, <3>1, QueueAppend
    <3> QED BY <1>7, <3>1, <3>2 DEF Forwarded
  <2> QED BY <1>0, <1>7, <1>13, <2>1, <2>2 DEF TypesOK, TypeOK, MsgFrame
<1>17. HandshakesInv' /\ handshakes \subseteq handshakes'
  BY <1>0, <1>7 DEF HandshakesInv
<1>18. SessionsInv'
  <2>1. \A w \in Client : generated'[w] \in Nat /\ generated[w] <= generated'[w]
    BY <1>0, <1>7 DEF TypeOK
  <2> QED BY <1>0, <1>7, <1>10, <1>11, <1>17, <2>1, SessionsKept
<1>19. ControlInv'
  BY <1>0, <1>1, <1>7, <1>10, <1>12 DEF ControlInv
<1>20. InitsInv' /\ ShownIsAuthentic'
  BY <1>7, <1>17, PastKept
<1>21. MsgsInv'
  <2> SUFFICES ASSUME NEW w \in Client, NEW j \in 1..Len(msgs'[w])
               PROVE  MsgOk(msgs'[w][j], w, handshakes')
    BY DEF MsgsInv
  <2>1. msgs \in [Client -> Seq(MsgFrame)]
    BY <1>0 DEF TypeOK, MsgFrame
  <2>2. \A i \in 1..Len(msgs[w]) : MsgOk(msgs[w][i], w, handshakes')
    BY <1>0, <1>7 DEF MsgsInv
  <2>3. CASE msgs'[w] = msgs[w]
    BY <2>2, <2>3
  <2>4. CASE w = to /\ msgs'[w] = Append(msgs[w], f)
    <3>1. MsgOk(f, w, handshakes')
      BY <1>1, <1>2, <1>3, <1>4, <1>5, <1>7, <1>14, <2>4 DEF MsgOk
    <3> QED BY <1>9, <2>1, <2>2, <2>4, <3>1, QueueAppend
  <2> QED BY <1>7, <2>1, <2>3, <2>4 DEF Forwarded
<1>22. SentInv'
  <2>1. SentOk(x, handshakes')
    BY <1>3, <1>5, <1>6, <1>7, <1>14 DEF SentOk
  <2>2. \A j \in 1..Len(sent) : SentOk(sent[j], handshakes')
    BY <1>0, <1>7 DEF SentInv
  <2> QED BY <1>13, <2>1, <2>2 DEF SentInv
<1>23. CalmInv'
  <2> SUFFICES ASSUME Calm'
               PROVE  /\ \A w \in Client : EngineCalm(w)' /\ \A v \in Client : FileCalm(w, v)'
                      /\ SealedForRecipient' /\ NoKeyReuse'
    BY DEF CalmInv
  <2>1. Calm
    BY <1>7 DEF Calm
  <2>2. /\ \A w \in Client : EngineCalm(w) /\ \A v \in Client : FileCalm(w, v)
        /\ NoKeyReuse /\ SealedForRecipient
    BY <1>0, <2>1 DEF CalmInv
  <2>3. /\ Between(s.root_key, u, to) /\ file[u][to] # None
        /\ file[u][to].version = engine[u].version
        /\ SessionInv(s, {}, SealedTo(sent, u, to))
    BY <1>1, <2>2 DEF EngineCalm, s
  <2>4. ASSUME NEW w \in Client \ {u} PROVE EngineCalm(w)' /\ \A v \in Client : FileCalm(w, v)'
    BY <1>7, <1>10, <1>15, <1>17, <2>2, OtherCalm
  <2>5. SessionInv(r, {}, SealedTo(sent', u, to)) /\ m.mk \notin SealedTo(sent, u, to)
    BY <1>8, <1>15, <2>3
  <2>6. Parties(h) = {u, to}
    <3>1. s.root_key[1] = {h.eph}
      BY <1>3 DEF Rooted
    <3> QED BY <1>0, <2>3, <3>1, OneHandshake
  <2>7. r.root_key[1] = {h.eph} /\ m.mk.root[1] = {h.eph}
    BY <1>5 DEF Rooted, Begins
  <2>8. EngineCalm(u)'
    <3>1. \E g \in handshakes' : r.root_key[1] = {g.eph} /\ {g.from, g.to} = {u, to}
      BY <1>7, <2>6, <2>7 DEF Parties
    <3>2. engine'[u].state = r /\ engine'[u].version = engine[u].version /\ peer'[u] = to
      BY <1>7, <1>10
    <3> QED BY <1>7, <1>10, <2>3, <2>5, <3>1, <3>2 DEF EngineCalm, Between
  <2>9. FileCalm(u, to)'
    <3>1. FileCalm(u, to)
      BY <1>1, <2>2
    <3>2. SessionInv(file[u][to].state, {}, {})
      BY <1>0, <1>1, <2>3 DEF SessionsInv, SessionOf
    <3> QED BY <1>7, <1>10, <2>3, <3>1, <3>2 DEF FileCalm, Between
  <2>10. ASSUME NEW v \in Client \ {to} PROVE FileCalm(u, v)'
    <3>1. FileCalm(u, v) /\ sending[u] # v /\ sending'[u] # v
      BY <1>1, <1>10, <2>2, ChatAssumption
    <3>2. SealedTo(sent', u, v) = SealedTo(sent, u, v)
      BY <1>15
    <3> QED BY <1>7, <3>1, <3>2 DEF FileCalm, Between
  <2>11. SealedForRecipient'
    <3>1. \E g \in handshakes : x.mk.root[1] = {g.eph} /\ {g.from, g.to} = {x.from, x.to}
      BY <1>14, <2>6, <2>7 DEF Parties
    <3>2. \A j \in 1..Len(sent) : \E g \in handshakes :
             sent[j].mk.root[1] = {g.eph} /\ {g.from, g.to} = {sent[j].from, sent[j].to}
      BY <2>1, <2>2 DEF SealedForRecipient, Between
    <3>3. \A j \in 1..Len(sent') : \E g \in handshakes' :
             sent'[j].mk.root[1] = {g.eph} /\ {g.from, g.to} = {sent'[j].from, sent'[j].to}
      <4> TAKE j \in 1..Len(sent')
      <4>1. CASE j = Len(sent) + 1 /\ sent'[j] = x
        BY <1>7, <3>1, <4>1
      <4>2. CASE j \in 1..Len(sent) /\ sent'[j] = sent[j]
        BY <1>7, <3>2, <4>2
      <4> QED BY <1>13, <4>1, <4>2
    <3> QED BY <3>3 DEF SealedForRecipient, Between
  <2>12. ASSUME NEW j \in 1..Len(sent), sent[j].mk = m.mk PROVE FALSE
    <3>1. sent[j] \in SentMessage
      BY <1>0, ElementOfSeq DEF TypesOK
    <3>2. PICK g \in handshakes : /\ sent[j].from \in Parties(g) /\ Begins(sent[j].mk, {g.eph})
                                  /\ SealedBy(sent[j].mk, Own(sent[j].from), sent[j].from = g.from)
      BY <1>0 DEF SentInv, SentOk
    <3>3. g = h
      BY <1>0, <2>7, <2>12, <3>2 DEF Begins, HandshakesInv
    <3>4. Between(sent[j].mk.root, sent[j].from, sent[j].to)
      BY <2>1, <2>2 DEF SealedForRecipient
    <3>5. Parties(h) = {sent[j].from, sent[j].to}
      BY <1>0, <2>7, <2>12, <3>4, OneHandshake
    <3>6. CASE sent[j].from = u
      <4>1. sent[j].to = to
        BY <1>1, <2>6, <3>5, <3>6
      <4>2. sent[j].mk \in SealedTo(sent, u, to)
        BY <3>6, <4>1 DEF SealedTo
      <4> QED BY <2>5, <2>12, <4>2
    <3>7. CASE sent[j].from # u
      <4> DEFINE w == sent[j].from
      <4>1. w \in Client /\ w # u /\ Own(w) \subseteq KeyPair /\ Own(u) \subseteq KeyPair
            /\ Own(u) \cap Own(w) = {} /\ m.mk \in ChainKey
        BY <1>2, <1>9, <1>14, <3>1, <3>7, Owners DEF SentMessage
      <4>2. ~ ((u = h.from) /\ (w = h.from)) /\ ((u = h.from) \/ (w = h.from))
        BY <1>3, <3>2, <3>3, <4>1 DEF Parties
      <4>3. SealedBy(m.mk, Own(w), w = h.from)
        BY <2>12, <3>2, <3>3
      <4> HIDE DEF w
      <4> QED BY <1>6, <4>1, <4>2, <4>3, SealedByOneSide
    <3> QED BY <3>6, <3>7
  <2>13. NoKeyReuse'
    <3> SUFFICES ASSUME NEW i \in 1..Len(sent'), NEW j \in 1..Len(sent'), sent'[i].mk = sent'[j].mk
                 PROVE  i = j
      BY DEF NoKeyReuse
    <3>1. CASE i \in 1..Len(sent) /\ j \in 1..Len(sent)
      BY <1>13, <2>2, <3>1 DEF NoKeyReuse
    <3>2. CASE i = Len(sent) + 1 \/ j = Len(sent) + 1
      BY <1>13, <1>14, <2>12, <3>2
    <3> QED BY <1>13, <3>1, <3>2
  <2> QED BY <2>4, <2>8, <2>9, <2>10, <2>11, <2>13
<1> QED BY <1>16, <1>17, <1>18, <1>19, <1>20, <1>21, <1>22, <1>23 DEF ChatInv

\* A save changes the version only.
LEMMA SavedSessionOf ==
    ASSUME NEW u, NEW d, NEW hs, NEW n, SessionOf(u, d, hs, n)
    PROVE  /\ SessionOf(u, Saved(d), hs, n) /\ Saved(d) # None /\ Saved(d) \in Session
           /\ Saved(d).state = d.state /\ Saved(d).version = d.version + 1
<1>1. d \in Session /\ d.version \in Nat /\ d.version >= 2 /\ d.state \in RatchetState
  BY DEF SessionOf, Session
<1>2. Saved(d) = [state |-> d.state, version |-> d.version + 1]
  BY <1>1 DEF Saved, Session
<1>3. Saved(d) \in Session /\ Saved(d).version >= 2
  BY <1>1, <1>2 DEF Session
<1> QED BY <1>1, <1>2, <1>3, ChatAssumption DEF SessionOf

\* After the message is on its way the file has its key.
LEMMA SaveAfterSendChat ==
    ASSUME ChatInv, NEW u \in Client, SaveAfterSend(u)
    PROVE  ChatInv'
<1>0. /\ TypesOK /\ TypeOK /\ HandshakesInv /\ SessionsInv /\ ControlInv /\ CalmInv
  BY DEF ChatInv, TypesOK
<1> PICK to \in Client : to = sending[u]
  BY <1>0 DEF SaveAfterSend, TypeOK
<1> DEFINE d == Saved(engine[u])
<1>1. /\ engine[u] # None
      /\ SessionOf(u, engine[u], handshakes, generated[u])
  BY <1>0 DEF SaveAfterSend, Running, SessionsInv
<1>2. /\ SessionOf(u, d, handshakes, generated[u]) /\ d # None /\ d \in Session
      /\ d.state = engine[u].state /\ d.version = engine[u].version + 1
  BY <1>1, SavedSessionOf
<1> HIDE DEF d
<1>3. /\ \/ SaveRaises(engine[u], u, to) /\ UNCHANGED <<engine, file>>
         \/ /\ ~ SaveRaises(engine[u], u, to)
            /\ engine' = [engine EXCEPT ![u] = d]
            /\ file' = [file EXCEPT ![u][to] = d]
      /\ sending' = [sending EXCEPT ![u] = None]
      /\ UNCHANGED <<peer, inits, msgs, opk_used, generated, handshakes, sent, shown, raced,
                     starts, misfiled, crashes, interrupts, raws>>
  BY DEF SaveAfterSend, SaveEngine, faults, d
<1>4. TypesOK'
  <2>1. sending' \in [Client -> Client \cup {None}]
    BY <1>0, <1>3 DEF TypeOK
  <2>2. engine' \in [Client -> Session \cup {None}]
    <3>1. engine \in [Client -> Session \cup {None}]
      BY <1>0 DEF TypeOK
    <3>2. CASE engine' = engine
      BY <3>1, <3>2
    <3>3. CASE engine' = [engine EXCEPT ![u] = d]
      BY <1>2, <3>1, <3>3
    <3> QED BY <1>3, <3>2, <3>3
  <2>3. file' \in [Client -> [Client -> Session \cup {None}]]
    <3>1. file \in [Client -> [Client -> Session \cup {None}]]
      BY <1>0 DEF TypesOK
    <3>2. CASE file' = file
      BY <3>1, <3>2
    <3>3. CASE file' = [file EXCEPT ![u][to] = d]
      BY <1>2, <3>1, <3>3
    <3> QED BY <1>3, <3>2, <3>3
  <2> QED BY <1>0, <1>3, <2>1, <2>2, <2>3 DEF TypesOK, TypeOK
<1>5. /\ \/ SaveRaises(engine[u], u, to) /\ engine'[u] = engine[u] /\ file' = file
         \/ /\ ~ SaveRaises(engine[u], u, to) /\ engine'[u] = d /\ file'[u][to] = d
            /\ \A v \in Client \ {to} : file'[u][v] = file[u][v]
      /\ sending'[u] = None
      /\ \A w \in Client \ {u} : /\ engine'[w] = engine[w] /\ file'[w] = file[w]
                                 /\ sending'[w] = sending[w]
  BY <1>0, <1>3 DEF TypesOK, TypeOK
<1>6. HandshakesInv' /\ handshakes \subseteq handshakes'
  BY <1>0, <1>3 DEF HandshakesInv
<1>7. SessionsInv'
  <2>1. \A w \in Client : generated'[w] \in Nat /\ generated[w] <= generated'[w]
    BY <1>0, <1>3 DEF TypeOK
  <2>2. \A v \in Client : file'[u][v] = file[u][v] \/ SessionOf(u, file'[u][v], handshakes', generated'[u])
    BY <1>2, <1>3, <1>5
  <2>3. engine'[u] = engine[u] \/ SessionOf(u, engine'[u], handshakes', generated'[u])
    BY <1>2, <1>3, <1>5
  <2> QED BY <1>0, <1>5, <1>6, <2>1, <2>2, <2>3, SessionsKept
<1>8. ControlInv'
  BY <1>0, <1>1, <1>2, <1>3, <1>5 DEF ControlInv
<1>9. InitsInv' /\ MsgsInv' /\ SentInv' /\ ShownIsAuthentic'
  BY <1>3, <1>6, PastKept
<1>10. CalmInv'
  <2> SUFFICES ASSUME Calm'
               PROVE  /\ \A w \in Client : EngineCalm(w)' /\ \A v \in Client : FileCalm(w, v)'
                      /\ SealedForRecipient' /\ NoKeyReuse'
    BY DEF CalmInv
  <2>1. Calm
    BY <1>3 DEF Calm
  <2>2. /\ \A w \in Client : EngineCalm(w) /\ \A v \in Client : FileCalm(w, v)
        /\ NoKeyReuse
    BY <1>0, <2>1 DEF CalmInv
  <2>3. SealedForRecipient' /\ NoKeyReuse'
    BY <1>3, <1>6, <2>1, <2>2, PastKept
  <2>4. ASSUME NEW w \in Client \ {u} PROVE EngineCalm(w)' /\ \A v \in Client : FileCalm(w, v)'
    BY <1>3, <1>5, <1>6, <2>2, OtherCalm
  <2>5. /\ to = peer[u] /\ Between(engine[u].state.root_key, u, to)
        /\ file[u][to].version = engine[u].version
        /\ SessionInv(engine[u].state, {}, SealedTo(sent, u, to))
    BY <1>1, <2>2, ChatAssumption DEF EngineCalm
  <2>6. engine'[u] = d /\ file'[u][to] = d /\ \A v \in Client \ {to} : file'[u][v] = file[u][v]
    <3>1. engine[u].version \in Nat
      BY <1>1 DEF SessionOf, Session
    <3>2. ~ SaveRaises(engine[u], u, to)
      BY <2>5, <3>1 DEF SaveRaises
    <3> QED BY <1>5, <3>2
  <2>7. /\ SessionInv(d.state, {}, SealedTo(sent, u, to))
        /\ \E h \in handshakes' : d.state.root_key[1] = {h.eph} /\ {h.from, h.to} = {u, to}
    BY <1>2, <1>3, <2>5 DEF Between
  <2>8. EngineCalm(u)'
    <3>1. peer'[u] = to /\ sent' = sent
      BY <1>3, <2>5
    <3> QED BY <1>2, <1>5, <2>6, <2>7, <3>1 DEF EngineCalm, Between
  <2>9. FileCalm(u, to)'
    BY <1>2, <1>3, <1>5, <2>6, <2>7, ChatAssumption DEF FileCalm, Between
  <2>10. ASSUME NEW v \in Client \ {to} PROVE FileCalm(u, v)'
    <3>1. FileCalm(u, v) /\ sending[u] # v /\ sending'[u] # v /\ file'[u][v] = file[u][v]
      BY <1>5, <2>2, <2>6, ChatAssumption
    <3> QED BY <1>3, <3>1 DEF FileCalm, Between
  <2> QED BY <2>3, <2>4, <2>8, <2>9, <2>10
<1> QED BY <1>4, <1>6, <1>7, <1>8, <1>9, <1>10 DEF ChatInv

\* A message opens only in the session it was sealed in, which is the one with
\* its sender.
LEMMA ReceiveChat ==
    ASSUME ChatInv, NEW u \in Client, Receive(u)
    PROVE  ChatInv'
<1>0. /\ TypesOK /\ TypeOK /\ HandshakesInv /\ SessionsInv /\ ControlInv /\ CalmInv /\ MsgsInv
      /\ ShownIsAuthentic
  BY DEF ChatInv, TypesOK
<1> PICK f : f = Head(msgs[u])
  OBVIOUS
<1>1. /\ msgs \in [Client -> Seq(MsgFrame)] /\ msgs[u] # << >> /\ engine[u] # None
      /\ f.wire # None /\ generated[u] \in Nat /\ generated[u] < MaxGenerated /\ generated[u] \in 0..MaxGenerated
      /\ MaxGenerated \in Nat
  <2>1. msgs \in [Client -> Seq(MsgFrame)]
    BY <1>0 DEF TypeOK, MsgFrame
  <2>2. /\ msgs[u] # << >> /\ engine[u] # None /\ generated[u] < MaxGenerated
        /\ f.wire # None
    BY DEF Receive, Running
  <2>3. generated[u] \in 0..MaxGenerated /\ MaxGenerated \in Nat
    BY <1>0, ChatAssumption DEF TypeOK
  <2> QED BY <2>1, <2>2, <2>3
<1>2. f \in MsgFrame /\ MsgOk(f, u, handshakes)
  BY <1>0, <1>1, QueueTail DEF MsgsInv
<1> PICK from \in Client \ {u} : from = f.from
  BY <1>1, <1>2 DEF MsgFrame, MsgOk
<1> DEFINE wire  == f.wire
           fresh == <<u, generated[u]>>
           e     == engine[u].state
           out   == ratchet_decrypt(e, wire, fresh)
           r     == out.state
           ok    == out.result = "ok"
           s     == [engine[u] EXCEPT !.state = r]
           save  == ok /\ ~ SaveRaises(s, u, from)
           d     == IF save THEN Saved(s) ELSE s
           gen   == IF r.dhs = e.dhs THEN generated[u] ELSE generated[u] + 1
           note  == [from |-> from, mk |-> wire.mk]
<1>3. /\ SessionOf(u, engine[u], handshakes, generated[u])
      /\ SessionInv(e, {}, {}) /\ e.dhs \in FirstKeys(u, generated[u])
      /\ engine[u] \in Session /\ engine[u].version \in Nat /\ engine[u].version >= 2
  BY <1>0, <1>1 DEF SessionsInv, SessionOf, Session
<1>4. PICK h \in handshakes : /\ u \in Parties(h) /\ Rooted(e, {h.eph})
                              /\ SenderInv(e, Own(u), u = h.from)
  BY <1>3 DEF SessionOf, Descends
<1>5. /\ wire \in WireMessage /\ wire.dh \notin Own(u) /\ wire.mk \in ChainKey
      /\ note \in ShownMessage
  <2>1. wire \in WireMessage /\ wire.dh \in Own(from)
    BY <1>1, <1>2 DEF MsgFrame, MsgOk
  <2>2. wire.dh \notin Own(u) /\ wire.mk \in ChainKey
    BY <2>1, Owners DEF WireMessage
  <2> QED BY <2>1, <2>2 DEF ShownMessage
<1>6. /\ fresh \in Own(u) /\ fresh \in KeyPair /\ fresh # e.dhs
      /\ Own(u) \in SUBSET KeyPair
  <2>1. /\ Own(u) \subseteq KeyPair /\ <<u, generated[u]>> \in Own(u)
        /\ <<u, generated[u]>> \notin FirstKeys(u, generated[u])
    BY <1>1, Owners
  <2> HIDE DEF e
  <2> QED BY <1>3, <2>1
<1>7. \A Sealed : SessionInv(e, {}, Sealed) => SessionInv(r, {}, Sealed)
  <2> SUFFICES ASSUME NEW Sealed, SessionInv(e, {}, Sealed) PROVE SessionInv(r, {}, Sealed)
    OBVIOUS
  <2>1. SessionInv(r, UsedAfter({}, wire, out), Sealed)
    BY <1>5, <1>6, RatchetDecryptInv
  <2> HIDE DEF r, out
  <2> QED BY <2>1, SessionInvFewer
<1>8. Rooted(r, {h.eph}) /\ (ok => Begins(wire.mk, {h.eph}))
  BY <1>3, <1>4, <1>5, <1>6, RatchetDecryptRooted
<1>9. SenderInv(r, Own(u), u = h.from) /\ r.dhs \in {e.dhs, fresh}
  BY <1>3, <1>4, <1>5, <1>6, RatchetDecryptSender
<1>10. /\ engine' = [engine EXCEPT ![u] = d]
       /\ file' = IF save THEN [file EXCEPT ![u][from] = d] ELSE file
       /\ shown' = IF ok THEN [shown EXCEPT ![u] = Append(shown[u], note)] ELSE shown
       /\ generated' = [generated EXCEPT ![u] = gen]
       /\ msgs' = [msgs EXCEPT ![u] = Tail(msgs[u])]
       /\ UNCHANGED <<peer, sending, inits, opk_used, handshakes, sent, raced, starts,
                      misfiled, crashes, interrupts, raws>>
  <2>1. Fresh(u, 0) = fresh /\ SenderOf(u) = from /\ Head(msgs[u]).wire = wire
    BY <1>1 DEF Fresh, SenderOf
  <2> HIDE DEF fresh, wire
  <2> QED BY <2>1 DEF Receive, faults
<1> HIDE DEF out, r, ok, wire, fresh
<1>11. /\ gen \in 0..MaxGenerated /\ generated[u] <= gen /\ gen \in Nat
       /\ r.dhs \in FirstKeys(u, gen)
  <2>1. gen \in 0..MaxGenerated /\ generated[u] <= gen /\ gen \in Nat
    <3>1. gen = generated[u] \/ gen = generated[u] + 1
      OBVIOUS
    <3> HIDE DEF gen
    <3>2. \A k \in Nat : k < MaxGenerated =>
             /\ k \in 0..MaxGenerated /\ k + 1 \in 0..MaxGenerated
             /\ k <= k + 1 /\ k + 1 \in Nat /\ k <= k
      BY <1>1
    <3>3. CASE gen = generated[u]
      BY <1>1, <3>2, <3>3
    <3>4. CASE gen = generated[u] + 1
      BY <1>1, <3>2, <3>4
    <3> QED BY <3>1, <3>3, <3>4
  <2>2. CASE r.dhs = e.dhs
    <3>1. gen = generated[u]
      BY <2>2
    <3> HIDE DEF gen, e
    <3> QED BY <1>3, <2>1, <2>2, <3>1
  <2>3. CASE r.dhs # e.dhs
    <3>1. r.dhs = <<u, generated[u]>> /\ gen = generated[u] + 1
      BY <1>9, <2>3 DEF fresh
    <3>2. generated[u] \in 0..(gen - 1)
      BY <1>1, <3>1
    <3> QED BY <2>1, <3>1, <3>2 DEF FirstKeys
  <2> QED BY <2>1, <2>2, <2>3
<1>12. s = [state |-> r, version |-> engine[u].version]
  BY <1>3 DEF Session
<1> HIDE DEF s, gen, e
<1>13. SessionOf(u, s, handshakes', gen) /\ s.version = engine[u].version /\ s.state = r
  <2>1. SessionInv(r, {}, {})
    BY <1>3, <1>7
  <2>2. r \in RatchetState
    BY <2>1 DEF SessionInv
  <2>3. s \in Session /\ s.version >= 2 /\ s.state = r /\ s.version = engine[u].version
    BY <1>3, <1>12, <2>2 DEF Session
  <2>4. Descends(r, u, handshakes)
    BY <1>4, <1>8, <1>9 DEF Descends
  <2> QED BY <1>10, <1>11, <2>1, <2>3, <2>4 DEF SessionOf
<1>14. /\ SessionOf(u, d, handshakes', gen) /\ d # None /\ d \in Session /\ d.state = r
       /\ save => d.version = engine[u].version + 1
       /\ ~ save => d.version = engine[u].version
  BY <1>13, SavedSessionOf, ChatAssumption DEF SessionOf
<1> HIDE DEF d, save
<1>15. /\ Tail(msgs[u]) \in Seq(MsgFrame)
       /\ \A j \in 1..Len(Tail(msgs[u])) :
             j + 1 \in 1..Len(msgs[u]) /\ Tail(msgs[u])[j] = msgs[u][j + 1]
  BY <1>1, QueueTail
<1>16. shown \in [Client -> Seq(ShownMessage)] /\ Append(shown[u], note) \in Seq(ShownMessage)
  <2>1. shown \in [Client -> Seq(ShownMessage)]
    BY <1>0 DEF TypesOK
  <2> HIDE DEF note
  <2> QED BY <1>5, <2>1, QueueAppend
<1>17. TypesOK'
  <2>1. engine' \in [Client -> Session \cup {None}] /\ generated' \in [Client -> 0..MaxGenerated]
    BY <1>0, <1>10, <1>11, <1>14 DEF TypeOK
  <2>2. file' \in [Client -> [Client -> Session \cup {None}]]
    BY <1>0, <1>10, <1>14 DEF TypesOK
  <2>3. msgs' \in [Client -> Seq(MsgFrame)]
    BY <1>1, <1>10, <1>15
  <2>4. shown' \in [Client -> Seq(ShownMessage)]
    BY <1>10, <1>16
  <2> QED BY <1>0, <1>10, <2>1, <2>2, <2>3, <2>4 DEF TypesOK, TypeOK, MsgFrame
<1>18. /\ engine'[u] = d /\ generated'[u] = gen
       /\ \A v \in Client : file'[u][v] = IF save /\ v = from THEN d ELSE file[u][v]
       /\ \A w \in Client \ {u} : /\ engine'[w] = engine[w] /\ file'[w] = file[w]
                                  /\ generated'[w] = generated[w]
  BY <1>0, <1>10 DEF TypesOK, TypeOK
<1>19. /\ \A w \in Client : generated'[w] \in Nat /\ generated[w] <= generated'[w]
       /\ handshakes' = handshakes
  BY <1>0, <1>10, <1>11, <1>18 DEF TypeOK
<1>20. HandshakesInv'
  <2>1. \A x \in handshakes : x.eph \in FirstKeys(x.from, generated'[x.from])
    <3> TAKE x \in handshakes
    <3>1. x.from \in Client /\ x.eph \in FirstKeys(x.from, generated[x.from])
      BY <1>0 DEF TypesOK, Handshakes, HandshakesInv
    <3>2. generated[x.from] \in Nat
      BY <1>0, <3>1 DEF TypeOK
    <3> QED BY <1>19, <3>1, <3>2, Owners
  <2> QED BY <1>0, <1>19, <2>1 DEF HandshakesInv
<1>21. SessionsInv'
  <2>1. \A v \in Client : file'[u][v] = file[u][v] \/ SessionOf(u, file'[u][v], handshakes', generated'[u])
    BY <1>14, <1>18
  <2>2. SessionOf(u, engine'[u], handshakes', generated'[u]) /\ handshakes \subseteq handshakes'
    BY <1>14, <1>18, <1>19
  <2> QED BY <1>0, <1>18, <1>19, <2>1, <2>2, SessionsKept
<1>22. ControlInv'
  BY <1>0, <1>1, <1>10, <1>14, <1>18 DEF ControlInv
<1>23. InitsInv' /\ SentInv'
  BY <1>10, <1>19, PastKept
<1>24. MsgsInv'
  <2> SUFFICES ASSUME NEW w \in Client, NEW j \in 1..Len(msgs'[w])
               PROVE  MsgOk(msgs'[w][j], w, handshakes)
    BY <1>19 DEF MsgsInv
  <2>1. CASE w = u
    <3>1. msgs'[w] = Tail(msgs[u])
      BY <1>1, <1>10, <2>1
    <3> QED BY <1>0, <1>15, <2>1, <3>1 DEF MsgsInv
  <2>2. CASE w # u
    BY <1>0, <1>1, <1>10, <2>2 DEF MsgsInv
  <2> QED BY <2>1, <2>2
<1>25. ok => Parties(h) = {u, from} /\ wire.mk.root[1] = {h.eph}
  <2> SUFFICES ASSUME ok PROVE Parties(h) = {u, from} /\ wire.mk.root[1] = {h.eph}
    OBVIOUS
  <2>1. PICK g \in handshakes : from \in Parties(g) /\ Begins(wire.mk, {g.eph})
    BY <1>1, <1>2 DEF MsgOk, wire
  <2>2. wire.mk.root[1] = {g.eph} /\ wire.mk.root[1] = {h.eph}
    BY <1>8, <2>1 DEF Begins
  <2>3. g = h
    BY <1>0, <2>2 DEF HandshakesInv
  <2> QED BY <1>4, <2>1, <2>2, <2>3 DEF Parties
<1>26. ShownIsAuthentic'
  <2>1. CASE ~ ok
    BY <1>10, <1>19, <2>1, PastKept
  <2>2. CASE ok
    <3>1. \E g \in handshakes : note.mk.root[1] = {g.eph} /\ {g.from, g.to} = {u, note.from}
      BY <1>25, <2>2 DEF Parties
    <3>3. note \in ShownMessage
      BY <1>5
    <3> HIDE DEF note
    <3>2. ASSUME NEW w \in Client, NEW j \in 1..Len(shown'[w]), shown'[w][j].mk # None
          PROVE  \E g \in handshakes : /\ shown'[w][j].mk.root[1] = {g.eph}
                                       /\ {g.from, g.to} = {w, shown'[w][j].from}
      <4>1. ASSUME NEW k \in 1..Len(shown[w]), shown[w][k].mk # None
            PROVE  \E g \in handshakes : /\ shown[w][k].mk.root[1] = {g.eph}
                                         /\ {g.from, g.to} = {w, shown[w][k].from}
        BY <1>0, <4>1 DEF ShownIsAuthentic, Between
      <4>2. CASE w # u
        <5>1. shown'[w] = shown[w]
          BY <1>10, <1>16, <2>2, <4>2
        <5> QED BY <3>2, <4>1, <5>1
      <4>3. CASE w = u
        <5>1. shown'[w] = Append(shown[w], note)
          BY <1>10, <1>16, <2>2, <4>3
        <5>2. \/ shown'[w][j] = note
              \/ j \in 1..Len(shown[w]) /\ shown'[w][j] = shown[w][j]
          <6>1. shown[w] \in Seq(ShownMessage)
            BY <1>16
          <6> QED BY <3>3, <5>1, <6>1, QueueAppend
        <5>3. CASE shown'[w][j] = note
          BY <3>1, <4>3, <5>3
        <5>4. CASE j \in 1..Len(shown[w]) /\ shown'[w][j] = shown[w][j]
          BY <3>2, <4>1, <5>4
        <5> QED BY <5>2, <5>3, <5>4
      <4> QED BY <4>2, <4>3
    <3> QED BY <1>19, <3>2 DEF ShownIsAuthentic, Between
  <2> QED BY <2>1, <2>2
<1>27. CalmInv'
  <2> SUFFICES ASSUME Calm'
               PROVE  /\ \A w \in Client : EngineCalm(w)' /\ \A v \in Client : FileCalm(w, v)'
                      /\ SealedForRecipient' /\ NoKeyReuse'
    BY DEF CalmInv
  <2>1. Calm
    BY <1>10 DEF Calm
  <2>2. /\ \A w \in Client : EngineCalm(w) /\ \A v \in Client : FileCalm(w, v)
        /\ NoKeyReuse
    BY <1>0, <2>1 DEF CalmInv
  <2>3. SealedForRecipient' /\ NoKeyReuse'
    BY <1>10, <1>19, <2>1, <2>2, PastKept
  <2>4. ASSUME NEW w \in Client \ {u} PROVE EngineCalm(w)' /\ \A v \in Client : FileCalm(w, v)'
    BY <1>10, <1>18, <1>19, <2>2, OtherCalm
  <2> PICK to \in Client : to = peer[u]
    BY <1>0, <1>1 DEF ControlInv
  <2>5. /\ Between(e.root_key, u, to)
        /\ sending[u] \in {None, to} /\ file[u][to] # None
        /\ file[u][to].version = engine[u].version
        /\ SessionInv(e, {}, SealedTo(sent, u, to))
    BY <1>1, <2>2 DEF EngineCalm, e
  <2>6. Parties(h) = {u, to}
    <3>1. e.root_key[1] = {h.eph}
      BY <1>4 DEF Rooted
    <3> QED BY <1>0, <2>5, <3>1, OneHandshake
  <2>7. /\ SessionInv(d.state, {}, SealedTo(sent, u, to))
        /\ \E g \in handshakes' : d.state.root_key[1] = {g.eph} /\ {g.from, g.to} = {u, to}
    <3>1. r.root_key[1] = {h.eph}
      BY <1>8 DEF Rooted
    <3> QED BY <1>7, <1>14, <1>19, <2>5, <2>6, <3>1 DEF Parties
  <2>8. save => from = to
    BY <1>25, <2>6 DEF save
  <2>9. file'[u][to] = (IF save THEN d ELSE file[u][to])
        /\ \A v \in Client \ {to} : file'[u][v] = file[u][v]
    BY <1>18, <2>8
  <2>10. EngineCalm(u)'
    <3>1. peer'[u] = to /\ sent' = sent /\ sending'[u] = sending[u]
      BY <1>10
    <3>2. file'[u][to] # None /\ file'[u][to].version = d.version
      BY <1>14, <2>5, <2>9
    <3> QED BY <1>18, <2>5, <2>7, <3>1, <3>2 DEF EngineCalm, Between
  <2>11. FileCalm(u, to)'
    <3>1. CASE save
      <4>1. file'[u][to] = d /\ d # None /\ sent' = sent /\ sending'[u] = sending[u]
        BY <1>10, <1>14, <2>9, <3>1
      <4>2. SessionInv(d.state, {}, {})
        BY <1>14 DEF SessionOf
      <4> QED BY <2>7, <4>1, <4>2 DEF FileCalm, Between
    <3>2. CASE ~ save
      <4>1. FileCalm(u, to) /\ file'[u][to] = file[u][to]
        BY <2>2, <2>9, <3>2
      <4> QED BY <1>10, <4>1 DEF FileCalm, Between
    <3> QED BY <3>1, <3>2
  <2>12. ASSUME NEW v \in Client \ {to} PROVE FileCalm(u, v)'
    <3>1. FileCalm(u, v) /\ file'[u][v] = file[u][v]
      BY <2>2, <2>9
    <3> QED BY <1>10, <3>1 DEF FileCalm, Between
  <2> QED BY <2>3, <2>4, <2>10, <2>11, <2>12
<1> QED BY <1>17, <1>20, <1>21, <1>22, <1>23, <1>24, <1>26, <1>27 DEF ChatInv

\* A payload in the clear joins a queue.
LEMMA PostRawChat ==
    ASSUME ChatInv, NEW x \in Client, NEW v \in Client, PostRaw(x, v)
    PROVE  ChatInv'
<1> DEFINE f == [from |-> x, wire |-> None]
<1>0. /\ TypesOK /\ TypeOK /\ HandshakesInv /\ SessionsInv /\ ControlInv /\ CalmInv /\ MsgsInv
      /\ msgs \in [Client -> Seq(MsgFrame)]
  BY DEF ChatInv, TypesOK, TypeOK, MsgFrame
<1>1. /\ raws < MaxRaw /\ raws' = raws + 1
      /\ msgs' = Forwarded(msgs, v, f)
      /\ UNCHANGED <<engine, peer, sending, file, inits, opk_used, generated, handshakes,
                     sent, shown, raced, misfiled, starts, crashes, interrupts>>
  BY DEF PostRaw
<1>2. f \in MsgFrame /\ f.wire = None
  BY DEF MsgFrame
<1> HIDE DEF f
<1>3. raws' \in 0..MaxRaw
  <2>1. raws \in 0..MaxRaw
    BY <1>0 DEF TypeOK
  <2>2. raws < MaxRaw /\ raws' = raws + 1 /\ MaxRaw \in Nat
    BY <1>1, ChatAssumption
  <2> QED BY <2>1, <2>2
<1>4. Append(msgs[v], f) \in Seq(MsgFrame)
  BY <1>0, <1>2, QueueAppend
<1>5. msgs' \in [Client -> Seq(MsgFrame)]
  BY <1>0, <1>1, <1>4 DEF Forwarded
<1>6. TypesOK'
  BY <1>0, <1>1, <1>3, <1>5 DEF TypesOK, TypeOK, MsgFrame
<1>7. HandshakesInv' /\ SessionsInv' /\ ControlInv' /\ handshakes \subseteq handshakes'
  BY <1>0, <1>1 DEF HandshakesInv, SessionsInv, ControlInv
<1>8. InitsInv' /\ SentInv' /\ ShownIsAuthentic'
  BY <1>1, <1>7, PastKept
<1>9. MsgsInv'
  <2> SUFFICES ASSUME NEW w \in Client, NEW j \in 1..Len(msgs'[w])
               PROVE  MsgOk(msgs'[w][j], w, handshakes)
    BY <1>1 DEF MsgsInv
  <2>1. \A i \in 1..Len(msgs[w]) : MsgOk(msgs[w][i], w, handshakes)
    BY <1>0 DEF MsgsInv
  <2>2. CASE msgs'[w] = msgs[w]
    BY <2>1, <2>2
  <2>3. CASE w = v /\ msgs'[w] = Append(msgs[w], f)
    <3>1. MsgOk(f, w, handshakes)
      BY <1>2 DEF MsgOk
    <3> QED BY <1>0, <1>2, <2>1, <2>3, <3>1, QueueAppend
  <2> QED BY <1>0, <1>1, <2>2, <2>3 DEF Forwarded
<1>10. CalmInv'
  <2>1. /\ Calm' = Calm /\ SealedForRecipient' = SealedForRecipient /\ NoKeyReuse' = NoKeyReuse
        /\ \A w \in Client : /\ EngineCalm(w)' = EngineCalm(w)
                             /\ \A y \in Client : FileCalm(w, y)' = FileCalm(w, y)
    BY <1>1 DEF Calm, SealedForRecipient, NoKeyReuse, EngineCalm, FileCalm, Between
  <2> QED BY <1>0, <2>1 DEF CalmInv
<1> QED BY <1>6, <1>7, <1>8, <1>9, <1>10 DEF ChatInv

\* A payload in the clear makes recv_loop save the engine as it is; calm remains
\* only when it comes from the peer, whose file that is.
LEMMA ReceiveRawChat ==
    ASSUME ChatInv, NEW u \in Client, ReceiveRaw(u)
    PROVE  ChatInv'
<1>0. /\ TypesOK /\ TypeOK /\ HandshakesInv /\ SessionsInv /\ ControlInv /\ CalmInv /\ MsgsInv
      /\ ShownIsAuthentic
  BY DEF ChatInv, TypesOK
<1>1. /\ msgs \in [Client -> Seq(MsgFrame)] /\ msgs[u] # << >> /\ engine[u] # None
      /\ SessionOf(u, engine[u], handshakes, generated[u])
  <2>1. msgs \in [Client -> Seq(MsgFrame)]
    BY <1>0 DEF TypeOK, MsgFrame
  <2>2. msgs[u] # << >> /\ engine[u] # None
    BY DEF ReceiveRaw, Running
  <2> QED BY <1>0, <2>1, <2>2 DEF SessionsInv
<1>2. Head(msgs[u]) \in MsgFrame
  BY <1>1, QueueTail
<1> PICK from \in Client : from = Head(msgs[u]).from
  BY <1>2 DEF MsgFrame
<1> DEFINE d    == Saved(engine[u])
           note == [from |-> from, mk |-> None]
<1>3. /\ SessionOf(u, d, handshakes, generated[u]) /\ d # None /\ d \in Session
      /\ d.state = engine[u].state /\ d.version = engine[u].version + 1
  BY <1>1, SavedSessionOf
<1>4. note \in ShownMessage /\ note.mk = None
  BY DEF ShownMessage
<1> HIDE DEF d, note
<1>5. /\ \/ engine' = engine /\ file' = file
         \/ /\ engine' = [engine EXCEPT ![u] = d]
            /\ file' = [file EXCEPT ![u][from] = d]
            /\ ~ misfiled' => from = peer[u]
      /\ shown' = shown \/ shown' = [shown EXCEPT ![u] = Append(shown[u], note)]
      /\ misfiled' \in BOOLEAN /\ (~ misfiled' => ~ misfiled)
      /\ msgs' = [msgs EXCEPT ![u] = Tail(msgs[u])]
      /\ UNCHANGED <<peer, sending, inits, opk_used, generated, handshakes, sent, raced,
                     starts, crashes, interrupts, raws>>
  <2>1. SenderOf(u) = from
    BY DEF SenderOf
  <2>2. /\ msgs' = [msgs EXCEPT ![u] = Tail(msgs[u])]
        /\ UNCHANGED <<peer, sending, inits, opk_used, generated, handshakes, sent, raced,
                       starts, crashes, interrupts, raws>>
    BY DEF ReceiveRaw
  <2>3. \/ /\ SaveEngine(u, from)
           /\ misfiled' = (misfiled \/ from # peer[u])
           /\ shown' = [shown EXCEPT ![u] = Append(shown[u], note)]
        \/ UNCHANGED <<engine, file, misfiled, shown>>
    BY <2>1 DEF ReceiveRaw, note
  <2>4. SaveEngine(u, from) => \/ engine' = engine /\ file' = file
                               \/ /\ engine' = [engine EXCEPT ![u] = d]
                                  /\ file' = [file EXCEPT ![u][from] = d]
    BY DEF SaveEngine, d
  <2>0. misfiled \in BOOLEAN
    BY <1>0 DEF TypeOK
  <2>5. CASE UNCHANGED <<engine, file, misfiled, shown>>
    BY <2>0, <2>2, <2>5
  <2>6. CASE /\ SaveEngine(u, from)
             /\ misfiled' = (misfiled \/ from # peer[u])
             /\ shown' = [shown EXCEPT ![u] = Append(shown[u], note)]
    <3>1. misfiled' \in BOOLEAN /\ (~ misfiled' => ~ misfiled) /\ (~ misfiled' => from = peer[u])
      BY <2>0, <2>6
    <3> QED BY <2>2, <2>4, <2>6, <3>1
  <2> QED BY <2>3, <2>5, <2>6
<1>6. /\ Tail(msgs[u]) \in Seq(MsgFrame)
      /\ \A j \in 1..Len(Tail(msgs[u])) :
            j + 1 \in 1..Len(msgs[u]) /\ Tail(msgs[u])[j] = msgs[u][j + 1]
  BY <1>1, QueueTail
<1>7. shown \in [Client -> Seq(ShownMessage)] /\ Append(shown[u], note) \in Seq(ShownMessage)
  <2>1. shown \in [Client -> Seq(ShownMessage)]
    BY <1>0 DEF TypesOK
  <2> QED BY <1>4, <2>1, QueueAppend
<1>8. TypesOK'
  <2>1. engine' \in [Client -> Session \cup {None}]
    <3>1. engine \in [Client -> Session \cup {None}]
      BY <1>0 DEF TypeOK
    <3>2. CASE engine' = engine
      BY <3>1, <3>2
    <3>3. CASE engine' = [engine EXCEPT ![u] = d]
      BY <1>3, <3>1, <3>3
    <3> QED BY <1>5, <3>2, <3>3
  <2>2. file' \in [Client -> [Client -> Session \cup {None}]]
    <3>1. file \in [Client -> [Client -> Session \cup {None}]]
      BY <1>0 DEF TypesOK
    <3>2. CASE file' = file
      BY <3>1, <3>2
    <3>3. CASE file' = [file EXCEPT ![u][from] = d]
      BY <1>3, <3>1, <3>3
    <3> QED BY <1>5, <3>2, <3>3
  <2>3. msgs' \in [Client -> Seq(MsgFrame)]
    BY <1>1, <1>5, <1>6
  <2>4. shown' \in [Client -> Seq(ShownMessage)]
    BY <1>5, <1>7
  <2>5. misfiled' \in BOOLEAN
    BY <1>0, <1>5 DEF TypeOK
  <2> QED BY <1>0, <1>5, <2>1, <2>2, <2>3, <2>4, <2>5 DEF TypesOK, TypeOK, MsgFrame
<1>9. /\ \/ engine'[u] = engine[u] /\ file' = file
         \/ /\ engine'[u] = d /\ file'[u][from] = d
            /\ \A v \in Client \ {from} : file'[u][v] = file[u][v]
            /\ ~ misfiled' => from = peer[u]
      /\ \A w \in Client \ {u} : engine'[w] = engine[w] /\ file'[w] = file[w]
  <2>1. CASE engine' = engine /\ file' = file
    BY <2>1
  <2>2. CASE /\ engine' = [engine EXCEPT ![u] = d]
             /\ file' = [file EXCEPT ![u][from] = d]
             /\ ~ misfiled' => from = peer[u]
    <3>1. /\ engine'[u] = d /\ file'[u][from] = d
          /\ \A v \in Client \ {from} : file'[u][v] = file[u][v]
          /\ \A w \in Client \ {u} : engine'[w] = engine[w] /\ file'[w] = file[w]
      BY <1>0, <2>2 DEF TypesOK, TypeOK
    <3> QED BY <2>2, <3>1
  <2> QED BY <1>5, <2>1, <2>2
<1>10. HandshakesInv' /\ handshakes \subseteq handshakes' /\ handshakes' = handshakes
  BY <1>0, <1>5 DEF HandshakesInv
<1>11. SessionsInv'
  <2>1. \A w \in Client : generated'[w] \in Nat /\ generated[w] <= generated'[w]
    BY <1>0, <1>5 DEF TypeOK
  <2>2. \A v \in Client : file'[u][v] = file[u][v] \/ SessionOf(u, file'[u][v], handshakes', generated'[u])
    BY <1>3, <1>5, <1>9
  <2>3. engine'[u] = engine[u] \/ SessionOf(u, engine'[u], handshakes', generated'[u])
    BY <1>3, <1>5, <1>9
  <2> QED BY <1>0, <1>9, <1>10, <2>1, <2>2, <2>3, SessionsKept
<1>12. ControlInv'
  BY <1>0, <1>1, <1>3, <1>5, <1>9 DEF ControlInv
<1>13. InitsInv' /\ SentInv'
  BY <1>5, <1>10, PastKept
<1>14. MsgsInv'
  <2> SUFFICES ASSUME NEW w \in Client, NEW j \in 1..Len(msgs'[w])
               PROVE  MsgOk(msgs'[w][j], w, handshakes)
    BY <1>10 DEF MsgsInv
  <2>1. CASE w = u
    <3>1. msgs'[w] = Tail(msgs[u])
      BY <1>1, <1>5, <2>1
    <3> QED BY <1>0, <1>6, <2>1, <3>1 DEF MsgsInv
  <2>2. CASE w # u
    BY <1>0, <1>1, <1>5, <2>2 DEF MsgsInv
  <2> QED BY <2>1, <2>2
<1>15. ShownIsAuthentic'
  <2>1. CASE shown' = shown
    BY <1>10, <2>1, PastKept
  <2>2. CASE shown' = [shown EXCEPT ![u] = Append(shown[u], note)]
    <3>1. ASSUME NEW w \in Client, NEW j \in 1..Len(shown'[w]), shown'[w][j].mk # None
          PROVE  \E g \in handshakes : /\ shown'[w][j].mk.root[1] = {g.eph}
                                       /\ {g.from, g.to} = {w, shown'[w][j].from}
      <4>1. ASSUME NEW k \in 1..Len(shown[w]), shown[w][k].mk # None
            PROVE  \E g \in handshakes : /\ shown[w][k].mk.root[1] = {g.eph}
                                         /\ {g.from, g.to} = {w, shown[w][k].from}
        BY <1>0, <4>1 DEF ShownIsAuthentic, Between
      <4>2. CASE w # u
        <5>1. shown'[w] = shown[w]
          BY <1>7, <2>2, <4>2
        <5> QED BY <3>1, <4>1, <5>1
      <4>3. CASE w = u
        <5>1. shown'[w] = Append(shown[w], note)
          BY <1>7, <2>2, <4>3
        <5>2. \/ shown'[w][j] = note
              \/ j \in 1..Len(shown[w]) /\ shown'[w][j] = shown[w][j]
          <6>1. shown[w] \in Seq(ShownMessage)
            BY <1>7
          <6> QED BY <1>4, <5>1, <6>1, QueueAppend
        <5>3. shown'[w][j] # note
          BY <1>4, <3>1
        <5> QED BY <3>1, <4>1, <5>2, <5>3
      <4> QED BY <4>2, <4>3
    <3> QED BY <1>10, <3>1 DEF ShownIsAuthentic, Between
  <2> QED BY <1>5, <2>1, <2>2
<1>16. CalmInv'
  <2> SUFFICES ASSUME Calm'
               PROVE  /\ \A w \in Client : EngineCalm(w)' /\ \A v \in Client : FileCalm(w, v)'
                      /\ SealedForRecipient' /\ NoKeyReuse'
    BY DEF CalmInv
  <2>1. Calm
    BY <1>5 DEF Calm
  <2>2. /\ \A w \in Client : EngineCalm(w) /\ \A v \in Client : FileCalm(w, v)
        /\ NoKeyReuse
    BY <1>0, <2>1 DEF CalmInv
  <2>3. SealedForRecipient' /\ NoKeyReuse'
    BY <1>5, <1>10, <2>1, <2>2, PastKept
  <2>4. ASSUME NEW w \in Client \ {u} PROVE EngineCalm(w)' /\ \A v \in Client : FileCalm(w, v)'
    BY <1>5, <1>9, <1>10, <2>2, OtherCalm
  <2>5. CASE engine'[u] = engine[u] /\ file' = file
    BY <1>5, <1>10, <2>2, <2>3, <2>4, <2>5, OtherCalm
  <2>6. CASE /\ engine'[u] = d /\ file'[u][from] = d
             /\ \A v \in Client \ {from} : file'[u][v] = file[u][v]
             /\ ~ misfiled' => from = peer[u]
    <3>1. from = peer[u]
      BY <2>6 DEF Calm
    <3>2. /\ Between(engine[u].state.root_key, u, from) /\ sending[u] \in {None, from}
          /\ SessionInv(engine[u].state, {}, SealedTo(sent, u, from))
      BY <1>1, <2>2, <3>1 DEF EngineCalm
    <3>3. /\ SessionInv(d.state, {}, SealedTo(sent, u, from))
          /\ SessionInv(d.state, {}, {})
          /\ \E h \in handshakes' : d.state.root_key[1] = {h.eph} /\ {h.from, h.to} = {u, from}
      BY <1>3, <1>10, <3>2 DEF Between, SessionOf
    <3>4. peer'[u] = from /\ sent' = sent /\ sending'[u] = sending[u]
      BY <1>5, <3>1
    <3>5. EngineCalm(u)'
      BY <1>3, <2>6, <3>2, <3>3, <3>4 DEF EngineCalm, Between
    <3>6. FileCalm(u, from)'
      BY <1>3, <2>6, <3>3, <3>4 DEF FileCalm, Between
    <3>7. ASSUME NEW v \in Client \ {from} PROVE FileCalm(u, v)'
      <4>1. FileCalm(u, v) /\ file'[u][v] = file[u][v]
        BY <2>2, <2>6
      <4> QED BY <1>5, <4>1 DEF FileCalm, Between
    <3> QED BY <2>3, <2>4, <3>5, <3>6, <3>7
  <2> QED BY <1>9, <2>5, <2>6
<1> QED BY <1>8, <1>10, <1>11, <1>12, <1>13, <1>14, <1>15, <1>16 DEF ChatInv

\* A session_init is answered with a new session only when there is none on disk,
\* and nothing was sealed for that user then.
LEMMA HandleSessionInitChat ==
    ASSUME ChatInv, NEW u \in Client, HandleSessionInit(u)
    PROVE  ChatInv'
<1>0. /\ TypesOK /\ TypeOK /\ HandshakesInv /\ SessionsInv /\ ControlInv /\ CalmInv /\ InitsInv
  BY DEF ChatInv, TypesOK
<1> PICK f : f = Head(inits[u])
  OBVIOUS
<1>1. /\ inits \in [Client -> Seq(InitFrame)] /\ inits[u] # << >> /\ engine[u] # None
      /\ generated[u] \in 0..MaxGenerated /\ generated[u] < MaxGenerated /\ MaxGenerated \in Nat
  <2>1. inits \in [Client -> Seq(InitFrame)]
    BY <1>0 DEF TypeOK, InitFrame
  <2>2. inits[u] # << >> /\ engine[u] # None /\ generated[u] < MaxGenerated
    BY DEF HandleSessionInit, Running
  <2>3. generated[u] \in 0..MaxGenerated /\ MaxGenerated \in Nat
    BY <1>0, ChatAssumption DEF TypeOK
  <2> QED BY <2>1, <2>2, <2>3
<1>2. f \in InitFrame /\ InitOk(f, u, handshakes)
  BY <1>0, <1>1, QueueTail DEF InitsInv
<1> PICK v \in Client : v = f.from
  BY <1>2 DEF InitFrame
<1> PICK eph \in KeyPair : eph = f.eph
  BY <1>2 DEF InitFrame
<1>3. PICK h \in handshakes : h.eph = eph /\ h.from = v /\ h.to = u
  BY <1>2 DEF InitOk
<1>4. u # v /\ u \in Parties(h) /\ FALSE = (u = h.from) /\ Parties(h) = {u, v}
  BY <1>0, <1>3 DEF HandshakesInv, Parties
<1> DEFINE n    == generated[u] + 1
           s    == NewSession(eph, FALSE, <<u, generated[u]>>)
           d    == Saved(s)
           fail == opk_used[u] \/ SaveRaises(s, u, v)
<1>5. /\ inits' = [inits EXCEPT ![u] = Tail(inits[u])]
      /\ opk_used' = [opk_used EXCEPT ![u] = TRUE]
      /\ \/ fail /\ UNCHANGED <<engine, peer, file, generated, raced>>
         \/ /\ ~ fail
            /\ engine' = [engine EXCEPT ![u] = d]
            /\ file' = [file EXCEPT ![u][v] = d]
            /\ peer' = [peer EXCEPT ![u] = v]
            /\ generated' = [generated EXCEPT ![u] = n]
            /\ raced' = (raced \/ sending[u] # None)
      /\ UNCHANGED <<sending, msgs, handshakes, sent, shown, starts, misfiled, crashes,
                     interrupts, raws>>
  <2>1. Fresh(u, 0) = <<u, generated[u]>>
    BY <1>1 DEF Fresh
  <2> HIDE DEF s, d
  <2> QED BY <2>1 DEF HandleSessionInit, SwitchedPeer, faults, s, d
<1>6. /\ s.version = 1
      /\ SessionOf(u, d, handshakes, n) /\ d.version = 2
      /\ d.state.root_key = <<{eph}>> /\ SessionInv(d.state, {}, {})
  <2> PICK k : k = generated[u]
    OBVIOUS
  <2> PICK m : m = n
    OBVIOUS
  <2>1. m \in Nat /\ k \in 0..(m - 1) /\ k <= MaxGenerated
    BY <1>1
  <2>2. LET x == NewSession(eph, FALSE, <<u, k>>)
        IN  /\ x.version = 1
            /\ SessionOf(u, Saved(x), handshakes, m)
            /\ Saved(x).version = 2
            /\ Saved(x).state.root_key = <<{eph}>>
            /\ SessionInv(Saved(x).state, {}, {})
    <3> HIDE DEF n
    <3> QED BY <1>3, <1>4, <2>1, NewSessionOf, ZenonT(40)
  <2> QED BY <2>2
<1>7. d \in Session /\ d # None
  BY <1>6, ChatAssumption DEF SessionOf
<1>8. ~ fail => file[u][v] = None
  <2> SUFFICES ASSUME ~ fail, file[u][v] # None PROVE FALSE
    OBVIOUS
  <2>1. file[u][v].version \in Nat /\ file[u][v].version >= 2
    BY <1>0 DEF SessionsInv, SessionOf, Session
  <2> HIDE DEF s
  <2> QED BY <1>6, <2>1 DEF SaveRaises
<1> HIDE DEF s, d, fail
<1>9. n \in 0..MaxGenerated /\ n \in Nat /\ generated[u] <= n
  BY <1>1
<1> HIDE DEF n
<1>10. /\ Tail(inits[u]) \in Seq(InitFrame)
       /\ \A j \in 1..Len(Tail(inits[u])) :
             j + 1 \in 1..Len(inits[u]) /\ Tail(inits[u])[j] = inits[u][j + 1]
  BY <1>1, QueueTail
<1>11. inits' \in [Client -> Seq(InitFrame)] /\ opk_used' \in [Client -> BOOLEAN]
  BY <1>0, <1>1, <1>5, <1>10 DEF TypesOK
<1>12. InitsInv'
  <2> SUFFICES ASSUME NEW w \in Client, NEW j \in 1..Len(inits'[w])
               PROVE  InitOk(inits'[w][j], w, handshakes)
    BY <1>5 DEF InitsInv
  <2>1. CASE w = u
    <3>1. inits'[w] = Tail(inits[u])
      BY <1>1, <1>5, <2>1
    <3> QED BY <1>0, <1>10, <2>1, <3>1 DEF InitsInv
  <2>2. CASE w # u
    BY <1>0, <1>1, <1>5, <2>2 DEF InitsInv
  <2> QED BY <2>1, <2>2
<1>13. handshakes \subseteq handshakes' /\ handshakes' = handshakes
  BY <1>5
<1>14. MsgsInv' /\ SentInv' /\ ShownIsAuthentic'
  BY <1>5, <1>13, PastKept
<1>15. CASE fail
  <2>1. UNCHANGED <<engine, peer, file, generated, raced>>
    BY <1>5, <1>15
  <2>2. TypesOK'
    BY <1>0, <1>5, <1>11, <2>1 DEF TypesOK, TypeOK, InitFrame
  <2>3. HandshakesInv' /\ SessionsInv' /\ ControlInv'
    BY <1>0, <1>5, <2>1 DEF HandshakesInv, SessionsInv, ControlInv
  <2>4. CalmInv'
    <3>1. /\ Calm' = Calm /\ SealedForRecipient' = SealedForRecipient /\ NoKeyReuse' = NoKeyReuse
          /\ \A w \in Client : /\ EngineCalm(w)' = EngineCalm(w)
                               /\ \A x \in Client : FileCalm(w, x)' = FileCalm(w, x)
      BY <1>5, <2>1 DEF Calm, SealedForRecipient, NoKeyReuse, EngineCalm, FileCalm, Between
    <3> QED BY <1>0, <3>1 DEF CalmInv
  <2> QED BY <1>12, <1>14, <2>2, <2>3, <2>4 DEF ChatInv
<1>16. CASE ~ fail
  <2>0. /\ engine' = [engine EXCEPT ![u] = d] /\ file' = [file EXCEPT ![u][v] = d]
        /\ peer' = [peer EXCEPT ![u] = v] /\ generated' = [generated EXCEPT ![u] = n]
        /\ raced' = (raced \/ sending[u] # None)
    BY <1>5, <1>16
  <2>1. TypesOK'
    <3>1. /\ engine' \in [Client -> Session \cup {None}]
          /\ peer' \in [Client -> Client \cup {None}]
          /\ generated' \in [Client -> 0..MaxGenerated]
      BY <1>0, <1>7, <1>9, <2>0 DEF TypeOK
    <3>2. file' \in [Client -> [Client -> Session \cup {None}]]
      BY <1>0, <1>7, <2>0 DEF TypesOK
    <3>3. raced' \in BOOLEAN
      BY <2>0
    <3> QED BY <1>0, <1>5, <1>11, <3>1, <3>2, <3>3 DEF TypesOK, TypeOK, InitFrame
  <2>2. /\ engine'[u] = d /\ generated'[u] = n /\ peer'[u] = v /\ file'[u][v] = d
        /\ \A x \in Client \ {v} : file'[u][x] = file[u][x]
        /\ \A w \in Client \ {u} : /\ engine'[w] = engine[w] /\ file'[w] = file[w]
                                   /\ generated'[w] = generated[w] /\ peer'[w] = peer[w]
    BY <1>0, <2>0 DEF TypesOK, TypeOK
  <2>3. \A w \in Client : /\ generated[w] \in Nat /\ generated'[w] \in Nat
                          /\ generated[w] <= generated'[w]
    <3> TAKE w \in Client
    <3>1. generated[w] \in Nat
      BY <1>0, <1>1 DEF TypeOK
    <3>2. CASE w = u
      BY <1>9, <2>2, <3>1, <3>2
    <3>3. CASE w # u
      BY <2>2, <3>1, <3>3
    <3> QED BY <3>2, <3>3
  <2>4. HandshakesInv'
    <3>1. \A x \in handshakes : x.eph \in FirstKeys(x.from, generated'[x.from])
      <4> TAKE x \in handshakes
      <4>1. x.from \in Client /\ x.eph \in FirstKeys(x.from, generated[x.from])
        BY <1>0 DEF TypesOK, Handshakes, HandshakesInv
      <4> QED BY <2>3, <4>1, Owners
    <3> QED BY <1>0, <1>13, <3>1 DEF HandshakesInv
  <2>5. SessionsInv'
    <3>1. SessionOf(u, engine'[u], handshakes', generated'[u])
      BY <1>6, <1>13, <2>2
    <3>2. \A x \in Client : \/ file'[u][x] = file[u][x]
                            \/ SessionOf(u, file'[u][x], handshakes', generated'[u])
      BY <1>6, <1>13, <2>2
    <3> QED BY <1>0, <1>13, <2>2, <2>3, <3>1, <3>2, SessionsKept
  <2>6. ControlInv'
    BY <1>0, <1>4, <1>5, <1>7, <2>2 DEF ControlInv
  <2>7. CalmInv'
    <3> SUFFICES ASSUME Calm'
                 PROVE  /\ \A w \in Client : EngineCalm(w)' /\ \A x \in Client : FileCalm(w, x)'
                        /\ SealedForRecipient' /\ NoKeyReuse'
      BY DEF CalmInv
    <3>1. Calm /\ sending[u] = None
      BY <1>5, <2>0 DEF Calm
    <3>2. /\ \A w \in Client : EngineCalm(w) /\ \A x \in Client : FileCalm(w, x)
          /\ NoKeyReuse
      BY <1>0, <3>1 DEF CalmInv
    <3>3. SealedForRecipient' /\ NoKeyReuse'
      BY <1>5, <1>13, <3>1, <3>2, PastKept
    <3>4. ASSUME NEW w \in Client \ {u} PROVE EngineCalm(w)' /\ \A x \in Client : FileCalm(w, x)'
      BY <1>5, <1>13, <2>2, <3>2, OtherCalm
    <3>5. SealedTo(sent, u, v) = {}
      BY <1>8, <1>16, <3>2 DEF FileCalm
    <3>6. \E x \in handshakes' : d.state.root_key[1] = {x.eph} /\ {x.from, x.to} = {u, v}
      <4>1. d.state.root_key[1] = {h.eph}
        BY <1>3, <1>6
      <4> QED BY <1>4, <1>13, <4>1 DEF Parties
    <3>7. EngineCalm(u)'
      BY <1>5, <1>6, <1>7, <2>2, <3>1, <3>5, <3>6 DEF EngineCalm, Between
    <3>8. FileCalm(u, v)'
      BY <1>5, <1>6, <1>7, <2>2, <3>1, <3>5, <3>6 DEF FileCalm, Between
    <3>9. ASSUME NEW x \in Client \ {v} PROVE FileCalm(u, x)'
      <4>1. FileCalm(u, x) /\ file'[u][x] = file[u][x]
        BY <2>2, <3>2
      <4> QED BY <1>5, <4>1 DEF FileCalm, Between
    <3> QED BY <3>3, <3>4, <3>7, <3>8, <3>9
  <2> QED BY <1>12, <1>14, <2>1, <2>4, <2>5, <2>6, <2>7 DEF ChatInv
<1> QED BY <1>15, <1>16

\* An end outside a pending send finds every message saved.
LEMMA StopChat ==
    ASSUME ChatInv, NEW u \in Client, Quit(u) \/ Interrupt(u) \/ Crash(u)
    PROVE  ChatInv'
<1>0. /\ TypesOK /\ TypeOK /\ HandshakesInv /\ SessionsInv /\ ControlInv /\ CalmInv /\ InitsInv
      /\ MsgsInv
  BY DEF ChatInv, TypesOK
<1>1. /\ engine' = [engine EXCEPT ![u] = None]
      /\ peer' = [peer EXCEPT ![u] = None]
      /\ sending' = [sending EXCEPT ![u] = None]
      /\ inits' = [inits EXCEPT ![u] = << >>]
      /\ msgs' = [msgs EXCEPT ![u] = << >>]
      /\ UNCHANGED <<file, opk_used, generated, handshakes, sent, shown, raced, misfiled, starts,
                     raws>>
  BY DEF Quit, Interrupt, Crash, Stop
<1>2. \/ sending[u] = None /\ crashes' = crashes /\ interrupts' = interrupts
      \/ crashes < MaxCrashes /\ crashes' = crashes + 1 /\ interrupts' = interrupts
      \/ interrupts < MaxInterrupts /\ interrupts' = interrupts + 1 /\ crashes' = crashes
  BY DEF Quit, Interrupt, Crash
<1>3. /\ crashes \in Nat /\ crashes' \in 0..MaxCrashes
      /\ interrupts \in Nat /\ interrupts' \in 0..MaxInterrupts
  <2>1. /\ crashes \in 0..MaxCrashes /\ MaxCrashes \in Nat
        /\ interrupts \in 0..MaxInterrupts /\ MaxInterrupts \in Nat
    BY <1>0, ChatAssumption DEF TypeOK
  <2> QED BY <1>2, <2>1
<1>4. inits \in [Client -> Seq(InitFrame)] /\ msgs \in [Client -> Seq(MsgFrame)]
  BY <1>0 DEF TypeOK, InitFrame, MsgFrame
<1>5. TypesOK'
  <2>1. /\ engine' \in [Client -> Session \cup {None}]
        /\ peer' \in [Client -> Client \cup {None}]
        /\ sending' \in [Client -> Client \cup {None}]
    BY <1>0, <1>1 DEF TypeOK
  <2>2. inits' \in [Client -> Seq(InitFrame)] /\ msgs' \in [Client -> Seq(MsgFrame)]
    BY <1>1, <1>4
  <2> QED BY <1>0, <1>1, <1>3, <2>1, <2>2 DEF TypesOK, TypeOK, InitFrame, MsgFrame
<1>6. /\ engine'[u] = None /\ sending'[u] = None /\ inits'[u] = << >> /\ msgs'[u] = << >>
      /\ \A w \in Client \ {u} : /\ engine'[w] = engine[w] /\ peer'[w] = peer[w]
                                 /\ sending'[w] = sending[w]
                                 /\ inits'[w] = inits[w] /\ msgs'[w] = msgs[w]
  BY <1>0, <1>1, <1>4 DEF TypeOK
<1>7. HandshakesInv' /\ handshakes \subseteq handshakes'
  BY <1>0, <1>1 DEF HandshakesInv
<1>8. SessionsInv'
  <2>1. \A w \in Client : generated'[w] \in Nat /\ generated[w] <= generated'[w]
    BY <1>0, <1>1 DEF TypeOK
  <2> QED BY <1>0, <1>1, <1>6, <1>7, <2>1, SessionsKept
<1>9. ControlInv'
  BY <1>0, <1>6 DEF ControlInv
<1>10. InitsInv' /\ MsgsInv'
  <2>1. ASSUME NEW w \in Client, NEW j \in 1..Len(inits'[w])
        PROVE  InitOk(inits'[w][j], w, handshakes)
    <3>1. w # u
      BY <1>6
    <3> QED BY <1>0, <1>6, <3>1 DEF InitsInv
  <2>2. ASSUME NEW w \in Client, NEW j \in 1..Len(msgs'[w])
        PROVE  MsgOk(msgs'[w][j], w, handshakes)
    <3>1. w # u
      BY <1>6
    <3> QED BY <1>0, <1>6, <3>1 DEF MsgsInv
  <2> QED BY <1>1, <2>1, <2>2 DEF InitsInv, MsgsInv
<1>11. SentInv' /\ ShownIsAuthentic'
  BY <1>1, <1>7, PastKept
<1>12. CalmInv'
  <2> SUFFICES ASSUME Calm'
               PROVE  /\ \A w \in Client : EngineCalm(w)' /\ \A v \in Client : FileCalm(w, v)'
                      /\ SealedForRecipient' /\ NoKeyReuse'
    BY DEF CalmInv
  <2>1. Calm /\ sending[u] = None
    BY <1>1, <1>2, <1>3 DEF Calm
  <2>2. /\ \A w \in Client : EngineCalm(w) /\ \A v \in Client : FileCalm(w, v)
        /\ NoKeyReuse
    BY <1>0, <2>1 DEF CalmInv
  <2>3. SealedForRecipient' /\ NoKeyReuse'
    BY <1>1, <1>7, <2>1, <2>2, PastKept
  <2>4. ASSUME NEW w \in Client \ {u} PROVE EngineCalm(w)' /\ \A v \in Client : FileCalm(w, v)'
    BY <1>1, <1>6, <1>7, <2>2, OtherCalm
  <2>5. EngineCalm(u)'
    BY <1>6 DEF EngineCalm
  <2>6. ASSUME NEW v \in Client PROVE FileCalm(u, v)'
    <3>1. FileCalm(u, v)
      BY <2>2
    <3> QED BY <1>1, <1>6, <2>1, <3>1 DEF FileCalm, Between
  <2> QED BY <2>3, <2>4, <2>5, <2>6
<1> QED BY <1>5, <1>7, <1>8, <1>9, <1>10, <1>11, <1>12 DEF ChatInv

-----------------------------------------------------------------------------
(* The theorems. *)

\* At first nobody has a session and nothing was sent.
LEMMA InitChat == Init => ChatInv
<1> SUFFICES ASSUME Init PROVE ChatInv
  OBVIOUS
<1> USE DEF Init
<1>1. TypesOK
  <2>1. /\ engine \in [Client -> Session \cup {None}]
        /\ peer \in [Client -> Client \cup {None}]
        /\ sending \in [Client -> Client \cup {None}]
        /\ file \in [Client -> [Client -> Session \cup {None}]]
        /\ opk_used \in [Client -> BOOLEAN] /\ raced \in BOOLEAN /\ misfiled \in BOOLEAN
    OBVIOUS
  <2>2. /\ generated \in [Client -> 0..MaxGenerated]
        /\ starts \in 0..MaxStarts /\ crashes \in 0..MaxCrashes
        /\ interrupts \in 0..MaxInterrupts /\ raws \in 0..MaxRaw
    BY ChatAssumption
  <2>3. /\ inits \in [Client -> Seq([from : Client, eph : KeyPair])]
        /\ msgs \in [Client -> Seq([from : Client, wire : WireMessage \cup {None}])]
        /\ shown \in [Client -> Seq(ShownMessage)]
        /\ sent \in Seq(SentMessage) /\ handshakes \subseteq Handshakes
    OBVIOUS
  <2> QED BY <2>1, <2>2, <2>3 DEF TypesOK, TypeOK
<1>2. HandshakesInv /\ SessionsInv /\ ControlInv
  BY DEF HandshakesInv, SessionsInv, ControlInv
<1>3. InitsInv /\ MsgsInv /\ SentInv /\ ShownIsAuthentic
  BY DEF InitsInv, MsgsInv, SentInv, ShownIsAuthentic
<1>4. CalmInv
  <2>1. \A u, v \in Client : SealedTo(sent, u, v) = {}
    BY DEF SealedTo
  <2>2. \A u \in Client : EngineCalm(u) /\ \A v \in Client : FileCalm(u, v)
    BY <2>1 DEF EngineCalm, FileCalm
  <2>3. SealedForRecipient /\ NoKeyReuse
    BY DEF SealedForRecipient, NoKeyReuse
  <2> QED BY <2>2, <2>3 DEF CalmInv
<1> QED BY <1>1, <1>2, <1>3, <1>4 DEF ChatInv

LEMMA StutterChat ==
    ASSUME ChatInv, UNCHANGED vars
    PROVE  ChatInv'
<1> USE DEF vars
<1>1. TypesOK'
  BY DEF ChatInv, TypesOK, TypeOK
<1>2. HandshakesInv' /\ SessionsInv' /\ ControlInv'
  BY DEF ChatInv, HandshakesInv, SessionsInv, ControlInv
<1>3. InitsInv' /\ MsgsInv' /\ SentInv' /\ ShownIsAuthentic'
  BY PastKept
<1>4. CalmInv'
  <2>1. /\ Calm' = Calm /\ SealedForRecipient' = SealedForRecipient /\ NoKeyReuse' = NoKeyReuse
        /\ \A w \in Client : /\ EngineCalm(w)' = EngineCalm(w)
                             /\ \A x \in Client : FileCalm(w, x)' = FileCalm(w, x)
    BY DEF Calm, SealedForRecipient, NoKeyReuse, EngineCalm, FileCalm, Between
  <2> QED BY <2>1 DEF ChatInv, CalmInv
<1> QED BY <1>1, <1>2, <1>3, <1>4 DEF ChatInv

\* The invariant holds in every behaviour of the clients.
LEMMA SpecChat == Spec => []ChatInv
<1>1. ChatInv /\ [Next]_vars => ChatInv'
  <2> SUFFICES ASSUME ChatInv, [Next]_vars PROVE ChatInv'
    OBVIOUS
  <2>1. CASE UNCHANGED vars
    BY <2>1, StutterChat
  <2>2. CASE Next
    <3> PICK u \in Client : \/ \E v \in Client : Start(u, v) \/ PostRaw(u, v)
                            \/ Send(u) \/ SaveAfterSend(u)
                            \/ Receive(u) \/ ReceiveRaw(u) \/ HandleSessionInit(u)
                            \/ Quit(u) \/ Interrupt(u) \/ Crash(u)
      BY <2>2 DEF Next
    <3>1. CASE \E v \in Client : Start(u, v)
      BY <3>1, StartChat
    <3>2. CASE Send(u)
      BY <3>2, SendChat
    <3>3. CASE SaveAfterSend(u)
      BY <3>3, SaveAfterSendChat
    <3>4. CASE Receive(u)
      BY <3>4, ReceiveChat
    <3>5. CASE HandleSessionInit(u)
      BY <3>5, HandleSessionInitChat
    <3>6. CASE Quit(u) \/ Interrupt(u) \/ Crash(u)
      BY <3>6, StopChat
    <3>7. CASE \E v \in Client : PostRaw(u, v)
      BY <3>7, PostRawChat
    <3>8. CASE ReceiveRaw(u)
      BY <3>8, ReceiveRawChat
    <3> QED BY <3>1, <3>2, <3>3, <3>4, <3>5, <3>6, <3>7, <3>8
  <2> QED BY <2>1, <2>2
<1> QED BY <1>1, InitChat, PTL DEF Spec

\* Engines, files, queues and counters hold what the code can store in them, for
\* any number of clients.
THEOREM ChatTypeCorrect == Spec => []TypeOK
<1>1. ChatInv => TypeOK
  BY DEF ChatInv, TypesOK
<1> QED BY <1>1, SpecChat, PTL

\* recv_loop opens a message with whichever engine is in place; what the ratchet has
\* opened and recv_loop prints under a user's name was sealed in a session with that
\* user, after races, crashes and misfiled sessions as well.  It says nothing of a
\* payload in the clear, which recv_loop prints like any other.
THEOREM DecryptedIsAuthentic == Spec => []ShownIsAuthentic
<1>1. ChatInv => ShownIsAuthentic
  BY DEF ChatInv
<1> QED BY <1>1, SpecChat, PTL

\* sender_loop takes the peer and the engine in one step, so a message goes to
\* the user whose session has sealed it.
THEOREM SentToSealedPeer == Spec => []SealedForRecipient
<1>1. ChatInv => SealedForRecipient
  BY DEF ChatInv, CalmInv, SealedForRecipient
<1> QED BY <1>1, SpecChat, PTL

\* As long as no client has crashed or ended inside a pending send, no engine was
\* switched under a suspended sender_loop and none was saved for another user, the
\* file named after a user holds a session with that user.
THEOREM FilesHoldPeerSessions == Spec => []FileHoldsPeerSessionCalm
<1>1. ChatInv => FileHoldsPeerSessionCalm
  BY DEF ChatInv, CalmInv, FileCalm, FileHoldsPeerSessionCalm, FileHoldsPeerSession
<1> QED BY <1>1, SpecChat, PTL

\* As long as no client has crashed or ended inside a pending send, no engine was
\* switched under a suspended sender_loop and none was saved for another user, no
\* message key seals two messages, of the same or of different
\* clients, over any number of sessions and restarts.
THEOREM CalmKeysNeverReused == Spec => []NoKeyReuseCalm
<1>1. ChatInv => NoKeyReuseCalm
  BY DEF ChatInv, CalmInv, NoKeyReuseCalm
<1> QED BY <1>1, SpecChat, PTL
=============================================================================
