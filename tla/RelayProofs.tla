----------------------------- MODULE RelayProofs -----------------------------
(***************************************************************************)
(* Safety of the relay and of the clients that start over it, for any      *)
(* number of connections, frames and lost connections.                     *)
(*                                                                         *)
(* A register frame is the first and only one of a socket that is not yet  *)
(* entered, so the last register frame handled is that of the live client, *)
(* unless the user has two of them at once.  The frames of one connection  *)
(* are numbered: what the relay has passed on is older than what it has    *)
(* not read, which gives the order of the messages and makes every         *)
(* session_init a new one when it is taken.                                *)
(***************************************************************************)
EXTENDS Relay, FiniteSetTheorems, SequenceTheorems, TLAPS

Phases == {"unused", "registering", "uploading", "fetching_bundle", "fetching_key",
           "running", "failed", "abandoned", "closed"}
Types == {"register", "upload_bundle", "get_bundle", "get_peer", "session_init", "msg",
          "unknown", "registered", "bundle_uploaded", "peer_bundle", "peer_key", "error"}

\* The phases before a client has sent a numbered frame.
StartUp == {"unused", "registering", "uploading", "fetching_bundle"}

IsMsg(f) == f.type = "msg"
IsInit(f) == f.type = "session_init"
Numbered(f) == IsMsg(f) \/ IsInit(f)

\* Where a socket is between connect and register.
SocketOk(s) ==
    /\ phase[s] = "unused" => /\ owner[s] = None /\ username[s] = None
                              /\ handler[s] = "none" /\ up[s] = << >> /\ down[s] = << >>
    /\ phase[s] # "unused" => owner[s] \in User /\ handler[s] # "none"
    /\ username[s] \in {None, owner[s]}
    /\ username[s] = None =>
         /\ phase[s] \in {"unused", "registering", "abandoned"}
         /\ handler[s] \in {"none", "reading"} /\ down[s] = << >>
         /\ phase[s] # "unused" => up[s] = <<Frame("register", owner[s], <<s, 0>>)>>
    /\ handler[s] = "flushing" => flushing[s] # << >>

SocketInv == \A s \in Socket : SocketOk(s)

\* The frames a client has sent and the relay has not read.
UpOk(f, s, name, ph, n) ==
    /\ f.user \in User
    /\ name # None => f.type # "register"
    /\ Numbered(f) => f.ref[1] = s /\ f.ref[2] <= n /\ ph \notin StartUp

UpInv ==
    \A s \in Socket :
        /\ \A j \in 1..Len(up[s]) : UpOk(up[s][j], s, username[s], phase[s], frames)
        /\ \A j, k \in 1..Len(up[s]) :
              j < k /\ Numbered(up[s][j]) /\ Numbered(up[s][k])
                  => up[s][j].ref[2] < up[s][k].ref[2]

\* A user's entry is a socket over which the user has registered; it is the live
\* one, unless the user had two live ones at once or a connection was given up
\* while it was registering.
EntryInv ==
    /\ \A u \in User : connections[u] # None => username[connections[u]] = u
    /\ \A s, t \in Socket :
          s \notin doubled /\ Live(s) /\ Live(t) /\ owner[s] = owner[t] => s = t
    /\ \A s \in Socket :
          /\ s \notin doubled /\ Live(s) /\ username[s] # None
          /\ \A t \in Socket : owner[t] = owner[s] => phase[t] # "abandoned"
          => connections[owner[s]] = s

\* A frame that has passed the relay is older than the unread ones of its socket.
PassedOk(f, ph, n, q) ==
    /\ f.ref[1] \in Socket /\ f.ref[2] <= n /\ ph[f.ref[1]] \notin StartUp
    /\ \A j \in 1..Len(q[f.ref[1]]) :
          Numbered(q[f.ref[1]][j]) => f.ref[2] < q[f.ref[1]][j].ref[2]

PassedInv ==
    /\ \A s \in Socket : \A j \in 1..Len(down[s]) :
          IsMsg(down[s][j]) => PassedOk(down[s][j], phase, frames, up)
    /\ \A s \in Socket : \A j \in 1..Len(received[s]) :
          IsMsg(received[s][j]) => PassedOk(received[s][j], phase, frames, up)
    /\ \A f \in accepted : IsInit(f) /\ PassedOk(f, phase, frames, up)

\* The messages of one connection in q are in order, and before those in r.
Increasing(q) ==
    \A j, k \in 1..Len(q) :
        j < k /\ IsMsg(q[j]) /\ IsMsg(q[k]) /\ q[j].ref[1] = q[k].ref[1]
            => q[j].ref[2] < q[k].ref[2]

Before(q, r) ==
    \A j \in 1..Len(q), k \in 1..Len(r) :
        IsMsg(q[j]) /\ IsMsg(r[k]) /\ q[j].ref[1] = r[k].ref[1] => q[j].ref[2] < r[k].ref[2]

OrderInv ==
    \A s \in Socket : Increasing(down[s]) /\ Increasing(received[s]) /\ Before(received[s], down[s])

\* The queues a session_init can be in once the relay has taken it.
Place == ({"pending"} \X User) \cup ({"flushing", "down", "received"} \X Socket)
Queues ==
    [p \in Place |-> CASE p[1] = "pending"  -> pending_inits[p[2]]
                       [] p[1] = "flushing" -> flushing[p[2]]
                       [] p[1] = "down"     -> down[p[2]]
                       [] OTHER             -> received[p[2]]]

\* No session_init is in two places of the queues Q.
OneCopy(Q) ==
    \A p, q \in Place : \A j \in 1..Len(Q[p]), k \in 1..Len(Q[q]) :
        IsInit(Q[p][j]) /\ Q[p][j] = Q[q][k] => p = q /\ j = k

\* The session_inits in the queues Q are among those taken.
AllTaken(Q, taken) ==
    \A p \in Place : \A j \in 1..Len(Q[p]) : IsInit(Q[p][j]) => Q[p][j] \in taken

OnlyInits(q) == \A j \in 1..Len(q) : IsInit(q[j])

CopiesInv ==
    /\ OneCopy(Queues) /\ AllTaken(Queues, accepted)
    /\ \A u \in User : OnlyInits(pending_inits[u])
    /\ \A s \in Socket : OnlyInits(flushing[s])

RelayInv ==
    /\ TypeOK /\ SocketInv /\ UpInv /\ EntryInv /\ PassedInv /\ OrderInv /\ CopiesInv

-----------------------------------------------------------------------------
(* Queues of frames. *)

\* What is left of a queue when its first frame is taken.
LEMMA QueueTail ==
    ASSUME NEW S, NEW q \in Seq(S), q # << >>
    PROVE  /\ Tail(q) \in Seq(S) /\ 1 \in 1..Len(q) /\ Head(q) = q[1] /\ Head(q) \in S
           /\ \A j \in 1..Len(Tail(q)) : /\ j + 1 \in 1..Len(q) /\ Tail(q)[j] = q[j + 1]
                                         /\ j \in Nat /\ 1 < j + 1
<1>1. /\ Len(q) \in Nat /\ Len(q) # 0 /\ Tail(q) \in Seq(S) /\ Len(Tail(q)) = Len(q) - 1
      /\ \A j \in 1..Len(Tail(q)) : Tail(q)[j] = q[j + 1]
  OBVIOUS
<1>2. 1 \in 1..Len(q) /\ Head(q) = q[1]
  BY <1>1
<1>3. Head(q) \in S
  BY <1>2, ElementOfSeq
<1>4. \A j \in 1..Len(Tail(q)) : j + 1 \in 1..Len(q) /\ j \in Nat /\ 1 < j + 1
  BY <1>1
<1> QED BY <1>1, <1>2, <1>3, <1>4

\* A queue with one more frame.
LEMMA QueueAppend ==
    ASSUME NEW S, NEW q \in Seq(S), NEW x \in S
    PROVE  /\ Append(q, x) \in Seq(S)
           /\ Len(Append(q, x)) = Len(q) + 1 /\ Len(q) \in Nat
           /\ \A j \in 1..Len(Append(q, x)) :
                 \/ j = Len(q) + 1 /\ Append(q, x)[j] = x
                 \/ j \in 1..Len(q) /\ Append(q, x)[j] = q[j]
<1>1. /\ Append(q, x) \in Seq(S) /\ Len(Append(q, x)) = Len(q) + 1 /\ Len(q) \in Nat
      /\ \A j \in 1..Len(q) : Append(q, x)[j] = q[j]
      /\ Append(q, x)[Len(q) + 1] = x
  BY AppendProperties, LenProperties
<1> QED BY <1>1

\* Taking the first message keeps the order.
LEMMA OrderTail ==
    ASSUME NEW S, NEW q \in Seq(S), q # << >>, NEW r
    PROVE  /\ Increasing(q) => Increasing(Tail(q))
           /\ Before(r, q) => Before(r, Tail(q))
<1>1. \A j \in 1..Len(Tail(q)) : j + 1 \in 1..Len(q) /\ Tail(q)[j] = q[j + 1] /\ j \in Nat
  BY QueueTail
<1>2. ASSUME Increasing(q), NEW j \in 1..Len(Tail(q)), NEW k \in 1..Len(Tail(q)), j < k,
             IsMsg(Tail(q)[j]), IsMsg(Tail(q)[k]), Tail(q)[j].ref[1] = Tail(q)[k].ref[1]
      PROVE  Tail(q)[j].ref[2] < Tail(q)[k].ref[2]
  <2>1. j + 1 < k + 1
    BY <1>1, <1>2
  <2> QED BY <1>1, <1>2, <2>1 DEF Increasing
<1> QED BY <1>1, <1>2 DEF Increasing, Before

\* So does a message that is newer than those of its connection.
LEMMA OrderAppend ==
    ASSUME NEW S, NEW q \in Seq(S), NEW f \in S, NEW r,
           \A j \in 1..Len(q) : IsMsg(f) /\ IsMsg(q[j]) /\ q[j].ref[1] = f.ref[1]
                                   => q[j].ref[2] < f.ref[2],
           \A j \in 1..Len(r) : IsMsg(f) /\ IsMsg(r[j]) /\ r[j].ref[1] = f.ref[1]
                                   => r[j].ref[2] < f.ref[2]
    PROVE  /\ Increasing(q) => Increasing(Append(q, f))
           /\ Before(r, q) => Before(r, Append(q, f))
<1> DEFINE a == Append(q, f)
<1>1. /\ Len(q) \in Nat
      /\ \A j \in 1..Len(a) : \/ j = Len(q) + 1 /\ a[j] = f
                              \/ j \in 1..Len(q) /\ a[j] = q[j]
  BY QueueAppend
<1> HIDE DEF a
<1>2. ASSUME Increasing(q), NEW j \in 1..Len(a), NEW k \in 1..Len(a), j < k,
             IsMsg(a[j]), IsMsg(a[k]), a[j].ref[1] = a[k].ref[1]
      PROVE  a[j].ref[2] < a[k].ref[2]
  <2>1. j \in 1..Len(q) /\ a[j] = q[j]
    <3>1. j # Len(q) + 1
      BY <1>1, <1>2
    <3> QED BY <1>1, <3>1
  <2>2. CASE k \in 1..Len(q) /\ a[k] = q[k]
    BY <1>2, <2>1, <2>2 DEF Increasing
  <2>3. CASE a[k] = f
    BY <1>2, <2>1, <2>3
  <2> QED BY <1>1, <2>2, <2>3
<1>3. Before(r, q) => Before(r, a)
  BY <1>1 DEF Before
<1> QED BY <1>2, <1>3 DEF Increasing, a

\* ... and moving the first of the later queue to the end of the earlier one.
LEMMA OrderMove ==
    ASSUME NEW S, NEW q \in Seq(S), NEW r \in Seq(S), q # << >>,
           Increasing(q), Increasing(r), Before(r, q)
    PROVE  /\ Increasing(Append(r, Head(q))) /\ Before(Append(r, Head(q)), Tail(q))
           /\ Before(r, Tail(q)) /\ Increasing(Tail(q))
<1> DEFINE f == Head(q)
           a == Append(r, f)
<1>1. /\ f \in S /\ f = q[1] /\ 1 \in 1..Len(q)
      /\ \A j \in 1..Len(Tail(q)) : /\ j + 1 \in 1..Len(q) /\ Tail(q)[j] = q[j + 1]
                                    /\ j \in Nat /\ 1 < j + 1
  BY QueueTail
<1>2. Increasing(Tail(q)) /\ Before(r, Tail(q))
  BY OrderTail
<1> HIDE DEF f
<1>3. Increasing(a)
  <2>1. \A j \in 1..Len(r) : IsMsg(f) /\ IsMsg(r[j]) /\ r[j].ref[1] = f.ref[1]
                                => r[j].ref[2] < f.ref[2]
    BY <1>1 DEF Before
  <2> QED BY <1>1, <2>1, OrderAppend
<1>4. \A j \in 1..Len(a) : a[j] = f \/ (j \in 1..Len(r) /\ a[j] = r[j])
  BY <1>1, QueueAppend
<1> HIDE DEF a
<1>5. ASSUME NEW j \in 1..Len(a), NEW k \in 1..Len(Tail(q)),
             IsMsg(a[j]), IsMsg(Tail(q)[k]), a[j].ref[1] = Tail(q)[k].ref[1]
      PROVE  a[j].ref[2] < Tail(q)[k].ref[2]
  <2>1. CASE a[j] = f
    BY <1>1, <1>5, <2>1 DEF Increasing
  <2>2. CASE j \in 1..Len(r) /\ a[j] = r[j]
    BY <1>2, <1>5, <2>2 DEF Before
  <2> QED BY <1>4, <2>1, <2>2
<1> QED BY <1>2, <1>3, <1>5 DEF Before, a, f

-----------------------------------------------------------------------------
(* Copies of a session_init. *)

\* The queues one by one.
LEMMA QueueAt ==
    /\ \A u \in User : <<"pending", u>> \in Place /\ Queues[<<"pending", u>>] = pending_inits[u]
    /\ \A s \in Socket :
          /\ <<"flushing", s>> \in Place /\ Queues[<<"flushing", s>>] = flushing[s]
          /\ <<"down", s>> \in Place /\ Queues[<<"down", s>>] = down[s]
          /\ <<"received", s>> \in Place /\ Queues[<<"received", s>>] = received[s]
    /\ \A p \in Place :
          \/ \E u \in User : p = <<"pending", u>>
          \/ \E s \in Socket : \E kind \in {"flushing", "down", "received"} : p = <<kind, s>>
BY DEF Place, Queues

\* One session_init in two places: they are the same place.
LEMMA SameSpot ==
    ASSUME NEW Q, OneCopy(Q), NEW p \in Place, NEW q \in Place,
           NEW j \in 1..Len(Q[p]), NEW k \in 1..Len(Q[q]), IsInit(Q[p][j]), Q[p][j] = Q[q][k]
    PROVE  p = q /\ j = k
BY DEF OneCopy

\* Frames are lost: what is left was there before.
LEMMA CopyLess ==
    ASSUME NEW Q, NEW R, NEW taken, OneCopy(Q), AllTaken(Q, taken), NEW at \in Place,
           Q[at] \in Seq(Frames), R[at] = << >> \/ (Q[at] # << >> /\ R[at] = Tail(Q[at])),
           \A p \in Place \ {at} : R[p] = Q[p]
    PROVE  OneCopy(R) /\ AllTaken(R, taken)
<1>1. ASSUME NEW p \in Place, NEW j \in 1..Len(R[p])
      PROVE  \E i \in {0, 1} : /\ j + i \in 1..Len(Q[p]) /\ R[p][j] = Q[p][j + i] /\ j \in Nat
                               /\ i = 1 <=> p = at
  <2>1. CASE p # at
    BY <2>1
  <2>2. CASE p = at
    <3>1. R[at] = Tail(Q[at]) /\ Q[at] # << >>
      BY <1>1, <2>2
    <3>2. j + 1 \in 1..Len(Q[at]) /\ Tail(Q[at])[j] = Q[at][j + 1] /\ j \in Nat
      BY <2>2, <3>1, QueueTail
    <3> QED BY <2>2, <3>1, <3>2
  <2> QED BY <2>1, <2>2
<1>2. ASSUME NEW p \in Place, NEW q \in Place, NEW j \in 1..Len(R[p]), NEW k \in 1..Len(R[q]),
             IsInit(R[p][j]), R[p][j] = R[q][k]
      PROVE  p = q /\ j = k
  <2>1. PICK i \in {0, 1} : /\ j + i \in 1..Len(Q[p]) /\ R[p][j] = Q[p][j + i] /\ j \in Nat
                            /\ i = 1 <=> p = at
    BY <1>1
  <2>2. PICK l \in {0, 1} : /\ k + l \in 1..Len(Q[q]) /\ R[q][k] = Q[q][k + l] /\ k \in Nat
                            /\ l = 1 <=> q = at
    BY <1>1
  <2>0. IsInit(Q[p][j + i]) /\ Q[p][j + i] = Q[q][k + l]
    BY <1>2, <2>1, <2>2
  <2>3. p = q /\ j + i = k + l
    BY <2>0, <2>1, <2>2, SameSpot
  <2>4. i = l
    BY <2>1, <2>2, <2>3
  <2> QED BY <2>1, <2>2, <2>3, <2>4
<1>3. AllTaken(R, taken)
  BY <1>1 DEF AllTaken
<1> QED BY <1>2, <1>3 DEF OneCopy

\* A frame is added that is no session_init, or one that was not taken before.
LEMMA CopyMore ==
    ASSUME NEW Q, NEW R, NEW taken, OneCopy(Q), AllTaken(Q, taken), NEW at \in Place,
           Q[at] \in Seq(Frames), NEW f \in Frames, R[at] = Append(Q[at], f),
           \A p \in Place \ {at} : R[p] = Q[p],
           IsInit(f) => f \notin taken
    PROVE  OneCopy(R) /\ AllTaken(R, taken \cup {f})
<1>1. ASSUME NEW p \in Place, NEW j \in 1..Len(R[p])
      PROVE  \/ p = at /\ j = Len(Q[at]) + 1 /\ R[p][j] = f
             \/ j \in 1..Len(Q[p]) /\ R[p][j] = Q[p][j]
  <2>1. CASE p # at
    BY <2>1
  <2>2. CASE p = at
    BY <2>2, QueueAppend
  <2> QED BY <2>1, <2>2
<1>2. ASSUME NEW p \in Place, NEW j \in 1..Len(Q[p]), IsInit(f) PROVE Q[p][j] # f
  BY <1>2 DEF AllTaken
<1>3. ASSUME NEW p \in Place, NEW q \in Place, NEW j \in 1..Len(R[p]), NEW k \in 1..Len(R[q]),
             IsInit(R[p][j]), R[p][j] = R[q][k]
      PROVE  p = q /\ j = k
  <2>1. CASE R[p][j] = f
    <3>1. p = at /\ j = Len(Q[at]) + 1 /\ q = at /\ k = Len(Q[at]) + 1
      BY <1>1, <1>2, <1>3, <2>1, ZenonT(40)
    <3> QED BY <3>1
  <2>2. CASE R[p][j] # f
    <3>1. /\ j \in 1..Len(Q[p]) /\ R[p][j] = Q[p][j]
          /\ k \in 1..Len(Q[q]) /\ R[q][k] = Q[q][k]
      BY <1>1, <1>3, <2>2
    <3>2. IsInit(Q[p][j]) /\ Q[p][j] = Q[q][k]
      BY <1>3, <3>1
    <3> QED BY <3>1, <3>2, SameSpot
  <2> QED BY <2>1, <2>2
<1>4. AllTaken(R, taken \cup {f})
  BY <1>1 DEF AllTaken
<1> QED BY <1>3, <1>4 DEF OneCopy

\* A whole queue moves to another place.
LEMMA CopyShift ==
    ASSUME NEW Q, NEW R, NEW taken, OneCopy(Q), AllTaken(Q, taken), NEW from \in Place,
           NEW to \in Place, from # to, R[from] = << >>, R[to] = Q[from],
           \A p \in Place \ {from, to} : R[p] = Q[p]
    PROVE  OneCopy(R) /\ AllTaken(R, taken)
<1>1. ASSUME NEW p \in Place, NEW j \in 1..Len(R[p])
      PROVE  \E o \in Place : /\ j \in 1..Len(Q[o]) /\ R[p][j] = Q[o][j]
                              /\ p # from /\ o = (IF p = to THEN from ELSE p)
  <2>1. CASE p = from
    BY <2>1
  <2>2. CASE p = to
    BY <2>2
  <2>3. CASE p # from /\ p # to
    BY <2>3
  <2> QED BY <2>1, <2>2, <2>3
<1>2. ASSUME NEW p \in Place, NEW q \in Place, NEW j \in 1..Len(R[p]), NEW k \in 1..Len(R[q]),
             IsInit(R[p][j]), R[p][j] = R[q][k]
      PROVE  p = q /\ j = k
  <2>1. PICK o \in Place : /\ j \in 1..Len(Q[o]) /\ R[p][j] = Q[o][j]
                           /\ p # from /\ o = (IF p = to THEN from ELSE p)
    BY <1>1
  <2>2. PICK x \in Place : /\ k \in 1..Len(Q[x]) /\ R[q][k] = Q[x][k]
                           /\ q # from /\ x = (IF q = to THEN from ELSE q)
    BY <1>1
  <2>0. IsInit(Q[o][j]) /\ Q[o][j] = Q[x][k]
    BY <1>2, <2>1, <2>2
  <2>3. o = x /\ j = k
    BY <2>0, <2>1, <2>2, SameSpot
  <2> QED BY <2>1, <2>2, <2>3
<1>3. AllTaken(R, taken)
  BY <1>1 DEF AllTaken
<1> QED BY <1>2, <1>3, SMTT(30) DEF OneCopy

\* The first frame of a queue moves to the end of another.
LEMMA CopyMove ==
    ASSUME NEW Q, NEW R, NEW taken, OneCopy(Q), AllTaken(Q, taken), NEW from \in Place,
           NEW to \in Place, from # to, Q[from] \in Seq(Frames), Q[from] # << >>,
           Q[to] \in Seq(Frames), R[from] = Tail(Q[from]), R[to] = Append(Q[to], Head(Q[from])),
           \A p \in Place \ {from, to} : R[p] = Q[p]
    PROVE  OneCopy(R) /\ AllTaken(R, taken)
<1> DEFINE f == Head(Q[from])
<1>1. /\ f \in Frames /\ f = Q[from][1] /\ 1 \in 1..Len(Q[from])
      /\ \A j \in 1..Len(Tail(Q[from])) : /\ j + 1 \in 1..Len(Q[from])
                                          /\ Tail(Q[from])[j] = Q[from][j + 1]
                                          /\ j \in Nat /\ 1 < j + 1
  BY QueueTail
<1> HIDE DEF f
<1>2. ASSUME NEW p \in Place, NEW j \in 1..Len(R[p])
      PROVE  \E o \in Place, i \in Nat :
                /\ i \in 1..Len(Q[o]) /\ R[p][j] = Q[o][i]
                /\ \/ p = from /\ o = from /\ i = j + 1 /\ j \in Nat /\ i # 1
                   \/ p = to /\ o = from /\ i = 1 /\ j = Len(Q[to]) + 1
                   \/ p # from /\ o = p /\ i = j
  <2>1. CASE p = from
    <3>0. j \in 1..Len(Tail(Q[from])) /\ R[p] = Tail(Q[from])
      BY <2>1
    <3>1. j + 1 \in 1..Len(Q[from]) /\ R[p][j] = Q[from][j + 1] /\ j \in Nat /\ j + 1 # 1
      BY <1>1, <3>0
    <3> QED BY <2>1, <3>1
  <2>2. CASE p = to
    <3>1. \/ j = Len(Q[to]) + 1 /\ R[p][j] = f
          \/ j \in 1..Len(Q[to]) /\ R[p][j] = Q[to][j]
      BY <1>1, <2>2, QueueAppend DEF f
    <3>2. CASE j = Len(Q[to]) + 1 /\ R[p][j] = f
      BY <1>1, <2>2, <3>2
    <3>3. CASE j \in 1..Len(Q[to]) /\ R[p][j] = Q[to][j]
      BY <2>2, <3>3
    <3> QED BY <3>1, <3>2, <3>3
  <2>3. CASE p # from /\ p # to
    BY <2>3
  <2> QED BY <2>1, <2>2, <2>3
<1>3. ASSUME NEW p \in Place, NEW q \in Place, NEW j \in 1..Len(R[p]), NEW k \in 1..Len(R[q]),
             IsInit(R[p][j]), R[p][j] = R[q][k]
      PROVE  p = q /\ j = k
  <2>1. PICK o \in Place, i \in Nat :
                /\ i \in 1..Len(Q[o]) /\ R[p][j] = Q[o][i]
                /\ \/ p = from /\ o = from /\ i = j + 1 /\ j \in Nat /\ i # 1
                   \/ p = to /\ o = from /\ i = 1 /\ j = Len(Q[to]) + 1
                   \/ p # from /\ o = p /\ i = j
    BY <1>2
  <2>2. PICK x \in Place, l \in Nat :
                /\ l \in 1..Len(Q[x]) /\ R[q][k] = Q[x][l]
                /\ \/ q = from /\ x = from /\ l = k + 1 /\ k \in Nat /\ l # 1
                   \/ q = to /\ x = from /\ l = 1 /\ k = Len(Q[to]) + 1
                   \/ q # from /\ x = q /\ l = k
    BY <1>2
  <2>0. IsInit(Q[o][i]) /\ Q[o][i] = Q[x][l]
    BY <1>3, <2>1, <2>2
  <2>3. o = x /\ i = l
    BY <2>0, <2>1, <2>2, SameSpot
  <2>4. CASE o = from /\ i = 1
    BY <2>1, <2>2, <2>3, <2>4
  <2>5. CASE o = from /\ i # 1
    <3>1. p = from /\ q = from /\ j + 1 = k + 1 /\ j \in Nat /\ k \in Nat
      BY <2>1, <2>2, <2>3, <2>5
    <3> QED BY <3>1
  <2>6. CASE o # from
    BY <2>1, <2>2, <2>3, <2>6
  <2> QED BY <2>4, <2>5, <2>6
<1>4. AllTaken(R, taken)
  <2>1. ASSUME NEW p \in Place, NEW j \in 1..Len(R[p]), IsInit(R[p][j])
        PROVE  R[p][j] \in taken
    <3>1. \E o \in Place : \E i \in 1..Len(Q[o]) : R[p][j] = Q[o][i]
      BY <1>2
    <3> QED BY <2>1, <3>1 DEF AllTaken
  <2> QED BY <2>1 DEF AllTaken
<1> QED BY <1>3, <1>4 DEF OneCopy

-----------------------------------------------------------------------------
(* Steps that only send or only lose frames. *)

\* Nothing unread becomes older than a frame that has passed.
LEMMA PassedKept ==
    ASSUME TypeOK, frames' \in Nat, up' \in [Socket -> Seq(Frames)], frames <= frames',
           \A t \in Socket : phase'[t] \in StartUp => phase[t] \in StartUp,
           \A t \in Socket : \A j \in 1..Len(up'[t]) :
              Numbered(up'[t][j]) =>
                 \/ \E k \in 1..Len(up[t]) : up[t][k] = up'[t][j]
                 \/ phase[t] \in StartUp
                 \/ frames < up'[t][j].ref[2],
           NEW f \in Frames, PassedOk(f, phase, frames, up)
    PROVE  PassedOk(f, phase', frames', up')
<1> DEFINE c == f.ref[1]
           n == f.ref[2]
<1>1. /\ n \in Nat /\ frames \in Nat /\ frames' \in Nat
      /\ c \in Socket /\ n <= frames /\ phase[c] \notin StartUp
      /\ \A j \in 1..Len(up[c]) : Numbered(up[c][j]) => n < up[c][j].ref[2]
  <2>1. n \in Nat
    <3>1. f.ref \in (0..MaxSockets) \X (0..MaxFrames)
      BY DEF Frames
    <3> QED BY <3>1
  <2> QED BY <2>1 DEF TypeOK, PassedOk
<1> HIDE DEF c, n
<1>2. ASSUME NEW j \in 1..Len(up'[c]), Numbered(up'[c][j]) PROVE n < up'[c][j].ref[2]
  <2>1. CASE \E k \in 1..Len(up[c]) : up[c][k] = up'[c][j]
    BY <1>1, <1>2, <2>1
  <2>2. CASE frames < up'[c][j].ref[2]
    <3>1. up'[c][j] \in Frames
      BY <1>1, ElementOfSeq
    <3>2. up'[c][j].ref[2] \in Nat
      <4>1. up'[c][j].ref \in (0..MaxSockets) \X (0..MaxFrames)
        BY <3>1 DEF Frames
      <4> QED BY <4>1
    <3> QED BY <1>1, <2>2, <3>2
  <2> QED BY <1>1, <1>2, <2>1, <2>2
<1>3. n <= frames' /\ phase'[c] \notin StartUp
  BY <1>1
<1> QED BY <1>1, <1>2, <1>3 DEF PassedOk, c, n

\* The queues after a step in which only down changes.
LEMMA QueuesDown ==
    ASSUME UNCHANGED <<pending_inits, flushing, received>>, NEW t \in Socket,
           \A x \in Socket \ {t} : down'[x] = down[x]
    PROVE  LET at == <<"down", t>>
           IN  /\ at \in Place /\ Queues[at] = down[t] /\ Queues'[at] = down'[t]
               /\ \A p \in Place \ {at} : Queues'[p] = Queues[p]
BY DEF Queues, Place

\* The records of the past after a step that sends nothing and may lose the
\* frames sent to one client.
LEMMA NothingSent ==
    ASSUME TypeOK, PassedInv, OrderInv, CopiesInv,
           \A f \in Frames : PassedOk(f, phase, frames, up) => PassedOk(f, phase', frames', up'),
           UNCHANGED <<pending_inits, flushing, received, accepted>>, NEW t \in Socket,
           \A x \in Socket \ {t} : down'[x] = down[x],
           \/ down'[t] \in {down[t], << >>}
           \/ down[t] # << >> /\ down'[t] = Tail(down[t])
    PROVE  PassedInv' /\ OrderInv' /\ CopiesInv'
<1>0. /\ down \in [Socket -> Seq(Frames)] /\ received \in [Socket -> Seq(Frames)]
      /\ accepted \subseteq Frames
  BY DEF TypeOK
<1>1. ASSUME NEW x \in Socket, NEW j \in 1..Len(down'[x])
      PROVE  \E k \in 1..Len(down[x]) : down[x][k] = down'[x][j]
  <2>1. CASE down'[x] = down[x]
    BY <2>1
  <2>2. CASE x = t /\ down[t] # << >> /\ down'[t] = Tail(down[t])
    <3>1. down[t] \in Seq(Frames)
      BY <1>0
    <3>2. j + 1 \in 1..Len(down[t]) /\ Tail(down[t])[j] = down[t][j + 1]
      BY <2>2, <3>1, QueueTail
    <3> QED BY <2>2, <3>2
  <2>3. CASE x = t /\ down'[t] = << >>
    BY <2>3
  <2> QED BY <2>1, <2>2, <2>3
<1>2. PassedInv'
  <2>1. ASSUME NEW x \in Socket, NEW j \in 1..Len(down'[x]), IsMsg(down'[x][j])
        PROVE  PassedOk(down'[x][j], phase', frames', up')
    <3>1. PICK k \in 1..Len(down[x]) : down[x][k] = down'[x][j]
      BY <1>1
    <3>2. down[x][k] \in Frames /\ PassedOk(down[x][k], phase, frames, up)
      BY <1>0, <2>1, <3>1, ElementOfSeq DEF PassedInv
    <3> QED BY <3>1, <3>2
  <2>2. ASSUME NEW x \in Socket, NEW j \in 1..Len(received[x]), IsMsg(received[x][j])
        PROVE  PassedOk(received[x][j], phase', frames', up')
    <3>1. received[x][j] \in Frames /\ PassedOk(received[x][j], phase, frames, up)
      BY <1>0, <2>2, ElementOfSeq DEF PassedInv
    <3> QED BY <3>1
  <2>3. \A f \in accepted : IsInit(f) /\ PassedOk(f, phase', frames', up')
    BY <1>0 DEF PassedInv
  <2> QED BY <2>1, <2>2, <2>3 DEF PassedInv
<1>3. OrderInv'
  <2> SUFFICES ASSUME NEW x \in Socket
               PROVE  Increasing(down'[x]) /\ Before(received[x], down'[x])
    BY DEF OrderInv
  <2>1. Increasing(down[x]) /\ Before(received[x], down[x]) /\ down[x] \in Seq(Frames)
    BY <1>0 DEF OrderInv
  <2>2. CASE down'[x] = down[x]
    BY <2>1, <2>2
  <2>3. CASE down'[x] = << >>
    BY <2>3 DEF Increasing, Before
  <2>4. CASE down[x] # << >> /\ down'[x] = Tail(down[x])
    BY <2>1, <2>4, OrderTail
  <2> QED BY <2>2, <2>3, <2>4
<1>4. CopiesInv'
  <2> DEFINE at == <<"down", t>>
  <2>1. /\ at \in Place /\ Queues[at] = down[t] /\ Queues'[at] = down'[t]
        /\ \A p \in Place \ {at} : Queues'[p] = Queues[p]
    BY QueuesDown
  <2>2. OneCopy(Queues) /\ AllTaken(Queues, accepted) /\ down[t] \in Seq(Frames)
    BY <1>0 DEF CopiesInv
  <2> HIDE DEF at
  <2>3. CASE down'[t] = down[t]
    <3>1. \A p \in Place : Queues'[p] = Queues[p]
      BY <2>1, <2>3
    <3>2. OneCopy(Queues') /\ AllTaken(Queues', accepted)
      BY <2>2, <3>1 DEF OneCopy, AllTaken
    <3> QED BY <3>2 DEF CopiesInv
  <2>4. CASE down'[t] = << >> \/ (down[t] # << >> /\ down'[t] = Tail(down[t]))
    <3>1. OneCopy(Queues') /\ AllTaken(Queues', accepted)
      BY <2>1, <2>2, <2>4, CopyLess
    <3> QED BY <3>1 DEF CopiesInv
  <2> QED BY <2>3, <2>4
<1> QED BY <1>2, <1>3, <1>4

\* A frame is sent to the client of t, if it is still there: a reply, a
\* session_init, or a message newer than all that have passed.
LEMMA FrameDown ==
    ASSUME TypeOK, PassedInv, OrderInv,
           \A f \in Frames : PassedOk(f, phase, frames, up) => PassedOk(f, phase', frames', up'),
           UNCHANGED received, NEW t \in Socket, NEW g \in Frames, Deliver(t, g) \/ down' = down,
           \A f \in accepted' : f \in accepted \/ (IsInit(f) /\ PassedOk(f, phase', frames', up')),
           IsMsg(g) => /\ PassedOk(g, phase', frames', up')
                       /\ \A f \in Frames :
                             PassedOk(f, phase, frames, up) /\ f.ref[1] = g.ref[1]
                                => f.ref[2] < g.ref[2]
    PROVE  /\ PassedInv' /\ OrderInv'
           /\ down' \in [Socket -> Seq(Frames)] /\ down[t] \in Seq(Frames)
           /\ \A x \in Socket \ {t} : down'[x] = down[x]
           /\ down'[t] \in {down[t], Append(down[t], g)}
<1>0. /\ down \in [Socket -> Seq(Frames)] /\ received \in [Socket -> Seq(Frames)]
      /\ accepted \subseteq Frames
  BY DEF TypeOK
<1>1. /\ down[t] \in Seq(Frames) /\ Append(down[t], g) \in Seq(Frames)
      /\ \A j \in 1..Len(Append(down[t], g)) :
            \/ Append(down[t], g)[j] = g
            \/ j \in 1..Len(down[t]) /\ Append(down[t], g)[j] = down[t][j]
  <2>1. down[t] \in Seq(Frames)
    BY <1>0
  <2> QED BY <2>1, QueueAppend
<1>2. /\ down'[t] \in {down[t], Append(down[t], g)} /\ \A x \in Socket \ {t} : down'[x] = down[x]
      /\ down' \in [Socket -> Seq(Frames)]
  BY <1>0, <1>1 DEF Deliver
<1>3. ASSUME NEW x \in Socket, NEW j \in 1..Len(down[x]), IsMsg(down[x][j])
      PROVE  down[x][j] \in Frames /\ PassedOk(down[x][j], phase, frames, up)
  BY <1>0, <1>3, ElementOfSeq DEF PassedInv
<1>4. ASSUME NEW x \in Socket, NEW j \in 1..Len(received[x]), IsMsg(received[x][j])
      PROVE  received[x][j] \in Frames /\ PassedOk(received[x][j], phase, frames, up)
  BY <1>0, <1>4, ElementOfSeq DEF PassedInv
<1>5. PassedInv'
  <2>1. ASSUME NEW x \in Socket, NEW j \in 1..Len(down'[x]), IsMsg(down'[x][j])
        PROVE  PassedOk(down'[x][j], phase', frames', up')
    <3>1. CASE x = t /\ down'[x][j] = g
      BY <2>1, <3>1
    <3>2. CASE j \in 1..Len(down[x]) /\ down'[x][j] = down[x][j]
      BY <1>3, <2>1, <3>2
    <3> QED BY <1>1, <1>2, <3>1, <3>2
  <2>2. \A x \in Socket : \A j \in 1..Len(received[x]) :
           IsMsg(received[x][j]) => PassedOk(received[x][j], phase', frames', up')
    BY <1>4
  <2>3. \A f \in accepted' : IsInit(f) /\ PassedOk(f, phase', frames', up')
    BY <1>0 DEF PassedInv
  <2> QED BY <2>1, <2>2, <2>3 DEF PassedInv
<1>6. OrderInv'
  <2> SUFFICES ASSUME NEW x \in Socket
               PROVE  Increasing(down'[x]) /\ Before(received[x], down'[x])
    BY DEF OrderInv
  <2>1. Increasing(down[x]) /\ Before(received[x], down[x])
    BY DEF OrderInv
  <2>2. CASE down'[x] = down[x]
    BY <2>1, <2>2
  <2>3. CASE x = t /\ down'[x] = Append(down[x], g)
    <3>1. \A j \in 1..Len(down[x]) : IsMsg(g) /\ IsMsg(down[x][j]) /\ down[x][j].ref[1] = g.ref[1]
                                        => down[x][j].ref[2] < g.ref[2]
      BY <1>3
    <3>2. \A j \in 1..Len(received[x]) :
             IsMsg(g) /\ IsMsg(received[x][j]) /\ received[x][j].ref[1] = g.ref[1]
                => received[x][j].ref[2] < g.ref[2]
      BY <1>4
    <3> QED BY <1>1, <2>1, <2>3, <3>1, <3>2, OrderAppend
  <2> QED BY <1>2, <2>2, <2>3
<1> QED BY <1>1, <1>2, <1>5, <1>6

\* ... and the copies after a frame that is no session_init.
LEMMA FrameSent ==
    ASSUME TypeOK, PassedInv, OrderInv, CopiesInv,
           \A f \in Frames : PassedOk(f, phase, frames, up) => PassedOk(f, phase', frames', up'),
           UNCHANGED <<pending_inits, flushing, received, accepted>>, NEW t \in Socket,
           NEW g \in Frames, Deliver(t, g), ~ IsInit(g),
           IsMsg(g) => /\ PassedOk(g, phase', frames', up')
                       /\ \A f \in Frames :
                             PassedOk(f, phase, frames, up) /\ f.ref[1] = g.ref[1]
                                => f.ref[2] < g.ref[2]
    PROVE  /\ PassedInv' /\ OrderInv' /\ CopiesInv'
           /\ down' \in [Socket -> Seq(Frames)]
           /\ \A x \in Socket \ {t} : down'[x] = down[x]
<1>1. /\ PassedInv' /\ OrderInv'
      /\ down' \in [Socket -> Seq(Frames)] /\ down[t] \in Seq(Frames)
      /\ \A x \in Socket \ {t} : down'[x] = down[x]
      /\ down'[t] \in {down[t], Append(down[t], g)}
  BY FrameDown
<1> DEFINE at == <<"down", t>>
<1>2. /\ at \in Place /\ Queues[at] = down[t] /\ Queues'[at] = down'[t]
      /\ \A p \in Place \ {at} : Queues'[p] = Queues[p]
  BY <1>1, QueuesDown
<1>3. OneCopy(Queues) /\ AllTaken(Queues, accepted)
  BY DEF CopiesInv
<1> HIDE DEF at
<1>4. OneCopy(Queues') /\ AllTaken(Queues', accepted)
  <2>1. CASE down'[t] = down[t]
    <3>1. \A p \in Place : Queues'[p] = Queues[p]
      BY <1>2, <2>1
    <3> QED BY <1>3, <3>1 DEF OneCopy, AllTaken
  <2>2. CASE down'[t] = Append(down[t], g)
    <3>1. Queues'[at] = Append(Queues[at], g) /\ Queues[at] \in Seq(Frames)
      BY <1>1, <1>2, <2>2
    <3>2. OneCopy(Queues') /\ AllTaken(Queues', accepted \cup {g})
      BY <1>2, <1>3, <3>1, CopyMore
    <3> QED BY <3>2 DEF AllTaken
  <2> QED BY <1>1, <2>1, <2>2
<1> QED BY <1>1, <1>4 DEF CopiesInv

-----------------------------------------------------------------------------
(* The handlers of the relay. *)

\* args.peer is a user.
LEMMA PeerIsUser ==
    ASSUME NEW u \in User
    PROVE  Peer(u) \in User
<1>1. \E v \in User : v # u
  <2> SUFFICES ASSUME \A v \in User : v = u PROVE FALSE
    OBVIOUS
  <2>1. User = {u}
    OBVIOUS
  <2>2. Cardinality({u}) = 1
    BY FS_Singleton
  <2> QED BY <2>1, <2>2, RelayAssumption
<1> QED BY <1>1 DEF Peer

\* The frames that are made.
LEMMA FrameOk ==
    ASSUME NEW type \in Types, NEW u \in User \cup {None},
           NEW ref \in (0..MaxSockets) \X (0..MaxFrames)
    PROVE  /\ Frame(type, u, ref) \in Frames /\ Frame(type, u, ref).type = type
           /\ Frame(type, u, ref).user = u /\ Frame(type, u, ref).ref = ref
BY DEF Frame, Frames, Types

LEMMA ReplyOk ==
    ASSUME NEW type \in Types \ {"msg", "session_init"}
    PROVE  /\ Reply(type) \in Frames /\ ~ Numbered(Reply(type)) /\ ~ IsInit(Reply(type))
           /\ ~ IsMsg(Reply(type))
<1>1. NoRef \in (0..MaxSockets) \X (0..MaxFrames)
  BY RelayAssumption DEF NoRef
<1>2. Reply(type) \in Frames /\ Reply(type).type = type
  BY <1>1, FrameOk DEF Reply
<1> QED BY <1>2 DEF Numbered, IsMsg, IsInit

\* The parts of a frame.
LEMMA FrameParts ==
    ASSUME NEW f \in Frames
    PROVE  /\ f.ref \in (0..MaxSockets) \X (0..MaxFrames) /\ f.ref[1] \in Nat /\ f.ref[2] \in Nat
           /\ f.type \in Types
<1>1. f.ref \in (0..MaxSockets) \X (0..MaxFrames) /\ f.type \in Types
  BY DEF Frames, Types
<1> QED BY <1>1

\* A handler reads a frame: the ones behind it are newer, the ones that have
\* passed are older.
LEMMA ReadUp ==
    ASSUME RelayInv, NEW s \in Socket, NEW types, Reads(s, types)
    PROVE  LET f == Head(up[s])
           IN  /\ f \in Frames /\ f.type \in types /\ handler[s] = "reading"
               /\ up[s] # << >> /\ f = up[s][1] /\ 1 \in 1..Len(up[s])
               /\ UpOk(f, s, username[s], phase[s], frames)
               /\ up' \in [Socket -> Seq(Frames)] /\ up'[s] = Tail(up[s])
               /\ \A t \in Socket \ {s} : up'[t] = up[t]
               /\ \A j \in 1..Len(up'[s]) : /\ j + 1 \in 1..Len(up[s]) /\ up'[s][j] = up[s][j + 1]
                                            /\ j \in Nat /\ 1 < j + 1
<1>1. up \in [Socket -> Seq(Frames)] /\ UpInv
  BY DEF RelayInv, TypeOK
<1>2. /\ handler[s] = "reading" /\ up[s] # << >> /\ Head(up[s]).type \in types
      /\ up' = [up EXCEPT ![s] = Tail(@)]
  BY DEF Reads
<1>3. /\ Head(up[s]) \in Frames /\ Head(up[s]) = up[s][1] /\ 1 \in 1..Len(up[s])
      /\ Tail(up[s]) \in Seq(Frames)
      /\ \A j \in 1..Len(Tail(up[s])) : /\ j + 1 \in 1..Len(up[s]) /\ Tail(up[s])[j] = up[s][j + 1]
                                        /\ j \in Nat /\ 1 < j + 1
  <2>1. up[s] \in Seq(Frames)
    BY <1>1
  <2> QED BY <1>2, <2>1, QueueTail
<1>4. /\ up' \in [Socket -> Seq(Frames)] /\ up'[s] = Tail(up[s])
      /\ \A t \in Socket \ {s} : up'[t] = up[t]
  BY <1>1, <1>2, <1>3
<1>5. UpOk(Head(up[s]), s, username[s], phase[s], frames)
  BY <1>1, <1>3 DEF UpInv
<1> QED BY <1>2, <1>3, <1>4, <1>5

LEMMA ReadKept ==
    ASSUME RelayInv, NEW s \in Socket, NEW types, Reads(s, types),
           UNCHANGED <<username, phase, frames>>
    PROVE  /\ UpInv'
           /\ \A f \in Frames : PassedOk(f, phase, frames, up) => PassedOk(f, phase', frames', up')
           /\ \A g \in Frames :
                 Numbered(Head(up[s])) /\ g.ref = Head(up[s]).ref =>
                    /\ PassedOk(g, phase', frames', up')
                    /\ \A f \in Frames : PassedOk(f, phase, frames, up) /\ f.ref[1] = g.ref[1]
                                            => f.ref[2] < g.ref[2]
<1> PICK h : h = Head(up[s])
  OBVIOUS
<1>0. TypeOK /\ UpInv
  BY DEF RelayInv
<1>1. /\ h \in Frames /\ h = up[s][1] /\ 1 \in 1..Len(up[s])
      /\ UpOk(h, s, username[s], phase[s], frames)
      /\ up' \in [Socket -> Seq(Frames)]
      /\ \A t \in Socket \ {s} : up'[t] = up[t]
      /\ \A j \in 1..Len(up'[s]) : /\ j + 1 \in 1..Len(up[s]) /\ up'[s][j] = up[s][j + 1]
                                   /\ j \in Nat /\ 1 < j + 1
  BY ReadUp
<1>2. UpInv'
  <2>1. ASSUME NEW t \in Socket, NEW j \in 1..Len(up'[t])
        PROVE  UpOk(up'[t][j], t, username[t], phase[t], frames)
    <3>1. \E k \in 1..Len(up[t]) : up[t][k] = up'[t][j]
      BY <1>1
    <3> QED BY <1>0, <3>1 DEF UpInv
  <2>2. ASSUME NEW t \in Socket, NEW j \in 1..Len(up'[t]), NEW k \in 1..Len(up'[t]), j < k,
               Numbered(up'[t][j]), Numbered(up'[t][k])
        PROVE  up'[t][j].ref[2] < up'[t][k].ref[2]
    <3>1. CASE t # s
      BY <1>0, <1>1, <2>2, <3>1 DEF UpInv
    <3>2. CASE t = s
      <4>1. /\ j + 1 \in 1..Len(up[s]) /\ up'[s][j] = up[s][j + 1]
            /\ k + 1 \in 1..Len(up[s]) /\ up'[s][k] = up[s][k + 1]
            /\ j + 1 < k + 1
        BY <1>1, <2>2, <3>2
      <4> QED BY <1>0, <2>2, <3>2, <4>1 DEF UpInv
    <3> QED BY <3>1, <3>2
  <2> QED BY <2>1, <2>2 DEF UpInv
<1>3. ASSUME NEW f \in Frames, PassedOk(f, phase, frames, up)
      PROVE  PassedOk(f, phase', frames', up')
  <2>1. \A t \in Socket : \A j \in 1..Len(up'[t]) : \E k \in 1..Len(up[t]) : up[t][k] = up'[t][j]
    BY <1>1
  <2>2. frames' \in Nat /\ frames <= frames'
    BY <1>0 DEF TypeOK
  <2> QED BY <1>0, <1>1, <1>3, <2>1, <2>2, PassedKept
<1>4. ASSUME NEW g \in Frames, Numbered(h), g.ref = h.ref
      PROVE  /\ PassedOk(g, phase', frames', up')
             /\ \A f \in Frames : PassedOk(f, phase, frames, up) /\ f.ref[1] = g.ref[1]
                                     => f.ref[2] < g.ref[2]
  <2>1. g.ref[1] = s /\ g.ref[2] <= frames /\ phase[s] \notin StartUp
    BY <1>1, <1>4 DEF UpOk
  <2>2. ASSUME NEW j \in 1..Len(up'[s]), Numbered(up'[s][j]) PROVE g.ref[2] < up'[s][j].ref[2]
    BY <1>0, <1>1, <1>4, <2>2 DEF UpInv
  <2>3. PassedOk(g, phase', frames', up')
    BY <2>1, <2>2 DEF PassedOk
  <2>4. ASSUME NEW f \in Frames, PassedOk(f, phase, frames, up), f.ref[1] = g.ref[1]
        PROVE  f.ref[2] < g.ref[2]
    BY <1>1, <1>4, <2>1, <2>4 DEF PassedOk
  <2> QED BY <2>3, <2>4
<1> QED BY <1>2, <1>3, <1>4

\* Only register is read from a socket without a name.
LEMMA NamedReader ==
    ASSUME RelayInv, NEW s \in Socket, NEW types, Reads(s, types), "register" \notin types
    PROVE  username[s] # None /\ username[s] = owner[s] /\ owner[s] \in User
<1>1. SocketInv /\ TypeOK
  BY DEF RelayInv
<1>2. up[s] # << >> /\ Head(up[s]).type \in types
  BY ReadUp
<1>3. username[s] # None
  <2> SUFFICES ASSUME username[s] = None PROVE FALSE
    OBVIOUS
  <2>1. phase[s] # "unused"
    BY <1>1, <1>2 DEF SocketInv, SocketOk
  <2>2. up[s] = <<Frame("register", owner[s], <<s, 0>>)>>
    BY <1>1, <2>1 DEF SocketInv, SocketOk
  <2>3. Head(up[s]).type = "register"
    BY <2>2 DEF Frame
  <2> QED BY <1>2, <2>3
<1> QED BY <1>1, <1>3 DEF SocketInv, SocketOk, TypeOK

\* Handlers whose only effect is a frame to a registered socket: a reply, or the
\* message that was read.
LEMMA AnswerRelay ==
    ASSUME RelayInv, NEW s \in Socket, NEW types, Reads(s, types), "register" \notin types,
           NEW t \in Socket, username[t] # None, NEW g \in Frames, Deliver(t, g), ~ IsInit(g),
           IsMsg(g) => Numbered(Head(up[s])) /\ g.ref = Head(up[s]).ref,
           UNCHANGED <<connections, ephemeral_pubs, pending_inits, Locals, accepted, client>>,
           bundles' \subseteq User
    PROVE  RelayInv'
<1>0. TypeOK /\ SocketInv /\ EntryInv /\ PassedInv /\ OrderInv /\ CopiesInv
  BY DEF RelayInv
<1>1. UNCHANGED <<connections, ephemeral_pubs, pending_inits, username, handler, flushing,
                  accepted, owner, phase, received, doubled, frames, closed>>
  BY DEF Locals, client
<1>2. /\ UpInv'
      /\ \A f \in Frames : PassedOk(f, phase, frames, up) => PassedOk(f, phase', frames', up')
      /\ IsMsg(g) => /\ PassedOk(g, phase', frames', up')
                     /\ \A f \in Frames : PassedOk(f, phase, frames, up) /\ f.ref[1] = g.ref[1]
                                             => f.ref[2] < g.ref[2]
  BY <1>1, ReadKept
<1>3. /\ up' \in [Socket -> Seq(Frames)] /\ \A x \in Socket \ {s} : up'[x] = up[x]
      /\ username[s] # None
  BY ReadUp, NamedReader
<1>4. /\ PassedInv' /\ OrderInv' /\ CopiesInv'
      /\ down' \in [Socket -> Seq(Frames)]
      /\ \A x \in Socket \ {t} : down'[x] = down[x]
  BY <1>0, <1>1, <1>2, FrameSent
<1>5. TypeOK'
  BY <1>0, <1>1, <1>3, <1>4 DEF TypeOK
<1>6. SocketInv'
  <2> SUFFICES ASSUME NEW x \in Socket
               PROVE  username[x] = None => down'[x] = down[x] /\ up'[x] = up[x]
    <3>1. \A x \in Socket : phase[x] = "unused" => username[x] = None
      BY <1>0 DEF SocketInv, SocketOk
    <3> QED BY <1>0, <1>1, <3>1 DEF SocketInv, SocketOk
  <2> QED BY <1>3, <1>4
<1>7. EntryInv'
  BY <1>0, <1>1 DEF EntryInv, Live
<1> QED BY <1>2, <1>4, <1>5, <1>6, <1>7 DEF RelayInv

\* upload_bundle, get_bundle, get_peer, msg and frames of other types.
LEMMA RepliesRelay ==
    ASSUME RelayInv, NEW s \in Socket,
           \/ HandleUploadBundle(s) \/ HandleGetBundle(s) \/ HandleGetPeer(s)
           \/ HandleMsg(s) \/ HandleUnknown(s)
    PROVE  RelayInv'
<1>0. TypeOK /\ SocketInv /\ EntryInv
  BY DEF RelayInv
<1> DEFINE f == Head(up[s])
<1>1. CASE HandleUploadBundle(s)
  <2>1. Reads(s, {"upload_bundle"}) /\ Deliver(s, Reply("bundle_uploaded"))
    BY <1>1 DEF HandleUploadBundle
  <2>2. username[s] # None /\ f.user \in User
    BY <2>1, NamedReader, ReadUp DEF UpOk
  <2>3. bundles' \subseteq User
    BY <1>0, <1>1, <2>2 DEF HandleUploadBundle, TypeOK
  <2>4. Reply("bundle_uploaded") \in Frames /\ ~ IsInit(Reply("bundle_uploaded"))
        /\ ~ IsMsg(Reply("bundle_uploaded"))
    BY ReplyOk DEF Types
  <2>5. UNCHANGED <<connections, ephemeral_pubs, pending_inits, Locals, accepted, client>>
    BY <1>1 DEF HandleUploadBundle
  <2> QED BY <2>1, <2>2, <2>3, <2>4, <2>5, AnswerRelay
<1>2. CASE HandleGetBundle(s)
  <2>1. PICK g : /\ Reads(s, {"get_bundle"}) /\ Deliver(s, g)
                 /\ g \in {Reply("peer_bundle"), Reply("error")}
                 /\ UNCHANGED <<server, client>>
    BY <1>2 DEF HandleGetBundle
  <2>2. g \in Frames /\ ~ IsInit(g) /\ ~ IsMsg(g)
    BY <2>1, ReplyOk DEF Types
  <2>3. username[s] # None
    BY <2>1, NamedReader
  <2>4. /\ UNCHANGED <<connections, ephemeral_pubs, pending_inits, Locals, accepted, client>>
        /\ bundles' \subseteq User
    BY <1>0, <2>1 DEF server, Locals, TypeOK
  <2> QED BY <2>1, <2>2, <2>3, <2>4, AnswerRelay
<1>3. CASE HandleGetPeer(s)
  <2>1. Reads(s, {"get_peer"}) /\ UNCHANGED <<server, client>>
    BY <1>3 DEF HandleGetPeer
  <2>2. f.user \in User /\ username[s] # None
    BY <2>1, NamedReader, ReadUp DEF UpOk
  <2>3. PICK g : /\ Deliver(s, g)
                 /\ \/ g = Reply("error")
                    \/ /\ ephemeral_pubs[f.user] # None
                       /\ g = Frame("peer_key", f.user, <<ephemeral_pubs[f.user], 0>>)
    BY <1>3 DEF HandleGetPeer
  <2>4. g \in Frames /\ ~ IsInit(g) /\ ~ IsMsg(g)
    <3>1. CASE g = Reply("error")
      BY <3>1, ReplyOk DEF Types
    <3>2. CASE /\ ephemeral_pubs[f.user] # None
               /\ g = Frame("peer_key", f.user, <<ephemeral_pubs[f.user], 0>>)
      <4>1. ephemeral_pubs[f.user] \in Socket
        BY <1>0, <2>2, <3>2 DEF TypeOK
      <4>2. <<ephemeral_pubs[f.user], 0>> \in (0..MaxSockets) \X (0..MaxFrames)
        BY <4>1, RelayAssumption DEF Socket
      <4>3. g \in Frames /\ g.type = "peer_key"
        BY <2>2, <3>2, <4>2, FrameOk DEF Types
      <4> QED BY <4>3 DEF IsInit, IsMsg
    <3> QED BY <2>3, <3>1, <3>2
  <2>5. /\ UNCHANGED <<connections, ephemeral_pubs, pending_inits, Locals, accepted, client>>
        /\ bundles' \subseteq User
    BY <1>0, <2>1 DEF server, Locals, TypeOK
  <2> QED BY <2>1, <2>2, <2>3, <2>4, <2>5, AnswerRelay
<1>4. CASE HandleMsg(s)
  <2>1. Reads(s, {"msg"}) /\ UNCHANGED <<server, client>>
    BY <1>4 DEF HandleMsg
  <2>2. f.user \in User /\ username[s] # None /\ username[s] \in User /\ f.type = "msg" /\ f \in Frames
    BY <2>1, NamedReader, ReadUp DEF UpOk
  <2>3. PICK t, g : /\ Deliver(t, g)
                    /\ \/ t = s /\ g = Reply("error")
                       \/ /\ t = connections[f.user] /\ connections[f.user] # None
                          /\ g = Frame("msg", username[s], f.ref)
    BY <1>4 DEF HandleMsg
  <2>4. /\ UNCHANGED <<connections, ephemeral_pubs, pending_inits, Locals, accepted, client>>
        /\ bundles' \subseteq User
    BY <1>0, <2>1 DEF server, Locals, TypeOK
  <2>5. CASE t = s /\ g = Reply("error")
    <3>1. g \in Frames /\ ~ IsInit(g) /\ ~ IsMsg(g)
      BY <2>5, ReplyOk DEF Types
    <3> QED BY <2>1, <2>2, <2>3, <2>4, <2>5, <3>1, AnswerRelay
  <2>6. CASE /\ t = connections[f.user] /\ connections[f.user] # None
             /\ g = Frame("msg", username[s], f.ref)
    <3>1. t \in Socket /\ username[t] # None
      BY <1>0, <2>2, <2>6, RelayAssumption DEF TypeOK, EntryInv
    <3>2. g \in Frames /\ g.type = "msg" /\ g.ref = f.ref
      BY <2>2, <2>6, FrameOk, FrameParts DEF Types
    <3>3. ~ IsInit(g) /\ Numbered(f)
      BY <2>2, <3>2 DEF IsInit, Numbered, IsMsg
    <3> QED BY <2>1, <2>3, <2>4, <3>1, <3>2, <3>3, AnswerRelay
  <2> QED BY <2>3, <2>5, <2>6
<1>5. CASE HandleUnknown(s)
  <2>1. Reads(s, {"unknown"}) /\ Deliver(s, Reply("error")) /\ UNCHANGED <<server, client>>
    BY <1>5 DEF HandleUnknown
  <2>2. username[s] # None
    BY <2>1, NamedReader
  <2>3. Reply("error") \in Frames /\ ~ IsInit(Reply("error")) /\ ~ IsMsg(Reply("error"))
    BY ReplyOk DEF Types
  <2>4. /\ UNCHANGED <<connections, ephemeral_pubs, pending_inits, Locals, accepted, client>>
        /\ bundles' \subseteq User
    BY <1>0, <2>1 DEF server, Locals, TypeOK
  <2> QED BY <2>1, <2>2, <2>3, <2>4, AnswerRelay
<1> QED BY <1>1, <1>2, <1>3, <1>4, <1>5

\* register enters the socket of a client that is there, or of one that has given
\* up while registering.
LEMMA RegisterRelay ==
    ASSUME RelayInv, NEW s \in Socket, HandleRegister(s)
    PROVE  RelayInv'
<1>0. TypeOK /\ SocketInv /\ UpInv /\ EntryInv /\ PassedInv /\ OrderInv /\ CopiesInv
  BY DEF RelayInv
<1>1. Reads(s, {"register"}) /\ Deliver(s, Reply("registered"))
  BY DEF HandleRegister
<1>2. /\ Head(up[s]).type = "register" /\ up[s] # << >> /\ Head(up[s]) = up[s][1]
      /\ UpOk(up[s][1], s, username[s], phase[s], frames)
      /\ up' \in [Socket -> Seq(Frames)] /\ up'[s] = Tail(up[s])
      /\ \A t \in Socket \ {s} : up'[t] = up[t]
  BY <1>1, ReadUp
<1>3. username[s] = None
  BY <1>2 DEF UpOk
<1>4. phase[s] \in {"registering", "abandoned"} /\ owner[s] \in User
  BY <1>0, <1>2, <1>3 DEF SocketInv, SocketOk
<1>5. up[s] = <<Frame("register", owner[s], <<s, 0>>)>>
  BY <1>0, <1>3, <1>4 DEF SocketInv, SocketOk
<1> PICK u \in User : u = owner[s]
  BY <1>4
<1>6. Head(up[s]).user = u /\ up'[s] = << >> /\ u # None
  <2>1. Head(up[s]) = Frame("register", u, <<s, 0>>)
    BY <1>5
  <2>2. Tail(up[s]) = << >>
    BY <1>5
  <2> QED BY <1>2, <2>1, <2>2, RelayAssumption DEF Frame
<1>7. /\ username' = [username EXCEPT ![s] = u] /\ connections' = [connections EXCEPT ![u] = s]
      /\ ephemeral_pubs' = [ephemeral_pubs EXCEPT ![u] = s]
      /\ handler' = [handler EXCEPT ![s] = "registered"]
      /\ UNCHANGED <<bundles, pending_inits, flushing, accepted, owner, phase, received, doubled,
                     frames, closed>>
  BY <1>6 DEF HandleRegister, client
<1>8. UpInv'
  <2>1. ASSUME NEW t \in Socket, NEW j \in 1..Len(up'[t])
        PROVE  t # s /\ up'[t] = up[t] /\ username'[t] = username[t]
    <3>1. t # s
      BY <1>6, <2>1
    <3> QED BY <1>0, <1>2, <1>7, <3>1 DEF TypeOK
  <2> QED BY <1>0, <1>7, <2>1 DEF UpInv
<1>9. ASSUME NEW f \in Frames, PassedOk(f, phase, frames, up)
      PROVE  PassedOk(f, phase', frames', up')
  <2>1. \A t \in Socket : \A j \in 1..Len(up'[t]) : \E k \in 1..Len(up[t]) : up[t][k] = up'[t][j]
    BY <1>2, <1>6, SMTT(30)
  <2>2. frames' \in Nat /\ frames <= frames'
    BY <1>0, <1>7 DEF TypeOK
  <2> QED BY <1>0, <1>2, <1>7, <1>9, <2>1, <2>2, PassedKept
<1>10. /\ PassedInv' /\ OrderInv' /\ CopiesInv'
       /\ down' \in [Socket -> Seq(Frames)]
       /\ \A x \in Socket \ {s} : down'[x] = down[x]
  <2>1. /\ Reply("registered") \in Frames /\ ~ IsInit(Reply("registered"))
        /\ ~ IsMsg(Reply("registered"))
    BY ReplyOk DEF Types
  <2> QED BY <1>0, <1>1, <1>7, <1>9, <2>1, FrameSent
<1>11. TypeOK'
  BY <1>0, <1>2, <1>7, <1>10 DEF TypeOK
<1>12. /\ username'[s] = u /\ connections'[u] = s /\ handler'[s] = "registered"
       /\ \A t \in Socket \ {s} : username'[t] = username[t] /\ handler'[t] = handler[t]
       /\ \A v \in User \ {u} : connections'[v] = connections[v]
  BY <1>0, <1>7 DEF TypeOK
<1>13. SocketInv'
  <2>1. SocketOk(s)'
    <3>1. phase'[s] # "unused" /\ owner'[s] = u /\ owner'[s] \in User
      BY <1>4, <1>7
    <3>2. username'[s] = u /\ username'[s] # None
      BY <1>6, <1>12
    <3>3. handler'[s] # "none" /\ handler'[s] # "flushing"
      BY <1>12
    <3> QED BY <3>1, <3>2, <3>3 DEF SocketOk
  <2>2. ASSUME NEW t \in Socket \ {s} PROVE SocketOk(t)'
    <3>1. /\ up'[t] = up[t] /\ down'[t] = down[t] /\ username'[t] = username[t]
          /\ handler'[t] = handler[t] /\ owner'[t] = owner[t] /\ phase'[t] = phase[t]
          /\ flushing'[t] = flushing[t]
      BY <1>2, <1>7, <1>10, <1>12
    <3>2. SocketOk(t)
      BY <1>0 DEF SocketInv
    <3> QED BY <3>1, <3>2 DEF SocketOk
  <2> QED BY <2>1, <2>2 DEF SocketInv
<1>14. EntryInv'
  <2>1. ASSUME NEW v \in User, connections'[v] # None PROVE username'[connections'[v]] = v
    <3>1. CASE v = u
      BY <1>12, <3>1
    <3>2. CASE v # u
      <4>1. connections'[v] = connections[v] /\ username[connections[v]] = v
        BY <1>0, <1>12, <2>1, <3>2 DEF EntryInv
      <4>2. connections[v] # s /\ connections[v] \in Socket
        BY <1>0, <1>3, <2>1, <4>1, RelayAssumption DEF TypeOK
      <4> QED BY <1>12, <4>1, <4>2
    <3> QED BY <3>1, <3>2
  <2>2. \A t \in Socket : Live(t)' = Live(t)
    BY <1>7 DEF Live
  <2>3. ASSUME NEW t \in Socket, t \notin doubled, Live(t), username'[t] # None,
               \A x \in Socket : owner[x] = owner[t] => phase[x] # "abandoned"
        PROVE  connections'[owner[t]] = t
    <3>1. CASE t = s
      BY <1>12, <3>1
    <3>2. CASE t # s
      <4>1. owner[t] # u
        <5> SUFFICES ASSUME owner[t] = u PROVE FALSE
          OBVIOUS
        <5>1. phase[s] = "registering"
          BY <1>4, <2>3
        <5>2. Live(s)
          BY <5>1 DEF Live
        <5> QED BY <1>0, <2>3, <3>2, <5>2 DEF EntryInv
      <4>2. owner[t] \in User /\ connections[owner[t]] = t
        <5>1. phase[t] # "unused"
          BY <2>3 DEF Live
        <5> QED BY <1>0, <1>12, <2>3, <3>2, <5>1 DEF EntryInv, SocketInv, SocketOk
      <4> QED BY <1>12, <4>1, <4>2
    <3> QED BY <3>1, <3>2
  <2> QED BY <1>0, <1>7, <2>1, <2>2, <2>3 DEF EntryInv
<1> QED BY <1>8, <1>10, <1>11, <1>13, <1>14 DEF RelayInv

\* The queues of frames that a step leaves alone.
LEMMA UpSame ==
    ASSUME RelayInv, UNCHANGED <<up, username, phase, frames>>
    PROVE  /\ UpInv'
           /\ \A f \in Frames : PassedOk(f, phase, frames, up) => PassedOk(f, phase', frames', up')
           /\ up' \in [Socket -> Seq(Frames)]
BY DEF RelayInv, UpInv, TypeOK

\* The pending frames are popped.
LEMMA PopRelay ==
    ASSUME RelayInv, NEW s \in Socket, PopPending(s)
    PROVE  RelayInv'
<1>0. TypeOK /\ SocketInv /\ EntryInv /\ PassedInv /\ OrderInv /\ CopiesInv
  BY DEF RelayInv
<1>1. handler[s] = "registered" /\ username[s] \in User
  BY <1>0 DEF PopPending, SocketInv, SocketOk, TypeOK
<1> PICK u \in User : u = username[s]
  BY <1>1
<1>2. /\ flushing' = [flushing EXCEPT ![s] = pending_inits[u]]
      /\ handler' = [handler EXCEPT ![s] = IF pending_inits[u] = << >> THEN "reading" ELSE "flushing"]
      /\ pending_inits' = [pending_inits EXCEPT ![u] = << >>]
      /\ UNCHANGED <<connections, ephemeral_pubs, bundles, username, up, down, accepted,
                     owner, phase, received, doubled, frames, closed>>
  BY DEF PopPending, client
<1>3. /\ UpInv'
      /\ \A f \in Frames : PassedOk(f, phase, frames, up) => PassedOk(f, phase', frames', up')
  BY <1>2, UpSame
<1>4. TypeOK'
  <2>1. pending_inits[u] \in Seq(Frames)
    BY <1>0 DEF TypeOK
  <2>2. /\ flushing' \in [Socket -> Seq(Frames)] /\ pending_inits' \in [User -> Seq(Frames)]
        /\ handler' \in [Socket -> {"none", "reading", "registered", "flushing", "ended"}]
    BY <1>0, <1>2, <2>1 DEF TypeOK
  <2> QED BY <1>0, <1>2, <2>2 DEF TypeOK
<1>5. /\ flushing'[s] = pending_inits[u] /\ pending_inits'[u] = << >>
      /\ handler'[s] = (IF pending_inits[u] = << >> THEN "reading" ELSE "flushing")
      /\ \A t \in Socket \ {s} : flushing'[t] = flushing[t] /\ handler'[t] = handler[t]
      /\ \A v \in User \ {u} : pending_inits'[v] = pending_inits[v]
  BY <1>0, <1>2 DEF TypeOK
<1>6. SocketInv'
  <2>1. handler'[s] \in {"reading", "flushing"} /\ username[s] # None /\ phase[s] # "unused"
    BY <1>0, <1>1, <1>5 DEF SocketInv, SocketOk
  <2>2. SocketOk(s)
    BY <1>0 DEF SocketInv
  <2>3. SocketOk(s)'
    BY <1>2, <1>5, <2>1, <2>2 DEF SocketOk
  <2>4. ASSUME NEW t \in Socket \ {s} PROVE SocketOk(t)'
    BY <1>0, <1>2, <1>5 DEF SocketInv, SocketOk
  <2> QED BY <2>3, <2>4 DEF SocketInv
<1>7. EntryInv' /\ PassedInv' /\ OrderInv'
  BY <1>0, <1>2, <1>3 DEF EntryInv, Live, PassedInv, OrderInv
<1>8. CopiesInv'
  <2> DEFINE from == <<"pending", u>>
             to   == <<"flushing", s>>
  <2>1. /\ from \in Place /\ to \in Place /\ from # to
        /\ Queues'[from] = << >> /\ Queues'[to] = Queues[from]
    BY <1>5, QueueAt DEF Queues, Place
  <2>2. \A p \in Place \ {from, to} : Queues'[p] = Queues[p]
    <3> TAKE p \in Place \ {from, to}
    <3>1. CASE \E v \in User : p = <<"pending", v>>
      <4>1. PICK v \in User : p = <<"pending", v>>
        BY <3>1
      <4> QED BY <1>5, <4>1 DEF Queues, Place
    <3>2. CASE \E t \in Socket : p = <<"flushing", t>>
      <4>1. PICK t \in Socket : p = <<"flushing", t>>
        BY <3>2
      <4> QED BY <1>5, <4>1 DEF Queues, Place
    <3>3. CASE \E t \in Socket : \E kind \in {"down", "received"} : p = <<kind, t>>
      BY <1>2, <3>3 DEF Queues, Place
    <3> QED BY <3>1, <3>2, <3>3, QueueAt
  <2>3. OneCopy(Queues) /\ AllTaken(Queues, accepted)
    BY <1>0 DEF CopiesInv
  <2> HIDE DEF from, to
  <2>4. OneCopy(Queues') /\ AllTaken(Queues', accepted)
    BY <2>1, <2>2, <2>3, CopyShift
  <2>5. /\ \A v \in User : OnlyInits(pending_inits'[v])
        /\ \A t \in Socket : OnlyInits(flushing'[t])
    <3>1. OnlyInits(<< >>)
      BY DEF OnlyInits
    <3> QED BY <1>0, <1>5, <3>1 DEF CopiesInv
  <2> QED BY <1>2, <2>4, <2>5 DEF CopiesInv
<1> QED BY <1>3, <1>4, <1>6, <1>7, <1>8 DEF RelayInv

\* A popped frame is sent to the client or, if it has gone, lost.
LEMMA FlushRelay ==
    ASSUME RelayInv, NEW s \in Socket, FlushPending(s)
    PROVE  RelayInv'
<1>0. TypeOK /\ SocketInv /\ EntryInv /\ PassedInv /\ OrderInv /\ CopiesInv
  BY DEF RelayInv
<1>1. handler[s] = "flushing" /\ flushing[s] # << >> /\ username[s] # None /\ phase[s] # "unused"
  BY <1>0 DEF FlushPending, SocketInv, SocketOk
<1> PICK g : g = Head(flushing[s])
  OBVIOUS
<1>2. /\ Deliver(s, g) /\ flushing' = [flushing EXCEPT ![s] = Tail(flushing[s])]
      /\ handler' = [handler EXCEPT ![s] = IF Len(flushing[s]) = 1 THEN "reading" ELSE "flushing"]
      /\ UNCHANGED <<connections, ephemeral_pubs, bundles, pending_inits, username, up, accepted,
                     owner, phase, received, doubled, frames, closed>>
  BY DEF FlushPending, Globals, client
<1>3. /\ UpInv'
      /\ \A f \in Frames : PassedOk(f, phase, frames, up) => PassedOk(f, phase', frames', up')
  BY <1>2, UpSame
<1>4. /\ flushing[s] \in Seq(Frames) /\ g \in Frames /\ g = flushing[s][1]
      /\ Tail(flushing[s]) \in Seq(Frames) /\ 1 \in 1..Len(flushing[s])
      /\ Len(flushing[s]) # 1 => Tail(flushing[s]) # << >>
  <2>1. flushing[s] \in Seq(Frames)
    BY <1>0 DEF TypeOK
  <2>2. Len(flushing[s]) # 1 => Tail(flushing[s]) # << >>
    <3> PICK q \in Seq(Frames) : q = flushing[s]
      BY <2>1
    <3>1. q # << >>
      BY <1>1
    <3>2. Len(Tail(q)) = Len(q) - 1 /\ Len(q) \in Nat
      BY <3>1, HeadTailProperties
    <3>3. ASSUME Tail(q) = << >> PROVE Len(q) = 1
      <4>1. Len(Tail(q)) = 0
        BY <3>3
      <4> QED BY <3>2, <4>1
    <3> QED BY <3>3
  <2> QED BY <1>1, <2>1, <2>2, QueueTail
<1>5. IsInit(g) /\ ~ IsMsg(g)
  <2>1. IsInit(g)
    BY <1>0, <1>4 DEF CopiesInv, OnlyInits
  <2> QED BY <2>1 DEF IsInit, IsMsg
<1>6. /\ PassedInv' /\ OrderInv'
      /\ down' \in [Socket -> Seq(Frames)] /\ down[s] \in Seq(Frames)
      /\ \A x \in Socket \ {s} : down'[x] = down[x]
      /\ down'[s] \in {down[s], Append(down[s], g)}
  BY <1>0, <1>2, <1>3, <1>4, <1>5, FrameDown
<1>7. TypeOK'
  <2>1. /\ flushing' \in [Socket -> Seq(Frames)]
        /\ handler' \in [Socket -> {"none", "reading", "registered", "flushing", "ended"}]
    BY <1>0, <1>2, <1>4 DEF TypeOK
  <2> QED BY <1>0, <1>2, <1>6, <2>1 DEF TypeOK
<1>8. /\ flushing'[s] = Tail(flushing[s])
      /\ handler'[s] = (IF Len(flushing[s]) = 1 THEN "reading" ELSE "flushing")
      /\ \A t \in Socket \ {s} : flushing'[t] = flushing[t] /\ handler'[t] = handler[t]
  BY <1>0, <1>2 DEF TypeOK
<1>9. SocketInv'
  <2>1. /\ handler'[s] \in {"reading", "flushing"}
        /\ handler'[s] = "flushing" => flushing'[s] # << >>
    BY <1>4, <1>8
  <2>2. SocketOk(s)
    BY <1>0 DEF SocketInv
  <2>3. SocketOk(s)'
    BY <1>1, <1>2, <2>1, <2>2 DEF SocketOk
  <2>4. ASSUME NEW t \in Socket \ {s} PROVE SocketOk(t)'
    BY <1>0, <1>2, <1>6, <1>8 DEF SocketInv, SocketOk
  <2> QED BY <2>3, <2>4 DEF SocketInv
<1>10. EntryInv'
  BY <1>0, <1>2 DEF EntryInv, Live
<1> DEFINE from == <<"flushing", s>>
           to   == <<"down", s>>
<1>11. /\ from \in Place /\ to \in Place /\ from # to
       /\ Queues[from] = flushing[s] /\ Queues[to] = down[s]
       /\ Queues'[from] = Tail(flushing[s]) /\ Queues'[to] = down'[s]
  BY <1>8, QueueAt DEF Queues, Place
<1>12. \A p \in Place \ {from, to} : Queues'[p] = Queues[p]
  <2> TAKE p \in Place \ {from, to}
  <2>1. CASE \E v \in User : p = <<"pending", v>>
    BY <1>2, <2>1 DEF Queues, Place
  <2>2. CASE \E t \in Socket : \E kind \in {"flushing", "down", "received"} : p = <<kind, t>>
    <3>1. PICK t \in Socket, kind \in {"flushing", "down", "received"} : p = <<kind, t>>
      BY <2>2
    <3> QED BY <1>2, <1>6, <1>8, <3>1 DEF Queues, Place
  <2> QED BY <2>1, <2>2, QueueAt
<1>13. OneCopy(Queues) /\ AllTaken(Queues, accepted)
  BY <1>0 DEF CopiesInv
<1>14. \A t \in Socket : OnlyInits(flushing'[t])
  <2>1. OnlyInits(Tail(flushing[s]))
    BY <1>0, <1>1, <1>4, QueueTail DEF CopiesInv, OnlyInits
  <2> QED BY <1>0, <1>8, <2>1 DEF CopiesInv
<1> HIDE DEF from, to
<1>15. OneCopy(Queues') /\ AllTaken(Queues', accepted)
  <2>1. CASE down'[s] = down[s]
    <3>1. \A p \in Place \ {from} : Queues'[p] = Queues[p]
      BY <1>11, <1>12, <2>1
    <3>2. Queues[from] \in Seq(Frames) /\ Queues[from] # << >> /\ Queues'[from] = Tail(Queues[from])
      BY <1>1, <1>4, <1>11
    <3> QED BY <1>11, <1>13, <3>1, <3>2, CopyLess
  <2>2. CASE down'[s] = Append(down[s], g)
    <3>1. /\ Queues[from] \in Seq(Frames) /\ Queues[from] # << >> /\ Queues'[from] = Tail(Queues[from])
          /\ Queues[to] \in Seq(Frames) /\ Queues'[to] = Append(Queues[to], Head(Queues[from]))
      BY <1>1, <1>4, <1>6, <1>11, <2>2
    <3> QED BY <1>11, <1>12, <1>13, <3>1, CopyMove
  <2> QED BY <1>6, <2>1, <2>2
<1>16. CopiesInv'
  BY <1>0, <1>2, <1>14, <1>15 DEF CopiesInv
<1> QED BY <1>3, <1>6, <1>7, <1>9, <1>10, <1>16 DEF RelayInv

\* The handler of a closed socket ends.
LEMMA EndsRelay ==
    ASSUME RelayInv, NEW s \in Socket, HandlerEnds(s)
    PROVE  RelayInv'
<1>0. TypeOK /\ SocketInv /\ EntryInv /\ PassedInv /\ OrderInv /\ CopiesInv
  BY DEF RelayInv
<1>1. /\ handler' = [handler EXCEPT ![s] = "ended"] /\ handler[s] = "reading" /\ up[s] = << >>
      /\ UNCHANGED <<connections, ephemeral_pubs, bundles, pending_inits, username, flushing, up,
                     down, accepted, owner, phase, received, doubled, frames, closed>>
  BY DEF HandlerEnds, Globals, client
<1>2. UpInv'
  BY <1>1, UpSame
<1>3. TypeOK'
  BY <1>0, <1>1 DEF TypeOK
<1>4. SocketInv'
  <2>1. /\ handler'[s] = "ended" /\ \A t \in Socket \ {s} : handler'[t] = handler[t]
    BY <1>0, <1>1 DEF TypeOK
  <2>2. phase[s] # "unused" /\ username[s] # None
    <3>1. SocketOk(s)
      BY <1>0 DEF SocketInv
    <3>2. phase[s] # "unused"
      BY <1>1, <3>1 DEF SocketOk
    <3>3. <<Frame("register", owner[s], <<s, 0>>)>> # << >>
      OBVIOUS
    <3> QED BY <1>1, <3>1, <3>2, <3>3 DEF SocketOk
  <2>3. SocketOk(s)'
    <3>1. SocketOk(s)
      BY <1>0 DEF SocketInv
    <3> QED BY <1>1, <2>1, <2>2, <3>1 DEF SocketOk
  <2>4. ASSUME NEW t \in Socket \ {s} PROVE SocketOk(t)'
    BY <1>0, <1>1, <2>1 DEF SocketInv, SocketOk
  <2> QED BY <2>3, <2>4 DEF SocketInv
<1>5. EntryInv' /\ PassedInv' /\ OrderInv'
  BY <1>0, <1>1 DEF EntryInv, Live, PassedInv, OrderInv
<1>6. CopiesInv'
  BY <1>0, <1>1 DEF CopiesInv, Queues
<1> QED BY <1>2, <1>3, <1>4, <1>5, <1>6 DEF RelayInv

\* A session_init is new when it is taken; it is passed on or queued.
LEMMA SessionInitRelay ==
    ASSUME RelayInv, NEW s \in Socket, HandleSessionInit(s)
    PROVE  RelayInv'
<1>0. TypeOK /\ SocketInv /\ EntryInv /\ PassedInv /\ OrderInv /\ CopiesInv
  BY DEF RelayInv
<1> PICK f : f = Head(up[s])
  OBVIOUS
<1>1. Reads(s, {"session_init"})
  BY DEF HandleSessionInit
<1>2. /\ f \in Frames /\ f.type = "session_init" /\ f.user \in User
      /\ username[s] # None /\ username[s] \in User
      /\ up' \in [Socket -> Seq(Frames)] /\ \A x \in Socket \ {s} : up'[x] = up[x]
  BY <1>1, ReadUp, NamedReader DEF UpOk
<1> PICK to \in User : to = f.user
  BY <1>2
<1> DEFINE init == Frame("session_init", username[s], f.ref)
<1>3. init \in Frames /\ IsInit(init) /\ ~ IsMsg(init) /\ init.ref = f.ref /\ Numbered(f)
  <2>1. init \in Frames /\ init.type = "session_init" /\ init.ref = f.ref
    BY <1>2, FrameOk, FrameParts DEF Types
  <2> QED BY <1>2, <2>1 DEF IsInit, IsMsg, Numbered
<1>4. /\ accepted' = accepted \cup {init}
      /\ \/ /\ connections[to] # None /\ Deliver(connections[to], init)
            /\ UNCHANGED pending_inits
         \/ /\ connections[to] = None /\ UNCHANGED down
            /\ pending_inits' = [pending_inits EXCEPT ![to] = Append(pending_inits[to], init)]
      /\ UNCHANGED <<connections, ephemeral_pubs, bundles, username, handler, flushing,
                     owner, phase, received, doubled, frames, closed>>
  BY <1>2 DEF HandleSessionInit, Locals, client
<1> HIDE DEF init
<1>5. /\ UpInv'
      /\ \A x \in Frames : PassedOk(x, phase, frames, up) => PassedOk(x, phase', frames', up')
      /\ PassedOk(init, phase', frames', up')
      /\ \A x \in Frames : PassedOk(x, phase, frames, up) /\ x.ref[1] = init.ref[1]
                              => x.ref[2] < init.ref[2]
  BY <1>1, <1>3, <1>4, ReadKept
<1>6. init \notin accepted
  <2> SUFFICES ASSUME init \in accepted PROVE FALSE
    OBVIOUS
  <2>1. PassedOk(init, phase, frames, up)
    BY <1>0 DEF PassedInv
  <2>2. init.ref[2] < init.ref[2] /\ init.ref[2] \in Nat
    BY <1>3, <1>5, <2>1, FrameParts
  <2> QED BY <2>2
<1>7. \A x \in accepted' : x \in accepted \/ (IsInit(x) /\ PassedOk(x, phase', frames', up'))
  BY <1>3, <1>4, <1>5
<1>8. EntryInv'
  BY <1>0, <1>4 DEF EntryInv, Live
<1>9. OneCopy(Queues) /\ AllTaken(Queues, accepted)
  BY <1>0 DEF CopiesInv
<1>10. CASE connections[to] # None
  <2> PICK t \in Socket : t = connections[to]
    BY <1>0, <1>10 DEF TypeOK
  <2>1. Deliver(t, init) /\ pending_inits' = pending_inits /\ username[t] = to /\ to # None
    BY <1>0, <1>4, <1>10, RelayAssumption DEF EntryInv
  <2>2. /\ PassedInv' /\ OrderInv'
        /\ down' \in [Socket -> Seq(Frames)] /\ down[t] \in Seq(Frames)
        /\ \A x \in Socket \ {t} : down'[x] = down[x]
        /\ down'[t] \in {down[t], Append(down[t], init)}
    BY <1>0, <1>3, <1>4, <1>5, <1>7, <2>1, FrameDown
  <2>3. TypeOK'
    BY <1>0, <1>2, <1>3, <1>4, <2>1, <2>2 DEF TypeOK
  <2>4. SocketInv'
    <3> SUFFICES ASSUME NEW x \in Socket PROVE SocketOk(x)'
      BY DEF SocketInv
    <3>1. SocketOk(x)
      BY <1>0 DEF SocketInv
    <3>2. username[x] = None => down'[x] = down[x] /\ up'[x] = up[x]
      BY <1>2, <2>1, <2>2
    <3>3. phase[x] = "unused" => username[x] = None
      BY <3>1 DEF SocketOk
    <3> QED BY <1>4, <3>1, <3>2, <3>3 DEF SocketOk
  <2>5. CopiesInv'
    <3> DEFINE at == <<"down", t>>
    <3>1. /\ at \in Place /\ Queues[at] = down[t] /\ Queues'[at] = down'[t]
          /\ \A p \in Place \ {at} : Queues'[p] = Queues[p]
      BY <1>4, <2>1, <2>2, QueuesDown
    <3> HIDE DEF at
    <3>2. OneCopy(Queues') /\ AllTaken(Queues', accepted')
      <4>1. CASE down'[t] = down[t]
        <5>1. \A p \in Place : Queues'[p] = Queues[p]
          BY <3>1, <4>1
        <5> QED BY <1>4, <1>9, <5>1 DEF OneCopy, AllTaken
      <4>2. CASE down'[t] = Append(down[t], init)
        <5>1. Queues'[at] = Append(Queues[at], init) /\ Queues[at] \in Seq(Frames)
          BY <2>2, <3>1, <4>2
        <5>2. OneCopy(Queues') /\ AllTaken(Queues', accepted \cup {init})
          BY <1>3, <1>6, <1>9, <3>1, <5>1, CopyMore, ZenonT(40)
        <5> QED BY <1>4, <5>2
      <4> QED BY <2>2, <4>1, <4>2
    <3> QED BY <1>0, <1>4, <2>1, <3>2 DEF CopiesInv
  <2> QED BY <1>5, <1>8, <2>2, <2>3, <2>4, <2>5 DEF RelayInv
<1>11. CASE connections[to] = None
  <2>1. /\ down' = down
        /\ pending_inits' = [pending_inits EXCEPT ![to] = Append(pending_inits[to], init)]
    BY <1>4, <1>11
  <2>2. PassedInv' /\ OrderInv'
    BY <1>0, <1>3, <1>4, <1>5, <1>7, <2>1, FrameDown
  <2>3. /\ pending_inits[to] \in Seq(Frames) /\ Append(pending_inits[to], init) \in Seq(Frames)
        /\ \A j \in 1..Len(Append(pending_inits[to], init)) :
              \/ Append(pending_inits[to], init)[j] = init
              \/ /\ j \in 1..Len(pending_inits[to])
                 /\ Append(pending_inits[to], init)[j] = pending_inits[to][j]
    <3>1. pending_inits[to] \in Seq(Frames)
      BY <1>0 DEF TypeOK
    <3> QED BY <1>3, <3>1, QueueAppend
  <2>4. /\ pending_inits' \in [User -> Seq(Frames)]
        /\ pending_inits'[to] = Append(pending_inits[to], init)
        /\ \A v \in User \ {to} : pending_inits'[v] = pending_inits[v]
    BY <1>0, <2>1, <2>3 DEF TypeOK
  <2>5. TypeOK'
    BY <1>0, <1>2, <1>3, <1>4, <2>1, <2>4 DEF TypeOK
  <2>6. SocketInv'
    <3> SUFFICES ASSUME NEW x \in Socket PROVE SocketOk(x)'
      BY DEF SocketInv
    <3>1. SocketOk(x)
      BY <1>0 DEF SocketInv
    <3>2. username[x] = None => up'[x] = up[x]
      BY <1>2
    <3>3. phase[x] = "unused" => username[x] = None
      BY <3>1 DEF SocketOk
    <3> QED BY <1>4, <2>1, <3>1, <3>2, <3>3 DEF SocketOk
  <2>7. CopiesInv'
    <3> DEFINE at == <<"pending", to>>
    <3>1. /\ at \in Place /\ Queues[at] = pending_inits[to]
          /\ Queues'[at] = Append(pending_inits[to], init)
      BY <2>4, QueueAt DEF Queues, Place
    <3>2. \A p \in Place \ {at} : Queues'[p] = Queues[p]
      <4> TAKE p \in Place \ {at}
      <4>1. CASE \E v \in User : p = <<"pending", v>>
        <5>1. PICK v \in User : p = <<"pending", v>>
          BY <4>1
        <5> QED BY <2>4, <5>1 DEF Queues, Place
      <4>2. CASE \E x \in Socket : \E kind \in {"flushing", "down", "received"} : p = <<kind, x>>
        <5>1. PICK x \in Socket, kind \in {"flushing", "down", "received"} : p = <<kind, x>>
          BY <4>2
        <5>2. p[1] = kind /\ p[2] = x /\ kind # "pending"
          BY <5>1
        <5>3. /\ flushing' = flushing /\ down' = down /\ received' = received
          BY <1>4, <2>1
        <5>4. Queues'[p] = CASE kind = "flushing" -> flushing'[x] [] kind = "down" -> down'[x]
                             [] OTHER -> received'[x]
          BY <5>2 DEF Queues
        <5>5. Queues[p] = CASE kind = "flushing" -> flushing[x] [] kind = "down" -> down[x]
                            [] OTHER -> received[x]
          BY <5>2 DEF Queues
        <5> QED BY <5>3, <5>4, <5>5
      <4> QED BY <4>1, <4>2, QueueAt
    <3> HIDE DEF at
    <3>3. Queues'[at] = Append(Queues[at], init) /\ Queues[at] \in Seq(Frames)
      BY <2>3, <3>1
    <3>4. OneCopy(Queues') /\ AllTaken(Queues', accepted \cup {init})
      BY <1>3, <1>6, <1>9, <3>1, <3>2, <3>3, CopyMore, ZenonT(40)
    <3>5. \A v \in User : OnlyInits(pending_inits'[v])
      <4>1. OnlyInits(Append(pending_inits[to], init))
        BY <1>0, <1>3, <2>3 DEF CopiesInv, OnlyInits
      <4> QED BY <1>0, <2>4, <4>1 DEF CopiesInv
    <3> QED BY <1>0, <1>4, <3>4, <3>5 DEF CopiesInv
  <2> QED BY <1>5, <1>8, <2>2, <2>5, <2>6, <2>7 DEF RelayInv
<1> QED BY <1>10, <1>11

-----------------------------------------------------------------------------
(* The clients. *)

\* The frame that a client sends over s as it goes to the phase `at'.
Sendable(g, s, at) ==
    /\ g \in Frames /\ g.user \in User /\ g.type # "register"
    /\ Numbered(g) => /\ g.ref[1] = s /\ g.ref[2] <= frames' /\ at \notin StartUp
                      /\ phase[s] \in StartUp \/ frames < g.ref[2]

\* The unread frames when a client that has registered sends one more, or when
\* none is sent.
LEMMA UpMore ==
    ASSUME RelayInv, NEW s \in Socket, NEW at \in Phases,
           phase' = [phase EXCEPT ![s] = at], at \in StartUp => phase[s] \in StartUp,
           UNCHANGED username, frames' \in Nat, frames <= frames',
           \/ up' = up
           \/ /\ username[s] # None
              /\ \E g \in Frames : Sendable(g, s, at) /\ up' = [up EXCEPT ![s] = Append(up[s], g)]
    PROVE  /\ UpInv' /\ up' \in [Socket -> Seq(Frames)]
           /\ \A t \in Socket \ {s} : up'[t] = up[t]
           /\ username[s] = None => up' = up
           /\ \A f \in Frames : PassedOk(f, phase, frames, up) => PassedOk(f, phase', frames', up')
<1>0. TypeOK /\ UpInv
  BY DEF RelayInv
<1>1. up \in [Socket -> Seq(Frames)] /\ frames \in Nat
  BY <1>0 DEF TypeOK
<1>2. /\ phase'[s] = at /\ \A t \in Socket \ {s} : phase'[t] = phase[t]
      /\ \A t \in Socket : phase'[t] \in StartUp => phase[t] \in StartUp
  BY <1>0 DEF TypeOK
<1>3. ASSUME NEW t \in Socket, NEW j \in 1..Len(up[t])
      PROVE  /\ UpOk(up[t][j], t, username[t], phase'[t], frames') /\ up[t][j] \in Frames
             /\ Numbered(up[t][j]) => phase[t] \notin StartUp /\ up[t][j].ref[2] <= frames
  <2>1. up[t][j] \in Frames
    BY <1>1, ElementOfSeq
  <2>2. up[t][j].ref[2] \in Nat
    BY <2>1, FrameParts
  <2>3. UpOk(up[t][j], t, username[t], phase[t], frames)
    BY <1>0 DEF UpInv
  <2>4. up[t][j].ref[2] <= frames => up[t][j].ref[2] <= frames'
    BY <1>1, <2>2
  <2> QED BY <1>2, <2>1, <2>3, <2>4 DEF UpOk
<1>4. CASE up' = up
  <2>1. UpInv'
    BY <1>0, <1>3, <1>4 DEF UpInv
  <2>2. ASSUME NEW f \in Frames, PassedOk(f, phase, frames, up)
        PROVE  PassedOk(f, phase', frames', up')
    BY <1>0, <1>1, <1>2, <1>4, <2>2, PassedKept
  <2> QED BY <1>1, <1>4, <2>1, <2>2
<1>5. CASE /\ username[s] # None
           /\ \E g \in Frames : Sendable(g, s, at) /\ up' = [up EXCEPT ![s] = Append(up[s], g)]
  <2>1. PICK g \in Frames : Sendable(g, s, at) /\ up' = [up EXCEPT ![s] = Append(up[s], g)]
    BY <1>5
  <2>2. /\ Len(up[s]) \in Nat /\ Append(up[s], g) \in Seq(Frames)
        /\ \A j \in 1..Len(Append(up[s], g)) :
              \/ j = Len(up[s]) + 1 /\ Append(up[s], g)[j] = g
              \/ j \in 1..Len(up[s]) /\ Append(up[s], g)[j] = up[s][j]
    <3>1. up[s] \in Seq(Frames)
      BY <1>1
    <3> QED BY <3>1, QueueAppend
  <2>3. /\ up' \in [Socket -> Seq(Frames)] /\ up'[s] = Append(up[s], g)
        /\ \A t \in Socket \ {s} : up'[t] = up[t]
    BY <1>1, <2>1, <2>2
  <2>4. ASSUME NEW t \in Socket, NEW j \in 1..Len(up'[t])
        PROVE  \/ t = s /\ j = Len(up[s]) + 1 /\ up'[t][j] = g
               \/ j \in 1..Len(up[t]) /\ up'[t][j] = up[t][j]
    BY <2>2, <2>3
  <2>5. UpOk(g, s, username[s], phase'[s], frames')
    BY <1>2, <2>1 DEF Sendable, UpOk
  <2>6. ASSUME NEW j \in 1..Len(up[s]), Numbered(up[s][j]), Numbered(g)
        PROVE  up[s][j].ref[2] < g.ref[2]
    <3>1. phase[s] \notin StartUp /\ up[s][j].ref[2] <= frames /\ up[s][j] \in Frames
      BY <1>3, <2>6
    <3>2. frames < g.ref[2]
      BY <2>1, <2>6, <3>1 DEF Sendable
    <3>3. up[s][j].ref[2] \in Nat /\ g.ref[2] \in Nat
      BY <3>1, FrameParts
    <3> QED BY <1>1, <3>1, <3>2, <3>3
  <2>7. UpInv'
    <3>1. ASSUME NEW t \in Socket, NEW j \in 1..Len(up'[t])
          PROVE  UpOk(up'[t][j], t, username[t], phase'[t], frames')
      BY <1>3, <2>4, <2>5
    <3>2. ASSUME NEW t \in Socket, NEW j \in 1..Len(up'[t]), NEW k \in 1..Len(up'[t]), j < k,
                 Numbered(up'[t][j]), Numbered(up'[t][k])
          PROVE  up'[t][j].ref[2] < up'[t][k].ref[2]
      <4>1. CASE t # s
        BY <1>0, <2>3, <3>2, <4>1 DEF UpInv
      <4>2. CASE t = s
        <5>1. j \in 1..Len(up[s]) /\ up'[s][j] = up[s][j]
          <6>1. \/ k = Len(up[s]) + 1
                \/ k \in 1..Len(up[s])
            BY <2>4, <4>2
          <6>2. j # Len(up[s]) + 1
            BY <2>2, <3>2, <6>1
          <6> QED BY <2>4, <4>2, <6>2
        <5>2. CASE k \in 1..Len(up[s]) /\ up'[s][k] = up[s][k]
          BY <1>0, <3>2, <4>2, <5>1, <5>2 DEF UpInv
        <5>3. CASE up'[s][k] = g
          BY <2>6, <3>2, <4>2, <5>1, <5>3
        <5> QED BY <2>4, <4>2, <5>2, <5>3
      <4> QED BY <4>1, <4>2
    <3> QED BY <3>1, <3>2 DEF UpInv
  <2>8. ASSUME NEW t \in Socket, NEW j \in 1..Len(up'[t]), Numbered(up'[t][j])
        PROVE  \/ \E k \in 1..Len(up[t]) : up[t][k] = up'[t][j]
               \/ phase[t] \in StartUp
               \/ frames < up'[t][j].ref[2]
    <3>1. CASE t = s /\ up'[t][j] = g
      BY <2>1, <2>8, <3>1 DEF Sendable
    <3>2. CASE j \in 1..Len(up[t]) /\ up'[t][j] = up[t][j]
      BY <3>2
    <3> QED BY <2>4, <3>1, <3>2
  <2>9. ASSUME NEW f \in Frames, PassedOk(f, phase, frames, up)
        PROVE  PassedOk(f, phase', frames', up')
    BY <1>0, <1>2, <2>3, <2>8, <2>9, PassedKept
  <2> QED BY <1>5, <2>3, <2>7, <2>9
<1> QED BY <1>4, <1>5

\* A client goes on to another phase, sends or does not send a frame, and takes
\* one frame, none, or loses them all.
LEMMA ClientStep ==
    ASSUME RelayInv, NEW s \in Socket, NEW at \in Phases \ {"unused"}, Live(s),
           phase' = [phase EXCEPT ![s] = at], at \in StartUp => phase[s] \in StartUp,
           username[s] = None => at = "abandoned",
           UNCHANGED <<connections, ephemeral_pubs, bundles, pending_inits, username, handler,
                       flushing, accepted, owner, received, doubled>>,
           frames' \in 0..MaxFrames, frames <= frames', closed' \in 0..MaxClosed,
           NEW d, down' = [down EXCEPT ![s] = d],
           d \in {down[s], << >>} \/ (down[s] # << >> /\ d = Tail(down[s])),
           \/ up' = up
           \/ /\ username[s] # None
              /\ \E g \in Frames : Sendable(g, s, at) /\ up' = [up EXCEPT ![s] = Append(up[s], g)]
    PROVE  RelayInv'
<1>0. TypeOK /\ SocketInv /\ EntryInv /\ PassedInv /\ OrderInv /\ CopiesInv
  BY DEF RelayInv
<1>1. /\ UpInv' /\ up' \in [Socket -> Seq(Frames)]
      /\ \A t \in Socket \ {s} : up'[t] = up[t]
      /\ username[s] = None => up' = up
      /\ \A f \in Frames : PassedOk(f, phase, frames, up) => PassedOk(f, phase', frames', up')
  <2>1. frames' \in Nat
    BY RelayAssumption
  <2> QED BY <2>1, UpMore
<1>2. /\ phase'[s] = at /\ \A t \in Socket \ {s} : phase'[t] = phase[t]
      /\ down'[s] = d /\ \A t \in Socket \ {s} : down'[t] = down[t]
  BY <1>0 DEF TypeOK
<1>3. PassedInv' /\ OrderInv' /\ CopiesInv'
  BY <1>0, <1>1, <1>2, NothingSent
<1>4. TypeOK'
  <2>1. down[s] \in Seq(Frames)
    BY <1>0 DEF TypeOK
  <2>2. d \in Seq(Frames)
    <3>1. << >> \in Seq(Frames)
      OBVIOUS
    <3>2. CASE down[s] # << >> /\ d = Tail(down[s])
      BY <2>1, <3>2, QueueTail
    <3> QED BY <2>1, <3>1, <3>2
  <2>3. down' \in [Socket -> Seq(Frames)]
    BY <1>0, <2>2 DEF TypeOK
  <2>4. phase' \in [Socket -> Phases]
    BY <1>0 DEF TypeOK, Phases
  <2> QED BY <1>0, <1>1, <2>3, <2>4 DEF TypeOK, Phases
<1>5. SocketInv'
  <2>1. SocketOk(s)'
    <3>1. SocketOk(s) /\ phase[s] # "unused"
      BY <1>0 DEF SocketInv, Live
    <3>2. /\ username'[s] = username[s] /\ owner'[s] = owner[s] /\ handler'[s] = handler[s]
          /\ flushing'[s] = flushing[s] /\ phase'[s] = at /\ at # "unused"
      BY <1>2
    <3>3. username[s] = None => at = "abandoned" /\ up'[s] = up[s] /\ down'[s] = << >>
      BY <1>1, <1>2, <3>1 DEF SocketOk
    <3> QED BY <3>1, <3>2, <3>3 DEF SocketOk
  <2>2. ASSUME NEW t \in Socket \ {s} PROVE SocketOk(t)'
    <3>1. /\ up'[t] = up[t] /\ down'[t] = down[t] /\ username'[t] = username[t]
          /\ handler'[t] = handler[t] /\ owner'[t] = owner[t] /\ phase'[t] = phase[t]
          /\ flushing'[t] = flushing[t]
      BY <1>1, <1>2
    <3>2. SocketOk(t)
      BY <1>0 DEF SocketInv
    <3> QED BY <3>1, <3>2 DEF SocketOk
  <2> QED BY <2>1, <2>2 DEF SocketInv
<1>6. EntryInv'
  <2>1. \A t \in Socket : /\ Live(t)' => Live(t)
                          /\ phase[t] = "abandoned" => phase'[t] = "abandoned"
    BY <1>2 DEF Live
  <2>2. ASSUME NEW t \in Socket, t \notin doubled, Live(t)', username[t] # None,
               \A x \in Socket : owner[x] = owner[t] => phase'[x] # "abandoned"
        PROVE  connections[owner[t]] = t
    BY <1>0, <2>1, <2>2 DEF EntryInv
  <2>3. \A t, x \in Socket :
          t \notin doubled /\ Live(t)' /\ Live(x)' /\ owner[t] = owner[x] => t = x
    BY <1>0, <2>1 DEF EntryInv
  <2> QED BY <1>0, <2>2, <2>3 DEF EntryInv
<1> QED BY <1>1, <1>3, <1>4, <1>5, <1>6 DEF RelayInv

\* A client sends a frame, or closes its socket.
LEMMA SendFrameRelay ==
    ASSUME RelayInv, NEW s \in Socket, NEW type \in {"msg", "session_init", "unknown"},
           SendFrame(s, type)
    PROVE  RelayInv'
<1>0. TypeOK /\ SocketInv
  BY DEF RelayInv
<1> DEFINE g == Frame(type, Peer(owner[s]), <<s, frames + 1>>)
<1>1. /\ phase[s] = "running" /\ frames < MaxFrames /\ frames' = frames + 1
      /\ up' = [up EXCEPT ![s] = Append(up[s], g)]
      /\ UNCHANGED <<connections, ephemeral_pubs, bundles, pending_inits, username, handler,
                     flushing, accepted, owner, phase, down, received, doubled, closed>>
  BY DEF SendFrame, server
<1>2. frames \in Nat /\ frames' \in 0..MaxFrames /\ frames <= frames' /\ closed' \in 0..MaxClosed
  BY <1>0, <1>1, RelayAssumption DEF TypeOK
<1>3. owner[s] \in User /\ username[s] # None
  BY <1>0, <1>1 DEF SocketInv, SocketOk
<1>4. /\ g \in Frames /\ g.user \in User /\ g.type = type /\ g.ref = <<s, frames + 1>>
  <2>1. Peer(owner[s]) \in User
    BY <1>3, PeerIsUser
  <2>2. <<s, frames + 1>> \in (0..MaxSockets) \X (0..MaxFrames)
    BY <1>1, <1>2 DEF Socket
  <2>3. type \in Types
    BY DEF Types
  <2> QED BY <2>1, <2>2, <2>3, FrameOk
<1> HIDE DEF g
<1>5. Sendable(g, s, "running")
  <2>1. g.ref[1] = s /\ g.ref[2] <= frames' /\ frames < g.ref[2]
    BY <1>1, <1>2, <1>4
  <2>2. g.type # "register" /\ "running" \notin StartUp
    BY <1>4 DEF StartUp
  <2> QED BY <1>4, <2>1, <2>2 DEF Sendable
<1>6. /\ phase' = [phase EXCEPT ![s] = "running"] /\ down' = [down EXCEPT ![s] = down[s]]
      /\ "running" \in Phases \ {"unused"} /\ "running" \notin StartUp /\ Live(s)
  BY <1>0, <1>1 DEF TypeOK, Phases, StartUp, Live
<1> QED BY <1>1, <1>2, <1>3, <1>4, <1>5, <1>6, ClientStep

LEMMA CloseRelay ==
    ASSUME RelayInv, NEW s \in Socket, Close(s)
    PROVE  RelayInv'
<1>0. TypeOK /\ SocketInv
  BY DEF RelayInv
<1> PICK at : at = IF phase[s] = "registering" THEN "abandoned" ELSE "closed"
  OBVIOUS
<1>1. /\ Live(s) /\ closed < MaxClosed /\ closed' = closed + 1
      /\ phase' = [phase EXCEPT ![s] = at] /\ down' = [down EXCEPT ![s] = << >>]
      /\ UNCHANGED <<connections, ephemeral_pubs, bundles, pending_inits, username, handler,
                     flushing, accepted, owner, up, received, doubled, frames>>
  BY DEF Close, server
<1>2. frames' \in 0..MaxFrames /\ frames <= frames' /\ closed' \in 0..MaxClosed
  BY <1>0, <1>1, RelayAssumption DEF TypeOK
<1>3. at \in Phases \ {"unused"} /\ at \notin StartUp
  BY DEF Phases, StartUp
<1>4. username[s] = None => at = "abandoned"
  BY <1>0, <1>1 DEF SocketInv, SocketOk, Live
<1> QED BY <1>1, <1>2, <1>3, <1>4, ClientStep

\* The frames of a client's start-up.
LEMMA RequestOk ==
    ASSUME RelayInv, NEW s \in Socket, owner[s] \in User,
           UNCHANGED frames, NEW u \in User, NEW at \in Phases
    PROVE  /\ \A type \in {"upload_bundle", "get_bundle", "get_peer"} :
                 Sendable(Frame(type, u, NoRef), s, at)
           /\ phase[s] \in StartUp /\ at = "running"
                 => Sendable(Frame("session_init", u, <<s, 0>>), s, at)
<1>1. frames \in Nat /\ 0 <= frames
  BY DEF RelayInv, TypeOK
<1>2. ASSUME NEW type \in {"upload_bundle", "get_bundle", "get_peer"}
      PROVE  Sendable(Frame(type, u, NoRef), s, at)
  <2> DEFINE g == Frame(type, u, NoRef)
  <2>1. g \in Frames /\ g.user = u /\ g.type = type
    <3>1. NoRef \in (0..MaxSockets) \X (0..MaxFrames) /\ type \in Types
      BY RelayAssumption DEF NoRef, Types
    <3> QED BY <3>1, FrameOk
  <2> HIDE DEF g
  <2>2. ~ Numbered(g) /\ g.type # "register"
    BY <2>1 DEF Numbered, IsMsg, IsInit
  <2>3. Sendable(g, s, at)
    BY <2>1, <2>2 DEF Sendable
  <2> QED BY <2>3 DEF g
<1>3. ASSUME phase[s] \in StartUp, at = "running"
      PROVE  Sendable(Frame("session_init", u, <<s, 0>>), s, at)
  <2> DEFINE g == Frame("session_init", u, <<s, 0>>)
  <2>1. g \in Frames /\ g.user = u /\ g.type = "session_init" /\ g.ref = <<s, 0>>
    <3>1. <<s, 0>> \in (0..MaxSockets) \X (0..MaxFrames) /\ "session_init" \in Types
      BY RelayAssumption DEF Socket, Types
    <3> QED BY <3>1, FrameOk
  <2> HIDE DEF g
  <2>2. g.ref[1] = s /\ g.ref[2] <= frames' /\ at \notin StartUp
    BY <1>1, <1>3, <2>1 DEF StartUp
  <2>3. Sendable(g, s, at)
    BY <1>3, <2>1, <2>2 DEF Sendable
  <2> QED BY <2>3 DEF g
<1> QED BY <1>2, <1>3

\* A client takes the next frame as the answer to its request.
LEMMA AnsweredStep ==
    ASSUME RelayInv, NEW s \in Socket, NEW expected, NEW request, NEW next, NEW else,
           Answered(s, expected, request, next, else),
           Live(s), next \in Phases \ {"unused"}, else.phase \in Phases \ {"unused"},
           next \in StartUp => phase[s] \in StartUp,
           else.phase \in StartUp => phase[s] \in StartUp,
           request = << >> \/ (\E g \in Frames : request = <<g>> /\ Sendable(g, s, next)),
           \/ else.request = << >>
           \/ \E g \in Frames : else.request = <<g>> /\ Sendable(g, s, else.phase)
    PROVE  RelayInv'
<1>0. TypeOK /\ SocketInv
  BY DEF RelayInv
<1>1. PICK at, rq : /\ \/ at = next /\ rq = request
                       \/ at = else.phase /\ rq = else.request
                    /\ phase' = [phase EXCEPT ![s] = at]
                    /\ up' = [up EXCEPT ![s] = up[s] \o rq]
                    /\ down' = [down EXCEPT ![s] = IF at = "failed" THEN << >> ELSE Tail(down[s])]
                    /\ down[s] # << >>
                    /\ UNCHANGED <<connections, ephemeral_pubs, bundles, pending_inits, username,
                                   handler, flushing, accepted, owner, received, doubled, frames,
                                   closed>>
  BY DEF Answered, server
<1>2. username[s] # None /\ at \in Phases \ {"unused"} /\ (at \in StartUp => phase[s] \in StartUp)
  BY <1>0, <1>1 DEF SocketInv, SocketOk
<1>3. frames' \in 0..MaxFrames /\ frames <= frames' /\ closed' \in 0..MaxClosed
  BY <1>0, <1>1, RelayAssumption DEF TypeOK
<1>4. up \in [Socket -> Seq(Frames)] /\ up[s] \in Seq(Frames)
  BY <1>0 DEF TypeOK
<1>5. \/ up' = up
      \/ \E g \in Frames : Sendable(g, s, at) /\ up' = [up EXCEPT ![s] = Append(up[s], g)]
  <2>1. CASE rq = << >>
    <3>1. up[s] \o rq = up[s]
      BY <1>4, <2>1, ConcatEmptySeq
    <3> QED BY <1>1, <1>4, <3>1
  <2>2. CASE \E g \in Frames : rq = <<g>> /\ Sendable(g, s, at)
    <3>1. PICK g \in Frames : rq = <<g>> /\ Sendable(g, s, at)
      BY <2>2
    <3>2. up[s] \o rq = Append(up[s], g)
      BY <1>4, <3>1, AppendIsConcat
    <3> QED BY <1>1, <3>1, <3>2
  <2> QED BY <1>1, <2>1, <2>2
<1> PICK d : d = IF at = "failed" THEN << >> ELSE Tail(down[s])
  OBVIOUS
<1>6. /\ down' = [down EXCEPT ![s] = d]
      /\ d \in {down[s], << >>} \/ (down[s] # << >> /\ d = Tail(down[s]))
  BY <1>1
<1>7. \/ up' = up
      \/ /\ username[s] # None
         /\ \E g \in Frames : Sendable(g, s, at) /\ up' = [up EXCEPT ![s] = Append(up[s], g)]
  BY <1>2, <1>5
<1>8. /\ phase' = [phase EXCEPT ![s] = at]
      /\ UNCHANGED <<connections, ephemeral_pubs, bundles, pending_inits, username, handler,
                     flushing, accepted, owner, received, doubled>>
  BY <1>1
<1> QED BY <1>2, <1>3, <1>6, <1>7, <1>8, ClientStep

\* The steps of the start-up.
LEMMA StartUpRelay ==
    ASSUME RelayInv, NEW s \in Socket,
           \/ ReadRegistered(s) \/ ReadBundleUploaded(s)
           \/ ReadPeerBundle(s) \/ ReadPeerKey(s)
    PROVE  RelayInv'
<1>0. TypeOK /\ SocketInv
  BY DEF RelayInv
<1>1. Live(s) /\ phase[s] # "unused"
  BY DEF ReadRegistered, ReadBundleUploaded, ReadPeerBundle, ReadPeerKey, Live
<1>2. owner[s] \in User /\ Peer(owner[s]) \in User
  BY <1>0, <1>1, PeerIsUser DEF SocketInv, SocketOk
<1>3. /\ Fails.phase = "failed" /\ Fails.request = << >>
      /\ {"uploading", "fetching_bundle", "fetching_key", "running", "failed"} \subseteq Phases
      /\ "unused" \notin {"uploading", "fetching_bundle", "fetching_key", "running", "failed"}
      /\ {"running", "failed", "fetching_key"} \cap StartUp = {}
      /\ {"registering", "uploading", "fetching_bundle"} \subseteq StartUp
  BY DEF Fails, Phases, StartUp
<1>4. UNCHANGED frames
  BY DEF ReadRegistered, ReadBundleUploaded, ReadPeerBundle, ReadPeerKey, Answered
<1>5. CASE ReadRegistered(s)
  <2>1. CASE Answered(s, "registered", << >>, "running", Fails)
    BY <1>1, <1>3, <2>1, AnsweredStep
  <2>2. CASE Answered(s, "registered", <<Frame("upload_bundle", owner[s], NoRef)>>, "uploading", Fails)
    <3>1. Sendable(Frame("upload_bundle", owner[s], NoRef), s, "uploading")
      BY <1>2, <1>3, <1>4, RequestOk
    <3>2. Frame("upload_bundle", owner[s], NoRef) \in Frames /\ phase[s] \in StartUp
      BY <1>3, <1>5, <3>1 DEF Sendable, ReadRegistered
    <3> QED BY <1>1, <1>3, <2>2, <3>1, <3>2, AnsweredStep
  <2> QED BY <1>5, <2>1, <2>2 DEF ReadRegistered
<1>6. CASE ReadBundleUploaded(s)
  <2> DEFINE g == Frame("get_bundle", Peer(owner[s]), NoRef)
  <2>1. Answered(s, "bundle_uploaded", <<g>>, "fetching_bundle", Fails) /\ phase[s] \in StartUp
    BY <1>3, <1>6 DEF ReadBundleUploaded
  <2>2. Sendable(g, s, "fetching_bundle")
    BY <1>2, <1>3, <1>4, RequestOk
  <2>3. g \in Frames
    BY <2>2 DEF Sendable
  <2> HIDE DEF g
  <2> QED BY <1>1, <1>3, <2>1, <2>2, <2>3, AnsweredStep
<1>7. CASE ReadPeerBundle(s)
  <2> DEFINE g == Frame("session_init", Peer(owner[s]), <<s, 0>>)
             h == Frame("get_peer", Peer(owner[s]), NoRef)
             else == [phase |-> "fetching_key", request |-> <<h>>]
  <2>1. Answered(s, "peer_bundle", <<g>>, "running", else) /\ phase[s] \in StartUp
    BY <1>3, <1>7 DEF ReadPeerBundle
  <2>2. Sendable(g, s, "running") /\ Sendable(h, s, "fetching_key")
    BY <1>2, <1>3, <1>4, <2>1, RequestOk
  <2>3. g \in Frames /\ h \in Frames
    BY <2>2 DEF Sendable
  <2>4. else.phase = "fetching_key" /\ else.request = <<h>>
    OBVIOUS
  <2> HIDE DEF g, h, else
  <2> QED BY <1>1, <1>3, <2>1, <2>2, <2>3, <2>4, AnsweredStep
<1>8. CASE ReadPeerKey(s)
  <2>1. Answered(s, "peer_key", << >>, "running", Fails)
    BY <1>8 DEF ReadPeerKey
  <2> QED BY <1>1, <1>3, <2>1, AnsweredStep
<1> QED BY <1>5, <1>6, <1>7, <1>8

\* A user connects over a new socket.
LEMMA ConnectRelay ==
    ASSUME RelayInv, NEW u \in User, NEW s \in Socket, Connect(u, s)
    PROVE  RelayInv'
<1>0. TypeOK /\ SocketInv /\ UpInv /\ EntryInv /\ PassedInv /\ OrderInv /\ CopiesInv
  BY DEF RelayInv
<1> DEFINE g == Frame("register", u, <<s, 0>>)
<1>1. /\ phase[s] = "unused"
      /\ owner' = [owner EXCEPT ![s] = u] /\ phase' = [phase EXCEPT ![s] = "registering"]
      /\ handler' = [handler EXCEPT ![s] = "reading"] /\ up' = [up EXCEPT ![s] = <<g>>]
      /\ UNCHANGED <<connections, ephemeral_pubs, bundles, pending_inits, username,
                     flushing, down, received, accepted, frames, closed>>
      /\ doubled' = IF LiveOf(u) = {} THEN doubled ELSE doubled \cup LiveOf(u) \cup {s}
  BY DEF Connect
<1>2. SocketOk(s) /\ username[s] = None /\ down[s] = << >> /\ handler[s] = "none"
  BY <1>0, <1>1 DEF SocketInv, SocketOk
<1>3. g \in Frames /\ g.type = "register" /\ g.user = u /\ ~ Numbered(g)
  <2>1. <<s, 0>> \in (0..MaxSockets) \X (0..MaxFrames) /\ "register" \in Types
    BY RelayAssumption DEF Socket, Types
  <2>2. g \in Frames /\ g.type = "register" /\ g.user = u
    BY <2>1, FrameOk
  <2> QED BY <2>2 DEF Numbered, IsMsg, IsInit
<1>4. /\ up'[s] = <<g>> /\ Len(<<g>>) = 1 /\ <<g>>[1] = g /\ <<g>> \in Seq(Frames)
      /\ owner'[s] = u /\ phase'[s] = "registering" /\ handler'[s] = "reading"
      /\ \A t \in Socket \ {s} : /\ up'[t] = up[t] /\ owner'[t] = owner[t]
                                 /\ phase'[t] = phase[t] /\ handler'[t] = handler[t]
  <2>1. Len(<<g>>) = 1 /\ <<g>>[1] = g /\ <<g>> \in Seq(Frames)
    BY <1>3
  <2> QED BY <1>0, <1>1, <2>1 DEF TypeOK
<1> HIDE DEF g
<1>5. TypeOK'
  <2>1. doubled' \subseteq Socket
    BY <1>0, <1>1 DEF TypeOK, LiveOf
  <2> QED BY <1>0, <1>1, <1>4, <2>1 DEF TypeOK
<1>6. \A j \in 1..Len(up'[s]) : up'[s][j] = g
  BY <1>4
<1>7. UpInv'
  <2>1. ASSUME NEW t \in Socket, NEW j \in 1..Len(up'[t])
        PROVE  UpOk(up'[t][j], t, username[t], phase'[t], frames)
    <3>1. CASE t = s
      BY <1>2, <1>3, <1>6, <3>1 DEF UpOk
    <3>2. CASE t # s
      BY <1>0, <1>4, <3>2 DEF UpInv
    <3> QED BY <3>1, <3>2
  <2>2. ASSUME NEW t \in Socket, NEW j \in 1..Len(up'[t]), NEW k \in 1..Len(up'[t]), j < k,
               Numbered(up'[t][j]), Numbered(up'[t][k])
        PROVE  up'[t][j].ref[2] < up'[t][k].ref[2]
    <3>1. CASE t = s
      BY <1>3, <1>6, <2>2, <3>1
    <3>2. CASE t # s
      BY <1>0, <1>4, <2>2, <3>2 DEF UpInv
    <3> QED BY <3>1, <3>2
  <2> QED BY <1>1, <2>1, <2>2 DEF UpInv
<1>8. ASSUME NEW f \in Frames, PassedOk(f, phase, frames, up)
      PROVE  PassedOk(f, phase', frames', up')
  <2>1. \A t \in Socket : phase'[t] \in StartUp => phase[t] \in StartUp
    BY <1>1, <1>4 DEF StartUp
  <2>2. ASSUME NEW t \in Socket, NEW j \in 1..Len(up'[t]), Numbered(up'[t][j])
        PROVE  \E k \in 1..Len(up[t]) : up[t][k] = up'[t][j]
    BY <1>3, <1>4, <1>6, <2>2
  <2>3. frames' \in Nat /\ frames <= frames' /\ up' \in [Socket -> Seq(Frames)]
    BY <1>0, <1>1, <1>5 DEF TypeOK
  <2> QED BY <1>0, <1>8, <2>1, <2>2, <2>3, PassedKept
<1>9. PassedInv' /\ OrderInv' /\ CopiesInv'
  BY <1>0, <1>1, <1>8, NothingSent
<1>10. SocketInv'
  <2>1. SocketOk(s)'
    <3>1. phase'[s] = "registering" /\ owner'[s] = u /\ handler'[s] = "reading"
      BY <1>4
    <3>2. /\ username'[s] = None /\ down'[s] = << >>
          /\ up'[s] = <<Frame("register", owner'[s], <<s, 0>>)>>
      BY <1>1, <1>2, <1>4 DEF g
    <3> QED BY <3>1, <3>2 DEF SocketOk
  <2>2. ASSUME NEW t \in Socket \ {s} PROVE SocketOk(t)'
    <3>1. /\ up'[t] = up[t] /\ down'[t] = down[t] /\ username'[t] = username[t]
          /\ handler'[t] = handler[t] /\ owner'[t] = owner[t] /\ phase'[t] = phase[t]
          /\ flushing'[t] = flushing[t]
      BY <1>1, <1>4
    <3>2. SocketOk(t)
      BY <1>0 DEF SocketInv
    <3> QED BY <3>1, <3>2 DEF SocketOk
  <2> QED BY <2>1, <2>2 DEF SocketInv
<1>11. EntryInv'
  <2>1. \A t \in Socket \ {s} : Live(t)' <=> Live(t)
    BY <1>4 DEF Live
  <2>2. ASSUME NEW t \in Socket, Live(t), owner[t] = u PROVE t \in doubled' /\ s \in doubled'
    <3>1. t \in LiveOf(u)
      BY <2>2 DEF LiveOf
    <3> QED BY <1>1, <3>1
  <2>3. ASSUME NEW t \in Socket, NEW x \in Socket, t \notin doubled', Live(t)', Live(x)',
               owner'[t] = owner'[x]
        PROVE  t = x
    <3>1. t \notin doubled
      BY <1>1, <2>3
    <3>2. CASE t = s
      BY <1>4, <2>1, <2>2, <2>3, <3>2
    <3>3. CASE t # s /\ x = s
      BY <1>4, <2>1, <2>2, <2>3, <3>3
    <3>4. CASE t # s /\ x # s
      BY <1>0, <1>4, <2>1, <2>3, <3>1, <3>4 DEF EntryInv
    <3> QED BY <3>2, <3>3, <3>4
  <2>4. ASSUME NEW t \in Socket, t \notin doubled', Live(t)', username[t] # None,
               \A x \in Socket : owner'[x] = owner'[t] => phase'[x] # "abandoned"
        PROVE  connections[owner'[t]] = t
    <3>1. t # s /\ Live(t) /\ owner'[t] = owner[t] /\ t \notin doubled
      BY <1>1, <1>2, <1>4, <2>1, <2>4
    <3>2. ASSUME NEW x \in Socket, owner[x] = owner[t] PROVE phase[x] # "abandoned"
      BY <1>1, <1>4, <2>4, <3>1, <3>2
    <3> QED BY <1>0, <2>4, <3>1, <3>2 DEF EntryInv
  <2> QED BY <1>0, <1>1, <2>3, <2>4 DEF EntryInv
<1> QED BY <1>5, <1>7, <1>9, <1>10, <1>11 DEF RelayInv

\* run_receiver queues a frame or drops it.
LEMMA ReceiverRelay ==
    ASSUME RelayInv, NEW s \in Socket, RunReceiver(s)
    PROVE  RelayInv'
<1>0. TypeOK /\ SocketInv /\ EntryInv /\ PassedInv /\ OrderInv /\ CopiesInv
  BY DEF RelayInv
<1> PICK g : g = Head(down[s])
  OBVIOUS
<1> PICK r : r = IF g.type \in {"msg", "session_init"} THEN Append(received[s], g) ELSE received[s]
  OBVIOUS
<1>1. /\ phase[s] = "running" /\ down[s] # << >>
      /\ down' = [down EXCEPT ![s] = Tail(down[s])]
      /\ received' = [received EXCEPT ![s] = r] /\ r \in {received[s], Append(received[s], g)}
      /\ UNCHANGED <<connections, ephemeral_pubs, bundles, pending_inits, username, handler,
                     flushing, accepted, owner, phase, up, doubled, frames, closed>>
  BY DEF RunReceiver, server
<1>2. /\ UpInv'
      /\ \A f \in Frames : PassedOk(f, phase, frames, up) => PassedOk(f, phase', frames', up')
  BY <1>1, UpSame
<1>3. /\ down[s] \in Seq(Frames) /\ received[s] \in Seq(Frames)
      /\ down \in [Socket -> Seq(Frames)] /\ received \in [Socket -> Seq(Frames)]
  BY <1>0 DEF TypeOK
<1>4. /\ g \in Frames /\ g = down[s][1] /\ 1 \in 1..Len(down[s]) /\ Tail(down[s]) \in Seq(Frames)
      /\ \A j \in 1..Len(Tail(down[s])) : /\ j + 1 \in 1..Len(down[s])
                                          /\ Tail(down[s])[j] = down[s][j + 1]
  BY <1>1, <1>3, QueueTail
<1>5. /\ Append(received[s], g) \in Seq(Frames)
      /\ \A j \in 1..Len(Append(received[s], g)) :
            \/ Append(received[s], g)[j] = g
            \/ j \in 1..Len(received[s]) /\ Append(received[s], g)[j] = received[s][j]
  BY <1>3, <1>4, QueueAppend
<1>6. /\ down'[s] = Tail(down[s]) /\ received'[s] \in {received[s], Append(received[s], g)}
      /\ \A t \in Socket \ {s} : down'[t] = down[t] /\ received'[t] = received[t]
      /\ down' \in [Socket -> Seq(Frames)] /\ received' \in [Socket -> Seq(Frames)]
  <2>1. r \in Seq(Frames)
    BY <1>1, <1>3, <1>5
  <2> QED BY <1>1, <1>3, <1>4, <2>1
<1>7. TypeOK'
  BY <1>0, <1>1, <1>6 DEF TypeOK
<1>8. PassedInv'
  <2>1. ASSUME NEW t \in Socket, NEW j \in 1..Len(down'[t])
        PROVE  \E k \in 1..Len(down[t]) : down[t][k] = down'[t][j]
    <3>1. CASE t = s
      <4>1. j \in 1..Len(Tail(down[s])) /\ down'[t][j] = Tail(down[s])[j]
        BY <1>6, <3>1
      <4>2. j + 1 \in 1..Len(down[s]) /\ down'[t][j] = down[s][j + 1]
        BY <1>4, <4>1
      <4> QED BY <3>1, <4>2
    <3>2. CASE t # s
      BY <1>6, <3>2
    <3> QED BY <3>1, <3>2
  <2>2. ASSUME NEW t \in Socket, NEW j \in 1..Len(down[t]), IsMsg(down[t][j])
        PROVE  PassedOk(down[t][j], phase, frames, up)
    BY <1>0, <2>2 DEF PassedInv
  <2>3. ASSUME NEW t \in Socket, NEW j \in 1..Len(received'[t]), IsMsg(received'[t][j])
        PROVE  PassedOk(received'[t][j], phase, frames, up)
    <3>1. CASE received'[t][j] = g
      BY <1>4, <2>2, <2>3, <3>1
    <3>2. CASE j \in 1..Len(received[t]) /\ received'[t][j] = received[t][j]
      BY <1>0, <2>3, <3>2 DEF PassedInv
    <3>3. CASE t = s /\ received'[s] = Append(received[s], g)
      BY <1>5, <3>1, <3>2, <3>3
    <3>4. CASE received'[t] = received[t]
      BY <3>2, <3>4
    <3>5. (t = s /\ received'[s] = Append(received[s], g)) \/ received'[t] = received[t]
      BY <1>6
    <3> QED BY <3>3, <3>4, <3>5
  <2>4. ASSUME NEW t \in Socket, NEW j \in 1..Len(down'[t]), IsMsg(down'[t][j])
        PROVE  PassedOk(down'[t][j], phase, frames, up)
    BY <2>1, <2>2, <2>4
  <2>5. \A f \in accepted : IsInit(f) /\ PassedOk(f, phase, frames, up)
    BY <1>0 DEF PassedInv
  <2>6. phase' = phase /\ frames' = frames /\ up' = up /\ accepted' = accepted
    BY <1>1
  <2> QED BY <2>3, <2>4, <2>5, <2>6 DEF PassedInv
<1>9. OrderInv'
  <2> SUFFICES ASSUME NEW t \in Socket
               PROVE  /\ Increasing(down'[t]) /\ Increasing(received'[t])
                      /\ Before(received'[t], down'[t])
    BY DEF OrderInv
  <2>1. Increasing(down[t]) /\ Increasing(received[t]) /\ Before(received[t], down[t])
    BY <1>0 DEF OrderInv
  <2>2. CASE t # s
    BY <1>6, <2>1, <2>2
  <2>3. CASE t = s
    <3>1. /\ Increasing(Append(received[s], g)) /\ Before(Append(received[s], g), Tail(down[s]))
          /\ Before(received[s], Tail(down[s])) /\ Increasing(Tail(down[s]))
      BY <1>1, <1>3, <2>1, <2>3, OrderMove
    <3> QED BY <1>6, <2>1, <2>3, <3>1
  <2> QED BY <2>2, <2>3
<1>10. SocketInv'
  <2> SUFFICES ASSUME NEW t \in Socket PROVE SocketOk(t)'
    BY DEF SocketInv
  <2>1. SocketOk(t)
    BY <1>0 DEF SocketInv
  <2>2. username[t] = None => down'[t] = down[t]
    BY <1>1, <1>6, <2>1 DEF SocketOk
  <2>3. phase[t] = "unused" => username[t] = None
    BY <2>1 DEF SocketOk
  <2> QED BY <1>1, <2>1, <2>2, <2>3 DEF SocketOk
<1>11. EntryInv'
  BY <1>0, <1>1 DEF EntryInv, Live
<1> DEFINE from == <<"down", s>>
           to   == <<"received", s>>
<1>12. /\ from \in Place /\ to \in Place /\ from # to
       /\ Queues[from] = down[s] /\ Queues[to] = received[s]
       /\ Queues'[from] = Tail(down[s]) /\ Queues'[to] = received'[s]
  BY <1>6, QueueAt DEF Queues, Place
<1>13. \A p \in Place \ {from, to} : Queues'[p] = Queues[p]
  <2> TAKE p \in Place \ {from, to}
  <2>1. CASE \E v \in User : p = <<"pending", v>>
    BY <1>1, <2>1 DEF Queues, Place
  <2>2. CASE \E t \in Socket : \E kind \in {"flushing", "down", "received"} : p = <<kind, t>>
    <3>1. PICK t \in Socket, kind \in {"flushing", "down", "received"} : p = <<kind, t>>
      BY <2>2
    <3> QED BY <1>1, <1>6, <3>1 DEF Queues, Place
  <2> QED BY <2>1, <2>2, QueueAt
<1>14. OneCopy(Queues) /\ AllTaken(Queues, accepted)
  BY <1>0 DEF CopiesInv
<1> HIDE DEF from, to
<1>15. OneCopy(Queues') /\ AllTaken(Queues', accepted)
  <2>1. CASE received'[s] = received[s]
    <3>1. \A p \in Place \ {from} : Queues'[p] = Queues[p]
      BY <1>12, <1>13, <2>1
    <3>2. Queues[from] \in Seq(Frames) /\ Queues[from] # << >> /\ Queues'[from] = Tail(Queues[from])
      BY <1>1, <1>3, <1>12
    <3> QED BY <1>12, <1>14, <3>1, <3>2, CopyLess
  <2>2. CASE received'[s] = Append(received[s], g)
    <3>1. /\ Queues[from] \in Seq(Frames) /\ Queues[from] # << >> /\ Queues'[from] = Tail(Queues[from])
          /\ Queues[to] \in Seq(Frames) /\ Queues'[to] = Append(Queues[to], Head(Queues[from]))
      BY <1>1, <1>3, <1>12, <2>2
    <3> QED BY <1>12, <1>13, <1>14, <3>1, CopyMove
  <2> QED BY <1>6, <2>1, <2>2
<1>16. CopiesInv'
  BY <1>0, <1>1, <1>15 DEF CopiesInv
<1> QED BY <1>2, <1>7, <1>8, <1>9, <1>10, <1>11, <1>16 DEF RelayInv

-----------------------------------------------------------------------------
(* The specification. *)

\* At the start no socket is used and nothing has been sent.
LEMMA InitRelay == Init => RelayInv
<1> SUFFICES ASSUME Init PROVE RelayInv
  OBVIOUS
<1>0. /\ << >> \in Seq(Frames) /\ Len(<< >>) = 0 /\ 1..0 = {}
  OBVIOUS
<1>1. TypeOK
  BY <1>0, RelayAssumption DEF Init, TypeOK
<1>2. SocketInv
  BY DEF Init, SocketInv, SocketOk
<1>3. UpInv
  BY <1>0 DEF Init, UpInv
<1>4. EntryInv
  BY DEF Init, EntryInv, Live
<1>5. PassedInv /\ OrderInv
  BY <1>0 DEF Init, PassedInv, OrderInv, Increasing, Before
<1>6. CopiesInv
  <2>1. \A p \in Place : Len(Queues[p]) = 0
    <3>1. \A p \in Place : Queues[p] = << >>
      BY DEF Init, Place, Queues
    <3> QED BY <1>0, <3>1
  <2> QED BY <1>0, <2>1 DEF Init, CopiesInv, OneCopy, AllTaken, OnlyInits
<1> QED BY <1>1, <1>2, <1>3, <1>4, <1>5, <1>6 DEF RelayInv

\* A stuttering step.
LEMMA StutterRelay == RelayInv /\ UNCHANGED vars => RelayInv'
<1> SUFFICES ASSUME RelayInv, UNCHANGED vars PROVE RelayInv'
  OBVIOUS
<1>1. TypeOK' /\ SocketInv'
  BY DEF RelayInv, vars, TypeOK, SocketInv, SocketOk
<1>2. UpInv' /\ EntryInv' /\ PassedInv' /\ OrderInv' /\ CopiesInv'
  BY DEF RelayInv, vars, UpInv, EntryInv, Live, PassedInv, OrderInv, CopiesInv, Queues
<1> QED BY <1>1, <1>2 DEF RelayInv

\* RelayInv holds in every state the relay and its clients reach.
THEOREM SpecRelay == Spec => []RelayInv
<1>1. RelayInv /\ [Next]_vars => RelayInv'
  <2> SUFFICES ASSUME RelayInv, [Next]_vars PROVE RelayInv'
    OBVIOUS
  <2>1. CASE Next
    <3>1. PICK s \in Socket : \/ \E u \in User : Connect(u, s)
                              \/ ClientReads(s)
                              \/ \E type \in {"msg", "session_init", "unknown"} : SendFrame(s, type)
                              \/ Close(s)
                              \/ Handle(s)
      BY <2>1 DEF Next
    <3>2. CASE \E u \in User : Connect(u, s)
      BY <3>2, ConnectRelay
    <3>3. CASE ClientReads(s)
      BY <3>3, StartUpRelay, ReceiverRelay DEF ClientReads
    <3>4. CASE \E type \in {"msg", "session_init", "unknown"} : SendFrame(s, type)
      BY <3>4, SendFrameRelay
    <3>5. CASE Close(s)
      BY <3>5, CloseRelay
    <3>6. CASE Handle(s)
      BY <3>6, RegisterRelay, PopRelay, FlushRelay, RepliesRelay, SessionInitRelay, EndsRelay
         DEF Handle
    <3> QED BY <3>1, <3>2, <3>3, <3>4, <3>5, <3>6
  <2>2. CASE UNCHANGED vars
    BY <2>2, StutterRelay
  <2> QED BY <2>1, <2>2
<1> QED BY <1>1, InitRelay, PTL DEF Spec

\* The variables of the server and of the clients keep their types: in
\* particular no frame is numbered past the bounds and no handler is anywhere
\* else than at one of its awaits.
THEOREM RelayTypeCorrect == Spec => []TypeOK
<1>1. RelayInv => TypeOK
  BY DEF RelayInv
<1> QED BY <1>1, SpecRelay, PTL

\* A client that was told it is registered is the one its frames are forwarded
\* to, as long as its user has not had two clients at once: register overwrites
\* the entry of an earlier connection, and nothing puts the earlier one back.
THEOREM RegisteredClientsReachable == Spec => []RegisteredIsReachable
<1>1. RelayInv => RegisteredIsReachable
  <2> SUFFICES ASSUME RelayInv, NEW s \in Socket, s \notin doubled, Live(s),
                      phase[s] # "registering",
                      \A t \in Socket : owner[t] = owner[s] => phase[t] # "abandoned"
               PROVE  connections[owner[s]] = s
    BY DEF RegisteredIsReachable
  <2>1. SocketInv /\ EntryInv
    BY DEF RelayInv
  <2>2. username[s] # None
    BY <2>1 DEF SocketInv, SocketOk, Live
  <2> QED BY <2>1, <2>2 DEF EntryInv
<1> QED BY <1>1, SpecRelay, PTL

\* A place of a session_init is a queue and a position in it.
LEMMA PlacesAt ==
    ASSUME NEW D, NEW q \in [D -> Seq(Frames)], NEW kind, NEW init, NEW x \in Places(kind, q, init)
    PROVE  \E a \in D : \E j \in 1..Len(q[a]) : x = <<kind, a, j>> /\ q[a][j] = init
<1>1. \E a \in D : \E j \in DOMAIN q[a] : x = <<kind, a, j>> /\ q[a][j] = init
  BY DEF Places
<1>2. \A a \in D : DOMAIN q[a] = 1..Len(q[a])
  OBVIOUS
<1> QED BY <1>1, <1>2

\* A session_init is in at most one of the queues between the relay and the two
\* lists of run_receiver, and there once: popping _pending_inits before the
\* frames are sent leaves nothing for a second register to send again.
THEOREM InitsNeverDuplicated == Spec => []InitNotDuplicated
<1>1. RelayInv => InitNotDuplicated
  <2> SUFFICES ASSUME RelayInv, NEW init \in accepted PROVE Copies(init) <= 1
    BY DEF InitNotDuplicated
  <2>0. /\ TypeOK /\ OneCopy(Queues) /\ IsInit(init)
    BY DEF RelayInv, CopiesInv, PassedInv
  <2> DEFINE All ==      Places("pending", pending_inits, init)
                    \cup Places("flushing", flushing, init)
                    \cup Places("down", down, init)
                    \cup Places("received", received, init)
  <2>1. ASSUME NEW x \in All
        PROVE  \E kind, a, j : /\ x = <<kind, a, j>> /\ <<kind, a>> \in Place
                               /\ j \in 1..Len(Queues[<<kind, a>>])
                               /\ Queues[<<kind, a>>][j] = init
    <3>1. CASE x \in Places("pending", pending_inits, init)
      <4>1. pending_inits \in [User -> Seq(Frames)]
        BY <2>0 DEF TypeOK
      <4>2. PICK a \in User : \E j \in 1..Len(pending_inits[a]) : x = <<"pending", a, j>> /\ pending_inits[a][j] = init
        BY <3>1, <4>1, PlacesAt
      <4>3. <<"pending", a>> \in Place /\ Queues[<<"pending", a>>] = pending_inits[a]
        BY QueueAt
      <4> QED BY <4>2, <4>3
    <3>2. CASE x \in Places("flushing", flushing, init)
      <4>1. flushing \in [Socket -> Seq(Frames)]
        BY <2>0 DEF TypeOK
      <4>2. PICK a \in Socket : \E j \in 1..Len(flushing[a]) : x = <<"flushing", a, j>> /\ flushing[a][j] = init
        BY <3>2, <4>1, PlacesAt
      <4>3. <<"flushing", a>> \in Place /\ Queues[<<"flushing", a>>] = flushing[a]
        BY QueueAt
      <4> QED BY <4>2, <4>3
    <3>3. CASE x \in Places("down", down, init)
      <4>1. down \in [Socket -> Seq(Frames)]
        BY <2>0 DEF TypeOK
      <4>2. PICK a \in Socket : \E j \in 1..Len(down[a]) : x = <<"down", a, j>> /\ down[a][j] = init
        BY <3>3, <4>1, PlacesAt
      <4>3. <<"down", a>> \in Place /\ Queues[<<"down", a>>] = down[a]
        BY QueueAt
      <4> QED BY <4>2, <4>3
    <3>4. CASE x \in Places("received", received, init)
      <4>1. received \in [Socket -> Seq(Frames)]
        BY <2>0 DEF TypeOK
      <4>2. PICK a \in Socket : \E j \in 1..Len(received[a]) : x = <<"received", a, j>> /\ received[a][j] = init
        BY <3>4, <4>1, PlacesAt
      <4>3. <<"received", a>> \in Place /\ Queues[<<"received", a>>] = received[a]
        BY QueueAt
      <4> QED BY <4>2, <4>3
    <3> QED BY <3>1, <3>2, <3>3, <3>4
  <2> HIDE DEF All
  <2>2. ASSUME NEW x \in All, NEW y \in All PROVE x = y
    <3>1. PICK kind, a, j : /\ x = <<kind, a, j>> /\ <<kind, a>> \in Place
                            /\ j \in 1..Len(Queues[<<kind, a>>]) /\ Queues[<<kind, a>>][j] = init
      BY <2>1
    <3>2. PICK k2, b, k : /\ y = <<k2, b, k>> /\ <<k2, b>> \in Place
                          /\ k \in 1..Len(Queues[<<k2, b>>]) /\ Queues[<<k2, b>>][k] = init
      BY <2>1
    <3>3. <<kind, a>> = <<k2, b>> /\ j = k
      BY <2>0, <3>1, <3>2, SameSpot
    <3> QED BY <3>1, <3>2, <3>3
  <2>3. Cardinality(All) <= 1
    <3>1. CASE All = {}
      BY <3>1, FS_EmptySet
    <3>2. CASE All # {}
      <4>1. PICK x : x \in All
        BY <3>2
      <4>2. All = {x}
        BY <2>2, <4>1
      <4>3. Cardinality(All) = 1
        BY <4>2, FS_Singleton
      <4> QED BY <4>3
    <3> QED BY <3>1, <3>2
  <2> QED BY <2>3 DEF Copies, All
<1> QED BY <1>1, SpecRelay, PTL

\* The messages of one connection are in the receiver's queue in the order in
\* which they were sent: every socket and the handler's loop are first in, first
\* out.
THEOREM MessagesStayInOrder == Spec => []MessagesInOrder
<1>1. RelayInv => MessagesInOrder
  <2> SUFFICES ASSUME RelayInv, NEW s \in Socket,
                      NEW j \in DOMAIN received[s], NEW k \in DOMAIN received[s], j < k,
                      received[s][j].type = "msg", received[s][k].type = "msg",
                      received[s][j].ref[1] = received[s][k].ref[1]
               PROVE  received[s][j].ref[2] < received[s][k].ref[2]
    BY DEF MessagesInOrder
  <2>1. received[s] \in Seq(Frames) /\ Increasing(received[s])
    BY DEF RelayInv, TypeOK, OrderInv
  <2>2. j \in 1..Len(received[s]) /\ k \in 1..Len(received[s])
    BY <2>1
  <2> QED BY <2>1, <2>2 DEF Increasing, IsMsg
<1> QED BY <1>1, SpecRelay, PTL
==============================================================================
