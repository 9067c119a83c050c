------------------------ MODULE RatchetEngineProofs ------------------------
(***************************************************************************)
(* Lemmas about the Double Ratchet engine: what each of its operators does *)
(* to the session state, for every state that satisfies SessionInv below.  *)
(***************************************************************************)
EXTENDS RatchetEngine, TLAPS, SequenceTheorems, WellFoundedInduction

-----------------------------------------------------------------------------
(* The least-number principle and induction, in first-order form. *)

\* A non-empty set of natural numbers has a least element.
LEMMA LeastNatural ==
    ASSUME NEW T \in SUBSET Nat, T # {}
    PROVE  \E x \in T : \A y \in T : x <= y
<1> DEFINE R == OpToRel(<, Nat)
<1>1. IsWellFoundedOn(R, Nat)
  BY NatLessThanWellFounded, Zenon
<1>2. PICK x \in T : \A y \in T : ~(<<y, x>> \in R)
  <2> HIDE DEF R
  <2> QED BY <1>1, WFMin
<1>3. \A a, b \in Nat : <<a, b>> \in R <=> a < b
  BY DEF OpToRel
<1>4. \A y \in T : x \in Nat /\ y \in Nat /\ ~(y < x)
  BY <1>2, <1>3
<1> QED BY <1>4

\* Induction: a set with 0 and with every successor holds all of Nat.
LEMMA InductiveSet ==
    ASSUME NEW S \in SUBSET Nat, 0 \in S, \A n \in S : n + 1 \in S
    PROVE  S = Nat
<1>1. SUFFICES ASSUME Nat \ S # {} PROVE FALSE
  OBVIOUS
<1>2. PICK x \in Nat \ S : \A y \in Nat \ S : x <= y
  BY <1>1, LeastNatural
<1>3. x - 1 \in S /\ x # 0
  BY <1>2
<1> QED BY <1>2, <1>3

-----------------------------------------------------------------------------
(* The loop of _skip_receiving_until. *)

\* after is the sequence of states of k turns of the loop started in s.
IsSkipRun(after, s, k) ==
    after = [j \in 0..k |-> IF j = 0 THEN s ELSE SkipOne(after[j - 1])]

\* The recursive function of _skip_receiving_until is well defined.
LEMMA SkipRunExists ==
    ASSUME NEW s, NEW k \in Nat
    PROVE  \E after : IsSkipRun(after, s, k)
<1> DEFINE S == {n \in Nat : \E after : IsSkipRun(after, s, n)}
<1>1. 0 \in S
  <2> DEFINE g == [j \in 0..0 |-> s]
  <2>1. IsSkipRun(g, s, 0)
    BY DEF IsSkipRun
  <2> QED BY <2>1
<1>2. ASSUME NEW n \in S PROVE n + 1 \in S
  <2>1. PICK g : IsSkipRun(g, s, n)
    OBVIOUS
  <2> DEFINE h == [j \in 0..(n + 1) |-> IF j = n + 1 THEN SkipOne(g[n]) ELSE g[j]]
  <2>2. IsSkipRun(h, s, n + 1)
    BY <2>1 DEF IsSkipRun
  <2> QED BY <2>2
<1>3. S = Nat
  <2> HIDE DEF S
  <2>1. S \subseteq Nat BY DEF S
  <2> QED BY <2>1, <1>1, <1>2, InductiveSet
<1> QED BY <1>3

\* What _skip_receiving_until returns is the last state of such a run.
LEMMA SkipRunResult ==
    ASSUME NEW s, NEW until, s.receiving_chain_key # None, s.dhr # None,
           ~(until <= s.Nr), until - s.Nr \in Nat
    PROVE  \E after : /\ IsSkipRun(after, s, until - s.Nr)
                      /\ _skip_receiving_until(s, until) = after[until - s.Nr]
<1> DEFINE c == CHOOSE after : IsSkipRun(after, s, until - s.Nr)
<1>1. IsSkipRun(c, s, until - s.Nr)
  BY SkipRunExists, Zenon
<1>2. _skip_receiving_until(s, until) = c[until - s.Nr]
  BY Zenon DEF _skip_receiving_until, IsSkipRun
<1> QED BY <1>1, <1>2, Zenon

-----------------------------------------------------------------------------
(* The bounded stores. *)

\* k was drawn from an earlier chain than ck's, or earlier from a chain as long.
Behind(k, ck) ==
    \/ Len(k.root) < Len(ck.root)
    \/ Len(k.root) = Len(ck.root) /\ k.i < ck.i

\* The skipped-key store is within its limit, files every id and every key
\* once, and holds only keys that are not in Used and lie behind ck.
StoreInv(store, Used, ck) ==
    /\ store \in Seq(SkippedEntry)
    /\ Len(store) <= MaxSkippedKeys
    /\ \A j, k \in 1..Len(store) : store[j].id = store[k].id => j = k
    /\ \A j, k \in 1..Len(store) : store[j].mk = store[k].mk => j = k
    /\ \A j \in 1..Len(store) : store[j].mk \notin Used /\ Behind(store[j].mk, ck)

\* Eviction leaves room for one entry and keeps a suffix of the store.
LEMMA EvictOldestKeepsSuffix ==
    ASSUME NEW T, NEW store \in Seq(T), NEW max \in Nat \ {0}, Len(store) <= max
    PROVE  /\ EvictOldest(store, max) \in Seq(T)
           /\ Len(EvictOldest(store, max)) < max
           /\ \E d \in Nat : \A j \in 1..Len(EvictOldest(store, max)) :
                 /\ j + d \in 1..Len(store)
                 /\ EvictOldest(store, max)[j] = store[j + d]
<1>0. Len(store) \in Nat
  BY LenProperties
<1>1. CASE Len(store) >= max
  <2> DEFINE n == Len(store)
  <2>1. n = max /\ EvictOldest(store, max) = SubSeq(store, 2, n)
    BY <1>0, <1>1 DEF EvictOldest
  <2>2. \A i \in 2..n : store[i] \in T
    BY <1>0
  <2>3. /\ SubSeq(store, 2, n) \in Seq(T)
        /\ Len(SubSeq(store, 2, n)) = IF 2 <= n THEN n - 2 + 1 ELSE 0
        /\ \A i \in 1..(n - 2 + 1) : SubSeq(store, 2, n)[i] = store[2 + i - 1]
    BY <1>0, <2>2, SubSeqProperties
  <2>4. \A j \in 1..Len(SubSeq(store, 2, n)) :
           /\ j + 1 \in 1..Len(store)
           /\ SubSeq(store, 2, n)[j] = store[j + 1]
    BY <1>0, <2>3
  <2>5. Len(SubSeq(store, 2, n)) < max
    BY <1>0, <2>1, <2>3
  <2> HIDE DEF n
  <2>6. \E d \in Nat : \A j \in 1..Len(SubSeq(store, 2, n)) :
           /\ j + d \in 1..Len(store)
           /\ SubSeq(store, 2, n)[j] = store[j + d]
    BY <2>4
  <2> QED BY <2>1, <2>3, <2>5, <2>6
<1>2. CASE ~(Len(store) >= max)
  BY <1>0, <1>2 DEF EvictOldest
<1> QED BY <1>1, <1>2

\* received_ids stays within its limit.
LEMMA ReceivedIdsAddBounded ==
    ASSUME NEW ids \in Seq(MessageId), Len(ids) <= MaxReceivedIds, NEW id \in MessageId
    PROVE  /\ ReceivedIdsAdd(ids, id) \in Seq(MessageId)
           /\ Len(ReceivedIdsAdd(ids, id)) <= MaxReceivedIds
<1> DEFINE e == EvictOldest(ids, MaxReceivedIds)
<1>1. e \in Seq(MessageId) /\ Len(e) < MaxReceivedIds /\ Len(e) \in Nat
  BY EvictOldestKeepsSuffix, EngineAssumption
<1>2. Append(e, id) \in Seq(MessageId) /\ Len(Append(e, id)) = Len(e) + 1
  BY <1>1, AppendProperties
<1> QED BY <1>1, <1>2, EngineAssumption DEF ReceivedIdsAdd

\* Storing the key ck of an unpassed chain position keeps StoreInv for the
\* next position.
LEMMA SkippedAddInv ==
    ASSUME NEW store, NEW Used, NEW ck \in ChainKey, NEW id \in MessageId,
           StoreInv(store, Used, ck), ck \notin Used
    PROVE  StoreInv(SkippedAdd(store, id, ck), Used, kdf_chain(ck).next)
<1> DEFINE kept == EvictOldest(store, MaxSkippedKeys)
           e    == [id |-> id, mk |-> ck]
           next == kdf_chain(ck).next
<1>1. next.root = ck.root /\ next.i = ck.i + 1 /\ ck.i \in Nat /\ ck.root \in RootKey
  BY DEF kdf_chain, ChainKey
<1>2. Behind(ck, next)
  BY <1>1 DEF Behind
<1>3. e \in SkippedEntry /\ e.id = id /\ e.mk = ck
  BY DEF SkippedEntry
<1>4. store \in Seq(SkippedEntry) /\ Len(store) <= MaxSkippedKeys
  BY DEF StoreInv
<1>5. /\ kept \in Seq(SkippedEntry)
      /\ Len(kept) < MaxSkippedKeys
      /\ Len(kept) \in Nat
  BY <1>4, EvictOldestKeepsSuffix, EngineAssumption
<1>6. PICK d \in Nat : \A j \in 1..Len(kept) : j + d \in 1..Len(store) /\ kept[j] = store[j + d]
  BY <1>4, EvictOldestKeepsSuffix, EngineAssumption
<1>7. \A j \in 1..Len(store) : /\ store[j] \in SkippedEntry
                               /\ store[j].mk \in ChainKey
                               /\ store[j].mk.root \in RootKey
                               /\ store[j].mk.i \in Nat
  <2> TAKE j \in 1..Len(store)
  <2>1. store[j] \in SkippedEntry
    BY <1>4, ElementOfSeq
  <2>2. store[j].mk \in ChainKey
    BY <2>1 DEF SkippedEntry
  <2> QED BY <2>1, <2>2 DEF ChainKey
<1>8. \A j \in 1..Len(store) : Behind(store[j].mk, ck)
  BY DEF StoreInv
<1>9. \A j \in 1..Len(store) : Behind(store[j].mk, next) /\ store[j].mk # ck
  <2> TAKE j \in 1..Len(store)
  <2>1. Len(store[j].mk.root) \in Nat /\ Len(ck.root) \in Nat
    BY <1>1, <1>7, SMTT(30) DEF RootKey
  <2> QED BY <1>1, <1>7, <1>8, <2>1 DEF Behind
<1>10. /\ \A j, k \in 1..Len(kept) : kept[j].id = kept[k].id => j = k
       /\ \A j, k \in 1..Len(kept) : kept[j].mk = kept[k].mk => j = k
       /\ \A j \in 1..Len(kept) : /\ kept[j].mk \notin Used /\ kept[j].mk # ck
                                  /\ Behind(kept[j].mk, next)
  <2>1. \A j, k \in 1..Len(store) : store[j].id = store[k].id => j = k
    BY DEF StoreInv
  <2>2. \A j, k \in 1..Len(store) : store[j].mk = store[k].mk => j = k
    BY DEF StoreInv
  <2>3. \A j \in 1..Len(store) : store[j].mk \notin Used
    BY DEF StoreInv
  <2> HIDE DEF kept, next
  <2>4. \A j, k \in 1..Len(kept) : kept[j].id = kept[k].id => j = k
    BY <1>5, <1>6, <2>1, SMTT(30)
  <2>5. \A j, k \in 1..Len(kept) : kept[j].mk = kept[k].mk => j = k
    BY <1>5, <1>6, <2>2, SMTT(30)
  <2>6. \A j \in 1..Len(kept) : kept[j].mk \notin Used
    BY <1>6, <2>3
  <2>7. \A j \in 1..Len(kept) : kept[j].mk # ck /\ Behind(kept[j].mk, next)
    BY <1>6, <1>9
  <2> QED BY <2>4, <2>5, <2>6, <2>7
<1>11. CASE SkippedHas(kept, id)
  <2> DEFINE i == SkippedIndex(kept, id)
             r == [kept EXCEPT ![i] = e]
  <2>1. i \in 1..Len(kept) /\ kept[i].id = id
    BY <1>11 DEF SkippedHas, SkippedIndex
  <2>2. SkippedAdd(store, id, ck) = r
    BY <1>11 DEF SkippedAdd
  <2> HIDE DEF i, kept, e, next
  <2>3. /\ r \in Seq(SkippedEntry)
        /\ Len(r) = Len(kept)
        /\ \A j \in 1..Len(kept) : r[j] = IF j = i THEN e ELSE kept[j]
    BY <1>3, <1>5, <2>1, ExceptSeq
  <2> HIDE DEF r
  <2>4. \A j, k \in 1..Len(r) : r[j].id = r[k].id => j = k
    BY <1>3, <1>10, <2>1, <2>3
  <2>5. \A j, k \in 1..Len(r) : r[j].mk = r[k].mk => j = k
    BY <1>3, <1>10, <2>1, <2>3
  <2>6. \A j \in 1..Len(r) : r[j].mk \notin Used /\ Behind(r[j].mk, next)
    BY <1>2, <1>3, <1>10, <2>1, <2>3
  <2> QED BY <1>5, <2>2, <2>3, <2>4, <2>5, <2>6, EngineAssumption DEF StoreInv, next
<1>12. CASE ~ SkippedHas(kept, id)
  <2> DEFINE r == Append(kept, e)
  <2>1. \A j \in 1..Len(kept) : kept[j].id # id
    BY <1>12 DEF SkippedHas
  <2>2. SkippedAdd(store, id, ck) = r
    BY <1>12 DEF SkippedAdd
  <2> HIDE DEF kept, e, next
  <2>3. /\ r \in Seq(SkippedEntry)
        /\ Len(r) = Len(kept) + 1
        /\ \A j \in 1..Len(kept) : r[j] = kept[j]
        /\ r[Len(kept) + 1] = e
    BY <1>3, <1>5, AppendProperties
  <2> HIDE DEF r
  <2>4. \A j, k \in 1..Len(r) : r[j].id = r[k].id => j = k
    BY <1>3, <1>5, <1>10, <2>1, <2>3
  <2>5. \A j, k \in 1..Len(r) : r[j].mk = r[k].mk => j = k
    BY <1>3, <1>5, <1>10, <2>1, <2>3
  <2>6. \A j \in 1..Len(r) : r[j].mk \notin Used /\ Behind(r[j].mk, next)
    BY <1>2, <1>3, <1>5, <1>10, <2>3
  <2> QED BY <1>5, <2>2, <2>3, <2>4, <2>5, <2>6, EngineAssumption DEF StoreInv, next
<1> QED BY <1>11, <1>12

\* Popping the entry of id keeps StoreInv, with its key among the used ones.
LEMMA SkippedPopInv ==
    ASSUME NEW store, NEW Used, NEW ck, NEW id,
           StoreInv(store, Used, ck), SkippedHas(store, id)
    PROVE  /\ SkippedIndex(store, id) \in 1..Len(store)
           /\ StoreInv(SkippedPop(store, id),
                       Used \cup {store[SkippedIndex(store, id)].mk}, ck)
<1> DEFINE i == SkippedIndex(store, id)
           n == Len(store)
           a == SubSeq(store, 1, i - 1)
           b == SubSeq(store, i + 1, n)
           r == a \o b
<1>1. i \in 1..n
  BY DEF SkippedHas, SkippedIndex
<1>2. SkippedPop(store, id) = r
  BY DEF SkippedPop
<1>3. store \in Seq(SkippedEntry) /\ n \in Nat /\ n <= MaxSkippedKeys
  BY DEF StoreInv
<1> HIDE DEF i, n
<1>4. \A j \in 1..n : store[j] \in SkippedEntry
  BY <1>3 DEF n
<1>5. /\ a \in Seq(SkippedEntry)
      /\ Len(a) = i - 1
      /\ \A j \in 1..(i - 1) : a[j] = store[j]
  <2>1. \A j \in 1..(i - 1) : store[j] \in SkippedEntry
    BY <1>1, <1>3, <1>4
  <2> QED BY <1>1, <1>3, <2>1, SubSeqProperties
<1>6. /\ b \in Seq(SkippedEntry)
      /\ Len(b) = n - i
      /\ \A j \in 1..(n - i) : b[j] = store[j + i]
  <2>1. \A j \in (i + 1)..n : store[j] \in SkippedEntry
    BY <1>1, <1>3, <1>4
  <2>2. /\ b \in Seq(SkippedEntry)
        /\ Len(b) = IF i + 1 <= n THEN n - (i + 1) + 1 ELSE 0
        /\ \A j \in 1..(n - (i + 1) + 1) : b[j] = store[(i + 1) + j - 1]
    BY <1>1, <1>3, <2>1, SubSeqProperties
  <2> QED BY <1>1, <1>3, <2>2
<1> HIDE DEF a, b
<1>7. /\ r \in Seq(SkippedEntry)
      /\ Len(r) = n - 1
      /\ \A j \in 1..(n - 1) : r[j] = IF j <= i - 1 THEN store[j] ELSE store[j + 1]
  <2>1. /\ r \in Seq(SkippedEntry)
        /\ Len(r) = Len(a) + Len(b)
        /\ \A j \in 1..(Len(a) + Len(b)) :
              r[j] = IF j <= Len(a) THEN a[j] ELSE b[j - Len(a)]
    BY <1>5, <1>6, ConcatProperties
  <2>2. Len(a) + Len(b) = n - 1
    BY <1>1, <1>3, <1>5, <1>6
  <2>3. ASSUME NEW j \in 1..(n - 1)
        PROVE  r[j] = IF j <= i - 1 THEN store[j] ELSE store[j + 1]
    <3>1. CASE j <= i - 1
      BY <1>1, <1>3, <1>5, <2>1, <2>2, <3>1
    <3>2. CASE ~(j <= i - 1)
      <4>1. r[j] = b[j - (i - 1)] /\ j - (i - 1) \in 1..(n - i)
        BY <1>1, <1>3, <1>5, <2>1, <2>2, <3>2
      <4> QED BY <1>1, <1>3, <1>6, <3>2, <4>1
    <3> QED BY <3>1, <3>2
  <2> QED BY <2>1, <2>2, <2>3
<1> HIDE DEF r
<1> DEFINE U == Used \cup {store[i].mk}
<1>8. /\ \A j, k \in 1..n : store[j].id = store[k].id => j = k
      /\ \A j, k \in 1..n : store[j].mk = store[k].mk => j = k
      /\ \A j \in 1..n : store[j].mk \notin Used /\ Behind(store[j].mk, ck)
  BY DEF StoreInv, n
<1> DEFINE pos(j) == IF j <= i - 1 THEN j ELSE j + 1
<1>a. \A j \in 1..Len(r) : pos(j) \in 1..n /\ r[j] = store[pos(j)]
  BY <1>1, <1>3, <1>7
<1>b. \A j, k \in 1..Len(r) : pos(j) = pos(k) => j = k
  BY <1>1, <1>3, <1>7
<1> HIDE DEF pos
<1>9. \A j, k \in 1..Len(r) : r[j].id = r[k].id => j = k
  BY <1>a, <1>b, <1>8
<1>10. \A j, k \in 1..Len(r) : r[j].mk = r[k].mk => j = k
  BY <1>a, <1>b, <1>8
<1>11. \A j \in 1..Len(r) : r[j].mk \notin U /\ Behind(r[j].mk, ck)
  BY <1>1, <1>3, <1>7, <1>8
<1>12. StoreInv(r, U, ck)
  <2> HIDE DEF U
  <2> QED BY <1>3, <1>7, <1>9, <1>10, <1>11, EngineAssumption DEF StoreInv
<1> QED BY <1>1, <1>2, <1>12 DEF i, n

-----------------------------------------------------------------------------
(* The invariant of a session, relative to the message keys its engine has  *)
(* opened messages with (Used) and sealed messages with (Sealed).           *)

\* The receiving side: every key used or stored lies behind the chain.
ReceivingInv(s, Used) ==
    /\ s.dhr # None => s.receiving_chain_key # None
    /\ s.receiving_chain_key = None => Used = {} /\ s.skipped_message_keys = << >>
    /\ s.receiving_chain_key # None =>
          /\ Len(s.receiving_chain_key.root) <= Len(s.root_key)
          /\ StoreInv(s.skipped_message_keys, Used, s.receiving_chain_key)
          /\ \A k \in Used : Behind(k, s.receiving_chain_key)

\* The sending side: the sending chain is the newest derivation of the root,
\* and every key used for sealing lies behind it.
SendingInv(s, Sealed) ==
    /\ s.sending_chain_key # None =>
          /\ Len(s.sending_chain_key.root) = Len(s.root_key)
          /\ s.receiving_chain_key # None =>
                Len(s.receiving_chain_key.root) < Len(s.sending_chain_key.root)
          /\ \A k \in Sealed : Behind(k, s.sending_chain_key)
    /\ s.sending_chain_key = None =>
          /\ s.Ns = 0
          /\ \A k \in Sealed : Len(k.root) <= Len(s.root_key)

SessionInv(s, Used, Sealed) ==
    /\ s \in RatchetState
    /\ Len(s.received_ids) <= MaxReceivedIds
    /\ Used \subseteq ChainKey
    /\ Sealed \subseteq ChainKey
    /\ ReceivingInv(s, Used)
    /\ SendingInv(s, Sealed)

\* The lengths Behind compares are natural numbers.
LEMMA ChainKeyType ==
    ASSUME NEW k \in ChainKey
    PROVE  Len(k.root) \in Nat /\ k.i \in Nat /\ k.root \in RootKey
<1>1. k.root \in Seq(SUBSET KeyPair) /\ k.i \in Nat
  BY DEF ChainKey, RootKey
<1> QED BY <1>1 DEF RootKey

\* kdf_root appends to the root key.
LEMMA KdfRootType ==
    ASSUME NEW rk \in RootKey, NEW secret \in SUBSET KeyPair
    PROVE  /\ kdf_root(rk, secret).root \in RootKey
           /\ kdf_root(rk, secret).chain \in ChainKey
           /\ kdf_root(rk, secret).chain.root = kdf_root(rk, secret).root
           /\ Len(kdf_root(rk, secret).root) = Len(rk) + 1
           /\ kdf_root(rk, secret).chain.i = 0
           /\ Len(rk) \in Nat
<1>1. Append(rk, secret) \in Seq(SUBSET KeyPair) /\ Len(Append(rk, secret)) = Len(rk) + 1
  BY AppendProperties DEF RootKey
<1> QED BY <1>1 DEF kdf_root, RootKey, ChainKey

\* A chain of a longer root lies ahead of every key that lay behind ck.
LEMMA StoreInvLonger ==
    ASSUME NEW store, NEW Used, NEW ck \in ChainKey, NEW new \in ChainKey,
           StoreInv(store, Used, ck), Len(ck.root) < Len(new.root)
    PROVE  StoreInv(store, Used, new)
<1>1. store \in Seq(SkippedEntry) /\ Len(store) \in Nat
  BY DEF StoreInv
<1>2. ASSUME NEW j \in 1..Len(store) PROVE Behind(store[j].mk, new)
  <2>1. store[j] \in SkippedEntry
    BY <1>1, ElementOfSeq
  <2>2. store[j].mk \in ChainKey
    BY <2>1 DEF SkippedEntry
  <2>3. Behind(store[j].mk, ck)
    BY DEF StoreInv
  <2> QED BY <2>2, <2>3, ChainKeyType DEF Behind
<1> QED BY <1>2 DEF StoreInv

\* The DH ratchet of a receiver keeps the invariant and starts an empty chain.
LEMMA RatchetReceiveInv ==
    ASSUME NEW s, NEW Used, NEW Sealed, SessionInv(s, Used, Sealed),
           NEW dh \in KeyPair, NEW fresh \in KeyPair
    PROVE  LET r == _dh_ratchet_receive(s, dh, fresh)
           IN  /\ SessionInv(r, Used, Sealed)
               /\ r.dhr = dh /\ r.Nr = 0 /\ r.Ns = 0 /\ r.dhs = fresh
               /\ r.receiving_chain_key # None
<1> DEFINE r   == _dh_ratchet_receive(s, dh, fresh)
           kdf == kdf_root(s.root_key, dh_secret(s.dhs, dh))
<1>1. s \in RatchetState
  BY DEF SessionInv
<1>2. s.root_key \in RootKey /\ dh_secret(s.dhs, dh) \in SUBSET KeyPair
  BY <1>1 DEF RatchetState, dh_secret
<1>3. /\ kdf.root \in RootKey
      /\ kdf.chain \in ChainKey
      /\ kdf.chain.root = kdf.root
      /\ Len(kdf.root) = Len(s.root_key) + 1
      /\ Len(s.root_key) \in Nat
  BY <1>2, KdfRootType
<1> HIDE DEF kdf
<1>4. r = [s EXCEPT !.PN = s.Ns, !.Ns = 0, !.Nr = 0, !.dhr = dh,
                    !.root_key = kdf.root, !.receiving_chain_key = kdf.chain,
                    !.dhs = fresh, !.sending_chain_key = None]
  BY DEF _dh_ratchet_receive, kdf
<1>5. /\ r.Ns = 0 /\ r.Nr = 0 /\ r.dhr = dh /\ r.dhs = fresh
      /\ r.root_key = kdf.root /\ r.receiving_chain_key = kdf.chain
      /\ r.sending_chain_key = None
      /\ r.skipped_message_keys = s.skipped_message_keys
      /\ r.received_ids = s.received_ids
  BY <1>1, <1>4 DEF RatchetState
<1>6. r \in RatchetState
  <2>1. s.Ns \in Nat /\ s.skipped_message_keys \in Seq(SkippedEntry)
        /\ s.received_ids \in Seq(MessageId)
    BY <1>1 DEF RatchetState
  <2>2. r = [root_key |-> kdf.root, sending_chain_key |-> None,
             receiving_chain_key |-> kdf.chain, dhs |-> fresh, dhr |-> dh,
             Ns |-> 0, Nr |-> 0, PN |-> s.Ns,
             skipped_message_keys |-> s.skipped_message_keys,
             received_ids |-> s.received_ids]
    BY <1>1, <1>4 DEF RatchetState
  <2> HIDE DEF r
  <2> QED BY <1>3, <2>1, <2>2 DEF RatchetState
<1> HIDE DEF r
<1>7. ReceivingInv(r, Used)
  <2>1. StoreInv(s.skipped_message_keys, Used, kdf.chain)
    <3>1. CASE s.receiving_chain_key = None
      <4>1. s.skipped_message_keys = << >> /\ Used = {}
        BY <3>1 DEF SessionInv, ReceivingInv
      <4> QED BY <4>1, EngineAssumption DEF StoreInv
    <3>2. CASE s.receiving_chain_key # None
      <4>1. s.receiving_chain_key \in ChainKey
        BY <1>1, <3>2 DEF RatchetState
      <4>2. /\ Len(s.receiving_chain_key.root) <= Len(s.root_key)
            /\ StoreInv(s.skipped_message_keys, Used, s.receiving_chain_key)
        BY <3>2 DEF SessionInv, ReceivingInv
      <4>3. Len(s.receiving_chain_key.root) < Len(kdf.chain.root)
        BY <1>3, <4>1, <4>2, ChainKeyType
      <4> QED BY <1>3, <4>1, <4>2, <4>3, StoreInvLonger
    <3> QED BY <3>1, <3>2
  <2>2. ASSUME NEW k \in Used PROVE Behind(k, kdf.chain)
    <3>1. s.receiving_chain_key # None
      BY DEF SessionInv, ReceivingInv
    <3>2. s.receiving_chain_key \in ChainKey /\ k \in ChainKey
      BY <1>1, <3>1 DEF RatchetState, SessionInv
    <3>3. /\ Len(s.receiving_chain_key.root) <= Len(s.root_key)
          /\ Behind(k, s.receiving_chain_key)
      BY <3>1 DEF SessionInv, ReceivingInv
    <3> QED BY <1>3, <3>2, <3>3, ChainKeyType DEF Behind
  <2>3. Len(kdf.chain.root) <= Len(kdf.root)
    BY <1>3
  <2>4. kdf.chain # None
    BY <1>3, EngineAssumption
  <2> QED BY <1>5, <2>1, <2>2, <2>3, <2>4 DEF ReceivingInv
<1>8. SendingInv(r, Sealed)
  <2>1. ASSUME NEW k \in Sealed PROVE Len(k.root) <= Len(kdf.root)
    <3>1. k \in ChainKey
      BY DEF SessionInv
    <3>2. CASE s.sending_chain_key = None
      BY <1>3, <3>1, <3>2, ChainKeyType DEF SessionInv, SendingInv
    <3>3. CASE s.sending_chain_key # None
      <4>1. s.sending_chain_key \in ChainKey
        BY <1>1, <3>3 DEF RatchetState
      <4>2. /\ Len(s.sending_chain_key.root) = Len(s.root_key)
            /\ Behind(k, s.sending_chain_key)
        BY <3>3 DEF SessionInv, SendingInv
      <4> QED BY <1>3, <3>1, <4>1, <4>2, ChainKeyType DEF Behind
    <3> QED BY <3>2, <3>3
  <2> QED BY <1>5, <2>1 DEF SendingInv
<1>9. SessionInv(r, Used, Sealed)
  BY <1>5, <1>6, <1>7, <1>8 DEF SessionInv
<1> QED BY <1>3, <1>5, <1>9, EngineAssumption DEF r

\* The next position of a chain: a chain key with the same root, not None.
LEMMA KdfChainType ==
    ASSUME NEW ck \in ChainKey
    PROVE  /\ kdf_chain(ck).next \in ChainKey
           /\ kdf_chain(ck).next # None
           /\ kdf_chain(ck).next.root = ck.root
           /\ kdf_chain(ck).next.i = ck.i + 1
           /\ kdf_chain(ck).mk = ck
           /\ Behind(ck, kdf_chain(ck).next)
           /\ ~ Behind(ck, ck)
           /\ \A k \in ChainKey : Behind(k, ck) => Behind(k, kdf_chain(ck).next)
<1>1. kdf_chain(ck).next \in ChainKey /\ kdf_chain(ck).next.root = ck.root
      /\ kdf_chain(ck).next.i = ck.i + 1 /\ kdf_chain(ck).mk = ck
  BY DEF kdf_chain, ChainKey
<1>2. \A k \in ChainKey : Len(k.root) \in Nat /\ k.i \in Nat
  BY ChainKeyType
<1> HIDE DEF kdf_chain
<1> QED BY <1>1, <1>2, EngineAssumption DEF Behind

\* Drawing the key of the current position: the store keeps its invariant
\* for the next position, whether or not that key counts as used.
LEMMA StoreInvAdvance ==
    ASSUME NEW store, NEW Used, NEW ck \in ChainKey, StoreInv(store, Used, ck)
    PROVE  /\ StoreInv(store, Used, kdf_chain(ck).next)
           /\ StoreInv(store, Used \cup {ck}, kdf_chain(ck).next)
<1>1. store \in Seq(SkippedEntry) /\ Len(store) \in Nat
  BY DEF StoreInv
<1>2. ASSUME NEW j \in 1..Len(store)
      PROVE  Behind(store[j].mk, kdf_chain(ck).next) /\ store[j].mk # ck
  <2>1. store[j] \in SkippedEntry
    BY <1>1, ElementOfSeq
  <2>2. store[j].mk \in ChainKey
    BY <2>1 DEF SkippedEntry
  <2>3. Behind(store[j].mk, ck)
    BY DEF StoreInv
  <2> QED BY <2>2, <2>3, KdfChainType
<1> QED BY <1>2 DEF StoreInv

\* A state that differs from s in its receiving chain, skipped keys, Nr and
\* received_ids only.
SameSession(r, s) ==
    /\ r.root_key = s.root_key
    /\ r.sending_chain_key = s.sending_chain_key
    /\ r.dhs = s.dhs /\ r.dhr = s.dhr
    /\ r.Ns = s.Ns /\ r.PN = s.PN

\* The sending side does not depend on where the receiving chain stands.
LEMMA SendingInvSame ==
    ASSUME NEW s, NEW r, NEW Sealed, SendingInv(s, Sealed), SameSession(r, s),
           s.receiving_chain_key # None, r.receiving_chain_key # None,
           r.receiving_chain_key.root = s.receiving_chain_key.root
    PROVE  SendingInv(r, Sealed)
  BY DEF SendingInv, SameSession

\* One turn of the skip loop keeps the invariant and advances Nr by one.
LEMMA SkipOneInv ==
    ASSUME NEW s, NEW Used, NEW Sealed, SessionInv(s, Used, Sealed),
           s.receiving_chain_key # None, s.dhr # None
    PROVE  /\ SessionInv(SkipOne(s), Used, Sealed)
           /\ SkipOne(s).Nr = s.Nr + 1
           /\ SkipOne(s).receiving_chain_key # None
           /\ SameSession(SkipOne(s), s)
<1> DEFINE r  == SkipOne(s)
           ck == s.receiving_chain_key
           id == [dh |-> s.dhr, n |-> s.Nr]
           next == kdf_chain(ck).next
           store == SkippedAdd(s.skipped_message_keys, id, ck)
<1>1. s \in RatchetState /\ Used \subseteq ChainKey
  BY DEF SessionInv
<1>2. ck \in ChainKey /\ s.dhr \in KeyPair /\ s.Nr \in Nat /\ id \in MessageId
  BY <1>1 DEF RatchetState, MessageId
<1>3. /\ next \in ChainKey /\ next # None /\ next.root = ck.root
      /\ kdf_chain(ck).mk = ck
      /\ \A k \in ChainKey : Behind(k, ck) => Behind(k, next)
      /\ ~ Behind(ck, ck)
  BY <1>2, KdfChainType
<1>4. /\ StoreInv(s.skipped_message_keys, Used, ck)
      /\ \A k \in Used : Behind(k, ck)
      /\ Len(ck.root) <= Len(s.root_key)
  BY DEF SessionInv, ReceivingInv
<1>5. StoreInv(store, Used, next)
  BY <1>2, <1>3, <1>4, SkippedAddInv
<1> HIDE DEF next, store, id
<1>6. r = [s EXCEPT !.receiving_chain_key = next, !.skipped_message_keys = store,
                    !.Nr = s.Nr + 1]
  BY <1>1, <1>3 DEF SkipOne, next, store, id, RatchetState
<1> HIDE DEF r
<1>7. /\ r.receiving_chain_key = next /\ r.skipped_message_keys = store
      /\ r.Nr = s.Nr + 1 /\ r.received_ids = s.received_ids
      /\ SameSession(r, s)
  BY <1>1, <1>6 DEF RatchetState, SameSession
<1>8. r \in RatchetState
  <2>1. store \in Seq(SkippedEntry) /\ s.Nr + 1 \in Nat
    BY <1>2, <1>5 DEF StoreInv
  <2>2. r = [root_key |-> s.root_key, sending_chain_key |-> s.sending_chain_key,
             receiving_chain_key |-> next, dhs |-> s.dhs, dhr |-> s.dhr,
             Ns |-> s.Ns, Nr |-> s.Nr + 1, PN |-> s.PN,
             skipped_message_keys |-> store, received_ids |-> s.received_ids]
    BY <1>1, <1>6 DEF RatchetState
  <2> QED BY <1>1, <1>3, <2>1, <2>2 DEF RatchetState
<1>9. ReceivingInv(r, Used)
  <2>1. \A k \in Used : Behind(k, next)
    BY <1>1, <1>3, <1>4
  <2> QED BY <1>3, <1>4, <1>5, <1>7, <2>1 DEF ReceivingInv, SameSession
<1>10. SendingInv(r, Sealed)
  BY <1>3, <1>7, SendingInvSame DEF SessionInv
<1> QED BY <1>3, <1>7, <1>8, <1>9, <1>10 DEF SessionInv, r

\* _skip_receiving_until keeps the invariant and leaves Nr at until.
LEMMA SkipReceivingInv ==
    ASSUME NEW s, NEW Used, NEW Sealed, SessionInv(s, Used, Sealed),
           s.receiving_chain_key # None, s.dhr # None,
           NEW until \in Nat, s.Nr <= until
    PROVE  LET r == _skip_receiving_until(s, until)
           IN  /\ SessionInv(r, Used, Sealed)
               /\ r.Nr = until
               /\ r.receiving_chain_key # None
               /\ SameSession(r, s)
<1>0. s.Nr \in Nat
  BY DEF SessionInv, RatchetState
<1>1. CASE until <= s.Nr
  BY <1>0, <1>1 DEF _skip_receiving_until, SameSession
<1>2. CASE ~(until <= s.Nr)
  <2> DEFINE n == until - s.Nr
  <2>1. n \in Nat
    BY <1>0, <1>2
  <2>2. PICK after : IsSkipRun(after, s, n) /\ _skip_receiving_until(s, until) = after[n]
    BY <1>2, <2>1, SkipRunResult
  <2> DEFINE Good(k) == /\ SessionInv(after[k], Used, Sealed)
                        /\ after[k].Nr = s.Nr + k
                        /\ after[k].receiving_chain_key # None
                        /\ SameSession(after[k], s)
             S == {k \in Nat : k <= n => Good(k)}
  <2>3. after[0] = s
    BY <2>1, <2>2 DEF IsSkipRun
  <2>4. \A k \in 1..n : after[k] = SkipOne(after[k - 1])
    BY <2>1, <2>2 DEF IsSkipRun
  <2>5. 0 \in S
    BY <1>0, <2>3 DEF SameSession
  <2>6. ASSUME NEW k \in S PROVE k + 1 \in S
    <3>1. SUFFICES ASSUME k + 1 <= n PROVE Good(k + 1)
      OBVIOUS
    <3>2. Good(k)
      BY <2>1, <3>1
    <3>3. after[k + 1] = SkipOne(after[k])
      <4>1. k + 1 \in 1..n /\ (k + 1) - 1 = k
        BY <2>1, <3>1
      <4> QED BY <2>4, <4>1
    <3>4. after[k].dhr # None
      BY <3>2 DEF SameSession
    <3>5. /\ SessionInv(SkipOne(after[k]), Used, Sealed)
          /\ SkipOne(after[k]).Nr = after[k].Nr + 1
          /\ SkipOne(after[k]).receiving_chain_key # None
          /\ SameSession(SkipOne(after[k]), after[k])
      BY <3>2, <3>4, SkipOneInv
    <3>6. after[k + 1].Nr = s.Nr + (k + 1)
      BY <1>0, <3>2, <3>3, <3>5
    <3> QED BY <3>2, <3>3, <3>5, <3>6 DEF SameSession
  <2>7. S = Nat
    <3> HIDE DEF S
    <3>1. S \subseteq Nat
      BY DEF S
    <3> QED BY <2>5, <2>6, <3>1, InductiveSet
  <2>8. Good(n)
    BY <2>1, <2>7
  <2>9. s.Nr + n = until
    BY <1>0
  <2> QED BY <2>2, <2>8, <2>9
<1> QED BY <1>1, <1>2

\* Skipping up to Nr changes nothing: this is why the keys that remain in a
\* chain are not stored when the DH ratchet leaves it.
LEMMA SkipToNrIsNoOp ==
    ASSUME NEW s, s.Nr \in Nat
    PROVE  _skip_receiving_until(s, s.Nr) = s
  BY DEF _skip_receiving_until

\* Either the engine stays in its session, or it makes a fresh DH ratchet step.
Stays(r, s) ==
    /\ r.dhs = s.dhs /\ r.Nr = s.Nr /\ r.Ns = s.Ns
    /\ r.sending_chain_key = s.sending_chain_key

Ratchets(r, fresh) ==
    r.dhs = fresh /\ r.Nr = 0 /\ r.Ns = 0 /\ r.sending_chain_key = None

\* Following the header's ratchet key keeps the invariant, sets dhr to it and
\* leaves a receiving chain to draw from.
LEMMA FollowRatchetInv ==
    ASSUME NEW s, NEW Used, NEW Sealed, SessionInv(s, Used, Sealed),
           NEW dh \in KeyPair, NEW fresh \in KeyPair
    PROVE  LET r == FollowRatchet(s, dh, fresh)
           IN  /\ SessionInv(r, Used, Sealed)
               /\ r.dhr = dh
               /\ r.receiving_chain_key # None
               /\ Stays(r, s) \/ Ratchets(r, fresh)
<1> DEFINE r == FollowRatchet(s, dh, fresh)
           b == Bootstrap(s, dh, fresh)
           New(x) == _dh_ratchet_receive(x, dh, fresh)
<1>1. s \in RatchetState /\ s.Nr \in Nat /\ dh # None
  BY EngineAssumption DEF SessionInv, RatchetState
<1>2. _skip_receiving_until(s, s.Nr) = s
  BY <1>1, SkipToNrIsNoOp
<1>3. /\ SessionInv(New(s), Used, Sealed)
      /\ New(s).dhr = dh
      /\ New(s).receiving_chain_key # None
      /\ New(s).dhs = fresh /\ New(s).Nr = 0 /\ New(s).Ns = 0
      /\ New(s).sending_chain_key = None
  <2>1. New(s).sending_chain_key = None
    BY <1>1 DEF _dh_ratchet_receive, RatchetState
  <2> QED BY <2>1, RatchetReceiveInv
<1> HIDE DEF New
<1>4. s.dhr # None => s.receiving_chain_key # None
  BY DEF SessionInv, ReceivingInv
<1>5. CASE s.dhr = None /\ s.sending_chain_key # None
  <2>1. b = New(s)
    BY <1>2, <1>5 DEF Bootstrap, New
  <2>2. r = b
    BY <1>3, <2>1 DEF FollowRatchet
  <2> QED BY <1>3, <2>1, <2>2 DEF Ratchets
<1>6. CASE s.dhr = None /\ s.sending_chain_key = None /\ s.receiving_chain_key # None
  <2>1. b = [s EXCEPT !.dhr = dh]
    BY <1>6 DEF Bootstrap
  <2>2. r = b
    BY <1>1, <2>1 DEF FollowRatchet, RatchetState
  <2> HIDE DEF b
  <2>3. /\ b.dhr = dh
        /\ b.root_key = s.root_key
        /\ b.sending_chain_key = s.sending_chain_key
        /\ b.receiving_chain_key = s.receiving_chain_key
        /\ b.skipped_message_keys = s.skipped_message_keys
        /\ b.received_ids = s.received_ids
        /\ b.dhs = s.dhs /\ b.Nr = s.Nr /\ b.Ns = s.Ns
    BY <1>1, <2>1 DEF RatchetState
  <2>4. b \in RatchetState
    <3>1. b = [root_key |-> s.root_key, sending_chain_key |-> s.sending_chain_key,
               receiving_chain_key |-> s.receiving_chain_key, dhs |-> s.dhs,
               dhr |-> dh, Ns |-> s.Ns, Nr |-> s.Nr, PN |-> s.PN,
               skipped_message_keys |-> s.skipped_message_keys,
               received_ids |-> s.received_ids]
      BY <1>1, <2>1 DEF RatchetState
    <3> QED BY <1>1, <3>1 DEF RatchetState
  <2>5. ReceivingInv(b, Used)
    BY <1>6, <2>3 DEF SessionInv, ReceivingInv
  <2>6. SendingInv(b, Sealed)
    BY <2>3 DEF SessionInv, SendingInv
  <2>7. SessionInv(b, Used, Sealed)
    BY <2>3, <2>4, <2>5, <2>6 DEF SessionInv
  <2> QED BY <1>6, <2>2, <2>3, <2>7 DEF Stays
<1>7. CASE s.dhr = None /\ s.sending_chain_key = None /\ s.receiving_chain_key = None
  <2> DEFINE ck == kdf_initial_chain(s.root_key)
  <2>1. b = [s EXCEPT !.dhr = dh, !.receiving_chain_key = ck]
    BY <1>2, <1>7 DEF Bootstrap, _dh_ratchet_receive_first
  <2>2. ck \in ChainKey /\ ck.root = s.root_key /\ ck # None
    BY <1>1, EngineAssumption DEF kdf_initial_chain, ChainKey, RatchetState
  <2> HIDE DEF ck
  <2>3. r = b
    BY <1>1, <2>1 DEF FollowRatchet, RatchetState
  <2> HIDE DEF b
  <2>4. /\ b.dhr = dh
        /\ b.root_key = s.root_key
        /\ b.sending_chain_key = s.sending_chain_key
        /\ b.receiving_chain_key = ck
        /\ b.skipped_message_keys = s.skipped_message_keys
        /\ b.received_ids = s.received_ids
        /\ b.dhs = s.dhs /\ b.Nr = s.Nr /\ b.Ns = s.Ns
    BY <1>1, <2>1 DEF RatchetState
  <2>5. b \in RatchetState
    <3>1. b = [root_key |-> s.root_key, sending_chain_key |-> s.sending_chain_key,
               receiving_chain_key |-> ck, dhs |-> s.dhs,
               dhr |-> dh, Ns |-> s.Ns, Nr |-> s.Nr, PN |-> s.PN,
               skipped_message_keys |-> s.skipped_message_keys,
               received_ids |-> s.received_ids]
      BY <1>1, <2>1 DEF RatchetState
    <3> QED BY <1>1, <2>2, <3>1 DEF RatchetState
  <2>6. Used = {} /\ s.skipped_message_keys = << >> /\ Len(s.root_key) \in Nat
    BY <1>1, <1>7 DEF SessionInv, ReceivingInv, RatchetState, RootKey
  <2>7. StoreInv(<< >>, {}, ck)
    BY EngineAssumption DEF StoreInv
  <2>8. ReceivingInv(b, Used)
    BY <2>2, <2>4, <2>6, <2>7 DEF ReceivingInv
  <2>9. SendingInv(b, Sealed)
    BY <1>7, <2>4 DEF SessionInv, SendingInv
  <2>10. SessionInv(b, Used, Sealed)
    BY <2>4, <2>5, <2>8, <2>9 DEF SessionInv
  <2> QED BY <2>2, <2>3, <2>4, <2>10 DEF Stays
<1>8. CASE s.dhr # None
  <2>1. b = s
    BY <1>4, <1>8 DEF Bootstrap
  <2>2. CASE dh = s.dhr
    <3>1. r = s
      BY <2>1, <2>2 DEF FollowRatchet
    <3> QED BY <1>4, <1>8, <2>2, <3>1 DEF Stays
  <2>3. CASE dh # s.dhr
    <3>1. r = New(s)
      BY <1>2, <1>8, <2>1, <2>3 DEF FollowRatchet, New
    <3> QED BY <1>3, <3>1 DEF Ratchets
  <2> QED BY <2>2, <2>3
<1> QED BY <1>5, <1>6, <1>7, <1>8

-----------------------------------------------------------------------------
(* The public operations keep the invariant. *)

\* The message key of an accepted message has been used with it.
UsedAfter(Used, m, out) == IF out.result = "ok" THEN Used \cup {m.mk} ELSE Used

\* The skipped-key path.
LEMMA OpenSkippedInv ==
    ASSUME NEW s, NEW Used, NEW Sealed, SessionInv(s, Used, Sealed),
           NEW m \in WireMessage, NEW id \in MessageId,
           SkippedHas(s.skipped_message_keys, id)
    PROVE  LET out == OpenSkipped(s, m, id)
           IN  /\ SessionInv(out.state, UsedAfter(Used, m, out), Sealed)
               /\ out.result = "ok" => m.mk \notin Used
               /\ Stays(out.state, s)
<1> DEFINE out    == OpenSkipped(s, m, id)
           store  == s.skipped_message_keys
           i      == SkippedIndex(store, id)
           rest   == SkippedPop(store, id)
           ids    == IF out.result = "ok" THEN ReceivedIdsAdd(s.received_ids, id)
                                          ELSE s.received_ids
           t      == out.state
           mk     == store[i].mk
<1>1. s \in RatchetState /\ Len(s.received_ids) <= MaxReceivedIds
  BY DEF SessionInv
<1>2. s.receiving_chain_key # None
  <2>1. SUFFICES ASSUME s.receiving_chain_key = None PROVE FALSE
    OBVIOUS
  <2>2. store = << >>
    BY <2>1 DEF SessionInv, ReceivingInv
  <2> QED BY <2>2 DEF SkippedHas
<1>3. /\ Len(s.receiving_chain_key.root) <= Len(s.root_key)
      /\ StoreInv(store, Used, s.receiving_chain_key)
      /\ \A k \in Used : Behind(k, s.receiving_chain_key)
  BY <1>2 DEF SessionInv, ReceivingInv
<1>4. i \in 1..Len(store) /\ StoreInv(rest, Used \cup {mk}, s.receiving_chain_key)
  BY <1>3, SkippedPopInv
<1>5. mk \notin Used /\ Behind(mk, s.receiving_chain_key) /\ mk \in ChainKey
  <2>1. mk \notin Used /\ Behind(mk, s.receiving_chain_key)
    BY <1>3, <1>4 DEF StoreInv
  <2>2. store[i] \in SkippedEntry
    BY <1>1, <1>4, ElementOfSeq DEF RatchetState
  <2> QED BY <2>1, <2>2 DEF SkippedEntry
<1>6. StoreInv(rest, Used, s.receiving_chain_key)
  BY <1>4 DEF StoreInv
<1>7. /\ t = [s EXCEPT !.skipped_message_keys = rest, !.received_ids = ids]
      /\ out.result = "ok" => m.mk = mk
      /\ out.result \in {"ok", "DecryptionError"}
  <2>1. CASE Opens(mk, m)
    BY <1>1, <2>1 DEF OpenSkipped, Outcome, Opens, RatchetState
  <2>2. CASE ~ Opens(mk, m)
    BY <1>1, <2>2 DEF OpenSkipped, Outcome, RatchetState
  <2> QED BY <2>1, <2>2
<1>8. ids \in Seq(MessageId) /\ Len(ids) <= MaxReceivedIds
  <2>1. s.received_ids \in Seq(MessageId)
    BY <1>1 DEF RatchetState
  <2> QED BY <1>1, <2>1, ReceivedIdsAddBounded
<1> DEFINE U == UsedAfter(Used, m, out)
<1>9. U \subseteq Used \cup {mk} /\ StoreInv(rest, U, s.receiving_chain_key)
  BY <1>4, <1>6, <1>7 DEF UsedAfter
<1>10. rest \in Seq(SkippedEntry)
  BY <1>6 DEF StoreInv
<1> HIDE DEF out, store, i, rest, ids, mk, U
<1>11. t = [root_key |-> s.root_key, sending_chain_key |-> s.sending_chain_key,
            receiving_chain_key |-> s.receiving_chain_key, dhs |-> s.dhs,
            dhr |-> s.dhr, Ns |-> s.Ns, Nr |-> s.Nr, PN |-> s.PN,
            skipped_message_keys |-> rest, received_ids |-> ids]
  BY <1>1, <1>7 DEF RatchetState
<1> HIDE DEF t
<1>12. t \in RatchetState
  BY <1>1, <1>8, <1>10, <1>11 DEF RatchetState
<1>13. ReceivingInv(t, U)
  <2>1. \A k \in U : Behind(k, s.receiving_chain_key)
    BY <1>3, <1>5, <1>9
  <2> QED BY <1>2, <1>3, <1>9, <1>11, <2>1 DEF ReceivingInv
<1>14. SendingInv(t, Sealed)
  BY <1>11 DEF SessionInv, SendingInv
<1>15. SessionInv(t, U, Sealed)
  <2>1. U \subseteq ChainKey
    BY <1>5, <1>9 DEF SessionInv
  <2> QED BY <1>8, <1>11, <1>12, <1>13, <1>14, <2>1 DEF SessionInv
<1>16. Stays(t, s)
  BY <1>11 DEF Stays
<1> QED BY <1>5, <1>7, <1>15, <1>16 DEF out, t, U

\* The chain path.
LEMMA OpenNextInv ==
    ASSUME NEW s, NEW Used, NEW Sealed, SessionInv(s, Used, Sealed),
           NEW m \in WireMessage, NEW id \in MessageId,
           s.receiving_chain_key # None
    PROVE  LET out == OpenNext(s, m, id)
           IN  /\ SessionInv(out.state, UsedAfter(Used, m, out), Sealed)
               /\ out.result = "ok" => m.mk \notin Used
               /\ out.state.dhs = s.dhs /\ out.state.Ns = s.Ns
               /\ out.state.sending_chain_key = s.sending_chain_key
               /\ out.state.Nr = s.Nr + 1
<1> DEFINE out  == OpenNext(s, m, id)
           ck   == s.receiving_chain_key
           next == kdf_chain(ck).next
           store == s.skipped_message_keys
           ids  == IF out.result = "ok" THEN ReceivedIdsAdd(s.received_ids, id)
                                        ELSE s.received_ids
           t    == out.state
<1>1. s \in RatchetState /\ Len(s.received_ids) <= MaxReceivedIds /\ Used \subseteq ChainKey
  BY DEF SessionInv
<1>2. ck \in ChainKey /\ s.Nr \in Nat
  BY <1>1 DEF RatchetState
<1>3. /\ next \in ChainKey /\ next # None /\ next.root = ck.root
      /\ kdf_chain(ck).mk = ck
      /\ \A k \in ChainKey : Behind(k, ck) => Behind(k, next)
      /\ Behind(ck, next)
      /\ ~ Behind(ck, ck)
  BY <1>2, KdfChainType
<1>4. /\ Len(ck.root) <= Len(s.root_key)
      /\ StoreInv(store, Used, ck)
      /\ \A k \in Used : Behind(k, ck)
  BY DEF SessionInv, ReceivingInv
<1>5. ck \notin Used
  BY <1>3, <1>4
<1>6. StoreInv(store, Used, next) /\ StoreInv(store, Used \cup {ck}, next)
  BY <1>2, <1>4, StoreInvAdvance
<1>7. /\ t = [s EXCEPT !.receiving_chain_key = next, !.Nr = s.Nr + 1,
                       !.received_ids = ids]
      /\ out.result = "ok" => m.mk = ck
      /\ out.result \in {"ok", "DecryptionError"}
  <2> HIDE DEF next
  <2>0. kdf_chain(s.receiving_chain_key).next = next
        /\ kdf_chain(s.receiving_chain_key).mk = s.receiving_chain_key
    BY <1>3 DEF next
  <2>1. CASE Opens(ck, m)
    BY <1>1, <2>0, <2>1 DEF OpenNext, Outcome, Opens, RatchetState
  <2>2. CASE ~ Opens(ck, m)
    BY <1>1, <2>0, <2>2 DEF OpenNext, Outcome, RatchetState
  <2> QED BY <2>1, <2>2
<1>8. ids \in Seq(MessageId) /\ Len(ids) <= MaxReceivedIds
  <2>1. s.received_ids \in Seq(MessageId)
    BY <1>1 DEF RatchetState
  <2> QED BY <1>1, <2>1, ReceivedIdsAddBounded
<1> DEFINE U == UsedAfter(Used, m, out)
<1>9. U \subseteq Used \cup {ck} /\ StoreInv(store, U, next)
  BY <1>6, <1>7 DEF UsedAfter
<1> HIDE DEF out, next, ids, U
<1>10. t = [root_key |-> s.root_key, sending_chain_key |-> s.sending_chain_key,
            receiving_chain_key |-> next, dhs |-> s.dhs,
            dhr |-> s.dhr, Ns |-> s.Ns, Nr |-> s.Nr + 1, PN |-> s.PN,
            skipped_message_keys |-> store, received_ids |-> ids]
  BY <1>1, <1>7 DEF RatchetState
<1> HIDE DEF t
<1>11. t \in RatchetState
  <2>1. s.Nr + 1 \in Nat
    BY <1>2
  <2> QED BY <1>1, <1>3, <1>8, <1>10, <2>1 DEF RatchetState
<1>12. ReceivingInv(t, U)
  <2>1. \A k \in U : Behind(k, next)
    BY <1>1, <1>3, <1>4, <1>9
  <2> QED BY <1>3, <1>4, <1>9, <1>10, <2>1 DEF ReceivingInv
<1>13. SendingInv(t, Sealed)
  <2>1. SameSession(t, s)
    BY <1>10 DEF SameSession
  <2>2. t.receiving_chain_key # None /\ t.receiving_chain_key.root = s.receiving_chain_key.root
    BY <1>3, <1>10
  <2>3. SendingInv(s, Sealed)
    BY DEF SessionInv
  <2> QED BY <2>1, <2>2, <2>3, SendingInvSame
<1>14. SessionInv(t, U, Sealed)
  <2>1. U \subseteq ChainKey
    BY <1>1, <1>2, <1>9
  <2> QED BY <1>8, <1>10, <1>11, <1>12, <1>13, <2>1 DEF SessionInv
<1>15. /\ t.dhs = s.dhs /\ t.Ns = s.Ns /\ t.Nr = s.Nr + 1
       /\ t.sending_chain_key = s.sending_chain_key
  BY <1>10
<1> QED BY <1>5, <1>7, <1>14, <1>15 DEF out, t, U

\* What a call of ratchet_decrypt does to the own ratchet key and the
\* counters: it stays in the chain, or generates a key pair and starts anew.
DecryptEffect(r, s, fresh) ==
    \/ /\ r.dhs = s.dhs /\ r.Ns = s.Ns /\ r.sending_chain_key = s.sending_chain_key
       /\ r.Nr >= s.Nr
       /\ r.Nr - s.Nr <= MAX_SKIP_DISTANCE + 1
    \/ /\ r.dhs = fresh /\ r.Ns = 0 /\ r.sending_chain_key = None
       /\ r.Nr <= MAX_SKIP_DISTANCE + 1

\* ratchet_decrypt keeps the invariant on every path, accepts only with a key
\* it has not used, and is bounded in what it skips.
LEMMA RatchetDecryptInv ==
    ASSUME NEW s, NEW Used, NEW Sealed, SessionInv(s, Used, Sealed),
           NEW m \in WireMessage, NEW fresh \in KeyPair
    PROVE  LET out == ratchet_decrypt(s, m, fresh)
           IN  /\ SessionInv(out.state, UsedAfter(Used, m, out), Sealed)
               /\ out.result = "ok" => m.mk \notin Used
               /\ DecryptEffect(out.state, s, fresh)
<1> DEFINE out == ratchet_decrypt(s, m, fresh)
           id  == [dh |-> m.dh, n |-> m.n]
           r   == FollowRatchet(s, m.dh, fresh)
<1>1. m.dh \in KeyPair /\ m.n \in Nat /\ id \in MessageId
  BY DEF WireMessage, MessageId
<1>2. s \in RatchetState /\ s.Nr \in Nat /\ MAX_SKIP_DISTANCE \in Nat
  BY EngineAssumption DEF SessionInv, RatchetState
<1>3. /\ SessionInv(r, Used, Sealed)
      /\ r.dhr = m.dh
      /\ r.receiving_chain_key # None
      /\ Stays(r, s) \/ Ratchets(r, fresh)
  BY <1>1, FollowRatchetInv
<1>4. r.Nr \in Nat /\ r.dhr # None
  BY <1>1, <1>3, EngineAssumption DEF SessionInv, RatchetState
<1>5. DecryptEffect(s, s, fresh) /\ DecryptEffect(r, s, fresh)
  BY <1>2, <1>3, <1>4 DEF DecryptEffect, Stays, Ratchets
<1>6. CASE ReceivedIdsContains(s.received_ids, id)
  <2>1. out = Outcome(s, "DuplicateMessageError")
    BY <1>6 DEF ratchet_decrypt
  <2>2. out.state = s /\ out.result # "ok"
    BY <2>1 DEF Outcome
  <2> QED BY <1>5, <2>2 DEF UsedAfter
<1>7. CASE /\ ~ ReceivedIdsContains(s.received_ids, id)
           /\ SkippedHas(s.skipped_message_keys, id)
  <2>1. out = OpenSkipped(s, m, id)
    BY <1>7 DEF ratchet_decrypt
  <2>2. /\ SessionInv(out.state, UsedAfter(Used, m, out), Sealed)
        /\ out.result = "ok" => m.mk \notin Used
        /\ Stays(out.state, s)
    BY <1>1, <1>7, <2>1, OpenSkippedInv
  <2>3. DecryptEffect(out.state, s, fresh)
    BY <1>2, <2>2 DEF DecryptEffect, Stays
  <2> QED BY <2>2, <2>3
<1>8. CASE /\ ~ ReceivedIdsContains(s.received_ids, id)
           /\ ~ SkippedHas(s.skipped_message_keys, id)
  <2> DEFINE old == s.dhr # None /\ m.dh = s.dhr /\ m.n < s.Nr
             k   == _skip_receiving_until(r, m.n)
  <2>1. out = IF old THEN Outcome(s, "DuplicateMessageError")
              ELSE IF m.n < r.Nr THEN Outcome(r, "DuplicateMessageError")
              ELSE IF SkipTooFar(r, m.n) THEN Outcome(r, "SkipDistanceExceededError")
              ELSE OpenNext(k, m, id)
    BY <1>8 DEF ratchet_decrypt
  <2> HIDE DEF out, r, k
  <2>2. CASE old
    <3>1. out.state = s /\ out.result # "ok"
      BY <2>1, <2>2 DEF Outcome
    <3> QED BY <1>5, <3>1 DEF UsedAfter, out
  <2>3. CASE ~ old /\ (m.n < r.Nr \/ SkipTooFar(r, m.n))
    <3>1. out.state = r /\ out.result # "ok"
      BY <2>1, <2>3 DEF Outcome
    <3> QED BY <1>3, <1>5, <3>1 DEF UsedAfter, out
  <2>4. CASE ~ old /\ ~(m.n < r.Nr) /\ ~ SkipTooFar(r, m.n)
    <3>1. out = OpenNext(k, m, id)
      BY <2>1, <2>4
    <3>2. r.Nr <= m.n /\ m.n - r.Nr <= MAX_SKIP_DISTANCE
      BY <1>1, <1>2, <1>4, <2>4 DEF SkipTooFar
    <3>3. /\ SessionInv(k, Used, Sealed)
          /\ k.Nr = m.n
          /\ k.receiving_chain_key # None
          /\ SameSession(k, r)
      BY <1>1, <1>3, <1>4, <3>2, SkipReceivingInv DEF k
    <3>4. /\ SessionInv(out.state, UsedAfter(Used, m, out), Sealed)
          /\ out.result = "ok" => m.mk \notin Used
          /\ out.state.dhs = k.dhs /\ out.state.Ns = k.Ns
          /\ out.state.sending_chain_key = k.sending_chain_key
          /\ out.state.Nr = k.Nr + 1
      BY <1>1, <3>1, <3>3, OpenNextInv
    <3>5. /\ out.state.dhs = r.dhs /\ out.state.Ns = r.Ns
          /\ out.state.sending_chain_key = r.sending_chain_key
          /\ out.state.Nr = m.n + 1
      BY <3>3, <3>4 DEF SameSession
    <3>6. DecryptEffect(out.state, s, fresh)
      BY <1>1, <1>2, <1>3, <1>4, <3>2, <3>5 DEF DecryptEffect, Stays, Ratchets
    <3> QED BY <3>4, <3>6 DEF out
  <2> QED BY <2>2, <2>3, <2>4
<1> QED BY <1>6, <1>7, <1>8

\* ratchet_encrypt keeps the invariant and seals with a key not used before.
LEMMA RatchetEncryptInv ==
    ASSUME NEW s, NEW Used, NEW Sealed, SessionInv(s, Used, Sealed), CanEncrypt(s)
    PROVE  LET m == EncryptedMessage(s)
               r == EncryptedState(s)
           IN  /\ SessionInv(r, Used, Sealed \cup {m.mk})
               /\ m \in WireMessage
               /\ m.mk \notin Sealed
               /\ m.dh = s.dhs /\ m.n = s.Ns
               /\ r.dhs = s.dhs /\ r.dhr = s.dhr /\ r.Nr = s.Nr /\ r.Ns = s.Ns + 1
               /\ r.sending_chain_key # None
<1> DEFINE y  == ReadyToSend(s)
           m  == EncryptedMessage(s)
           r  == EncryptedState(s)
           ck == y.sending_chain_key
           next == kdf_chain(ck).next
<1>1. s \in RatchetState
  BY DEF SessionInv
<1>2. /\ SessionInv(y, Used, Sealed)
      /\ y.sending_chain_key # None
      /\ y.dhs = s.dhs /\ y.dhr = s.dhr /\ y.Nr = s.Nr /\ y.Ns = s.Ns
  <2>1. CASE s.sending_chain_key # None
    BY <2>1 DEF ReadyToSend
  <2>2. CASE s.sending_chain_key = None
    <3> DEFINE kdf == kdf_root(s.root_key, dh_secret(s.dhs, s.dhr))
    <3>1. s.dhr # None /\ s.dhr \in KeyPair
      BY <1>1, <2>2 DEF CanEncrypt, RatchetState
    <3>2. s.root_key \in RootKey /\ dh_secret(s.dhs, s.dhr) \in SUBSET KeyPair
      BY <1>1, <3>1 DEF RatchetState, dh_secret
    <3>3. /\ kdf.root \in RootKey
          /\ kdf.chain \in ChainKey
          /\ kdf.chain # None
          /\ kdf.chain.root = kdf.root
          /\ Len(kdf.root) = Len(s.root_key) + 1
          /\ Len(s.root_key) \in Nat
      BY <3>2, KdfRootType, EngineAssumption
    <3>4. s.Ns = 0 /\ \A k \in Sealed : Len(k.root) <= Len(s.root_key)
      BY <2>2 DEF SessionInv, SendingInv
    <3> HIDE DEF kdf
    <3>5. y = [s EXCEPT !.root_key = kdf.root, !.sending_chain_key = kdf.chain, !.Ns = 0]
      BY <2>2, <3>1 DEF ReadyToSend, _dh_ratchet_step_send, kdf
    <3>6. y = [root_key |-> kdf.root, sending_chain_key |-> kdf.chain,
               receiving_chain_key |-> s.receiving_chain_key, dhs |-> s.dhs,
               dhr |-> s.dhr, Ns |-> 0, Nr |-> s.Nr, PN |-> s.PN,
               skipped_message_keys |-> s.skipped_message_keys,
               received_ids |-> s.received_ids]
      BY <1>1, <3>5 DEF RatchetState
    <3> HIDE DEF y
    <3>7. y \in RatchetState
      BY <1>1, <3>3, <3>6 DEF RatchetState
    <3>8. s.receiving_chain_key # None =>
             /\ s.receiving_chain_key \in ChainKey
             /\ Len(s.receiving_chain_key.root) <= Len(s.root_key)
             /\ Len(s.receiving_chain_key.root) \in Nat
      BY <1>1, ChainKeyType DEF RatchetState, SessionInv, ReceivingInv
    <3>9. ReceivingInv(y, Used)
      BY <3>3, <3>6, <3>8 DEF SessionInv, ReceivingInv
    <3>10. SendingInv(y, Sealed)
      <4>1. ASSUME NEW k \in Sealed PROVE Behind(k, kdf.chain)
        <5>1. k \in ChainKey
          BY DEF SessionInv
        <5> QED BY <3>3, <3>4, <5>1, ChainKeyType DEF Behind
      <4> QED BY <3>3, <3>6, <3>8, <4>1 DEF SendingInv
    <3>11. SessionInv(y, Used, Sealed)
      BY <3>6, <3>7, <3>9, <3>10 DEF SessionInv
    <3> QED BY <3>3, <3>4, <3>6, <3>11
  <2> QED BY <2>1, <2>2
<1> HIDE DEF y
<1>3. y \in RatchetState /\ ck \in ChainKey /\ y.Ns \in Nat
  BY <1>2 DEF SessionInv, RatchetState
<1>4. /\ next \in ChainKey /\ next # None /\ next.root = ck.root
      /\ kdf_chain(ck).mk = ck
      /\ \A k \in ChainKey : Behind(k, ck) => Behind(k, next)
      /\ Behind(ck, next)
      /\ ~ Behind(ck, ck)
  BY <1>3, KdfChainType
<1>5. m = [dh |-> y.dhs, n |-> y.Ns, pn |-> y.PN, mk |-> ck]
  BY <1>4 DEF EncryptedMessage, y
<1>6. m \in WireMessage /\ m.mk = ck /\ m.dh = s.dhs /\ m.n = s.Ns
  BY <1>2, <1>3, <1>5 DEF WireMessage, RatchetState
<1>7. \A k \in Sealed : Behind(k, ck) /\ k \in ChainKey
  BY <1>2 DEF SessionInv, SendingInv
<1> HIDE DEF next
<1>8. r = [y EXCEPT !.sending_chain_key = next, !.Ns = y.Ns + 1]
  BY <1>3 DEF EncryptedState, y, next, RatchetState
<1>9. r = [root_key |-> y.root_key, sending_chain_key |-> next,
           receiving_chain_key |-> y.receiving_chain_key, dhs |-> y.dhs,
           dhr |-> y.dhr, Ns |-> y.Ns + 1, Nr |-> y.Nr, PN |-> y.PN,
           skipped_message_keys |-> y.skipped_message_keys,
           received_ids |-> y.received_ids]
  BY <1>3, <1>8 DEF RatchetState
<1> HIDE DEF r, m
<1>10. r \in RatchetState
  <2>1. y.Ns + 1 \in Nat
    BY <1>3
  <2> QED BY <1>3, <1>4, <1>9, <2>1 DEF RatchetState
<1>11. ReceivingInv(r, Used)
  BY <1>2, <1>9 DEF SessionInv, ReceivingInv
<1>12. SendingInv(r, Sealed \cup {m.mk})
  <2>1. \A k \in Sealed \cup {m.mk} : Behind(k, next)
    BY <1>4, <1>6, <1>7
  <2>2. /\ Len(ck.root) = Len(y.root_key)
        /\ y.receiving_chain_key # None => Len(y.receiving_chain_key.root) < Len(ck.root)
    BY <1>2 DEF SessionInv, SendingInv
  <2> QED BY <1>4, <1>9, <2>1, <2>2 DEF SendingInv
<1>13. SessionInv(r, Used, Sealed \cup {m.mk})
  <2>1. Sealed \cup {m.mk} \subseteq ChainKey
    BY <1>3, <1>6, <1>7
  <2> QED BY <1>2, <1>9, <1>10, <1>11, <1>12, <2>1 DEF SessionInv
<1>14. m.mk \notin Sealed
  BY <1>4, <1>6, <1>7
<1> QED BY <1>2, <1>4, <1>6, <1>9, <1>13, <1>14 DEF r, m

\* What a call of ratchet_decrypt on a message under dh does to the ratchet keys,
\* the root key and the sending chain: nothing; it learns the first key of the
\* peer and has not sent yet; or it answers dh with a new key pair.
KeysEffect(r, s, dh, fresh) ==
    \/ /\ r.dhs = s.dhs /\ r.dhr = s.dhr /\ r.sending_chain_key = s.sending_chain_key
       /\ r.root_key = s.root_key
    \/ /\ r.dhs = s.dhs /\ r.dhr = dh /\ s.dhr = None
       /\ r.sending_chain_key = None /\ s.sending_chain_key = None
       /\ r.root_key = s.root_key
    \/ /\ r.dhs = fresh /\ r.dhr = dh /\ r.sending_chain_key = None
       /\ r.root_key = Append(s.root_key, {s.dhs, dh})

\* The ratchet keys after ratchet_decrypt.
LEMMA RatchetDecryptKeys ==
    ASSUME NEW s, NEW Used, NEW Sealed, SessionInv(s, Used, Sealed),
           NEW m \in WireMessage, NEW fresh \in KeyPair
    PROVE  KeysEffect(ratchet_decrypt(s, m, fresh).state, s, m.dh, fresh)
<1> DEFINE out == ratchet_decrypt(s, m, fresh)
           id  == [dh |-> m.dh, n |-> m.n]
           dh  == m.dh
           r   == FollowRatchet(s, dh, fresh)
           b   == Bootstrap(s, dh, fresh)
           New == _dh_ratchet_receive(s, dh, fresh)
<1>1. dh \in KeyPair /\ dh # None /\ m.n \in Nat /\ id \in MessageId
  BY EngineAssumption DEF WireMessage, MessageId
<1>2. s \in RatchetState /\ s.Nr \in Nat /\ (s.dhr # None => s.receiving_chain_key # None)
  BY DEF SessionInv, RatchetState, ReceivingInv
<1>3. _skip_receiving_until(s, s.Nr) = s
  BY <1>2, SkipToNrIsNoOp
<1>4. /\ New.dhs = fresh /\ New.dhr = dh /\ New.sending_chain_key = None
      /\ New.root_key = Append(s.root_key, {s.dhs, dh})
  BY <1>2 DEF _dh_ratchet_receive, RatchetState, kdf_root, dh_secret
<1> HIDE DEF New
<1>5. KeysEffect(r, s, dh, fresh)
  <2>1. CASE s.dhr = None /\ s.sending_chain_key # None
    <3>1. b = New
      BY <1>3, <2>1 DEF Bootstrap, New
    <3>2. r = New
      BY <1>4, <3>1 DEF FollowRatchet
    <3> QED BY <1>4, <3>2 DEF KeysEffect
  <2>2. CASE s.dhr = None /\ s.sending_chain_key = None
    <3>1. b.dhr = dh /\ b.dhs = s.dhs /\ b.sending_chain_key = None /\ b.root_key = s.root_key
      <4>1. b = [s EXCEPT !.dhr = dh] \/ b = _dh_ratchet_receive_first(s, dh)
        BY <1>3, <2>2 DEF Bootstrap
      <4> QED BY <1>2, <2>2, <4>1 DEF _dh_ratchet_receive_first, RatchetState
    <3>2. r = b
      BY <3>1 DEF FollowRatchet
    <3> QED BY <2>2, <3>1, <3>2 DEF KeysEffect
  <2>3. CASE s.dhr # None
    <3>1. b = s
      BY <1>2, <2>3 DEF Bootstrap
    <3>2. r = s \/ r = New
      BY <1>3, <3>1 DEF FollowRatchet, New
    <3> QED BY <1>4, <3>2 DEF KeysEffect
  <2> QED BY <2>1, <2>2, <2>3
<1>6. KeysEffect(s, s, dh, fresh)
  BY DEF KeysEffect
<1>7. /\ SessionInv(r, Used, Sealed)
      /\ r.dhr = dh /\ r.receiving_chain_key # None
  BY <1>1, FollowRatchetInv
<1>8. r.Nr \in Nat /\ r.dhr # None
  BY <1>1, <1>7 DEF SessionInv, RatchetState
<1>9. CASE ReceivedIdsContains(s.received_ids, id)
  <2>1. out = Outcome(s, "DuplicateMessageError")
    BY <1>9 DEF ratchet_decrypt
  <2> QED BY <1>6, <2>1 DEF Outcome
<1>10. CASE /\ ~ ReceivedIdsContains(s.received_ids, id)
            /\ SkippedHas(s.skipped_message_keys, id)
  <2>1. out = OpenSkipped(s, m, id)
    BY <1>10 DEF ratchet_decrypt
  <2> HIDE DEF out, id
  <2>2. /\ out.state.dhs = s.dhs /\ out.state.dhr = s.dhr
        /\ out.state.sending_chain_key = s.sending_chain_key
        /\ out.state.root_key = s.root_key
    BY <1>2, <2>1 DEF OpenSkipped, Outcome, RatchetState
  <2> QED BY <2>2 DEF KeysEffect, out
<1>11. CASE /\ ~ ReceivedIdsContains(s.received_ids, id)
            /\ ~ SkippedHas(s.skipped_message_keys, id)
  <2> DEFINE old == s.dhr # None /\ dh = s.dhr /\ m.n < s.Nr
             k   == _skip_receiving_until(r, m.n)
  <2>1. out = IF old THEN Outcome(s, "DuplicateMessageError")
              ELSE IF m.n < r.Nr THEN Outcome(r, "DuplicateMessageError")
              ELSE IF SkipTooFar(r, m.n) THEN Outcome(r, "SkipDistanceExceededError")
              ELSE OpenNext(k, m, id)
    BY <1>11 DEF ratchet_decrypt
  <2> HIDE DEF out, r, k, id
  <2>2. CASE old \/ m.n < r.Nr \/ SkipTooFar(r, m.n)
    <3>1. out.state = s \/ out.state = r
      BY <2>1, <2>2 DEF Outcome
    <3> QED BY <1>5, <1>6, <3>1 DEF out
  <2>3. CASE ~ (old \/ m.n < r.Nr \/ SkipTooFar(r, m.n))
    <3>1. out = OpenNext(k, m, id) /\ r.Nr <= m.n
      BY <1>1, <1>8, <2>1, <2>3
    <3>2. SessionInv(k, Used, Sealed) /\ SameSession(k, r)
      BY <1>1, <1>7, <1>8, <3>1, SkipReceivingInv DEF k
    <3>3. k \in RatchetState
      BY <3>2 DEF SessionInv
    <3>4. /\ out.state.dhs = k.dhs /\ out.state.dhr = k.dhr
          /\ out.state.sending_chain_key = k.sending_chain_key
          /\ out.state.root_key = k.root_key
      BY <3>1, <3>3 DEF OpenNext, Outcome, RatchetState
    <3>5. /\ out.state.dhs = r.dhs /\ out.state.dhr = r.dhr
          /\ out.state.sending_chain_key = r.sending_chain_key
          /\ out.state.root_key = r.root_key
      BY <3>2, <3>4 DEF SameSession
    <3> QED BY <1>5, <3>5 DEF KeysEffect, out
  <2> QED BY <2>2, <2>3
<1> QED BY <1>9, <1>10, <1>11

\* The key ratchet_encrypt seals with is the sending chain's, or that of a new
\* chain from the secret of the two present ratchet keys; the chain stays.
LEMMA RatchetEncryptKeys ==
    ASSUME NEW s, NEW Used, NEW Sealed, SessionInv(s, Used, Sealed), CanEncrypt(s)
    PROVE  LET m == EncryptedMessage(s)
               r == EncryptedState(s)
           IN  /\ s.sending_chain_key # None =>
                     m.mk = s.sending_chain_key /\ r.root_key = s.root_key
               /\ s.sending_chain_key = None =>
                     /\ s.dhr # None /\ m.mk.label = "root"
                     /\ m.mk.root = Append(s.root_key, {s.dhs, s.dhr})
                     /\ m.mk.root[Len(m.mk.root)] = {s.dhs, s.dhr}
                     /\ r.root_key = m.mk.root
               /\ r.receiving_chain_key = s.receiving_chain_key
               /\ r.skipped_message_keys = s.skipped_message_keys
               /\ r.sending_chain_key # None
               /\ r.sending_chain_key.label = m.mk.label
               /\ r.sending_chain_key.root = m.mk.root
<1> DEFINE y  == ReadyToSend(s)
           ck == y.sending_chain_key
           m  == EncryptedMessage(s)
           r  == EncryptedState(s)
<1>1. s \in RatchetState
  BY DEF SessionInv
<1>2. /\ ck \in ChainKey /\ y \in RatchetState
      /\ s.sending_chain_key # None => ck = s.sending_chain_key /\ y.root_key = s.root_key
      /\ s.sending_chain_key = None =>
            /\ s.dhr # None /\ ck.label = "root"
            /\ ck.root = Append(s.root_key, {s.dhs, s.dhr})
            /\ ck.root[Len(ck.root)] = {s.dhs, s.dhr}
            /\ y.root_key = ck.root
      /\ y.receiving_chain_key = s.receiving_chain_key
      /\ y.skipped_message_keys = s.skipped_message_keys
  <2>1. CASE s.sending_chain_key # None
    BY <1>1, <2>1 DEF ReadyToSend, RatchetState
  <2>2. CASE s.sending_chain_key = None
    <3> DEFINE secret == dh_secret(s.dhs, s.dhr)
               kdf    == kdf_root(s.root_key, secret)
    <3>1. s.dhr # None /\ s.dhr \in KeyPair /\ secret = {s.dhs, s.dhr}
      BY <1>1, <2>2 DEF CanEncrypt, RatchetState, dh_secret
    <3>2. s.root_key \in RootKey /\ secret \in SUBSET KeyPair
      BY <1>1, <3>1 DEF RatchetState
    <3>3. kdf.root \in RootKey /\ kdf.chain \in ChainKey /\ kdf.chain.label = "root"
          /\ kdf.chain.root = Append(s.root_key, secret) /\ kdf.root = kdf.chain.root
      BY <3>2, KdfRootType DEF kdf_root
    <3>4. Append(s.root_key, secret)[Len(Append(s.root_key, secret))] = secret
      <4>1. s.root_key \in Seq(SUBSET KeyPair)
        BY <3>2 DEF RootKey
      <4> HIDE DEF secret
      <4> QED BY <3>2, <4>1, AppendProperties
    <3> HIDE DEF kdf, secret
    <3>5. y = [s EXCEPT !.root_key = kdf.root, !.sending_chain_key = kdf.chain, !.Ns = 0]
      BY <2>2, <3>1 DEF ReadyToSend, _dh_ratchet_step_send, kdf, secret
    <3>6. /\ ck = kdf.chain /\ y \in RatchetState /\ y.root_key = kdf.root
          /\ y.receiving_chain_key = s.receiving_chain_key
          /\ y.skipped_message_keys = s.skipped_message_keys
      <4>1. y = [root_key |-> kdf.root, sending_chain_key |-> kdf.chain,
                 receiving_chain_key |-> s.receiving_chain_key, dhs |-> s.dhs,
                 dhr |-> s.dhr, Ns |-> 0, Nr |-> s.Nr, PN |-> s.PN,
                 skipped_message_keys |-> s.skipped_message_keys,
                 received_ids |-> s.received_ids]
        BY <1>1, <3>5 DEF RatchetState
      <4> HIDE DEF y
      <4> QED BY <1>1, <3>3, <4>1 DEF RatchetState
    <3>7. secret = {s.dhs, s.dhr}
      BY <3>1
    <3> QED BY <2>2, <3>1, <3>3, <3>4, <3>6, <3>7
  <2> QED BY <2>1, <2>2
<1> HIDE DEF y
<1>3. kdf_chain(ck).mk = ck
      /\ kdf_chain(ck).next # None /\ kdf_chain(ck).next.root = ck.root
      /\ kdf_chain(ck).next.label = ck.label
  BY <1>2, KdfChainType DEF kdf_chain, ChainKey
<1>4. m.mk = ck
  BY <1>3 DEF EncryptedMessage, y
<1>5. /\ r.sending_chain_key = kdf_chain(ck).next /\ r.root_key = y.root_key
      /\ r.receiving_chain_key = y.receiving_chain_key
      /\ r.skipped_message_keys = y.skipped_message_keys
  BY <1>2 DEF EncryptedState, y, RatchetState
<1> QED BY <1>2, <1>3, <1>4, <1>5

-----------------------------------------------------------------------------
(* What the specifications that use the engine need. *)

\* A new session has used no key.
LEMMA CreateInitialInv ==
    ASSUME NEW root \in RootKey, NEW first, NEW key \in KeyPair
    PROVE  /\ SessionInv(create_initial_state(root, first, key), {}, {})
           /\ create_initial_state(root, first, key).dhs = key
<1> DEFINE ck == kdf_initial_chain(root)
           s  == create_initial_state(root, first, key)
<1>1. ck \in ChainKey /\ ck.root = root /\ ck # None
  <2>1. ck = [label |-> "initial", root |-> root, i |-> 0]
    BY DEF kdf_initial_chain
  <2>2. ck \in ChainKey
    BY <2>1 DEF ChainKey
  <2> QED BY <2>1, <2>2, EngineAssumption
<1> HIDE DEF ck
<1>2. s = [root_key |-> root,
           sending_chain_key |-> IF first THEN ck ELSE None,
           receiving_chain_key |-> IF first THEN None ELSE ck,
           dhs |-> key, dhr |-> None, Ns |-> 0, Nr |-> 0, PN |-> 0,
           skipped_message_keys |-> << >>, received_ids |-> << >>]
  BY DEF create_initial_state, ck
<1> HIDE DEF s
<1>3. s \in RatchetState
  BY <1>1, <1>2 DEF RatchetState
<1>4. StoreInv(<< >>, {}, ck) /\ Len(<< >>) = 0 /\ Len(root) \in Nat
  BY EngineAssumption DEF StoreInv, RootKey
<1>5. ReceivingInv(s, {})
  BY <1>1, <1>2, <1>4 DEF ReceivingInv
<1>6. SendingInv(s, {})
  BY <1>1, <1>2, <1>4 DEF SendingInv
<1>7. SessionInv(s, {}, {})
  BY <1>2, <1>3, <1>4, <1>5, <1>6, EngineAssumption DEF SessionInv
<1> QED BY <1>2, <1>7 DEF s

\* A session that is right for some keys is right for fewer.
LEMMA SessionInvFewer ==
    ASSUME NEW s, NEW Used, NEW Sealed, SessionInv(s, Used, Sealed),
           NEW U \in SUBSET Used, NEW S \in SUBSET Sealed
    PROVE  SessionInv(s, U, S)
<1>1. ReceivingInv(s, U)
  <2>1. \A ck : StoreInv(s.skipped_message_keys, Used, ck)
                  => StoreInv(s.skipped_message_keys, U, ck)
    BY DEF StoreInv
  <2> QED BY <2>1 DEF SessionInv, ReceivingInv
<1>2. SendingInv(s, S)
  BY DEF SessionInv, SendingInv
<1> QED BY <1>1, <1>2 DEF SessionInv

\* The keys of a sequence of messages.
KeysOf(msgs) == {msgs[j].mk : j \in 1..Len(msgs)}

\* Appending a message adds its key and keeps keys distinct if it is new.
LEMMA KeysOfAppend ==
    ASSUME NEW msgs \in Seq(WireMessage), NEW m \in WireMessage
    PROVE  /\ Append(msgs, m) \in Seq(WireMessage)
           /\ Len(Append(msgs, m)) = Len(msgs) + 1
           /\ Len(msgs) \in Nat
           /\ \A j \in 1..Len(msgs) : Append(msgs, m)[j] = msgs[j]
           /\ Append(msgs, m)[Len(msgs) + 1] = m
           /\ KeysOf(Append(msgs, m)) = KeysOf(msgs) \cup {m.mk}
<1>1. /\ Append(msgs, m) \in Seq(WireMessage)
      /\ Len(Append(msgs, m)) = Len(msgs) + 1
      /\ Len(msgs) \in Nat
      /\ \A j \in 1..Len(msgs) : Append(msgs, m)[j] = msgs[j]
      /\ Append(msgs, m)[Len(msgs) + 1] = m
  BY AppendProperties, LenProperties
<1> DEFINE a == Append(msgs, m)
           n == Len(msgs)
<1>2. 1..Len(a) = (1..n) \cup {n + 1}
  BY <1>1
<1> HIDE DEF a, n
<1>3. KeysOf(a) = {msgs[j].mk : j \in 1..n} \cup {m.mk}
  BY <1>1, <1>2 DEF KeysOf, a, n
<1> QED BY <1>1, <1>3 DEF KeysOf, a, n

\* A new key keeps a sequence of messages free of repeated keys.
LEMMA AppendKeepsDistinct ==
    ASSUME NEW msgs \in Seq(WireMessage), NEW m \in WireMessage,
           \A j, k \in 1..Len(msgs) : msgs[j].mk = msgs[k].mk => j = k,
           m.mk \notin KeysOf(msgs)
    PROVE  \A j, k \in 1..Len(Append(msgs, m)) :
              Append(msgs, m)[j].mk = Append(msgs, m)[k].mk => j = k
<1> DEFINE a == Append(msgs, m)
           n == Len(msgs)
<1>1. /\ Len(a) = n + 1 /\ n \in Nat
      /\ \A j \in 1..n : a[j] = msgs[j]
      /\ a[n + 1] = m
  BY KeysOfAppend
<1>2. \A j \in 1..n : msgs[j].mk # m.mk
  BY DEF KeysOf
<1> HIDE DEF a
<1>3. \A j, k \in 1..Len(a) : a[j].mk = a[k].mk => j = k
  BY <1>1, <1>2
<1> QED BY <1>3 DEF a
-----------------------------------------------------------------------------
(* Where the keys of a session come from. *)

\* The derivation of the chain starts with the secret e.
Begins(ck, e) == Len(ck.root) >= 1 /\ ck.root[1] = e

\* All keys of the session descend from the secret e.
Rooted(s, e) ==
    /\ Len(s.root_key) >= 1 /\ s.root_key[1] = e
    /\ s.sending_chain_key # None => Begins(s.sending_chain_key, e)
    /\ s.receiving_chain_key # None => Begins(s.receiving_chain_key, e)
    /\ \A j \in 1..Len(s.skipped_message_keys) : Begins(s.skipped_message_keys[j].mk, e)

\* A chain that the owner of the key pairs in Mine sends on: the initial one of
\* the initiator; the first one of the responder; or one that answers a key of
\* the peer with a key pair made after the one that key was answered to.
SealedBy(ck, Mine, first) ==
    IF ck.label = "initial"
    THEN first
    ELSE \E own, old \in Mine : \E other \in KeyPair \ Mine :
           /\ ck.root[Len(ck.root)] = {own, other}
           /\ \/ Len(ck.root) = 2 /\ ~ first
              \/ /\ Len(ck.root) >= 3 /\ old # own
                 /\ ck.root[Len(ck.root) - 1] = {old, other}

\* The sending side of a session of the owner of Mine.
SenderInv(s, Mine, first) ==
    /\ s.dhs \in Mine /\ s.dhr \notin Mine
    /\ s.sending_chain_key # None => SealedBy(s.sending_chain_key, Mine, first)
    /\ s.sending_chain_key = None =>
          \/ Len(s.root_key) = 1 /\ ~ first
          \/ /\ Len(s.root_key) >= 2 /\ s.dhr # None
             /\ \E old \in Mine \ {s.dhs} : s.root_key[Len(s.root_key)] = {old, s.dhr}

\* A longer root begins as before and ends with the new secret.
LEMMA AppendBegins ==
    ASSUME NEW rk \in RootKey, NEW e, Len(rk) >= 1, rk[1] = e, NEW x \in SUBSET KeyPair
    PROVE  LET a == Append(rk, x)
           IN  /\ Len(a) = Len(rk) + 1 /\ Len(rk) \in Nat
               /\ a[1] = e /\ a[Len(a)] = x /\ a[Len(a) - 1] = rk[Len(rk)]
<1>1. rk \in Seq(SUBSET KeyPair)
  BY DEF RootKey
<1>2. /\ Len(Append(rk, x)) = Len(rk) + 1 /\ Len(rk) \in Nat
      /\ \A i \in 1..Len(rk) : Append(rk, x)[i] = rk[i]
      /\ Append(rk, x)[Len(rk) + 1] = x
  BY <1>1, AppendProperties, LenProperties
<1>3. 1 \in 1..Len(rk) /\ Len(rk) \in 1..Len(rk) /\ (Len(rk) + 1) - 1 = Len(rk)
  BY <1>2
<1> QED BY <1>2, <1>3

\* The skipped-key store gains at most the key that is put in.
LEMMA SkippedAddBegins ==
    ASSUME NEW store \in Seq(SkippedEntry), Len(store) <= MaxSkippedKeys,
           NEW id, NEW ck, NEW e, Begins(ck, e),
           \A j \in 1..Len(store) : Begins(store[j].mk, e)
    PROVE  \A j \in 1..Len(SkippedAdd(store, id, ck)) : Begins(SkippedAdd(store, id, ck)[j].mk, e)
<1> DEFINE kept == EvictOldest(store, MaxSkippedKeys)
           x    == [id |-> id, mk |-> ck]
<1>1. kept \in Seq(SkippedEntry) /\ Len(kept) \in Nat
  BY EvictOldestKeepsSuffix, EngineAssumption
<1>2. PICK d \in Nat : \A j \in 1..Len(kept) : j + d \in 1..Len(store) /\ kept[j] = store[j + d]
  BY EvictOldestKeepsSuffix, EngineAssumption
<1> HIDE DEF kept
<1>3. \A j \in 1..Len(kept) : Begins(kept[j].mk, e)
  BY <1>2
<1>4. CASE SkippedHas(kept, id)
  <2> DEFINE k == SkippedIndex(kept, id)
             r == [kept EXCEPT ![k] = x]
  <2>1. SkippedAdd(store, id, ck) = r
    BY <1>4 DEF SkippedAdd, kept
  <2>2. Len(r) = Len(kept) /\ \A j \in 1..Len(kept) : r[j] = IF j = k THEN x ELSE kept[j]
    BY <1>1
  <2> HIDE DEF r, k
  <2>3. \A j \in 1..Len(r) : Begins(r[j].mk, e)
    BY <1>3, <2>2
  <2> QED BY <2>1, <2>3
<1>5. CASE ~ SkippedHas(kept, id)
  <2> DEFINE r == Append(kept, x)
  <2>1. SkippedAdd(store, id, ck) = r
    BY <1>5 DEF SkippedAdd, kept
  <2>2. Len(r) = Len(kept) + 1 /\ \A j \in 1..Len(r) : r[j] = IF j = Len(kept) + 1 THEN x ELSE kept[j]
    BY <1>1
  <2> HIDE DEF r
  <2>3. \A j \in 1..Len(r) : Begins(r[j].mk, e)
    BY <1>1, <1>3, <2>2
  <2> QED BY <2>1, <2>3
<1> QED BY <1>4, <1>5

\* ... and taking a key out leaves others of the store.
LEMMA SkippedPopBegins ==
    ASSUME NEW store \in Seq(SkippedEntry), NEW id, NEW e, SkippedHas(store, id),
           \A j \in 1..Len(store) : Begins(store[j].mk, e)
    PROVE  /\ \A j \in 1..Len(SkippedPop(store, id)) : Begins(SkippedPop(store, id)[j].mk, e)
           /\ SkippedIndex(store, id) \in 1..Len(store)
<1> DEFINE i == SkippedIndex(store, id)
           n == Len(store)
           a == SubSeq(store, 1, i - 1)
           b == SubSeq(store, i + 1, n)
           r == a \o b
<1>1. i \in 1..n
  BY DEF SkippedHas, SkippedIndex
<1>2. n \in Nat
  BY LenProperties
<1> HIDE DEF i
<1>3. /\ Len(a) = i - 1 /\ \A j \in 1..(i - 1) : a[j] = store[j]
      /\ a \in Seq(SkippedEntry)
  BY <1>1, <1>2
<1>4. /\ Len(b) = n - i /\ \A j \in 1..(n - i) : b[j] = store[i + j]
      /\ b \in Seq(SkippedEntry)
  BY <1>1, <1>2
<1> HIDE DEF a, b, n
<1>5. /\ Len(r) = Len(a) + Len(b)
      /\ \A j \in 1..Len(r) : r[j] = IF j <= Len(a) THEN a[j] ELSE b[j - Len(a)]
  <2>1. /\ Len(r) = Len(a) + Len(b)
        /\ \A j \in 1..(Len(a) + Len(b)) :
              r[j] = IF j <= Len(a) THEN a[j] ELSE b[j - Len(a)]
    BY <1>3, <1>4, ConcatProperties
  <2> HIDE DEF r
  <2> QED BY <2>1
<1> HIDE DEF r
<1>6. \A j \in 1..Len(r) : \E k \in 1..n : r[j] = store[k]
  <2> TAKE j \in 1..Len(r)
  <2>1. CASE j <= Len(a)
    <3>1. j \in 1..(i - 1) /\ j \in 1..n /\ r[j] = a[j]
      BY <1>1, <1>2, <1>3, <1>4, <1>5, <2>1
    <3> QED BY <1>3, <3>1
  <2>2. CASE ~ (j <= Len(a))
    <3>1. j - Len(a) \in 1..(n - i)
      BY <1>1, <1>2, <1>3, <1>4, <1>5, <2>2
    <3>2. r[j] = store[i + (j - Len(a))] /\ i + (j - Len(a)) \in 1..n
      BY <1>1, <1>2, <1>3, <1>4, <1>5, <2>2, <3>1
    <3> QED BY <3>2
  <2> QED BY <2>1, <2>2
<1>7. SkippedPop(store, id) = r
  BY DEF SkippedPop, r, a, b, i, n
<1> QED BY <1>1, <1>6, <1>7 DEF n, i

\* Skipping stays within the derivation.
LEMMA SkipOneRooted ==
    ASSUME NEW s, NEW Used, NEW Sealed, SessionInv(s, Used, Sealed),
           s.receiving_chain_key # None, NEW e, Rooted(s, e)
    PROVE  Rooted(SkipOne(s), e)
<1> DEFINE ck == s.receiving_chain_key
           id == [dh |-> s.dhr, n |-> s.Nr]
           store == SkippedAdd(s.skipped_message_keys, id, ck)
           r  == SkipOne(s)
<1>1. s \in RatchetState /\ ck \in ChainKey
  BY DEF SessionInv, RatchetState
<1>2. kdf_chain(ck).next.root = ck.root /\ kdf_chain(ck).mk = ck
  BY <1>1, KdfChainType
<1>3. s.skipped_message_keys \in Seq(SkippedEntry) /\ Len(s.skipped_message_keys) <= MaxSkippedKeys
  BY DEF SessionInv, ReceivingInv, StoreInv
<1>4. \A j \in 1..Len(store) : Begins(store[j].mk, e)
  BY <1>3, SkippedAddBegins DEF Rooted
<1> HIDE DEF store, id
<1>5. /\ r.receiving_chain_key = kdf_chain(ck).next /\ r.skipped_message_keys = store
      /\ r.root_key = s.root_key /\ r.sending_chain_key = s.sending_chain_key
  BY <1>1, <1>2 DEF SkipOne, store, id, RatchetState
<1> HIDE DEF r
<1>6. Begins(r.receiving_chain_key, e)
  BY <1>2, <1>5 DEF Rooted, Begins
<1> QED BY <1>4, <1>5, <1>6 DEF Rooted, r

\* ... and so does the whole loop of _skip_receiving_until.
LEMMA SkipReceivingRooted ==
    ASSUME NEW s, NEW Used, NEW Sealed, SessionInv(s, Used, Sealed),
           s.receiving_chain_key # None, s.dhr # None,
           NEW until \in Nat, s.Nr <= until, NEW e, Rooted(s, e)
    PROVE  Rooted(_skip_receiving_until(s, until), e)
<1>0. s.Nr \in Nat
  BY DEF SessionInv, RatchetState
<1>1. CASE until <= s.Nr
  BY <1>1 DEF _skip_receiving_until
<1>2. CASE ~(until <= s.Nr)
  <2> DEFINE n == until - s.Nr
  <2>1. n \in Nat
    BY <1>0, <1>2
  <2>2. PICK after : IsSkipRun(after, s, n) /\ _skip_receiving_until(s, until) = after[n]
    BY <1>2, <2>1, SkipRunResult
  <2> DEFINE Good(k) == /\ SessionInv(after[k], Used, Sealed) /\ Rooted(after[k], e)
                        /\ after[k].receiving_chain_key # None
                        /\ after[k].dhr # None
             S == {k \in Nat : k <= n => Good(k)}
  <2>3. after[0] = s /\ \A k \in 1..n : after[k] = SkipOne(after[k - 1])
    BY <2>1, <2>2 DEF IsSkipRun
  <2>4. 0 \in S
    BY <2>3
  <2>5. ASSUME NEW k \in S PROVE k + 1 \in S
    <3>1. SUFFICES ASSUME k + 1 <= n PROVE Good(k + 1)
      OBVIOUS
    <3>2. Good(k)
      BY <2>1, <3>1
    <3>3. after[k + 1] = SkipOne(after[k])
      <4>1. k + 1 \in 1..n /\ (k + 1) - 1 = k
        BY <2>1, <3>1
      <4> QED BY <2>3, <4>1
    <3>4. /\ SessionInv(SkipOne(after[k]), Used, Sealed)
          /\ SkipOne(after[k]).receiving_chain_key # None
          /\ SameSession(SkipOne(after[k]), after[k])
      BY <3>2, SkipOneInv
    <3>5. Rooted(SkipOne(after[k]), e)
      BY <3>2, SkipOneRooted
    <3> QED BY <3>2, <3>3, <3>4, <3>5 DEF SameSession
  <2>6. S = Nat
    <3> HIDE DEF S
    <3>1. S \subseteq Nat
      BY DEF S
    <3> QED BY <2>4, <2>5, <3>1, InductiveSet
  <2>7. Good(n)
    BY <2>1, <2>6
  <2> QED BY <2>2, <2>7
<1> QED BY <1>1, <1>2

\* Following the header's ratchet key extends the derivation at its end.
LEMMA FollowRatchetRooted ==
    ASSUME NEW s, NEW Used, NEW Sealed, SessionInv(s, Used, Sealed),
           NEW dh \in KeyPair, NEW fresh \in KeyPair, NEW e, Rooted(s, e)
    PROVE  Rooted(FollowRatchet(s, dh, fresh), e)
<1> DEFINE r   == FollowRatchet(s, dh, fresh)
           b   == Bootstrap(s, dh, fresh)
           New == _dh_ratchet_receive(s, dh, fresh)
           kdf == kdf_root(s.root_key, dh_secret(s.dhs, dh))
<1>1. /\ s \in RatchetState /\ s.Nr \in Nat /\ dh # None
      /\ s.dhr # None => s.receiving_chain_key # None
      /\ s.root_key \in RootKey /\ dh_secret(s.dhs, dh) \in SUBSET KeyPair
  BY EngineAssumption DEF SessionInv, RatchetState, ReceivingInv, dh_secret
<1>2. _skip_receiving_until(s, s.Nr) = s
  BY <1>1, SkipToNrIsNoOp
<1>3. /\ Len(s.root_key) >= 1 /\ s.root_key[1] = e
      /\ s.sending_chain_key # None => Begins(s.sending_chain_key, e)
      /\ s.receiving_chain_key # None => Begins(s.receiving_chain_key, e)
      /\ \A j \in 1..Len(s.skipped_message_keys) : Begins(s.skipped_message_keys[j].mk, e)
  BY DEF Rooted
<1>4. /\ Len(kdf.root) >= 1 /\ kdf.root[1] = e /\ kdf.chain.root = kdf.root
  <2>1. kdf.root = Append(s.root_key, dh_secret(s.dhs, dh)) /\ kdf.chain.root = kdf.root
    BY DEF kdf_root
  <2> HIDE DEF kdf
  <2> QED BY <1>1, <1>3, <2>1, AppendBegins
<1> HIDE DEF kdf
<1>5. /\ New.root_key = kdf.root /\ New.receiving_chain_key = kdf.chain
      /\ New.sending_chain_key = None /\ New.skipped_message_keys = s.skipped_message_keys
      /\ New.dhr = dh
  BY <1>1 DEF _dh_ratchet_receive, RatchetState, kdf
<1> HIDE DEF New
<1>6. Rooted(New, e)
  BY <1>3, <1>4, <1>5 DEF Rooted, Begins
<1>7. CASE s.dhr = None /\ s.sending_chain_key # None
  <2>1. b = New
    BY <1>2, <1>7 DEF Bootstrap, New
  <2>2. r = New
    BY <1>5, <2>1 DEF FollowRatchet
  <2> QED BY <1>6, <2>2
<1>8. CASE s.dhr = None /\ s.sending_chain_key = None
  <2>1. b = [s EXCEPT !.dhr = dh] \/ b = _dh_ratchet_receive_first(s, dh)
    BY <1>2, <1>8 DEF Bootstrap
  <2> HIDE DEF b
  <2>2. /\ b.dhr = dh /\ b.root_key = s.root_key /\ b.sending_chain_key = None
        /\ b.skipped_message_keys = s.skipped_message_keys
        /\ \/ b.receiving_chain_key = s.receiving_chain_key
           \/ b.receiving_chain_key = kdf_initial_chain(s.root_key)
    BY <1>1, <1>8, <2>1 DEF _dh_ratchet_receive_first, RatchetState
  <2>3. r = b
    BY <2>2 DEF FollowRatchet, b
  <2>4. kdf_initial_chain(s.root_key).root = s.root_key
    BY DEF kdf_initial_chain
  <2> HIDE DEF r
  <2>5. Rooted(b, e)
    BY <1>3, <2>2, <2>4 DEF Rooted, Begins
  <2> QED BY <2>3, <2>5 DEF r
<1>9. CASE s.dhr # None
  <2>1. b = s
    BY <1>1, <1>9 DEF Bootstrap
  <2>2. r = s \/ r = New
    BY <1>2, <2>1 DEF FollowRatchet, New
  <2> QED BY <1>6, <2>2
<1> QED BY <1>7, <1>8, <1>9

\* ratchet_decrypt stays within the derivation, and opens only what was sealed
\* within it.
LEMMA RatchetDecryptRooted ==
    ASSUME NEW s, NEW Used, NEW Sealed, SessionInv(s, Used, Sealed),
           NEW m \in WireMessage, NEW fresh \in KeyPair, NEW e, Rooted(s, e)
    PROVE  LET out == ratchet_decrypt(s, m, fresh)
           IN  Rooted(out.state, e) /\ (out.result = "ok" => Begins(m.mk, e))
<1> DEFINE out == ratchet_decrypt(s, m, fresh)
           id  == [dh |-> m.dh, n |-> m.n]
           r   == FollowRatchet(s, m.dh, fresh)
<1>1. m.dh \in KeyPair /\ m.dh # None /\ m.n \in Nat /\ id \in MessageId
  BY EngineAssumption DEF WireMessage, MessageId
<1>2. /\ s \in RatchetState /\ s.skipped_message_keys \in Seq(SkippedEntry)
      /\ Len(s.root_key) >= 1 /\ s.root_key[1] = e
      /\ s.sending_chain_key # None => Begins(s.sending_chain_key, e)
      /\ s.receiving_chain_key # None => Begins(s.receiving_chain_key, e)
      /\ \A j \in 1..Len(s.skipped_message_keys) : Begins(s.skipped_message_keys[j].mk, e)
  BY DEF SessionInv, RatchetState, Rooted
<1>3. /\ SessionInv(r, Used, Sealed) /\ Rooted(r, e)
      /\ r.dhr = m.dh /\ r.receiving_chain_key # None
  BY <1>1, FollowRatchetInv, FollowRatchetRooted
<1>4. r.Nr \in Nat
  BY <1>3 DEF SessionInv, RatchetState
<1>5. CASE ReceivedIdsContains(s.received_ids, id)
  <2>1. out = Outcome(s, "DuplicateMessageError")
    BY <1>5 DEF ratchet_decrypt
  <2> QED BY <2>1 DEF Outcome
<1>6. CASE /\ ~ ReceivedIdsContains(s.received_ids, id)
           /\ SkippedHas(s.skipped_message_keys, id)
  <2>1. out = OpenSkipped(s, m, id)
    BY <1>6 DEF ratchet_decrypt
  <2> DEFINE store == s.skipped_message_keys
             rest  == SkippedPop(store, id)
             k     == SkippedIndex(store, id)
  <2>2. /\ \A j \in 1..Len(rest) : Begins(rest[j].mk, e)
        /\ k \in 1..Len(store)
    BY <1>2, <1>6, SkippedPopBegins
  <2> HIDE DEF rest, k, id, out
  <2>3. /\ out.state.skipped_message_keys = rest
        /\ out.state.root_key = s.root_key
        /\ out.state.sending_chain_key = s.sending_chain_key
        /\ out.state.receiving_chain_key = s.receiving_chain_key
        /\ out.result = "ok" => store[k].mk = m.mk
    BY <1>2, <2>1 DEF OpenSkipped, Outcome, RatchetState, Opens, rest, k
  <2>4. out.result = "ok" => Begins(m.mk, e)
    BY <1>2, <2>2, <2>3
  <2>5. Rooted(out.state, e)
    BY <1>2, <2>2, <2>3 DEF Rooted
  <2> QED BY <2>4, <2>5 DEF out
<1>7. CASE /\ ~ ReceivedIdsContains(s.received_ids, id)
           /\ ~ SkippedHas(s.skipped_message_keys, id)
  <2> DEFINE old == s.dhr # None /\ m.dh = s.dhr /\ m.n < s.Nr
             k   == _skip_receiving_until(r, m.n)
  <2>1. out = IF old THEN Outcome(s, "DuplicateMessageError")
              ELSE IF m.n < r.Nr THEN Outcome(r, "DuplicateMessageError")
              ELSE IF SkipTooFar(r, m.n) THEN Outcome(r, "SkipDistanceExceededError")
              ELSE OpenNext(k, m, id)
    BY <1>7 DEF ratchet_decrypt
  <2> HIDE DEF out, r, k, id
  <2>2. CASE old \/ m.n < r.Nr \/ SkipTooFar(r, m.n)
    <3>1. (out.state = s \/ out.state = r) /\ out.result # "ok"
      BY <2>1, <2>2 DEF Outcome
    <3> QED BY <1>3, <3>1 DEF out
  <2>3. CASE ~ (old \/ m.n < r.Nr \/ SkipTooFar(r, m.n))
    <3>1. out = OpenNext(k, m, id) /\ r.Nr <= m.n
      BY <1>1, <1>4, <2>1, <2>3
    <3>2. /\ SessionInv(k, Used, Sealed) /\ Rooted(k, e)
          /\ k.receiving_chain_key # None
      BY <1>1, <1>3, <3>1, SkipReceivingInv, SkipReceivingRooted DEF k
    <3>3. k \in RatchetState /\ k.receiving_chain_key \in ChainKey
      BY <3>2 DEF SessionInv, RatchetState
    <3> DEFINE ck == k.receiving_chain_key
    <3>4. kdf_chain(ck).next.root = ck.root /\ kdf_chain(ck).mk = ck
      BY <3>3, KdfChainType
    <3>5. /\ out.state.skipped_message_keys = k.skipped_message_keys
          /\ out.state.root_key = k.root_key
          /\ out.state.sending_chain_key = k.sending_chain_key
          /\ out.state.receiving_chain_key = kdf_chain(ck).next
          /\ out.result = "ok" => ck = m.mk
      BY <3>1, <3>3, <3>4 DEF OpenNext, Outcome, RatchetState, Opens
    <3>6. Begins(ck, e) /\ Begins(kdf_chain(ck).next, e)
      BY <3>2, <3>4 DEF Rooted, Begins
    <3>7. Rooted(out.state, e)
      BY <3>2, <3>5, <3>6 DEF Rooted
    <3> QED BY <3>5, <3>6, <3>7 DEF out
  <2> QED BY <2>2, <2>3
<1> QED BY <1>5, <1>6, <1>7

\* ratchet_encrypt seals within the derivation and stays in it.
LEMMA RatchetEncryptRooted ==
    ASSUME NEW s, NEW Used, NEW Sealed, SessionInv(s, Used, Sealed), CanEncrypt(s),
           NEW e, Rooted(s, e)
    PROVE  Rooted(EncryptedState(s), e) /\ Begins(EncryptedMessage(s).mk, e)
<1> DEFINE m == EncryptedMessage(s)
           r == EncryptedState(s)
<1>1. /\ s.sending_chain_key # None =>
            m.mk = s.sending_chain_key /\ r.root_key = s.root_key
      /\ s.sending_chain_key = None =>
            /\ s.dhr # None
            /\ m.mk.root = Append(s.root_key, {s.dhs, s.dhr})
            /\ r.root_key = m.mk.root
      /\ r.receiving_chain_key = s.receiving_chain_key
      /\ r.skipped_message_keys = s.skipped_message_keys
      /\ r.sending_chain_key.root = m.mk.root
  BY RatchetEncryptKeys
<1> HIDE DEF m, r
<1>2. Len(r.root_key) >= 1 /\ r.root_key[1] = e /\ Begins(m.mk, e)
  <2>1. CASE s.sending_chain_key # None
    BY <1>1, <2>1 DEF Rooted
  <2>2. CASE s.sending_chain_key = None
    <3>1. /\ s.root_key \in RootKey /\ {s.dhs, s.dhr} \in SUBSET KeyPair
          /\ Len(s.root_key) >= 1 /\ s.root_key[1] = e
      BY <1>1, <2>2 DEF SessionInv, RatchetState, Rooted
    <3>2. Len(m.mk.root) >= 1 /\ m.mk.root[1] = e
      BY <1>1, <2>2, <3>1, AppendBegins, SMTT(30)
    <3> QED BY <1>1, <2>2, <3>2 DEF Begins
  <2> QED BY <2>1, <2>2
<1>3. Begins(r.sending_chain_key, e)
  BY <1>1, <1>2 DEF Begins
<1>4. Rooted(r, e)
  BY <1>1, <1>2, <1>3 DEF Rooted
<1> QED BY <1>2, <1>4 DEF m, r

\* The sending side after ratchet_decrypt of a message under another's key.
LEMMA RatchetDecryptSender ==
    ASSUME NEW s, NEW Used, NEW Sealed, SessionInv(s, Used, Sealed),
           NEW m \in WireMessage, NEW e, Rooted(s, e),
           NEW Mine \in SUBSET KeyPair, NEW first, SenderInv(s, Mine, first),
           NEW fresh \in Mine, fresh # s.dhs, m.dh \notin Mine
    PROVE  LET r == ratchet_decrypt(s, m, fresh).state
           IN  SenderInv(r, Mine, first) /\ r.dhs \in {s.dhs, fresh}
<1> DEFINE r == ratchet_decrypt(s, m, fresh).state
<1>1. KeysEffect(r, s, m.dh, fresh)
  BY RatchetDecryptKeys
<1> HIDE DEF r
<1>2. CASE /\ r.dhs = s.dhs /\ r.dhr = s.dhr /\ r.sending_chain_key = s.sending_chain_key
           /\ r.root_key = s.root_key
  BY <1>2 DEF SenderInv, r
<1>3. CASE /\ r.dhs = s.dhs /\ r.dhr = m.dh /\ s.dhr = None
           /\ r.sending_chain_key = None /\ s.sending_chain_key = None
           /\ r.root_key = s.root_key
  BY <1>3 DEF SenderInv, r
<1>4. CASE /\ r.dhs = fresh /\ r.dhr = m.dh /\ r.sending_chain_key = None
           /\ r.root_key = Append(s.root_key, {s.dhs, m.dh})
  <2>1. /\ s.root_key \in RootKey /\ Len(s.root_key) >= 1 /\ s.root_key[1] = e
        /\ {s.dhs, m.dh} \in SUBSET KeyPair /\ m.dh # None /\ s.dhs \in Mine
    BY EngineAssumption DEF SessionInv, RatchetState, Rooted, WireMessage, SenderInv
  <2>2. /\ Len(r.root_key) = Len(s.root_key) + 1 /\ Len(s.root_key) \in Nat
        /\ r.root_key[Len(r.root_key)] = {s.dhs, m.dh}
    BY <1>4, <2>1, AppendBegins
  <2> QED BY <1>4, <2>1, <2>2 DEF SenderInv, r
<1> QED BY <1>1, <1>2, <1>3, <1>4 DEF KeysEffect

\* The sending side after ratchet_encrypt, and the chain of the message.
LEMMA RatchetEncryptSender ==
    ASSUME NEW s, NEW Used, NEW Sealed, SessionInv(s, Used, Sealed), CanEncrypt(s),
           NEW e, Rooted(s, e),
           NEW Mine \in SUBSET KeyPair, NEW first, SenderInv(s, Mine, first)
    PROVE  SenderInv(EncryptedState(s), Mine, first) /\ SealedBy(EncryptedMessage(s).mk, Mine, first)
<1> DEFINE m == EncryptedMessage(s)
           r == EncryptedState(s)
<1>1. /\ s.sending_chain_key # None =>
            m.mk = s.sending_chain_key /\ r.root_key = s.root_key
      /\ s.sending_chain_key = None =>
            /\ s.dhr # None /\ m.mk.label = "root"
            /\ m.mk.root = Append(s.root_key, {s.dhs, s.dhr})
      /\ r.sending_chain_key # None
      /\ r.sending_chain_key.label = m.mk.label
      /\ r.sending_chain_key.root = m.mk.root
  BY RatchetEncryptKeys
<1>2. r.dhs = s.dhs /\ r.dhr = s.dhr
  BY RatchetEncryptInv
<1> HIDE DEF m, r
<1>3. SealedBy(m.mk, Mine, first)
  <2>1. CASE s.sending_chain_key # None
    BY <1>1, <2>1 DEF SenderInv
  <2>2. CASE s.sending_chain_key = None
    <3>1. /\ s.root_key \in RootKey /\ Len(s.root_key) >= 1 /\ s.root_key[1] = e
          /\ {s.dhs, s.dhr} \in SUBSET KeyPair /\ s.dhs \in Mine /\ s.dhr \in KeyPair \ Mine
      BY <1>1, <2>2 DEF SessionInv, RatchetState, Rooted, SenderInv
    <3> DEFINE n == Len(m.mk.root)
    <3>2. /\ n = Len(s.root_key) + 1 /\ Len(s.root_key) \in Nat
          /\ m.mk.root[n] = {s.dhs, s.dhr}
          /\ m.mk.root[n - 1] = s.root_key[Len(s.root_key)]
      BY <1>1, <2>2, <3>1, AppendBegins, SMTT(30)
    <3>3. CASE Len(s.root_key) = 1 /\ ~ first
      BY <1>1, <2>2, <3>1, <3>2, <3>3 DEF SealedBy
    <3>4. CASE Len(s.root_key) >= 2
               /\ \E old \in Mine \ {s.dhs} : s.root_key[Len(s.root_key)] = {old, s.dhr}
      BY <1>1, <2>2, <3>1, <3>2, <3>4 DEF SealedBy
    <3> QED BY <2>2, <3>3, <3>4 DEF SenderInv
  <2> QED BY <2>1, <2>2
<1>4. SealedBy(r.sending_chain_key, Mine, first)
  BY <1>1, <1>3 DEF SealedBy
<1> QED BY <1>1, <1>2, <1>3, <1>4 DEF SenderInv, m, r

\* A new session descends from its root key.
LEMMA CreateInitialRooted ==
    ASSUME NEW eph \in KeyPair, NEW first \in BOOLEAN, NEW Mine \in SUBSET KeyPair, NEW key \in Mine
    PROVE  LET s == create_initial_state(<<{eph}>>, first, key)
           IN  /\ Rooted(s, {eph}) /\ SenderInv(s, Mine, first)
               /\ s.root_key = <<{eph}>> /\ <<{eph}>> \in RootKey
<1> DEFINE root == <<{eph}>>
           s    == create_initial_state(root, first, key)
<1>1. root \in RootKey /\ Len(root) = 1 /\ root[1] = {eph}
  BY DEF RootKey
<1> HIDE DEF root
<1>2. /\ s.root_key = root /\ s.dhs = key /\ s.dhr = None
      /\ s.skipped_message_keys = << >> /\ Len(<< >>) = 0
      /\ s.sending_chain_key = IF first THEN kdf_initial_chain(root) ELSE None
      /\ s.receiving_chain_key = IF first THEN None ELSE kdf_initial_chain(root)
  BY DEF create_initial_state
<1>3. kdf_initial_chain(root).root = root /\ kdf_initial_chain(root).label = "initial"
  BY DEF kdf_initial_chain
<1> HIDE DEF s
<1>4. Rooted(s, {eph})
  BY <1>1, <1>2, <1>3 DEF Rooted, Begins
<1>5. SenderInv(s, Mine, first)
  <2>1. s.dhs \in Mine /\ s.dhr \notin Mine
    BY <1>2, EngineAssumption
  <2>2. CASE first
    <3>1. SealedBy(kdf_initial_chain(root), Mine, first)
      BY <1>3, <2>2 DEF SealedBy
    <3>2. kdf_initial_chain(root) # None
      <4>1. kdf_initial_chain(root) \in ChainKey
        BY <1>1 DEF kdf_initial_chain, ChainKey
      <4> QED BY <4>1, EngineAssumption
    <3> QED BY <1>2, <2>1, <2>2, <3>1, <3>2 DEF SenderInv
  <2>3. CASE ~ first
    BY <1>1, <1>2, <2>1, <2>3 DEF SenderInv
  <2> QED BY <2>2, <2>3
<1> QED BY <1>1, <1>2, <1>4, <1>5 DEF s, root

\* A chain is sent on by one side of a session only.
LEMMA SealedByOneSide ==
    ASSUME NEW A \in SUBSET KeyPair, NEW B \in SUBSET KeyPair, A \cap B = {},
           NEW a, NEW b, ~ (a /\ b), a \/ b,
           NEW ck \in ChainKey, SealedBy(ck, A, a)
    PROVE  ~ SealedBy(ck, B, b)
<1> SUFFICES ASSUME SealedBy(ck, B, b) PROVE FALSE
  OBVIOUS
<1> DEFINE n == Len(ck.root)
<1>1. n \in Nat
  BY ChainKeyType
<1>2. ck.label # "initial"
  BY DEF SealedBy
<1>3. PICK x \in A, xo \in A, y \in KeyPair \ A :
        /\ ck.root[n] = {x, y}
        /\ \/ n = 2 /\ ~ a
           \/ n >= 3 /\ xo # x /\ ck.root[n - 1] = {xo, y}
  BY <1>2 DEF SealedBy
<1>4. PICK z \in B, zo \in B, w \in KeyPair \ B :
        /\ ck.root[n] = {z, w}
        /\ \/ n = 2 /\ ~ b
           \/ n >= 3 /\ zo # z /\ ck.root[n - 1] = {zo, w}
  BY <1>2 DEF SealedBy
<1> HIDE DEF n
<1>5. z = y /\ w = x
  BY <1>3, <1>4
<1>6. n >= 3 /\ xo # x /\ ck.root[n - 1] = {xo, y} /\ zo # z /\ ck.root[n - 1] = {zo, w}
  BY <1>1, <1>3, <1>4
<1> QED BY <1>3, <1>4, <1>5, <1>6
=============================================================================
