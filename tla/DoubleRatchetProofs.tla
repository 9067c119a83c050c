------------------------ MODULE DoubleRatchetProofs ------------------------
(***************************************************************************)
(* Safety of the two-client Double Ratchet, for every channel and all      *)
(* values of the constants, from the engine lemmas.                        *)
(***************************************************************************)
EXTENDS DoubleRatchet, RatchetEngineProofs

\* Every engine satisfies SessionInv for the keys it has opened and sealed
\* messages with.
SessionsInv ==
    \A p \in Party : SessionInv(st[p], KeysOf(accepted[p]), KeysOf(sent[p]))

\* A client seals with a key at most once: NoKeyReuse within one client.
SealedOnce ==
    \A p \in Party : \A j, k \in 1..Len(sent[p]) :
        sent[p][j].mk = sent[p][k].mk => j = k

\* The own ratchet key is the last one generated, and the messages sent under
\* it carry the numbers below Ns.
OwnKeys(p, s, gen, msgs) ==
    /\ gen \in 1..MaxGenerated
    /\ s.dhs = <<p, gen - 1>>
    /\ \A j \in 1..Len(msgs) :
          /\ \E k \in 0..(gen - 1) : msgs[j].dh = <<p, k>>
          /\ msgs[j].dh = s.dhs => msgs[j].n < s.Ns

OwnKeysInv ==
    \A p \in Party : OwnKeys(p, st[p], generated[p], sent[p])

IndInv ==
    /\ TypeOK
    /\ SessionsInv
    /\ AcceptedOnce
    /\ SealedOnce
    /\ OwnKeysInv
    /\ IdsNeverRecur

-----------------------------------------------------------------------------
\* The initial sessions satisfy the invariant.
LEMMA InitInd == Init => IndInv
<1> SUFFICES ASSUME Init PROVE IndInv
  OBVIOUS
<1> USE DEF Init
<1>1. ASSUME NEW p \in Party
      PROVE  /\ SessionInv(st[p], {}, {})
             /\ st[p].dhs = <<p, 0>>
  <2>1. <<p, 0>> \in KeyPair /\ << >> \in RootKey
    BY PartyAssumption DEF RootKey
  <2> QED BY <2>1, CreateInitialInv
<1>2. KeysOf(<< >>) = {} /\ Len(<< >>) = 0
  BY DEF KeysOf
<1>3. TypeOK
  <2>1. st \in [Party -> RatchetState]
    BY <1>1 DEF SessionInv
  <2>2. << >> \in Seq(WireMessage)
    OBVIOUS
  <2> QED BY <2>1, <2>2 DEF TypeOK
<1>4. SessionsInv
  BY <1>1, <1>2 DEF SessionsInv
<1>5. AcceptedOnce /\ SealedOnce /\ IdsNeverRecur
  BY <1>2 DEF AcceptedOnce, SealedOnce, IdsNeverRecur
<1>6. OwnKeysInv
  <2> SUFFICES ASSUME NEW p \in Party
               PROVE  OwnKeys(p, st[p], generated[p], sent[p])
    BY DEF OwnKeysInv
  <2>1. generated[p] = 1 /\ sent[p] = << >> /\ 1 \in 1..MaxGenerated /\ 1 - 1 = 0
    BY PartyAssumption
  <2>2. st[p].dhs = <<p, 1 - 1>>
    BY <1>1, <2>1
  <2> QED BY <1>2, <2>1, <2>2 DEF OwnKeys
<1> QED BY <1>3, <1>4, <1>5, <1>6 DEF IndInv

\* ratchet_encrypt at one client keeps the invariant of both.
LEMMA EncryptInd ==
    ASSUME IndInv, NEW p \in Party, Encrypt(p)
    PROVE  IndInv'
<1> DEFINE m == EncryptedMessage(st[p])
           r == EncryptedState(st[p])
<1>1. /\ SessionInv(r, KeysOf(accepted[p]), KeysOf(sent[p]) \cup {m.mk})
      /\ m \in WireMessage
      /\ m.mk \notin KeysOf(sent[p])
      /\ m.dh = st[p].dhs /\ m.n = st[p].Ns
      /\ r.dhs = st[p].dhs /\ r.Ns = st[p].Ns + 1
  BY RatchetEncryptInv DEF IndInv, SessionsInv, Encrypt
<1> HIDE DEF m, r
<1>2. /\ st' = [st EXCEPT ![p] = r]
      /\ sent' = [sent EXCEPT ![p] = Append(sent[p], m)]
      /\ UNCHANGED <<generated, delivered, accepted>>
  BY DEF Encrypt, m, r
<1>3. /\ st \in [Party -> RatchetState] /\ sent \in [Party -> Seq(WireMessage)]
      /\ r \in RatchetState
  BY <1>1 DEF IndInv, TypeOK, SessionInv
<1>4. /\ Append(sent[p], m) \in Seq(WireMessage)
      /\ Len(Append(sent[p], m)) = Len(sent[p]) + 1
      /\ Len(sent[p]) \in Nat
      /\ \A j \in 1..Len(sent[p]) : Append(sent[p], m)[j] = sent[p][j]
      /\ Append(sent[p], m)[Len(sent[p]) + 1] = m
      /\ KeysOf(Append(sent[p], m)) = KeysOf(sent[p]) \cup {m.mk}
  BY <1>1, <1>3, KeysOfAppend
<1>5. /\ st'[p] = r /\ sent'[p] = Append(sent[p], m)
      /\ \A q \in Party \ {p} : st'[q] = st[q] /\ sent'[q] = sent[q]
  BY <1>2, <1>3
<1>6. TypeOK'
  BY <1>2, <1>3, <1>4 DEF IndInv, TypeOK
<1>7. SessionsInv'
  BY <1>1, <1>2, <1>4, <1>5 DEF IndInv, SessionsInv
<1>8. AcceptedOnce'
  BY <1>2 DEF IndInv, AcceptedOnce
<1>9. SealedOnce'
  <2>1. \A j, k \in 1..Len(sent'[p]) : sent'[p][j].mk = sent'[p][k].mk => j = k
    <3>1. \A j, k \in 1..Len(sent[p]) : sent[p][j].mk = sent[p][k].mk => j = k
      BY DEF IndInv, SealedOnce
    <3> QED BY <1>1, <1>3, <1>5, <3>1, AppendKeepsDistinct
  <2> QED BY <1>5, <2>1 DEF IndInv, SealedOnce
<1>10. /\ st[p].Ns \in Nat
       /\ \A j \in 1..Len(sent[p]) : sent[p][j].n \in Nat
       /\ OwnKeys(p, st[p], generated[p], sent[p])
  <2>1. \A j \in 1..Len(sent[p]) : sent[p][j] \in WireMessage
    BY <1>3, ElementOfSeq
  <2>2. st[p].Ns \in Nat
    BY <1>3 DEF RatchetState
  <2>3. \A j \in 1..Len(sent[p]) : sent[p][j].n \in Nat
    BY <2>1 DEF WireMessage
  <2> QED BY <2>2, <2>3 DEF IndInv, OwnKeysInv
<1>11. OwnKeysInv'
  <2> DEFINE a == Append(sent[p], m)
             g == generated[p]
  <2>1. ASSUME NEW j \in 1..Len(a)
        PROVE  /\ \E k \in 0..(g - 1) : a[j].dh = <<p, k>>
               /\ a[j].dh = r.dhs => a[j].n < r.Ns
    <3>1. CASE j = Len(sent[p]) + 1
      <4>1. a[j].dh = <<p, g - 1>> /\ a[j].n = st[p].Ns
        BY <1>1, <1>4, <1>10, <3>1 DEF OwnKeys
      <4>2. g - 1 \in 0..(g - 1)
        BY <1>10, PartyAssumption DEF OwnKeys
      <4>3. st[p].Ns < r.Ns
        BY <1>1, <1>10
      <4> QED BY <4>1, <4>2, <4>3
    <3>2. CASE j # Len(sent[p]) + 1
      <4>1. j \in 1..Len(sent[p]) /\ a[j] = sent[p][j]
        BY <1>4, <3>2
      <4>2. sent[p][j].dh = st[p].dhs => sent[p][j].n < st[p].Ns + 1
        BY <1>10, <4>1, SMTT(30) DEF OwnKeys
      <4>3. \E k \in 0..(g - 1) : sent[p][j].dh = <<p, k>>
        BY <1>10, <4>1 DEF OwnKeys
      <4> QED BY <1>1, <4>1, <4>2, <4>3
    <3> QED BY <3>1, <3>2
  <2>2. OwnKeys(p, r, g, a)
    BY <1>1, <1>10, <2>1 DEF OwnKeys
  <2>3. generated' = generated
    BY <1>2
  <2> QED BY <1>5, <2>2, <2>3 DEF IndInv, OwnKeysInv
<1>12. IdsNeverRecur'
  <2>1. ASSUME NEW j \in 1..Len(sent'[p]), NEW k \in 1..Len(sent'[p]),
               j < k, sent'[p][j].dh = sent'[p][k].dh
        PROVE  sent'[p][j].n < sent'[p][k].n
    <3>1. j \in 1..Len(sent[p]) /\ sent'[p][j] = sent[p][j]
      BY <1>4, <1>5, <2>1
    <3>2. CASE k = Len(sent[p]) + 1
      BY <1>1, <1>4, <1>5, <1>10, <2>1, <3>1, <3>2 DEF OwnKeys
    <3>3. CASE k # Len(sent[p]) + 1
      <4>1. k \in 1..Len(sent[p]) /\ sent'[p][k] = sent[p][k]
        BY <1>4, <1>5, <3>3
      <4> QED BY <2>1, <3>1, <4>1 DEF IndInv, IdsNeverRecur
    <3> QED BY <3>2, <3>3
  <2>2. ASSUME NEW q \in Party \ {p}
        PROVE  \A j, k \in 1..Len(sent'[q]) :
                  j < k /\ sent'[q][j].dh = sent'[q][k].dh => sent'[q][j].n < sent'[q][k].n
    BY <1>5 DEF IndInv, IdsNeverRecur
  <2> QED BY <2>1, <2>2 DEF IdsNeverRecur
<1> QED BY <1>6, <1>7, <1>8, <1>9, <1>11, <1>12 DEF IndInv

\* ratchet_decrypt at one client keeps the invariant of both.
LEMMA DecryptInd ==
    ASSUME IndInv, NEW p \in Party, NEW i, Decrypt(p, i)
    PROVE  /\ IndInv'
           /\ \E fresh : DecryptEffect(st'[p], st[p], fresh) /\ fresh # st[p].dhs
           /\ \A q \in Party \ {p} : st'[q] = st[q]
<1> DEFINE m     == sent[Peer(p)][i]
           fresh == <<p, generated[p]>>
           out   == ratchet_decrypt(st[p], m, fresh)
           r     == out.state
           g     == generated[p]
           U     == UsedAfter(KeysOf(accepted[p]), m, out)
<1>1. TypeOK /\ Peer(p) \in Party /\ i \in 1..Len(sent[Peer(p)]) /\ generated[p] < MaxGenerated
  BY DEF IndInv, Decrypt, Peer, Party
<1>2. /\ st \in [Party -> RatchetState] /\ sent \in [Party -> Seq(WireMessage)]
      /\ accepted \in [Party -> Seq(WireMessage)]
      /\ delivered \in [Party -> SUBSET WireMessage]
      /\ generated \in [Party -> Nat]
  BY <1>1 DEF TypeOK
<1>3. m \in WireMessage
  BY <1>1, <1>2, ElementOfSeq
<1>4. OwnKeys(p, st[p], g, sent[p]) /\ g \in 1..MaxGenerated
  BY DEF IndInv, OwnKeysInv, OwnKeys
<1>5. fresh \in KeyPair /\ fresh # st[p].dhs
  <2>1. g \in 0..MaxGenerated /\ g # g - 1
    BY <1>1, <1>4, PartyAssumption
  <2>2. st[p].dhs = <<p, g - 1>>
    BY <1>4 DEF OwnKeys
  <2> QED BY <2>1, <2>2, PartyAssumption
<1>6. /\ SessionInv(r, U, KeysOf(sent[p]))
      /\ out.result = "ok" => m.mk \notin KeysOf(accepted[p])
      /\ DecryptEffect(r, st[p], fresh)
  BY <1>3, <1>5, RatchetDecryptInv DEF IndInv, SessionsInv
<1> DEFINE acc  == IF out.result = "ok" THEN Append(accepted[p], m) ELSE accepted[p]
           gen  == IF r.dhs = st[p].dhs THEN g ELSE g + 1
<1>7. /\ st' = [st EXCEPT ![p] = r]
      /\ generated' = [generated EXCEPT ![p] = gen]
      /\ delivered' = [delivered EXCEPT ![p] = delivered[p] \cup {m}]
      /\ accepted' = [accepted EXCEPT ![p] = acc]
      /\ sent' = sent
  BY DEF Decrypt
<1> HIDE DEF m, out, r, fresh
<1>8. acc \in Seq(WireMessage) /\ KeysOf(acc) = U
  BY <1>2, <1>3, KeysOfAppend DEF UsedAfter
<1>9. gen \in Nat
  BY <1>2
<1>10. r \in RatchetState
  BY <1>6 DEF SessionInv
<1> HIDE DEF acc, gen, U
<1>11. /\ st'[p] = r /\ generated'[p] = gen /\ accepted'[p] = acc
       /\ \A q \in Party \ {p} : /\ st'[q] = st[q] /\ accepted'[q] = accepted[q]
                                 /\ generated'[q] = generated[q]
  BY <1>2, <1>7
<1>12. TypeOK'
  BY <1>2, <1>3, <1>7, <1>8, <1>9, <1>10 DEF TypeOK
<1>13. SessionsInv'
  BY <1>6, <1>7, <1>8, <1>11 DEF IndInv, SessionsInv
<1>14. AcceptedOnce'
  <2>1. \A j, k \in 1..Len(acc) : acc[j].mk = acc[k].mk => j = k
    <3>1. \A j, k \in 1..Len(accepted[p]) : accepted[p][j].mk = accepted[p][k].mk => j = k
      BY DEF IndInv, AcceptedOnce
    <3>2. CASE out.result = "ok"
      BY <1>2, <1>3, <1>6, <3>1, <3>2, AppendKeepsDistinct DEF acc
    <3>3. CASE out.result # "ok"
      BY <3>1, <3>3 DEF acc
    <3> QED BY <3>2, <3>3
  <2> QED BY <1>11, <2>1 DEF IndInv, AcceptedOnce
<1>15. SealedOnce' /\ IdsNeverRecur'
  BY <1>7 DEF IndInv, SealedOnce, IdsNeverRecur
<1>16. OwnKeys(p, r, gen, sent[p])
  <2>1. CASE r.dhs = st[p].dhs
    <3>1. r.Ns = st[p].Ns /\ gen = g
      BY <1>5, <1>6, <2>1 DEF DecryptEffect, gen
    <3> QED BY <1>4, <2>1, <3>1 DEF OwnKeys
  <2>2. CASE r.dhs # st[p].dhs
    <3>1. r.dhs = <<p, g>> /\ gen = g + 1
      BY <1>6, <2>2 DEF DecryptEffect, gen, fresh
    <3>2. gen \in 1..MaxGenerated /\ gen - 1 = g /\ g \notin 0..(g - 1)
      BY <1>1, <1>4, <3>1, PartyAssumption
    <3>3. ASSUME NEW j \in 1..Len(sent[p])
          PROVE  /\ \E k \in 0..(gen - 1) : sent[p][j].dh = <<p, k>>
                 /\ sent[p][j].dh # r.dhs
      <4>1. PICK k \in 0..(g - 1) : sent[p][j].dh = <<p, k>>
        BY <1>4 DEF OwnKeys
      <4>2. k \in 0..(gen - 1) /\ k # g
        BY <1>4, <3>2, <4>1
      <4> QED BY <3>1, <4>1, <4>2
    <3> QED BY <3>1, <3>2, <3>3 DEF OwnKeys
  <2> QED BY <2>1, <2>2
<1>17. OwnKeysInv'
  BY <1>7, <1>11, <1>16 DEF IndInv, OwnKeysInv
<1> QED BY <1>5, <1>6, <1>11, <1>12, <1>13, <1>14, <1>15, <1>17 DEF IndInv

\* Every step of the specification keeps the inductive invariant.
LEMMA NextInd == IndInv /\ [Next]_vars => IndInv'
<1> SUFFICES ASSUME IndInv, [Next]_vars PROVE IndInv'
  OBVIOUS
<1>1. CASE UNCHANGED vars
  BY <1>1 DEF vars, IndInv, TypeOK, SessionsInv, AcceptedOnce, SealedOnce,
              OwnKeysInv, IdsNeverRecur
<1>2. CASE \E p \in Party : Encrypt(p)
  BY <1>2, EncryptInd
<1>3. CASE \E p \in Party : \E j \in 1..MaxSent : Decrypt(p, j)
  BY <1>3, DecryptInd
<1> QED BY <1>1, <1>2, <1>3 DEF Next

\* The inductive invariant holds throughout.
THEOREM SpecInd == Spec => []IndInv
  BY InitInd, NextInd, PTL DEF Spec

-----------------------------------------------------------------------------
(* The results. *)

\* The session states, counters and messages keep their types.
THEOREM TypeCorrect == Spec => []TypeOK
<1>1. IndInv => TypeOK
  BY DEF IndInv
<1> QED BY <1>1, SpecInd, PTL

\* ratchet_decrypt returns no message twice, on any channel and with any
\* size of the received_ids window.
THEOREM NoReplayAccepted == Spec => []AcceptedOnce
<1>1. IndInv => AcceptedOnce
  BY DEF IndInv
<1> QED BY <1>1, SpecInd, PTL

\* A client never puts the same (dh, n) in two headers.
THEOREM HeaderIdsUnique == Spec => []IdsNeverRecur
<1>1. IndInv => IdsNeverRecur
  BY DEF IndInv
<1> QED BY <1>1, SpecInd, PTL

\* The two stores of the engine never exceed their limits.
THEOREM StoresStayBounded == Spec => []StoresBounded
<1>1. IndInv => StoresBounded
  <2> SUFFICES ASSUME IndInv, NEW p \in Party
               PROVE  LET skipped == st[p].skipped_message_keys
                      IN  /\ Len(st[p].received_ids) <= MaxReceivedIds
                          /\ Len(skipped) <= MaxSkippedKeys
                          /\ \A j, k \in 1..Len(skipped) :
                                skipped[j].id = skipped[k].id => j = k
    BY DEF StoresBounded
  <2>1. SessionInv(st[p], KeysOf(accepted[p]), KeysOf(sent[p]))
    BY DEF IndInv, SessionsInv
  <2>2. CASE st[p].receiving_chain_key = None
    <3>1. st[p].skipped_message_keys = << >>
      BY <2>1, <2>2 DEF SessionInv, ReceivingInv
    <3> QED BY <2>1, <3>1, EngineAssumption DEF SessionInv
  <2>3. CASE st[p].receiving_chain_key # None
    BY <2>1, <2>3 DEF SessionInv, ReceivingInv, StoreInv
  <2> QED BY <2>2, <2>3
<1> QED BY <1>1, SpecInd, PTL

\* A used key cannot be reached from a chain it lies behind.
LEMMA BehindNotAhead ==
    ASSUME NEW ck \in ChainKey, NEW k \in ChainKey, Behind(k, ck)
    PROVE  ~ Ahead(ck, k)
  BY ChainKeyType DEF Behind, Ahead

\* Behind a chain is behind every chain of a longer root.
LEMMA BehindLonger ==
    ASSUME NEW k \in ChainKey, NEW ck \in ChainKey, NEW new \in ChainKey,
           Behind(k, ck), Len(ck.root) < Len(new.root)
    PROVE  Behind(k, new)
  BY ChainKeyType DEF Behind

\* One step moves the counters of one client, forwards and within the limit.
LEMMA StepFacts ==
    ASSUME IndInv, [Next]_vars
    PROVE  [CountersStep]_vars /\ [SkipStep]_vars
<1>0. ASSUME NEW q \in Party PROVE st[q].Ns \in Nat /\ st[q].Nr \in Nat
  BY DEF IndInv, TypeOK, RatchetState
<1>1. CASE UNCHANGED vars
  BY <1>1
<1>2. ASSUME NEW p \in Party, Encrypt(p) PROVE CountersStep /\ SkipStep
  <2> DEFINE r == EncryptedState(st[p])
  <2>1. r.Nr = st[p].Nr /\ r.Ns = st[p].Ns + 1 /\ r.dhs = st[p].dhs
    BY <1>2, RatchetEncryptInv DEF IndInv, SessionsInv, Encrypt
  <2> HIDE DEF r
  <2>2. st'[p] = r /\ \A q \in Party \ {p} : st'[q] = st[q]
    BY <1>2 DEF Encrypt, IndInv, TypeOK, r
  <2>3. ASSUME NEW q \in Party
        PROVE  st'[q].Nr = st[q].Nr /\ st'[q].Ns >= st[q].Ns /\ st'[q].dhs = st[q].dhs
    BY <1>0, <2>1, <2>2
  <2> QED BY <1>0, <2>3, EngineAssumption DEF CountersStep, SkipStep
<1>3. ASSUME NEW p \in Party, NEW j \in 1..MaxSent, Decrypt(p, j)
      PROVE  CountersStep /\ SkipStep
  <2>1. PICK fresh : DecryptEffect(st'[p], st[p], fresh) /\ fresh # st[p].dhs
    BY <1>3, DecryptInd
  <2>2. \A q \in Party \ {p} : st'[q] = st[q]
    BY <1>3, DecryptInd
  <2>3. st'[p].Nr \in Nat
    <3>1. TypeOK'
      BY <1>3, DecryptInd DEF IndInv
    <3> QED BY <3>1 DEF TypeOK, RatchetState
  <2>4. /\ st'[p].dhs = st[p].dhs =>
             /\ st'[p].Ns >= st[p].Ns /\ st'[p].Nr >= st[p].Nr
             /\ st'[p].Nr - st[p].Nr <= MAX_SKIP_DISTANCE + 1
        /\ st'[p].dhs # st[p].dhs => st'[p].Nr - 0 <= MAX_SKIP_DISTANCE + 1
    BY <1>0, <2>1, <2>3, EngineAssumption DEF DecryptEffect
  <2>5. ASSUME NEW q \in Party \ {p}
        PROVE  st'[q].dhs = st[q].dhs /\ st'[q].Ns >= st[q].Ns
               /\ st'[q].Nr >= st[q].Nr /\ st'[q].Nr - st[q].Nr <= MAX_SKIP_DISTANCE + 1
    BY <1>0, <2>2, EngineAssumption
  <2> QED BY <2>4, <2>5 DEF CountersStep, SkipStep
<1> QED BY <1>1, <1>2, <1>3 DEF Next

\* Ns and Nr never go back within a chain.
THEOREM CountersNeverGoBack == Spec => CountersMonotonic
<1>1. IndInv /\ [Next]_vars => [CountersStep]_vars
  BY StepFacts
<1> QED BY <1>1, SpecInd, PTL DEF Spec, CountersMonotonic

\* The work one message causes is bounded by MAX_SKIP_DISTANCE.
THEOREM SkipWorkBounded == Spec => SkipBounded
<1>1. IndInv /\ [Next]_vars => [SkipStep]_vars
  BY StepFacts
<1> QED BY <1>1, SpecInd, PTL DEF Spec, SkipBounded

-----------------------------------------------------------------------------
(* The refinement. *)

\* Appending a message with a key of its own is what OneMore asks for.
LEMMA AppendIsOneMore ==
    ASSUME NEW msgs \in Seq(WireMessage), NEW m \in WireMessage,
           m.mk \notin KeysOf(msgs)
    PROVE  /\ Once!OneMore(Append(msgs, m), msgs)
           /\ Append(msgs, m)[Len(Append(msgs, m))] = m
<1> DEFINE a == Append(msgs, m)
<1>1. /\ Len(a) = Len(msgs) + 1
      /\ \A j \in 1..Len(msgs) : a[j] = msgs[j]
      /\ a[Len(msgs) + 1] = m
  BY KeysOfAppend
<1>2. ~ Once!Has(msgs, m)
  BY DEF Once!Has, KeysOf
<1> HIDE DEF a
<1>3. a[Len(a)] = m
  BY <1>1
<1>4. Once!OneMore(a, msgs)
  BY <1>1, <1>2, <1>3 DEF Once!OneMore
<1> QED BY <1>3, <1>4 DEF a

\* ratchet_encrypt sends one message that was never sent before.
LEMMA EncryptSends ==
    ASSUME IndInv, NEW p \in Party, Encrypt(p)
    PROVE  Once!Send(p)
<1> DEFINE m == EncryptedMessage(st[p])
<1>1. m \in WireMessage /\ m.mk \notin KeysOf(sent[p])
  BY RatchetEncryptInv DEF IndInv, SessionsInv, Encrypt
<1>2. sent' = [sent EXCEPT ![p] = Append(sent[p], m)] /\ accepted' = accepted
  BY DEF Encrypt
<1> HIDE DEF m
<1>3. sent \in [Party -> Seq(WireMessage)]
  BY DEF IndInv, TypeOK
<1>4. Once!OneMore(Append(sent[p], m), sent[p])
  BY <1>1, <1>3, AppendIsOneMore
<1>5. sent'[p] = Append(sent[p], m) /\ \A q \in Party \ {p} : sent'[q] = sent[q]
  BY <1>2, <1>3
<1> QED BY <1>2, <1>4, <1>5 DEF Once!Send

\* ratchet_decrypt accepts one message of the peer, for the first time, or
\* leaves what the abstract channel sees as it was.
LEMMA DecryptAccepts ==
    ASSUME IndInv, NEW p \in Party, NEW i, Decrypt(p, i)
    PROVE  Once!Accept(p) \/ UNCHANGED <<sent, accepted>>
<1> DEFINE q     == Peer(p)
           m     == sent[q][i]
           fresh == <<p, generated[p]>>
           out   == ratchet_decrypt(st[p], m, fresh)
<1>1. /\ q \in Party \ {p} /\ i \in 1..Len(sent[q])
      /\ generated[p] < MaxGenerated
  BY PartyAssumption DEF Decrypt, Peer, Party
<1>2. /\ sent \in [Party -> Seq(WireMessage)] /\ accepted \in [Party -> Seq(WireMessage)]
      /\ generated \in [Party -> Nat]
  BY DEF IndInv, TypeOK
<1>3. m \in WireMessage
  BY <1>1, <1>2, ElementOfSeq
<1>4. fresh \in KeyPair /\ fresh # st[p].dhs
  <2>1. generated[p] \in 0..MaxGenerated /\ generated[p] # generated[p] - 1
    BY <1>1, <1>2, PartyAssumption
  <2>2. st[p].dhs = <<p, generated[p] - 1>>
    BY DEF IndInv, OwnKeysInv, OwnKeys
  <2> QED BY <2>1, <2>2, PartyAssumption
<1>5. out.result = "ok" => m.mk \notin KeysOf(accepted[p])
  BY <1>3, <1>4, RatchetDecryptInv DEF IndInv, SessionsInv
<1>6. /\ accepted' = [accepted EXCEPT ![p] =
                        IF out.result = "ok" THEN Append(accepted[p], m) ELSE accepted[p]]
      /\ sent' = sent
  BY DEF Decrypt
<1>7. Once!Has(sent[q], m)
  BY <1>1 DEF Once!Has
<1> HIDE DEF q, m, fresh, out
<1>8. CASE out.result = "ok"
  <2>1. /\ Once!OneMore(Append(accepted[p], m), accepted[p])
        /\ Append(accepted[p], m)[Len(Append(accepted[p], m))] = m
    BY <1>2, <1>3, <1>5, <1>8, AppendIsOneMore
  <2>2. /\ accepted'[p] = Append(accepted[p], m)
        /\ \A r \in Party \ {p} : accepted'[r] = accepted[r]
    BY <1>2, <1>6, <1>8
  <2>3. \E r \in Party \ {p} : Once!Has(sent[r], accepted'[p][Len(accepted'[p])])
    BY <1>1, <1>7, <2>1, <2>2
  <2> QED BY <1>6, <2>1, <2>2, <2>3 DEF Once!Accept
<1>9. CASE out.result # "ok"
  BY <1>2, <1>6, <1>9
<1> QED BY <1>8, <1>9

\* The two engines implement OnceChannel: no message is sealed twice, and every
\* message that is accepted was sent by the peer and is accepted once.
THEOREM ImplementsOnce == Spec => ImplementsOnceChannel
<1>1. Init => Once!OnceInit
  BY DEF Init, Once!OnceInit
<1>2. IndInv /\ [Next]_vars => [Once!OnceNext]_<<sent, accepted>>
  <2> SUFFICES ASSUME IndInv, [Next]_vars
               PROVE  Once!OnceNext \/ UNCHANGED <<sent, accepted>>
    OBVIOUS
  <2>1. CASE UNCHANGED vars
    BY <2>1 DEF vars
  <2>2. CASE \E p \in Party : Encrypt(p)
    BY <2>2, EncryptSends DEF Once!OnceNext
  <2>3. CASE \E p \in Party : \E j \in 1..MaxSent : Decrypt(p, j)
    BY <2>3, DecryptAccepts DEF Once!OnceNext
  <2> QED BY <2>1, <2>2, <2>3 DEF Next
<1> QED BY <1>1, <1>2, SpecInd, PTL DEF Spec, ImplementsOnceChannel, Once!OnceSpec

-----------------------------------------------------------------------------
(* Keys of the two clients differ: the secrets of their chains pair the same *)
(* ratchet keys in no two chains of different clients.                       *)

\* The last secret that went into a chain.
LastSecret(ck) == ck.root[Len(ck.root)]

\* The ratchet keys in the headers of p.
Headers(p) == {m.dh : m \in Elements(sent[p])}

\* A client seals with the initial chain, if it is the initiator, or with the
\* secret of the key in the header and a key the peer has sent.
SecretsInv(p) ==
    \A m \in Elements(sent[p]) :
        IF m.mk.label = "initial" THEN p = Initiator
        ELSE \E d \in Headers(Peer(p)) : LastSecret(m.mk) = {m.dh, d}

\* The peer's key is from one of its headers; the sending chain comes from it and
\* the own key; before the first key of the peer only the initiator has sent.
OwnChainInv(p) ==
    LET s == st[p]
        ck == s.sending_chain_key
    IN  /\ s.dhr # None => s.dhr \in Headers(Peer(p))
        /\ ck # None => IF ck.label = "initial" THEN p = Initiator
                        ELSE s.dhr # None /\ LastSecret(ck) = {s.dhs, s.dhr}
        /\ s.dhr = None /\ ck = None => Elements(sent[p]) = {}

\* All messages under the present key come from the present chain.
SameChainInv(p) ==
    \A m \in Elements(sent[p]) : m.dh = st[p].dhs =>
        /\ st[p].sending_chain_key # None
        /\ m.mk.label = st[p].sending_chain_key.label
        /\ m.mk.root = st[p].sending_chain_key.root

\* The messages under the peer's key are older than the own key.
OlderInv(p) ==
    st[p].dhr # None =>
        \A m \in Elements(sent[Peer(p)]) :
            m.dh = st[p].dhr /\ m.mk.label # "initial" => st[p].dhs \notin LastSecret(m.mk)

\* No secret starts a chain of each client.
DisjointInv(p) ==
    \A m \in Elements(sent[p]), n \in Elements(sent[Peer(p)]) :
        m.mk.label # "initial" /\ n.mk.label # "initial" => LastSecret(m.mk) # LastSecret(n.mk)

PairInv(p) ==
    SecretsInv(p) /\ OwnChainInv(p) /\ SameChainInv(p) /\ OlderInv(p) /\ DisjointInv(p)

CrossInv == \A p \in Party : PairInv(p)

\* Appending a message adds it to the elements.
LEMMA ElementsAppend ==
    ASSUME NEW msgs \in Seq(WireMessage), NEW m \in WireMessage
    PROVE  Elements(Append(msgs, m)) = Elements(msgs) \cup {m}
<1> DEFINE a == Append(msgs, m)
           n == Len(msgs)
<1>1. /\ Len(a) = n + 1 /\ n \in Nat /\ a[n + 1] = m
      /\ \A j \in 1..n : a[j] = msgs[j]
  BY KeysOfAppend
<1>2. 1..Len(a) = (1..n) \cup {n + 1}
  BY <1>1
<1> HIDE DEF a, n
<1>3. Elements(a) = {msgs[j] : j \in 1..n} \cup {m}
  BY <1>1, <1>2 DEF Elements
<1> QED BY <1>3 DEF Elements, a, n

\* A client uses its own key pairs, and those of the two clients differ.
LEMMA KeyOwners ==
    ASSUME IndInv, NEW p \in Party
    PROVE  /\ Peer(p) \in Party /\ Peer(p) # p /\ Peer(Peer(p)) = p
           /\ \E k : st[p].dhs = <<p, k>>
           /\ \A m \in Elements(sent[p]) : m \in WireMessage /\ \E k : m.dh = <<p, k>>
<1>1. Peer(p) \in Party /\ Peer(p) # p /\ Peer(Peer(p)) = p
  BY PartyAssumption DEF Peer, Party
<1>2. OwnKeys(p, st[p], generated[p], sent[p]) /\ sent[p] \in Seq(WireMessage)
  BY DEF IndInv, OwnKeysInv, TypeOK
<1>3. \A j \in 1..Len(sent[p]) : sent[p][j] \in WireMessage
  BY <1>2, ElementOfSeq
<1> QED BY <1>1, <1>2, <1>3 DEF OwnKeys, Elements

\* Sealing continues a chain or starts one with a pair of keys that is new.
LEMMA EncryptCross ==
    ASSUME IndInv, CrossInv, NEW p \in Party, Encrypt(p)
    PROVE  CrossInv'
<1> DEFINE m == EncryptedMessage(st[p])
           r == EncryptedState(st[p])
           q == Peer(p)
<1>1. /\ m \in WireMessage /\ m.dh = st[p].dhs
      /\ r.dhs = st[p].dhs /\ r.dhr = st[p].dhr
  BY RatchetEncryptInv DEF IndInv, SessionsInv, Encrypt
<1>2. /\ st[p].sending_chain_key # None => m.mk = st[p].sending_chain_key
      /\ st[p].sending_chain_key = None =>
            st[p].dhr # None /\ m.mk.label = "root" /\ LastSecret(m.mk) = {st[p].dhs, st[p].dhr}
      /\ r.sending_chain_key # None
      /\ r.sending_chain_key.label = m.mk.label /\ r.sending_chain_key.root = m.mk.root
  BY RatchetEncryptKeys DEF IndInv, SessionsInv, Encrypt, LastSecret
<1>3. st' = [st EXCEPT ![p] = r] /\ sent' = [sent EXCEPT ![p] = Append(sent[p], m)]
  BY DEF Encrypt
<1> HIDE DEF m, r
<1>4. /\ q \in Party /\ q # p /\ Peer(q) = p /\ Party = {p, q}
      /\ \E k : st[p].dhs = <<p, k>>
      /\ \A n \in Elements(sent[q]) : \E k : n.dh = <<q, k>>
  BY KeyOwners DEF Peer, Party
<1>5. /\ st'[p] = r /\ st'[q] = st[q] /\ sent'[q] = sent[q]
      /\ sent'[p] = Append(sent[p], m)
  BY <1>3, <1>4 DEF IndInv, TypeOK
<1>6. Elements(sent'[p]) = Elements(sent[p]) \cup {m}
  BY <1>1, <1>5, ElementsAppend DEF IndInv, TypeOK
<1> HIDE DEF q
<1>7. PairInv(p) /\ PairInv(q)
  BY <1>4 DEF CrossInv
<1>8. /\ Headers(p)' = Headers(p) \cup {m.dh} /\ Headers(q)' = Headers(q)
      /\ Peer(p) = q
  BY <1>5, <1>6 DEF Headers, q
<1>9. IF m.mk.label = "initial" THEN p = Initiator
      ELSE /\ st[p].dhr # None /\ LastSecret(m.mk) = {st[p].dhs, st[p].dhr}
           /\ st[p].dhr \in Headers(q)
  BY <1>2, <1>7, <1>8 DEF PairInv, OwnChainInv
<1>10. LastSecret(r.sending_chain_key) = LastSecret(m.mk)
  BY <1>2 DEF LastSecret
<1>11. SecretsInv(p)' /\ SecretsInv(q)'
  <2>1. SecretsInv(p)'
    BY <1>1, <1>5, <1>6, <1>7, <1>8, <1>9 DEF PairInv, SecretsInv, LastSecret
  <2>2. SecretsInv(q)'
    BY <1>4, <1>5, <1>7, <1>8 DEF PairInv, SecretsInv, LastSecret
  <2> QED BY <2>1, <2>2
<1>12. OwnChainInv(p)' /\ OwnChainInv(q)'
  <2>1. OwnChainInv(p)'
    BY <1>1, <1>2, <1>5, <1>7, <1>8, <1>9, <1>10 DEF PairInv, OwnChainInv, LastSecret
  <2>2. OwnChainInv(q)'
    BY <1>4, <1>5, <1>7, <1>8 DEF PairInv, OwnChainInv, LastSecret
  <2> QED BY <2>1, <2>2
<1>13. SameChainInv(p)' /\ SameChainInv(q)'
  BY <1>1, <1>2, <1>5, <1>6, <1>7 DEF PairInv, SameChainInv
<1>14. OlderInv(p)' /\ OlderInv(q)'
  <2>1. OlderInv(p)'
    BY <1>1, <1>5, <1>7, <1>8 DEF PairInv, OlderInv, LastSecret
  <2>2. ASSUME st[q].dhr # None, m.dh = st[q].dhr, m.mk.label # "initial"
        PROVE  st[q].dhs \notin LastSecret(m.mk)
    <3>1. PICK n \in Elements(sent[p]) : n.dh = m.dh
      BY <1>4, <1>7, <2>2 DEF PairInv, OwnChainInv, Headers
    <3>2. m.mk = st[p].sending_chain_key /\ n.mk.label = m.mk.label /\ n.mk.root = m.mk.root
      BY <1>1, <1>2, <1>7, <3>1 DEF PairInv, SameChainInv
    <3> QED BY <1>4, <1>7, <2>2, <3>1, <3>2 DEF PairInv, OlderInv, LastSecret
  <2>3. OlderInv(q)'
    BY <1>4, <1>5, <1>6, <1>7, <2>2 DEF PairInv, OlderInv, LastSecret
  <2> QED BY <2>1, <2>3
<1>15. ASSUME NEW n \in Elements(sent[q]), m.mk.label # "initial", n.mk.label # "initial"
       PROVE  LastSecret(m.mk) # LastSecret(n.mk)
  <2>1. SUFFICES ASSUME LastSecret(m.mk) = LastSecret(n.mk) PROVE FALSE
    OBVIOUS
  <2>2. PICK d : LastSecret(n.mk) = {n.dh, d}
    BY <1>7, <1>15 DEF PairInv, SecretsInv
  <2>3. n.dh # st[p].dhs
    BY <1>4
  <2>4. n.dh = st[p].dhr /\ st[p].dhs \in LastSecret(n.mk)
    BY <1>9, <1>15, <2>1, <2>2, <2>3
  <2> QED BY <1>7, <1>8, <1>9, <1>15, <2>4 DEF PairInv, OlderInv
<1>16. DisjointInv(p)' /\ DisjointInv(q)'
  BY <1>4, <1>5, <1>6, <1>7, <1>8, <1>15 DEF PairInv, DisjointInv, LastSecret
<1>17. PairInv(p)' /\ PairInv(q)'
  BY <1>11, <1>12, <1>13, <1>14, <1>16 DEF PairInv
<1> QED BY <1>4, <1>17 DEF CrossInv

\* Decrypting answers a key of the peer with the own key, which no message of
\* the peer under that key knows.
LEMMA DecryptCross ==
    ASSUME IndInv, CrossInv, NEW p \in Party, NEW i, Decrypt(p, i)
    PROVE  CrossInv'
<1> DEFINE q     == Peer(p)
           m     == sent[q][i]
           fresh == <<p, generated[p]>>
           r     == ratchet_decrypt(st[p], m, fresh).state
<1>1. /\ q \in Party /\ q # p /\ Peer(q) = p /\ Party = {p, q}
      /\ \A n \in Elements(sent[p]) : \E k : n.dh = <<p, k>>
      /\ \A n \in Elements(sent[q]) : \E k : n.dh = <<q, k>>
  BY KeyOwners DEF Peer, Party
<1>2. /\ i \in 1..Len(sent[q]) /\ generated[p] < MaxGenerated
      /\ sent \in [Party -> Seq(WireMessage)] /\ generated[p] \in Nat
      /\ st \in [Party -> RatchetState]
  BY <1>1 DEF Decrypt, IndInv, TypeOK
<1>3. m \in WireMessage /\ m \in Elements(sent[q])
  BY <1>1, <1>2, ElementOfSeq DEF Elements
<1>4. fresh \in KeyPair
  <2>1. generated[p] \in 0..MaxGenerated
    BY <1>2, PartyAssumption
  <2> QED BY <2>1, PartyAssumption
<1>5. KeysEffect(r, st[p], m.dh, fresh)
  BY <1>3, <1>4, RatchetDecryptKeys DEF IndInv, SessionsInv
<1>6. st' = [st EXCEPT ![p] = r] /\ sent' = sent
  BY DEF Decrypt
<1>7. /\ \A n \in Elements(sent[p]) : n.dh # fresh
      /\ \A n \in Elements(sent[q]) : n.dh # fresh
  <2>1. ASSUME NEW n \in Elements(sent[p]) PROVE n.dh # fresh
    <3>1. PICK k \in 0..(generated[p] - 1) : n.dh = <<p, k>>
      BY <2>1 DEF IndInv, OwnKeysInv, OwnKeys, Elements
    <3>2. k # generated[p]
      BY <1>2, <3>1
    <3> QED BY <3>1, <3>2
  <2> QED BY <1>1, <2>1
<1> HIDE DEF r, m, fresh, q
<1>8. st'[p] = r /\ st'[q] = st[q] /\ Peer(p) = q
  BY <1>1, <1>2, <1>6 DEF q
<1>9. PairInv(p) /\ PairInv(q)
  BY <1>1 DEF CrossInv
<1>10. m.dh \in Headers(q)
  BY <1>3 DEF Headers
<1>11. /\ SecretsInv(p)' /\ SecretsInv(q)' /\ DisjointInv(p)' /\ DisjointInv(q)'
       /\ OwnChainInv(q)' /\ SameChainInv(q)' /\ OlderInv(q)'
  <2>1. Headers(p)' = Headers(p) /\ Headers(q)' = Headers(q)
    BY <1>6 DEF Headers
  <2>2. SecretsInv(p)' /\ SecretsInv(q)'
    BY <1>1, <1>6, <1>8, <1>9, <2>1 DEF PairInv, SecretsInv, LastSecret
  <2>3. DisjointInv(p)' /\ DisjointInv(q)'
    BY <1>6, <1>9 DEF PairInv, DisjointInv, LastSecret
  <2>4. OwnChainInv(q)' /\ SameChainInv(q)' /\ OlderInv(q)'
    BY <1>1, <1>6, <1>8, <1>9, <2>1 DEF PairInv, OwnChainInv, SameChainInv, OlderInv, LastSecret
  <2> QED BY <2>2, <2>3, <2>4
<1>12. OwnChainInv(p)' /\ SameChainInv(p)' /\ OlderInv(p)'
  <2>1. CASE /\ r.dhs = st[p].dhs /\ r.dhr = st[p].dhr
             /\ r.sending_chain_key = st[p].sending_chain_key
    BY <1>6, <1>8, <1>9, <2>1 DEF PairInv, OwnChainInv, SameChainInv, OlderInv, Headers,
                                  LastSecret
  <2>2. CASE /\ r.dhs = st[p].dhs /\ r.dhr = m.dh /\ st[p].dhr = None
             /\ r.sending_chain_key = None /\ st[p].sending_chain_key = None
    <3>1. Elements(sent[p]) = {} /\ Headers(p) = {}
      BY <1>9, <2>2 DEF PairInv, OwnChainInv, Headers
    <3>2. \A n \in Elements(sent[q]) : n.mk.label = "initial"
      BY <1>1, <1>9, <3>1 DEF PairInv, SecretsInv
    <3>3. m.dh # None
      BY <1>3, EngineAssumption DEF WireMessage
    <3> QED BY <1>6, <1>8, <1>10, <2>2, <3>1, <3>2, <3>3
            DEF OwnChainInv, SameChainInv, OlderInv, Headers
  <2>3. CASE r.dhs = fresh /\ r.dhr = m.dh /\ r.sending_chain_key = None
    <3>1. m.dh # None
      BY <1>3, EngineAssumption DEF WireMessage
    <3>2. ASSUME NEW n \in Elements(sent[q]), n.mk.label # "initial"
          PROVE  fresh \notin LastSecret(n.mk)
      <4>1. PICK d \in Headers(p) : LastSecret(n.mk) = {n.dh, d}
        BY <1>1, <1>9, <3>2 DEF PairInv, SecretsInv
      <4> QED BY <1>7, <4>1 DEF Headers
    <3>3. OwnChainInv(p)'
      BY <1>6, <1>8, <1>10, <2>3, <3>1 DEF OwnChainInv, Headers
    <3>4. SameChainInv(p)'
      BY <1>6, <1>7, <1>8, <2>3 DEF SameChainInv
    <3>5. OlderInv(p)'
      BY <1>6, <1>8, <2>3, <3>2 DEF OlderInv, LastSecret
    <3> QED BY <3>3, <3>4, <3>5
  <2> QED BY <1>5, <2>1, <2>2, <2>3 DEF KeysEffect
<1>13. PairInv(p)' /\ PairInv(q)'
  BY <1>11, <1>12 DEF PairInv
<1> QED BY <1>1, <1>13 DEF CrossInv

\* CrossInv holds throughout.
LEMMA SpecCross == Spec => []CrossInv
<1>1. Init => CrossInv
  <2> SUFFICES ASSUME Init, NEW p \in Party PROVE PairInv(p)
    BY DEF CrossInv
  <2>1. Peer(p) \in Party
    BY DEF Peer, Party
  <2>2. Len(<< >>) = 0
    OBVIOUS
  <2>3. Elements(sent[p]) = {} /\ Elements(sent[Peer(p)]) = {}
    BY <2>1, <2>2 DEF Init, Elements
  <2>4. /\ st[p].dhr = None
        /\ st[p].sending_chain_key # None => p = Initiator /\ st[p].sending_chain_key.label = "initial"
    BY DEF Init, create_initial_state, kdf_initial_chain
  <2> QED BY <2>3, <2>4 DEF PairInv, SecretsInv, OwnChainInv, SameChainInv, OlderInv, DisjointInv
<1>2. IndInv /\ CrossInv /\ [Next]_vars => CrossInv'
  <2> SUFFICES ASSUME IndInv, CrossInv, [Next]_vars PROVE CrossInv'
    OBVIOUS
  <2>1. CASE UNCHANGED vars
    BY <2>1, ZenonT(40) DEF vars, CrossInv, PairInv, SecretsInv, OwnChainInv, SameChainInv, OlderInv,
                DisjointInv, Headers, LastSecret
  <2>2. CASE \E p \in Party : Encrypt(p)
    BY <2>2, EncryptCross
  <2>3. CASE \E p \in Party : \E j \in 1..MaxSent : Decrypt(p, j)
    BY <2>3, DecryptCross
  <2> QED BY <2>1, <2>2, <2>3 DEF Next
<1> QED BY <1>1, <1>2, SpecInd, PTL DEF Spec

\* ratchet_encrypt uses no message key twice, at one client or at both, whatever
\* the channel delivers.
THEOREM KeysNeverReused == Spec => []NoKeyReuse
<1>1. IndInv /\ CrossInv => NoKeyReuse
  <2> SUFFICES ASSUME IndInv, CrossInv, NEW p \in Party, NEW q \in Party,
                      NEW j \in 1..Len(sent[p]), NEW k \in 1..Len(sent[q]),
                      sent[p][j].mk = sent[q][k].mk
               PROVE  p = q /\ j = k
    BY DEF NoKeyReuse
  <2>1. CASE p = q
    BY <2>1 DEF IndInv, SealedOnce
  <2>2. CASE p # q
    <3>1. q = Peer(p) /\ p = Peer(q)
      BY <2>2, PartyAssumption DEF Peer, Party
    <3>2. sent[p][j] \in Elements(sent[p]) /\ sent[q][k] \in Elements(sent[q])
      BY DEF Elements
    <3>3. CASE sent[p][j].mk.label = "initial"
      BY <2>2, <3>2, <3>3 DEF CrossInv, PairInv, SecretsInv
    <3>4. CASE sent[p][j].mk.label # "initial"
      <4>1. LastSecret(sent[p][j].mk) # LastSecret(sent[q][k].mk)
        BY <3>1, <3>2, <3>4 DEF CrossInv, PairInv, DisjointInv
      <4> QED BY <4>1
    <3> QED BY <3>3, <3>4
  <2> QED BY <2>1, <2>2
<1> QED BY <1>1, SpecInd, SpecCross, PTL
-----------------------------------------------------------------------------
(* Forward secrecy. *)

\* Keys of an initial chain come from the X3DH root, which is << >> here, and
\* what a client accepts its peer has sent.
FirstChainInv ==
    \A p \in Party :
        /\ st[p].sending_chain_key # None /\ st[p].sending_chain_key.label = "initial"
              => st[p].sending_chain_key.root = << >>
        /\ \A m \in Elements(sent[p]) : m.mk.label = "initial" => m.mk.root = << >>
        /\ Elements(accepted[p]) \subseteq Elements(sent[Peer(p)])

\* FirstChainInv holds throughout.
LEMMA SpecFirstChain == Spec => []FirstChainInv
<1>1. Init => FirstChainInv
  <2> SUFFICES ASSUME Init, NEW p \in Party PROVE
        /\ st[p].sending_chain_key # None => st[p].sending_chain_key.root = << >>
        /\ Elements(sent[p]) = {} /\ Elements(accepted[p]) = {}
    BY DEF FirstChainInv
  <2>1. Len(<< >>) = 0
    OBVIOUS
  <2> QED BY <2>1 DEF Init, Elements, create_initial_state, kdf_initial_chain
<1>2. ASSUME IndInv, FirstChainInv, NEW p \in Party, Encrypt(p) PROVE FirstChainInv'
  <2> DEFINE m == EncryptedMessage(st[p])
             r == EncryptedState(st[p])
             q == Peer(p)
  <2>1. m \in WireMessage
    BY <1>2, RatchetEncryptInv DEF IndInv, SessionsInv, Encrypt
  <2>2. /\ st[p].sending_chain_key # None => m.mk = st[p].sending_chain_key
        /\ st[p].sending_chain_key = None => m.mk.label = "root"
        /\ r.sending_chain_key.label = m.mk.label /\ r.sending_chain_key.root = m.mk.root
    BY <1>2, RatchetEncryptKeys DEF IndInv, SessionsInv, Encrypt
  <2>3. /\ st' = [st EXCEPT ![p] = r] /\ sent' = [sent EXCEPT ![p] = Append(sent[p], m)]
        /\ accepted' = accepted
    BY <1>2 DEF Encrypt
  <2> HIDE DEF m, r
  <2>4. q \in Party /\ q # p /\ Peer(q) = p /\ Party = {p, q}
    BY PartyAssumption DEF Peer, Party
  <2>5. /\ st'[p] = r /\ st'[q] = st[q] /\ sent'[q] = sent[q]
        /\ sent'[p] = Append(sent[p], m)
    BY <1>2, <2>3, <2>4 DEF IndInv, TypeOK
  <2>6. Elements(sent'[p]) = Elements(sent[p]) \cup {m}
    BY <1>2, <2>1, <2>5, ElementsAppend DEF IndInv, TypeOK
  <2>7. m.mk.label = "initial" => m.mk.root = << >>
    BY <1>2, <2>2 DEF FirstChainInv
  <2>8. Peer(p) = q
    OBVIOUS
  <2> HIDE DEF q
  <2> QED BY <1>2, <2>2, <2>3, <2>4, <2>5, <2>6, <2>7, <2>8 DEF FirstChainInv
<1>3. ASSUME IndInv, FirstChainInv, NEW p \in Party, NEW i, Decrypt(p, i) PROVE FirstChainInv'
  <2> DEFINE q     == Peer(p)
             m     == sent[q][i]
             fresh == <<p, generated[p]>>
             out   == ratchet_decrypt(st[p], m, fresh)
             r     == out.state
  <2>1. q \in Party /\ q # p /\ Peer(q) = p /\ Party = {p, q}
    BY PartyAssumption DEF Peer, Party
  <2>2. /\ i \in 1..Len(sent[q]) /\ generated[p] < MaxGenerated
        /\ sent \in [Party -> Seq(WireMessage)] /\ generated[p] \in Nat
        /\ st \in [Party -> RatchetState] /\ accepted \in [Party -> Seq(WireMessage)]
    BY <1>3, <2>1 DEF Decrypt, IndInv, TypeOK
  <2>3. m \in WireMessage /\ m \in Elements(sent[q])
    BY <2>1, <2>2, ElementOfSeq DEF Elements
  <2>4. fresh \in KeyPair
    <3>1. generated[p] \in 0..MaxGenerated
      BY <2>2, PartyAssumption
    <3> QED BY <3>1, PartyAssumption
  <2>5. KeysEffect(r, st[p], m.dh, fresh)
    BY <1>3, <2>3, <2>4, RatchetDecryptKeys DEF IndInv, SessionsInv
  <2>6. r.sending_chain_key \in {st[p].sending_chain_key, None}
    BY <2>5 DEF KeysEffect
  <2>7. /\ st' = [st EXCEPT ![p] = r] /\ sent' = sent
        /\ accepted' = [accepted EXCEPT ![p] =
                          IF out.result = "ok" THEN Append(accepted[p], m) ELSE accepted[p]]
    BY <1>3 DEF Decrypt
  <2> HIDE DEF m, fresh, out, r
  <2>8. Elements(Append(accepted[p], m)) = Elements(accepted[p]) \cup {m}
    BY <2>2, <2>3, ElementsAppend
  <2>9. /\ st'[p] = r /\ st'[q] = st[q] /\ accepted'[q] = accepted[q]
        /\ Elements(accepted'[p]) \subseteq Elements(accepted[p]) \cup {m}
    BY <2>1, <2>2, <2>7, <2>8
  <2>10. Peer(p) = q
    OBVIOUS
  <2> HIDE DEF q
  <2> QED BY <1>3, <2>1, <2>3, <2>6, <2>7, <2>9, <2>10 DEF FirstChainInv
<1>4. IndInv /\ FirstChainInv /\ [Next]_vars => FirstChainInv'
  <2> SUFFICES ASSUME IndInv, FirstChainInv, [Next]_vars PROVE FirstChainInv'
    OBVIOUS
  <2>1. CASE UNCHANGED vars
    BY <2>1 DEF vars, FirstChainInv
  <2>2. CASE \E p \in Party : Encrypt(p)
    BY <1>2, <2>2
  <2>3. CASE \E p \in Party : \E j \in 1..MaxSent : Decrypt(p, j)
    BY <1>3, <2>3
  <2> QED BY <2>1, <2>2, <2>3 DEF Next
<1> QED BY <1>1, <1>4, SpecInd, PTL DEF Spec

\* A used key of a root no longer than the present one is not derived from the
\* present root, unless it is of that root's initial chain.
LEMMA OldNotFromRoot ==
    ASSUME NEW s \in RatchetState, NEW k \in ChainKey, Len(k.root) <= Len(s.root_key),
           k.label = "initial" => k.root = << >>, s.root_key # << >>
    PROVE  ~ FromRoot(s, k)
<1>1. s.root_key \in RootKey /\ s.dhs \in KeyPair
  BY DEF RatchetState
<1>2. ~ Ahead(kdf_initial_chain(s.root_key), k)
  BY DEF Ahead, kdf_initial_chain
<1>3. ASSUME NEW dh \in KeyPair
      PROVE  ~ Ahead(kdf_root(s.root_key, dh_secret(s.dhs, dh)).chain, k)
  <2> DEFINE ck == kdf_root(s.root_key, dh_secret(s.dhs, dh)).chain
  <2>1. dh_secret(s.dhs, dh) \in SUBSET KeyPair
    BY <1>1 DEF dh_secret
  <2>2. Len(ck.root) = Len(s.root_key) + 1 /\ Len(s.root_key) \in Nat
    BY <1>1, <2>1, KdfRootType
  <2> HIDE DEF ck
  <2>3. ck.root # k.root
    BY <2>2
  <2> QED BY <2>3 DEF Ahead, ck
<1> QED BY <1>2, <1>3 DEF FromRoot

\* Forward secrecy of the engine: the chains and the store have lost the keys of
\* accepted and of sealed messages, and after the first DH step so has the root.
THEOREM ForwardSecrecy == Spec => []KeysErased
<1>1. IndInv /\ FirstChainInv => KeysErased
  <2> SUFFICES ASSUME IndInv, FirstChainInv, NEW p \in Party
               PROVE  /\ \A j \in 1..Len(accepted[p]) :
                            /\ ~ FromChains(st[p], accepted[p][j].mk)
                            /\ st[p].root_key # << >> => ~ FromRoot(st[p], accepted[p][j].mk)
                      /\ \A j \in 1..Len(sent[p]) :
                            /\ ~ Ahead(st[p].sending_chain_key, sent[p][j].mk)
                            /\ st[p].root_key # << >> => ~ FromRoot(st[p], sent[p][j].mk)
    BY DEF KeysErased
  <2> DEFINE s == st[p]
             ckR == s.receiving_chain_key
             ckS == s.sending_chain_key
  <2>1. SessionInv(s, KeysOf(accepted[p]), KeysOf(sent[p]))
    BY DEF IndInv, SessionsInv
  <2>2. s \in RatchetState /\ s.root_key \in RootKey /\ Len(s.root_key) \in Nat
    BY <2>1 DEF SessionInv, RatchetState, RootKey
  <2>3. (ckR # None => ckR \in ChainKey) /\ (ckS # None => ckS \in ChainKey)
    BY <2>2 DEF RatchetState
  <2>4. ASSUME NEW j \in 1..Len(accepted[p])
        PROVE  /\ ~ FromChains(s, accepted[p][j].mk)
               /\ s.root_key # << >> => ~ FromRoot(s, accepted[p][j].mk)
    <3> DEFINE k == accepted[p][j].mk
    <3>1. k \in KeysOf(accepted[p]) /\ k \in ChainKey
      BY <2>1 DEF KeysOf, SessionInv
    <3>2. ckR # None
      BY <2>1, <3>1 DEF SessionInv, ReceivingInv
    <3>3. /\ Behind(k, ckR) /\ Len(ckR.root) <= Len(s.root_key)
          /\ \A n \in 1..Len(s.skipped_message_keys) : s.skipped_message_keys[n].mk # k
      BY <2>1, <3>1, <3>2 DEF SessionInv, ReceivingInv, StoreInv
    <3>4. ~ Ahead(ckR, k)
      BY <2>3, <3>1, <3>2, <3>3, BehindNotAhead
    <3>5. ~ Ahead(ckS, k)
      <4>1. CASE ckS = None
        BY <4>1 DEF Ahead
      <4>2. CASE ckS # None
        <5>1. Len(ckR.root) < Len(ckS.root)
          BY <2>1, <3>2, <4>2 DEF SessionInv, SendingInv
        <5>2. Behind(k, ckS)
          BY <2>3, <3>1, <3>2, <3>3, <4>2, <5>1, BehindLonger
        <5> QED BY <2>3, <3>1, <4>2, <5>2, BehindNotAhead
      <4> QED BY <4>1, <4>2
    <3>6. k.label = "initial" => k.root = << >>
      <4>1. accepted[p][j] \in Elements(accepted[p]) /\ Peer(p) \in Party
        BY DEF Elements, Peer, Party
      <4> QED BY <4>1 DEF FirstChainInv
    <3>7. Len(k.root) <= Len(s.root_key)
      <4>1. Len(k.root) \in Nat /\ Len(ckR.root) \in Nat
        BY <2>3, <3>1, <3>2, ChainKeyType
      <4>2. Behind(k, ckR) /\ Len(ckR.root) <= Len(s.root_key)
        BY <3>3
      <4> HIDE DEF k, ckR, s
      <4> QED BY <2>2, <4>1, <4>2 DEF Behind
    <3>8. s.root_key # << >> => ~ FromRoot(s, k)
      BY <2>2, <3>1, <3>6, <3>7, OldNotFromRoot
    <3> QED BY <3>3, <3>4, <3>5, <3>8 DEF FromChains
  <2>5. ASSUME NEW j \in 1..Len(sent[p])
        PROVE  /\ ~ Ahead(ckS, sent[p][j].mk)
               /\ s.root_key # << >> => ~ FromRoot(s, sent[p][j].mk)
    <3> DEFINE k == sent[p][j].mk
    <3>1. k \in KeysOf(sent[p]) /\ k \in ChainKey
      BY <2>1 DEF KeysOf, SessionInv
    <3>2. ~ Ahead(ckS, k) /\ Len(k.root) <= Len(s.root_key)
      <4>1. CASE ckS = None
        BY <2>1, <3>1, <4>1 DEF Ahead, SessionInv, SendingInv
      <4>2. CASE ckS # None
        <5>1. Behind(k, ckS) /\ Len(ckS.root) = Len(s.root_key)
          BY <2>1, <3>1, <4>2 DEF SessionInv, SendingInv
        <5>2. ~ Ahead(ckS, k)
          BY <2>3, <3>1, <4>2, <5>1, BehindNotAhead
        <5>3. Len(k.root) <= Len(s.root_key)
          BY <2>2, <2>3, <3>1, <4>2, <5>1, ChainKeyType DEF Behind
        <5> QED BY <5>2, <5>3
      <4> QED BY <4>1, <4>2
    <3>3. k.label = "initial" => k.root = << >>
      <4>1. sent[p][j] \in Elements(sent[p])
        BY DEF Elements
      <4> QED BY <4>1 DEF FirstChainInv
    <3> QED BY <2>2, <3>1, <3>2, <3>3, OldNotFromRoot
  <2> QED BY <2>4, <2>5
<1> QED BY <1>1, SpecInd, SpecFirstChain, PTL
=============================================================================
