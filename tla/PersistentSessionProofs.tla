---------------------- MODULE PersistentSessionProofs ----------------------
(***************************************************************************)
(* Safety of sessions that are saved, lost and loaded again, for every     *)
(* number of messages, crashes, exits and failing writes.                  *)
(*                                                                         *)
(* The session in memory and the one in the file each satisfy the engine's *)
(* SessionInv, for different keys: the memory for every message that was   *)
(* decrypted, the file for those that were printed; the memory for every   *)
(* message that was sealed, the file for those whose save is over.         *)
(*                                                                         *)
(* The second part follows both clients at once, as long as nothing but    *)
(* the network disturbs them.  Their sessions take turns: one has a        *)
(* sending chain that the other follows, and the other has answered it or  *)
(* not.  What a session has read of its peer is told by its replay window, *)
(* what it can still read by its skipped keys and its receiving chain.     *)
(***************************************************************************)
EXTENDS PersistentSession, RatchetEngineProofs, FiniteSetTheorems

\* The keys of the messages with the numbers in shown, and of number d if any.
KeysShown(msgs, shown, d) ==
    {msgs[shown[j]].mk : j \in 1..Len(shown)} \cup (IF d = 0 THEN {} ELSE {msgs[d].mk})

\* What the memory of p has opened and sealed, as far as it can be relied on.
OpenedKeys(p) ==
    IF diskErrors = 0 THEN KeysShown(sent[Peer(p)], displayed[p], due[p]) ELSE {}

SealedKeys(p) ==
    IF crashes = 0 /\ interrupts = 0 /\ diskErrors = 0 THEN KeysOf(sent[p]) ELSE {}

\* What the file of p knows of it: a message that is decrypted is in the file
\* when it is about to be printed, one that is sent when sender_loop goes on.
FileOpenedKeys(p) ==
    IF diskErrors = 0
    THEN KeysShown(sent[Peer(p)], displayed[p], IF pc[p] = "print" THEN due[p] ELSE 0)
    ELSE {}

FileSealedKeys(p) == IF sending[p] THEN {} ELSE SealedKeys(p)

ControlInv(p) ==
    /\ due[p] # 0 <=> pc[p] \in {"save_after_recv", "replace_after_recv", "print"}
    /\ pc[p] = "down" => sending[p] = FALSE

\* The numbers refer to messages of the peer; none is printed or due twice.
IndexInv(p) ==
    /\ due[p] \in 0..Len(sent[Peer(p)])
    /\ \A j \in 1..Len(displayed[p]) : displayed[p][j] \in 1..Len(sent[Peer(p)])

ShownOnce(p) ==
    diskErrors = 0 =>
        /\ \A j, k \in 1..Len(displayed[p]) : displayed[p][j] = displayed[p][k] => j = k
        /\ \A j \in 1..Len(displayed[p]) : displayed[p][j] # due[p]

\* The memory is never behind the file, and the temporary file that is about to
\* replace the file is the memory and ahead of it.
VersionInv(p) ==
    /\ pc[p] # "down" => file[p].version <= version[p]
    /\ pc[p] \in {"replace_after_send", "replace_after_recv"} =>
          /\ tmp[p] = [state |-> mem[p], version |-> version[p]]
          /\ file[p].version < version[p]

MemInv(p) == pc[p] # "down" => SessionInv(mem[p], OpenedKeys(p), SealedKeys(p))

FileInv(p) == SessionInv(file[p].state, FileOpenedKeys(p), FileSealedKeys(p))

SealedOnce(p) ==
    crashes = 0 /\ interrupts = 0 /\ diskErrors = 0 =>
        \A j, k \in 1..Len(sent[p]) : sent[p][j].mk = sent[p][k].mk => j = k

ClientInv(p) ==
    /\ ControlInv(p) /\ IndexInv(p) /\ ShownOnce(p) /\ VersionInv(p)
    /\ MemInv(p) /\ FileInv(p) /\ SealedOnce(p)

StoreInvariant == TypeOK /\ \A p \in Party : ClientInv(p)

-----------------------------------------------------------------------------
(* load_session *)

IsRebuild(rebuilt, ids, k) ==
    rebuilt = [j \in 0..k |-> IF j = 0 THEN << >> ELSE ReceivedIdsAdd(rebuilt[j - 1], ids[j])]

\* The loop of state_from_dict over the first k ids: it ends, with a window
\* within its limit.
LEMMA RebuildExists ==
    ASSUME NEW ids \in Seq(MessageId), NEW k \in 0..Len(ids)
    PROVE  /\ \E r : IsRebuild(r, ids, k)
           /\ \A r : IsRebuild(r, ids, k) => r[k] \in Seq(MessageId) /\ Len(r[k]) <= MaxReceivedIds
<1> DEFINE Ok(n) == /\ \E r : IsRebuild(r, ids, n)
                    /\ \A r : IsRebuild(r, ids, n) =>
                          r[n] \in Seq(MessageId) /\ Len(r[n]) <= MaxReceivedIds
           S == {n \in Nat : n <= Len(ids) => Ok(n)}
<1>0. Len(ids) \in Nat
  BY LenProperties
<1>1. 0 \in S
  <2> DEFINE g == [j \in 0..0 |-> << >>]
  <2>1. IsRebuild(g, ids, 0)
    BY DEF IsRebuild
  <2>2. ASSUME NEW r, IsRebuild(r, ids, 0)
        PROVE  r[0] \in Seq(MessageId) /\ Len(r[0]) <= MaxReceivedIds
    <3>1. r[0] = << >> /\ Len(<< >>) = 0
      BY <2>2 DEF IsRebuild
    <3> QED BY <3>1, EngineAssumption
  <2> QED BY <2>1, <2>2
<1>2. ASSUME NEW n \in S PROVE n + 1 \in S
  <2> SUFFICES ASSUME n + 1 <= Len(ids) PROVE Ok(n + 1)
    OBVIOUS
  <2>0. n \in Nat /\ Ok(n) /\ n + 1 \in 1..Len(ids)
    BY <1>0
  <2>1. PICK g : IsRebuild(g, ids, n)
    BY <2>0
  <2> DEFINE h == [j \in 0..(n + 1) |-> IF j = n + 1 THEN ReceivedIdsAdd(g[n], ids[n + 1]) ELSE g[j]]
  <2>2. IsRebuild(h, ids, n + 1)
    BY <2>0, <2>1 DEF IsRebuild
  <2>3. ASSUME NEW r, IsRebuild(r, ids, n + 1)
        PROVE  r[n + 1] \in Seq(MessageId) /\ Len(r[n + 1]) <= MaxReceivedIds
    <3> DEFINE f == [j \in 0..n |-> r[j]]
    <3>1. IsRebuild(f, ids, n) /\ f[n] = r[n]
      BY <2>0, <2>3 DEF IsRebuild
    <3>2. r[n + 1] = ReceivedIdsAdd(r[n], ids[n + 1])
      BY <2>0, <2>3 DEF IsRebuild
    <3>3. r[n] \in Seq(MessageId) /\ Len(r[n]) <= MaxReceivedIds
      <4> HIDE DEF f
      <4> QED BY <2>0, <3>1
    <3>4. ids[n + 1] \in MessageId
      BY <2>0, ElementOfSeq
    <3> QED BY <3>2, <3>3, <3>4, ReceivedIdsAddBounded
  <2> HIDE DEF h
  <2> QED BY <2>2, <2>3
<1>3. S = Nat
  <2> HIDE DEF S
  <2>1. S \subseteq Nat BY DEF S
  <2> QED BY <2>1, <1>1, <1>2, InductiveSet
<1>4. k \in S /\ k <= Len(ids)
  BY <1>0, <1>3
<1> HIDE DEF Ok
<1>5. Ok(k)
  BY <1>4
<1> QED BY <1>5 DEF Ok

\* A session that was saved is as good when it is loaded.
LEMMA LoadedInv ==
    ASSUME NEW d, NEW Used, NEW Sealed, SessionInv(d.state, Used, Sealed)
    PROVE  SessionInv(state_from_dict(d), Used, Sealed)
<1> DEFINE ids == d.state.received_ids
           c   == CHOOSE r : IsRebuild(r, ids, Len(ids))
           s   == state_from_dict(d)
<1>1. d.state \in RatchetState
  BY DEF SessionInv
<1>2. ids \in Seq(MessageId) /\ Len(ids) \in 0..Len(ids)
  BY <1>1, LenProperties DEF RatchetState
<1>3. \E r : IsRebuild(r, ids, Len(ids))
  BY <1>2, RebuildExists
<1>4. IsRebuild(c, ids, Len(ids))
  <2> HIDE DEF ids
  <2> QED BY <1>3, Zenon
<1>5. c[Len(ids)] \in Seq(MessageId) /\ Len(c[Len(ids)]) <= MaxReceivedIds
  <2> HIDE DEF ids, c
  <2> QED BY <1>2, <1>4, RebuildExists
<1>6. s = [d.state EXCEPT !.received_ids = c[Len(ids)]]
  BY Zenon DEF state_from_dict, IsRebuild
<1> DEFINE new == c[Len(ids)]
           t   == d.state
<1> HIDE DEF c, s, ids
<1>7. s = [root_key |-> t.root_key, sending_chain_key |-> t.sending_chain_key,
           receiving_chain_key |-> t.receiving_chain_key, dhs |-> t.dhs, dhr |-> t.dhr,
           Ns |-> t.Ns, Nr |-> t.Nr, PN |-> t.PN,
           skipped_message_keys |-> t.skipped_message_keys, received_ids |-> new]
  BY <1>1, <1>6 DEF RatchetState
<1> HIDE DEF new, t
<1>8. SessionInv(t, Used, Sealed) /\ new \in Seq(MessageId) /\ Len(new) <= MaxReceivedIds
  BY <1>5 DEF new, t
<1>9. s \in RatchetState
  BY <1>7, <1>8 DEF RatchetState, SessionInv
<1>10. ReceivingInv(s, Used) /\ SendingInv(s, Sealed)
  BY <1>7, <1>8 DEF SessionInv, ReceivingInv, SendingInv
<1>11. SessionInv(s, Used, Sealed)
  BY <1>7, <1>8, <1>9, <1>10 DEF SessionInv
<1> QED BY <1>11 DEF s

-----------------------------------------------------------------------------
(* The client that does not move. *)

LEMMA PeerIsOther ==
    ASSUME NEW p \in Party
    PROVE  /\ Peer(p) \in Party /\ Peer(p) # p
           /\ \A q \in Party \ {p} : q = Peer(p) /\ Peer(q) = p
  BY StoreAssumption DEF Peer, Party

\* Messages that come later do not change what numbers given earlier mean.
LEMMA KeysShownAppend ==
    ASSUME NEW msgs \in Seq(WireMessage), NEW m \in WireMessage, NEW shown, NEW d \in Nat,
           d \in 0..Len(msgs), \A j \in 1..Len(shown) : shown[j] \in 1..Len(msgs)
    PROVE  KeysShown(Append(msgs, m), shown, d) = KeysShown(msgs, shown, d)
<1>1. \A j \in 1..Len(msgs) : Append(msgs, m)[j] = msgs[j]
  BY KeysOfAppend
<1>2. d = 0 \/ d \in 1..Len(msgs)
  BY LenProperties
<1> QED BY <1>1, <1>2 DEF KeysShown

\* What a step of one client leaves true of the other: it may have got a
\* message, and a fault may have happened.
LEMMA OtherClient ==
    ASSUME StoreInvariant, NEW q \in Party,
           mem'[q] = mem[q], version'[q] = version[q], file'[q] = file[q],
           tmp'[q] = tmp[q], pc'[q] = pc[q], sending'[q] = sending[q],
           due'[q] = due[q], displayed'[q] = displayed[q], sent'[q] = sent[q],
           \/ sent'[Peer(q)] = sent[Peer(q)]
           \/ \E m \in WireMessage : sent'[Peer(q)] = Append(sent[Peer(q)], m),
           diskErrors' = 0 => diskErrors = 0,
           crashes' = 0 => crashes = 0,
           interrupts' = 0 => interrupts = 0
    PROVE  ClientInv(q)'
<1> DEFINE from == sent[Peer(q)]
           d    == IF pc[q] = "print" THEN due[q] ELSE 0
<1>0. /\ ControlInv(q) /\ IndexInv(q) /\ ShownOnce(q) /\ VersionInv(q)
      /\ MemInv(q) /\ FileInv(q) /\ SealedOnce(q)
  BY DEF StoreInvariant, ClientInv
<1>1. from \in Seq(WireMessage) /\ Len(from) \in Nat
  BY PeerIsOther DEF StoreInvariant, TypeOK
<1>2. /\ Len(from) <= Len(sent'[Peer(q)])
      /\ Len(sent'[Peer(q)]) \in Nat
      /\ KeysShown(sent'[Peer(q)], displayed[q], due[q]) = KeysShown(from, displayed[q], due[q])
      /\ KeysShown(sent'[Peer(q)], displayed[q], d) = KeysShown(from, displayed[q], d)
  <2>1. CASE sent'[Peer(q)] = from
    BY <1>1, <2>1
  <2>2. CASE \E m \in WireMessage : sent'[Peer(q)] = Append(from, m)
    <3>1. PICK m \in WireMessage : sent'[Peer(q)] = Append(from, m)
      BY <2>2
    <3>2. Len(Append(from, m)) = Len(from) + 1
      BY <1>1, KeysOfAppend
    <3>3. due[q] \in Nat /\ d \in Nat /\ due[q] \in 0..Len(from) /\ d \in 0..Len(from)
          /\ \A j \in 1..Len(displayed[q]) : displayed[q][j] \in 1..Len(from)
      BY <1>0, <1>1 DEF IndexInv
    <3> HIDE DEF from, d
    <3>4. KeysShown(Append(from, m), displayed[q], due[q]) = KeysShown(from, displayed[q], due[q])
      BY <1>1, <3>3, KeysShownAppend
    <3>5. KeysShown(Append(from, m), displayed[q], d) = KeysShown(from, displayed[q], d)
      BY <1>1, <3>3, KeysShownAppend
    <3>6. Len(from) <= Len(Append(from, m)) /\ Len(Append(from, m)) \in Nat
      BY <1>1, <3>2
    <3> QED BY <3>1, <3>4, <3>5, <3>6
  <2> QED BY <2>1, <2>2
<1>3. ControlInv(q)'
  BY <1>0 DEF ControlInv
<1>4. IndexInv(q)'
  BY <1>0, <1>1, <1>2 DEF IndexInv
<1>5. ShownOnce(q)'
  BY <1>0 DEF ShownOnce
<1>6. VersionInv(q)'
  BY <1>0 DEF VersionInv
<1>7. OpenedKeys(q)' \subseteq OpenedKeys(q) /\ FileOpenedKeys(q)' \subseteq FileOpenedKeys(q)
  BY <1>2 DEF OpenedKeys, FileOpenedKeys
<1>8. SealedKeys(q)' \subseteq SealedKeys(q) /\ FileSealedKeys(q)' \subseteq FileSealedKeys(q)
  BY DEF SealedKeys, FileSealedKeys
<1>9. MemInv(q)'
  BY <1>0, <1>7, <1>8, SessionInvFewer DEF MemInv
<1>10. FileInv(q)'
  BY <1>0, <1>7, <1>8, SessionInvFewer DEF FileInv
<1>11. SealedOnce(q)'
  BY <1>0 DEF SealedOnce
<1> QED BY <1>3, <1>4, <1>5, <1>6, <1>9, <1>10, <1>11 DEF ClientInv

\* The initial sessions, saved once.
LEMMA InitStore == Init => StoreInvariant
<1> SUFFICES ASSUME Init PROVE StoreInvariant
  OBVIOUS
<1> DEFINE fresh(p) == create_initial_state(<< >>, p = Initiator, <<p, 0>>)
<1>1. ASSUME NEW p \in Party PROVE SessionInv(fresh(p), {}, {})
  <2>1. <<p, 0>> \in KeyPair /\ << >> \in RootKey
    BY StoreAssumption DEF RootKey
  <2> QED BY <2>1, CreateInitialInv
<1> HIDE DEF fresh
<1>2. /\ mem = [p \in Party |-> fresh(p)]
      /\ file = [p \in Party |-> [state |-> fresh(p), version |-> 2]]
  BY DEF Init, fresh
<1>3. \A p \in Party : fresh(p) \in RatchetState
  BY <1>1 DEF SessionInv
<1>4. Len(<< >>) = 0 /\ KeysOf(<< >>) = {} /\ KeysShown(<< >>, << >>, 0) = {}
  BY DEF KeysOf, KeysShown
<1>5. TypeOK
  <2>1. mem \in [Party -> RatchetState \cup {None}]
    BY <1>2, <1>3
  <2>2. file \in [Party -> SavedSession]
    BY <1>2, <1>3 DEF SavedSession
  <2>3. 1 \in 1..MaxGenerated /\ 0 \in 0..MaxSent
    BY StoreAssumption
  <2> QED BY <2>1, <2>2, <2>3, StoreAssumption DEF Init, TypeOK
<1>6. ASSUME NEW p \in Party PROVE ClientInv(p)
  <2>1. /\ pc[p] = "ready" /\ due[p] = 0 /\ sending[p] = FALSE /\ version[p] = 2
        /\ displayed[p] = << >> /\ sent[p] = << >> /\ sent[Peer(p)] = << >>
    BY PeerIsOther DEF Init
  <2>2. mem[p] = fresh(p) /\ file[p].state = fresh(p) /\ file[p].version = 2
    BY <1>2
  <2>3. OpenedKeys(p) = {} /\ SealedKeys(p) = {} /\ FileOpenedKeys(p) = {} /\ FileSealedKeys(p) = {}
    BY <1>4, <2>1 DEF OpenedKeys, SealedKeys, FileOpenedKeys, FileSealedKeys
  <2>4. MemInv(p) /\ FileInv(p)
    BY <1>1, <2>2, <2>3 DEF MemInv, FileInv
  <2>5. ControlInv(p) /\ IndexInv(p) /\ ShownOnce(p) /\ VersionInv(p) /\ SealedOnce(p)
    BY <1>4, <2>1, <2>2 DEF ControlInv, IndexInv, ShownOnce, VersionInv, SealedOnce
  <2> QED BY <2>4, <2>5 DEF ClientInv
<1> QED BY <1>5, <1>6 DEF StoreInvariant

-----------------------------------------------------------------------------
(* The actions. *)

\* A message that is sent is in the memory and not yet in the file.
LEMMA SendStore ==
    ASSUME StoreInvariant, NEW p \in Party, Send(p)
    PROVE  StoreInvariant'
<1> DEFINE m == EncryptedMessage(mem[p])
           r == EncryptedState(mem[p])
<1>0. /\ ControlInv(p) /\ IndexInv(p) /\ ShownOnce(p) /\ VersionInv(p)
      /\ MemInv(p) /\ FileInv(p) /\ SealedOnce(p) /\ TypeOK
  BY DEF StoreInvariant, ClientInv
<1>1. /\ SessionInv(r, OpenedKeys(p), SealedKeys(p) \cup {m.mk})
      /\ m \in WireMessage
      /\ m.mk \notin SealedKeys(p)
  BY <1>0, RatchetEncryptInv DEF Send, MemInv
<1>2. r \in RatchetState
  BY <1>1 DEF SessionInv
<1> HIDE DEF m, r
<1>3. /\ mem' = [mem EXCEPT ![p] = r]
      /\ sent' = [sent EXCEPT ![p] = Append(sent[p], m)]
      /\ sending' = [sending EXCEPT ![p] = TRUE]
      /\ pc[p] = "ready"
      /\ UNCHANGED <<version, file, tmp, pc, due, generated, delivered, displayed,
                     crashes, quits, interrupts, diskErrors>>
  BY DEF Send, m, r, faults
<1>4. /\ Append(sent[p], m) \in Seq(WireMessage)
      /\ KeysOf(Append(sent[p], m)) = KeysOf(sent[p]) \cup {m.mk}
  BY <1>0, <1>1, KeysOfAppend DEF TypeOK
<1>5. TypeOK'
  BY <1>0, <1>2, <1>3, <1>4 DEF TypeOK
<1>6. /\ mem'[p] = r /\ sent'[p] = Append(sent[p], m) /\ sending'[p] = TRUE
      /\ sent'[Peer(p)] = sent[Peer(p)]
      /\ \A q \in Party \ {p} : /\ mem'[q] = mem[q] /\ sending'[q] = sending[q]
                                /\ sent'[q] = sent[q]
                                /\ sent'[Peer(q)] = Append(sent[Peer(q)], m)
  BY <1>0, <1>3, PeerIsOther DEF TypeOK
<1>7. \A q \in Party \ {p} : ClientInv(q)'
  BY <1>1, <1>3, <1>6, OtherClient
<1>8. /\ OpenedKeys(p)' = OpenedKeys(p) /\ FileOpenedKeys(p)' = FileOpenedKeys(p)
      /\ SealedKeys(p)' \subseteq SealedKeys(p) \cup {m.mk}
      /\ FileSealedKeys(p)' = {}
  BY <1>3, <1>4, <1>6 DEF OpenedKeys, FileOpenedKeys, SealedKeys, FileSealedKeys
<1>9. MemInv(p)'
  BY <1>1, <1>6, <1>8, SessionInvFewer DEF MemInv
<1>10. FileInv(p)'
  BY <1>0, <1>3, <1>8, SessionInvFewer DEF FileInv
<1>11. SealedOnce(p)'
  <2> SUFFICES ASSUME crashes = 0, interrupts = 0, diskErrors = 0
               PROVE  \A j, k \in 1..Len(Append(sent[p], m)) :
                         Append(sent[p], m)[j].mk = Append(sent[p], m)[k].mk => j = k
    BY <1>3, <1>6 DEF SealedOnce
  <2>1. m.mk \notin KeysOf(sent[p])
    BY <1>1 DEF SealedKeys
  <2>2. \A j, k \in 1..Len(sent[p]) : sent[p][j].mk = sent[p][k].mk => j = k
    BY <1>0 DEF SealedOnce
  <2>3. sent[p] \in Seq(WireMessage)
    BY <1>0 DEF TypeOK
  <2> QED BY <1>1, <2>1, <2>2, <2>3, AppendKeepsDistinct
<1>12. ControlInv(p)' /\ IndexInv(p)' /\ ShownOnce(p)' /\ VersionInv(p)'
  BY <1>0, <1>3, <1>6 DEF ControlInv, IndexInv, ShownOnce, VersionInv
<1>13. ClientInv(p)'
  BY <1>9, <1>10, <1>11, <1>12 DEF ClientInv
<1> QED BY <1>5, <1>7, <1>13 DEF StoreInvariant

\* ratchet_decrypt gives back only messages that were not printed.
LEMMA ReceiveStore ==
    ASSUME StoreInvariant, NEW p \in Party, NEW i \in 1..MaxSent, Receive(p, i)
    PROVE  StoreInvariant'
<1> DEFINE from  == sent[Peer(p)]
           m     == from[i]
           fresh == <<p, generated[p]>>
           out   == ratchet_decrypt(mem[p], m, fresh)
           r     == out.state
           ok    == out.result = "ok"
           gen   == IF r.dhs = mem[p].dhs THEN generated[p] ELSE generated[p] + 1
           num   == IF ok THEN i ELSE 0
           U     == UsedAfter(OpenedKeys(p), m, out)
<1>0. /\ ControlInv(p) /\ IndexInv(p) /\ ShownOnce(p) /\ VersionInv(p)
      /\ MemInv(p) /\ FileInv(p) /\ SealedOnce(p) /\ TypeOK
  BY DEF StoreInvariant, ClientInv
<1>1. /\ pc[p] = "ready" /\ generated[p] < MaxGenerated /\ i \in 1..Len(from)
      /\ from \in Seq(WireMessage)
      /\ generated[p] \in 1..MaxGenerated
  BY <1>0, PeerIsOther DEF Receive, Arrives, TypeOK
<1>2. m \in WireMessage /\ fresh \in KeyPair
  BY <1>1, ElementOfSeq, StoreAssumption
<1>3. SessionInv(r, U, SealedKeys(p)) /\ (ok => m.mk \notin OpenedKeys(p))
  BY <1>0, <1>1, <1>2, RatchetDecryptInv DEF MemInv
<1>4. /\ mem' = [mem EXCEPT ![p] = r]
      /\ generated' = [generated EXCEPT ![p] = gen]
      /\ pc' = [pc EXCEPT ![p] = IF ok THEN "save_after_recv" ELSE "ready"]
      /\ due' = [due EXCEPT ![p] = num]
      /\ delivered' = [delivered EXCEPT ![p] = delivered[p] \cup {i}]
      /\ UNCHANGED <<version, file, tmp, sending, sent, displayed, crashes, quits, interrupts, diskErrors>>
  BY DEF Receive, faults
<1>5. r \in RatchetState /\ gen \in 1..MaxGenerated /\ num \in 0..MaxSent
  <2>1. r \in RatchetState
    BY <1>3 DEF SessionInv
  <2> HIDE DEF out
  <2> QED BY <1>1, <2>1, StoreAssumption
<1>6. U = IF ok THEN OpenedKeys(p) \cup {m.mk} ELSE OpenedKeys(p)
  BY DEF UsedAfter
<1> HIDE DEF out, r, gen, fresh, ok, U
<1>7. TypeOK'
  <2>1. num \in 0..MaxSent
    BY <1>5
  <2> HIDE DEF num
  <2> QED BY <1>0, <1>4, <1>5, <2>1 DEF TypeOK
<1>8. /\ mem'[p] = r /\ due'[p] = num
      /\ pc'[p] = IF ok THEN "save_after_recv" ELSE "ready"
      /\ \A q \in Party \ {p} : mem'[q] = mem[q] /\ due'[q] = due[q] /\ pc'[q] = pc[q]
  BY <1>0, <1>4 DEF TypeOK
<1>9. \A q \in Party \ {p} : ClientInv(q)'
  BY <1>4, <1>8, OtherClient
<1>10. due[p] = 0
  BY <1>0, <1>1 DEF ControlInv
<1>11. /\ OpenedKeys(p)' \subseteq U
       /\ SealedKeys(p)' = SealedKeys(p) /\ FileSealedKeys(p)' = FileSealedKeys(p)
       /\ FileOpenedKeys(p)' = FileOpenedKeys(p)
  <2>1. i # 0
    OBVIOUS
  <2>2. pc[p] # "print" /\ pc'[p] # "print"
    BY <1>1, <1>8
  <2> QED BY <1>4, <1>6, <1>8, <1>10, <2>1, <2>2
          DEF OpenedKeys, FileOpenedKeys, SealedKeys, FileSealedKeys, KeysShown
<1>12. MemInv(p)'
  BY <1>3, <1>8, <1>11, SessionInvFewer DEF MemInv
<1>13. FileInv(p)'
  BY <1>0, <1>4, <1>11 DEF FileInv
<1>14. ControlInv(p)'
  BY <1>0, <1>1, <1>4, <1>8 DEF ControlInv
<1>15. IndexInv(p)'
  BY <1>0, <1>1, <1>4, <1>8 DEF IndexInv
<1>16. ShownOnce(p)'
  <2> SUFFICES ASSUME diskErrors = 0
               PROVE  \A j \in 1..Len(displayed[p]) : displayed[p][j] # num
    BY <1>0, <1>4, <1>8 DEF ShownOnce
  <2>1. CASE ok
    <3>1. m.mk \notin {from[displayed[p][j]].mk : j \in 1..Len(displayed[p])}
      BY <1>3, <2>1 DEF OpenedKeys, KeysShown
    <3> QED BY <2>1, <3>1
  <2>2. CASE ~ ok
    BY <1>0, <2>2 DEF IndexInv
  <2> QED BY <2>1, <2>2
<1>17. VersionInv(p)' /\ SealedOnce(p)'
  BY <1>0, <1>1, <1>4, <1>8 DEF VersionInv, SealedOnce
<1>18. ClientInv(p)'
  BY <1>12, <1>13, <1>14, <1>15, <1>16, <1>17 DEF ClientInv
<1> QED BY <1>7, <1>9, <1>18 DEF StoreInvariant

\* A save does not raise SessionRollbackError while the file is not ahead.
LEMMA SaveOutcome ==
    ASSUME StoreInvariant, NEW p \in Party, pc[p] # "down", WriteTmp(p) \/ SaveRaises(p)
    PROVE  /\ version' = [version EXCEPT ![p] = @ + 1]
           /\ WriteTmp(p) => /\ tmp' = [tmp EXCEPT ![p] = [state |-> mem[p], version |-> version[p] + 1]]
                             /\ diskErrors' = diskErrors
           /\ SaveRaises(p) => /\ tmp' = tmp /\ diskErrors' # 0
                               /\ diskErrors' \in 0..MaxDiskErrors
<1>1. /\ file[p].version <= version[p] /\ version[p] \in Nat /\ file[p].version \in Nat
      /\ diskErrors \in 0..MaxDiskErrors
  BY DEF StoreInvariant, ClientInv, VersionInv, TypeOK, SavedSession
<1>2. ~ RollbackDetected(p)
  BY <1>1 DEF RollbackDetected
<1> QED BY <1>1, <1>2, StoreAssumption DEF WriteTmp, SaveRaises, state_to_dict

\* The first half of a save: the temporary file holds the memory, or the write
\* has failed.
LEMMA SaveStore ==
    ASSUME StoreInvariant, NEW p \in Party,
           \/ SaveAfterSend(p) \/ SaveAfterSendFails(p)
           \/ SaveAfterRecv(p) \/ SaveAfterRecvFails(p)
    PROVE  StoreInvariant'
<1>0. /\ ControlInv(p) /\ IndexInv(p) /\ ShownOnce(p) /\ VersionInv(p)
      /\ MemInv(p) /\ FileInv(p) /\ SealedOnce(p) /\ TypeOK
  BY DEF StoreInvariant, ClientInv
<1>1. /\ pc[p] \in {"ready", "save_after_recv"}
      /\ WriteTmp(p) \/ SaveRaises(p)
      /\ UNCHANGED <<mem, file, due, generated, sent, delivered, displayed, crashes, quits,
                     interrupts>>
  BY DEF SaveAfterSend, SaveAfterSendFails, SaveAfterRecv, SaveAfterRecvFails, channel, stops
<1>2. /\ version' = [version EXCEPT ![p] = version[p] + 1]
      /\ diskErrors' \in 0..MaxDiskErrors
      /\ diskErrors' = 0 => diskErrors = 0
      /\ \/ /\ tmp' = [tmp EXCEPT ![p] = [state |-> mem[p], version |-> version[p] + 1]]
            /\ diskErrors' = diskErrors
         \/ tmp' = tmp /\ diskErrors' # 0
  BY <1>0, <1>1, SaveOutcome DEF TypeOK
<1>3. /\ \/ /\ pc' = [pc EXCEPT ![p] = "replace_after_send"] /\ pc[p] = "ready"
            /\ sending' = sending /\ WriteTmp(p)
         \/ /\ pc' = pc /\ pc[p] = "ready"
            /\ sending' = [sending EXCEPT ![p] = FALSE] /\ SaveRaises(p)
         \/ /\ pc' = [pc EXCEPT ![p] = "replace_after_recv"] /\ pc[p] = "save_after_recv"
            /\ sending' = sending /\ WriteTmp(p)
         \/ /\ pc' = [pc EXCEPT ![p] = "print"] /\ pc[p] = "save_after_recv"
            /\ sending' = sending /\ SaveRaises(p)
  BY DEF SaveAfterSend, SaveAfterSendFails, SaveAfterRecv, SaveAfterRecvFails
<1>4. /\ mem[p] \in RatchetState /\ version[p] + 1 \in Nat
      /\ version[p] \in Nat /\ file[p].version \in Nat
  BY <1>0, <1>1 DEF MemInv, SessionInv, TypeOK, SavedSession
<1>5. TypeOK'
  <2>1. tmp' \in [Party -> SavedSession \cup {None}]
    <3>1. [state |-> mem[p], version |-> version[p] + 1] \in SavedSession
      BY <1>4 DEF SavedSession
    <3> QED BY <1>0, <1>2, <3>1 DEF TypeOK
  <2>2. version' \in [Party -> Nat]
    BY <1>0, <1>2, <1>4 DEF TypeOK
  <2>3. pc' \in [Party -> {"ready", "replace_after_send", "save_after_recv",
                          "replace_after_recv", "print", "down"}]
        /\ sending' \in [Party -> BOOLEAN]
    BY <1>0, <1>3 DEF TypeOK
  <2> QED BY <1>0, <1>1, <1>2, <2>1, <2>2, <2>3 DEF TypeOK
<1>6. /\ version'[p] = version[p] + 1
      /\ \A q \in Party \ {p} : /\ version'[q] = version[q] /\ tmp'[q] = tmp[q]
                                /\ pc'[q] = pc[q] /\ sending'[q] = sending[q]
  BY <1>0, <1>2, <1>3 DEF TypeOK
<1>7. \A q \in Party \ {p} : ClientInv(q)'
  BY <1>1, <1>2, <1>6, OtherClient
<1>8. /\ pc'[p] \in {"replace_after_send", "replace_after_recv"} =>
            tmp'[p] = [state |-> mem[p], version |-> version[p] + 1] /\ sending'[p] = sending[p]
      /\ pc'[p] \notin {"replace_after_send", "replace_after_recv"} => diskErrors' # 0
      /\ pc'[p] # "down" /\ pc[p] # "print" /\ (pc'[p] = "print" => diskErrors' # 0)
  <2>1. /\ WriteTmp(p) => tmp'[p] = [state |-> mem[p], version |-> version[p] + 1]
        /\ SaveRaises(p) => diskErrors' # 0
    BY <1>0, <1>1, SaveOutcome DEF TypeOK
  <2> QED BY <1>0, <1>3, <2>1 DEF TypeOK
<1>9. VersionInv(p)'
  BY <1>0, <1>1, <1>4, <1>6, <1>8 DEF VersionInv
<1>10. /\ OpenedKeys(p)' \subseteq OpenedKeys(p) /\ SealedKeys(p)' \subseteq SealedKeys(p)
       /\ FileOpenedKeys(p)' \subseteq FileOpenedKeys(p)
       /\ FileSealedKeys(p)' \subseteq FileSealedKeys(p)
  BY <1>1, <1>2, <1>8 DEF OpenedKeys, FileOpenedKeys, SealedKeys, FileSealedKeys
<1>11. MemInv(p)' /\ FileInv(p)'
  BY <1>0, <1>1, <1>10, SessionInvFewer DEF MemInv, FileInv
<1>12. ControlInv(p)'
  BY <1>0, <1>1, <1>3 DEF ControlInv, TypeOK
<1>13. IndexInv(p)' /\ ShownOnce(p)' /\ SealedOnce(p)'
  BY <1>0, <1>1, <1>2 DEF IndexInv, ShownOnce, SealedOnce
<1>14. ClientInv(p)'
  BY <1>9, <1>11, <1>12, <1>13 DEF ClientInv
<1> QED BY <1>5, <1>7, <1>14 DEF StoreInvariant

\* The second half: the file is the memory.
LEMMA ReplaceStore ==
    ASSUME StoreInvariant, NEW p \in Party, ReplaceAfterSend(p) \/ ReplaceAfterRecv(p)
    PROVE  StoreInvariant' /\ file'[p].version > file[p].version
           /\ \A q \in Party \ {p} : file'[q] = file[q]
<1>0. /\ ControlInv(p) /\ IndexInv(p) /\ ShownOnce(p) /\ VersionInv(p)
      /\ MemInv(p) /\ FileInv(p) /\ SealedOnce(p) /\ TypeOK
  BY DEF StoreInvariant, ClientInv
<1>1. /\ pc[p] \in {"replace_after_send", "replace_after_recv"}
      /\ file' = [file EXCEPT ![p] = tmp[p]] /\ tmp' = [tmp EXCEPT ![p] = None]
      /\ UNCHANGED <<mem, version, due, generated, sent, delivered, displayed,
                     crashes, quits, interrupts, diskErrors>>
  BY DEF ReplaceAfterSend, ReplaceAfterRecv, channel, faults
<1>2. \/ /\ pc[p] = "replace_after_send" /\ pc' = [pc EXCEPT ![p] = "ready"]
         /\ sending' = [sending EXCEPT ![p] = FALSE]
      \/ /\ pc[p] = "replace_after_recv" /\ pc' = [pc EXCEPT ![p] = "print"]
         /\ sending' = sending
  BY DEF ReplaceAfterSend, ReplaceAfterRecv
<1>3. /\ tmp[p] = [state |-> mem[p], version |-> version[p]]
      /\ file[p].version < version[p]
      /\ SessionInv(mem[p], OpenedKeys(p), SealedKeys(p))
      /\ version[p] \in Nat /\ file[p].version \in Nat
  BY <1>0, <1>1 DEF VersionInv, MemInv, TypeOK, SavedSession
<1>4. /\ file'[p] = [state |-> mem[p], version |-> version[p]]
      /\ \A q \in Party \ {p} : /\ file'[q] = file[q] /\ tmp'[q] = tmp[q]
                                /\ pc'[q] = pc[q] /\ sending'[q] = sending[q]
  BY <1>0, <1>1, <1>2, <1>3 DEF TypeOK
<1>5. tmp[p] \in SavedSession
  BY <1>3 DEF SessionInv, SavedSession
<1>6. TypeOK'
  BY <1>0, <1>1, <1>2, <1>5 DEF TypeOK
<1>7. \A q \in Party \ {p} : ClientInv(q)'
  BY <1>1, <1>4, OtherClient
<1>8. pc'[p] \in {"ready", "print"}
  BY <1>0, <1>2 DEF TypeOK
<1>9. /\ OpenedKeys(p)' = OpenedKeys(p) /\ SealedKeys(p)' = SealedKeys(p)
      /\ FileOpenedKeys(p)' \subseteq OpenedKeys(p)
      /\ FileSealedKeys(p)' \subseteq SealedKeys(p)
  BY <1>1 DEF OpenedKeys, FileOpenedKeys, SealedKeys, FileSealedKeys, KeysShown
<1>10. MemInv(p)'
  BY <1>1, <1>3, <1>9 DEF MemInv
<1>11. FileInv(p)'
  BY <1>3, <1>4, <1>9, SessionInvFewer DEF FileInv
<1>12. VersionInv(p)'
  BY <1>1, <1>3, <1>4, <1>8 DEF VersionInv
<1>13. ControlInv(p)'
  BY <1>0, <1>1, <1>2 DEF ControlInv, TypeOK
<1>14. IndexInv(p)' /\ ShownOnce(p)' /\ SealedOnce(p)'
  BY <1>0, <1>1 DEF IndexInv, ShownOnce, SealedOnce
<1>15. ClientInv(p)'
  BY <1>10, <1>11, <1>12, <1>13, <1>14 DEF ClientInv
<1> QED BY <1>3, <1>4, <1>6, <1>7, <1>15 DEF StoreInvariant

\* A message is printed when the file knows it.
LEMMA PrintStore ==
    ASSUME StoreInvariant, NEW p \in Party, PrintText(p)
    PROVE  StoreInvariant'
<1> DEFINE from == sent[Peer(p)]
           old  == displayed[p]
           new  == Append(old, due[p])
<1>0. /\ ControlInv(p) /\ IndexInv(p) /\ ShownOnce(p) /\ VersionInv(p)
      /\ MemInv(p) /\ FileInv(p) /\ SealedOnce(p) /\ TypeOK
  BY DEF StoreInvariant, ClientInv
<1>1. /\ pc[p] = "print" /\ displayed' = [displayed EXCEPT ![p] = new]
      /\ due' = [due EXCEPT ![p] = 0] /\ pc' = [pc EXCEPT ![p] = "ready"]
      /\ UNCHANGED <<mem, version, file, tmp, sending, generated, sent, delivered,
                     crashes, quits, interrupts, diskErrors>>
  BY DEF PrintText, channel, faults
<1>2. due[p] \in 1..MaxSent /\ due[p] \in 1..Len(from) /\ old \in Seq(1..MaxSent)
  BY <1>0, <1>1, PeerIsOther DEF ControlInv, IndexInv, TypeOK
<1>3. /\ new \in Seq(1..MaxSent) /\ Len(new) = Len(old) + 1 /\ Len(old) \in Nat
      /\ \A j \in 1..Len(old) : new[j] = old[j]
      /\ new[Len(old) + 1] = due[p]
  BY <1>2, AppendProperties, LenProperties
<1> HIDE DEF new
<1>4. TypeOK'
  <2>1. 0 \in 0..MaxSent
    BY StoreAssumption
  <2> QED BY <1>0, <1>1, <1>3, <2>1 DEF TypeOK
<1>5. /\ displayed'[p] = new /\ due'[p] = 0 /\ pc'[p] = "ready"
      /\ \A q \in Party \ {p} : /\ displayed'[q] = displayed[q] /\ due'[q] = due[q]
                                /\ pc'[q] = pc[q]
  BY <1>0, <1>1 DEF TypeOK
<1>6. \A q \in Party \ {p} : ClientInv(q)'
  BY <1>1, <1>5, OtherClient
<1>7. KeysShown(from, new, 0) = KeysShown(from, old, due[p])
  <2>1. 1..Len(new) = (1..Len(old)) \cup {Len(old) + 1} /\ due[p] # 0
    BY <1>2, <1>3
  <2> QED BY <1>3, <2>1, SMTT(30) DEF KeysShown
<1>8. /\ OpenedKeys(p)' = OpenedKeys(p) /\ SealedKeys(p)' = SealedKeys(p)
      /\ FileOpenedKeys(p)' = FileOpenedKeys(p) /\ FileSealedKeys(p)' = FileSealedKeys(p)
  BY <1>1, <1>5, <1>7 DEF OpenedKeys, FileOpenedKeys, SealedKeys, FileSealedKeys
<1>9. MemInv(p)' /\ FileInv(p)'
  BY <1>0, <1>1, <1>5, <1>8 DEF MemInv, FileInv
<1>10. ControlInv(p)' /\ VersionInv(p)' /\ SealedOnce(p)'
  BY <1>0, <1>1, <1>5 DEF ControlInv, VersionInv, SealedOnce
<1>11. \A j \in 1..Len(old) : old[j] \in 1..Len(from)
  BY <1>0 DEF IndexInv
<1>12. \A j \in 1..Len(new) : \/ j \in 1..Len(old) /\ new[j] = old[j]
                              \/ j = Len(old) + 1 /\ new[j] = due[p]
  <2> SUFFICES ASSUME NEW j \in 1..Len(new)
               PROVE  \/ j \in 1..Len(old) /\ new[j] = old[j]
                      \/ j = Len(old) + 1 /\ new[j] = due[p]
    OBVIOUS
  <2>1. j \in 1..Len(old) \/ j = Len(old) + 1
    BY <1>3
  <2> QED BY <1>3, <2>1
<1> HIDE DEF from, old
<1>13. IndexInv(p)'
  <2>1. Len(from) \in Nat
    BY <1>0, PeerIsOther DEF TypeOK, from
  <2>2. \A j \in 1..Len(new) : new[j] \in 1..Len(from)
    BY <1>2, <1>11, <1>12
  <2> QED BY <1>1, <1>5, <2>1, <2>2 DEF IndexInv, from
<1>14. ShownOnce(p)'
  <2> SUFFICES ASSUME diskErrors = 0
               PROVE  /\ \A j, k \in 1..Len(new) : new[j] = new[k] => j = k
                      /\ \A j \in 1..Len(new) : new[j] # 0
    BY <1>1, <1>5 DEF ShownOnce
  <2>1. /\ \A j, k \in 1..Len(old) : old[j] = old[k] => j = k
        /\ \A j \in 1..Len(old) : old[j] # due[p]
    BY <1>0 DEF ShownOnce, old
  <2>2. \A j \in 1..Len(new) : new[j] # 0
    BY <1>2, <1>11, <1>12
  <2>3. ASSUME NEW j \in 1..Len(new), NEW k \in 1..Len(new), new[j] = new[k]
        PROVE  j = k
    BY <1>12, <2>1, <2>3
  <2> QED BY <2>2, <2>3
<1>15. ClientInv(p)'
  BY <1>9, <1>10, <1>13, <1>14 DEF ClientInv
<1> QED BY <1>4, <1>6, <1>15 DEF StoreInvariant

\* The process ends: what the file knows is what is left.
LEMMA StopStore ==
    ASSUME StoreInvariant, NEW p \in Party, Crash(p) \/ Quit(p) \/ Interrupt(p)
    PROVE  StoreInvariant'
<1>0. /\ ControlInv(p) /\ IndexInv(p) /\ ShownOnce(p) /\ VersionInv(p)
      /\ MemInv(p) /\ FileInv(p) /\ SealedOnce(p) /\ TypeOK
  BY DEF StoreInvariant, ClientInv
<1>1. /\ mem' = [mem EXCEPT ![p] = None] /\ version' = [version EXCEPT ![p] = 0]
      /\ pc' = [pc EXCEPT ![p] = "down"] /\ sending' = [sending EXCEPT ![p] = FALSE]
      /\ due' = [due EXCEPT ![p] = 0]
      /\ UNCHANGED <<file, tmp, generated, sent, delivered, displayed, diskErrors>>
  BY DEF Crash, Quit, Interrupt, Stop, channel
<1>2. /\ crashes' \in 0..MaxCrashes /\ quits' \in 0..MaxQuits /\ interrupts' \in 0..MaxInterrupts
      /\ crashes' = 0 => crashes = 0
      /\ interrupts' = 0 => interrupts = 0
      /\ crashes' = 0 /\ interrupts' = 0 => sending[p] = FALSE
  <2>1. CASE Crash(p)
    BY <1>0, <2>1, StoreAssumption DEF Crash, TypeOK
  <2>2. CASE Quit(p)
    BY <1>0, <2>2, StoreAssumption DEF Quit, TypeOK
  <2>3. CASE Interrupt(p)
    BY <1>0, <2>3, StoreAssumption DEF Interrupt, TypeOK
  <2> QED BY <2>1, <2>2, <2>3
<1>3. TypeOK'
  <2>1. 0 \in 0..MaxSent /\ 0 \in Nat
    BY StoreAssumption
  <2> QED BY <1>0, <1>1, <1>2, <2>1 DEF TypeOK
<1>4. /\ pc'[p] = "down" /\ due'[p] = 0 /\ sending'[p] = FALSE
      /\ \A q \in Party \ {p} : /\ mem'[q] = mem[q] /\ version'[q] = version[q]
                                /\ pc'[q] = pc[q] /\ sending'[q] = sending[q]
                                /\ due'[q] = due[q]
  BY <1>0, <1>1 DEF TypeOK
<1>5. \A q \in Party \ {p} : ClientInv(q)'
  BY <1>1, <1>2, <1>4, OtherClient
<1>6. FileOpenedKeys(p)' \subseteq FileOpenedKeys(p) /\ FileSealedKeys(p)' \subseteq FileSealedKeys(p)
  BY <1>1, <1>2, <1>4 DEF FileOpenedKeys, FileSealedKeys, SealedKeys, KeysShown
<1>7. FileInv(p)' /\ MemInv(p)'
  BY <1>0, <1>1, <1>4, <1>6, SessionInvFewer DEF FileInv, MemInv
<1>8. ControlInv(p)' /\ VersionInv(p)' /\ SealedOnce(p)'
  BY <1>0, <1>1, <1>2, <1>4 DEF ControlInv, VersionInv, SealedOnce
<1>9. IndexInv(p)'
  BY <1>0, <1>1, <1>4 DEF IndexInv
<1>10. ShownOnce(p)'
  <2>1. \A j \in 1..Len(displayed[p]) : displayed[p][j] # 0
    BY <1>0 DEF IndexInv
  <2> QED BY <1>0, <1>1, <1>4, <2>1 DEF ShownOnce
<1>11. ClientInv(p)'
  BY <1>7, <1>8, <1>9, <1>10 DEF ClientInv
<1> QED BY <1>3, <1>5, <1>11 DEF StoreInvariant

\* The process starts again with what the file knows.
LEMMA RestartStore ==
    ASSUME StoreInvariant, NEW p \in Party, Restart(p)
    PROVE  StoreInvariant'
<1> DEFINE r == state_from_dict(file[p])
           v == file[p].version
<1>0. /\ ControlInv(p) /\ IndexInv(p) /\ ShownOnce(p) /\ VersionInv(p)
      /\ MemInv(p) /\ FileInv(p) /\ SealedOnce(p) /\ TypeOK
  BY DEF StoreInvariant, ClientInv
<1>1. SessionInv(r, FileOpenedKeys(p), FileSealedKeys(p))
  BY <1>0, LoadedInv DEF FileInv
<1>2. r \in RatchetState /\ v \in Nat
  BY <1>0, <1>1 DEF SessionInv, TypeOK, SavedSession
<1> HIDE DEF r
<1>3. /\ pc[p] = "down" /\ mem' = [mem EXCEPT ![p] = r] /\ version' = [version EXCEPT ![p] = v]
      /\ pc' = [pc EXCEPT ![p] = "ready"]
      /\ UNCHANGED <<file, tmp, sending, due, generated, sent, delivered, displayed,
                     crashes, quits, interrupts, diskErrors>>
  BY DEF Restart, r, channel, faults
<1>4. TypeOK'
  BY <1>0, <1>2, <1>3 DEF TypeOK
<1>5. /\ mem'[p] = r /\ version'[p] = v /\ pc'[p] = "ready"
      /\ \A q \in Party \ {p} : /\ mem'[q] = mem[q] /\ version'[q] = version[q]
                                /\ pc'[q] = pc[q]
  BY <1>0, <1>3 DEF TypeOK
<1>6. \A q \in Party \ {p} : ClientInv(q)'
  BY <1>3, <1>5, OtherClient
<1>7. due[p] = 0 /\ sending[p] = FALSE
  BY <1>0, <1>3 DEF ControlInv
<1>8. /\ OpenedKeys(p)' = FileOpenedKeys(p) /\ SealedKeys(p)' = FileSealedKeys(p)
      /\ FileOpenedKeys(p)' = FileOpenedKeys(p) /\ FileSealedKeys(p)' = FileSealedKeys(p)
  BY <1>3, <1>5, <1>7 DEF OpenedKeys, FileOpenedKeys, SealedKeys, FileSealedKeys
<1>9. MemInv(p)' /\ FileInv(p)'
  BY <1>0, <1>1, <1>3, <1>5, <1>8 DEF MemInv, FileInv
<1>10. ControlInv(p)' /\ VersionInv(p)' /\ SealedOnce(p)'
  BY <1>0, <1>2, <1>3, <1>5 DEF ControlInv, VersionInv, SealedOnce
<1>11. IndexInv(p)' /\ ShownOnce(p)'
  BY <1>0, <1>3 DEF IndexInv, ShownOnce
<1>12. ClientInv(p)'
  BY <1>9, <1>10, <1>11 DEF ClientInv
<1> QED BY <1>4, <1>6, <1>12 DEF StoreInvariant

-----------------------------------------------------------------------------
(* The theorems. *)

\* StoreInvariant is inductive, and only os.replace changes the file.
LEMMA NextStore ==
    ASSUME StoreInvariant, [Next]_vars
    PROVE  StoreInvariant' /\ [FileStep]_vars
<1>1. CASE UNCHANGED vars
  <2>1. UNCHANGED <<mem, version, file, tmp, pc, sending, due, generated, sent, delivered,
                    displayed, crashes, quits, interrupts, diskErrors>>
    BY <1>1 DEF vars
  <2>2. TypeOK'
    BY <2>1 DEF StoreInvariant, TypeOK
  <2>3. \A q \in Party : ClientInv(q)'
    BY <2>1, OtherClient
  <2> QED BY <1>1, <2>2, <2>3 DEF StoreInvariant
<1>2. CASE Next
  <2> PICK p \in Party :
        \/ Send(p) \/ SaveAfterSend(p) \/ SaveAfterSendFails(p) \/ ReplaceAfterSend(p)
        \/ \E j \in 1..MaxSent : Receive(p, j)
        \/ SaveAfterRecv(p) \/ SaveAfterRecvFails(p) \/ ReplaceAfterRecv(p)
        \/ PrintText(p)
        \/ Crash(p) \/ Quit(p) \/ Interrupt(p) \/ Restart(p)
    BY <1>2 DEF Next
  <2>1. CASE ReplaceAfterSend(p) \/ ReplaceAfterRecv(p)
    BY <2>1, ReplaceStore DEF FileStep
  <2>2. CASE ~ (ReplaceAfterSend(p) \/ ReplaceAfterRecv(p))
    <3>1. file' = file
      BY <2>2 DEF Send, SaveAfterSend, SaveAfterSendFails, Receive, SaveAfterRecv,
                  SaveAfterRecvFails, PrintText, Crash, Quit, Interrupt, Stop,
                  Restart
    <3>2. StoreInvariant'
      BY <2>2, SendStore, ReceiveStore, SaveStore, PrintStore, StopStore, RestartStore
    <3> QED BY <3>1, <3>2 DEF FileStep
  <2> QED BY <2>1, <2>2
<1> QED BY <1>1, <1>2

\* The inductive invariant holds in every state.
LEMMA StoreInvariantHolds == Spec => []StoreInvariant
  BY InitStore, NextStore, PTL DEF Spec

\* Sessions, files and messages keep their types through crashes and restarts.
THEOREM StoreTypeCorrect == Spec => []TypeOK
<1>1. StoreInvariant => TypeOK
  BY DEF StoreInvariant
<1> QED BY <1>1, StoreInvariantHolds, PTL

\* recv_loop prints no message twice, over any number of crashes, restarts and
\* redeliveries, as long as no write has failed.
THEOREM PrintedOnce == Spec => []DisplayedOnce
<1>1. StoreInvariant => DisplayedOnce
  BY DEF StoreInvariant, ClientInv, ShownOnce, DisplayedOnce
<1> QED BY <1>1, StoreInvariantHolds, PTL

\* save_session never takes the file back to an earlier version, whatever fails.
THEOREM FileOnlyGrows == Spec => FileNeverRollsBack
<1>1. StoreInvariant /\ [Next]_vars => [FileStep]_vars
  BY NextStore
<1> QED BY <1>1, StoreInvariantHolds, PTL DEF Spec, FileNeverRollsBack

\* As long as no process ends inside a pending client.send_message and writes
\* succeed, sender_loop seals no two messages with one key, exits and restarts at
\* any other point included.  (An exit inside it loses the advanced sending chain.)
THEOREM IdleExitsNeverReuseKeys == Spec => []NoKeyReuseUndisturbed
<1>1. StoreInvariant => NoKeyReuseUndisturbed
  BY DEF StoreInvariant, ClientInv, SealedOnce, NoKeyReuseUndisturbed, Undisturbed, NoKeyReuse
<1> QED BY <1>1, StoreInvariantHolds, PTL

-----------------------------------------------------------------------------
(* What two clients that nothing disturbs have in common. *)

\* The id under which a message is remembered.
MsgId(m) == [dh |-> m.dh, n |-> m.n]

\* mk is the key number n of the chain of ck.
KeyAt(mk, ck, n) == mk.label = ck.label /\ mk.root = ck.root /\ mk.i = n

\* No two messages have the same id.
IdsUnique(M) == \A j, k \in 1..Len(M) : MsgId(M[j]) = MsgId(M[k]) => j = k

\* The numbers under a ratchet key run from 0 without a gap, no further than the
\* messages.
Gapless(M) ==
    \A j \in 1..Len(M) :
        /\ M[j].n < j
        /\ \A n \in Nat : n < M[j].n => \E k \in 1..Len(M) : M[k].dh = M[j].dh /\ M[k].n = n

\* M is what the owner of session s has sent: what was sent under the present
\* ratchet key comes last and is drawn from the present sending chain.
Numbered(s, M) ==
    /\ IdsUnique(M) /\ Gapless(M)
    /\ \A n \in Nat : n < s.Ns => \E k \in 1..Len(M) : M[k].dh = s.dhs /\ M[k].n = n
    /\ \A j \in 1..Len(M) : M[j].dh = s.dhs =>
          /\ M[j].n < s.Ns
          /\ s.sending_chain_key # None /\ KeyAt(M[j].mk, s.sending_chain_key, M[j].n)
    /\ \A j, k \in 1..Len(M) : j < k /\ M[j].dh = s.dhs => M[k].dh = s.dhs
    /\ s.Ns <= Len(M)
    /\ s.sending_chain_key # None =>
          s.sending_chain_key.i = s.Ns /\ s.sending_chain_key.root = s.root_key

\* The replay window holds the ids of the messages of M with a number in D.
Remembers(ids, M, D) ==
    /\ D \subseteq 1..Len(M)
    /\ Len(ids) = Cardinality(D)
    /\ \A e \in 1..Len(ids) : \E k \in D : ids[e] = MsgId(M[k])
    /\ \A k \in D : ReceivedIdsContains(ids, MsgId(M[k]))
    /\ \A e, f \in 1..Len(ids) : ids[e] = ids[f] => e = f

\* The skipped keys are those of the messages of the chain that are missing.
Keeps(s, M, D) ==
    /\ Len(s.skipped_message_keys) <= s.Nr
    /\ \A e \in 1..Len(s.skipped_message_keys) :
          LET x == s.skipped_message_keys[e]
          IN  /\ x.id.dh = s.dhr /\ x.id.n < s.Nr
              /\ KeyAt(x.mk, s.receiving_chain_key, x.id.n)
              /\ \E k \in (1..Len(M)) \ D : x.id = MsgId(M[k])
    /\ \A k \in (1..Len(M)) \ D :
          M[k].dh = s.dhr /\ M[k].n < s.Nr => SkippedHas(s.skipped_message_keys, MsgId(M[k]))

\* The receiving chain is the one the messages under dhr are drawn from.
Follows(s, M, D) ==
    /\ s.receiving_chain_key # None => s.receiving_chain_key.i = s.Nr
    /\ \A k \in 1..Len(M) : M[k].dh = s.dhr =>
          /\ KeyAt(M[k].mk, s.receiving_chain_key, M[k].n)
          /\ k \in D => M[k].n < s.Nr

\* The session s has read the messages of M with a number in D.
HasRead(s, M, D) ==
    Remembers(s.received_ids, M, D) /\ Keeps(s, M, D) /\ Follows(s, M, D)

\* What s has not read of M, the messages of t, lies under the key it follows or
\* under the present one of t; under a key it does not follow it has read nothing.
Between(s, t, M, D) ==
    /\ \A k \in 1..Len(M) : M[k].dh \notin {t.dhs, s.dhr} => k \in D
    /\ t.dhs # s.dhr => \A k \in D : M[k].dh # t.dhs

\* Session y follows the sending chain of x and has answered it or not; x has not
\* yet followed the answer.
Turns(x, y) ==
    /\ x.sending_chain_key # None /\ x.dhr # y.dhs
    /\ y.receiving_chain_key # None
    /\ y.receiving_chain_key.label = x.sending_chain_key.label
    /\ y.receiving_chain_key.root = x.sending_chain_key.root
    /\ y.Nr <= x.Ns
    /\ \/ /\ y.sending_chain_key = None /\ y.root_key = x.root_key
          /\ y.dhr = x.dhs \/ (y.dhr = None /\ y.Nr = 0)
       \/ /\ y.sending_chain_key # None /\ y.sending_chain_key.label = "root"
          /\ y.root_key = Append(x.root_key, {x.dhs, y.dhs}) /\ y.dhr = x.dhs

\* No store overflows and no distance is too large for the messages in M.
Fits(M) ==
    Len(M) <= MaxReceivedIds /\ Len(M) <= MAX_SKIP_DISTANCE + 1 /\ Len(M) <= MaxSkippedKeys + 1

\* The key pairs p has generated.
Owned(p) == {<<p, k>> : k \in 0..(generated[p] - 1)}

\* When nothing is under way the file is up to date.
FileCurrent(p) ==
    pc[p] \in {"ready", "print"} /\ ~ sending[p] => file[p].state = mem[p]

\* What has come has been printed or is about to be.
ShownInv(p) == delivered[p] = (ToSet(displayed[p]) \cup {due[p]}) \ {0}

\* The ratchet keys p uses and has used are its own.
OwnKeys(p) ==
    /\ Session(p).dhs \in Owned(p)
    /\ \A j \in 1..Len(sent[p]) : sent[p][j].dh \in Owned(p)

\* The client p and what its peer has sent.
HeardInv(p) ==
    /\ HasRead(Session(p), sent[Peer(p)], delivered[p])
    /\ Between(Session(p), Session(Peer(p)), sent[Peer(p)], delivered[p])

AgreeClient(p) ==
    /\ FileCurrent(p) /\ ShownInv(p) /\ OwnKeys(p)
    /\ Numbered(Session(p), sent[p]) /\ HeardInv(p)

Agreed ==
    /\ \A p \in Party : AgreeClient(p)
    /\ \E p \in Party : Turns(Session(p), Session(Peer(p)))

Calm == Undisturbed /\ WithinLimits

AgreeInv == Calm => Agreed

-----------------------------------------------------------------------------
(* The stores of the engine while they have room. *)

\* A skipped key that is new is put at the end.
LEMMA SkippedAddRoom ==
    ASSUME NEW store \in Seq(SkippedEntry), Len(store) < MaxSkippedKeys,
           NEW id, ~ SkippedHas(store, id), NEW ck
    PROVE  SkippedAdd(store, id, ck) = Append(store, [id |-> id, mk |-> ck])
<1>1. Len(store) \in Nat
  BY LenProperties
<1>2. EvictOldest(store, MaxSkippedKeys) = store
  BY <1>1, EngineAssumption DEF EvictOldest
<1> QED BY <1>2 DEF SkippedAdd

\* ... and so is an id.
LEMMA ReceivedIdsAddRoom ==
    ASSUME NEW ids \in Seq(MessageId), Len(ids) < MaxReceivedIds,
           NEW id, ~ ReceivedIdsContains(ids, id)
    PROVE  ReceivedIdsAdd(ids, id) = Append(ids, id)
<1>1. Len(ids) \in Nat
  BY LenProperties
<1>2. EvictOldest(ids, MaxReceivedIds) = ids
  BY <1>1, EngineAssumption DEF EvictOldest
<1> QED BY <1>2 DEF ReceivedIdsAdd

\* rest holds the entries of store but the one at i.
Without(rest, store, i) ==
    /\ Len(rest) = Len(store) - 1
    /\ \A j \in 1..Len(rest) : \E k \in (1..Len(store)) \ {i} : rest[j] = store[k]
    /\ \A k \in (1..Len(store)) \ {i} : \E j \in 1..Len(rest) : rest[j] = store[k]

\* Taking a skipped key out leaves exactly the others.
LEMMA SkippedPopRest ==
    ASSUME NEW store \in Seq(SkippedEntry), NEW id, SkippedHas(store, id)
    PROVE  LET i == SkippedIndex(store, id)
           IN  /\ i \in 1..Len(store) /\ store[i].id = id
               /\ Without(SkippedPop(store, id), store, i)
<1> DEFINE i == SkippedIndex(store, id)
           n == Len(store)
           a == SubSeq(store, 1, i - 1)
           b == SubSeq(store, i + 1, n)
           r == a \o b
<1>1. i \in 1..n /\ store[i].id = id
  BY DEF SkippedHas, SkippedIndex
<1>2. n \in Nat
  BY LenProperties
<1> HIDE DEF i
<1>3. /\ Len(a) = i - 1 /\ \A j \in 1..(i - 1) : a[j] = store[j]
      /\ a \in Seq(SkippedEntry)
  BY <1>1, <1>2
<1>4. /\ Len(b) = n - i /\ \A j \in 1..(n - i) : b[j] = store[i + j]
      /\ b \in Seq(SkippedEntry)
  BY <1>1, <1>2
<1> HIDE DEF a, b, n
<1>5. /\ Len(r) = Len(a) + Len(b)
      /\ \A j \in 1..Len(r) : r[j] = IF j <= Len(a) THEN a[j] ELSE b[j - Len(a)]
  <2>1. a \in Seq(SkippedEntry) /\ b \in Seq(SkippedEntry)
    BY <1>3, <1>4
  <2>2. /\ Len(r) = Len(a) + Len(b)
        /\ \A j \in 1..(Len(a) + Len(b)) : r[j] = IF j <= Len(a) THEN a[j] ELSE b[j - Len(a)]
    BY <2>1, ConcatProperties
  <2> HIDE DEF r
  <2> QED BY <2>2
<1> HIDE DEF r
<1>6. \A j \in 1..Len(r) : \E k \in (1..n) \ {i} : r[j] = store[k]
  <2> TAKE j \in 1..Len(r)
  <2>1. CASE j <= Len(a)
    BY <1>1, <1>2, <1>3, <1>4, <1>5, <2>1
  <2>2. CASE ~ (j <= Len(a))
    <3>1. j - Len(a) \in 1..(n - i)
      BY <1>1, <1>2, <1>3, <1>4, <1>5, <2>2
    <3>2. r[j] = store[i + (j - Len(a))] /\ i + (j - Len(a)) \in (1..n) \ {i}
      BY <1>1, <1>2, <1>3, <1>4, <1>5, <2>2, <3>1
    <3> QED BY <3>2
  <2> QED BY <2>1, <2>2
<1>7. \A k \in (1..n) \ {i} : \E j \in 1..Len(r) : r[j] = store[k]
  <2> TAKE k \in (1..n) \ {i}
  <2>1. CASE k < i
    <3>1. k \in 1..Len(r) /\ k <= Len(a) /\ k \in 1..(i - 1)
      BY <1>1, <1>2, <1>3, <1>4, <1>5, <2>1
    <3>2. r[k] = store[k]
      BY <1>3, <1>5, <3>1
    <3> QED BY <3>1, <3>2
  <2>2. CASE k > i
    <3>1. k - i \in 1..(n - i) /\ (k - 1) - Len(a) = k - i /\ i + (k - i) = k
      BY <1>1, <1>2, <1>3, <2>2
    <3>2. k - 1 \in 1..Len(r) /\ ~ (k - 1 <= Len(a))
      BY <1>1, <1>2, <1>3, <1>4, <1>5, <2>2
    <3>3. r[k - 1] = store[k]
      BY <1>4, <1>5, <3>1, <3>2
    <3> QED BY <3>2, <3>3
  <2> QED BY <1>1, <1>2, <2>1, <2>2
<1>8. Len(r) = n - 1
  BY <1>1, <1>2, <1>3, <1>4, <1>5
<1>9. SkippedPop(store, id) = r
  BY DEF SkippedPop, r, a, b, i, n
<1> QED BY <1>1, <1>6, <1>7, <1>8, <1>9 DEF n, i, Without

\* A key of the chain with the number the chain has come to is the chain key.
LEMMA KeyAtIsKey ==
    ASSUME NEW mk \in ChainKey, NEW ck \in ChainKey, KeyAt(mk, ck, ck.i)
    PROVE  mk = ck
  BY DEF KeyAt, ChainKey

-----------------------------------------------------------------------------
(* ratchet_decrypt of a message that has not been read. *)

\* r reads the same chain as s.
SameChain(r, s) ==
    /\ r.receiving_chain_key.label = s.receiving_chain_key.label
    /\ r.receiving_chain_key.root = s.receiving_chain_key.root

\* The two stores of a session have their types.
LEMMA SessionTypes ==
    ASSUME NEW s, SessionInv(s, {}, {})
    PROVE  /\ s \in RatchetState /\ s.Nr \in Nat /\ s.Ns \in Nat
           /\ s.skipped_message_keys \in Seq(SkippedEntry)
           /\ Len(s.skipped_message_keys) \in Nat
           /\ s.received_ids \in Seq(MessageId) /\ Len(s.received_ids) \in Nat
           /\ Len(s.received_ids) <= MaxReceivedIds
           /\ s.receiving_chain_key # None => s.receiving_chain_key \in ChainKey
           /\ s.dhr # None => s.dhr \in KeyPair /\ s.receiving_chain_key # None
           /\ \A e \in 1..Len(s.skipped_message_keys) :
                 /\ s.skipped_message_keys[e].mk \in ChainKey
                 /\ s.skipped_message_keys[e].id \in MessageId
           /\ \A e, f \in 1..Len(s.skipped_message_keys) :
                 s.skipped_message_keys[e].id = s.skipped_message_keys[f].id => e = f
<1>1. s \in RatchetState /\ Len(s.received_ids) <= MaxReceivedIds /\ ReceivingInv(s, {})
  BY DEF SessionInv
<1>2. /\ s.Nr \in Nat /\ s.Ns \in Nat
      /\ s.skipped_message_keys \in Seq(SkippedEntry) /\ s.received_ids \in Seq(MessageId)
      /\ s.receiving_chain_key # None => s.receiving_chain_key \in ChainKey
      /\ s.dhr # None => s.dhr \in KeyPair
  BY <1>1 DEF RatchetState
<1>3. Len(s.skipped_message_keys) \in Nat /\ Len(s.received_ids) \in Nat
  BY <1>2, LenProperties
<1>4. \A e \in 1..Len(s.skipped_message_keys) : s.skipped_message_keys[e] \in SkippedEntry
  BY <1>2, ElementOfSeq
<1>5. \A x \in SkippedEntry : x.mk \in ChainKey /\ x.id \in MessageId
  BY DEF SkippedEntry
<1>6. \A e, f \in 1..Len(s.skipped_message_keys) :
         s.skipped_message_keys[e].id = s.skipped_message_keys[f].id => e = f
  <2>1. CASE s.receiving_chain_key = None
    <3>1. s.skipped_message_keys = << >> /\ Len(<< >>) = 0
      BY <1>1, <2>1 DEF ReceivingInv
    <3> QED BY <3>1
  <2>2. CASE s.receiving_chain_key # None
    BY <1>1, <2>2 DEF ReceivingInv, StoreInv
  <2> QED BY <2>1, <2>2
<1> QED BY <1>1, <1>2, <1>3, <1>4, <1>5, <1>6 DEF ReceivingInv

\* The elements of a sequence of messages.
LEMMA MessageTypes ==
    ASSUME NEW M \in Seq(WireMessage)
    PROVE  /\ Len(M) \in Nat
           /\ \A j \in 1..Len(M) : /\ M[j] \in WireMessage /\ M[j].dh \in KeyPair /\ M[j].dh # None
                                   /\ M[j].n \in Nat /\ M[j].mk \in ChainKey
                                   /\ MsgId(M[j]) \in MessageId
                                   /\ MsgId(M[j]).dh = M[j].dh /\ MsgId(M[j]).n = M[j].n
<1>1. Len(M) \in Nat /\ \A j \in 1..Len(M) : M[j] \in WireMessage
  BY LenProperties, ElementOfSeq
<1>2. \A m \in WireMessage : /\ m.dh \in KeyPair /\ m.n \in Nat /\ m.mk \in ChainKey
                             /\ MsgId(m) \in MessageId
                             /\ MsgId(m).dh = m.dh /\ MsgId(m).n = m.n
  BY DEF WireMessage, MsgId, MessageId
<1> QED BY <1>1, <1>2, EngineAssumption

\* Messages with the same key and number have the same id.
LEMMA MsgIdEqual ==
    ASSUME NEW a, NEW b
    PROVE  MsgId(a) = MsgId(b) <=> a.dh = b.dh /\ a.n = b.n
  BY DEF MsgId

\* A turn of the skip loop keeps the key of a message that is missing.
LEMMA SkipOneRead ==
    ASSUME NEW s, SessionInv(s, {}, {}), s.receiving_chain_key # None, s.dhr # None,
           NEW M \in Seq(WireMessage), NEW D, HasRead(s, M, D),
           Len(s.skipped_message_keys) < MaxSkippedKeys,
           NEW k \in (1..Len(M)) \ D, M[k].dh = s.dhr, M[k].n = s.Nr
    PROVE  /\ HasRead(SkipOne(s), M, D)
           /\ SameChain(SkipOne(s), s)
<1> DEFINE r     == SkipOne(s)
           ck    == s.receiving_chain_key
           id    == [dh |-> s.dhr, n |-> s.Nr]
           store == s.skipped_message_keys
           x     == [id |-> id, mk |-> ck]
           new   == Append(store, x)
<1>1. /\ s \in RatchetState /\ s.Nr \in Nat /\ store \in Seq(SkippedEntry) /\ Len(store) \in Nat
      /\ ck \in ChainKey /\ s.dhr \in KeyPair
  BY SessionTypes
<1>2. /\ id \in MessageId /\ id = MsgId(M[k]) /\ id.dh = s.dhr /\ id.n = s.Nr
      /\ x \in SkippedEntry /\ x.id = id /\ x.mk = ck
  BY <1>1 DEF MessageId, MsgId, SkippedEntry
<1>3. /\ Len(store) <= s.Nr
      /\ \A e \in 1..Len(store) :
            /\ store[e].id.dh = s.dhr /\ store[e].id.n < s.Nr
            /\ KeyAt(store[e].mk, ck, store[e].id.n)
            /\ \E j \in (1..Len(M)) \ D : store[e].id = MsgId(M[j])
      /\ \A j \in (1..Len(M)) \ D :
            M[j].dh = s.dhr /\ M[j].n < s.Nr => SkippedHas(store, MsgId(M[j]))
  BY DEF HasRead, Keeps
<1>4. ~ SkippedHas(store, id)
  BY <1>1, <1>2, <1>3 DEF SkippedHas
<1>5. SkippedAdd(store, id, ck) = new
  BY <1>1, <1>4, SkippedAddRoom
<1>6. /\ kdf_chain(ck).mk = ck /\ kdf_chain(ck).next \in ChainKey
      /\ kdf_chain(ck).next.root = ck.root /\ kdf_chain(ck).next.label = ck.label
      /\ kdf_chain(ck).next.i = ck.i + 1 /\ kdf_chain(ck).next # None
  BY <1>1, KdfChainType DEF kdf_chain, ChainKey
<1>7. /\ Len(new) = Len(store) + 1
      /\ \A e \in 1..Len(store) : new[e] = store[e]
      /\ new[Len(store) + 1] = x
  BY <1>1, <1>2, AppendProperties
<1> DEFINE next == kdf_chain(ck).next
<1>8. /\ r.receiving_chain_key = next /\ r.skipped_message_keys = new /\ r.Nr = s.Nr + 1
      /\ r.dhr = s.dhr /\ r.received_ids = s.received_ids
  BY <1>1, <1>5, <1>6 DEF SkipOne, RatchetState
<1> HIDE DEF r, new, next, x, id
<1>9. Keeps(r, M, D)
  <2>1. Len(new) <= s.Nr + 1
    BY <1>1, <1>3, <1>7
  <2>2. ASSUME NEW e \in 1..Len(new)
        PROVE  /\ new[e].id.dh = s.dhr /\ new[e].id.n < s.Nr + 1
               /\ KeyAt(new[e].mk, next, new[e].id.n)
               /\ \E j \in (1..Len(M)) \ D : new[e].id = MsgId(M[j])
    <3>1. CASE e \in 1..Len(store)
      <4>1. new[e] = store[e] /\ store[e].id.n < s.Nr /\ store[e].id \in MessageId
        BY <1>3, <1>7, <3>1, SessionTypes
      <4>2. store[e].id.n < s.Nr + 1
        BY <1>1, <4>1 DEF MessageId
      <4> QED BY <1>3, <1>6, <3>1, <4>1, <4>2 DEF KeyAt, next
    <3>2. CASE e = Len(store) + 1
      <4>1. new[e] = x
        BY <1>7, <3>2
      <4>2. ck.i = s.Nr
        BY DEF HasRead, Follows
      <4> QED BY <1>1, <1>2, <1>6, <4>1, <4>2 DEF KeyAt, next
    <3> QED BY <1>1, <1>7, <3>1, <3>2
  <2>3. ASSUME NEW j \in (1..Len(M)) \ D, M[j].dh = s.dhr, M[j].n < s.Nr + 1
        PROVE  SkippedHas(new, MsgId(M[j]))
    <3>1. CASE M[j].n < s.Nr
      <4>1. PICK e \in 1..Len(store) : store[e].id = MsgId(M[j])
        BY <1>3, <2>3, <3>1 DEF SkippedHas
      <4>2. e \in 1..Len(new) /\ new[e] = store[e]
        BY <1>1, <1>7
      <4> QED BY <4>1, <4>2 DEF SkippedHas
    <3>2. CASE M[j].n = s.Nr
      <4>1. MsgId(M[j]) = id
        BY <1>2, <2>3, <3>2, MsgIdEqual
      <4>2. Len(store) + 1 \in 1..Len(new) /\ new[Len(store) + 1].id = id
        BY <1>1, <1>2, <1>7
      <4> QED BY <4>1, <4>2 DEF SkippedHas
    <3>3. M[j].n \in Nat
      BY MessageTypes
    <3> QED BY <1>1, <2>3, <3>1, <3>2, <3>3
  <2> QED BY <1>8, <2>1, <2>2, <2>3 DEF Keeps
<1>10. Follows(r, M, D)
  <2>1. next.i = s.Nr + 1
    BY <1>6 DEF HasRead, Follows, next
  <2>2. ASSUME NEW j \in 1..Len(M), M[j].dh = s.dhr
        PROVE  KeyAt(M[j].mk, next, M[j].n) /\ (j \in D => M[j].n < s.Nr + 1)
    <3>1. KeyAt(M[j].mk, ck, M[j].n) /\ (j \in D => M[j].n < s.Nr)
      BY <2>2 DEF HasRead, Follows
    <3>2. M[j].n \in Nat
      BY MessageTypes
    <3> QED BY <1>1, <1>6, <3>1, <3>2 DEF KeyAt, next
  <2> QED BY <1>8, <2>1, <2>2 DEF Follows
<1>11. Remembers(r.received_ids, M, D)
  BY <1>8 DEF HasRead
<1>12. SameChain(r, s)
  BY <1>6, <1>8 DEF SameChain, next
<1> QED BY <1>9, <1>10, <1>11, <1>12 DEF HasRead, r

\* The skip loop, as far as there are messages to skip.
LEMMA SkipReceivingRead ==
    ASSUME NEW s, SessionInv(s, {}, {}), s.receiving_chain_key # None, s.dhr # None,
           NEW M \in Seq(WireMessage), NEW D, HasRead(s, M, D),
           NEW until \in Nat, s.Nr <= until, until <= MaxSkippedKeys,
           \A n \in Nat : s.Nr <= n /\ n < until =>
              \E k \in 1..Len(M) : M[k].dh = s.dhr /\ M[k].n = n
    PROVE  /\ HasRead(_skip_receiving_until(s, until), M, D)
           /\ SameChain(_skip_receiving_until(s, until), s)
<1>0. s.Nr \in Nat
  BY SessionTypes
<1>1. CASE until <= s.Nr
  BY <1>1 DEF _skip_receiving_until, SameChain
<1>2. CASE ~(until <= s.Nr)
  <2> DEFINE n == until - s.Nr
  <2>1. n \in Nat
    BY <1>0, <1>2
  <2>2. PICK after : IsSkipRun(after, s, n) /\ _skip_receiving_until(s, until) = after[n]
    BY <1>2, <2>1, SkipRunResult
  <2> DEFINE Good(k) == /\ SessionInv(after[k], {}, {}) /\ HasRead(after[k], M, D)
                        /\ after[k].receiving_chain_key # None
                        /\ SameSession(after[k], s) /\ SameChain(after[k], s)
                        /\ after[k].Nr = s.Nr + k
             S == {k \in Nat : k <= n => Good(k)}
  <2>3. after[0] = s /\ \A k \in 1..n : after[k] = SkipOne(after[k - 1])
    <3>1. after[0] = s
      BY <2>1, <2>2 DEF IsSkipRun
    <3>2. \A k \in 1..n : after[k] = SkipOne(after[k - 1])
      BY <2>1, <2>2 DEF IsSkipRun
    <3> QED BY <3>1, <3>2
  <2>4. 0 \in S
    BY <1>0, <2>3 DEF SameSession, SameChain
  <2>5. ASSUME NEW k \in S PROVE k + 1 \in S
    <3>1. SUFFICES ASSUME k + 1 <= n PROVE Good(k + 1)
      OBVIOUS
    <3>2. Good(k)
      BY <2>1, <3>1
    <3>3. after[k + 1] = SkipOne(after[k])
      <4>1. k + 1 \in 1..n /\ (k + 1) - 1 = k
        BY <2>1, <3>1
      <4> QED BY <2>3, <4>1
    <3> DEFINE a == after[k]
    <3>4. /\ SessionInv(a, {}, {}) /\ HasRead(a, M, D) /\ a.receiving_chain_key # None
          /\ SameSession(a, s) /\ SameChain(a, s) /\ a.Nr = s.Nr + k
      BY <3>2
    <3> HIDE DEF a
    <3>5. a.dhr = s.dhr /\ a.dhr # None
      BY <3>4 DEF SameSession
    <3>6. s.Nr + k \in Nat /\ s.Nr <= s.Nr + k /\ s.Nr + k < until
      BY <1>0, <2>1, <3>1
    <3>7. PICK j \in 1..Len(M) : M[j].dh = a.dhr /\ M[j].n = a.Nr
      BY <3>4, <3>5, <3>6
    <3>8. j \notin D
      <4>1. j \in D => M[j].n < a.Nr
        BY <3>4, <3>7 DEF HasRead, Follows
      <4> QED BY <3>4, <3>6, <3>7, <4>1
    <3>9. Len(a.skipped_message_keys) < MaxSkippedKeys
      <4>1. Len(a.skipped_message_keys) <= a.Nr /\ Len(a.skipped_message_keys) \in Nat
        BY <3>4, SessionTypes DEF HasRead, Keeps
      <4> QED BY <3>4, <3>6, <4>1, EngineAssumption
    <3>10. HasRead(SkipOne(a), M, D) /\ SameChain(SkipOne(a), a)
      BY <3>4, <3>5, <3>7, <3>8, <3>9, SkipOneRead
    <3>11. /\ SessionInv(SkipOne(a), {}, {}) /\ SkipOne(a).Nr = a.Nr + 1
           /\ SkipOne(a).receiving_chain_key # None
           /\ SameSession(SkipOne(a), a)
      BY <3>4, <3>5, SkipOneInv
    <3>12. SkipOne(a).Nr = s.Nr + (k + 1)
      BY <1>0, <3>4, <3>11
    <3>13. SameSession(SkipOne(a), s) /\ SameChain(SkipOne(a), s)
      BY <3>4, <3>10, <3>11 DEF SameSession, SameChain
    <3> QED BY <3>3, <3>10, <3>11, <3>12, <3>13 DEF a
  <2>6. S = Nat
    <3> HIDE DEF S
    <3>1. S \subseteq Nat
      BY DEF S
    <3> QED BY <2>4, <2>5, <3>1, InductiveSet
  <2>7. Good(n)
    BY <2>1, <2>6
  <2> QED BY <2>2, <2>7
<1> QED BY <1>1, <1>2

\* The replay window takes up one more message.
LEMMA RemembersOneMore ==
    ASSUME NEW M \in Seq(WireMessage), NEW D, NEW ids \in Seq(MessageId), Remembers(ids, M, D),
           NEW j \in (1..Len(M)) \ D, IdsUnique(M), Len(M) <= MaxReceivedIds
    PROVE  /\ ~ ReceivedIdsContains(ids, MsgId(M[j]))
           /\ Remembers(ReceivedIdsAdd(ids, MsgId(M[j])), M, D \cup {j})
<1> DEFINE id  == MsgId(M[j])
           new == Append(ids, id)
<1>1. /\ D \subseteq 1..Len(M) /\ Len(ids) = Cardinality(D)
      /\ \A e \in 1..Len(ids) : \E k \in D : ids[e] = MsgId(M[k])
      /\ \A k \in D : ReceivedIdsContains(ids, MsgId(M[k]))
      /\ \A e, f \in 1..Len(ids) : ids[e] = ids[f] => e = f
  BY DEF Remembers
<1>2. ~ ReceivedIdsContains(ids, id)
  BY <1>1 DEF ReceivedIdsContains, IdsUnique
<1>3. Len(M) \in Nat /\ Len(ids) \in Nat /\ id \in MessageId
  BY MessageTypes, LenProperties
<1>4. /\ IsFiniteSet(D) /\ Cardinality(D \cup {j}) = Cardinality(D) + 1
      /\ Cardinality(D \cup {j}) <= Len(M)
  <2>1. IsFiniteSet(1..Len(M)) /\ Cardinality(1..Len(M)) = Len(M)
    <3>1. 1 \in Int /\ Len(M) \in Int
      BY <1>3
    <3>2. IsFiniteSet(1..Len(M)) /\ Cardinality(1..Len(M)) = IF 1 > Len(M) THEN 0 ELSE Len(M) - 1 + 1
      BY <3>1, FS_Interval, Zenon
    <3> QED BY <1>3, <3>2
  <2>2. IsFiniteSet(D) /\ D \cup {j} \subseteq 1..Len(M)
    BY <1>1, <2>1, FS_Subset
  <2>3. Cardinality(D \cup {j}) = Cardinality(D) + 1
    BY <2>2, FS_AddElement
  <2>4. Cardinality(D \cup {j}) <= Cardinality(1..Len(M))
    BY <2>1, <2>2, FS_Subset
  <2> QED BY <2>1, <2>2, <2>3, <2>4
<1>5. Len(ids) < MaxReceivedIds
  BY <1>1, <1>3, <1>4, EngineAssumption
<1>6. ReceivedIdsAdd(ids, id) = new
  BY <1>2, <1>5, ReceivedIdsAddRoom
<1>7. /\ Len(new) = Len(ids) + 1
      /\ \A e \in 1..Len(ids) : new[e] = ids[e]
      /\ new[Len(ids) + 1] = id
  BY <1>3, AppendProperties
<1> HIDE DEF new, id
<1>8. \A e \in 1..Len(new) : e \in 1..Len(ids) \/ e = Len(ids) + 1
  BY <1>3, <1>7
<1>9. \A e \in 1..Len(new) : \E k \in D \cup {j} : new[e] = MsgId(M[k])
  BY <1>1, <1>7, <1>8 DEF id
<1>10. \A k \in D \cup {j} : ReceivedIdsContains(new, MsgId(M[k]))
  <2>1. ASSUME NEW k \in D PROVE ReceivedIdsContains(new, MsgId(M[k]))
    <3>1. PICK e \in 1..Len(ids) : ids[e] = MsgId(M[k])
      BY <1>1 DEF ReceivedIdsContains
    <3>2. e \in 1..Len(new) /\ new[e] = ids[e]
      BY <1>3, <1>7
    <3> QED BY <3>1, <3>2 DEF ReceivedIdsContains
  <2>2. ReceivedIdsContains(new, MsgId(M[j]))
    <3>1. Len(ids) + 1 \in 1..Len(new)
      BY <1>3, <1>7
    <3> QED BY <1>7, <3>1 DEF ReceivedIdsContains, id
  <2> QED BY <2>1, <2>2
<1>11. \A e, f \in 1..Len(new) : new[e] = new[f] => e = f
  <2>1. \A e \in 1..Len(ids) : ids[e] # id
    BY <1>2 DEF ReceivedIdsContains
  <2> QED BY <1>1, <1>7, <1>8, <2>1
<1>12. D \cup {j} \subseteq 1..Len(M) /\ Len(new) = Cardinality(D \cup {j})
  BY <1>1, <1>4, <1>7
<1> QED BY <1>2, <1>6, <1>9, <1>10, <1>11, <1>12 DEF Remembers, id

\* The next message of the chain opens.
LEMMA OpenNextRead ==
    ASSUME NEW s, SessionInv(s, {}, {}), s.receiving_chain_key # None,
           NEW M \in Seq(WireMessage), NEW D, HasRead(s, M, D),
           NEW j \in (1..Len(M)) \ D, M[j].dh = s.dhr, M[j].n = s.Nr,
           IdsUnique(M), Len(M) <= MaxReceivedIds
    PROVE  LET out == OpenNext(s, M[j], MsgId(M[j]))
           IN  /\ out.result = "ok"
               /\ HasRead(out.state, M, D \cup {j})
               /\ SameSession(out.state, s) /\ SameChain(out.state, s)
               /\ out.state.Nr = s.Nr + 1 /\ out.state.receiving_chain_key # None
<1> DEFINE m   == M[j]
           id  == MsgId(M[j])
           ck  == s.receiving_chain_key
           out == OpenNext(s, m, id)
           r   == out.state
           next == kdf_chain(ck).next
           ids  == ReceivedIdsAdd(s.received_ids, id)
           E    == D \cup {j}
<1>1. /\ s \in RatchetState /\ s.Nr \in Nat /\ ck \in ChainKey
      /\ s.received_ids \in Seq(MessageId)
      /\ Len(s.skipped_message_keys) \in Nat
  BY SessionTypes
<1>2. m.mk \in ChainKey /\ Len(M) \in Nat /\ \A k \in 1..Len(M) : M[k].n \in Nat
  BY MessageTypes
<1>3. /\ ck.i = s.Nr
      /\ \A k \in 1..Len(M) : M[k].dh = s.dhr =>
            KeyAt(M[k].mk, ck, M[k].n) /\ (k \in D => M[k].n < s.Nr)
      /\ Remembers(s.received_ids, M, D)
  BY DEF HasRead, Follows
<1>4. m.mk = ck
  BY <1>1, <1>2, <1>3, KeyAtIsKey
<1>5. /\ kdf_chain(ck).mk = ck /\ next.root = ck.root /\ next.label = ck.label
      /\ next.i = ck.i + 1 /\ next # None
  BY <1>1, KdfChainType DEF kdf_chain, ChainKey
<1>6. Remembers(ids, M, E)
  BY <1>1, <1>3, RemembersOneMore
<1> HIDE DEF next, ids, id
<1>7. /\ out.result = "ok"
      /\ r = [s EXCEPT !.receiving_chain_key = next, !.Nr = s.Nr + 1, !.received_ids = ids]
  <2>1. kdf_chain(s.receiving_chain_key).next = next
        /\ kdf_chain(s.receiving_chain_key).mk = s.receiving_chain_key
    BY <1>5 DEF next
  <2> QED BY <1>1, <1>4, <2>1 DEF OpenNext, Outcome, Opens, RatchetState, ids
<1>8. /\ r.receiving_chain_key = next /\ r.Nr = s.Nr + 1 /\ r.received_ids = ids
      /\ r.skipped_message_keys = s.skipped_message_keys /\ r.dhr = s.dhr
      /\ SameSession(r, s)
  BY <1>1, <1>7 DEF RatchetState, SameSession
<1> HIDE DEF r, out
<1> DEFINE store == s.skipped_message_keys
<1>9. /\ Len(store) <= s.Nr
      /\ \A e \in 1..Len(store) :
            /\ store[e].id.dh = s.dhr /\ store[e].id.n < s.Nr
            /\ KeyAt(store[e].mk, ck, store[e].id.n)
            /\ \E k \in (1..Len(M)) \ D : store[e].id = MsgId(M[k])
      /\ \A k \in (1..Len(M)) \ D :
            M[k].dh = s.dhr /\ M[k].n < s.Nr => SkippedHas(store, MsgId(M[k]))
  BY DEF HasRead, Keeps
<1>10. \A e \in 1..Len(store) : store[e].id \in MessageId
  BY SessionTypes
<1> HIDE DEF store
<1>11. Keeps(r, M, E)
  <2>1. Len(store) <= s.Nr + 1
    BY <1>1, <1>9 DEF store
  <2>2. ASSUME NEW e \in 1..Len(store)
        PROVE  /\ store[e].id.dh = s.dhr /\ store[e].id.n < s.Nr + 1
               /\ KeyAt(store[e].mk, next, store[e].id.n)
               /\ \E k \in (1..Len(M)) \ E : store[e].id = MsgId(M[k])
    <3>1. PICK k \in (1..Len(M)) \ D : store[e].id = MsgId(M[k])
      BY <1>9
    <3>2. k # j
      <4>1. M[k].n < s.Nr
        BY <1>9, <3>1, MessageTypes
      <4> QED BY <1>1, <4>1
    <3>3. store[e].id.n \in Nat /\ store[e].id.n < s.Nr
      BY <1>9, <1>10 DEF MessageId
    <3>4. store[e].id.n < s.Nr + 1
      BY <1>1, <3>3
    <3> QED BY <1>5, <1>9, <3>1, <3>2, <3>4 DEF KeyAt
  <2>3. ASSUME NEW k \in (1..Len(M)) \ E, M[k].dh = s.dhr, M[k].n < s.Nr + 1
        PROVE  SkippedHas(store, MsgId(M[k]))
    <3>1. M[k].n # s.Nr
      BY <2>3, MsgIdEqual DEF IdsUnique
    <3>2. M[k].n < s.Nr
      BY <1>1, <1>2, <2>3, <3>1
    <3> QED BY <1>9, <2>3, <3>2
  <2> HIDE DEF E
  <2> QED BY <1>8, <2>1, <2>2, <2>3 DEF Keeps, store
<1>12. Follows(r, M, E)
  <2>1. ASSUME NEW k \in 1..Len(M), M[k].dh = s.dhr
        PROVE  KeyAt(M[k].mk, next, M[k].n) /\ (k \in E => M[k].n < s.Nr + 1)
    <3>1. KeyAt(M[k].mk, ck, M[k].n) /\ (k \in D => M[k].n < s.Nr)
      BY <1>3, <2>1
    <3>2. k \in E => M[k].n < s.Nr + 1
      BY <1>1, <1>2, <3>1
    <3> QED BY <1>5, <3>1, <3>2 DEF KeyAt
  <2>2. next.i = s.Nr + 1
    BY <1>3, <1>5
  <2> HIDE DEF E
  <2> QED BY <1>8, <2>1, <2>2 DEF Follows
<1>13. SameChain(r, s)
  BY <1>5, <1>8 DEF SameChain
<1>14. HasRead(r, M, E)
  BY <1>6, <1>8, <1>11, <1>12 DEF HasRead
<1> QED BY <1>5, <1>7, <1>8, <1>13, <1>14 DEF out, r, id

\* What out = ratchet_decrypt of m has done: the message is open and read, in the
\* session r otherwise, which was the one before or the one ratcheted to.
Opened(out, r, m, M, E) ==
    /\ out.result = "ok" /\ HasRead(out.state, M, E)
    /\ SameSession(out.state, r) /\ SameChain(out.state, r)
    /\ out.state.receiving_chain_key # None
    /\ out.state.Nr = r.Nr \/ out.state.Nr = m.n + 1

\* A message that was skipped over opens with the key that was kept.
LEMMA OpenSkippedRead ==
    ASSUME NEW s, SessionInv(s, {}, {}), s.receiving_chain_key # None,
           NEW M \in Seq(WireMessage), NEW D, HasRead(s, M, D),
           NEW j \in (1..Len(M)) \ D, M[j].dh = s.dhr, M[j].n < s.Nr,
           IdsUnique(M), Len(M) <= MaxReceivedIds
    PROVE  /\ SkippedHas(s.skipped_message_keys, MsgId(M[j]))
           /\ Opened(OpenSkipped(s, M[j], MsgId(M[j])), s, M[j], M, D \cup {j})
<1> DEFINE m   == M[j]
           id  == MsgId(M[j])
           ck  == s.receiving_chain_key
           out == OpenSkipped(s, m, id)
           r   == out.state
           ids  == ReceivedIdsAdd(s.received_ids, id)
           E    == D \cup {j}
           store == s.skipped_message_keys
           i     == SkippedIndex(store, id)
           rest  == SkippedPop(store, id)
<1>1. /\ s \in RatchetState /\ s.Nr \in Nat /\ ck \in ChainKey
      /\ s.received_ids \in Seq(MessageId)
      /\ store \in Seq(SkippedEntry) /\ Len(store) \in Nat
      /\ \A e \in 1..Len(store) : store[e].mk \in ChainKey
      /\ \A e, f \in 1..Len(store) : store[e].id = store[f].id => e = f
  BY SessionTypes
<1>2. m.mk \in ChainKey /\ Len(M) \in Nat /\ id.n = m.n
  BY MessageTypes
<1>3. /\ ck.i = s.Nr
      /\ \A k \in 1..Len(M) : M[k].dh = s.dhr =>
            KeyAt(M[k].mk, ck, M[k].n) /\ (k \in D => M[k].n < s.Nr)
      /\ Remembers(s.received_ids, M, D)
  BY DEF HasRead, Follows
<1>4. /\ Len(store) <= s.Nr
      /\ \A e \in 1..Len(store) :
            /\ store[e].id.dh = s.dhr /\ store[e].id.n < s.Nr
            /\ KeyAt(store[e].mk, ck, store[e].id.n)
            /\ \E k \in (1..Len(M)) \ D : store[e].id = MsgId(M[k])
      /\ \A k \in (1..Len(M)) \ D :
            M[k].dh = s.dhr /\ M[k].n < s.Nr => SkippedHas(store, MsgId(M[k]))
  BY DEF HasRead, Keeps
<1>5. SkippedHas(store, id)
  BY <1>4
<1>6. i \in 1..Len(store) /\ store[i].id = id /\ Without(rest, store, i)
  BY <1>1, <1>5, SkippedPopRest
<1>7. Remembers(ids, M, E)
  BY <1>1, <1>3, RemembersOneMore
<1> HIDE DEF i, rest, ids, id
<1>8. store[i].mk = m.mk
  <2>1. KeyAt(store[i].mk, ck, m.n) /\ KeyAt(m.mk, ck, m.n)
    BY <1>2, <1>3, <1>4, <1>6
  <2>2. store[i].mk \in ChainKey
    BY <1>1, <1>6
  <2> QED BY <1>2, <2>1, <2>2 DEF KeyAt, ChainKey
<1>9. /\ out.result = "ok"
      /\ r = [s EXCEPT !.skipped_message_keys = rest, !.received_ids = ids]
  BY <1>1, <1>8 DEF OpenSkipped, Outcome, Opens, RatchetState, ids, rest, i
<1>10. /\ r.receiving_chain_key = ck /\ r.Nr = s.Nr /\ r.received_ids = ids
       /\ r.skipped_message_keys = rest /\ r.dhr = s.dhr
       /\ SameSession(r, s)
  BY <1>1, <1>9 DEF RatchetState, SameSession
<1> HIDE DEF r, out
<1>11. Keeps(r, M, E)
  <2>0. /\ Len(rest) = Len(store) - 1
        /\ \A e \in 1..Len(rest) : \E f \in (1..Len(store)) \ {i} : rest[e] = store[f]
        /\ \A f \in (1..Len(store)) \ {i} : \E e \in 1..Len(rest) : rest[e] = store[f]
    BY <1>6 DEF Without
  <2> HIDE DEF store
  <2>1. Len(rest) <= s.Nr
    BY <1>1, <1>4, <2>0
  <2>2. ASSUME NEW e \in 1..Len(rest)
        PROVE  /\ rest[e].id.dh = s.dhr /\ rest[e].id.n < s.Nr
               /\ KeyAt(rest[e].mk, ck, rest[e].id.n)
               /\ \E k \in (1..Len(M)) \ E : rest[e].id = MsgId(M[k])
    <3>1. PICK f \in (1..Len(store)) \ {i} : rest[e] = store[f]
      BY <2>0
    <3>2. PICK k \in (1..Len(M)) \ D : store[f].id = MsgId(M[k])
      BY <1>4
    <3>3. k # j
      BY <1>1, <1>6, <3>1, <3>2 DEF id
    <3> QED BY <1>4, <3>1, <3>2, <3>3
  <2>3. ASSUME NEW k \in (1..Len(M)) \ E, M[k].dh = s.dhr, M[k].n < s.Nr
        PROVE  SkippedHas(rest, MsgId(M[k]))
    <3>1. PICK f \in 1..Len(store) : store[f].id = MsgId(M[k])
      BY <1>4, <2>3 DEF SkippedHas
    <3>2. f # i
      BY <1>6, <3>1 DEF IdsUnique, id
    <3>3. PICK e \in 1..Len(rest) : rest[e] = store[f]
      BY <2>0, <3>2
    <3> QED BY <3>1, <3>3 DEF SkippedHas
  <2> HIDE DEF E
  <2> QED BY <1>10, <2>1, <2>2, <2>3 DEF Keeps
<1>12. Follows(r, M, E)
  <2>1. ASSUME NEW k \in 1..Len(M), M[k].dh = s.dhr
        PROVE  KeyAt(M[k].mk, ck, M[k].n) /\ (k \in E => M[k].n < s.Nr)
    BY <1>3, <2>1
  <2> HIDE DEF E
  <2> QED BY <1>3, <1>10, <2>1 DEF Follows
<1>13. SameChain(r, s)
  BY <1>10 DEF SameChain
<1>14. HasRead(r, M, E)
  BY <1>7, <1>10, <1>11, <1>12 DEF HasRead
<1> QED BY <1>5, <1>9, <1>10, <1>13, <1>14 DEF out, r, id, Opened

\* A message further on in the chain opens after the skip.
LEMMA OpenAheadRead ==
    ASSUME NEW s, SessionInv(s, {}, {}), s.receiving_chain_key # None, s.dhr # None,
           NEW M \in Seq(WireMessage), NEW D, HasRead(s, M, D),
           NEW j \in (1..Len(M)) \ D, M[j].dh = s.dhr, s.Nr <= M[j].n,
           IdsUnique(M), Gapless(M), Fits(M)
    PROVE  /\ ~ SkipTooFar(s, M[j].n)
           /\ Opened(OpenNext(_skip_receiving_until(s, M[j].n), M[j], MsgId(M[j])),
                     s, M[j], M, D \cup {j})
<1> DEFINE n == M[j].n
           k == _skip_receiving_until(s, n)
<1>1. n \in Nat /\ s.Nr \in Nat /\ Len(M) \in Nat /\ j \in 1..Len(M)
  BY MessageTypes, SessionTypes
<1>2. n < j /\ \A i \in Nat : i < n => \E l \in 1..Len(M) : M[l].dh = M[j].dh /\ M[l].n = i
  BY <1>1 DEF Gapless
<1>3. n <= MAX_SKIP_DISTANCE /\ n <= MaxSkippedKeys
  BY <1>1, <1>2, EngineAssumption DEF Fits
<1>4. ~ SkipTooFar(s, n)
  BY <1>1, <1>3, EngineAssumption DEF SkipTooFar
<1>5. HasRead(k, M, D) /\ SameChain(k, s)
  <2>1. \A i \in Nat : s.Nr <= i /\ i < n => \E l \in 1..Len(M) : M[l].dh = s.dhr /\ M[l].n = i
    BY <1>2
  <2> HIDE DEF n
  <2>2. s.Nr <= n
    BY DEF n
  <2> QED BY <1>1, <1>3, <2>1, <2>2, SkipReceivingRead
<1>6. /\ SessionInv(k, {}, {}) /\ k.Nr = n /\ k.receiving_chain_key # None /\ SameSession(k, s)
  BY <1>1, SkipReceivingInv
<1> HIDE DEF k
<1>7. M[j].dh = k.dhr /\ M[j].n = k.Nr /\ Len(M) <= MaxReceivedIds
  BY <1>6 DEF SameSession, Fits
<1> DEFINE out == OpenNext(k, M[j], MsgId(M[j]))
<1>8. /\ out.result = "ok" /\ HasRead(out.state, M, D \cup {j})
      /\ SameSession(out.state, k) /\ SameChain(out.state, k)
      /\ out.state.Nr = k.Nr + 1 /\ out.state.receiving_chain_key # None
  BY <1>5, <1>6, <1>7, OpenNextRead
<1> HIDE DEF out
<1>9. SameSession(out.state, s) /\ SameChain(out.state, s) /\ out.state.Nr = M[j].n + 1
  BY <1>5, <1>6, <1>8 DEF SameSession, SameChain
<1> QED BY <1>4, <1>8, <1>9 DEF Opened, out, k

\* A message that comes again is refused and changes nothing.
LEMMA DecryptAgain ==
    ASSUME NEW s, NEW M, NEW D, Remembers(s.received_ids, M, D), NEW j \in D, NEW fresh
    PROVE  ratchet_decrypt(s, M[j], fresh) = Outcome(s, "DuplicateMessageError")
<1>1. ReceivedIdsContains(s.received_ids, MsgId(M[j]))
  BY DEF Remembers
<1> QED BY <1>1 DEF ratchet_decrypt, MsgId

\* A message of the chain that is followed.
LEMMA DecryptSameChain ==
    ASSUME NEW s, SessionInv(s, {}, {}), NEW M \in Seq(WireMessage), NEW D, HasRead(s, M, D),
           NEW j \in (1..Len(M)) \ D, M[j].dh = s.dhr, NEW fresh,
           IdsUnique(M), Gapless(M), Fits(M)
    PROVE  Opened(ratchet_decrypt(s, M[j], fresh), s, M[j], M, D \cup {j})
<1> DEFINE m   == M[j]
           id  == MsgId(M[j])
           out == ratchet_decrypt(s, m, fresh)
<1>1. m.dh # None /\ m.n \in Nat /\ s.Nr \in Nat /\ s.received_ids \in Seq(MessageId)
      /\ s.dhr # None /\ s.receiving_chain_key # None
  BY MessageTypes, SessionTypes
<1>2. ~ ReceivedIdsContains(s.received_ids, id) /\ Len(M) <= MaxReceivedIds
  BY <1>1, RemembersOneMore DEF HasRead, Fits
<1>3. CASE m.n < s.Nr
  <2>1. /\ SkippedHas(s.skipped_message_keys, id)
        /\ Opened(OpenSkipped(s, m, id), s, m, M, D \cup {j})
    BY <1>1, <1>2, <1>3, OpenSkippedRead
  <2>2. out = OpenSkipped(s, m, id)
    BY <1>2, <2>1 DEF ratchet_decrypt, MsgId
  <2> QED BY <2>1, <2>2
<1>4. CASE ~ (m.n < s.Nr)
  <2>1. s.Nr <= m.n
    BY <1>1, <1>4
  <2>2. ~ SkippedHas(s.skipped_message_keys, id)
    <3>1. \A e \in 1..Len(s.skipped_message_keys) : s.skipped_message_keys[e].id.n < s.Nr
      BY DEF HasRead, Keeps
    <3>2. id.n = m.n
      BY MessageTypes
    <3> QED BY <1>4, <3>1, <3>2 DEF SkippedHas
  <2>3. FollowRatchet(s, m.dh, fresh) = s
    <3>1. Bootstrap(s, m.dh, fresh) = s
      BY <1>1 DEF Bootstrap
    <3> QED BY <3>1 DEF FollowRatchet
  <2>4. /\ ~ SkipTooFar(s, m.n)
        /\ Opened(OpenNext(_skip_receiving_until(s, m.n), m, id), s, m, M, D \cup {j})
    BY <1>1, <2>1, OpenAheadRead
  <2>5. out = OpenNext(_skip_receiving_until(s, m.n), m, id)
    <3>1. [dh |-> m.dh, n |-> m.n] = id
      BY DEF MsgId
    <3> HIDE DEF id, m
    <3>2. out = IF s.dhr # None /\ m.dh = s.dhr /\ m.n < s.Nr
                THEN Outcome(s, "DuplicateMessageError")
                ELSE IF m.n < s.Nr THEN Outcome(s, "DuplicateMessageError")
                ELSE IF SkipTooFar(s, m.n) THEN Outcome(s, "SkipDistanceExceededError")
                ELSE OpenNext(_skip_receiving_until(s, m.n), m, id)
      BY <1>2, <2>2, <2>3, <3>1 DEF ratchet_decrypt
    <3> QED BY <1>4, <2>4, <3>2
  <2> QED BY <2>4, <2>5
<1> QED BY <1>3, <1>4

\* A message under a key that is not followed yet: FollowRatchet comes to r.
LEMMA DecryptNewKey ==
    ASSUME NEW s, SessionInv(s, {}, {}), NEW M \in Seq(WireMessage), NEW D, HasRead(s, M, D),
           NEW j \in (1..Len(M)) \ D, M[j].dh # s.dhr, NEW fresh \in KeyPair,
           IdsUnique(M), Gapless(M), Fits(M),
           NEW r, r = FollowRatchet(s, M[j].dh, fresh), r.Nr = 0, HasRead(r, M, D)
    PROVE  /\ Opened(ratchet_decrypt(s, M[j], fresh), r, M[j], M, D \cup {j})
           /\ ratchet_decrypt(s, M[j], fresh).state.Nr <= M[j].n + 1
<1> DEFINE m   == M[j]
           id  == MsgId(M[j])
           out == ratchet_decrypt(s, m, fresh)
<1>1. m.dh \in KeyPair /\ m.dh # None /\ m.n \in Nat /\ s.received_ids \in Seq(MessageId)
  BY MessageTypes, SessionTypes
<1>2. ~ ReceivedIdsContains(s.received_ids, id)
  BY <1>1, RemembersOneMore DEF HasRead, Fits
<1>3. ~ SkippedHas(s.skipped_message_keys, id)
  <2>1. \A e \in 1..Len(s.skipped_message_keys) : s.skipped_message_keys[e].id.dh = s.dhr
    BY DEF HasRead, Keeps
  <2>2. id.dh = m.dh
    BY MessageTypes
  <2> QED BY <2>1, <2>2 DEF SkippedHas
<1>4. SessionInv(r, {}, {}) /\ r.dhr = m.dh /\ r.receiving_chain_key # None
  BY <1>1, FollowRatchetInv
<1>5. r.Nr <= m.n /\ ~ (m.n < r.Nr)
  BY <1>1
<1>6. /\ ~ SkipTooFar(r, m.n)
      /\ Opened(OpenNext(_skip_receiving_until(r, m.n), m, id), r, m, M, D \cup {j})
  BY <1>1, <1>4, <1>5, OpenAheadRead
<1>7. out = OpenNext(_skip_receiving_until(r, m.n), m, id)
  <2>1. [dh |-> m.dh, n |-> m.n] = id
    BY DEF MsgId
  <2> HIDE DEF id, m
  <2>2. m.dh # s.dhr
    BY DEF m
  <2>3. out = IF s.dhr # None /\ m.dh = s.dhr /\ m.n < s.Nr
              THEN Outcome(s, "DuplicateMessageError")
              ELSE IF m.n < r.Nr THEN Outcome(r, "DuplicateMessageError")
              ELSE IF SkipTooFar(r, m.n) THEN Outcome(r, "SkipDistanceExceededError")
              ELSE OpenNext(_skip_receiving_until(r, m.n), m, id)
    BY <1>2, <1>3, <2>1 DEF ratchet_decrypt, m
  <2> QED BY <1>5, <1>6, <2>2, <2>3
<1>8. out.state.Nr <= m.n + 1
  <2>1. out.state.Nr = r.Nr \/ out.state.Nr = m.n + 1
    BY <1>6, <1>7 DEF Opened
  <2> HIDE DEF out
  <2> QED BY <1>1, <2>1
<1> QED BY <1>6, <1>7, <1>8

\* The first message for a client that was waiting for it.
LEMMA DecryptFirst ==
    ASSUME NEW s, SessionInv(s, {}, {}), NEW M \in Seq(WireMessage), NEW D, HasRead(s, M, D),
           NEW j \in (1..Len(M)) \ D, NEW fresh \in KeyPair,
           IdsUnique(M), Gapless(M), Fits(M),
           s.dhr = None, s.sending_chain_key = None, s.receiving_chain_key # None, s.Nr = 0,
           \A k \in 1..Len(M) : M[k].dh = M[j].dh =>
              k \notin D /\ KeyAt(M[k].mk, s.receiving_chain_key, M[k].n)
    PROVE  LET r   == [s EXCEPT !.dhr = M[j].dh]
               out == ratchet_decrypt(s, M[j], fresh)
           IN  Opened(out, r, M[j], M, D \cup {j}) /\ out.state.Nr <= M[j].n + 1
<1> DEFINE r == [s EXCEPT !.dhr = M[j].dh]
<1>1. M[j].dh # None /\ s \in RatchetState /\ Len(s.skipped_message_keys) \in Nat
      /\ Len(M) \in Nat
      /\ \A k \in 1..Len(M) : M[k].n \in Nat
  BY MessageTypes, SessionTypes
<1>2. r = FollowRatchet(s, M[j].dh, fresh)
  <2>1. Bootstrap(s, M[j].dh, fresh) = r
    BY DEF Bootstrap
  <2>2. r.dhr = M[j].dh
    BY <1>1 DEF RatchetState
  <2> QED BY <2>1, <2>2 DEF FollowRatchet
<1>3. /\ r.Nr = 0 /\ r.dhr = M[j].dh /\ r.received_ids = s.received_ids
      /\ r.skipped_message_keys = s.skipped_message_keys
      /\ r.receiving_chain_key = s.receiving_chain_key
  BY <1>1 DEF RatchetState
<1> HIDE DEF r
<1>4. /\ Remembers(s.received_ids, M, D) /\ s.receiving_chain_key.i = 0
      /\ Len(s.skipped_message_keys) = 0
  BY <1>1 DEF HasRead, Keeps, Follows
<1>5. Keeps(r, M, D)
  BY <1>1, <1>3, <1>4 DEF Keeps
<1>6. Follows(r, M, D)
  BY <1>3, <1>4 DEF Follows
<1>7. HasRead(r, M, D)
  BY <1>3, <1>4, <1>5, <1>6 DEF HasRead
<1> QED BY <1>1, <1>2, <1>3, <1>7, DecryptNewKey DEF r

\* A message that answers the sending chain with a new key, when nothing of the
\* chain followed so far is missing.
LEMMA DecryptAnswer ==
    ASSUME NEW s, SessionInv(s, {}, {}), NEW M \in Seq(WireMessage), NEW D, HasRead(s, M, D),
           NEW j \in (1..Len(M)) \ D, M[j].dh # s.dhr, NEW fresh \in KeyPair,
           IdsUnique(M), Gapless(M), Fits(M),
           s.sending_chain_key # None,
           \A k \in (1..Len(M)) \ D : M[k].dh # s.dhr,
           NEW ck, ck.label = "root", ck.root = Append(s.root_key, {s.dhs, M[j].dh}),
           \A k \in 1..Len(M) : M[k].dh = M[j].dh =>
              k \notin D /\ KeyAt(M[k].mk, ck, M[k].n)
    PROVE  LET r   == _dh_ratchet_receive(s, M[j].dh, fresh)
               out == ratchet_decrypt(s, M[j], fresh)
           IN  Opened(out, r, M[j], M, D \cup {j}) /\ out.state.Nr <= M[j].n + 1
<1> DEFINE dh  == M[j].dh
           r   == _dh_ratchet_receive(s, dh, fresh)
           kdf == kdf_root(s.root_key, dh_secret(s.dhs, dh))
<1>1. /\ dh \in KeyPair /\ dh # None /\ s \in RatchetState /\ s.Nr \in Nat
      /\ s.dhr # None => s.receiving_chain_key # None
      /\ Len(M) \in Nat /\ Len(s.skipped_message_keys) \in Nat
      /\ \A k \in 1..Len(M) : M[k].n \in Nat
  BY MessageTypes, SessionTypes
<1>2. _skip_receiving_until(s, s.Nr) = s
  BY <1>1, SkipToNrIsNoOp
<1>3. /\ kdf.chain.label = "root" /\ kdf.chain.root = Append(s.root_key, {s.dhs, dh})
      /\ kdf.chain.i = 0
  BY DEF kdf_root, dh_secret
<1> HIDE DEF kdf
<1>4. /\ r.Nr = 0 /\ r.dhr = dh /\ r.received_ids = s.received_ids
      /\ r.skipped_message_keys = s.skipped_message_keys
      /\ r.receiving_chain_key = kdf.chain
  BY <1>1 DEF _dh_ratchet_receive, RatchetState, kdf
<1> HIDE DEF r
<1>5. r = FollowRatchet(s, dh, fresh)
  <2>1. CASE s.dhr = None
    <3>1. Bootstrap(s, dh, fresh) = r
      BY <1>2, <2>1 DEF Bootstrap, r
    <3> QED BY <1>4, <3>1 DEF FollowRatchet
  <2>2. CASE s.dhr # None
    <3>1. Bootstrap(s, dh, fresh) = s
      BY <1>1, <2>2 DEF Bootstrap
    <3> QED BY <1>2, <2>2, <3>1 DEF FollowRatchet, r
  <2> QED BY <2>1, <2>2
<1>6. Remembers(s.received_ids, M, D) /\ Len(s.skipped_message_keys) = 0
  <2>1. \A e \in 1..Len(s.skipped_message_keys) :
           /\ s.skipped_message_keys[e].id.dh = s.dhr
           /\ \E k \in (1..Len(M)) \ D : s.skipped_message_keys[e].id = MsgId(M[k])
    BY DEF HasRead, Keeps
  <2>2. \A k \in 1..Len(M) : MsgId(M[k]).dh = M[k].dh
    BY MessageTypes
  <2>3. ~ \E e \in 1..Len(s.skipped_message_keys) : TRUE
    BY <2>1, <2>2
  <2>4. Len(s.skipped_message_keys) = 0
    <3>1. CASE Len(s.skipped_message_keys) # 0
      <4>1. 1 \in 1..Len(s.skipped_message_keys)
        BY <1>1, <3>1
      <4> QED BY <2>3, <4>1
    <3> QED BY <3>1
  <2> QED BY <2>4 DEF HasRead
<1>7. Keeps(r, M, D)
  BY <1>1, <1>4, <1>6 DEF Keeps
<1>8. Follows(r, M, D)
  <2>1. \A k \in 1..Len(M) : M[k].dh = dh => k \notin D /\ KeyAt(M[k].mk, kdf.chain, M[k].n)
    BY <1>3 DEF KeyAt
  <2> QED BY <1>3, <1>4, <2>1 DEF Follows
<1>9. HasRead(r, M, D)
  BY <1>4, <1>6, <1>7, <1>8 DEF HasRead
<1> QED BY <1>4, <1>5, <1>9, DecryptNewKey DEF r

-----------------------------------------------------------------------------
(* ratchet_encrypt, and what it means to the peer. *)

\* m is the next message of s, and r the session after it.
SealsNext(r, m, s) ==
    /\ m \in WireMessage /\ m.dh = s.dhs /\ m.n = s.Ns /\ m.mk.i = s.Ns
    /\ r.dhs = s.dhs /\ r.dhr = s.dhr /\ r.Nr = s.Nr /\ r.Ns = s.Ns + 1
    /\ r.receiving_chain_key = s.receiving_chain_key
    /\ r.skipped_message_keys = s.skipped_message_keys /\ r.received_ids = s.received_ids
    /\ r.sending_chain_key # None /\ r.sending_chain_key.i = s.Ns + 1
    /\ KeyAt(m.mk, r.sending_chain_key, s.Ns) /\ r.sending_chain_key.root = r.root_key
    /\ s.sending_chain_key # None =>
          /\ r.root_key = s.root_key /\ r.sending_chain_key.label = s.sending_chain_key.label
          /\ r.sending_chain_key.root = s.sending_chain_key.root
    /\ s.sending_chain_key = None =>
          /\ s.dhr # None /\ s.Ns = 0 /\ r.sending_chain_key.label = "root"
          /\ r.root_key = Append(s.root_key, {s.dhs, s.dhr})

\* The session and the message of ratchet_encrypt.
LEMMA EncryptSeals ==
    ASSUME NEW s, SessionInv(s, {}, {}), CanEncrypt(s), NEW M, Numbered(s, M)
    PROVE  SealsNext(EncryptedState(s), EncryptedMessage(s), s)
<1> DEFINE y  == ReadyToSend(s)
           ck == y.sending_chain_key
           m  == EncryptedMessage(s)
           r  == EncryptedState(s)
<1>1. s \in RatchetState /\ s.Ns \in Nat
  BY SessionTypes
<1>2. /\ m \in WireMessage /\ m.dh = s.dhs /\ m.n = s.Ns
      /\ r.dhs = s.dhs /\ r.dhr = s.dhr /\ r.Nr = s.Nr /\ r.Ns = s.Ns + 1
      /\ r.sending_chain_key # None /\ SessionInv(r, {}, {m.mk})
  BY RatchetEncryptInv
<1>3. /\ s.sending_chain_key # None => m.mk = s.sending_chain_key /\ r.root_key = s.root_key
      /\ s.sending_chain_key = None =>
            /\ s.dhr # None /\ m.mk.label = "root"
            /\ m.mk.root = Append(s.root_key, {s.dhs, s.dhr})
            /\ r.root_key = m.mk.root
      /\ r.receiving_chain_key = s.receiving_chain_key
      /\ r.skipped_message_keys = s.skipped_message_keys
      /\ r.sending_chain_key.label = m.mk.label
      /\ r.sending_chain_key.root = m.mk.root
  BY RatchetEncryptKeys
<1>4. /\ s.sending_chain_key = None => s.Ns = 0
      /\ s.sending_chain_key # None =>
            s.sending_chain_key.i = s.Ns /\ s.sending_chain_key.root = s.root_key
  BY DEF SessionInv, SendingInv, Numbered
<1>6. /\ s.sending_chain_key # None => y = s
      /\ s.sending_chain_key = None =>
            y = [s EXCEPT !.root_key = kdf_root(s.root_key, dh_secret(s.dhs, s.dhr)).root,
                          !.sending_chain_key = kdf_root(s.root_key, dh_secret(s.dhs, s.dhr)).chain,
                          !.Ns = 0]
  BY <1>3 DEF ReadyToSend, _dh_ratchet_step_send
<1>7. kdf_root(s.root_key, dh_secret(s.dhs, s.dhr)).chain.i = 0
  BY DEF kdf_root
<1>8. y.received_ids = s.received_ids /\ ck.i = s.Ns /\ DOMAIN y = DOMAIN s
  BY <1>1, <1>4, <1>6, <1>7 DEF RatchetState
<1> HIDE DEF y
<1>9. m.mk = kdf_chain(ck).mk
  BY DEF EncryptedMessage, y
<1>10. /\ r.sending_chain_key = kdf_chain(ck).next /\ r.received_ids = y.received_ids
  BY <1>1, <1>8 DEF EncryptedState, y, RatchetState
<1>11. m.mk = ck
  BY <1>9 DEF kdf_chain
<1>12. ck \in ChainKey
  BY <1>2, <1>11 DEF WireMessage
<1>13. kdf_chain(ck).next.i = s.Ns + 1
  BY <1>8, <1>12, KdfChainType
<1> HIDE DEF m, r
<1>14. KeyAt(m.mk, r.sending_chain_key, s.Ns) /\ r.sending_chain_key.root = r.root_key
  BY <1>3, <1>4, <1>8, <1>11 DEF KeyAt
<1>15. SealsNext(r, m, s)
  BY <1>2, <1>3, <1>4, <1>8, <1>10, <1>11, <1>13, <1>14 DEF SealsNext
<1> QED BY <1>15 DEF m, r

\* What has been sent is numbered as before.
LEMMA SealNumbered ==
    ASSUME NEW s, SessionInv(s, {}, {}), NEW M \in Seq(WireMessage), Numbered(s, M),
           NEW r, NEW m, SealsNext(r, m, s)
    PROVE  Numbered(r, Append(M, m))
<1> DEFINE N == Append(M, m)
           l == Len(M) + 1
<1>1. /\ m \in WireMessage /\ m.dh = s.dhs /\ m.n = s.Ns
      /\ r.dhs = s.dhs /\ r.Ns = s.Ns + 1
      /\ r.sending_chain_key # None /\ r.sending_chain_key.i = s.Ns + 1
      /\ KeyAt(m.mk, r.sending_chain_key, s.Ns) /\ r.sending_chain_key.root = r.root_key
      /\ s.sending_chain_key # None =>
            /\ r.sending_chain_key.label = s.sending_chain_key.label
            /\ r.sending_chain_key.root = s.sending_chain_key.root
  BY DEF SealsNext
<1>2. /\ Len(N) = l /\ Len(M) \in Nat /\ s.Ns \in Nat
      /\ \A j \in 1..Len(M) : N[j] = M[j] /\ M[j].n \in Nat
      /\ N[l] = m
  BY <1>1, AppendProperties, MessageTypes, SessionTypes
<1> HIDE DEF N
<1>3. /\ \A j \in 1..Len(N) : j \in 1..Len(M) \/ j = l
      /\ 1..Len(M) \subseteq 1..Len(N) /\ l \in 1..Len(N)
      /\ \A j \in 1..Len(M) : j < l
  BY <1>2
<1>4. /\ IdsUnique(M) /\ Gapless(M)
      /\ \A n \in Nat : n < s.Ns => \E k \in 1..Len(M) : M[k].dh = s.dhs /\ M[k].n = n
      /\ \A j \in 1..Len(M) : M[j].dh = s.dhs =>
            /\ M[j].n < s.Ns
            /\ s.sending_chain_key # None /\ KeyAt(M[j].mk, s.sending_chain_key, M[j].n)
      /\ \A j, k \in 1..Len(M) : j < k /\ M[j].dh = s.dhs => M[k].dh = s.dhs
      /\ s.Ns <= Len(M)
  BY DEF Numbered
<1>5. IdsUnique(N)
  <2>1. ASSUME NEW j \in 1..Len(M) PROVE MsgId(M[j]) # MsgId(m)
    <3>1. M[j].dh # s.dhs \/ M[j].n < s.Ns
      BY <1>4
    <3> QED BY <1>1, <1>2, <3>1, MsgIdEqual
  <2>2. \A j, k \in 1..Len(M) : MsgId(M[j]) = MsgId(M[k]) => j = k
    BY <1>4 DEF IdsUnique
  <2> HIDE DEF l
  <2> QED BY <1>2, <1>3, <2>1, <2>2 DEF IdsUnique
<1>6. Gapless(N)
  <2>1. ASSUME NEW j \in 1..Len(M)
        PROVE  /\ N[j].n < j
               /\ \A n \in Nat : n < N[j].n => \E k \in 1..Len(N) : N[k].dh = N[j].dh /\ N[k].n = n
    <3>1. N[j] = M[j] /\ M[j].n < j
      BY <1>2, <1>4 DEF Gapless
    <3>2. \A n \in Nat : n < M[j].n => \E k \in 1..Len(M) : M[k].dh = M[j].dh /\ M[k].n = n
      BY <1>4 DEF Gapless
    <3> QED BY <1>2, <1>3, <3>1, <3>2
  <2>2. m.n < l
    BY <1>1, <1>2, <1>4
  <2>3. ASSUME NEW n \in Nat, n < m.n PROVE \E k \in 1..Len(N) : N[k].dh = m.dh /\ N[k].n = n
    <3>1. PICK k \in 1..Len(M) : M[k].dh = s.dhs /\ M[k].n = n
      BY <1>1, <1>4, <2>3
    <3>2. k \in 1..Len(N) /\ N[k] = M[k]
      BY <1>2, <1>3
    <3> QED BY <1>1, <3>1, <3>2
  <2> HIDE DEF l
  <2> QED BY <1>2, <1>3, <2>1, <2>2, <2>3 DEF Gapless
<1>7. \A n \in Nat : n < r.Ns => \E k \in 1..Len(N) : N[k].dh = r.dhs /\ N[k].n = n
  <2> SUFFICES ASSUME NEW n \in Nat, n < s.Ns + 1
               PROVE  \E k \in 1..Len(N) : N[k].dh = s.dhs /\ N[k].n = n
    BY <1>1
  <2>1. CASE n = s.Ns
    BY <1>1, <1>2, <1>3, <2>1
  <2>2. CASE n < s.Ns
    <3>1. PICK k \in 1..Len(M) : M[k].dh = s.dhs /\ M[k].n = n
      BY <1>4, <2>2
    <3> QED BY <1>2, <1>3, <3>1
  <2> QED BY <1>2, <2>1, <2>2
<1>8. \A j \in 1..Len(N) : N[j].dh = r.dhs =>
         /\ N[j].n < r.Ns
         /\ r.sending_chain_key # None /\ KeyAt(N[j].mk, r.sending_chain_key, N[j].n)
  <2>1. ASSUME NEW j \in 1..Len(M), M[j].dh = s.dhs
        PROVE  M[j].n < s.Ns + 1 /\ KeyAt(M[j].mk, r.sending_chain_key, M[j].n)
    <3>1. /\ M[j].n < s.Ns /\ s.sending_chain_key # None
          /\ KeyAt(M[j].mk, s.sending_chain_key, M[j].n)
      BY <1>4, <2>1
    <3>2. M[j].n < s.Ns + 1
      BY <1>2, <3>1
    <3> QED BY <1>1, <3>1, <3>2 DEF KeyAt
  <2>2. m.n < s.Ns + 1 /\ KeyAt(m.mk, r.sending_chain_key, m.n)
    BY <1>1, <1>2
  <2> HIDE DEF l
  <2>3. ASSUME NEW j \in 1..Len(N), N[j].dh = s.dhs
        PROVE  N[j].n < s.Ns + 1 /\ KeyAt(N[j].mk, r.sending_chain_key, N[j].n)
    <3>1. CASE j \in 1..Len(M)
      <4>1. N[j] = M[j]
        BY <1>2, <3>1
      <4> QED BY <2>1, <2>3, <3>1, <4>1
    <3>2. CASE j = l
      <4>1. N[j] = m
        BY <1>2, <3>2
      <4> QED BY <2>2, <4>1
    <3> QED BY <1>3, <3>1, <3>2
  <2> QED BY <1>1, <2>3
<1>9. \A j, k \in 1..Len(N) : j < k /\ N[j].dh = r.dhs => N[k].dh = r.dhs
  <2> SUFFICES ASSUME NEW j \in 1..Len(N), NEW k \in 1..Len(N), j < k, N[j].dh = s.dhs
               PROVE  N[k].dh = s.dhs
    BY <1>1
  <2>1. CASE k \in 1..Len(M)
    <3>1. j \in 1..Len(M)
      BY <1>2, <2>1
    <3>2. N[j] = M[j] /\ N[k] = M[k]
      BY <1>2, <2>1, <3>1
    <3> QED BY <1>4, <2>1, <3>1, <3>2
  <2>2. CASE k = l
    BY <1>1, <1>2, <2>2
  <2> HIDE DEF l
  <2> QED BY <1>3, <2>1, <2>2
<1>10. r.Ns <= Len(N)
  BY <1>1, <1>2, <1>4
<1> QED BY <1>1, <1>5, <1>6, <1>7, <1>8, <1>9, <1>10 DEF Numbered, N

\* The peer t has read of the messages what it had, and not the new one.
LEMMA SealHeard ==
    ASSUME NEW t, SessionInv(t, {}, {}), NEW M \in Seq(WireMessage), NEW D, HasRead(t, M, D),
           NEW m \in WireMessage,
           m.dh = t.dhr => KeyAt(m.mk, t.receiving_chain_key, m.n) /\ t.Nr <= m.n
    PROVE  HasRead(t, Append(M, m), D)
<1> DEFINE N == Append(M, m)
           l == Len(M) + 1
<1>2. /\ Len(N) = l /\ Len(M) \in Nat /\ t.Nr \in Nat /\ m.n \in Nat
      /\ \A j \in 1..Len(M) : N[j] = M[j]
      /\ N[l] = m
  BY AppendProperties, MessageTypes, SessionTypes DEF WireMessage
<1> HIDE DEF N
<1>3. /\ \A j \in 1..Len(N) : j \in 1..Len(M) \/ j = l
      /\ 1..Len(M) \subseteq 1..Len(N) /\ l \in 1..Len(N) /\ l \notin 1..Len(M)
  BY <1>2
<1>4. D \subseteq 1..Len(M) /\ l \notin D
  BY <1>3 DEF HasRead, Remembers
<1> HIDE DEF l
<1>5. Remembers(t.received_ids, N, D)
  <2>1. \A k \in D : N[k] = M[k]
    BY <1>2, <1>4
  <2> QED BY <1>3, <1>4, <2>1 DEF HasRead, Remembers
<1>6. Keeps(t, N, D)
  <2> DEFINE store == t.skipped_message_keys
  <2>1. /\ Len(store) <= t.Nr
        /\ \A e \in 1..Len(store) :
              /\ store[e].id.dh = t.dhr /\ store[e].id.n < t.Nr
              /\ KeyAt(store[e].mk, t.receiving_chain_key, store[e].id.n)
              /\ \E k \in (1..Len(M)) \ D : store[e].id = MsgId(M[k])
        /\ \A k \in (1..Len(M)) \ D :
              M[k].dh = t.dhr /\ M[k].n < t.Nr => SkippedHas(store, MsgId(M[k]))
    BY DEF HasRead, Keeps
  <2>2. \A e \in 1..Len(store) : \E k \in (1..Len(N)) \ D : store[e].id = MsgId(N[k])
    <3> TAKE e \in 1..Len(store)
    <3>1. PICK k \in (1..Len(M)) \ D : store[e].id = MsgId(M[k])
      BY <2>1
    <3> QED BY <1>2, <1>3, <3>1
  <2>3. \A k \in (1..Len(N)) \ D :
              N[k].dh = t.dhr /\ N[k].n < t.Nr => SkippedHas(store, MsgId(N[k]))
    <3> TAKE k \in (1..Len(N)) \ D
    <3>1. CASE k \in 1..Len(M)
      BY <1>2, <2>1, <3>1
    <3>2. CASE k = l
      BY <1>2, <3>2
    <3> QED BY <1>3, <3>1, <3>2
  <2> QED BY <2>1, <2>2, <2>3 DEF Keeps
<1>7. Follows(t, N, D)
  <2>1. /\ t.receiving_chain_key # None => t.receiving_chain_key.i = t.Nr
        /\ \A k \in 1..Len(M) : M[k].dh = t.dhr =>
              KeyAt(M[k].mk, t.receiving_chain_key, M[k].n) /\ (k \in D => M[k].n < t.Nr)
    BY DEF HasRead, Follows
  <2>2. \A k \in 1..Len(N) : N[k].dh = t.dhr =>
              KeyAt(N[k].mk, t.receiving_chain_key, N[k].n) /\ (k \in D => N[k].n < t.Nr)
    <3> TAKE k \in 1..Len(N)
    <3>1. CASE k \in 1..Len(M)
      BY <1>2, <2>1, <3>1
    <3>2. CASE k = l
      BY <1>2, <1>4, <3>2
    <3> QED BY <1>3, <3>1, <3>2
  <2> QED BY <2>1, <2>2 DEF Follows
<1> QED BY <1>5, <1>6, <1>7 DEF HasRead, N

\* What separates the two sessions is as before.
LEMMA SealBetween ==
    ASSUME NEW t, NEW s, NEW M \in Seq(WireMessage), NEW D, Between(t, s, M, D),
           D \subseteq 1..Len(M), NEW r, NEW m, SealsNext(r, m, s)
    PROVE  Between(t, r, Append(M, m), D)
<1> DEFINE N == Append(M, m)
           l == Len(M) + 1
<1>1. m \in WireMessage /\ m.dh = s.dhs /\ r.dhs = s.dhs
  BY DEF SealsNext
<1>2. /\ Len(N) = l /\ Len(M) \in Nat
      /\ \A j \in 1..Len(M) : N[j] = M[j]
      /\ N[l] = m
  BY <1>1, AppendProperties, MessageTypes
<1> HIDE DEF N
<1>3. \A j \in 1..Len(N) : j \in 1..Len(M) \/ j = l
  BY <1>2
<1> HIDE DEF l
<1> QED BY <1>1, <1>2, <1>3 DEF Between, N

\* ... and whose turn it is: an answer is given, or one goes on as before.
LEMMA SealTurns ==
    ASSUME NEW x, NEW y, Turns(x, y), x.Ns \in Nat, y.Nr \in Nat, NEW r, NEW m
    PROVE  /\ SealsNext(r, m, x) => Turns(r, y)
           /\ SealsNext(r, m, y) => Turns(x, r)
<1>1. ASSUME SealsNext(r, m, x) PROVE Turns(r, y)
  <2>1. y.Nr <= x.Ns + 1
    BY DEF Turns
  <2> QED BY <1>1, <2>1 DEF Turns, SealsNext
<1>2. ASSUME SealsNext(r, m, y) PROVE Turns(x, r)
  <2>1. CASE y.sending_chain_key # None
    BY <1>2, <2>1 DEF Turns, SealsNext
  <2>2. CASE y.sending_chain_key = None
    <3>1. y.dhr # None /\ y.dhr = x.dhs /\ y.root_key = x.root_key
      BY <1>2, <2>2 DEF Turns, SealsNext
    <3>2. {y.dhs, y.dhr} = {x.dhs, y.dhs}
      BY <3>1
    <3>3. r.root_key = Append(x.root_key, {x.dhs, y.dhs})
      BY <1>2, <2>2, <3>1, <3>2 DEF SealsNext
    <3> QED BY <1>2, <2>2, <3>1, <3>3 DEF Turns, SealsNext
  <2> QED BY <2>1, <2>2
<1> QED BY <1>1, <1>2

-----------------------------------------------------------------------------
(* What ratchet_decrypt means to the two sessions.  Session s reads number j  *)
(* of M, the messages of t; it had read D of them, and t C of its own, N.     *)

\* What the two sessions have in common, in either role.
Together(s, t, M, N, D, C) ==
    /\ HasRead(s, M, D) /\ HasRead(t, N, C)
    /\ Between(s, t, M, D) /\ Between(t, s, N, C)
    /\ Numbered(s, N) /\ Numbered(t, M)
    /\ Turns(s, t) \/ Turns(t, s)

Pair(s, t, M, N, D, C) ==
    /\ SessionInv(s, {}, {}) /\ SessionInv(t, {}, {})
    /\ M \in Seq(WireMessage) /\ N \in Seq(WireMessage)
    /\ Together(s, t, M, N, D, C)

\* What a session has sent does not depend on what it reads.
LEMMA NumberedSame ==
    ASSUME NEW s, NEW r, NEW N, Numbered(s, N), r.root_key = s.root_key, r.dhs = s.dhs,
           r.sending_chain_key = s.sending_chain_key, r.Ns = s.Ns
    PROVE  Numbered(r, N)
  BY DEF Numbered

\* The outcome of reading a message, after which E has been read of M.
ReadOn(out, t, M, N, E, C) ==
    /\ out.result = "ok"
    /\ HasRead(out.state, M, E)
    /\ Between(out.state, t, M, E) /\ Between(t, out.state, N, C)
    /\ Numbered(out.state, N)
    /\ Turns(out.state, t) \/ Turns(t, out.state)

\* The session that follows the chain of the other reads a message.
LEMMA FollowerReads ==
    ASSUME NEW s, NEW t, NEW M, NEW N, NEW D, NEW C, Pair(s, t, M, N, D, C), Turns(t, s),
           NEW j \in (1..Len(M)) \ D, Fits(M), NEW fresh \in KeyPair
    PROVE  /\ ratchet_decrypt(s, M[j], fresh).state.dhs = s.dhs
           /\ ReadOn(ratchet_decrypt(s, M[j], fresh), t, M, N, D \cup {j}, C)
<1> DEFINE m   == M[j]
           out == ratchet_decrypt(s, m, fresh)
           r   == out.state
           E   == D \cup {j}
<1>1. /\ SessionInv(s, {}, {}) /\ SessionInv(t, {}, {}) /\ M \in Seq(WireMessage)
      /\ HasRead(s, M, D) /\ Between(s, t, M, D) /\ Between(t, s, N, C)
      /\ Numbered(s, N) /\ Numbered(t, M) /\ IdsUnique(M) /\ Gapless(M)
  BY DEF Pair, Together, Numbered
<1>2. /\ m.dh # None /\ m.n \in Nat /\ s.Nr \in Nat /\ t.Ns \in Nat /\ s \in RatchetState
  BY <1>1, MessageTypes, SessionTypes
<1>3. m.dh = t.dhs /\ (s.dhr = t.dhs \/ s.dhr = None)
  BY <1>1, <1>2 DEF Between, Turns
<1>4. m.n < t.Ns
  BY <1>1, <1>3 DEF Numbered
<1>5. PICK b : /\ Opened(out, b, m, M, E) /\ (b = s \/ b = [s EXCEPT !.dhr = m.dh])
               /\ b.dhr = t.dhs /\ out.state.Nr <= t.Ns
  <2>1. CASE s.dhr = t.dhs
    <3>1. Opened(out, s, m, M, E)
      BY <1>1, <1>3, <2>1, DecryptSameChain
    <3>2. out.state.Nr <= t.Ns
      <4>1. s.Nr <= t.Ns
        BY DEF Turns
      <4>2. out.state.Nr = s.Nr \/ out.state.Nr = m.n + 1
        BY <3>1 DEF Opened
      <4> HIDE DEF out
      <4> QED BY <1>2, <1>4, <4>1, <4>2
    <3> QED BY <2>1, <3>1, <3>2
  <2>2. CASE s.dhr # t.dhs
    <3>1. s.dhr = None /\ s.sending_chain_key = None /\ s.receiving_chain_key # None /\ s.Nr = 0
      BY <1>2, <1>3, <2>2 DEF Turns
    <3>2. \A k \in 1..Len(M) : M[k].dh = m.dh =>
             k \notin D /\ KeyAt(M[k].mk, s.receiving_chain_key, M[k].n)
      <4> TAKE k \in 1..Len(M)
      <4> HAVE M[k].dh = m.dh
      <4>1. k \notin D
        BY <1>1, <1>3, <2>2 DEF Between
      <4>2. KeyAt(M[k].mk, t.sending_chain_key, M[k].n)
        BY <1>1, <1>3 DEF Numbered
      <4> QED BY <4>1, <4>2 DEF KeyAt, Turns
    <3>3. Opened(out, [s EXCEPT !.dhr = m.dh], m, M, E) /\ out.state.Nr <= m.n + 1
      BY <1>1, <3>1, <3>2, DecryptFirst
    <3>4. [s EXCEPT !.dhr = m.dh].dhr = t.dhs
      BY <1>2, <1>3 DEF RatchetState
    <3>5. out.state.Nr <= t.Ns
      <4>1. out.state.Nr \in Nat
        <5>1. out.state.Nr = [s EXCEPT !.dhr = m.dh].Nr \/ out.state.Nr = m.n + 1
          BY <3>3 DEF Opened
        <5>2. [s EXCEPT !.dhr = m.dh].Nr = s.Nr
          BY <1>2 DEF RatchetState
        <5> HIDE DEF out
        <5> QED BY <1>2, <5>1, <5>2
      <4> HIDE DEF out
      <4> QED BY <1>2, <1>4, <3>3, <4>1
    <3> QED BY <3>3, <3>4, <3>5
  <2> QED BY <2>1, <2>2
<1> HIDE DEF out
<1>6. /\ b.root_key = s.root_key /\ b.sending_chain_key = s.sending_chain_key /\ b.dhs = s.dhs
      /\ b.Ns = s.Ns /\ b.receiving_chain_key = s.receiving_chain_key
  BY <1>2, <1>5 DEF RatchetState
<1>7. /\ out.result = "ok" /\ HasRead(r, M, E) /\ r.receiving_chain_key # None
      /\ r.root_key = s.root_key /\ r.sending_chain_key = s.sending_chain_key /\ r.dhs = s.dhs
      /\ r.Ns = s.Ns /\ r.dhr = t.dhs
      /\ r.receiving_chain_key.label = s.receiving_chain_key.label
      /\ r.receiving_chain_key.root = s.receiving_chain_key.root
  BY <1>5, <1>6 DEF Opened, SameSession, SameChain
<1>8. r.Nr <= t.Ns
  BY <1>5
<1> HIDE DEF r
<1>9. Turns(t, r)
  BY <1>3, <1>7, <1>8 DEF Turns
<1>10. Numbered(r, N)
  BY <1>1, <1>7, NumberedSame
<1>11. Between(r, t, M, E)
  <2>2. \A k \in 1..Len(M) : M[k].dh # t.dhs => k \in D
    <3>1. \A k \in 1..Len(M) : M[k].dh # None
      BY <1>1, MessageTypes
    <3> QED BY <1>1, <1>3, <3>1 DEF Between
  <2> QED BY <1>7, <2>2 DEF Between
<1>12. Between(t, r, N, C)
  BY <1>1, <1>7 DEF Between
<1> QED BY <1>7, <1>9, <1>10, <1>11, <1>12 DEF ReadOn, r, out

\* The session whose chain is followed reads: a message of the chain it follows
\* itself, or the answer to its own.
LEMMA LeaderReads ==
    ASSUME NEW s, NEW t, NEW M, NEW N, NEW D, NEW C, Pair(s, t, M, N, D, C), Turns(s, t),
           NEW j \in (1..Len(M)) \ D, Fits(M), NEW fresh \in KeyPair,
           C \subseteq 1..Len(N), fresh # s.dhs, \A k \in 1..Len(N) : N[k].dh # fresh,
           \A k \in 1..(j - 1) : M[k].dh # M[j].dh => k \in D
    PROVE  /\ ratchet_decrypt(s, M[j], fresh).state.dhs \in {s.dhs, fresh}
           /\ ReadOn(ratchet_decrypt(s, M[j], fresh), t, M, N, D \cup {j}, C)
<1> DEFINE m   == M[j]
           out == ratchet_decrypt(s, m, fresh)
           r   == out.state
           E   == D \cup {j}
<1>1. /\ SessionInv(s, {}, {}) /\ SessionInv(t, {}, {}) /\ M \in Seq(WireMessage)
      /\ HasRead(s, M, D) /\ Between(s, t, M, D) /\ Between(t, s, N, C)
      /\ Numbered(s, N) /\ Numbered(t, M) /\ IdsUnique(M) /\ Gapless(M)
  BY DEF Pair, Together, Numbered
<1>2. /\ m.dh # None /\ m.n \in Nat /\ s.Nr \in Nat /\ t.Ns \in Nat /\ s \in RatchetState
      /\ Len(M) \in Nat
  BY <1>1, MessageTypes, SessionTypes
<1>3. m.dh = t.dhs \/ m.dh = s.dhr
  BY <1>1 DEF Between
<1>4. s.dhr # t.dhs /\ s.sending_chain_key # None
  BY DEF Turns
<1>5. CASE m.dh = s.dhr
  <2>1. Opened(out, s, m, M, E)
    BY <1>1, <1>5, DecryptSameChain
  <2> HIDE DEF out
  <2>2. /\ out.result = "ok" /\ HasRead(r, M, E)
        /\ r.root_key = s.root_key /\ r.sending_chain_key = s.sending_chain_key /\ r.dhs = s.dhs
        /\ r.Ns = s.Ns /\ r.dhr = s.dhr
    BY <2>1 DEF Opened, SameSession
  <2> HIDE DEF r
  <2>3. Turns(r, t)
    BY <2>2 DEF Turns
  <2>4. Numbered(r, N)
    BY <1>1, <2>2, NumberedSame
  <2>5. Between(r, t, M, E) /\ Between(t, r, N, C)
    BY <1>1, <1>4, <1>5, <2>2 DEF Between
  <2> QED BY <2>2, <2>3, <2>4, <2>5 DEF ReadOn, r, out
<1>6. CASE m.dh = t.dhs
  <2> DEFINE ck == t.sending_chain_key
             b  == _dh_ratchet_receive(s, m.dh, fresh)
  <2>1. m.n < t.Ns /\ t.sending_chain_key # None
    BY <1>1, <1>6 DEF Numbered
  <2>2. /\ ck.label = "root" /\ ck.root = Append(s.root_key, {s.dhs, m.dh})
        /\ t.root_key = ck.root /\ t.dhr = s.dhs
    BY <1>1, <1>6, <2>1 DEF Turns, Numbered
  <2>3. \A k \in 1..Len(M) : M[k].dh = m.dh => k \notin D /\ KeyAt(M[k].mk, ck, M[k].n)
    BY <1>1, <1>4, <1>6 DEF Between, Numbered
  <2>4. \A k \in 1..Len(M) : k \notin D => M[k].dh = t.dhs
    <3> TAKE k \in 1..Len(M)
    <3> HAVE k \notin D
    <3>1. CASE k < j
      <4>1. k \in 1..(j - 1)
        BY <1>2, <3>1
      <4> QED BY <1>6, <4>1
    <3>2. CASE j < k
      BY <1>1, <1>6, <3>2 DEF Numbered
    <3>3. CASE k = j
      BY <1>6, <3>3
    <3> QED BY <1>2, <3>1, <3>2, <3>3
  <2>5. \A k \in (1..Len(M)) \ D : M[k].dh # s.dhr
    BY <1>4, <2>4
  <2> HIDE DEF ck
  <2>6. Opened(out, b, m, M, E) /\ out.state.Nr <= m.n + 1
    BY <1>1, <1>4, <1>6, <2>2, <2>3, <2>5, DecryptAnswer
  <2>7. /\ b.root_key = Append(s.root_key, {s.dhs, m.dh}) /\ b.sending_chain_key = None
        /\ b.dhs = fresh /\ b.dhr = m.dh /\ b.Ns = 0 /\ b.Nr = 0
        /\ b.receiving_chain_key.label = "root"
        /\ b.receiving_chain_key.root = Append(s.root_key, {s.dhs, m.dh})
    BY <1>2 DEF _dh_ratchet_receive, RatchetState, kdf_root, dh_secret
  <2> HIDE DEF out, b
  <2>8. /\ out.result = "ok" /\ HasRead(r, M, E) /\ r.receiving_chain_key # None
        /\ r.root_key = t.root_key /\ r.sending_chain_key = None /\ r.dhs = fresh
        /\ r.Ns = 0 /\ r.dhr = t.dhs
        /\ r.receiving_chain_key.label = ck.label /\ r.receiving_chain_key.root = ck.root
    BY <1>6, <2>2, <2>6, <2>7 DEF Opened, SameSession, SameChain
  <2>9. r.Nr <= t.Ns
    <3>1. r.Nr = 0 \/ r.Nr = m.n + 1
      BY <2>6, <2>7 DEF Opened
    <3> HIDE DEF r
    <3> QED BY <1>2, <2>1, <3>1
  <2> HIDE DEF r
  <2>10. Turns(t, r)
    BY <2>1, <2>2, <2>8, <2>9 DEF Turns, ck
  <2>11. Numbered(r, N)
    <3>1. Len(N) \in Nat
      BY LenProperties DEF Pair, Together
    <3>2. IdsUnique(N) /\ Gapless(N)
      BY <1>1 DEF Numbered
    <3> QED BY <2>8, <3>1, <3>2 DEF Numbered
  <2>12. Between(r, t, M, E)
    BY <2>4, <2>8 DEF Between
  <2>13. Between(t, r, N, C)
    BY <1>1, <2>2, <2>8 DEF Between
  <2> QED BY <2>8, <2>10, <2>11, <2>12, <2>13 DEF ReadOn, r, out
<1> QED BY <1>3, <1>5, <1>6

-----------------------------------------------------------------------------
(* load_session gives back what save_session was given. *)

\* The ids differ from each other.
IdsDiffer(ids) == \A e, f \in 1..Len(ids) : ids[e] = ids[f] => e = f

\* The loop of state_from_dict copies ids that differ and fit.
LEMMA RebuildCopies ==
    ASSUME NEW ids \in Seq(MessageId), IdsDiffer(ids), Len(ids) <= MaxReceivedIds,
           NEW r, IsRebuild(r, ids, Len(ids))
    PROVE  r[Len(ids)] = ids
<1> DEFINE S == {n \in Nat : n <= Len(ids) => r[n] = SubSeq(ids, 1, n)}
<1>0. Len(ids) \in Nat
  BY LenProperties
<1>1. 0 \in S
  <2>1. r[0] = << >>
    BY <1>0 DEF IsRebuild
  <2>2. SubSeq(ids, 1, 0) = << >>
    OBVIOUS
  <2> QED BY <2>1, <2>2
<1>2. ASSUME NEW n \in S PROVE n + 1 \in S
  <2> SUFFICES ASSUME n + 1 <= Len(ids) PROVE r[n + 1] = SubSeq(ids, 1, n + 1)
    OBVIOUS
  <2> DEFINE a == SubSeq(ids, 1, n)
             id == ids[n + 1]
  <2>0. n \in Nat /\ n <= Len(ids) /\ n + 1 \in 1..Len(ids) /\ n < MaxReceivedIds
    BY <1>0, EngineAssumption
  <2>1. r[n] = a
    BY <2>0
  <2>2. r[n + 1] = ReceivedIdsAdd(r[n], id)
    BY <1>0, <2>0 DEF IsRebuild
  <2>3. a \in Seq(MessageId) /\ Len(a) = n /\ \A e \in 1..n : a[e] = ids[e]
    <3>1. \A e \in 1..n : ids[e] \in MessageId
      BY <1>0, <2>0, ElementOfSeq
    <3> QED BY <1>0, <2>0, <3>1, SubSeqProperties
  <2>4. id \in MessageId
    BY <2>0, ElementOfSeq
  <2>5. ~ ReceivedIdsContains(a, id)
    <3>1. \A e \in 1..n : ids[e] # ids[n + 1]
      <4> TAKE e \in 1..n
      <4>1. e \in 1..Len(ids) /\ e # n + 1
        BY <1>0, <2>0
      <4> QED BY <2>0, <4>1 DEF IdsDiffer
    <3> QED BY <2>3, <3>1 DEF ReceivedIdsContains
  <2> HIDE DEF a, id
  <2>6. r[n + 1] = Append(a, id)
    BY <2>0, <2>1, <2>2, <2>3, <2>5, ReceivedIdsAddRoom
  <2>7. Append(a, id) = SubSeq(ids, 1, n + 1)
    BY <1>0, <2>0, <2>3, <2>4 DEF a, id
  <2> QED BY <2>6, <2>7
<1>3. S = Nat
  <2> HIDE DEF S
  <2>1. S \subseteq Nat BY DEF S
  <2> QED BY <2>1, <1>1, <1>2, InductiveSet
<1>4. r[Len(ids)] = SubSeq(ids, 1, Len(ids))
  BY <1>0, <1>3
<1>5. SubSeq(ids, 1, Len(ids)) = ids
  BY <1>0
<1> QED BY <1>4, <1>5

\* A session whose replay window holds different ids is loaded as it was saved.
LEMMA LoadedSame ==
    ASSUME NEW d, d.state \in RatchetState, IdsDiffer(d.state.received_ids),
           Len(d.state.received_ids) <= MaxReceivedIds
    PROVE  state_from_dict(d) = d.state
<1> DEFINE ids == d.state.received_ids
           c   == CHOOSE r : IsRebuild(r, ids, Len(ids))
<1>1. ids \in Seq(MessageId) /\ Len(ids) \in 0..Len(ids)
  BY LenProperties DEF RatchetState
<1>2. \E r : IsRebuild(r, ids, Len(ids))
  BY <1>1, RebuildExists
<1>3. IsRebuild(c, ids, Len(ids))
  <2> HIDE DEF ids
  <2> QED BY <1>2, Zenon
<1>4. state_from_dict(d) = [d.state EXCEPT !.received_ids = c[Len(ids)]]
  BY Zenon DEF state_from_dict, IsRebuild
<1> HIDE DEF c
<1>5. c[Len(ids)] = ids
  <2> HIDE DEF ids
  <2>1. IdsDiffer(ids) /\ Len(ids) <= MaxReceivedIds
    BY DEF ids
  <2> QED BY <1>1, <1>3, <2>1, RebuildCopies
<1>6. [d.state EXCEPT !.received_ids = ids] = d.state
  BY DEF RatchetState
<1> QED BY <1>4, <1>5, <1>6

-----------------------------------------------------------------------------
(* The two clients as a pair of sessions. *)

\* Nothing has disturbed the clients before a step that leaves them undisturbed.
LEMMA SessionsAreSound ==
    ASSUME StoreInvariant, NEW p \in Party
    PROVE  SessionInv(Session(p), {}, {})
<1>1. MemInv(p) /\ FileInv(p)
  BY DEF StoreInvariant, ClientInv
<1>2. CASE pc[p] = "down"
  <2>1. SessionInv(file[p].state, {}, {})
    BY <1>1, SessionInvFewer DEF FileInv
  <2> QED BY <1>2, <2>1 DEF Session
<1>3. CASE pc[p] # "down"
  <2>1. SessionInv(mem[p], {}, {})
    BY <1>1, <1>3, SessionInvFewer DEF MemInv
  <2> QED BY <1>3, <2>1 DEF Session
<1> QED BY <1>2, <1>3

\* The two sessions, seen from p.
PairOf(p) ==
    Pair(Session(p), Session(Peer(p)), sent[Peer(p)], sent[p], delivered[p], delivered[Peer(p)])

\* Clients that agree are such a pair, and the messages fit the stores.
LEMMA AgreedPair ==
    ASSUME StoreInvariant, Agreed, NEW p \in Party
    PROVE  PairOf(p)
<1> DEFINE q == Peer(p)
<1>1. q \in Party /\ Peer(q) = p
  BY PeerIsOther
<1>2. /\ SessionInv(Session(p), {}, {}) /\ SessionInv(Session(q), {}, {})
      /\ sent[p] \in Seq(WireMessage) /\ sent[q] \in Seq(WireMessage)
  BY <1>1, SessionsAreSound DEF StoreInvariant, TypeOK
<1>3. /\ Numbered(Session(p), sent[p]) /\ Numbered(Session(q), sent[q])
      /\ HasRead(Session(p), sent[q], delivered[p])
      /\ Between(Session(p), Session(q), sent[q], delivered[p])
      /\ HasRead(Session(q), sent[p], delivered[q])
      /\ Between(Session(q), Session(p), sent[p], delivered[q])
  BY <1>1 DEF Agreed, AgreeClient, HeardInv
<1>4. Turns(Session(p), Session(q)) \/ Turns(Session(q), Session(p))
  <2>1. PICK x \in Party : Turns(Session(x), Session(Peer(x)))
    BY DEF Agreed
  <2>2. x = p \/ x = q
    BY PeerIsOther
  <2> QED BY <1>1, <2>1, <2>2
<1> QED BY <1>2, <1>3, <1>4 DEF PairOf, Pair, Together

\* What fits Calm.
LEMMA CalmFits ==
    ASSUME Calm, NEW p \in Party
    PROVE  Fits(sent[p])
  BY DEF Calm, Undisturbed, WithinLimits, Fits

-----------------------------------------------------------------------------
(* The steps that leave both sessions as they are. *)

\* Such a step has only the file and what is printed to account for.
LEMMA QuietAgree ==
    ASSUME Agreed, sent' = sent, delivered' = delivered, generated' = generated,
           \A q \in Party : Session(q)' = Session(q) /\ FileCurrent(q)' /\ ShownInv(q)'
    PROVE  Agreed'
<1>1. ASSUME NEW q \in Party PROVE AgreeClient(q)'
  <2>1. Peer(q) \in Party
    BY PeerIsOther
  <2>2. Session(q)' = Session(q) /\ Session(Peer(q))' = Session(Peer(q))
    BY <2>1
  <2>3. OwnKeys(q) /\ Numbered(Session(q), sent[q]) /\ HeardInv(q)
    BY DEF Agreed, AgreeClient
  <2>4. OwnKeys(q)'
    BY <2>2, <2>3 DEF OwnKeys, Owned
  <2>5. Numbered(Session(q), sent[q])'
    BY <2>2, <2>3
  <2>6. HeardInv(q)'
    BY <2>2, <2>3 DEF HeardInv
  <2> QED BY <2>4, <2>5, <2>6 DEF AgreeClient
<1>2. (\E p \in Party : Turns(Session(p), Session(Peer(p))))'
  <2>1. PICK x \in Party : Turns(Session(x), Session(Peer(x)))
    BY DEF Agreed
  <2>2. Peer(x) \in Party
    BY PeerIsOther
  <2>3. Session(x)' = Session(x) /\ Session(Peer(x))' = Session(Peer(x))
    BY <2>2
  <2> QED BY <2>1, <2>3
<1> QED BY <1>1, <1>2 DEF Agreed

\* A step of p leaves the session of the other client alone.
LEMMA OtherSession ==
    ASSUME NEW q \in Party, mem'[q] = mem[q], file'[q] = file[q], pc'[q] = pc[q],
           sending'[q] = sending[q], due'[q] = due[q], displayed'[q] = displayed[q],
           delivered'[q] = delivered[q]
    PROVE  /\ Session(q)' = Session(q)
           /\ FileCurrent(q) => FileCurrent(q)'
           /\ ShownInv(q) => ShownInv(q)'
  BY DEF Session, FileCurrent, ShownInv

\* The first half of a save.
LEMMA SaveAgree ==
    ASSUME StoreInvariant, Agreed, Calm', NEW p \in Party,
           \/ SaveAfterSend(p) \/ SaveAfterSendFails(p)
           \/ SaveAfterRecv(p) \/ SaveAfterRecvFails(p)
    PROVE  Agreed'
<1>0. TypeOK /\ \A q \in Party : FileCurrent(q) /\ ShownInv(q)
  BY DEF StoreInvariant, Agreed, AgreeClient
<1>1. /\ pc[p] \in {"ready", "save_after_recv"}
      /\ WriteTmp(p) \/ SaveRaises(p)
      /\ UNCHANGED <<mem, file, due, generated, sent, delivered, displayed>>
  BY DEF SaveAfterSend, SaveAfterSendFails, SaveAfterRecv, SaveAfterRecvFails, channel
<1>2. ~ SaveRaises(p)
  BY <1>1, SaveOutcome DEF Calm, Undisturbed
<1>3. /\ pc' \in {[pc EXCEPT ![p] = "replace_after_send"], [pc EXCEPT ![p] = "replace_after_recv"]}
      /\ sending' = sending
  BY <1>2 DEF SaveAfterSend, SaveAfterSendFails, SaveAfterRecv, SaveAfterRecvFails
<1>4. /\ pc'[p] \in {"replace_after_send", "replace_after_recv"}
      /\ \A q \in Party \ {p} : pc'[q] = pc[q]
  BY <1>0, <1>3 DEF TypeOK
<1>5. Session(p)' = Session(p) /\ FileCurrent(p)' /\ ShownInv(p)'
  BY <1>0, <1>1, <1>4 DEF Session, FileCurrent, ShownInv
<1>6. \A q \in Party \ {p} : Session(q)' = Session(q) /\ FileCurrent(q)' /\ ShownInv(q)'
  BY <1>0, <1>1, <1>3, <1>4, OtherSession
<1> QED BY <1>1, <1>5, <1>6, QuietAgree

\* The second half: the file is the memory again.
LEMMA ReplaceAgree ==
    ASSUME StoreInvariant, Agreed, NEW p \in Party, ReplaceAfterSend(p) \/ ReplaceAfterRecv(p)
    PROVE  Agreed'
<1>0. TypeOK /\ VersionInv(p) /\ \A q \in Party : FileCurrent(q) /\ ShownInv(q)
  BY DEF StoreInvariant, ClientInv, Agreed, AgreeClient
<1>1. /\ pc[p] \in {"replace_after_send", "replace_after_recv"}
      /\ file' = [file EXCEPT ![p] = tmp[p]]
      /\ UNCHANGED <<mem, due, generated, sent, delivered, displayed>>
      /\ pc' \in {[pc EXCEPT ![p] = "ready"], [pc EXCEPT ![p] = "print"]}
      /\ sending' \in {sending, [sending EXCEPT ![p] = FALSE]}
  BY DEF ReplaceAfterSend, ReplaceAfterRecv, channel
<1>2. tmp[p].state = mem[p]
  BY <1>0, <1>1 DEF VersionInv
<1>3. /\ file'[p].state = mem[p] /\ pc'[p] \in {"ready", "print"}
      /\ \A q \in Party \ {p} : file'[q] = file[q] /\ pc'[q] = pc[q] /\ sending'[q] = sending[q]
  BY <1>0, <1>1, <1>2 DEF TypeOK
<1>4. Session(p)' = Session(p) /\ FileCurrent(p)' /\ ShownInv(p)'
  BY <1>0, <1>1, <1>3 DEF Session, FileCurrent, ShownInv
<1>5. \A q \in Party \ {p} : Session(q)' = Session(q) /\ FileCurrent(q)' /\ ShownInv(q)'
  BY <1>0, <1>1, <1>3, OtherSession
<1> QED BY <1>1, <1>4, <1>5, QuietAgree

\* What was due is printed.
LEMMA PrintAgree ==
    ASSUME StoreInvariant, Agreed, NEW p \in Party, PrintText(p)
    PROVE  Agreed'
<1> DEFINE old == displayed[p]
           new == Append(old, due[p])
<1>0. TypeOK /\ ControlInv(p) /\ \A q \in Party : FileCurrent(q) /\ ShownInv(q)
  BY DEF StoreInvariant, ClientInv, Agreed, AgreeClient
<1>1. /\ pc[p] = "print" /\ displayed' = [displayed EXCEPT ![p] = new]
      /\ due' = [due EXCEPT ![p] = 0] /\ pc' = [pc EXCEPT ![p] = "ready"]
      /\ UNCHANGED <<mem, file, sending, generated, sent, delivered>>
  BY DEF PrintText, channel
<1>2. due[p] \in 1..MaxSent /\ old \in Seq(1..MaxSent)
  BY <1>0, <1>1 DEF ControlInv, TypeOK
<1>3. ToSet(new) = ToSet(old) \cup {due[p]}
  <2>1. /\ Len(new) = Len(old) + 1 /\ Len(old) \in Nat
        /\ \A j \in 1..Len(old) : new[j] = old[j]
        /\ new[Len(old) + 1] = due[p]
    BY <1>2, AppendProperties, LenProperties
  <2>2. DOMAIN new = 1..Len(new) /\ DOMAIN old = 1..Len(old)
    <3>1. new \in Seq(1..MaxSent)
      BY <1>2, AppendProperties
    <3> HIDE DEF new
    <3> QED BY <1>2, <3>1, LenProperties
  <2> HIDE DEF new, old
  <2>3. 1..Len(new) = (1..Len(old)) \cup {Len(old) + 1}
    BY <2>1
  <2>4. ToSet(new) = {new[j] : j \in 1..Len(new)} /\ ToSet(old) = {old[j] : j \in 1..Len(old)}
    BY <2>2 DEF ToSet
  <2> QED BY <2>1, <2>3, <2>4
<1> HIDE DEF new
<1>4. /\ displayed'[p] = new /\ due'[p] = 0 /\ pc'[p] = "ready"
      /\ \A q \in Party \ {p} : displayed'[q] = displayed[q] /\ due'[q] = due[q] /\ pc'[q] = pc[q]
  BY <1>0, <1>1 DEF TypeOK
<1>5. ShownInv(p)'
  <2>1. delivered[p] = (ToSet(old) \cup {due[p]}) \ {0}
    BY <1>0 DEF ShownInv
  <2>2. delivered[p] = (ToSet(new) \cup {0}) \ {0}
    BY <1>3, <2>1
  <2> QED BY <1>1, <1>4, <2>2 DEF ShownInv
<1>6. Session(p)' = Session(p) /\ FileCurrent(p)'
  BY <1>0, <1>1, <1>4 DEF Session, FileCurrent
<1>7. \A q \in Party \ {p} : Session(q)' = Session(q) /\ FileCurrent(q)' /\ ShownInv(q)'
  BY <1>0, <1>1, <1>4, OtherSession
<1> QED BY <1>1, <1>5, <1>6, <1>7, QuietAgree

\* An exit between sends finds the file up to date.
LEMMA QuitAgree ==
    ASSUME StoreInvariant, Agreed, NEW p \in Party, Quit(p)
    PROVE  Agreed'
<1>0. TypeOK /\ ControlInv(p) /\ \A q \in Party : FileCurrent(q) /\ ShownInv(q)
  BY DEF StoreInvariant, ClientInv, Agreed, AgreeClient
<1>1. /\ pc[p] = "ready" /\ ~ sending[p]
      /\ mem' = [mem EXCEPT ![p] = None] /\ pc' = [pc EXCEPT ![p] = "down"]
      /\ sending' = [sending EXCEPT ![p] = FALSE] /\ due' = [due EXCEPT ![p] = 0]
      /\ UNCHANGED <<file, generated, sent, delivered, displayed>>
  BY DEF Quit, Stop, channel
<1>2. due[p] = 0 /\ file[p].state = mem[p]
  BY <1>0, <1>1 DEF ControlInv, FileCurrent
<1>3. /\ pc'[p] = "down" /\ due'[p] = 0
      /\ \A q \in Party \ {p} : /\ mem'[q] = mem[q] /\ pc'[q] = pc[q]
                                /\ sending'[q] = sending[q] /\ due'[q] = due[q]
  BY <1>0, <1>1 DEF TypeOK
<1>4. Session(p)' = Session(p) /\ FileCurrent(p)' /\ ShownInv(p)'
  BY <1>0, <1>1, <1>2, <1>3 DEF Session, FileCurrent, ShownInv
<1>5. \A q \in Party \ {p} : Session(q)' = Session(q) /\ FileCurrent(q)' /\ ShownInv(q)'
  BY <1>0, <1>1, <1>3, OtherSession
<1> QED BY <1>1, <1>4, <1>5, QuietAgree

\* A restart finds the session it left.
LEMMA RestartAgree ==
    ASSUME StoreInvariant, Agreed, NEW p \in Party, Restart(p)
    PROVE  Agreed'
<1> DEFINE s == file[p].state
<1>0. TypeOK /\ ControlInv(p) /\ \A q \in Party : FileCurrent(q) /\ ShownInv(q)
  BY DEF StoreInvariant, ClientInv, Agreed, AgreeClient
<1>1. /\ pc[p] = "down" /\ mem' = [mem EXCEPT ![p] = state_from_dict(file[p])]
      /\ pc' = [pc EXCEPT ![p] = "ready"]
      /\ UNCHANGED <<file, sending, due, generated, sent, delivered, displayed>>
  BY DEF Restart, channel
<1>2. Session(p) = s
  BY <1>1 DEF Session
<1>3. state_from_dict(file[p]) = s
  <2>1. s \in RatchetState /\ Len(s.received_ids) <= MaxReceivedIds
    BY <1>2, SessionsAreSound, SessionTypes
  <2>2. IdsDiffer(s.received_ids)
    <3>1. HeardInv(p)
      BY DEF Agreed, AgreeClient
    <3> QED BY <1>2, <3>1 DEF HeardInv, HasRead, Remembers, IdsDiffer
  <2> QED BY <2>1, <2>2, LoadedSame
<1>4. /\ pc'[p] = "ready" /\ mem'[p] = s
      /\ \A q \in Party \ {p} : mem'[q] = mem[q] /\ pc'[q] = pc[q]
  BY <1>0, <1>1, <1>3 DEF TypeOK
<1>5. Session(p)' = Session(p) /\ FileCurrent(p)' /\ ShownInv(p)'
  BY <1>0, <1>1, <1>2, <1>4 DEF Session, FileCurrent, ShownInv
<1>6. \A q \in Party \ {p} : Session(q)' = Session(q) /\ FileCurrent(q)' /\ ShownInv(q)'
  BY <1>0, <1>1, <1>4, OtherSession
<1> QED BY <1>1, <1>5, <1>6, QuietAgree

-----------------------------------------------------------------------------
(* The steps that change a session. *)

\* One of two sessions seals a message.
LEMMA PairSeals ==
    ASSUME NEW s, NEW t, NEW M, NEW N, NEW D, NEW C, Pair(s, t, M, N, D, C), CanEncrypt(s)
    PROVE  LET r == EncryptedState(s)
               m == EncryptedMessage(s)
           IN  /\ m \in WireMessage /\ m.dh = s.dhs /\ r.dhs = s.dhs
               /\ Together(r, t, M, Append(N, m), D, C)
<1> DEFINE r == EncryptedState(s)
           m == EncryptedMessage(s)
<1>1. /\ SessionInv(s, {}, {}) /\ SessionInv(t, {}, {}) /\ N \in Seq(WireMessage)
      /\ HasRead(s, M, D) /\ Between(s, t, M, D) /\ HasRead(t, N, C) /\ Between(t, s, N, C)
      /\ Numbered(s, N) /\ Numbered(t, M) /\ C \subseteq 1..Len(N)
      /\ Turns(s, t) \/ Turns(t, s)
  BY DEF Pair, Together, HasRead, Remembers
<1>2. SealsNext(r, m, s)
  BY <1>1, EncryptSeals
<1> HIDE DEF r, m
<1>3. /\ m \in WireMessage /\ m.dh = s.dhs /\ m.n = s.Ns /\ r.dhs = s.dhs /\ r.dhr = s.dhr
      /\ r.Nr = s.Nr /\ r.receiving_chain_key = s.receiving_chain_key
      /\ r.skipped_message_keys = s.skipped_message_keys /\ r.received_ids = s.received_ids
  BY <1>2 DEF SealsNext
<1>4. HasRead(r, M, D) /\ Between(r, t, M, D)
  BY <1>1, <1>3 DEF HasRead, Keeps, Follows, Between
<1>5. Numbered(r, Append(N, m))
  BY <1>1, <1>2, SealNumbered
<1>6. m.dh = t.dhr => KeyAt(m.mk, t.receiving_chain_key, m.n) /\ t.Nr <= m.n
  <2>1. CASE Turns(t, s)
    BY <1>3, <2>1 DEF Turns
  <2>2. CASE Turns(s, t)
    BY <1>2, <1>3, <2>2 DEF Turns, SealsNext, KeyAt
  <2> QED BY <1>1, <2>1, <2>2
<1>7. HasRead(t, Append(N, m), C)
  BY <1>1, <1>3, <1>6, SealHeard
<1>8. Between(t, r, Append(N, m), C)
  BY <1>1, <1>2, SealBetween
<1>9. Turns(r, t) \/ Turns(t, r)
  <2>1. s.Ns \in Nat /\ t.Ns \in Nat /\ s.Nr \in Nat /\ t.Nr \in Nat
    BY <1>1, SessionTypes
  <2> QED BY <1>1, <1>2, <2>1, SealTurns
<1> QED BY <1>1, <1>3, <1>4, <1>5, <1>7, <1>8, <1>9 DEF Together, r, m

\* One of two sessions reads a message it has not read.
LEMMA PairReads ==
    ASSUME NEW s, NEW t, NEW M, NEW N, NEW D, NEW C, Pair(s, t, M, N, D, C),
           NEW j \in (1..Len(M)) \ D, Fits(M), NEW fresh \in KeyPair,
           fresh # s.dhs, \A k \in 1..Len(N) : N[k].dh # fresh,
           \A k \in 1..(j - 1) : M[k].dh # M[j].dh => k \in D
    PROVE  LET out == ratchet_decrypt(s, M[j], fresh)
               r   == out.state
           IN  /\ out.result = "ok" /\ r.dhs \in {s.dhs, fresh}
               /\ Together(r, t, M, N, D \cup {j}, C)
<1> DEFINE out == ratchet_decrypt(s, M[j], fresh)
           r   == out.state
<1>1. HasRead(t, N, C) /\ Numbered(t, M) /\ (Turns(s, t) \/ Turns(t, s)) /\ C \subseteq 1..Len(N)
  BY DEF Pair, Together, HasRead, Remembers
<1>2. r.dhs \in {s.dhs, fresh} /\ ReadOn(out, t, M, N, D \cup {j}, C)
  <2>1. CASE Turns(t, s)
    <3>1. /\ ratchet_decrypt(s, M[j], fresh).state.dhs = s.dhs
          /\ ReadOn(ratchet_decrypt(s, M[j], fresh), t, M, N, D \cup {j}, C)
      BY <2>1, FollowerReads
    <3> QED BY <3>1
  <2>2. CASE Turns(s, t)
    BY <1>1, <2>2, LeaderReads
  <2> QED BY <1>1, <2>1, <2>2
<1> HIDE DEF r, out
<1>3. Together(r, t, M, N, D \cup {j}, C)
  BY <1>1, <1>2 DEF Together, ReadOn, r
<1> QED BY <1>2, <1>3 DEF ReadOn, r, out

\* The two clients after a step, from the two sessions.
LEMMA PairAgrees ==
    ASSUME NEW p \in Party, NEW s, NEW t, NEW M, NEW N, NEW D, NEW C,
           Together(s, t, M, N, D, C),
           Session(p)' = s, Session(Peer(p))' = t, sent'[Peer(p)] = M, sent'[p] = N,
           delivered'[p] = D, delivered'[Peer(p)] = C,
           \A q \in Party : FileCurrent(q)' /\ ShownInv(q)' /\ OwnKeys(q)'
    PROVE  Agreed'
<1>1. /\ Peer(p) \in Party /\ Peer(Peer(p)) = p
      /\ \A q \in Party : q = p \/ q = Peer(p)
  BY PeerIsOther
<1>2. /\ HasRead(s, M, D) /\ HasRead(t, N, C)
      /\ Between(s, t, M, D) /\ Between(t, s, N, C)
      /\ Numbered(s, N) /\ Numbered(t, M)
      /\ Turns(s, t) \/ Turns(t, s)
  BY DEF Together
<1>3. AgreeClient(p)'
  <2>1. HeardInv(p)'
    BY <1>2 DEF HeardInv
  <2> QED BY <1>2, <2>1 DEF AgreeClient
<1>4. AgreeClient(Peer(p))'
  <2>1. HeardInv(Peer(p))'
    BY <1>1, <1>2 DEF HeardInv
  <2> QED BY <1>1, <1>2, <2>1 DEF AgreeClient
<1>5. \A q \in Party : AgreeClient(q)'
  BY <1>1, <1>3, <1>4
<1>6. (\E q \in Party : Turns(Session(q), Session(Peer(q))))'
  BY <1>1, <1>2
<1> QED BY <1>5, <1>6 DEF Agreed

\* A message is sent.
LEMMA SendAgree ==
    ASSUME StoreInvariant, Agreed, NEW p \in Party, Send(p)
    PROVE  Agreed'
<1> DEFINE q == Peer(p)
           s == mem[p]
           t == Session(q)
           r == EncryptedState(s)
           m == EncryptedMessage(s)
           N == Append(sent[p], m)
<1>0. TypeOK /\ \A x \in Party : FileCurrent(x) /\ ShownInv(x) /\ OwnKeys(x)
  BY DEF StoreInvariant, Agreed, AgreeClient
<1>1. /\ pc[p] = "ready" /\ CanEncrypt(s)
      /\ mem' = [mem EXCEPT ![p] = r] /\ sent' = [sent EXCEPT ![p] = N]
      /\ sending' = [sending EXCEPT ![p] = TRUE]
      /\ UNCHANGED <<file, pc, due, generated, delivered, displayed>>
  BY DEF Send
<1>2. Session(p) = s
  BY <1>1 DEF Session
<1>3. Pair(s, t, sent[q], sent[p], delivered[p], delivered[q])
  BY <1>2, AgreedPair DEF PairOf
<1>4. /\ m \in WireMessage /\ m.dh = s.dhs /\ r.dhs = s.dhs
      /\ Together(r, t, sent[q], N, delivered[p], delivered[q])
  BY <1>1, <1>3, PairSeals
<1>5. /\ Len(N) = Len(sent[p]) + 1 /\ Len(sent[p]) \in Nat
      /\ \A j \in 1..Len(sent[p]) : N[j] = sent[p][j]
      /\ N[Len(sent[p]) + 1] = m
  <2>1. sent[p] \in Seq(WireMessage)
    BY <1>0 DEF TypeOK
  <2> QED BY <1>4, <2>1, AppendProperties, LenProperties
<1> HIDE DEF r, m, N
<1>6. /\ mem'[p] = r /\ sent'[p] = N /\ sending'[p] = TRUE
      /\ \A x \in Party \ {p} : mem'[x] = mem[x] /\ sent'[x] = sent[x] /\ sending'[x] = sending[x]
  BY <1>0, <1>1 DEF TypeOK
<1>7. q \in Party \ {p} /\ \A x \in Party : x = p \/ x = q
  BY PeerIsOther
<1>8. Session(p)' = r /\ Session(q)' = t
  BY <1>1, <1>6, <1>7 DEF Session
<1>9. FileCurrent(p)' /\ ShownInv(p)' /\ FileCurrent(q)' /\ ShownInv(q)'
  BY <1>0, <1>1, <1>6, <1>7 DEF FileCurrent, ShownInv
<1>10. OwnKeys(p)'
  <2>1. s.dhs \in Owned(p) /\ \A j \in 1..Len(sent[p]) : sent[p][j].dh \in Owned(p)
    BY <1>0, <1>2 DEF OwnKeys
  <2>2. \A j \in 1..Len(N) : j \in 1..Len(sent[p]) \/ j = Len(sent[p]) + 1
    BY <1>5
  <2>3. \A j \in 1..Len(N) : N[j].dh \in Owned(p)
    BY <1>4, <1>5, <2>1, <2>2
  <2>4. Owned(p)' = Owned(p)
    BY <1>1 DEF Owned
  <2> QED BY <1>4, <1>6, <1>8, <2>1, <2>3, <2>4 DEF OwnKeys
<1>11. OwnKeys(q)'
  <2>1. Owned(q)' = Owned(q)
    BY <1>1 DEF Owned
  <2> QED BY <1>0, <1>6, <1>7, <1>8, <2>1 DEF OwnKeys
<1>12. \A x \in Party : FileCurrent(x)' /\ ShownInv(x)' /\ OwnKeys(x)'
  BY <1>7, <1>9, <1>10, <1>11
<1>13. /\ sent'[Peer(p)] = sent[q] /\ delivered'[p] = delivered[p]
       /\ delivered'[Peer(p)] = delivered[q]
  BY <1>1, <1>6, <1>7
<1> HIDE DEF s, t
<1> QED BY <1>4, <1>6, <1>8, <1>12, <1>13, PairAgrees

\* The key pair p would generate next is new.
LEMMA FreshIsNew ==
    ASSUME StoreInvariant, NEW p \in Party
    PROVE  <<p, generated[p]>> \notin Owned(p)
<1>1. generated[p] \in Nat
  BY DEF StoreInvariant, TypeOK
<1> QED BY <1>1 DEF Owned

\* A message arrives.
LEMMA ReceiveAgree ==
    ASSUME StoreInvariant, Agreed, Calm, NEW p \in Party, NEW i \in 1..MaxSent, Receive(p, i)
    PROVE  Agreed'
<1> DEFINE q     == Peer(p)
           s     == mem[p]
           t     == Session(q)
           M     == sent[q]
           N     == sent[p]
           D     == delivered[p]
           fresh == <<p, generated[p]>>
           out   == ratchet_decrypt(s, M[i], fresh)
           r     == out.state
           ok    == out.result = "ok"
           gen   == IF r.dhs = s.dhs THEN generated[p] ELSE generated[p] + 1
           num   == IF ok THEN i ELSE 0
           next  == IF ok THEN "save_after_recv" ELSE "ready"
<1>0. TypeOK /\ ControlInv(p) /\ \A x \in Party : FileCurrent(x) /\ ShownInv(x) /\ OwnKeys(x)
  BY DEF StoreInvariant, ClientInv, Agreed, AgreeClient
<1>1. /\ pc[p] = "ready" /\ generated[p] < MaxGenerated /\ Arrives(p, i)
      /\ mem' = [mem EXCEPT ![p] = r] /\ generated' = [generated EXCEPT ![p] = gen]
      /\ pc' = [pc EXCEPT ![p] = next] /\ due' = [due EXCEPT ![p] = num]
      /\ delivered' = [delivered EXCEPT ![p] = D \cup {i}]
      /\ UNCHANGED <<file, sending, sent, displayed>>
  BY DEF Receive
<1>2. Session(p) = s
  BY <1>1 DEF Session
<1>3. Pair(s, t, M, N, D, delivered[q])
  BY <1>2, AgreedPair DEF PairOf
<1>4. i \in 1..Len(M) /\ \A k \in 1..(i - 1) : M[k].dh # M[i].dh => k \in D
  BY <1>1 DEF Arrives
<1>5. q \in Party \ {p} /\ \A x \in Party : x = p \/ x = q
  BY PeerIsOther
<1>6. fresh \in KeyPair
  <2>1. generated[p] \in 0..MaxGenerated
    BY <1>0 DEF TypeOK
  <2> QED BY <2>1, StoreAssumption
<1>7. /\ ok <=> i \notin D
      /\ r.dhs \in {s.dhs, fresh} /\ (~ ok => r = s)
      /\ Together(r, t, M, N, D \cup {i}, delivered[q])
  <2>1. CASE i \in D
    <3>1. Remembers(s.received_ids, M, D)
      BY <1>3 DEF Pair, Together, HasRead
    <3>2. out = Outcome(s, "DuplicateMessageError")
      BY <2>1, <3>1, DecryptAgain
    <3>3. r = s /\ ~ ok
      BY <3>2 DEF Outcome
    <3>4. D \cup {i} = D
      BY <2>1
    <3>5. Together(s, t, M, N, D, delivered[q])
      BY <1>3 DEF Pair
    <3> HIDE DEF r, ok, D
    <3> QED BY <2>1, <3>3, <3>4, <3>5
  <2>2. CASE i \notin D
    <3>1. fresh # s.dhs /\ \A k \in 1..Len(N) : N[k].dh # fresh
      BY <1>0, <1>2, FreshIsNew DEF OwnKeys
    <3>2. Fits(M) /\ i \in (1..Len(M)) \ D
      BY <1>4, <1>5, <2>2, CalmFits
    <3>3. ok /\ r.dhs \in {s.dhs, fresh} /\ Together(r, t, M, N, D \cup {i}, delivered[q])
      <4> HIDE DEF s, t, M, N, D, fresh
      <4> QED BY <1>3, <1>4, <1>6, <3>1, <3>2, PairReads
    <3> QED BY <2>2, <3>3
  <2> QED BY <2>1, <2>2
<1> HIDE DEF out, r, ok, gen, num, next
<1>8. /\ mem'[p] = r /\ generated'[p] = gen /\ pc'[p] = next /\ due'[p] = num
      /\ delivered'[p] = D \cup {i}
      /\ \A x \in Party \ {p} : /\ mem'[x] = mem[x] /\ generated'[x] = generated[x]
                                /\ pc'[x] = pc[x] /\ due'[x] = due[x]
                                /\ delivered'[x] = delivered[x]
  BY <1>0, <1>1 DEF TypeOK
<1>9. Session(p)' = r /\ Session(q)' = t
  BY <1>1, <1>5, <1>8 DEF Session, next
<1>10. FileCurrent(p)'
  BY <1>0, <1>1, <1>7, <1>8 DEF FileCurrent, next
<1>11. ShownInv(p)'
  <2>1. due[p] = 0 /\ D = (ToSet(displayed[p]) \cup {0}) \ {0}
    BY <1>0, <1>1 DEF ControlInv, ShownInv
  <2>2. i # 0
    OBVIOUS
  <2>3. D \cup {i} = (ToSet(displayed[p]) \cup {num}) \ {0}
    <3> HIDE DEF D
    <3> QED BY <1>7, <2>1, <2>2 DEF num
  <2> QED BY <1>1, <1>8, <2>3 DEF ShownInv
<1>12. OwnKeys(p)'
  <2>1. s.dhs \in Owned(p) /\ \A k \in 1..Len(N) : N[k].dh \in Owned(p)
    BY <1>0, <1>2 DEF OwnKeys
  <2>2. generated[p] \in Nat
    BY <1>0 DEF TypeOK
  <2>3. Owned(p) \subseteq Owned(p)'
    <3>1. 0..(generated[p] - 1) \subseteq 0..(gen - 1)
      BY <2>2 DEF gen
    <3> QED BY <1>8, <3>1 DEF Owned
  <2>4. r.dhs \in Owned(p)'
    <3>1. CASE r.dhs = s.dhs
      BY <2>1, <2>3, <3>1
    <3>2. CASE r.dhs # s.dhs
      <4>1. r.dhs = fresh /\ gen = generated[p] + 1
        BY <1>7, <3>2 DEF gen
      <4>2. generated[p] \in 0..(gen - 1)
        BY <2>2, <4>1
      <4> QED BY <1>8, <4>1, <4>2 DEF Owned
    <3> QED BY <3>1, <3>2
  <2> QED BY <1>1, <1>9, <2>1, <2>3, <2>4 DEF OwnKeys
<1>13. FileCurrent(q)' /\ ShownInv(q)'
  BY <1>0, <1>1, <1>5, <1>8 DEF FileCurrent, ShownInv
<1>14. OwnKeys(q)'
  <2>1. Owned(q)' = Owned(q)
    BY <1>5, <1>8 DEF Owned
  <2> QED BY <1>0, <1>1, <1>5, <1>9, <2>1 DEF OwnKeys
<1>15. \A x \in Party : FileCurrent(x)' /\ ShownInv(x)' /\ OwnKeys(x)'
  BY <1>5, <1>10, <1>11, <1>12, <1>13, <1>14
<1>16. /\ sent'[Peer(p)] = M /\ sent'[p] = N /\ delivered'[Peer(p)] = delivered[q]
  BY <1>1, <1>5, <1>8
<1> HIDE DEF s, t, M, N, D
<1> QED BY <1>7, <1>8, <1>9, <1>15, <1>16, PairAgrees

-----------------------------------------------------------------------------
(* The theorems about undisturbed clients. *)

\* A session with which nothing has been sent or read.
Unused(s, key) ==
    /\ s.received_ids = << >> /\ s.skipped_message_keys = << >>
    /\ s.dhr = None /\ s.Nr = 0 /\ s.Ns = 0 /\ s.dhs = key
    /\ s.sending_chain_key # None => s.sending_chain_key.i = 0 /\ s.sending_chain_key.root = s.root_key
    /\ s.receiving_chain_key # None => s.receiving_chain_key.i = 0

\* The sessions create_initial_state makes, with one root key.
LEMMA CreateInitialUnused ==
    ASSUME NEW first \in BOOLEAN, NEW key
    PROVE  LET s == create_initial_state(<< >>, first, key)
           IN  /\ Unused(s, key) /\ s.root_key = << >>
               /\ first => s.sending_chain_key = kdf_initial_chain(<< >>)
               /\ ~ first => s.sending_chain_key = None /\ s.receiving_chain_key = kdf_initial_chain(<< >>)
<1>1. kdf_initial_chain(<< >>).i = 0 /\ kdf_initial_chain(<< >>).root = << >>
  BY DEF kdf_initial_chain
<1> QED BY <1>1 DEF create_initial_state, Unused

\* Nothing sent and nothing read agree.
LEMMA UnusedAgree ==
    ASSUME NEW s, NEW t, NEW k, NEW l, Unused(s, k), Unused(t, l)
    PROVE  HasRead(s, << >>, {}) /\ Between(s, t, << >>, {}) /\ Numbered(s, << >>)
<1>1. Len(<< >>) = 0 /\ 1..0 = {} /\ Cardinality({}) = 0
  BY FS_EmptySet
<1>2. Remembers(s.received_ids, << >>, {})
  BY <1>1 DEF Remembers, Unused
<1>3. Keeps(s, << >>, {}) /\ Follows(s, << >>, {})
  BY <1>1 DEF Keeps, Follows, Unused
<1>4. Numbered(s, << >>)
  BY <1>1 DEF Numbered, IdsUnique, Gapless, Unused
<1>5. Between(s, t, << >>, {})
  BY <1>1 DEF Between
<1> QED BY <1>2, <1>3, <1>4, <1>5 DEF HasRead

\* Two new sessions: the initiator has the chain the responder follows.
LEMMA InitAgree == Init => Agreed
<1> SUFFICES ASSUME Init PROVE Agreed
  OBVIOUS
<1> DEFINE fresh(p) == create_initial_state(<< >>, p = Initiator, <<p, 0>>)
           a == fresh(Initiator)
           b == fresh(Responder)
           ck == kdf_initial_chain(<< >>)
<1>1. /\ Initiator \in Party /\ Responder \in Party /\ Initiator # Responder
      /\ Peer(Initiator) = Responder /\ Peer(Responder) = Initiator
  BY StoreAssumption DEF Party, Peer
<1>2. ASSUME NEW p \in Party
      PROVE  /\ mem[p] = fresh(p) /\ file[p].state = fresh(p) /\ pc[p] = "ready" /\ due[p] = 0
             /\ generated[p] = 1 /\ sent[p] = << >> /\ delivered[p] = {} /\ displayed[p] = << >>
             /\ Session(p) = fresh(p)
  <2>1. /\ mem[p] = fresh(p) /\ file[p].state = fresh(p) /\ pc[p] = "ready" /\ due[p] = 0
        /\ generated[p] = 1 /\ sent[p] = << >> /\ delivered[p] = {} /\ displayed[p] = << >>
    BY DEF Init
  <2> HIDE DEF fresh
  <2> QED BY <2>1 DEF Session
<1>3. \A p \in Party : Unused(fresh(p), <<p, 0>>)
  BY CreateInitialUnused
<1>4. /\ a.root_key = << >> /\ b.root_key = << >> /\ a.sending_chain_key = ck
      /\ b.sending_chain_key = None /\ b.receiving_chain_key = ck
  BY <1>1, CreateInitialUnused
<1>5. ck \in ChainKey /\ ck # None
  <2>1. << >> \in RootKey
    BY DEF RootKey
  <2>2. ck \in ChainKey
    BY <2>1 DEF kdf_initial_chain, ChainKey
  <2> HIDE DEF ck
  <2> QED BY <2>2, EngineAssumption
<1>6. <<Responder, 0>> \in KeyPair /\ <<Responder, 0>> # None
  BY <1>1, StoreAssumption, EngineAssumption
<1>7. ASSUME NEW p \in Party PROVE AgreeClient(p)
  <2> DEFINE s == fresh(p)
             t == fresh(Peer(p))
  <2>1. Peer(p) \in Party
    BY PeerIsOther
  <2>2. Unused(s, <<p, 0>>) /\ Unused(t, <<Peer(p), 0>>)
    BY <1>3, <2>1
  <2> HIDE DEF fresh
  <2>3. HasRead(s, << >>, {}) /\ Between(s, t, << >>, {}) /\ Numbered(s, << >>)
    BY <2>2, UnusedAgree
  <2>4. HeardInv(p) /\ Numbered(Session(p), sent[p])
    BY <1>2, <2>1, <2>3 DEF HeardInv
  <2>5. FileCurrent(p) /\ ShownInv(p)
    <3>1. ToSet(<< >>) = {}
      BY DEF ToSet
    <3> QED BY <1>2, <3>1 DEF FileCurrent, ShownInv
  <2>6. OwnKeys(p)
    <3>1. Len(<< >>) = 0 /\ 0 \in 0..(1 - 1)
      OBVIOUS
    <3>2. s.dhs = <<p, 0>>
      BY <2>2 DEF Unused
    <3>3. <<p, 0>> \in Owned(p)
      BY <1>2, <3>1 DEF Owned
    <3>4. 1..Len(sent[p]) = {}
      BY <1>2, <3>1
    <3> QED BY <1>2, <3>2, <3>3, <3>4 DEF OwnKeys
  <2> QED BY <2>4, <2>5, <2>6 DEF AgreeClient
<1>8. Turns(Session(Initiator), Session(Responder))
  <2>1. Unused(a, <<Initiator, 0>>) /\ Unused(b, <<Responder, 0>>)
    BY <1>1, <1>3
  <2>2. Session(Initiator) = a /\ Session(Responder) = b
    BY <1>1, <1>2
  <2> HIDE DEF a, b, ck
  <2>3. Turns(a, b)
    BY <1>4, <1>5, <1>6, <2>1 DEF Turns, Unused
  <2> QED BY <2>2, <2>3
<1> QED BY <1>1, <1>7, <1>8 DEF Agreed

\* A step counts at most one fault of each kind, and only Send adds a message.
LEMMA StepCounts ==
    ASSUME [Next]_vars
    PROVE  /\ crashes' \in {crashes, crashes + 1}
           /\ interrupts' \in {interrupts, interrupts + 1}
           /\ diskErrors' \in {diskErrors, diskErrors + 1}
           /\ sent' = sent \/ \E p \in Party : Send(p)
<1>1. CASE UNCHANGED vars
  BY <1>1 DEF vars
<1>2. CASE Next
  <2> PICK p \in Party :
        \/ Send(p) \/ SaveAfterSend(p) \/ SaveAfterSendFails(p) \/ ReplaceAfterSend(p)
        \/ \E j \in 1..MaxSent : Receive(p, j)
        \/ SaveAfterRecv(p) \/ SaveAfterRecvFails(p) \/ ReplaceAfterRecv(p)
        \/ PrintText(p)
        \/ Crash(p) \/ Quit(p) \/ Interrupt(p) \/ Restart(p)
    BY <1>2 DEF Next
  <2>1. CASE Send(p)
    BY <2>1 DEF Send, faults
  <2>2. CASE SaveAfterSend(p) \/ SaveAfterRecv(p)
    BY <2>2 DEF SaveAfterSend, SaveAfterRecv, WriteTmp, channel, stops
  <2>3. CASE SaveAfterSendFails(p) \/ SaveAfterRecvFails(p)
    <3>1. diskErrors' \in {diskErrors, diskErrors + 1}
      BY <2>3 DEF SaveAfterSendFails, SaveAfterRecvFails, SaveRaises
    <3>2. crashes' = crashes /\ interrupts' = interrupts /\ sent' = sent
      BY <2>3 DEF SaveAfterSendFails, SaveAfterRecvFails, channel, stops
    <3> QED BY <3>1, <3>2
  <2>4. CASE ReplaceAfterSend(p) \/ ReplaceAfterRecv(p) \/ PrintText(p) \/ Restart(p)
    BY <2>4 DEF ReplaceAfterSend, ReplaceAfterRecv, PrintText, Restart, channel, faults
  <2>5. CASE \E j \in 1..MaxSent : Receive(p, j)
    BY <2>5 DEF Receive, faults
  <2>6. CASE Crash(p) \/ Quit(p) \/ Interrupt(p)
    BY <2>6 DEF Crash, Quit, Interrupt, Stop, channel
  <2> QED BY <2>1, <2>2, <2>3, <2>4, <2>5, <2>6
<1> QED BY <1>1, <1>2

\* What is calm after a step was calm before it: faults and messages only add up.
LEMMA CalmBefore ==
    ASSUME StoreInvariant, [Next]_vars, Calm'
    PROVE  Calm
<1>0. TypeOK
  BY DEF StoreInvariant
<1>1. /\ crashes' = 0 => crashes = 0
      /\ interrupts' = 0 => interrupts = 0
      /\ diskErrors' = 0 => diskErrors = 0
  <2>1. crashes \in Nat /\ interrupts \in Nat /\ diskErrors \in Nat
    BY <1>0, StoreAssumption DEF TypeOK
  <2>2. /\ crashes' \in {crashes, crashes + 1} /\ interrupts' \in {interrupts, interrupts + 1}
        /\ diskErrors' \in {diskErrors, diskErrors + 1}
    BY StepCounts
  <2> QED BY <2>1, <2>2
<1>2. ASSUME NEW q \in Party PROVE Len(sent[q]) <= Len(sent'[q]) /\ Len(sent[q]) \in Nat
                                   /\ Len(sent'[q]) \in Nat
  <2>0. sent[q] \in Seq(WireMessage) /\ Len(sent[q]) \in Nat
    BY <1>0, LenProperties DEF TypeOK
  <2>1. sent' = sent \/ \E p \in Party : Send(p)
    BY StepCounts
  <2>2. CASE sent' = sent
    BY <2>0, <2>2
  <2>3. ASSUME NEW p \in Party, Send(p)
        PROVE  Len(sent[q]) <= Len(sent'[q]) /\ Len(sent'[q]) \in Nat
    <3>1. sent' = [sent EXCEPT ![p] = Append(sent[p], EncryptedMessage(mem[p]))]
      BY <2>3 DEF Send
    <3>2. sent'[q] = sent[q] \/ sent'[q] = Append(sent[q], EncryptedMessage(mem[p]))
      BY <1>0, <3>1 DEF TypeOK
    <3>3. StoreInvariant'
      BY <2>3, SendStore
    <3>4. Len(sent'[q]) \in Nat
      BY <3>3, LenProperties DEF StoreInvariant, TypeOK
    <3>5. Len(Append(sent[q], EncryptedMessage(mem[p]))) = Len(sent[q]) + 1
      <4> HIDE DEF EncryptedMessage
      <4>1. EncryptedMessage(mem[p]) \in WireMessage
        BY <2>3, RatchetEncryptInv DEF Send, StoreInvariant, ClientInv, MemInv
      <4> QED BY <2>0, <4>1, AppendProperties
    <3> QED BY <2>0, <3>2, <3>4, <3>5
  <2> QED BY <2>0, <2>1, <2>2, <2>3
<1>3. \A q \in Party : /\ Len(sent'[q]) <= MaxReceivedIds
                       /\ Len(sent'[q]) <= MAX_SKIP_DISTANCE + 1
                       /\ Len(sent'[q]) <= MaxSkippedKeys + 1
  BY DEF Calm, Undisturbed, WithinLimits
<1>4. \A q \in Party : /\ Len(sent[q]) <= MaxReceivedIds
                       /\ Len(sent[q]) <= MAX_SKIP_DISTANCE + 1
                       /\ Len(sent[q]) <= MaxSkippedKeys + 1
  <2> TAKE q \in Party
  <2>1. /\ MaxReceivedIds \in Nat /\ MAX_SKIP_DISTANCE + 1 \in Nat /\ MaxSkippedKeys + 1 \in Nat
    BY EngineAssumption
  <2> QED BY <1>2, <1>3, <2>1
<1> QED BY <1>1, <1>4 DEF Calm, Undisturbed, WithinLimits

\* AgreeInv is inductive.
LEMMA NextAgree ==
    ASSUME StoreInvariant, AgreeInv, [Next]_vars
    PROVE  AgreeInv'
<1> SUFFICES ASSUME Calm' PROVE Agreed'
  BY DEF AgreeInv
<1>0. Calm /\ Agreed
  BY CalmBefore DEF AgreeInv
<1>1. CASE UNCHANGED vars
  <2>1. /\ UNCHANGED <<mem, file, pc, sending, due, generated, sent, delivered, displayed>>
    BY <1>1 DEF vars
  <2>2. \A q \in Party : Session(q)' = Session(q) /\ FileCurrent(q)' /\ ShownInv(q)'
    BY <1>0, <2>1, OtherSession DEF Agreed, AgreeClient
  <2> QED BY <1>0, <2>1, <2>2, QuietAgree
<1>2. CASE Next
  <2> PICK p \in Party :
        \/ Send(p) \/ SaveAfterSend(p) \/ SaveAfterSendFails(p) \/ ReplaceAfterSend(p)
        \/ \E j \in 1..MaxSent : Receive(p, j)
        \/ SaveAfterRecv(p) \/ SaveAfterRecvFails(p) \/ ReplaceAfterRecv(p)
        \/ PrintText(p)
        \/ Crash(p) \/ Quit(p) \/ Interrupt(p) \/ Restart(p)
    BY <1>2 DEF Next
  <2>1. ~ Crash(p) /\ ~ Interrupt(p)
    <3>1. crashes \in Nat /\ interrupts \in Nat
      BY StoreAssumption DEF StoreInvariant, TypeOK
    <3>2. crashes' = 0 /\ interrupts' = 0
      BY DEF Calm, Undisturbed
    <3> QED BY <3>1, <3>2 DEF Crash, Interrupt
  <2> QED BY <1>0, <2>1, SendAgree, SaveAgree, ReplaceAgree, ReceiveAgree, PrintAgree, QuitAgree,
             RestartAgree
<1> QED BY <1>1, <1>2

\* ... and holds in every state.
LEMMA AgreeHolds == Spec => []AgreeInv
<1>1. Init => AgreeInv
  BY InitAgree DEF AgreeInv
<1> QED BY <1>1, NextAgree, StoreInvariantHolds, PTL DEF Spec

\* Of two clients that end only while no message is being sent, and of which no
\* store overflows, each has printed or is about to print every message that recv_loop was handed, over
\* any order of arrival, repetition and restart.
THEOREM ArrivalsAreShown == Spec => []ArrivedIsShown
<1>1. AgreeInv => ArrivedIsShown
  BY DEF AgreeInv, Calm, Agreed, AgreeClient, ShownInv, ArrivedIsShown
<1> QED BY <1>1, AgreeHolds, PTL

\* ... and their root keys stay together: one is the other, or one derivation
\* ahead of it.
THEOREM RootsStayTogether == Spec => []RootsAgree
<1>1. StoreInvariant /\ AgreeInv => RootsAgree
  <2> SUFFICES ASSUME StoreInvariant, Agreed PROVE RootsAgree
    BY DEF AgreeInv, Calm, RootsAgree
  <2> DEFINE a == Session(Initiator).root_key
             b == Session(Responder).root_key
  <2>1. /\ Initiator \in Party /\ Peer(Initiator) = Responder /\ Responder \in Party
    BY StoreAssumption DEF Party, Peer
  <2>2. a \in Seq(SUBSET KeyPair) /\ b \in Seq(SUBSET KeyPair)
    BY <2>1, SessionsAreSound, SessionTypes DEF RatchetState, RootKey
  <2>3. PairOf(Initiator)
    BY <2>1, AgreedPair
  <2>4. \E e : b = a \/ b = Append(a, e) \/ a = Append(b, e)
    BY <2>1, <2>3 DEF PairOf, Pair, Together, Turns
  <2> HIDE DEF a, b
  <2>5. IsPrefix(a, b) \/ IsPrefix(b, a)
    BY <2>2, <2>4 DEF IsPrefix
  <2> QED BY <2>5 DEF RootsAgree, a, b
<1> QED BY <1>1, AgreeHolds, StoreInvariantHolds, PTL
=============================================================================
