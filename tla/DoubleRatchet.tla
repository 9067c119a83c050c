--------------------------- MODULE DoubleRatchet ---------------------------
(***************************************************************************)
(* Two clients that talk through the Double Ratchet engine over a channel  *)
(* that may lose, reorder and duplicate messages.  Every message ever sent *)
(* stays in sent and may be delivered at any later time, again and again,  *)
(* or never.                                                               *)
(***************************************************************************)
EXTENDS RatchetEngine

CONSTANTS
    Initiator, Responder,   \* the two clients
    MaxSent,                \* bound: messages a client encrypts
    MaxGenerated            \* bound: key pairs a client generates

Party == {Initiator, Responder}

ASSUME PartyAssumption ==
    /\ Initiator # Responder
    /\ \A p \in Party, k \in 0..MaxGenerated : <<p, k>> \in KeyPair
    /\ MaxSent \in Nat
    /\ MaxGenerated \in Nat \ {0}

VARIABLES
    st,         \* st[p]: the DoubleRatchetState of p's engine
    generated,  \* generated[p]: how many key pairs p has generated
    sent,       \* sent[p]: the messages p has sent, in order
    delivered,  \* delivered[p]: the messages handed to p's ratchet_decrypt
    accepted    \* accepted[p]: the messages p's ratchet_decrypt returned, in order

vars == <<st, generated, sent, delivered, accepted>>

Peer(p) == IF p = Initiator THEN Responder ELSE Initiator

Elements(seq) == {seq[j] : j \in 1..Len(seq)}

\* Both sides hold the X3DH root key, whose derivation is not modelled here.
Init ==
    /\ st = [p \in Party |->
               create_initial_state(<< >>, p = Initiator, <<p, 0>>)]
    /\ generated = [p \in Party |-> 1]
    /\ sent = [p \in Party |-> << >>]
    /\ delivered = [p \in Party |-> {}]
    /\ accepted = [p \in Party |-> << >>]

\* DoubleRatchetEngine.ratchet_encrypt at p.
Encrypt(p) ==
    /\ Len(sent[p]) < MaxSent
    /\ CanEncrypt(st[p])
    /\ st' = [st EXCEPT ![p] = EncryptedState(@)]
    /\ sent' = [sent EXCEPT ![p] = Append(@, EncryptedMessage(st[p]))]
    /\ UNCHANGED <<generated, delivered, accepted>>

\* DoubleRatchetEngine.ratchet_decrypt at p of the j-th message of the peer.
\* A key pair is generated exactly when the call changes dhs.
Decrypt(p, j) ==
    /\ j \in 1..Len(sent[Peer(p)])
    /\ generated[p] < MaxGenerated
    /\ LET m   == sent[Peer(p)][j]
           out == ratchet_decrypt(st[p], m, <<p, generated[p]>>)
       IN  /\ st' = [st EXCEPT ![p] = out.state]
           /\ generated' = [generated EXCEPT ![p] =
                              IF out.state.dhs = st[p].dhs THEN @ ELSE @ + 1]
           /\ delivered' = [delivered EXCEPT ![p] = @ \cup {m}]
           /\ accepted' = [accepted EXCEPT ![p] =
                             IF out.result = "ok" THEN Append(@, m) ELSE @]
    /\ UNCHANGED sent

Next ==
    \E p \in Party :
        \/ Encrypt(p)
        \/ \E j \in 1..MaxSent : Decrypt(p, j)

Spec == Init /\ [][Next]_vars

-----------------------------------------------------------------------------
(* Properties. *)

\* The state has the shape of DoubleRatchetState and of the wire messages:
\* counters are never negative, an unset key is None.
TypeOK ==
    /\ st \in [Party -> RatchetState]
    /\ generated \in [Party -> Nat]
    /\ sent \in [Party -> Seq(WireMessage)]
    /\ delivered \in [Party -> SUBSET WireMessage]
    /\ accepted \in [Party -> Seq(WireMessage)]

\* ratchet_decrypt never returns the same message twice, whatever the channel
\* repeats and however small the received_ids window is.
AcceptedOnce ==
    \A p \in Party : \A j, k \in 1..Len(accepted[p]) :
        accepted[p][j].mk = accepted[p][k].mk => j = k

Ahead(ck, mk) ==
    ck # None /\ ck.label = mk.label /\ ck.root = mk.root /\ ck.i <= mk.i

\* The message keys an engine still has or can compute without its root key:
\* those stored as skipped and those its two chains have not passed.
FromChains(s, mk) ==
    \/ \E j \in 1..Len(s.skipped_message_keys) : s.skipped_message_keys[j].mk = mk
    \/ Ahead(s.receiving_chain_key, mk)
    \/ Ahead(s.sending_chain_key, mk)

\* Those it can compute from its root key: the initial chain of that root from
\* its beginning, and the chain of its own key pair with any other key.
FromRoot(s, mk) ==
    \/ Ahead(kdf_initial_chain(s.root_key), mk)
    \/ \E dh \in KeyPair : Ahead(kdf_root(s.root_key, dh_secret(s.dhs, dh)).chain, mk)

\* Forward secrecy.  Once ratchet_decrypt has returned a message and once
\* ratchet_encrypt has sealed one, the chains and the store of the engine no
\* longer give its key; nor does the root key, once a DH step has replaced the
\* X3DH root.  Until then kdf_initial_chain(root_key) gives the used keys of the
\* first chain again: so long they are not forward secret.
KeysErased ==
    \A p \in Party :
        /\ \A j \in 1..Len(accepted[p]) : ~ FromChains(st[p], accepted[p][j].mk)
        /\ \A j \in 1..Len(sent[p]) : ~ Ahead(st[p].sending_chain_key, sent[p][j].mk)
        /\ st[p].root_key # << >> =>
              /\ \A j \in 1..Len(accepted[p]) : ~ FromRoot(st[p], accepted[p][j].mk)
              /\ \A j \in 1..Len(sent[p]) : ~ FromRoot(st[p], sent[p][j].mk)

\* No message key, hence no AEAD key and nonce, ever seals two messages, of
\* one client or of both.
NoKeyReuse ==
    \A p, q \in Party : \A j \in 1..Len(sent[p]), k \in 1..Len(sent[q]) :
        sent[p][j].mk = sent[q][k].mk => p = q /\ j = k

\* The ids (dh, n) a client puts in its headers never recur and grow within a
\* chain: what makes received_ids and the skipped-key store work.
IdsNeverRecur ==
    \A p \in Party : \A j, k \in 1..Len(sent[p]) :
        j < k /\ sent[p][j].dh = sent[p][k].dh => sent[p][j].n < sent[p][k].n

\* The two stores keep to their limits, and a skipped id is stored once, also
\* after an old chain has been entered again.
StoresBounded ==
    \A p \in Party :
        LET skipped == st[p].skipped_message_keys
        IN  /\ Len(st[p].received_ids) <= MaxReceivedIds
            /\ Len(skipped) <= MaxSkippedKeys
            /\ \A j, k \in 1..Len(skipped) : skipped[j].id = skipped[k].id => j = k

CountersStep ==
    \A p \in Party :
        /\ st'[p].dhs = st[p].dhs => st'[p].Ns >= st[p].Ns
        /\ st'[p].dhr = st[p].dhr /\ st'[p].dhs = st[p].dhs
              => st'[p].Nr >= st[p].Nr

\* Within a chain the counters never go back: Ns while the own ratchet key
\* stays, Nr while both ratchet keys do.
CountersMonotonic == [][CountersStep]_vars

SkipStep ==
    \A p \in Party :
        LET start == IF st'[p].dhs = st[p].dhs THEN st[p].Nr ELSE 0
        IN  st'[p].Nr - start <= MAX_SKIP_DISTANCE + 1

\* One received message advances the receiving chain by no more than
\* MAX_SKIP_DISTANCE skipped keys and its own, whatever number it carries.
SkipBounded == [][SkipStep]_vars

\* Every message handed to ratchet_decrypt is returned by it, at its first
\* arrival and out of order too, as long as no store has overflowed.
DeliveredIsAccepted ==
    \A p \in Party : delivered[p] = Elements(accepted[p])

Once == INSTANCE OnceChannel

\* The two engines, whatever their stores forget and the channel repeats,
\* implement a channel on which no message is sealed twice and every message
\* that is accepted was sent by the peer and is accepted once.
ImplementsOnceChannel == Once!OnceSpec
=============================================================================
