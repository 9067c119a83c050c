---------------------------- MODULE SessionStack ----------------------------
(***************************************************************************)
(* The in-memory session stack: the endpoints of client/message_api.py,    *)
(* each with a SessionManager.  An envelope goes straight into the         *)
(* recipient's inbox (send_text) or through the relay.  The relay is here  *)
(* what MixRelay is shown to be: it may delay, reorder and repeat sealed   *)
(* envelopes, and it brings dummy packets.                                 *)
(***************************************************************************)
EXTENDS SessionManager

CONSTANTS
    Endpoint,       \* the profiles
    Link,           \* the sessions, as pairs of initiator and responder
    MaxSent,        \* bound: envelopes with a message
    MaxDummies,     \* bound: dummy and cover packets
    MaxRepeats      \* bound: envelopes the relay hands out again

\* The key pair p starts the session with q with, and the one after it.
FirstKey(p, q) == <<p, q, 0>>
FreshKey(k) == <<k[1], k[2], k[3] + 1>>

\* All key pairs of this naming, of any age.
OwnedKey == Endpoint \X Endpoint \X Nat

ASSUME StackAssumption ==
    /\ \A l \in Link : l \in Endpoint \X Endpoint /\ l[1] # l[2] /\ <<l[2], l[1]>> \notin Link
    /\ None \notin OwnedKey /\ None \notin Seq(SUBSET OwnedKey)
    /\ None \notin [root : Seq(SUBSET OwnedKey), i : Nat]
    /\ MaxSent \in Nat /\ MaxDummies \in Nat /\ MaxRepeats \in Nat

VARIABLES
    session,    \* session[p][q]: the SessionContext p has for q
    inbox,      \* inbox[p]: InMemoryEndpoint.inbox
    sent,       \* the envelopes with a message, in the order they were made
    dummies,    \* how many dummy and cover packets were made
    transit,    \* the sealed envelopes at the relay
    repeats,    \* how many envelopes the relay has handed out and kept
    opened,     \* opened[p][q]: what the ratchet of this session has decrypted
    shown,      \* shown[p]: what recv_text and recv_sealed have returned
    dropped,    \* dropped[p]: what recv_sealed has dropped as undecryptable
    errors      \* errors[p][q]: what decrypting with this session has raised

vars == <<session, inbox, transit, sent, dummies, repeats, opened, shown, dropped, errors>>
history == <<opened, shown, dropped, errors>>

PeersOf(p) == {q \in Endpoint : <<p, q>> \in Link \/ <<q, p>> \in Link}

\* register_endpoint and create_symmetric_session for both ends of every link.
Init ==
    /\ session = [p \in Endpoint |-> [q \in PeersOf(p) |->
                    create_symmetric_session(<< >>, FirstKey(p, q), FirstKey(q, p),
                                             <<p, q>> \in Link)]]
    /\ inbox = [p \in Endpoint |-> << >>]
    /\ sent = << >>
    /\ dummies = 0
    /\ transit = {}
    /\ repeats = 0
    /\ opened = [p \in Endpoint |-> [q \in PeersOf(p) |-> {}]]
    /\ shown = [p \in Endpoint |-> << >>]
    /\ dropped = [p \in Endpoint |-> {}]
    /\ errors = [p \in Endpoint |-> [q \in PeersOf(p) |-> {}]]

-----------------------------------------------------------------------------
(* Envelopes: a ProtocolEnvelope, a SealedOuterEnvelope, a dummy. *)

Plain(p, q) ==
    [kind |-> "plain", from |-> p, to |-> q, seal |-> None,
     m |-> SentMessage(session[p][q])]

Sealed(p, q) ==
    [kind |-> "sealed", from |-> p, to |-> q, seal |-> SealingKey(session[p][q]),
     m |-> SentMessage(session[p][q])]

\* make_dummy_sealed_outer: a sealed envelope to look at.
Dummy(q) == [kind |-> "sealed", from |-> None, to |-> q, seal |-> None, m |-> None]

IsSealed(env) == env.kind = "sealed"

\* What encrypt_for and encrypt_sealed do at the sender.
Encrypts(p, q, env) ==
    /\ Len(sent) < MaxSent
    /\ q \in PeersOf(p)
    /\ CanEncrypt(session[p][q].ratchet)
    /\ session' = [session EXCEPT ![p][q] = SentContext(@)]
    /\ sent' = Append(sent, env)
    /\ UNCHANGED <<dummies, repeats, history>>

\* send_text: straight into the recipient's inbox.
send_text(p, q, sealed_sender) ==
    LET env == IF sealed_sender THEN Sealed(p, q) ELSE Plain(p, q)
    IN  /\ Encrypts(p, q, env)
        /\ inbox' = [inbox EXCEPT ![q] = Append(@, env)]
        /\ UNCHANGED transit

\* encrypt_sealed, and the envelope handed to the relay.
SendRelayed(p, q) ==
    /\ Encrypts(p, q, Sealed(p, q))
    /\ transit' = transit \cup {Sealed(p, q)}
    /\ UNCHANGED inbox

\* The relay hands out an envelope; a MemoryMailboxStore also keeps it.
Arrive(env) ==
    /\ env \in transit
    /\ inbox' = [inbox EXCEPT ![env.to] = Append(@, env)]
    /\ \/ transit' = transit \ {env} /\ UNCHANGED repeats
       \/ repeats < MaxRepeats /\ repeats' = repeats + 1 /\ UNCHANGED transit
    /\ UNCHANGED <<session, sent, dummies, history>>

\* A dummy or cover packet arrives.
ArriveDummy(q) ==
    /\ dummies < MaxDummies
    /\ dummies' = dummies + 1
    /\ inbox' = [inbox EXCEPT ![q] = Append(@, Dummy(q))]
    /\ UNCHANGED <<session, transit, sent, repeats, history>>

-----------------------------------------------------------------------------
(* recv_text and recv_sealed: one pass over the inbox, ended by the first   *)
(* exception.  What was decrypted before it in the same call is not         *)
(* returned.                                                                *)

\* The pass so far.
Pass(p) ==
    [ctx |-> session[p], kept |-> << >>, out |-> << >>, raised |-> FALSE,
     opened |-> opened[p], dropped |-> dropped[p], errors |-> errors[p]]

Keep(a, env) == [a EXCEPT !.kept = Append(@, env)]

\* decrypt_from with the session for q.
Decrypts(a, q, env) ==
    LET r  == decrypt_from(a.ctx[q], env.m, FreshKey(a.ctx[q].ratchet.dhs))
        ok == r.result = "ok"
    IN  [ctx     |-> [a.ctx EXCEPT ![q] = r.ctx],
         kept    |-> a.kept,
         out     |-> IF ok THEN Append(a.out, [peer |-> q, env |-> env]) ELSE a.out,
         raised  |-> ~ ok,
         opened  |-> [a.opened EXCEPT ![q] = IF ok THEN @ \cup {env.m} ELSE @],
         dropped |-> a.dropped,
         errors  |-> [a.errors EXCEPT ![q] = IF ok THEN @ ELSE @ \cup {r.result}]]

\* A plausible slip: an envelope that cannot be unsealed counts as a replay.
DecryptsSealedMarking(a, env, drop_undecryptable) ==
    LET opens == {q \in DOMAIN a.ctx : Unseals(a.ctx[q], env)}
    IN  IF opens # {} THEN Decrypts(a, CHOOSE q \in opens : TRUE, env)
        ELSE [a EXCEPT !.dropped = @ \cup {env}, !.raised = ~ drop_undecryptable,
                       !.ctx = [q \in DOMAIN @ |-> mark_for_reset(@[q], "replay-detected")]]

\* decrypt_sealed: the session whose sealing key opens the payload, if any.
DecryptsSealed(a, env, drop_undecryptable) ==
    LET opens == {q \in DOMAIN a.ctx : Unseals(a.ctx[q], env)}
    IN  IF opens # {} THEN Decrypts(a, CHOOSE q \in opens : TRUE, env)
        ELSE [a EXCEPT !.dropped = @ \cup {env}, !.raised = ~ drop_undecryptable]

Finish(p, a) ==
    /\ session' = [session EXCEPT ![p] = a.ctx]
    /\ inbox' = [inbox EXCEPT ![p] = a.kept]
    /\ opened' = [opened EXCEPT ![p] = a.opened]
    /\ shown' = [shown EXCEPT ![p] = IF a.raised THEN @ ELSE @ \o a.out]
    /\ dropped' = [dropped EXCEPT ![p] = a.dropped]
    /\ errors' = [errors EXCEPT ![p] = a.errors]
    /\ UNCHANGED <<transit, sent, dummies, repeats>>

\* Every plain envelope is decrypted with the session for peer, whoever sent it.
TextStep(a, env, peer) ==
    IF a.raised \/ IsSealed(env) THEN Keep(a, env) ELSE Decrypts(a, peer, env)

SealedStep(a, env, drop_undecryptable) ==
    IF a.raised \/ ~ IsSealed(env) THEN Keep(a, env)
    ELSE DecryptsSealed(a, env, drop_undecryptable)

recv_text(p, peer) ==
    LET after[k \in 0..Len(inbox[p])] ==
            IF k = 0 THEN Pass(p) ELSE TextStep(after[k - 1], inbox[p][k], peer)
    IN  /\ peer \in PeersOf(p)
        /\ \E j \in 1..Len(inbox[p]) : ~ IsSealed(inbox[p][j])
        /\ Finish(p, after[Len(inbox[p])])

recv_sealed(p, drop_undecryptable) ==
    LET after[k \in 0..Len(inbox[p])] ==
            IF k = 0 THEN Pass(p) ELSE SealedStep(after[k - 1], inbox[p][k], drop_undecryptable)
    IN  /\ \E j \in 1..Len(inbox[p]) : IsSealed(inbox[p][j])
        /\ Finish(p, after[Len(inbox[p])])

Next ==
    \/ \E p, q \in Endpoint, sealed_sender \in BOOLEAN : send_text(p, q, sealed_sender)
    \/ \E p, q \in Endpoint : SendRelayed(p, q)
    \/ \E env \in transit : Arrive(env)
    \/ \E q \in Endpoint : ArriveDummy(q)
    \/ \E p, q \in Endpoint : recv_text(p, q)
    \/ \E p \in Endpoint, drop \in BOOLEAN : recv_sealed(p, drop)

Spec == Init /\ [][Next]_vars

-----------------------------------------------------------------------------
(* Properties. *)

Envelope ==
    [kind : {"plain", "sealed"}, from : Endpoint, to : Endpoint,
     seal : RootKey \cup {None}, m : EncryptedMessage]

\* The variables hold what the code can store in them.
TypeOK ==
    /\ \A p \in Endpoint : \A q \in PeersOf(p) : session[p][q] \in SessionContext
    /\ \A p \in Endpoint : inbox[p] \in Seq(Envelope \cup {Dummy(p)})
    /\ transit \subseteq Envelope
    /\ sent \in Seq(Envelope)
    /\ dummies \in 0..MaxDummies /\ repeats \in 0..MaxRepeats
    /\ \A p \in Endpoint : shown[p] \in Seq([peer : Endpoint, env : Envelope])

\* Only envelopes that the peer made with its first key were decrypted with the
\* session, and the skipped-key store has not overflowed.
Clean(p, q) ==
    /\ \A k \in session[p][q].seen : k.dh = FirstKey(q, p)
    /\ "SkippedKeyStorageLimitError" \notin errors[p][q]

\* The replay cache and the ratchet, which know nothing of each other, stay in
\* step: the next number the ratchet expects is the one after the highest the
\* cache has accepted, and the receiving chain has been advanced as often.
CacheInStepWithRatchet ==
    \A p \in Endpoint : \A q \in PeersOf(p) : Clean(p, q) =>
        LET c == session[p][q]
        IN  /\ c.ratchet.ck_r # None => c.ratchet.ck_r.i = c.ratchet.Nr
            /\ c.seen = {} => c.ratchet.Nr = 0
            /\ \A h \in c.highest : c.ratchet.Nr = h.n + 1

\* A message that the replay cache has let through is decrypted: the cache
\* marks it before fork detection and the ratchet are asked, so a failure of
\* either would burn it.  Two honest peers never look forked to each other,
\* whatever the relay delays, reorders and repeats.
AcceptedIsDecrypted ==
    \A p \in Endpoint : \A q \in PeersOf(p) : Clean(p, q) =>
        /\ session[p][q].seen = {HeaderId(m) : m \in opened[p][q]}
        /\ errors[p][q] \subseteq {"replayed-or-stale"}

\* A later message of the chain was taken before this one.
Overtaken(p, q) ==
    \E j, k \in 1..Len(sent) :
        /\ j < k
        /\ sent[j].from = q /\ sent[j].to = p /\ sent[j].m \notin opened[p][q]
        /\ sent[k].m \in opened[p][q]

\* A session is marked for reset only when the relay has repeated an envelope,
\* one was overtaken, or the replay cache is full.  A dummy marks nothing.
ResetHasReason ==
    \A p \in Endpoint : \A q \in PeersOf(p) :
        Clean(p, q) /\ session[p][q].reset # None =>
            \/ repeats > 0
            \/ Overtaken(p, q)
            \/ Cardinality(session[p][q].seen) = MaxEntries

\* What recv_text and recv_sealed return as coming from a peer comes from it and
\* was meant for the reader, also where recv_text tried the wrong session.
ShownFromPeer ==
    \A p \in Endpoint : \A j \in 1..Len(shown[p]) :
        shown[p][j].env.from = shown[p][j].peer /\ shown[p][j].env.to = p

\* No message key seals two messages, of one endpoint or of two, also after a
\* session was led astray by the envelope of another peer.
NoKeyReuse ==
    \A j, k \in 1..Len(sent) : sent[j].m.mk = sent[k].m.mk => j = k

\* Every real sealed envelope is unsealed by its recipient.
RealNeverDropped ==
    \A p \in Endpoint : \A env \in dropped[p] : env = Dummy(p)
=============================================================================
