----------------------------- MODULE ChatClient -----------------------------
(***************************************************************************)
(* Several chat clients (client/client.py), each with ONE engine for       *)
(* whoever it talks to and one session file for each peer.  Three tasks    *)
(* share the engine: sender_loop, which suspends while a message is being  *)
(* sent, recv_loop, and handle_session_inits, which switches the engine to *)
(* the user whose session_init has arrived.                                *)
(*                                                                         *)
(* The start-up is one step here (its awaits are in Relay and Handshake),  *)
(* and so is a save (its parts are in PersistentSession).  Every client    *)
(* has uploaded its bundle in an earlier run, so a session is opened by    *)
(* X3DH.  The root key of a handshake is named by its ephemeral key: no    *)
(* other handshake has the same, and Handshake shows that both sides       *)
(* derive it.                                                              *)
(*                                                                         *)
(* Any registered user can post a payload that is not one of the Double    *)
(* Ratchet (send_raw, or a client with a legacy session).  recv_message    *)
(* gives it back as it is, and recv_loop saves and prints it like any      *)
(* other message.                                                          *)
(***************************************************************************)
EXTENDS RatchetEngine, FiniteSets

CONSTANTS
    Client,
    MaxStarts,      \* bound: starts of all clients together
    MaxSent,        \* bound: messages of all clients together
    MaxGenerated,   \* bound: key pairs a client generates
    MaxCrashes,     \* bound: crashes of all clients together
    MaxInterrupts,  \* bound: exits inside a pending send of all clients together
    MaxRaw          \* bound: payloads in the clear

\* A session as it is in memory and in a file.
Session == [state : RatchetState, version : Nat]

ASSUME ChatAssumption ==
    /\ None \notin Client /\ None \notin Session
    /\ \A u \in Client, k \in 0..MaxGenerated : <<u, k>> \in KeyPair
    /\ MaxStarts \in Nat /\ MaxSent \in Nat /\ MaxGenerated \in Nat
    /\ MaxCrashes \in Nat /\ MaxInterrupts \in Nat /\ MaxRaw \in Nat

VARIABLES
    engine,     \* engine_ref[0] and its session_version, None while u is down
    peer,       \* session_peer_ref[0]
    sending,    \* the peer whose message sender_loop is awaiting, or None
    file,       \* file[u][v]: u's session file with v, None if there is none
    inits,      \* _init_queue: session_init frames
    msgs,       \* _recv_queue: message frames; wire is None for a payload in the clear
    opk_used,   \* the first one-time prekey is consumed in this run
    generated,  \* how many key pairs u has generated
    handshakes, \* the handshakes initiated: ephemeral key and parties
    sent,       \* the messages sealed, in order
    shown,      \* shown[u]: the messages printed, in order; mk is None for one in the clear
    raced,      \* an engine was switched while its sender_loop was suspended
    misfiled,   \* a message in the clear has saved an engine for another than its peer
    starts, crashes, interrupts, raws

vars == <<engine, peer, sending, file, inits, msgs, opk_used, generated,
          handshakes, sent, shown, raced, misfiled, starts, crashes, interrupts, raws>>

\* What only an unusual end or a message in the clear changes.
faults == <<misfiled, crashes, interrupts, raws>>

Running(u) == engine[u] # None

Init ==
    /\ engine = [u \in Client |-> None]
    /\ peer = [u \in Client |-> None]
    /\ sending = [u \in Client |-> None]
    /\ file = [u \in Client |-> [v \in Client |-> None]]
    /\ inits = [u \in Client |-> << >>]
    /\ msgs = [u \in Client |-> << >>]
    /\ opk_used = [u \in Client |-> FALSE]
    /\ generated = [u \in Client |-> 0]
    /\ handshakes = {}
    /\ sent = << >>
    /\ shown = [u \in Client |-> << >>]
    /\ raced = FALSE /\ misfiled = FALSE
    /\ starts = 0 /\ crashes = 0 /\ interrupts = 0 /\ raws = 0

-----------------------------------------------------------------------------
(* session_store.py *)

\* SessionRollbackError: the file is newer than the session to be saved.
SaveRaises(s, u, v) == file[u][v] # None /\ file[u][v].version > s.version

\* save_session raises the version in memory and in the file.
Saved(s) == [s EXCEPT !.version = @ + 1]

\* u saves its engine for v; an error is logged.
SaveEngine(u, v) ==
    IF SaveRaises(engine[u], u, v)
    THEN UNCHANGED <<engine, file>>
    ELSE /\ engine' = [engine EXCEPT ![u] = Saved(@)]
         /\ file' = [file EXCEPT ![u][v] = Saved(engine[u])]

Fresh(u, k) == <<u, generated[u] + k>>

NewSession(eph, is_initiator, dhs) ==
    [state |-> create_initial_state(<<{eph}>>, is_initiator, dhs), version |-> 1]

-----------------------------------------------------------------------------
(* async_main up to the three tasks *)

\* The relay passes a frame on to a client that is there to read it.
Forwarded(queues, v, frame) ==
    IF Running(v) THEN [queues EXCEPT ![v] = Append(@, frame)] ELSE queues

\* X3DH with v; the session on disk is used when there is one, and the new root
\* key is then dropped.
Start(u, v) ==
    /\ ~ Running(u) /\ u # v
    /\ starts < MaxStarts /\ generated[u] + 2 <= MaxGenerated
    /\ starts' = starts + 1
    /\ handshakes' = handshakes \cup {[eph |-> Fresh(u, 0), from |-> u, to |-> v]}
    /\ inits' = Forwarded(inits, v, [from |-> u, eph |-> Fresh(u, 0)])
    /\ LET s == IF file[u][v] # None THEN file[u][v]
                ELSE Saved(NewSession(Fresh(u, 0), TRUE, Fresh(u, 1)))
       IN  /\ engine' = [engine EXCEPT ![u] = s]
           /\ file' = [file EXCEPT ![u][v] = s]
    /\ generated' = [generated EXCEPT ![u] = @ + 2]
    /\ peer' = [peer EXCEPT ![u] = v]
    /\ opk_used' = [opk_used EXCEPT ![u] = FALSE]
    /\ UNCHANGED <<sending, msgs, sent, shown, raced, faults>>

-----------------------------------------------------------------------------
(* sender_loop *)

\* The peer is taken, the message sealed and handed to the socket: suspended.
Send(u) ==
    /\ Running(u) /\ sending[u] = None
    /\ Len(sent) < MaxSent
    /\ CanEncrypt(engine[u].state)
    /\ LET to == peer[u]
           m  == EncryptedMessage(engine[u].state)
       IN  /\ sending' = [sending EXCEPT ![u] = to]
           /\ msgs' = Forwarded(msgs, to, [from |-> u, wire |-> m])
           /\ sent' = Append(sent, [from |-> u, to |-> to, mk |-> m.mk])
    /\ engine' = [engine EXCEPT ![u].state = EncryptedState(@)]
    /\ UNCHANGED <<peer, file, inits, opk_used, generated, handshakes, shown, raced,
                   starts, faults>>

\* A slip: the session is not saved when the message is on its way.
ResumeUnsaved(u) ==
    /\ Running(u) /\ sending[u] # None
    /\ sending' = [sending EXCEPT ![u] = None]
    /\ UNCHANGED <<engine, file>>
    /\ UNCHANGED <<peer, inits, msgs, opk_used, generated, handshakes, sent, shown,
                   raced, starts, faults>>

\* Resumed: the engine of now is saved for the peer of then.
SaveAfterSend(u) ==
    /\ Running(u) /\ sending[u] # None
    /\ SaveEngine(u, sending[u])
    /\ sending' = [sending EXCEPT ![u] = None]
    /\ UNCHANGED <<peer, inits, msgs, opk_used, generated, handshakes, sent, shown,
                   raced, starts, faults>>

-----------------------------------------------------------------------------
(* recv_loop *)

\* The sender's name under which a message is saved and printed.
\* A slip: the name is that of the present chat.
SenderIsPeer(u) == peer[u]
SenderOf(u) == Head(msgs[u]).from

\* The message is opened with the engine of now, whoever sent it; when it opens,
\* the session is saved for the sender and the text printed.
Receive(u) ==
    /\ Running(u) /\ msgs[u] # << >> /\ Head(msgs[u]).wire # None
    /\ generated[u] < MaxGenerated
    /\ LET wire == Head(msgs[u]).wire
           from == SenderOf(u)
           out  == ratchet_decrypt(engine[u].state, wire, Fresh(u, 0))
           s    == [engine[u] EXCEPT !.state = out.state]
           save == out.result = "ok" /\ ~ SaveRaises(s, u, from)
       IN  /\ engine' = [engine EXCEPT ![u] = IF save THEN Saved(s) ELSE s]
           /\ file' = IF save THEN [file EXCEPT ![u][from] = Saved(s)] ELSE file
           /\ shown' = IF out.result = "ok"
                       THEN [shown EXCEPT ![u] = Append(@, [from |-> from, mk |-> wire.mk])]
                       ELSE shown
           /\ generated' = [generated EXCEPT ![u] =
                              IF out.state.dhs = engine[u].state.dhs THEN @ ELSE @ + 1]
    /\ msgs' = [msgs EXCEPT ![u] = Tail(@)]
    /\ UNCHANGED <<peer, sending, inits, opk_used, handshakes, sent, raced, starts, faults>>

\* A registered user w posts a payload in the clear to v, who is there to read it.
PostRaw(w, v) ==
    /\ Running(v) /\ raws < MaxRaw
    /\ raws' = raws + 1
    /\ msgs' = Forwarded(msgs, v, [from |-> w, wire |-> None])
    /\ UNCHANGED <<engine, peer, sending, file, inits, opk_used, generated, handshakes,
                   sent, shown, raced, misfiled, starts, crashes, interrupts>>

\* A payload that is not a wire message is decoded and given back without being
\* opened: the engine, unmoved, is saved for the sender and the text printed.
\* When the decoding raises, the error is logged.
ReceiveRaw(u) ==
    /\ Running(u) /\ msgs[u] # << >> /\ Head(msgs[u]).wire = None
    /\ LET from == SenderOf(u)
       IN  \/ /\ SaveEngine(u, from)
              /\ misfiled' = (misfiled \/ from # peer[u])
              /\ shown' = [shown EXCEPT ![u] = Append(@, [from |-> from, mk |-> None])]
           \/ UNCHANGED <<engine, file, misfiled, shown>>
    /\ msgs' = [msgs EXCEPT ![u] = Tail(@)]
    /\ UNCHANGED <<peer, sending, inits, opk_used, generated, handshakes, sent, raced,
                   starts, crashes, interrupts, raws>>

-----------------------------------------------------------------------------
(* handle_session_inits *)

\* A slip: the peer of the chat stays when the engine is switched.
SwitchedPeerKept(u, v) == peer
SwitchedPeer(u, v) == [peer EXCEPT ![u] = v]

\* Every initiator takes the first one-time prekey of the bundle, so one
\* session_init of a run finds it.  The prekey is consumed before the save, which
\* raises when there is a session with this user; the error is logged.
HandleSessionInit(u) ==
    /\ Running(u) /\ inits[u] # << >>
    /\ generated[u] < MaxGenerated
    /\ inits' = [inits EXCEPT ![u] = Tail(@)]
    /\ opk_used' = [opk_used EXCEPT ![u] = TRUE]
    /\ LET v == Head(inits[u]).from
           s == NewSession(Head(inits[u]).eph, FALSE, Fresh(u, 0))
       IN  IF opk_used[u] \/ SaveRaises(s, u, v)
           THEN UNCHANGED <<engine, peer, file, generated, raced>>
           ELSE /\ engine' = [engine EXCEPT ![u] = Saved(s)]
                /\ file' = [file EXCEPT ![u][v] = Saved(s)]
                /\ peer' = SwitchedPeer(u, v)
                /\ generated' = [generated EXCEPT ![u] = @ + 1]
                /\ raced' = (raced \/ sending[u] # None)
    /\ UNCHANGED <<sending, msgs, handshakes, sent, shown, starts, faults>>

-----------------------------------------------------------------------------
(* The process ends. *)

Stop(u) ==
    /\ engine' = [engine EXCEPT ![u] = None]
    /\ peer' = [peer EXCEPT ![u] = None]
    /\ sending' = [sending EXCEPT ![u] = None]
    /\ inits' = [inits EXCEPT ![u] = << >>]
    /\ msgs' = [msgs EXCEPT ![u] = << >>]
    /\ UNCHANGED <<file, opk_used, generated, handshakes, sent, shown, raced, misfiled,
                   starts, raws>>

\* End of input, a line for which ratchet_encrypt raises, or Ctrl+C while
\* sender_loop waits for a line: no message is on its way.
Quit(u) ==
    /\ Running(u) /\ sending[u] = None
    /\ Stop(u)
    /\ UNCHANGED <<crashes, interrupts>>

\* Ctrl+C cancels sender_loop inside client.send_message, or the transmission
\* raises: the sealed message may have left, and nothing saves the session.
Interrupt(u) ==
    /\ Running(u) /\ sending[u] # None
    /\ interrupts < MaxInterrupts
    /\ interrupts' = interrupts + 1
    /\ Stop(u)
    /\ UNCHANGED crashes

Crash(u) ==
    /\ Running(u) /\ crashes < MaxCrashes
    /\ crashes' = crashes + 1
    /\ Stop(u)
    /\ UNCHANGED interrupts

Next ==
    \E u \in Client :
        \/ \E v \in Client : Start(u, v) \/ PostRaw(u, v)
        \/ Send(u) \/ SaveAfterSend(u)
        \/ Receive(u) \/ ReceiveRaw(u) \/ HandleSessionInit(u)
        \/ Quit(u) \/ Interrupt(u) \/ Crash(u)

Spec == Init /\ [][Next]_vars

-----------------------------------------------------------------------------
(* Properties. *)

\* The variables hold what the code can store in them.
TypeOK ==
    /\ engine \in [Client -> Session \cup {None}]
    /\ peer \in [Client -> Client \cup {None}]
    /\ sending \in [Client -> Client \cup {None}]
    /\ \A u \in Client : file[u] \in [Client -> Session \cup {None}]
    /\ inits \in [Client -> Seq([from : Client, eph : KeyPair])]
    /\ msgs \in [Client -> Seq([from : Client, wire : WireMessage \cup {None}])]
    /\ generated \in [Client -> 0..MaxGenerated]
    /\ starts \in 0..MaxStarts /\ crashes \in 0..MaxCrashes
    /\ interrupts \in 0..MaxInterrupts /\ raws \in 0..MaxRaw
    /\ raced \in BOOLEAN /\ misfiled \in BOOLEAN

\* The key belongs to a session of these two users.
Between(root, u, v) ==
    \E h \in handshakes : root[1] = {h.eph} /\ {h.from, h.to} = {u, v}

\* No process has died or ended inside a pending send, no engine was switched
\* under a suspended sender_loop, and none was saved for another user because of a
\* message in the clear.
Calm == crashes = 0 /\ interrupts = 0 /\ ~ raced /\ ~ misfiled

\* What the ratchet has opened and recv_loop prints as coming from a user was
\* sealed in a session with that user, whichever engine was in place, also after
\* sessions have got into the wrong files.  A payload in the clear is printed under
\* its sender's name too: nothing vouches for it, and the text does not tell.
ShownIsAuthentic ==
    \A u \in Client : \A j \in 1..Len(shown[u]) :
        shown[u][j].mk # None => Between(shown[u][j].mk.root, u, shown[u][j].from)

\* A message goes to the user whose session has sealed it, however often the
\* engine and the peer were switched.
SealedForRecipient ==
    Calm => \A j \in 1..Len(sent) : Between(sent[j].mk.root, sent[j].from, sent[j].to)

\* A session file holds a session with the user it is named after.
FileHoldsPeerSession ==
    \A u, v \in Client : file[u][v] # None => Between(file[u][v].state.root_key, u, v)

\* ... which is so when all is calm.
FileHoldsPeerSessionCalm == Calm => FileHoldsPeerSession

\* No message key seals two messages.
NoKeyReuse ==
    \A j, k \in 1..Len(sent) : sent[j].mk = sent[k].mk => j = k

\* ... which is so when all is calm: the engine that a session_init replaces, or an
\* exit ends, was saved after its last message.
NoKeyReuseCalm == Calm => NoKeyReuse
=============================================================================
