------------------------- MODULE PersistentSession -------------------------
(***************************************************************************)
(* Two chat clients that persist their ratchet session                     *)
(* (client/session_store.py), crash and restart.  A client is one asyncio  *)
(* event loop: sender_loop suspends while a message is being sent and      *)
(* saves the session when it resumes; recv_loop decrypts, saves and prints *)
(* without suspending.  save_session writes a temporary file and renames   *)
(* it; the process may die before, between and after the two, and it may   *)
(* end while sender_loop is suspended.                                     *)
(*                                                                         *)
(* Both clients are client.py, so every payload is one of the Double       *)
(* Ratchet; a payload in the clear is in module ChatClient.                *)
(***************************************************************************)
EXTENDS RatchetEngine, SequencesExt

CONSTANTS
    Initiator, Responder,
    MaxSent,          \* bound: messages a client sends
    MaxGenerated,     \* bound: key pairs a client generates
    MaxCrashes,       \* bound: crashes of the two clients together
    MaxQuits,         \* bound: exits of the two clients with no send pending
    MaxInterrupts,    \* bound: exits of the two clients inside a pending send
    MaxDiskErrors     \* bound: failing writes of the two clients together

Party == {Initiator, Responder}

ASSUME StoreAssumption ==
    /\ Initiator # Responder
    /\ \A p \in Party, k \in 0..MaxGenerated : <<p, k>> \in KeyPair
    /\ MaxSent \in Nat /\ MaxGenerated \in Nat \ {0} /\ MaxCrashes \in Nat
    /\ MaxQuits \in Nat /\ MaxInterrupts \in Nat /\ MaxDiskErrors \in Nat

VARIABLES
    mem,        \* mem[p]: the DoubleRatchetState in memory, None while p is down
    version,    \* version[p]: its session_version
    file,       \* file[p]: the session file, a saved state and its version
    tmp,        \* tmp[p]: the temporary file, None when there is none
    pc,         \* pc[p]: where p's event loop is
    sending,    \* sending[p]: sender_loop awaits the transmission of a message
    due,        \* due[p]: the index of the message to print, 0 if none
    generated, sent, delivered, displayed,
    crashes, quits, interrupts, diskErrors

vars == <<mem, version, file, tmp, pc, sending, due,
          generated, sent, delivered, displayed, crashes, quits, interrupts, diskErrors>>

channel == <<generated, sent, delivered>>
stops == <<crashes, quits, interrupts>>
faults == <<crashes, quits, interrupts, diskErrors>>

Peer(p) == IF p = Initiator THEN Responder ELSE Initiator

\* The contents of a session file.
SavedSession == [state : RatchetState, version : Nat]

\* The sessions exist and have been saved once: create_initial_state makes
\* version 1, the first save_session writes version 2.
Init ==
    LET fresh(p) == create_initial_state(<< >>, p = Initiator, <<p, 0>>)
    IN  /\ mem = [p \in Party |-> fresh(p)]
        /\ version = [p \in Party |-> 2]
        /\ file = [p \in Party |-> [state |-> fresh(p), version |-> 2]]
        /\ tmp = [p \in Party |-> None]
        /\ pc = [p \in Party |-> "ready"]
        /\ sending = [p \in Party |-> FALSE]
        /\ due = [p \in Party |-> 0]
        /\ generated = [p \in Party |-> 1]
        /\ sent = [p \in Party |-> << >>]
        /\ delivered = [p \in Party |-> {}]
        /\ displayed = [p \in Party |-> << >>]
        /\ crashes = 0
        /\ quits = 0
        /\ interrupts = 0
        /\ diskErrors = 0

-----------------------------------------------------------------------------
(* save_session and load_session *)

\* A slip: the replay window is not read back.
FromDictForgettingIds(d) == [d.state EXCEPT !.received_ids = << >>]

\* state_from_dict: the replay window is rebuilt by adding its entries in the
\* order of the file, the other fields are taken over.
state_from_dict(d) ==
    LET ids == d.state.received_ids
        rebuilt[k \in 0..Len(ids)] ==
            IF k = 0 THEN << >> ELSE ReceivedIdsAdd(rebuilt[k - 1], ids[k])
    IN  [d.state EXCEPT !.received_ids = rebuilt[Len(ids)]]

\* A file with more skipped keys than max_keys raises CorruptedSessionError.
Loadable(d) == Len(d.state.skipped_message_keys) <= MaxSkippedKeys

state_to_dict(s, v) == [state |-> s, version |-> v]

\* The anti-rollback check: the file must not be newer than the memory.
RollbackDetected(p) == file[p].version > version[p]

\* A slip: the version of the state in memory is not raised.
WriteTmpSameVersion(p) ==
    /\ ~ RollbackDetected(p)
    /\ tmp' = [tmp EXCEPT ![p] = state_to_dict(mem[p], version[p])]
    /\ UNCHANGED <<version, diskErrors>>

\* The version is raised in memory and the temporary file written.
WriteTmp(p) ==
    /\ ~ RollbackDetected(p)
    /\ version' = [version EXCEPT ![p] = @ + 1]
    /\ tmp' = [tmp EXCEPT ![p] = state_to_dict(mem[p], version[p] + 1)]
    /\ UNCHANGED diskErrors

\* SessionRollbackError, or an OSError after the version was raised.
SaveRaises(p) ==
    /\ RollbackDetected(p) \/ diskErrors < MaxDiskErrors
    /\ diskErrors' = IF RollbackDetected(p) THEN diskErrors ELSE diskErrors + 1
    /\ version' = [version EXCEPT ![p] = IF RollbackDetected(p) THEN @ ELSE @ + 1]
    /\ UNCHANGED tmp

-----------------------------------------------------------------------------
(* sender_loop *)

\* send_message: ratchet_encrypt, then the transmission, which suspends.
Send(p) ==
    /\ pc[p] = "ready" /\ ~ sending[p]
    /\ Len(sent[p]) < MaxSent
    /\ CanEncrypt(mem[p])
    /\ mem' = [mem EXCEPT ![p] = EncryptedState(@)]
    /\ sent' = [sent EXCEPT ![p] = Append(@, EncryptedMessage(mem[p]))]
    /\ sending' = [sending EXCEPT ![p] = TRUE]
    /\ UNCHANGED <<version, file, tmp, pc, due, generated, delivered, displayed, faults>>

\* A slip: sender_loop goes on to the next line without saving.
ResumeUnsaved(p) ==
    /\ pc[p] = "ready" /\ sending[p]
    /\ sending' = [sending EXCEPT ![p] = FALSE]
    /\ UNCHANGED <<mem, version, file, tmp, pc, due, channel, displayed, faults>>

\* sender_loop resumes and saves.
SaveAfterSend(p) ==
    /\ pc[p] = "ready" /\ sending[p]
    /\ WriteTmp(p)
    /\ pc' = [pc EXCEPT ![p] = "replace_after_send"]
    /\ UNCHANGED <<mem, file, sending, due, channel, displayed, stops>>

\* "Session save after send" is only logged.
SaveAfterSendFails(p) ==
    /\ pc[p] = "ready" /\ sending[p]
    /\ SaveRaises(p)
    /\ sending' = [sending EXCEPT ![p] = FALSE]
    /\ UNCHANGED <<mem, file, pc, due, channel, displayed, stops>>

\* os.replace(tmp_path, path).
ReplaceAfterSend(p) ==
    /\ pc[p] = "replace_after_send"
    /\ file' = [file EXCEPT ![p] = tmp[p]]
    /\ tmp' = [tmp EXCEPT ![p] = None]
    /\ pc' = [pc EXCEPT ![p] = "ready"]
    /\ sending' = [sending EXCEPT ![p] = FALSE]
    /\ UNCHANGED <<mem, version, due, channel, displayed, faults>>

-----------------------------------------------------------------------------
(* recv_loop *)

\* A message arrives after those of its sender's earlier chains.
Arrives(p, j) ==
    LET from == sent[Peer(p)]
    IN  /\ j \in 1..Len(from)
        /\ \A k \in 1..(j - 1) : from[k].dh # from[j].dh => k \in delivered[p]

\* A slip: a message that was decrypted is printed before the session is saved.
ReceivePrintingFirst(p, j) ==
    /\ pc[p] = "ready"
    /\ generated[p] < MaxGenerated
    /\ Arrives(p, j)
    /\ LET out == ratchet_decrypt(mem[p], sent[Peer(p)][j], <<p, generated[p]>>)
           ok  == out.result = "ok"
       IN  /\ mem' = [mem EXCEPT ![p] = out.state]
           /\ generated' = [generated EXCEPT ![p] =
                              IF out.state.dhs = mem[p].dhs THEN @ ELSE @ + 1]
           /\ pc' = [pc EXCEPT ![p] = IF ok THEN "print" ELSE "ready"]
           /\ due' = [due EXCEPT ![p] = IF ok THEN j ELSE 0]
    /\ delivered' = [delivered EXCEPT ![p] = @ \cup {j}]
    /\ UNCHANGED <<version, file, tmp, sending, sent, displayed, faults>>

\* recv_message: ratchet_decrypt; an error is logged and the loop goes on.
Receive(p, j) ==
    /\ pc[p] = "ready"
    /\ generated[p] < MaxGenerated
    /\ Arrives(p, j)
    /\ LET out == ratchet_decrypt(mem[p], sent[Peer(p)][j], <<p, generated[p]>>)
           ok  == out.result = "ok"
       IN  /\ mem' = [mem EXCEPT ![p] = out.state]
           /\ generated' = [generated EXCEPT ![p] =
                              IF out.state.dhs = mem[p].dhs THEN @ ELSE @ + 1]
           /\ pc' = [pc EXCEPT ![p] = IF ok THEN "save_after_recv" ELSE "ready"]
           /\ due' = [due EXCEPT ![p] = IF ok THEN j ELSE 0]
    /\ delivered' = [delivered EXCEPT ![p] = @ \cup {j}]
    /\ UNCHANGED <<version, file, tmp, sending, sent, displayed, faults>>

SaveAfterRecv(p) ==
    /\ pc[p] = "save_after_recv"
    /\ WriteTmp(p)
    /\ pc' = [pc EXCEPT ![p] = "replace_after_recv"]
    /\ UNCHANGED <<mem, file, sending, due, channel, displayed, stops>>

SaveAfterRecvFails(p) ==
    /\ pc[p] = "save_after_recv"
    /\ SaveRaises(p)
    /\ pc' = [pc EXCEPT ![p] = "print"]
    /\ UNCHANGED <<mem, file, sending, due, channel, displayed, stops>>

ReplaceAfterRecv(p) ==
    /\ pc[p] = "replace_after_recv"
    /\ file' = [file EXCEPT ![p] = tmp[p]]
    /\ tmp' = [tmp EXCEPT ![p] = None]
    /\ pc' = [pc EXCEPT ![p] = "print"]
    /\ UNCHANGED <<mem, version, sending, due, channel, displayed, faults>>

PrintText(p) ==
    /\ pc[p] = "print"
    /\ displayed' = [displayed EXCEPT ![p] = Append(@, due[p])]
    /\ due' = [due EXCEPT ![p] = 0]
    /\ pc' = [pc EXCEPT ![p] = "ready"]
    /\ UNCHANGED <<mem, version, file, tmp, sending, channel, faults>>

-----------------------------------------------------------------------------
(* The process ends and starts again. *)

\* What an exit loses: everything that is not in a file.
Stop(p) ==
    /\ mem' = [mem EXCEPT ![p] = None]
    /\ version' = [version EXCEPT ![p] = 0]
    /\ pc' = [pc EXCEPT ![p] = "down"]
    /\ sending' = [sending EXCEPT ![p] = FALSE]
    /\ due' = [due EXCEPT ![p] = 0]
    /\ UNCHANGED <<file, tmp, channel, displayed, diskErrors>>

\* The process dies at any point.
Crash(p) ==
    /\ pc[p] # "down"
    /\ crashes < MaxCrashes
    /\ crashes' = crashes + 1
    /\ Stop(p)
    /\ UNCHANGED <<quits, interrupts>>

\* The process ends with no message on its way: end of input, a line for which
\* ratchet_encrypt raises, or Ctrl+C while sender_loop waits for a line.  The
\* cancelled recv_loop is waiting for a message.
Quit(p) ==
    /\ pc[p] = "ready" /\ ~ sending[p]
    /\ quits < MaxQuits
    /\ quits' = quits + 1
    /\ Stop(p)
    /\ UNCHANGED <<crashes, interrupts>>

\* The process ends inside client.send_message: Ctrl+C cancels the suspended
\* sender_loop, or the transmission raises.  The message is sealed, it may or may
\* not have left, and nothing on the way out saves the session.
Interrupt(p) ==
    /\ pc[p] = "ready" /\ sending[p]
    /\ interrupts < MaxInterrupts
    /\ interrupts' = interrupts + 1
    /\ Stop(p)
    /\ UNCHANGED <<crashes, quits>>

\* load_session on the next start.
Restart(p) ==
    /\ pc[p] = "down"
    /\ Loadable(file[p])
    /\ mem' = [mem EXCEPT ![p] = state_from_dict(file[p])]
    /\ version' = [version EXCEPT ![p] = file[p].version]
    /\ pc' = [pc EXCEPT ![p] = "ready"]
    /\ UNCHANGED <<file, tmp, sending, due, channel, displayed, faults>>

Next ==
    \E p \in Party :
        \/ Send(p) \/ SaveAfterSend(p) \/ SaveAfterSendFails(p) \/ ReplaceAfterSend(p)
        \/ \E j \in 1..MaxSent : Receive(p, j)
        \/ SaveAfterRecv(p) \/ SaveAfterRecvFails(p) \/ ReplaceAfterRecv(p)
        \/ PrintText(p)
        \/ Crash(p) \/ Quit(p) \/ Interrupt(p) \/ Restart(p)

Spec == Init /\ [][Next]_vars

-----------------------------------------------------------------------------
(* Properties. *)

\* The variables hold what the code can store in them.
TypeOK ==
    /\ mem \in [Party -> RatchetState \cup {None}]
    /\ version \in [Party -> Nat]
    /\ file \in [Party -> SavedSession]
    /\ tmp \in [Party -> SavedSession \cup {None}]
    /\ pc \in [Party -> {"ready", "replace_after_send", "save_after_recv",
                         "replace_after_recv", "print", "down"}]
    /\ sending \in [Party -> BOOLEAN]
    /\ due \in [Party -> 0..MaxSent]
    /\ generated \in [Party -> 1..MaxGenerated]
    /\ sent \in [Party -> Seq(WireMessage)]
    /\ delivered \in [Party -> SUBSET (1..MaxSent)]
    /\ displayed \in [Party -> Seq(1..MaxSent)]
    /\ crashes \in 0..MaxCrashes
    /\ quits \in 0..MaxQuits
    /\ interrupts \in 0..MaxInterrupts
    /\ diskErrors \in 0..MaxDiskErrors

\* No message is shown to the user twice, crashes and redeliveries included:
\* recv_loop saves the session that has consumed the message before it prints.
\* It needs writes that succeed: a failed save is only logged and the message
\* printed, so a crash after it brings back a session that accepts it again.
DisplayedOnce ==
    diskErrors = 0 => \A p \in Party : \A j, k \in 1..Len(displayed[p]) :
        displayed[p][j] = displayed[p][k] => j = k

FileStep ==
    \A p \in Party : file'[p] # file[p] => file'[p].version > file[p].version

\* The session file only ever moves to a higher session_version, whatever was
\* lost in between.
FileNeverRollsBack == [][FileStep]_vars

\* Nothing has gone wrong but the network: no process has died or ended inside a
\* pending send, and the replay windows still hold every id.  (A message that comes again after
\* its id was evicted and its chain left makes the receiver ratchet back to it.)
Undisturbed ==
    /\ crashes = 0 /\ interrupts = 0 /\ diskErrors = 0
    /\ \A p \in Party : Len(sent[p]) <= MaxReceivedIds

\* ... and no chain is so long that a message can lie beyond MAX_SKIP_DISTANCE or
\* that more keys than MaxSkippedKeys have to be kept.  (A message refused for its
\* distance is lost; it too would turn the ratchet back if it came again later.)
WithinLimits ==
    \A p \in Party : Len(sent[p]) <= MAX_SKIP_DISTANCE + 1 /\ Len(sent[p]) <= MaxSkippedKeys + 1

\* With exits outside a pending send and restarts every message that arrives is
\* shown, at its first arrival, in any order within its chain and also after the receiver has
\* moved on to a session read from its file.
ArrivedIsShown ==
    Undisturbed /\ WithinLimits =>
        \A p \in Party : delivered[p] = (ToSet(displayed[p]) \cup {due[p]}) \ {0}

\* The session a client has: in its memory, or in its file while it is down.
Session(p) == IF pc[p] = "down" THEN file[p].state ELSE mem[p]

\* ... and a client that was restarted still shares the root key with its peer:
\* of the two chains of derivations one continues the other.  A replay window
\* that was not restored would let a repeated message turn the ratchet back.
RootsAgree ==
    LET root(p) == Session(p).root_key
    IN  Undisturbed /\ WithinLimits =>
            \/ IsPrefix(root(Initiator), root(Responder))
            \/ IsPrefix(root(Responder), root(Initiator))

\* No message key seals two messages.
NoKeyReuse ==
    \A p \in Party : \A j, k \in 1..Len(sent[p]) :
        sent[p][j].mk = sent[p][k].mk => j = k

\* ... which holds as long as no process ends between a message and the save that
\* follows it: not at any other moment, and not by what recv_loop does or saves
\* meanwhile.  An exit inside the pending send does break it: the next start loads
\* the session that has not sent and seals the next message with the same key.
NoKeyReuseUndisturbed == Undisturbed => NoKeyReuse
=============================================================================
