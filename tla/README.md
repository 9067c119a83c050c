# A TLA+ model of GhostChat

GhostChat is an end-to-end encrypted chat: a WebSocket relay (`server/`), a chat
client (`client/`) with prekey bundles, X3DH and the Double Ratchet, and a small
group protocol (`group/`).  This directory models the parts that carry state,
model-checks them with TLC and proves, with TLAPS, the safety of the ratchet, the
session store, the chat client, the handshakes, the relay and the groups.
Paths below are relative to the repository.

## The system

| Part | State | Operations | Talks to |
|---|---|---|---|
| Double Ratchet engine (`client/crypto/double_ratchet.py`, `kdf.py`, `message.py`) | root key, two chain keys, own and remote ratchet key, `Ns`, `Nr`, `PN`, skipped keys, received ids | `ratchet_encrypt`, `ratchet_decrypt`, `create_initial_state` | called by the WebSocket client |
| Session store (`client/session_store.py`) | a JSON file per pair of users, with a `session_version` | `save_session`, `load_session` | called by the chat client after every message |
| Chat client (`client/client.py`) | the one engine and its peer, three asyncio tasks | start-up, `sender_loop`, `recv_loop`, `handle_session_inits` | relay, store, engine |
| WebSocket client (`client/network/websocket_client.py`) | a socket, a message queue, a session_init queue | requests and answers, `run_receiver`, `send_message`, `recv_message` | relay |
| Relay (`server/websocket_server.py`) | `_connections`, `_ephemeral_pubs`, `_bundles`, `_pending_inits`, one coroutine per socket | a handler per frame type | all clients |
| Prekeys and X3DH (`client/crypto/prekey.py`, `x3dh.py`, `key_exchange.py`) | the bundle in memory, its file, the bundle at the relay | `consume_one_time_prekey`, `x3dh_initiator`, `x3dh_responder` | chat client |
| Group state (`group/group_state.py`, `key_schedule.py`, `membership.py`) | epoch, members and leaves, tree of secrets, keys, hash | `create`, `add_member`, `remove_member` | group manager |
| Group messages (`group/group_messaging.py`, `client/group_manager.py`, `client/message_api.py`) | counter, replay cache, inbox | `encrypt`, `decrypt`, `send_group_text`, `recv_group_text` | other members |
| In-memory stack (`client/session_manager.py`, `client/message_api.py`, `ratchet/double_ratchet.py`, `protocol/`) | per peer a second ratchet, replay cache, fork state and reset mark; an inbox per endpoint | `encrypt_for`, `decrypt_from`, `encrypt_sealed`, `decrypt_sealed`, `send_text`, `recv_text`, `recv_sealed` | mailboxes; used by the demo and the tests |
| Mailboxes, mix router, cover traffic (`server/router.py`, `server/memory_mailbox.py`, `network/`) | a schedule with delays, mailboxes, a store with a time to live, the time of the next cover packet | route, `deliver_due`, `dequeue_all`, `put`, `get_all`, `maybe_generate_cover_packet` | in-memory stack; not the running relay |

What is hard about it: messages that are late, repeated or out of order against
a ratchet that moves; a process that dies between two of the steps encrypt,
send, save, rename, print; three tasks that share one engine and give way at
every `await`; a relay whose coroutines interleave at every send; start-up reads
that take whatever frame comes next for their answer; clients that start at the
same time; an engine that is switched to another peer while a send is suspended;
membership changes that reach the members at different times; three mechanisms
(ratchet, replay cache, fork detection) that count the same messages separately.
`PROJECT.json` lists these hazards at their lines, with the properties that
cover them.

What makes each part correct:

* engine: no message accepted twice, no key used twice, keys gone after use,
  bounded work and memory per message, both sides on the same root key;
* store and client: no message shown twice, no key reused after a restart, the
  file never goes back, a saved state is restored as it was;
* relay: who is registered can be reached, nothing is duplicated or reordered,
  what was queued for an offline user arrives, every start-up ends;
* handshake: a one-time prekey is used once, both sides get the same root key,
  the session in use is the one on disk;
* groups: one epoch means one membership and one key, the tree and the hash
  follow the membership, a removed member cannot compute later secrets, no message
  is shown twice;
* in-memory stack: ratchet, replay cache and fork detection agree about every
  message, dummies leave no trace, nothing is shown under the wrong name;
* mailboxes: an envelope goes to its recipient only, a routed one at most once.

## The modules

Keys are symbolic throughout: a derived key is the record or tuple of what it is
derived from, so that two keys are equal exactly when their derivations are, and
AEAD opens with the sealing key only.

* **RatchetEngine** - the engine as operators on a session state.
  `ratchet_decrypt(s, m, fresh)` returns the state the call leaves and its
  result, also for every exception: the code changes the state before the tag is
  checked, and so does the model.  The two stores are sequences, oldest first.
* **DoubleRatchet** - two engines and a channel.  Every message sent may be
  delivered at any time, any number of times, or never.
* **OnceChannel** - what a session promises: no message is sent twice, and what is
  accepted was sent by the peer and is accepted once.  `DoubleRatchet` implements it
  (`ImplementsOnceChannel`): `sent` and `accepted` are its own variables, the
  engines' states are hidden.
* **PersistentSession** - two clients with their engine, session file, crashes,
  exits, restarts and failing writes.  `Quit` is an exit between two sends, `Interrupt`
  one that cancels `sender_loop` inside a pending send (Ctrl+C, or a transmission that
  raises), which nothing saves.  `sender_loop` suspends between the
  transmission and the save (`Send`, `SaveAfterSend`), `recv_loop` can be
  interleaved there; `save_session` is two steps (`WriteTmp`, `Replace...`).  The
  channel repeats and reorders the messages of one sending chain and delivers a
  chain's first message after those of the chains before it: weaker than the one
  TCP stream the client has, and strong enough that nothing is lost.
* **ChatClient** - several clients of `client.py`, each with one engine for whoever it
  talks to and one session file per peer.  `Send` and `SaveAfterSend` are the two
  halves of a turn of `sender_loop`, around its `await`; `Receive` is a turn of
  `recv_loop`; `HandleSessionInit` switches engine and peer.  `PostRaw` and `ReceiveRaw`
  are a payload in the clear and the fallback of `recv_message` that returns it
  unopened.  The start-up and a save
  are one step each here, because Relay, Handshake and PersistentSession take them
  apart.
* **Relay** - the relay and the start-up of the clients.  A socket is two FIFO
  queues.  The handler of `register` is three kinds of step, because the
  coroutine gives way after the answer and after each flushed frame; the other
  handlers end with their only send.  A client in `LibraryUsers` uses
  `GhostChatWebSocketClient` directly: it registers, listens, and may send
  session_inits at any time.  A user may start a second client while the first one
  runs; `doubled` remembers the sockets this concerns.
* **Handshake** - bundles, X3DH and the legacy exchange with clients that stop
  and start.  The relay is reduced to what it stores.
* **GroupState** - the tree, the key schedule and the membership operations as
  operators; **GroupChat** - a creator that changes the membership, members that
  install updates when they arrive, messages that are repeated or damaged.
* **MemoryRatchet** - the ratchet of `ratchet/double_ratchet.py` as operators, with the
  state every exception leaves.  **SessionManager** - a
  `SessionContext` (ratchet, replay cache, fork state, reset mark) and what sending
  and `decrypt_from` do to it, in the order of the code: the cache marks a message
  before the ratchet is asked.  **SessionStack** - endpoints with several sessions,
  plain and sealed envelopes, dummies, and a relay that delays, reorders and repeats.
  `recv_text` and `recv_sealed` are one pass over the inbox (a recursive function on
  its positions), ended by the first exception.
* **MixRelay** - router, mix delays, mailbox store, cover packets and the clock, in
  relative times.  Cover packets go to the decoy mailbox, which nobody reads; an
  envelope without a recipient can be scheduled, and makes `deliver_due` raise.
  **EnvelopeChannel** - what they promise together, implemented by
  MixRelay with `waiting` as the envelopes in the schedule or a mailbox and `kept` as
  the stored ones that have not expired.
* **MC...** modules only give constants values that a cfg cannot write.
* **...Proofs** - the proofs: **RatchetEngineProofs** holds the lemmas about the
  engine, on which **DoubleRatchetProofs**, **PersistentSessionProofs** and
  **ChatClientProofs** rest; **HandshakeProofs**, **RelayProofs**,
  **GroupChatProofs** and **SessionStackProofs** stand alone.

Definitions that begin "A slip" or "Slips" are plausible wrong versions of the
definition below them; `PROJECT.json` pairs each with the property that notices it.

## What TLC checks

| Run | Properties | Bounds |
|---|---|---|
| `dr_any_order` | `TypeOK`, `AcceptedOnce`, `KeysErased`, `NoKeyReuse`, `IdsNeverRecur`, `StoresBounded`, `SkipBounded`, `ImplementsOnceChannel` (refinement) | 4 messages and 3 new ratchet keys a side; skip distance 2, 2 skipped keys, 1 received id, so that every limit is met |
| `session` | `TypeOK`, `DisplayedOnce`, `FileNeverRollsBack`, `ArrivedIsShown`, `RootsAgree`, `NoKeyReuseUndisturbed` | 2 messages and 2 new ratchet keys a side, 1 crash, 2 exits between sends, 1 inside a send, 1 failing write; 1 skipped key and 2 received ids, which is what 2 messages need |
| `relay` | `TypeOK`, `RegisteredIsReachable`, `InitNotDuplicated`, `MessagesInOrder`, `StartUpEnds` (liveness) | 2 users, 3 connections (two of one user at once included), 2 frames, 1 lost connection |
| `handshake` | `TypeOK`, `OpkOncePerRun`, `ResponderSharesRoot`, `EngineIsOnDisk` | 3 clients, 2 one-time prekeys, 4 starts |
| `group` | `TypeOK`, `DisplayedOnce`, `TreeConsistent`, `SameEpochSameKey`, `RemovedCannotDerive` | 3 clients, 2 messages, 3 changes, at most 4 messages and changes together, updates delayed at will, 1 repeated or damaged message, a replay cache of 1 |
| `chat` | `ShownIsAuthentic`, `SealedForRecipient`, `FileHoldsPeerSessionCalm`, `NoKeyReuseCalm` | 3 clients (symmetric), 3 starts, 2 messages, 1 payload in the clear, 1 crash, 1 exit inside a send; 7 key pairs a client, more than they use |
| `stack` | `CacheInStepWithRatchet`, `AcceptedIsDecrypted`, `ResetHasReason`, `ShownFromPeer`, `NoKeyReuse` | 3 endpoints, 2 sessions (one endpoint is responder of the one and initiator of the other), 3 messages, 1 dummy, 1 repeated envelope; 1 skipped key and a replay cache of 2, so that both limits are met |
| `mix` | `ImplementsChannel` (refinement) | 2 recipients, 3 envelopes, with or without a recipient, delays up to 2, a time to live of 1, 2 polls of the store |

The bounds are chosen so that the interesting cases happen: chains are left and
entered again, both stores overflow, a crash falls between any two steps, a
client reconnects while the handler of its old socket is still there, two
initiators use the same prekey, a member is removed and added again.  Deadlock is
not checked where the bounds end every behaviour.  The type invariants of
ChatClient, SessionStack and MixRelay document the variables; they hold in the same
instances, and no run is spent on them.  `CountersMonotonic` of DoubleRatchet is
proved (below) and not run.

`KeysErased` is forward secrecy as far as the code has it.  The chains and the
skipped-key store give no used key in any state.  The root key gives none once the
first DH step has replaced the root of the handshake; before, `kdf_initial_chain` of
that root gives the first chain again from its beginning (see below).

`ArrivedIsShown`, `RootsAgree` and `NoKeyReuseUndisturbed` say what an exit between two
sends and a restart preserve (`Undisturbed`); after a crash, or an exit inside a
pending send, the last one is false and a message can arrive that is not shown
(below).  They also
need `received_ids` to hold every id: a repeated message whose id was evicted and
whose chain was left makes the receiver ratchet back to it, and the two sides part.
The first two also need that no message lies beyond the limits of the engine
(`WithinLimits`).
`DisplayedOnce` of PersistentSession needs writes that succeed, because a failed
save is only logged and the message printed.  Both ends of PersistentSession are
`client.py`, which sends nothing in the clear, so the fallback of `recv_message` is
in ChatClient only.

`RegisteredIsReachable` excludes a
user with a connection that was given up before its register frame was read:
that frame can still be handled after the one of the next connection.  It also
excludes the clients of a user who had two of them at once (below).
`StartUpEnds` starts where a client connects with its peer given on the command line:
the prompt for a peer (`client/client.py:155-158`) waits for the user as long as it
takes.  `EngineIsOnDisk` follows the version check of `save_session`: a session_init for
which it raises leaves the engine alone.  It does not say that a session file is never
overwritten; the race of `chat_reuse` does that.

The properties of `chat` that end in `Calm`, and `SealedForRecipient`, suppose that no
process has died or ended inside a pending send, that no session_init was handled while
`sender_loop` was suspended, and that no payload in the clear has come from a user
other than the peer, for whom `recv_loop` then saves the engine.  `chat_reuse` shows what
the race does.  `ShownIsAuthentic` holds in spite of all of them, for what the ratchet
has opened; a payload in the clear is printed too (below).

`CacheInStepWithRatchet`, `AcceptedIsDecrypted` and `ResetHasReason` of `stack` are
about sessions that are `Clean`: `recv_text` decrypts every plain envelope of the inbox
with the session of the peer it was called for,
so an envelope of a third endpoint leads that session astray, and a full
skipped-key store makes the ratchet refuse a message the cache has already marked,
with the chain one step ahead of `Nr` from then on.
The other properties of `stack` hold for every session.

The properties of `group` rest on updates that reach a member once and in the order
they were made: `set_state` (`client/group_manager.py:98`) compares no epochs.

**Fairness.** `Relay!FairSpec` assumes weak fairness of the reads of every client
and of the handler of every socket.  Client and relay are asyncio event loops,
which run every coroutine whose socket is readable, and no handler waits for
anything but its own socket.  Nothing is assumed of users, lost connections, or
frames that somebody may send.  No fairness is assumed of the mix router: the
repository has no loop that calls `deliver_due` or `dequeue_all` outside its tests, so
nothing is claimed of what is handed out in the end.

## Where the code and its documentation disagree

Each of these has a run in which TLC finds the counterexample.

* `dr_late`: on a new ratchet key the old chain is skipped to `Nr` instead of the
  header's `pn`.  A message of the old chain that arrives late cannot be
  decrypted; it even turns the ratchet back to the old key.
* `chat_reuse`: `sender_loop` saves, after its `await`, whatever engine is in place,
  under the peer it read before.  A session_init handled in between keeps the state
  that has sent the message out of its file, and the next start seals another
  message with the same key and nonce.  No crash is needed.
* `stack_reply`: the sealing key is taken from the root key after the ratchet has
  encrypted.  A responder's first message turns that key, so the initiator cannot
  unseal it and drops it as a dummy.
* `group_pending`: a sender's second message in an epoch is taken for a replay of
  the first and blocks the inbox.

The modules show more, for which no run is kept:

* the session is saved after the message was sent.  Ctrl+C, the exit the client
  advertises (`client/client.py:188`), cancels `sender_loop` inside
  `client.send_message` (248), and the `finally` block (277-294) does not save; a
  transmission that raises ends it there as well, and so does a crash.  The restarted
  client seals with the same message key and nonce again, and the peer refuses the
  second message as a replay (PersistentSession, ChatClient: `Interrupt` and `Crash`;
  `NoKeyReuseUndisturbed`, `NoKeyReuseCalm` and `ArrivedIsShown` exclude them).
  `docs/SECURITY_INVARIANTS.md:59`: "Message keys are single-use";
* `recv_message` returns a payload that is not Double Ratchet JSON base64-decoded and
  unopened (`client/network/websocket_client.py:178-184`), and `recv_loop` prints it under
  the sender's name like any other, after saving the present engine in the sender's
  session file (ChatClient, `ReceiveRaw`; hence `mk # None` in `ShownIsAuthentic`, and
  `misfiled` in `Calm`);
* used keys of the first chain stay computable until the first DH step:
  `root_key` is kept and `kdf_initial_chain(root_key)` (`client/crypto/kdf.py:53-55`) is
  that chain.  `README.md:58` says "compromise of long-term keys does not make past
  message keys recoverable", `docs/INTERVIEW_EXPLANATION.md:33` "old message keys are not
  kept", `docs/PRESENTATION_SCRIPT.md:53` "old keys are discarded" (DoubleRatchet; hence
  the condition on the root key in `KeysErased`);
* in the in-memory stack the replay cache refuses every number below the highest it
  has seen, before the ratchet looks for a skipped key, so a late message is always
  refused and the skipped keys never serve one (SessionStack; proved as
  `SkippedKeysNeverServe`).  `docs/PROTOCOL_FLOW.md:96`: "Check skipped-key cache for
  (DH_pub, n); if present, use MK to decrypt.", `docs/PROJECT_OVERVIEW.md:79`: "skipped keys
  are stored in a bounded cache for out-of-order delivery", `docs/DEMO_SCRIPT.md:50`:
  "succeeds in order and out of order", and the comments at
  `ratchet/double_ratchet.py:53` and `127`;
* a message that is merely delayed past a later one also marks the session for reset
  as a replay (SessionStack; `Overtaken` in `ResetHasReason`).
  `docs/SECURITY_INVARIANTS.md:201`: "Invariant 7.4 - Delayed/dummy/cover traffic must not
  corrupt real session state";
* when the skipped-key store of the in-memory stack is full, a message that the cache
  has let through is refused and can never be read, and the chain is one step ahead of
  its numbers (SessionStack; hence `Clean`);
* two clients with one user name: the second overwrites the entry of the first
  (`server/websocket_server.py:91`), which stays connected and receives nothing, also
  after the second has gone (Relay; hence `doubled` in `RegisteredIsReachable`);
* an envelope without a recipient is scheduled unchecked with a mix delay
  (`server/router.py:60`) and makes `deliver_due` raise at 83, after the schedule was
  replaced at 81: the due envelopes behind it are lost (MixRelay; `Lose` of
  EnvelopeChannel).  Line 68 says "Move all scheduled envelopes with deliver_at <= now
  into their recipient mailboxes";
* cover packets go to the mailbox of the decoy "cover" (`network/cover_traffic.py:26`),
  which nobody empties: it only grows (MixRelay);
* a disconnect leaves its entry in `_connections` (the loop breaks before the
  clean-up), so a session_init for a user who has left is not queued (Relay);
* consumed one-time prekeys come back with a restart, because the bundle file is not
  written again (Handshake; hence `OpkOncePerRun`);
* of two clients that start together, one can take the legacy exchange because the
  other's bundle is not at the relay yet, and the other X3DH: they keep different
  root keys (Handshake; hence `ResponderSharesRoot`);
* after a removal a new member gets the leaf of a present one, and the check of
  `validate` for duplicate leaves (`group/group_state.py:280-284`), which the model does
  not repeat, fails from then on (GroupState);
* a queued session_init that is flushed right after `register` is read by
  `upload_bundle` as its answer, the start fails and the frame is lost (Relay);
* a fifth group member is entered into the membership although `add_member` raises,
  and the hash no longer commits to it (GroupState);
* a group message with a wrong tag is entered into the replay cache, and the genuine
  one is refused after it (GroupChat);
* an exception in `recv_text` or `recv_sealed` loses what the same call had decrypted
  before it: those messages are opened, gone from the inbox and never returned
  (SessionStack);
* the first message under a new ratchet key has number 0, which fork detection would
  take for a regression; both ends of a session start with the other's key and no
  honest message changes it, so that it does not get there (SessionStack,
  `AcceptedIsDecrypted`);
* nonces of group messages repeat: they depend on the key, the epoch and the counter,
  and every message has counter 0 (GroupChat; an open item of the repository's own
  checklist).

## What is proved

The theorems hold for all values of the constants that satisfy the assumptions of
the modules: limits are natural numbers, positive where the code's are, a client has
key pairs enough, and `None` is not one of the values it stands beside.  TLC
evaluates the assumptions in every run.

| Module | Theorem | Statement |
|---|---|---|
| `DoubleRatchetProofs` | `TypeCorrect` | `Spec => []TypeOK` |
| | `NoReplayAccepted` | `Spec => []AcceptedOnce` |
| | `ForwardSecrecy` | `Spec => []KeysErased` (forward secrecy, against the root key only after the first DH step) |
| | `HeaderIdsUnique` | `Spec => []IdsNeverRecur` |
| | `StoresStayBounded` | `Spec => []StoresBounded` |
| | `CountersNeverGoBack` | `Spec => CountersMonotonic` |
| | `SkipWorkBounded` | `Spec => SkipBounded` |
| | `KeysNeverReused` | `Spec => []NoKeyReuse` |
| | `ImplementsOnce` | `Spec => ImplementsOnceChannel` |
| `PersistentSessionProofs` | `StoreTypeCorrect` | `Spec => []TypeOK` |
| | `PrintedOnce` | `Spec => []DisplayedOnce` |
| | `FileOnlyGrows` | `Spec => FileNeverRollsBack` |
| | `IdleExitsNeverReuseKeys` | `Spec => []NoKeyReuseUndisturbed` |
| | `ArrivalsAreShown` | `Spec => []ArrivedIsShown` |
| | `RootsStayTogether` | `Spec => []RootsAgree` |
| `ChatClientProofs` | `ChatTypeCorrect` | `Spec => []TypeOK` |
| | `DecryptedIsAuthentic` | `Spec => []ShownIsAuthentic` |
| | `SentToSealedPeer` | `Spec => []SealedForRecipient` |
| | `FilesHoldPeerSessions` | `Spec => []FileHoldsPeerSessionCalm` |
| | `CalmKeysNeverReused` | `Spec => []NoKeyReuseCalm` |
| `HandshakeProofs` | `HandshakeTypeCorrect` | `Spec => []TypeOK` |
| | `PrekeyConsumedOnce` | `Spec => []OpkOncePerRun` |
| | `ResponderHasInitiatorsRoot` | `Spec => []ResponderSharesRoot` |
| | `SessionInUseIsSaved` | `Spec => []EngineIsOnDisk` |
| `RelayProofs` | `SpecRelay` | `Spec => []RelayInv` |
| | `RelayTypeCorrect` | `Spec => []TypeOK` |
| | `RegisteredClientsReachable` | `Spec => []RegisteredIsReachable` |
| | `InitsNeverDuplicated` | `Spec => []InitNotDuplicated` |
| | `MessagesStayInOrder` | `Spec => []MessagesInOrder` |
| `GroupChatProofs`, each under `SmallGroup` | `GroupTypeCorrect` | `Spec => []TypeOK` |
| | `GroupDisplayedOnce` | `Spec => []DisplayedOnce` |
| | `TreesConsistent` | `Spec => []TreeConsistent` |
| | `EpochDeterminesKey` | `Spec => []SameEpochSameKey` |
| | `RemovedMembersCannotDerive` | `Spec => []RemovedCannotDerive` |
| `SessionStackProofs` | `StackInvariant` | `Spec => []StackInv` |
| | `ShownComesFromPeer` | `Spec => []ShownFromPeer` |
| | `StackKeysNeverReused` | `Spec => []NoKeyReuse` |
| | `CacheStaysInStep` | `Spec => []CacheInStepWithRatchet` |
| | `AcceptedMessagesOpen` | `Spec => []AcceptedIsDecrypted` |
| | `SkippedKeysNeverServe` | `Spec => [][SkippedStep]_vars`, against the documents (above) |
| | `ResetsHaveReasons` | `Spec => []ResetHasReason` |

**The engine.**  A root key is the sequence of secrets it was derived from and
only ever gets longer, so chain keys are ordered: by the length of their root and
within a chain by their index.  `Behind(k, ck)` says that `k` comes before `ck` in
that order.  `SessionInv(s, Used, Sealed)` of `RatchetEngineProofs` says of one engine
that every key it has opened a message with (`Used`) is behind its receiving
chain, that every stored skipped key is behind it, stored once and not used, and
that every key it has sealed with (`Sealed`) is behind its sending chain, which is
the newest derivation of the root.  An engine that goes back to an old ratchet key
still derives from a longer root, which is why no key comes again however
small `received_ids` is: replay protection does not rest on that window.  The
engine lemmas show that every path of `ratchet_encrypt` and `ratchet_decrypt`,
failures included, preserves `SessionInv`; the loop of `_skip_receiving_until` is
a recursive function and is followed by induction on the number of its turns.

**Two engines** (`IndInv`, `CrossInv`).  `IndInv` combines `SessionInv` for the two
clients with the names of the own ratchet keys (`OwnKeysInv`: `dhs` is the last key
generated and the numbers sent under it are below `Ns`), which gives `IdsNeverRecur`.
`AcceptedOnce` alone is not inductive: it says nothing of the keys that are still
stored or ahead.  `ImplementsOnce` rests on the same invariant: a step of `Encrypt` is
a `Send` of the abstract channel because the new key is not in `Sealed`, a step of
`Decrypt` is an `Accept` because the key of an accepted message is not in `Used`, or
leaves the abstract variables alone when it fails.  `NoKeyReuse` between the two
clients needs more, since both derive their chains from one root: `CrossInv` says
which two key pairs made the last secret of a sending chain, that the messages under
one ratchet key are all of one chain and older than the key the peer generates when
it meets them, and so that no secret starts a sending chain of both clients.

**Files and crashes** (`StoreInvariant`).  The memory and the file of a client both
satisfy `SessionInv`, for different sets of keys: the memory for all that was
decrypted and sealed, the file for what was printed and for the sends whose save is
over.  Between a step and its save the two differ, which is where a crash bites;
the invariant gives up the sealed keys after a crash or an exit inside a send, and the opened ones after a
failed write, exactly as far as the properties do.

**Two sessions that take turns** (`AgreeInv`).  `ArrivedIsShown` and `RootsAgree` relate
both clients, so their invariant does too; a session is the memory, or the file while
the client is down.  `Turns(x, y)`: session `y` follows the sending chain of `x`, and
either has not answered, with the same root key, or has answered with a chain one DH
step further.  A message under the key that is followed extends this; one under the
new key swaps the roles.  Around it: what a client has sent is numbered without gaps
and comes from the chain its state says (`Numbered`); the replay window of the peer
holds exactly the ids of what arrived (`Remembers`), its skipped keys are exactly
those of the missing messages before `Nr` (`Keeps`), the rest is ahead in the
receiving chain (`Follows`); and under keys that both have left nothing is missing
(`Between`), which is where the order of arrival of the model comes in.  So a message
that comes again is refused before it can turn the ratchet back, and one that comes
for the first time finds its key.  Exits between sends and restarts leave the sessions as they
are: the file is up to date whenever nothing is under way (`FileCurrent`), and
`state_from_dict` rebuilds a window of different ids as it was (`LoadedSame`).

The proof needs limits that the two properties had not stated, and TLC showed why.
With `MAX_SKIP_DISTANCE` 0 and two messages in the wrong order the later one is
refused and never shown; with one skipped key and 3 messages a side, a message whose
skipped key was evicted is refused, is not in the replay window, and turns the ratchet
back when it comes again after its chain was left.  `WithinLimits` says that no
client has sent enough for that: with the code's limits (a distance of 5000, 1000
skipped keys, 2000 ids), 1001 messages.  It is a condition on the behaviour, not an
assumption about the constants.

**One engine for several peers** (`ChatInv`).  Every session in memory or in a file
descends from one handshake its holder is a party of; this part survives races,
crashes and payloads in the clear and gives `ShownIsAuthentic`.  The rest is stated under `Calm`: the file named
after a peer holds a session with that peer and has seen every key used in it, but
for the message `sender_loop` is suspended in.

**Handshakes** (`HandshakeInv`).  What was consumed in the present run of a client is
in its `used` set, so no key is available that was consumed; every root key on disk
or in an engine, and every session_init on its way, belongs to a handshake its
initiator made; and the root key of an engine is the one in the file for its peer,
because `save_session` comes before every switch of the engine.

**The relay** (`RelayInv`).  A register frame is the first and only frame of a socket
that is not entered yet.  A live client whose user had no other at the same time
(`doubled`) has the only live socket of that user, so the last register frame handled is
its own (`EntryInv`).  The frames of a connection are numbered: what the relay has
passed on is older than what it has not read.  This gives the order, and makes every
session_init new when it is taken; from there it is in one place at a time
(`CopiesInv`).  The module has two users who chat with each other, with any number
of connections and frames.

**Groups** (`GroupInv`).  Every change puts a new secret on a leaf and raises the
epoch, so a state is known by its epoch; a member installs states of growing epochs,
and what it has displayed is of an earlier epoch or in its replay cache.  That is why
dropping the cache with every new state repeats nothing.  The theorems assume
`SmallGroup`, at most as many clients as the tree has leaves
(`group/group_state.py`: "Prototype group size limit is 4 members"): with a fifth,
`add_member` raises half-way and `TreeConsistent` is false.

**The in-memory stack** (`StackInv`).  All root keys of a session begin with the secret
of its two first keys, wherever `recv_text` has led it, and that secret names the two
ends: a message that opens in a session was made in it, which gives `ShownFromPeer`.
The lemmas follow a context through `encrypt_for` and `decrypt_from` for any message,
also one of a third endpoint, and then a pass over the inbox by induction on its
length.  For `NoKeyReuse` the messages of one end are ordered by the length of their
root as in the engine; between the two ends, a sending chain that is not the first
starts with the secret of the own and the peer's key, and `KeysInv` says that the
messages under the peer's key are older than the own key, so that no secret starts a
later chain of both.  A stored skipped key is older than the newest message the
replay cache has accepted under its key (`ContextInv`), so that its own message is
never accepted; `SkippedKeysNeverServe` speaks of the ids in the store and not of the
keys, since a ratchet that is led back to a key it has left derives another chain for it
and may store a key of that chain under an id the store already has.  While only messages of the peer's first key were accepted, cache,
fork state and ratchet count the same messages (`InStep`).

`ResetHasReason` needs to know where the copies of an envelope are.  `ReasonInv` says,
on top of `StackInv`, that the letters under one key are numbered as they were sent,
that only letters were opened, and that, as long as the relay has repeated nothing,
every letter is at one place: at the relay, once in an inbox, or read.  A letter that
the cache of a clean session refuses was then overtaken, or the cache is full; and a
reason once given stays one, since an overtaken letter is below every number the cache
will still accept.

*Only model-checked:*

* the refinement of EnvelopeChannel by MixRelay: `deliver_due` and `get_all` select
  entries with `SelectSeq`, for which the prover has neither a definition nor lemmas;
* `StartUpEnds`: liveness under fairness is outside what the prover handles.

The library's induction theorems take an operator as a parameter, which the provers
cannot instantiate.  Where a proof needs induction, over the loop of
`_skip_receiving_until`, `_skip_message_keys`, `state_from_dict`, `recv_group_text`,
`recv_text` or `recv_sealed`, it uses
`InductiveSet`, the same principle for sets, proved from the least-number principle.

## What is not modelled

The primitives (HKDF, AEAD, signatures, X25519, the post-quantum branch) are taken as
perfect.  Encodings, file formats and the rejection of malformed input are left
out: a frame that the relay cannot use is the `unknown` frame, and a session file
holds what was written to it.  Message numbers are unbounded; the code refuses
numbers beyond 2^32 - 1.  `create_initial_state` is modelled without the peer's ratchet
key (`double_ratchet.py:520-527`), which no caller passes; X3DH without the validation of
bundles and the post-quantum branch.  Group trees have four leaves, which is the limit of
`for_member_count`. An envelope of the in-memory
stack that arrives is well formed.

Not modelled at all, and why:

* `network/timing_defense.py`, `network/scheduler.py`: sizes and delays are random
  draws; what they promise is statistical and they keep no state;
* `schedule_batch`, `is_expired` and the request models: no caller, no state;
* `group/group_ratchet.py`, `group/epoch_manager.py`: not called by the group message
  path; the group serialization is an encoding;
* `crypto/x3dh.py`, `crypto/prekeys.py`: a second implementation of the handshake, pure
  functions on keys that the client does not call (it uses `client/crypto/`);
* `SessionCrypto`: `async_main` never sets it;
* `storage/`, `transport/`: interfaces and thin wrappers that nothing calls;
* identity, key files and bootstrap: one file, read and written without concurrency;
* scripts.

## Plan

Done: RatchetEngine, DoubleRatchet with OnceChannel and the refinement;
PersistentSession; ChatClient; Relay; Handshake; GroupState and GroupChat;
MemoryRatchet, SessionManager and SessionStack; MixRelay with EnvelopeChannel; the
proofs listed above, which state every safety invariant of the runs.  Left: the
refinement of EnvelopeChannel by MixRelay, with its selections written as recursive
functions.
