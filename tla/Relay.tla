------------------------------- MODULE Relay -------------------------------
(***************************************************************************)
(* The WebSocket relay (server/websocket_server.py) and the start-up of    *)
(* the chat clients that talk to it (client/client.py async_main,          *)
(* client/network/websocket_client.py).                                    *)
(*                                                                         *)
(* The server is one event loop with a coroutine per socket; a coroutine   *)
(* gives way at every _send_json, so register is three kinds of step and   *)
(* every other handler is one.  A socket is a pair of FIFO queues.  A      *)
(* client reads the answer to a request as the next frame on its socket,   *)
(* until run_receiver starts and sorts the frames by type.                 *)
(***************************************************************************)
EXTENDS Integers, Sequences, FiniteSets

CONSTANTS
    None,
    User,
    LibraryUsers,   \* users of the client class who register and only listen
    MaxSockets,     \* bound: connections made by all clients together
    MaxFrames,      \* bound: frames sent by running clients
    MaxClosed       \* bound: connections that clients close or lose

ASSUME RelayAssumption ==
    /\ None \notin User \cup Nat
    /\ Cardinality(User) = 2
    /\ LibraryUsers \subseteq User
    /\ MaxSockets \in Nat /\ MaxFrames \in Nat /\ MaxClosed \in Nat

Socket == 1..MaxSockets

\* args.peer: each of the two users chats with the other.
Peer(u) == CHOOSE v \in User : v # u

VARIABLES
    connections,    \* _connections: user -> socket
    ephemeral_pubs, \* _ephemeral_pubs: user -> the key sent over that socket
    bundles,        \* _bundles: the users who have one
    pending_inits,  \* _pending_inits: user -> session_init frames
    username,       \* the handler's local variable
    handler,        \* where the handler of a socket is
    flushing,       \* the pending frames that a register handler has popped
    owner,          \* the user at the other end of a socket
    phase,          \* where that client is
    up, down,       \* frames on their way to the server, to the client
    received,       \* what run_receiver put into the client's two queues
    accepted,       \* the session_init frames the relay has taken
    doubled,        \* history: sockets of a user who had two clients at once
    frames, closed  \* how many, for the bounds

vars == <<connections, ephemeral_pubs, bundles, pending_inits, username, handler,
          flushing, owner, phase, up, down, received, accepted, doubled, frames,
          closed>>

server == <<connections, ephemeral_pubs, bundles, pending_inits, username, handler,
            flushing, accepted>>
client == <<owner, phase, received, doubled, frames, closed>>

\* A frame names a user (its sender, or whom a request is about) and, with the
\* socket it was sent over and its number there, its contents.
Frame(type, user, ref) == [type |-> type, user |-> user, ref |-> ref]
NoRef == <<0, 0>>
Reply(type) == Frame(type, None, NoRef)

Init ==
    /\ connections = [u \in User |-> None]
    /\ ephemeral_pubs = [u \in User |-> None]
    /\ bundles = {}
    /\ pending_inits = [u \in User |-> << >>]
    /\ username = [s \in Socket |-> None]
    /\ handler = [s \in Socket |-> "none"]
    /\ flushing = [s \in Socket |-> << >>]
    /\ owner = [s \in Socket |-> None]
    /\ phase = [s \in Socket |-> "unused"]
    /\ up = [s \in Socket |-> << >>]
    /\ down = [s \in Socket |-> << >>]
    /\ received = [s \in Socket |-> << >>]
    /\ accepted = {}
    /\ doubled = {}
    /\ frames = 0
    /\ closed = 0

Live(s) == phase[s] \notin {"unused", "failed", "abandoned", "closed"}
LiveOf(u) == {s \in Socket : owner[s] = u /\ Live(s)}

-----------------------------------------------------------------------------
(* The clients. *)

\* connect and register.  Nothing stops a user from starting a second client
\* while the first one runs.
Connect(u, s) ==
    /\ phase[s] = "unused" /\ \A t \in 1..(s - 1) : phase[t] # "unused"
    /\ owner' = [owner EXCEPT ![s] = u]
    /\ phase' = [phase EXCEPT ![s] = "registering"]
    /\ handler' = [handler EXCEPT ![s] = "reading"]
    /\ up' = [up EXCEPT ![s] = <<Frame("register", u, <<s, 0>>)>>]
    /\ doubled' = IF LiveOf(u) = {} THEN doubled ELSE doubled \cup LiveOf(u) \cup {s}
    /\ UNCHANGED <<connections, ephemeral_pubs, bundles, pending_inits, username,
                   flushing, down, received, accepted, frames, closed>>

\* The client reads the next frame as the answer to its request: with the
\* expected type it moves on to the next request, else to the phase given.
Answered(s, expected, request, next, else) ==
    /\ down[s] # << >>
    /\ LET ok == Head(down[s]).type = expected
           at == IF ok THEN next ELSE else.phase
           rq == IF ok THEN request ELSE else.request
       IN  /\ phase' = [phase EXCEPT ![s] = at]
           /\ up' = [up EXCEPT ![s] = @ \o rq]
           /\ down' = [down EXCEPT ![s] = IF at = "failed" THEN << >> ELSE Tail(@)]
    /\ UNCHANGED <<server, owner, received, doubled, frames, closed>>

Fails == [phase |-> "failed", request |-> << >>]

\* register raises on any other answer; async_main closes and returns 1.
ReadRegistered(s) ==
    /\ phase[s] = "registering"
    /\ IF owner[s] \in LibraryUsers
       THEN Answered(s, "registered", << >>, "running", Fails)
       ELSE Answered(s, "registered", <<Frame("upload_bundle", owner[s], NoRef)>>,
                     "uploading", Fails)

ReadBundleUploaded(s) ==
    /\ phase[s] = "uploading"
    /\ Answered(s, "bundle_uploaded", <<Frame("get_bundle", Peer(owner[s]), NoRef)>>,
                "fetching_bundle", Fails)

\* get_peer_bundle: any failure falls back to the legacy exchange of keys.
ReadPeerBundle(s) ==
    /\ phase[s] = "fetching_bundle"
    /\ Answered(s, "peer_bundle", <<Frame("session_init", Peer(owner[s]), <<s, 0>>)>>, "running",
                [phase |-> "fetching_key",
                 request |-> <<Frame("get_peer", Peer(owner[s]), NoRef)>>])

\* get_peer_key: the fallback of the fallback is to give up.
ReadPeerKey(s) ==
    /\ phase[s] = "fetching_key"
    /\ Answered(s, "peer_key", << >>, "running", Fails)

\* run_receiver: chat messages and session_inits are queued, the rest dropped.
RunReceiver(s) ==
    /\ phase[s] = "running"
    /\ down[s] # << >>
    /\ received' = [received EXCEPT ![s] =
            IF Head(down[s]).type \in {"msg", "session_init"}
            THEN Append(@, Head(down[s])) ELSE @]
    /\ down' = [down EXCEPT ![s] = Tail(@)]
    /\ UNCHANGED <<server, owner, phase, up, doubled, frames, closed>>

\* send_message, send_session_init of a library user, and a frame of a type the
\* relay does not know.
SendFrame(s, type) ==
    /\ phase[s] = "running"
    /\ type = "session_init" => owner[s] \in LibraryUsers
    /\ frames < MaxFrames
    /\ frames' = frames + 1
    /\ up' = [up EXCEPT ![s] = Append(@, Frame(type, Peer(owner[s]), <<s, frames + 1>>))]
    /\ UNCHANGED <<server, owner, phase, down, received, doubled, closed>>

\* The client closes its socket or loses it; what was sent to it is lost.
Close(s) ==
    /\ Live(s)
    /\ closed < MaxClosed
    /\ closed' = closed + 1
    /\ phase' = [phase EXCEPT ![s] = IF @ = "registering" THEN "abandoned" ELSE "closed"]
    /\ down' = [down EXCEPT ![s] = << >>]
    /\ UNCHANGED <<server, owner, up, received, doubled, frames>>

-----------------------------------------------------------------------------
(* The relay: websocket_relay, one coroutine per socket. *)

\* _send_json swallows every error: a frame to a dead socket is gone.
Deliver(s, f) ==
    down' = IF Live(s) THEN [down EXCEPT ![s] = Append(@, f)] ELSE down

\* The handler of s has read a frame of one of these types.
Reads(s, types) ==
    /\ handler[s] = "reading"
    /\ up[s] # << >>
    /\ Head(up[s]).type \in types
    /\ up' = [up EXCEPT ![s] = Tail(@)]

Globals == <<connections, ephemeral_pubs, bundles, pending_inits>>
Locals == <<username, handler, flushing>>

\* register: the socket is entered before the answer is sent; the pending
\* frames are popped when the coroutine resumes.
HandleRegister(s) ==
    /\ Reads(s, {"register"})
    /\ LET u == Head(up[s]).user
       IN  /\ username' = [username EXCEPT ![s] = u]
           /\ connections' = [connections EXCEPT ![u] = s]
           /\ ephemeral_pubs' = [ephemeral_pubs EXCEPT ![u] = s]
    /\ Deliver(s, Reply("registered"))
    /\ handler' = [handler EXCEPT ![s] = "registered"]
    /\ UNCHANGED <<bundles, pending_inits, flushing, accepted,
                   client>>

\* A slip: the pending frames are read and stay in the queue.
PopPendingKeeping(s) ==
    /\ handler[s] = "registered"
    /\ LET pending == pending_inits[username[s]]
       IN  /\ flushing' = [flushing EXCEPT ![s] = pending]
           /\ handler' = [handler EXCEPT ![s] =
                            IF pending = << >> THEN "reading" ELSE "flushing"]
    /\ UNCHANGED <<Globals, username, up, down, accepted,
                   client>>

PopPending(s) ==
    /\ handler[s] = "registered"
    /\ LET pending == pending_inits[username[s]]
       IN  /\ flushing' = [flushing EXCEPT ![s] = pending]
           /\ handler' = [handler EXCEPT ![s] =
                            IF pending = << >> THEN "reading" ELSE "flushing"]
    /\ pending_inits' = [pending_inits EXCEPT ![username[s]] = << >>]
    /\ UNCHANGED <<connections, ephemeral_pubs, bundles, username, up, down,
                   accepted,
                   client>>

FlushPending(s) ==
    /\ handler[s] = "flushing"
    /\ Deliver(s, Head(flushing[s]))
    /\ flushing' = [flushing EXCEPT ![s] = Tail(@)]
    /\ handler' = [handler EXCEPT ![s] =
                     IF Len(flushing[s]) = 1 THEN "reading" ELSE "flushing"]
    /\ UNCHANGED <<Globals, username, up, accepted,
                   client>>

HandleUploadBundle(s) ==
    /\ Reads(s, {"upload_bundle"})
    /\ bundles' = bundles \cup {Head(up[s]).user}
    /\ Deliver(s, Reply("bundle_uploaded"))
    /\ UNCHANGED <<connections, ephemeral_pubs, pending_inits, Locals, accepted,
                   client>>

\* A slip: the early return for an unknown peer forgets the answer.
GetBundleSilent(s) ==
    /\ Reads(s, {"get_bundle"})
    /\ IF Head(up[s]).user \in bundles
       THEN Deliver(s, Reply("peer_bundle"))
       ELSE UNCHANGED down
    /\ UNCHANGED <<server, client>>

HandleGetBundle(s) ==
    /\ Reads(s, {"get_bundle"})
    /\ Deliver(s, IF Head(up[s]).user \in bundles
                  THEN Reply("peer_bundle") ELSE Reply("error"))
    /\ UNCHANGED <<server, client>>

\* A slip: the check that the peer is known is left out.
GetPeerUnchecked(s) ==
    /\ Reads(s, {"get_peer"})
    /\ LET peer == Head(up[s]).user
       IN  Deliver(s, Frame("peer_key", peer, <<ephemeral_pubs[peer], 0>>))
    /\ UNCHANGED <<server, client>>

HandleGetPeer(s) ==
    /\ Reads(s, {"get_peer"})
    /\ LET peer == Head(up[s]).user
       IN  Deliver(s, IF connections[peer] = None \/ ephemeral_pubs[peer] = None
                      THEN Reply("error")
                      ELSE Frame("peer_key", peer, <<ephemeral_pubs[peer], 0>>))
    /\ UNCHANGED <<server, client>>

\* session_init: forwarded to a user who has an entry in _connections, queued
\* for one who has not.
HandleSessionInit(s) ==
    /\ Reads(s, {"session_init"})
    /\ LET to   == Head(up[s]).user
           init == Frame("session_init", username[s], Head(up[s]).ref)
       IN  IF username[s] = None
           THEN /\ Deliver(s, Reply("error"))
                /\ UNCHANGED <<pending_inits, accepted>>
           ELSE /\ accepted' = accepted \cup {init}
                /\ IF connections[to] # None
                   THEN /\ Deliver(connections[to], init)
                        /\ UNCHANGED pending_inits
                   ELSE /\ pending_inits' = [pending_inits EXCEPT ![to] = Append(@, init)]
                        /\ UNCHANGED down
    /\ UNCHANGED <<connections, ephemeral_pubs, bundles, Locals, client>>

\* A slip: frames are handled by tasks of their own, in any order.
HandleMsgAnyOrder(s) ==
    /\ handler[s] = "reading"
    /\ \E k \in 1..Len(up[s]) :
         LET f == up[s][k]
         IN  /\ f.type = "msg"
             /\ up' = [up EXCEPT ![s] = SubSeq(@, 1, k - 1) \o SubSeq(@, k + 1, Len(@))]
             /\ IF connections[f.user] = None
                THEN Deliver(s, Reply("error"))
                ELSE Deliver(connections[f.user], Frame("msg", username[s], f.ref))
    /\ UNCHANGED <<server, client>>

HandleMsg(s) ==
    /\ Reads(s, {"msg"})
    /\ LET to == Head(up[s]).user
       IN  IF username[s] = None \/ connections[to] = None
           THEN Deliver(s, Reply("error"))
           ELSE Deliver(connections[to], Frame("msg", username[s], Head(up[s]).ref))
    /\ UNCHANGED <<server, client>>

HandleUnknown(s) ==
    /\ Reads(s, {"unknown"})
    /\ Deliver(s, Reply("error"))
    /\ UNCHANGED <<server, client>>

\* What the except clause of websocket_relay does when it is reached: the
\* entry of the user is deleted.
HandlerEndsCleaning(s) ==
    /\ handler[s] = "reading"
    /\ ~ Live(s) /\ up[s] = << >>
    /\ handler' = [handler EXCEPT ![s] = "ended"]
    /\ connections' = [u \in User |-> IF u = username[s] THEN None ELSE connections[u]]
    /\ ephemeral_pubs' = [u \in User |-> IF u = username[s] THEN None ELSE ephemeral_pubs[u]]
    /\ UNCHANGED <<bundles, pending_inits, username, flushing, up, down, accepted,
                   client>>

\* receive_text raises on a closed socket and the loop breaks: the handler ends
\* and _connections keeps its entry.
HandlerEnds(s) ==
    /\ handler[s] = "reading"
    /\ ~ Live(s) /\ up[s] = << >>
    /\ handler' = [handler EXCEPT ![s] = "ended"]
    /\ UNCHANGED <<Globals, username, flushing, up, down, accepted,
                   client>>

-----------------------------------------------------------------------------
ClientReads(s) ==
    \/ ReadRegistered(s) \/ ReadBundleUploaded(s)
    \/ ReadPeerBundle(s) \/ ReadPeerKey(s) \/ RunReceiver(s)

Handle(s) ==
    \/ HandleRegister(s) \/ PopPending(s) \/ FlushPending(s)
    \/ HandleUploadBundle(s) \/ HandleGetBundle(s) \/ HandleGetPeer(s)
    \/ HandleSessionInit(s) \/ HandleMsg(s) \/ HandleUnknown(s)
    \/ HandlerEnds(s)

Next ==
    \E s \in Socket :
        \/ \E u \in User : Connect(u, s)
        \/ ClientReads(s)
        \/ \E type \in {"msg", "session_init", "unknown"} : SendFrame(s, type)
        \/ Close(s)
        \/ Handle(s)

Spec == Init /\ [][Next]_vars

\* The event loops run every coroutine whose socket has something to read.
Fairness == \A s \in Socket : WF_vars(ClientReads(s)) /\ WF_vars(Handle(s))

FairSpec == Spec /\ Fairness

-----------------------------------------------------------------------------
(* Properties. *)

Frames == [type : {"register", "upload_bundle", "get_bundle", "get_peer",
                   "session_init", "msg", "unknown", "registered",
                   "bundle_uploaded", "peer_bundle", "peer_key", "error"},
           user : User \cup {None}, ref : (0..MaxSockets) \X (0..MaxFrames)]

\* The variables hold what the server and the clients can store in them.
TypeOK ==
    /\ connections \in [User -> Socket \cup {None}]
    /\ ephemeral_pubs \in [User -> Socket \cup {None}]
    /\ bundles \subseteq User
    /\ pending_inits \in [User -> Seq(Frames)]
    /\ username \in [Socket -> User \cup {None}]
    /\ handler \in [Socket -> {"none", "reading", "registered", "flushing", "ended"}]
    /\ flushing \in [Socket -> Seq(Frames)]
    /\ owner \in [Socket -> User \cup {None}]
    /\ phase \in [Socket -> {"unused", "registering", "uploading", "fetching_bundle",
                             "fetching_key", "running", "failed", "abandoned", "closed"}]
    /\ up \in [Socket -> Seq(Frames)]
    /\ down \in [Socket -> Seq(Frames)]
    /\ received \in [Socket -> Seq(Frames)]
    /\ accepted \subseteq Frames
    /\ doubled \subseteq Socket
    /\ frames \in 0..MaxFrames
    /\ closed \in 0..MaxClosed

\* A client that was told it is registered, and is still there, is the one the
\* relay forwards to, however late the handler of an earlier connection of the
\* same user ends; unless that connection was given up while its register frame
\* was still unread, or the user had two clients at once: the one that registers
\* last then takes the entry, and keeps it when it is gone.
RegisteredIsReachable ==
    \A s \in Socket \ doubled :
        /\ Live(s) /\ phase[s] # "registering"
        /\ \A t \in Socket : owner[t] = owner[s] => phase[t] # "abandoned"
        => connections[owner[s]] = s

\* Where a session_init is, in the queues of one kind.
Places(kind, queues, init) ==
    UNION {{<<kind, x, k>> : k \in {j \in DOMAIN queues[x] : queues[x][j] = init}} :
             x \in DOMAIN queues}

Copies(init) ==
    Cardinality(     Places("pending", pending_inits, init)
                \cup Places("flushing", flushing, init)
                \cup Places("down", down, init)
                \cup Places("received", received, init))

\* A session_init is never handed to its recipient twice, nor kept for a second
\* delivery, whichever of the two paths it takes and however often the recipient
\* registers.
InitNotDuplicated == \A init \in accepted : Copies(init) <= 1

\* Chat messages sent over one connection reach a receiver in that order.
MessagesInOrder ==
    \A s \in Socket : \A j, k \in DOMAIN received[s] :
        LET f == received[s][j]
            g == received[s][k]
        IN  j < k /\ f.type = "msg" /\ g.type = "msg" /\ f.ref[1] = g.ref[1]
              => f.ref[2] < g.ref[2]

\* A client that starts is up or has given up before long: every request gets
\* an answer, whatever frames other clients have sent to it in between.  (There
\* are finitely many clients, so again and again none of them is starting.)
StartUpEnds ==
    []<>(\A s \in Socket :
            phase[s] \notin {"registering", "uploading", "fetching_bundle", "fetching_key"})
=============================================================================
