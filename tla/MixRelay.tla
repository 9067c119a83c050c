------------------------------ MODULE MixRelay ------------------------------
(***************************************************************************)
(* The relay side of the in-memory stack: Router with its mix delays       *)
(* (server/router.py, network/mix_router.py), the MemoryMailboxStore with  *)
(* its time to live (server/memory_mailbox.py) and the client's source of  *)
(* cover packets (network/cover_traffic.py).                               *)
(*                                                                         *)
(* Time is relative: an entry holds how long it still has to wait, or to   *)
(* live, instead of a time on the clock.  An envelope is its recipient     *)
(* (recipient_locator, or NoRecipient when the dict names none) and an     *)
(* identity.                                                               *)
(***************************************************************************)
EXTENDS Integers, Sequences, FiniteSets, SequencesExt

CONSTANTS
    Endpoint,       \* the recipients who fetch their mail
    Decoy,          \* CoverTrafficConfig.recipient_locator: nobody's mailbox
    NoRecipient,    \* get_routing_recipient raises on this envelope
    MaxDelay,       \* longest mix delay
    MaxInterval,    \* longest interval between cover packets
    TTL,            \* time to live of a stored envelope
    MaxEnvelopes,   \* bound: envelopes handed in
    MaxPolls        \* bound: calls of get_all

ASSUME MixRelayAssumption ==
    /\ Decoy \notin Endpoint /\ NoRecipient \notin Endpoint \cup {Decoy}
    /\ MaxDelay \in Nat /\ MaxInterval \in Nat \ {0} /\ TTL \in Nat
    /\ MaxEnvelopes \in Nat /\ MaxPolls \in Nat

VARIABLES
    scheduled,  \* Router._scheduled: [wait, env] in the order of arrival
    mailboxes,  \* Router.mailboxes
    store,      \* MemoryMailboxStore.mailboxes: [left, env], left = -1: expired
    cover,      \* CoverTrafficScheduler._next_time: time to wait, -1 for None
    used,       \* the envelopes handed in so far
    polls,      \* how often get_all was called
    handed      \* handed[p]: what dequeue_all and get_all have returned to p

vars == <<scheduled, mailboxes, store, cover, used, polls, handed>>

Locator == Endpoint \cup {Decoy}
Envelope == [to : Locator \cup {NoRecipient}, id : 1..MaxEnvelopes]

Init ==
    /\ scheduled = << >>
    /\ mailboxes = [p \in Locator |-> << >>]
    /\ store = [p \in Endpoint |-> << >>]
    /\ cover = -1
    /\ used = {}
    /\ polls = 0
    /\ handed = [p \in Endpoint |-> << >>]

Envelopes(entries) == [j \in 1..Len(entries) |-> entries[j].env]

\* A new envelope for p.
NewEnvelope(p, env) ==
    /\ Cardinality(used) < MaxEnvelopes
    /\ env = [to |-> p, id |-> Cardinality(used) + 1]
    /\ used' = used \cup {env}

-----------------------------------------------------------------------------
(* Router *)

enqueue(env) == mailboxes' = [mailboxes EXCEPT ![env.to] = Append(@, env)]

\* MixRouter.schedule_envelope: the delay is drawn at random.
schedule_envelope(env) ==
    \E delay \in 0..MaxDelay :
        scheduled' = Append(scheduled, [wait |-> delay, env |-> env])

\* The recipient is looked up at once only where no delay is drawn: there an
\* envelope without one is refused.
enqueue_by_envelope(env, use_mix) ==
    \/ use_mix /\ schedule_envelope(env) /\ UNCHANGED mailboxes
    \/ ~ use_mix /\ env.to # NoRecipient /\ enqueue(env) /\ UNCHANGED scheduled

Route(p, use_mix) ==
    /\ \E env \in Envelope : NewEnvelope(p, env) /\ enqueue_by_envelope(env, use_mix)
    /\ UNCHANGED <<store, cover, polls, handed>>

Due(e) == e.wait <= 0

Unroutable(e) == e.env.to = NoRecipient

\* The due entries that reach a mailbox: get_routing_recipient raises at the
\* first one without a recipient and the loop is left.
Delivered ==
    LET due == SelectSeq(scheduled, Due)
        bad == SelectInSeq(due, Unroutable)
    IN  IF bad = 0 THEN due ELSE SubSeq(due, 1, bad - 1)

\* What deliver_due appends to the mailbox of p, in the order it came.
DeliveredTo(p) == Envelopes(SelectSeq(Delivered, LAMBDA e : e.env.to = p))

\* A plausible slip: due envelopes stay in the schedule.
DeliverKeepingDue ==
    /\ \E j \in 1..Len(scheduled) : Due(scheduled[j])
    /\ mailboxes' = [p \in Locator |-> mailboxes[p] \o DeliveredTo(p)]
    /\ UNCHANGED <<scheduled, store, cover, used, polls, handed>>

\* The schedule is replaced before the mailboxes are filled: when the loop is
\* left by the exception, the due entries it has not reached are gone.
deliver_due ==
    /\ \E j \in 1..Len(scheduled) : Due(scheduled[j])
    /\ mailboxes' = [p \in Locator |-> mailboxes[p] \o DeliveredTo(p)]
    /\ scheduled' = SelectSeq(scheduled, LAMBDA e : ~ Due(e))
    /\ UNCHANGED <<store, cover, used, polls, handed>>

dequeue_all(p) ==
    /\ mailboxes[p] # << >>
    /\ handed' = [handed EXCEPT ![p] = @ \o mailboxes[p]]
    /\ mailboxes' = [mailboxes EXCEPT ![p] = << >>]
    /\ UNCHANGED <<scheduled, store, cover, used, polls>>

-----------------------------------------------------------------------------
(* MemoryMailboxStore *)

put(p) ==
    /\ \E env \in Envelope :
         /\ NewEnvelope(p, env)
         /\ store' = [store EXCEPT ![p] = Append(@, [left |-> TTL, env |-> env])]
    /\ UNCHANGED <<scheduled, mailboxes, cover, polls, handed>>

Alive(p) == SelectSeq(store[p], LAMBDA e : e.left >= 0)

\* What is alive is returned, and also stays in the store.
get_all(p) ==
    /\ polls < MaxPolls
    /\ polls' = polls + 1
    /\ handed' = [handed EXCEPT ![p] = @ \o Envelopes(Alive(p))]
    /\ store' = [store EXCEPT ![p] = Alive(p)]
    /\ UNCHANGED <<scheduled, mailboxes, cover, used>>

-----------------------------------------------------------------------------
(* CoverTrafficScheduler *)

\* A packet is due when none was ever scheduled or its time has come.
CoverDue == cover <= 0

Rearm == \E interval \in 1..MaxInterval : cover' = interval

\* maybe_generate_cover_packet, and the packet, which goes to the decoy, handed
\* to the Router.
maybe_generate_cover_packet(use_mix) ==
    /\ CoverDue
    /\ Rearm
    /\ \E env \in Envelope : NewEnvelope(Decoy, env) /\ enqueue_by_envelope(env, use_mix)
    /\ UNCHANGED <<store, polls, handed>>

\* Asking for the time also moves it when it has come: the packet that was due
\* is put off.
next_scheduled_time ==
    /\ CoverDue
    /\ Rearm
    /\ UNCHANGED <<scheduled, mailboxes, store, used, polls, handed>>

-----------------------------------------------------------------------------
(* The clock: the arithmetic on time.time() in terms of what is left. *)

Less(n, least) == IF n > least THEN n - 1 ELSE n

Tick ==
    /\ scheduled' = [j \in 1..Len(scheduled) |-> [scheduled[j] EXCEPT !.wait = Less(@, 0)]]
    /\ store' = [p \in Endpoint |->
                   [j \in 1..Len(store[p]) |-> [store[p][j] EXCEPT !.left = Less(@, -1)]]]
    /\ cover' = IF cover = -1 THEN -1 ELSE Less(cover, 0)
    /\ UNCHANGED <<mailboxes, used, polls, handed>>

Next ==
    \/ \E p \in Endpoint \cup {NoRecipient}, use_mix \in BOOLEAN : Route(p, use_mix)
    \/ \E use_mix \in BOOLEAN : maybe_generate_cover_packet(use_mix)
    \/ deliver_due
    \/ \E p \in Endpoint : dequeue_all(p) \/ put(p) \/ get_all(p)
    \/ next_scheduled_time
    \/ Tick

Spec == Init /\ [][Next]_vars

-----------------------------------------------------------------------------
(* Properties. *)

Entry == [wait : 0..MaxDelay, env : Envelope]
Stored == [left : -1..TTL, env : Envelope]

\* The queues hold what the code can store in them.
TypeOK ==
    /\ scheduled \in Seq(Entry)
    /\ mailboxes \in [Locator -> Seq(Envelope)]
    /\ store \in [Endpoint -> Seq(Stored)]
    /\ cover \in -1..MaxInterval
    /\ used \subseteq Envelope
    /\ polls \in 0..MaxPolls
    /\ handed \in [Endpoint -> Seq(Envelope)]

Routed == ToSet(Envelopes(scheduled)) \cup UNION {ToSet(mailboxes[p]) : p \in Locator}
Kept == UNION {ToSet(Envelopes(Alive(p))) : p \in Endpoint}

Channel == INSTANCE EnvelopeChannel WITH waiting <- Routed, kept <- Kept

\* The schedule, the mailboxes and the store together are a channel that hands
\* every routed envelope to its recipient at most once, loses it only when
\* deliver_due raises on one without a recipient, and hands out a stored one only
\* while it lives.
ImplementsChannel == Channel!ChannelSpec
=============================================================================
