----------------------------- MODULE GroupChat -----------------------------
(***************************************************************************)
(* A group of clients: client/group_manager.py, group/group_messaging.py   *)
(* and the group half of client/message_api.py over the states of module   *)
(* GroupState.  The creator changes the membership; how the new state      *)
(* reaches the members is left to the caller, and is modelled as an        *)
(* ordered channel to each of them.  Group messages may be delivered again *)
(* or damaged on their way.                                                *)
(***************************************************************************)
EXTENDS GroupState

CONSTANTS
    Creator,
    InitialMembers,     \* the sequence of clients create_group is called with
    max_entries,        \* ReplayCache.max_entries
    MaxSent,            \* bound: group messages sent
    MaxChanges,         \* bound: membership changes
    MaxCalls,           \* bound: messages and membership changes together
    MaxFaults           \* bound: messages delivered a second time or damaged

ASSUME GroupAssumption ==
    /\ Len(InitialMembers) \in 1..CAPACITY
    /\ InitialMembers[1] = Creator
    /\ \A i \in 1..Len(InitialMembers) : InitialMembers[i] \in Client
    /\ \A i, j \in 1..Len(InitialMembers) : InitialMembers[i] = InitialMembers[j] => i = j
    /\ None \notin Client /\ None \notin Nat
    /\ \A cache \in SUBSET ((0..CAPACITY) \X {0}) : cache # None
    /\ None \notin Seed /\ None \notin LeafSecret
    /\ None \notin InnerSecret /\ None \notin RootSecret /\ None \notin GroupStates
    /\ {max_entries, MaxSent, MaxChanges, MaxCalls, MaxFaults} \subseteq Nat

VARIABLES
    state,      \* the GroupState a client's GroupManager holds, or None
    my_leaf,    \* its own leaf index
    seen,       \* the ReplayCache of its cached receiver, None before it is made
    updates,    \* states on their way to a client
    inbox,      \* group_inbox of a client
    wire,       \* every group message sent, in order
    displayed,  \* the messages recv_group_text returned to a client
    changes, faults

vars == <<state, my_leaf, seen, updates, inbox, wire, displayed, changes, faults>>

Init ==
    LET members == {InitialMembers[i] : i \in 1..Len(InitialMembers)}
        s == create(InitialMembers,
                    [i \in 1..Len(InitialMembers) |-> <<"random", 0, i>>])
    IN  /\ state = [u \in Client |-> IF u \in members THEN s ELSE None]
        /\ my_leaf = s.members
        /\ seen = [u \in Client |-> None]
        /\ updates = [u \in Client |-> << >>]
        /\ inbox = [u \in Client |-> << >>]
        /\ wire = << >>
        /\ displayed = [u \in Client |-> << >>]
        /\ changes = 0 /\ faults = 0

-----------------------------------------------------------------------------
(* Membership: MembershipController and GroupManager *)

\* os.urandom(32).
Fresh == <<"random", changes + 1, 0>>

\* The creator's state object changes in place, so that its cached receiver
\* keeps its replay cache.  The other members are sent the new state, unless the
\* call has raised and derived no new keys.
Change(s) ==
    /\ changes < MaxChanges /\ Len(wire) + changes < MaxCalls
    /\ changes' = changes + 1
    /\ state' = [state EXCEPT ![Creator] = s]
    /\ updates' = [v \in Client |-> IF /\ v \in MemberIds(s) \ {Creator}
                                       /\ s.group_hash # state[Creator].group_hash
                                    THEN Append(updates[v], s) ELSE updates[v]]
    /\ UNCHANGED <<my_leaf, seen, inbox, wire, displayed, faults>>

add_group_member(u) ==
    /\ u \notin MemberIds(state[Creator])
    /\ Change(add_member(state[Creator], u, Fresh))

remove_group_member(u) ==
    /\ u \in MemberIds(state[Creator])
    /\ Change(remove_member(state[Creator], u, Fresh))

\* join_group of a new member, set_state of another: the receiver is dropped.
Install(v) ==
    /\ updates[v] # << >>
    /\ state' = [state EXCEPT ![v] = Head(updates[v])]
    /\ my_leaf' = [my_leaf EXCEPT ![v] = Head(updates[v]).members[v]]
    /\ updates' = [updates EXCEPT ![v] = Tail(@)]
    /\ seen' = [seen EXCEPT ![v] = None]
    /\ UNCHANGED <<inbox, wire, displayed, changes, faults>>

-----------------------------------------------------------------------------
(* Messages *)

\* GroupMessenger.encrypt with a given counter.
encrypt(u, counter) ==
    [epoch |-> state[u].epoch, leaf |-> my_leaf[u], counter |-> counter,
     key |-> state[u].application_key, id |-> Len(wire) + 1]

\* send_group_text: get_messenger makes a new GroupMessenger, with counter 0,
\* for every message.
send_group_text(u) ==
    /\ state[u] # None
    /\ Len(wire) < MaxSent /\ Len(wire) + changes < MaxCalls
    /\ LET m == encrypt(u, 0)
       IN  /\ wire' = Append(wire, m)
           /\ inbox' = [v \in Client |-> IF v \in MemberIds(state[u]) \ {u}
                                         THEN Append(inbox[v], m) ELSE inbox[v]]
    /\ UNCHANGED <<state, my_leaf, seen, updates, displayed, changes, faults>>

\* A slip: a message is looked up in the cache and not entered.
MarkedNever(cache, m) == cache

\* A slip: the bound of the cache is not enforced.
FitsUnbounded(cache, m) == <<m.leaf, m.counter>> \notin cache

\* check_and_mark: refused when it was seen, and when the cache is full.
Fits(cache, m) == <<m.leaf, m.counter>> \notin cache /\ Cardinality(cache) < max_entries
Marked(cache, m) == cache \cup {<<m.leaf, m.counter>>}

\* decrypt: the result, and the cache it leaves, which has the message before
\* the tag is checked.
decrypt(s, cache, m) ==
    LET current == m.epoch = s.epoch
        member  == \E u \in MemberIds(s) : s.members[u] = m.leaf
        fits    == Fits(cache, m)
    IN  [ok   |-> current /\ member /\ fits /\ m.key = s.application_key,
         seen |-> IF current /\ member /\ fits THEN Marked(cache, m) ELSE cache]

\* recv_group_text: the inbox is emptied up to the first message that fails,
\* which goes back to the front.  get_receiver makes the receiver once.
recv_group_text(v) ==
    /\ state[v] # None
    /\ LET q == inbox[v]
           after[k \in 0..Len(q)] ==
               IF k = 0
               THEN [taken |-> 0, stuck |-> FALSE,
                     seen |-> IF seen[v] = None THEN {} ELSE seen[v]]
               ELSE LET a == after[k - 1]
                        d == decrypt(state[v], a.seen, q[k])
                    IN  IF a.stuck THEN a
                        ELSE [taken |-> IF d.ok THEN k ELSE k - 1,
                              stuck |-> ~ d.ok, seen |-> d.seen]
           end == after[Len(q)]
       IN  /\ seen' = [seen EXCEPT ![v] = end.seen]
           /\ inbox' = [inbox EXCEPT ![v] = SubSeq(q, end.taken + 1, Len(q))]
           /\ displayed' = [displayed EXCEPT ![v] =
                              @ \o [k \in 1..end.taken |-> q[k].id]]
    /\ UNCHANGED <<state, my_leaf, updates, wire, changes, faults>>

\* The network delivers a message again.
Redeliver(v, i) ==
    /\ faults < MaxFaults
    /\ faults' = faults + 1
    /\ inbox' = [inbox EXCEPT ![v] = Append(@, wire[i])]
    /\ UNCHANGED <<state, my_leaf, seen, updates, wire, displayed, changes>>

\* The ciphertext of a message is damaged: no key opens it.
Damage(v, k) ==
    /\ faults < MaxFaults
    /\ faults' = faults + 1
    /\ inbox' = [inbox EXCEPT ![v][k].key = None]
    /\ UNCHANGED <<state, my_leaf, seen, updates, wire, displayed, changes>>

Next ==
    \E u \in Client :
        \/ add_group_member(u) \/ remove_group_member(u) \/ Install(u)
        \/ send_group_text(u) \/ recv_group_text(u)
        \/ \E i \in 1..Len(wire) : Redeliver(u, i)
        \/ \E k \in 1..Len(inbox[u]) : Damage(u, k)

Spec == Init /\ [][Next]_vars

-----------------------------------------------------------------------------
(* Properties. *)

Message == [epoch : Nat, leaf : 0..CAPACITY, counter : Nat, id : 1..MaxSent]
Header(m) == [epoch |-> m.epoch, leaf |-> m.leaf, counter |-> m.counter, id |-> m.id]

\* The variables hold what the code can store in them, and a replay cache never
\* outgrows max_entries.
TypeOK ==
    /\ \A u \in Client : state[u] # None =>
         /\ state[u].epoch \in INITIAL_EPOCH..(INITIAL_EPOCH + MaxChanges)
         /\ state[u].members \in [Client -> 0..CAPACITY \cup {None}]
         /\ DOMAIN state[u].nodes = Node
    /\ my_leaf \in [Client -> 0..CAPACITY \cup {None}]
    /\ \A u \in Client : seen[u] # None =>
         /\ seen[u] \subseteq (0..CAPACITY) \X Nat
         /\ Cardinality(seen[u]) <= max_entries
    /\ \A u \in Client : \A k \in 1..Len(inbox[u]) : Header(inbox[u][k]) \in Message
    /\ \A k \in 1..Len(wire) : Header(wire[k]) \in Message
    /\ displayed \in [Client -> Seq(1..MaxSent)]
    /\ changes \in 0..MaxChanges
    /\ faults \in 0..MaxFaults

States == {state[u] : u \in Client} \ {None}

\* After any sequence of joins and removals every inner secret of a member's
\* tree is the one its children give, and the group hash commits to the epoch,
\* the members and the root.
TreeConsistent == \A s \in States : RootFollowsLeaves(s) /\ HashMatches(s)

\* However the updates to the members are delayed against each other, the
\* comparison of summaries tells exactly the members that share the application
\* key: verify_consistency accepts the states of one epoch and no others.
SameEpochSameKey ==
    \A s, t \in States :
        /\ verify_consistency(s, {summarize_state(t)}, None) <=> s.epoch = t.epoch
        /\ s.application_key = t.application_key <=> s.epoch = t.epoch

\* The secret of node i of s is in the tree of t.
InTree(t, s, i) == \E j \in Node : t.nodes[j] = s.nodes[i]

\* The root secret of s can be computed from the tree of t: it is there, or those
\* of both its children, or of theirs, are.
Derives(t, s) ==
    LET Known(i) == InTree(t, s, i) \/ (InTree(t, s, 2 * i + 1) /\ InTree(t, s, 2 * i + 2))
    IN  InTree(t, s, 0) \/ (Known(1) /\ Known(2))

\* remove_member: "forcing a rekey so they cannot derive future group secrets".
\* A client that is not in a later state cannot compute its root secret from the
\* whole tree it was given before, whatever joined and left around it and though
\* a new member may have been put on the leaf of a present one.
RemovedCannotDerive ==
    \A v \in Client, s \in States :
        state[v] # None /\ v \notin MemberIds(s) /\ s.epoch > state[v].epoch
            => ~ Derives(state[v], s)

\* No member is shown a group message twice, although receivers and their
\* replay caches are dropped with every new state.
DisplayedOnce ==
    \A u \in Client : \A j, k \in 1..Len(displayed[u]) :
        displayed[u][j] = displayed[u][k] => j = k

\* recv_group_text decrypts all pending messages.
AllPendingDecrypted ==
    [][\A u \in Client : Len(inbox'[u]) < Len(inbox[u]) => inbox'[u] = << >>]_vars
=============================================================================
