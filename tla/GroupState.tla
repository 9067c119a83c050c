---------------------------- MODULE GroupState ----------------------------
(***************************************************************************)
(* group/group_state.py: the tree of secrets and the state of a group, as  *)
(* pure operators.  Secrets are symbolic: a derived secret is the tuple of *)
(* what it is derived from, so that equal secrets have equal derivations.  *)
(***************************************************************************)
EXTENDS Integers, Sequences, FiniteSets

CONSTANTS
    None,
    Client      \* identity public keys

CAPACITY == 4               \* for_member_count: leaves of every tree
INITIAL_EPOCH == 1
leaf_offset == CAPACITY - 1
Node == 0..(2 * CAPACITY - 2)

-----------------------------------------------------------------------------
(* GroupTree and key_schedule.py *)

derive_leaf_node_secret(secret, i) == <<"leaf", secret, i>>
derive_internal_node_secret(left, right, i) == <<"node", left, right, i>>
derive_epoch_secret(root, epoch) == <<"epoch", root, epoch>>
derive_application_key(epoch_secret) == <<"application", epoch_secret>>
derive_group_hash(epoch, member_ids, root) == <<"hash", epoch, member_ids, root>>

\* The secrets of the trees of up to CAPACITY members, level by level.
Seed == ({"random"} \X Nat \X Nat) \cup ({"padding"} \X Nat)
LeafSecret == {"leaf"} \X Seed \X Nat
InnerSecret == {"node"} \X LeafSecret \X LeafSecret \X Nat
RootSecret == {"node"} \X InnerSecret \X InnerSecret \X Nat

parent_index(i) == (i - 1) \div 2

\* A parent is recomputed from its children once both are there.
Recomputed(nodes, i) ==
    IF nodes[2 * i + 1] = None \/ nodes[2 * i + 2] = None
    THEN nodes
    ELSE [nodes EXCEPT ![i] =
            derive_internal_node_secret(nodes[2 * i + 1], nodes[2 * i + 2], i)]

\* A slip: the walk to the root stops after the first parent.
RecomputeParentOnly(nodes, i) == Recomputed(nodes, parent_index(i))

\* The walk from a leaf to the root, which is two steps in a tree of four
\* leaves; where the code breaks off, the further steps change nothing.
_recompute_path(nodes, i) ==
    LET p == parent_index(i)
    IN  Recomputed(Recomputed(nodes, p), parent_index(p))

set_leaf(nodes, leaf, secret) ==
    LET i == leaf_offset + leaf
    IN  _recompute_path([nodes EXCEPT ![i] = derive_leaf_node_secret(secret, leaf)], i)

root_secret(nodes) == nodes[0]

-----------------------------------------------------------------------------
(* GroupState *)

MemberIds(s) == {u \in Client : s.members[u] # None}

\* The fields of a GroupState of up to CAPACITY members.
EpochSecret == {"epoch"} \X RootSecret \X Nat
ApplicationKey == {"application"} \X EpochSecret
GroupHash == {"hash"} \X Nat \X (SUBSET Client) \X RootSecret
GroupStates ==
    [epoch : Nat, nodes : [Node -> LeafSecret \cup InnerSecret \cup RootSecret],
     members : [Client -> (0..(CAPACITY - 1)) \cup {None}],
     group_secret : EpochSecret, application_key : ApplicationKey, group_hash : GroupHash]

\* compute_group_hash.
compute_group_hash(s) == derive_group_hash(s.epoch, MemberIds(s), root_secret(s.nodes))

\* Raises, with nothing derived, when the tree has no root secret.
_rederive_group_secret(s) ==
    IF root_secret(s.nodes) = None
    THEN s
    ELSE LET secret == derive_epoch_secret(root_secret(s.nodes), s.epoch)
         IN  [s EXCEPT !.group_secret = secret,
                       !.application_key = derive_application_key(secret),
                       !.group_hash = compute_group_hash(s)]

\* A new tree with the given secrets on its four leaves, None for a leaf that is
\* not set.
Filled(leaf) ==
    LET Put(nodes, i) == IF leaf[i] = None THEN nodes ELSE set_leaf(nodes, i, leaf[i])
    IN  Put(Put(Put(Put([n \in Node |-> None], 0), 1), 2), 3)

\* GroupState.create: the members' leaves and the padding leaves.
create(members, secrets) ==
    _rederive_group_secret(
        [epoch |-> INITIAL_EPOCH,
         nodes |-> Filled([i \in 0..(CAPACITY - 1) |->
                             IF i < Len(members) THEN secrets[i + 1] ELSE <<"padding", i>>]),
         members |-> [u \in Client |->
                        IF \E i \in 1..Len(members) : members[i] = u
                        THEN (CHOOSE i \in 1..Len(members) : members[i] = u) - 1
                        ELSE None],
         group_secret |-> None,
         application_key |-> None,
         group_hash |-> None])

\* A slip: the new member's leaf is set and the epoch stays.
AddKeepingEpoch(s, u, secret) ==
    LET i == Cardinality(MemberIds(s))
    IN  _rederive_group_secret([s EXCEPT !.members[u] = i,
                                         !.nodes = set_leaf(@, i, secret)])

\* The tree of add_member when the index is beyond the leaves: for_member_count
\* raises for more than CAPACITY members; else the leaves in use are set anew.
RebuiltNodes(s, i) ==
    LET old == {u \in MemberIds(s) : s.members[u] < i}
    IN  IF Cardinality(old) + 1 > CAPACITY
        THEN s.nodes
        ELSE Filled([k \in 0..(CAPACITY - 1) |->
                       IF \E u \in old : s.members[u] = k
                       THEN <<"rekey", s.group_secret, k>> ELSE None])

\* add_member(u) of a client that is not a member, which is entered under the
\* index len(members).  Beyond the last leaf the call then raises, in
\* for_member_count or in set_leaf: no epoch and no keys.
add_member(s, u, secret) ==
    LET i     == Cardinality(MemberIds(s))
        added == [s EXCEPT !.members[u] = i]
    IN  IF i >= CAPACITY
        THEN [added EXCEPT !.nodes = RebuiltNodes(s, i)]
        ELSE _rederive_group_secret([added EXCEPT !.nodes = set_leaf(@, i, secret),
                                                  !.epoch = @ + 1])

\* A slip: the leaf of the removed member keeps its secret.
RemoveKeepingLeaf(s, u, secret) ==
    _rederive_group_secret([s EXCEPT !.members[u] = None, !.epoch = @ + 1])

\* remove_member(u) of a member.  For one that was entered beyond the last leaf
\* set_leaf raises when the member is already gone.
remove_member(s, u, secret) ==
    LET removed == [s EXCEPT !.members[u] = None]
    IN  IF s.members[u] >= CAPACITY
        THEN removed
        ELSE _rederive_group_secret([removed EXCEPT !.nodes = set_leaf(@, s.members[u], secret),
                                                    !.epoch = @ + 1])

-----------------------------------------------------------------------------
(* validate() and state_verification.py *)

HashMatches(s) == s.group_hash = compute_group_hash(s)

summarize_state(s) ==
    [epoch |-> s.epoch, group_hash |-> s.group_hash, member_ids |-> MemberIds(s)]

\* The state agrees with the summaries that other members report.
verify_consistency(s, remote_summaries, previous_epoch) ==
    /\ previous_epoch # None => s.epoch >= previous_epoch
    /\ \A remote \in remote_summaries : remote = summarize_state(s)

\* The root is what the leaves give, level by level.
RootFollowsLeaves(s) ==
    \A i \in 0..(leaf_offset - 1) :
        s.nodes[i] = derive_internal_node_secret(s.nodes[2 * i + 1], s.nodes[2 * i + 2], i)
=============================================================================
