--------------------------- MODULE GroupChatProofs ---------------------------
(***************************************************************************)
(* Safety of groups, for any number of messages, membership changes and    *)
(* faults, in groups of the size the code supports: as many clients as the *)
(* tree has leaves.                                                        *)
(*                                                                         *)
(* Every change of the membership puts a new secret on a leaf and raises   *)
(* the epoch, so a state is known by its epoch.  A member installs states  *)
(* of growing epochs; what it has displayed is of an earlier epoch or in   *)
(* its replay cache.                                                       *)
(***************************************************************************)
EXTENDS GroupChat, FiniteSetTheorems, SequenceTheorems, WellFoundedInduction,
        TLAPS

\* "Prototype group size limit is 4 members".
SmallGroup == IsFiniteSet(Client) /\ Cardinality(Client) <= CAPACITY

Leaf == 0..(CAPACITY - 1)
LeafNode == leaf_offset..(2 * CAPACITY - 2)
Secret == LeafSecret \cup InnerSecret \cup RootSecret
GroupMessage == [epoch : Nat, leaf : Leaf, counter : {0}, key : ApplicationKey \cup {None}, id : Nat]

\* All leaves are set and all inner nodes follow from them.
FullTree(nodes) ==
    /\ nodes \in [Node -> Secret]
    /\ \A i \in LeafNode : nodes[i] \in LeafSecret
    /\ nodes[1] = derive_internal_node_secret(nodes[3], nodes[4], 1)
    /\ nodes[2] = derive_internal_node_secret(nodes[5], nodes[6], 2)
    /\ nodes[0] = derive_internal_node_secret(nodes[1], nodes[2], 0)

\* The random number of a leaf secret is older than n.
OlderLeaf(secret, n) == secret[2][1] = "random" => secret[2][2] < n

\* The leaf i has the secret of the n-th change of the membership.
NewLeaf(nodes, i, n) == nodes[i] = derive_leaf_node_secret(<<"random", n, 0>>, i - leaf_offset)

\* The state of an epoch: what it is derived from, and the new leaf it brought.
GoodState(s) ==
    /\ s \in GroupStates /\ FullTree(s.nodes)
    /\ s.application_key = derive_application_key(derive_epoch_secret(s.nodes[0], s.epoch))
    /\ s.group_hash = compute_group_hash(s)
    /\ s.epoch >= 1
    /\ \A i \in LeafNode : OlderLeaf(s.nodes[i], s.epoch)
    /\ s.epoch > 1 => \E i \in LeafNode : NewLeaf(s.nodes, i, s.epoch - 1)

TypeInv ==
    /\ state \in [Client -> GroupStates \cup {None}]
    /\ my_leaf \in [Client -> Leaf \cup {None}]
    /\ seen \in [Client -> {None} \cup SUBSET (Leaf \X {0})]
    /\ updates \in [Client -> Seq(GroupStates)]
    /\ inbox \in [Client -> Seq(GroupMessage)]
    /\ wire \in Seq(GroupMessage) /\ Len(wire) <= MaxSent
    /\ displayed \in [Client -> Seq(1..MaxSent)]
    /\ changes \in 0..MaxChanges /\ faults \in 0..MaxFaults

\* The states the clients hold and are sent.
StatesInv ==
    /\ state[Creator] # None /\ state[Creator].epoch = changes + 1
    /\ \A u \in Client : state[u] # None => GoodState(state[u]) /\ my_leaf[u] # None
    /\ \A v \in Client : \A k \in 1..Len(updates[v]) :
          GoodState(updates[v][k]) /\ updates[v][k].members[v] # None

Pool == {s \in GroupStates :
            \/ \E u \in Client : state[u] = s
            \/ \E v \in Client : \E k \in 1..Len(updates[v]) : updates[v][k] = s}

\* One state for every epoch, and the creator's is the last.
PoolInv ==
    /\ \A s \in Pool : s.epoch <= state[Creator].epoch
    /\ \A s, t \in Pool : s.epoch = t.epoch => s = t

\* A client gets states of growing epochs.
OrderInv ==
    /\ updates[Creator] = << >>
    /\ \A v \in Client : \A k \in 1..Len(updates[v]) :
          state[v] # None => state[v].epoch < updates[v][k].epoch
    /\ \A v \in Client : \A j, k \in 1..Len(updates[v]) :
          j < k => updates[v][j].epoch < updates[v][k].epoch

\* The messages on their way are the ones sent, their ciphertext aside.
WireInv ==
    /\ \A k \in 1..Len(wire) : wire[k].id = k
    /\ \A v \in Client : \A k \in 1..Len(inbox[v]) :
          /\ inbox[v][k].id \in 1..Len(wire)
          /\ Header(inbox[v][k]) = Header(wire[inbox[v][k].id])

\* What v has displayed is of an earlier epoch or in its replay cache.
Remembered(m, s, cache) ==
    \/ m.epoch < s.epoch
    \/ m.epoch = s.epoch /\ cache # None /\ <<m.leaf, m.counter>> \in cache

ShownInv ==
    \A v \in Client : \A j \in 1..Len(displayed[v]) :
        /\ displayed[v][j] \in 1..Len(wire) /\ state[v] # None
        /\ Remembered(wire[displayed[v][j]], state[v], seen[v])

CacheInv == \A v \in Client : seen[v] # None => Cardinality(seen[v]) <= max_entries

GroupInv ==
    /\ TypeInv /\ StatesInv /\ PoolInv /\ OrderInv /\ WireInv
    /\ ShownInv /\ CacheInv /\ DisplayedOnce

-----------------------------------------------------------------------------
(* Induction in first-order form. *)

\* A non-empty set of natural numbers has a least element.
LEMMA LeastNatural ==
    ASSUME NEW T \in SUBSET Nat, T # {}
    PROVE  \E x \in T : \A y \in T : x <= y
<1> DEFINE R == OpToRel(<, Nat)
<1>1. IsWellFoundedOn(R, Nat)
  BY NatLessThanWellFounded, Zenon
<1>2. PICK x \in T : \A y \in T : ~(<<y, x>> \in R)
  <2> HIDE DEF R
  <2> QED BY <1>1, WFMin
<1>3. \A a, b \in Nat : <<a, b>> \in R <=> a < b
  BY DEF OpToRel
<1>4. \A y \in T : x \in Nat /\ y \in Nat /\ ~(y < x)
  BY <1>2, <1>3
<1> QED BY <1>4

\* A set with 0 and with every successor holds all of Nat.
LEMMA InductiveSet ==
    ASSUME NEW S \in SUBSET Nat, 0 \in S, \A n \in S : n + 1 \in S
    PROVE  S = Nat
<1>1. SUFFICES ASSUME Nat \ S # {} PROVE FALSE
  OBVIOUS
<1>2. PICK x \in Nat \ S : \A y \in Nat \ S : x <= y
  BY <1>1, LeastNatural
<1>3. x - 1 \in S /\ x # 0
  BY <1>2
<1> QED BY <1>2, <1>3

-----------------------------------------------------------------------------
(* The tree of secrets. *)

\* The nodes and the leaves by number.
LEMMA NodeNumbers ==
    /\ Node = 0..6 /\ LeafNode = 3..6 /\ Leaf = 0..3 /\ leaf_offset = 3 /\ CAPACITY = 4
    /\ parent_index(3) = 1 /\ parent_index(4) = 1 /\ parent_index(5) = 2 /\ parent_index(6) = 2
    /\ parent_index(1) = 0 /\ parent_index(2) = 0
BY DEF Node, LeafNode, Leaf, leaf_offset, CAPACITY, parent_index

\* The levels of the secrets.
LEMMA SecretLevels ==
    /\ \A x \in Seed, i \in Nat : derive_leaf_node_secret(x, i) \in LeafSecret
    /\ \A x, y \in LeafSecret, i \in Nat : derive_internal_node_secret(x, y, i) \in InnerSecret
    /\ \A x, y \in InnerSecret, i \in Nat : derive_internal_node_secret(x, y, i) \in RootSecret
    /\ None \notin LeafSecret /\ None \notin InnerSecret /\ None \notin RootSecret
    /\ LeafSecret \subseteq Secret /\ InnerSecret \subseteq Secret /\ RootSecret \subseteq Secret
<1>1. /\ \A x \in Seed, i \in Nat : derive_leaf_node_secret(x, i) \in LeafSecret
      /\ \A x, y \in LeafSecret, i \in Nat : derive_internal_node_secret(x, y, i) \in InnerSecret
      /\ \A x, y \in InnerSecret, i \in Nat : derive_internal_node_secret(x, y, i) \in RootSecret
  BY DEF derive_leaf_node_secret, derive_internal_node_secret, LeafSecret, InnerSecret, RootSecret
<1> QED BY <1>1, GroupAssumption DEF Secret

\* The secrets of a full tree.
LEMMA FullTreeLevels ==
    ASSUME NEW nodes, FullTree(nodes)
    PROVE  /\ nodes \in [0..6 -> Secret]
           /\ nodes[3] \in LeafSecret /\ nodes[4] \in LeafSecret
           /\ nodes[5] \in LeafSecret /\ nodes[6] \in LeafSecret
           /\ nodes[1] \in InnerSecret /\ nodes[2] \in InnerSecret /\ nodes[0] \in RootSecret
<1>1. /\ nodes \in [0..6 -> Secret]
      /\ nodes[3] \in LeafSecret /\ nodes[4] \in LeafSecret
      /\ nodes[5] \in LeafSecret /\ nodes[6] \in LeafSecret
  BY NodeNumbers DEF FullTree
<1>2. nodes[1] \in InnerSecret /\ nodes[2] \in InnerSecret
  BY <1>1, SecretLevels DEF FullTree
<1> QED BY <1>1, <1>2, SecretLevels DEF FullTree

\* A node of a tree is replaced.
LEMMA NodeReplaced ==
    ASSUME NEW S, NEW f \in [0..6 -> S], NEW d \in 0..6, NEW v \in S
    PROVE  LET g == [f EXCEPT ![d] = v]
           IN  g \in [0..6 -> S] /\ g[d] = v /\ \A j \in 0..6 : j # d => g[j] = f[j]
OBVIOUS

\* set_leaf on a full tree replaces the leaf and what depends on it.
LEMMA SetLeafFull ==
    ASSUME NEW nodes, FullTree(nodes), NEW leaf \in Leaf, NEW x \in Seed
    PROVE  LET t == set_leaf(nodes, leaf, x)
           IN  /\ FullTree(t)
               /\ t[leaf_offset + leaf] = derive_leaf_node_secret(x, leaf)
               /\ \A i \in LeafNode \ {leaf_offset + leaf} : t[i] = nodes[i]
<1>0. leaf \in {0, 1, 2, 3} /\ leaf \in Nat
  BY NodeNumbers
<1> PICK i : i = 3 + leaf
  OBVIOUS
<1> PICK p : p = parent_index(i)
  OBVIOUS
<1> PICK L : L = derive_leaf_node_secret(x, leaf)
  OBVIOUS
<1> PICK a : a = [nodes EXCEPT ![i] = L]
  OBVIOUS
<1>1. \/ p = 1 /\ i = 3 /\ leaf = 0
      \/ p = 1 /\ i = 4 /\ leaf = 1
      \/ p = 2 /\ i = 5 /\ leaf = 2
      \/ p = 2 /\ i = 6 /\ leaf = 3
  BY <1>0, NodeNumbers
<1>2. L \in LeafSecret /\ L \in Secret
  BY <1>0, SecretLevels
<1>3. /\ nodes \in [0..6 -> Secret]
      /\ nodes[3] \in LeafSecret /\ nodes[4] \in LeafSecret
      /\ nodes[5] \in LeafSecret /\ nodes[6] \in LeafSecret
      /\ nodes[1] \in InnerSecret /\ nodes[2] \in InnerSecret
  BY FullTreeLevels
<1>4. /\ a \in [0..6 -> Secret] /\ a[i] = L /\ \A j \in 0..6 : j # i => a[j] = nodes[j]
  <2>1. i \in 0..6
    BY <1>1
  <2> QED BY <1>2, <1>3, <2>1, NodeReplaced
<1>5. a[3] \in LeafSecret /\ a[4] \in LeafSecret /\ a[5] \in LeafSecret /\ a[6] \in LeafSecret
  BY <1>2, <1>3, <1>4
<1> PICK N : N = derive_internal_node_secret(a[2 * p + 1], a[2 * p + 2], p)
  OBVIOUS
<1> PICK b : b = [a EXCEPT ![p] = N]
  OBVIOUS
<1>6. a[2 * p + 1] \in LeafSecret /\ a[2 * p + 2] \in LeafSecret
  <2>1. CASE p = 1
    BY <1>5, <2>1
  <2>2. CASE p = 2
    BY <1>5, <2>2
  <2> QED BY <1>1, <2>1, <2>2
<1>7. N \in InnerSecret /\ N \in Secret
  <2>1. p \in Nat
    BY <1>1
  <2> QED BY <1>6, <2>1, SecretLevels
<1>8. Recomputed(a, p) = b
  <2>1. a[2 * p + 1] # None /\ a[2 * p + 2] # None
    BY <1>6, SecretLevels
  <2> QED BY <2>1 DEF Recomputed
<1>9. /\ b \in [0..6 -> Secret] /\ b[p] = N /\ \A j \in 0..6 : j # p => b[j] = a[j]
  <2>1. p \in 0..6
    BY <1>1
  <2> QED BY <1>4, <1>7, <2>1, NodeReplaced
<1>10. b[1] \in InnerSecret /\ b[2] \in InnerSecret
  BY <1>1, <1>3, <1>4, <1>7, <1>9
<1> PICK M : M = derive_internal_node_secret(b[1], b[2], 0)
  OBVIOUS
<1> PICK c : c = [b EXCEPT ![0] = M]
  OBVIOUS
<1>11. M \in Secret
  BY <1>10, SecretLevels
<1>12. Recomputed(b, 0) = c
  <2>1. 2 * 0 + 1 = 1 /\ 2 * 0 + 2 = 2 /\ b[1] # None /\ b[2] # None
    BY <1>10, SecretLevels
  <2> QED BY <2>1 DEF Recomputed
<1>13. set_leaf(nodes, leaf, x) = c
  <2>1. parent_index(p) = 0 /\ leaf_offset + leaf = i
    BY <1>1, NodeNumbers
  <2> QED BY <1>8, <1>12, <2>1 DEF set_leaf, _recompute_path
<1>14. /\ c \in [0..6 -> Secret] /\ c[0] = M /\ \A j \in 0..6 : j # 0 => c[j] = b[j]
  BY <1>9, <1>11, NodeReplaced
<1>15. c[3] = a[3] /\ c[4] = a[4] /\ c[5] = a[5] /\ c[6] = a[6] /\ c[1] = b[1] /\ c[2] = b[2]
  BY <1>1, <1>9, <1>14
<1>16. c[1] = derive_internal_node_secret(c[3], c[4], 1)
  <2>1. CASE p = 1
    BY <1>9, <1>15, <2>1
  <2>2. CASE p = 2
    <3>1. c[1] = nodes[1] /\ c[3] = nodes[3] /\ c[4] = nodes[4]
      BY <1>1, <1>4, <1>9, <1>15, <2>2
    <3> QED BY <3>1 DEF FullTree
  <2> QED BY <1>1, <2>1, <2>2
<1>17. c[2] = derive_internal_node_secret(c[5], c[6], 2)
  <2>1. CASE p = 2
    BY <1>9, <1>15, <2>1
  <2>2. CASE p = 1
    <3>1. c[2] = nodes[2] /\ c[5] = nodes[5] /\ c[6] = nodes[6]
      BY <1>1, <1>4, <1>9, <1>15, <2>2
    <3> QED BY <3>1 DEF FullTree
  <2> QED BY <1>1, <2>1, <2>2
<1>18. c[0] = derive_internal_node_secret(c[1], c[2], 0)
  BY <1>14, <1>15
<1>19. FullTree(c)
  <2>1. \A j \in LeafNode : c[j] \in LeafSecret
    BY <1>5, <1>15, NodeNumbers
  <2>2. c \in [Node -> Secret]
    BY <1>14, NodeNumbers
  <2> QED BY <1>16, <1>17, <1>18, <2>1, <2>2 DEF FullTree
<1>20. c[i] = L /\ \A j \in 3..6 : j # i => c[j] = nodes[j]
  BY <1>1, <1>4, <1>15
<1> QED BY <1>13, <1>19, <1>20, NodeNumbers

\* GroupState.create sets all four leaves of a new tree.
LEMMA FilledFull ==
    ASSUME NEW leaf \in [Leaf -> Seed]
    PROVE  /\ FullTree(Filled(leaf))
           /\ \A i \in Leaf : Filled(leaf)[leaf_offset + i] = derive_leaf_node_secret(leaf[i], i)
<1> DEFINE Some == Secret \cup {None}
<1>0. /\ leaf[0] \in Seed /\ leaf[1] \in Seed /\ leaf[2] \in Seed /\ leaf[3] \in Seed
      /\ leaf[0] # None /\ leaf[1] # None /\ leaf[2] # None /\ leaf[3] # None
  BY NodeNumbers, GroupAssumption
<1> PICK L0 : L0 = derive_leaf_node_secret(leaf[0], 0)
  OBVIOUS
<1> PICK L1 : L1 = derive_leaf_node_secret(leaf[1], 1)
  OBVIOUS
<1> PICK L2 : L2 = derive_leaf_node_secret(leaf[2], 2)
  OBVIOUS
<1> PICK L3 : L3 = derive_leaf_node_secret(leaf[3], 3)
  OBVIOUS
<1> PICK P : P = derive_internal_node_secret(L0, L1, 1)
  OBVIOUS
<1> PICK Q : Q = derive_internal_node_secret(L2, L3, 2)
  OBVIOUS
<1> PICK M : M = derive_internal_node_secret(P, Q, 0)
  OBVIOUS
<1>1. L0 \in LeafSecret /\ L1 \in LeafSecret /\ L2 \in LeafSecret /\ L3 \in LeafSecret
  BY <1>0, SecretLevels
<1>2. P \in InnerSecret /\ Q \in InnerSecret
  BY <1>1, SecretLevels
<1>3. M \in RootSecret
  BY <1>2, SecretLevels
<1>4. /\ L0 # None /\ L1 # None /\ L2 # None /\ L3 # None /\ P # None /\ Q # None
      /\ {L0, L1, L2, L3, P, Q, M} \subseteq Some
  BY <1>1, <1>2, <1>3, SecretLevels, ZenonT(40)
<1> HIDE DEF Some
<1> PICK n0 : n0 = [n \in Node |-> None]
  OBVIOUS
<1>5. n0 \in [0..6 -> Some] /\ \A j \in 0..6 : n0[j] = None
  BY NodeNumbers DEF Some
<1>6. Filled(leaf) = set_leaf(set_leaf(set_leaf(set_leaf(n0, 0, leaf[0]), 1, leaf[1]), 2, leaf[2]),
                              3, leaf[3])
  BY <1>0 DEF Filled
<1> PICK n1 : n1 = [n0 EXCEPT ![3] = L0]
  OBVIOUS
<1>7. /\ n1 \in [0..6 -> Some] /\ n1[3] = L0 /\ n1[0] = None /\ n1[1] = None /\ n1[2] = None
      /\ n1[4] = None /\ n1[5] = None /\ n1[6] = None
  BY <1>4, <1>5, NodeReplaced
<1>8. set_leaf(n0, 0, leaf[0]) = n1
  <2>1. 2 * 1 + 2 = 4 /\ 2 * 0 + 1 = 1 /\ leaf_offset + 0 = 3
    BY NodeNumbers
  <2>2. Recomputed(n1, 1) = n1 /\ Recomputed(n1, 0) = n1
    BY <1>7, <2>1 DEF Recomputed
  <2> QED BY <2>1, <2>2, NodeNumbers DEF set_leaf, _recompute_path
<1> PICK a : a = [n1 EXCEPT ![4] = L1]
  OBVIOUS
<1>9. /\ a \in [0..6 -> Some] /\ a[3] = L0 /\ a[4] = L1 /\ a[0] = None /\ a[1] = None
      /\ a[2] = None /\ a[5] = None /\ a[6] = None
  BY <1>4, <1>7, NodeReplaced
<1> PICK n2 : n2 = [a EXCEPT ![1] = P]
  OBVIOUS
<1>10. /\ n2 \in [0..6 -> Some] /\ n2[3] = L0 /\ n2[4] = L1 /\ n2[1] = P /\ n2[0] = None
       /\ n2[2] = None /\ n2[5] = None /\ n2[6] = None
  BY <1>4, <1>9, NodeReplaced
<1>11. set_leaf(n1, 1, leaf[1]) = n2
  <2>1. 2 * 1 + 1 = 3 /\ 2 * 1 + 2 = 4 /\ 2 * 0 + 2 = 2 /\ leaf_offset + 1 = 4
    BY NodeNumbers
  <2>2. Recomputed(a, 1) = n2
    BY <1>4, <1>9, <2>1 DEF Recomputed
  <2>3. Recomputed(n2, 0) = n2
    BY <1>10, <2>1 DEF Recomputed
  <2> QED BY <2>1, <2>2, <2>3, NodeNumbers DEF set_leaf, _recompute_path
<1> PICK n3 : n3 = [n2 EXCEPT ![5] = L2]
  OBVIOUS
<1>12. /\ n3 \in [0..6 -> Some] /\ n3[3] = L0 /\ n3[4] = L1 /\ n3[1] = P /\ n3[5] = L2
       /\ n3[0] = None /\ n3[2] = None /\ n3[6] = None
  BY <1>4, <1>10, NodeReplaced
<1>13. set_leaf(n2, 2, leaf[2]) = n3
  <2>1. 2 * 2 + 2 = 6 /\ 2 * 0 + 2 = 2 /\ leaf_offset + 2 = 5
    BY NodeNumbers
  <2>2. Recomputed(n3, 2) = n3 /\ Recomputed(n3, 0) = n3
    BY <1>12, <2>1 DEF Recomputed
  <2> QED BY <2>1, <2>2, NodeNumbers DEF set_leaf, _recompute_path
<1> PICK b : b = [n3 EXCEPT ![6] = L3]
  OBVIOUS
<1>14. /\ b \in [0..6 -> Some] /\ b[3] = L0 /\ b[4] = L1 /\ b[1] = P /\ b[5] = L2 /\ b[6] = L3
       /\ b[0] = None /\ b[2] = None
  BY <1>4, <1>12, NodeReplaced
<1> PICK c : c = [b EXCEPT ![2] = Q]
  OBVIOUS
<1>15. /\ c \in [0..6 -> Some] /\ c[3] = L0 /\ c[4] = L1 /\ c[1] = P /\ c[5] = L2 /\ c[6] = L3
       /\ c[2] = Q /\ c[0] = None
  BY <1>4, <1>14, NodeReplaced
<1> PICK n4 : n4 = [c EXCEPT ![0] = M]
  OBVIOUS
<1>16. /\ n4 \in [0..6 -> Some] /\ n4[3] = L0 /\ n4[4] = L1 /\ n4[1] = P /\ n4[5] = L2 /\ n4[6] = L3
       /\ n4[2] = Q /\ n4[0] = M
  BY <1>4, <1>15, NodeReplaced
<1>17. set_leaf(n3, 3, leaf[3]) = n4
  <2>1. /\ 2 * 2 + 1 = 5 /\ 2 * 2 + 2 = 6 /\ 2 * 0 + 1 = 1 /\ 2 * 0 + 2 = 2
        /\ leaf_offset + 3 = 6
    BY NodeNumbers
  <2>2. Recomputed(b, 2) = c
    BY <1>4, <1>14, <2>1 DEF Recomputed
  <2>3. Recomputed(c, 0) = n4
    BY <1>4, <1>15, <2>1 DEF Recomputed
  <2> QED BY <2>1, <2>2, <2>3, NodeNumbers DEF set_leaf, _recompute_path
<1>18. Filled(leaf) = n4
  BY <1>6, <1>8, <1>11, <1>13, <1>17
<1>19. n4 \in [0..6 -> Secret]
  <2>1. \A j \in 0..6 : n4[j] \in Secret
    BY <1>1, <1>2, <1>3, <1>16, SecretLevels
  <2> QED BY <1>16, <2>1
<1>20. FullTree(n4)
  BY <1>1, <1>16, <1>19, NodeNumbers DEF FullTree
<1>21. \A i \in 0..3 : n4[3 + i] = derive_leaf_node_secret(leaf[i], i)
  <2> TAKE i \in 0..3
  <2>1. \/ i = 0 /\ 3 + i = 3
        \/ i = 1 /\ 3 + i = 4
        \/ i = 2 /\ 3 + i = 5
        \/ i = 3 /\ 3 + i = 6
    OBVIOUS
  <2> QED BY <1>16, <2>1
<1> QED BY <1>18, <1>20, <1>21, NodeNumbers

-----------------------------------------------------------------------------
(* The state of a group. *)

\* s has the fields of a GroupState.
HasFields(s) ==
    s = [epoch |-> s.epoch, nodes |-> s.nodes, members |-> s.members,
         group_secret |-> s.group_secret, application_key |-> s.application_key,
         group_hash |-> s.group_hash]

\* The three derived fields of a state are replaced.
WithDerived(s, x, y, h) ==
    [s EXCEPT !.group_secret = x, !.application_key = y, !.group_hash = h]

\* The other fields stay.
LEMMA DerivedFields ==
    ASSUME NEW s, HasFields(s), NEW x, NEW y, NEW h
    PROVE  WithDerived(s, x, y, h)
           = [epoch |-> s.epoch, nodes |-> s.nodes, members |-> s.members,
              group_secret |-> x, application_key |-> y, group_hash |-> h]
<1> PICK s1 : s1 = [epoch |-> s.epoch, nodes |-> s.nodes, members |-> s.members,
                    group_secret |-> x, application_key |-> s.application_key,
                    group_hash |-> s.group_hash]
  OBVIOUS
<1> PICK s2 : s2 = [epoch |-> s.epoch, nodes |-> s.nodes, members |-> s.members,
                    group_secret |-> x, application_key |-> y, group_hash |-> s.group_hash]
  OBVIOUS
<1>1. [s EXCEPT !.group_secret = x] = s1
  BY DEF HasFields
<1>2. [s1 EXCEPT !.application_key = y] = s2
  OBVIOUS
<1>3. [s2 EXCEPT !.group_hash = h]
      = [epoch |-> s.epoch, nodes |-> s.nodes, members |-> s.members,
         group_secret |-> x, application_key |-> y, group_hash |-> h]
  OBVIOUS
<1>4. WithDerived(s, x, y, h)
      = [[[s EXCEPT !.group_secret = x] EXCEPT !.application_key = y] EXCEPT !.group_hash = h]
  BY DEF WithDerived
<1> QED BY <1>1, <1>2, <1>3, <1>4

\* The members have leaves and the leaves their age.
Derivable(s) ==
    /\ s.epoch \in Nat /\ s.epoch >= 1
    /\ FullTree(s.nodes) /\ s.members \in [Client -> Leaf \cup {None}]
    /\ \A i \in LeafNode : OlderLeaf(s.nodes[i], s.epoch)
    /\ s.epoch > 1 => \E i \in LeafNode : NewLeaf(s.nodes, i, s.epoch - 1)

\* _rederive_group_secret makes the state of an epoch from the fields before it.
LEMMA Rederived ==
    ASSUME NEW s, HasFields(s), Derivable(s)
    PROVE  LET t == _rederive_group_secret(s)
           IN  GoodState(t) /\ t.epoch = s.epoch /\ t.nodes = s.nodes /\ t.members = s.members
<1> PICK e : e = s.epoch
  OBVIOUS
<1> PICK nodes : nodes = s.nodes
  OBVIOUS
<1> PICK members : members = s.members
  OBVIOUS
<1>0. /\ e \in Nat /\ e >= 1 /\ FullTree(nodes) /\ members \in [Client -> Leaf \cup {None}]
      /\ \A i \in LeafNode : OlderLeaf(nodes[i], e)
      /\ e > 1 => \E i \in LeafNode : NewLeaf(nodes, i, e - 1)
  BY DEF Derivable
<1>1. nodes[0] \in RootSecret /\ nodes[0] # None /\ nodes \in [Node -> Secret]
  BY <1>0, FullTreeLevels, SecretLevels, NodeNumbers, SMTT(30)
<1> PICK x : x = derive_epoch_secret(nodes[0], e)
  OBVIOUS
<1> PICK y : y = derive_application_key(x)
  OBVIOUS
<1> PICK M : M = {u \in Client : members[u] # None}
  OBVIOUS
<1> PICK h : h = derive_group_hash(e, M, nodes[0])
  OBVIOUS
<1> PICK t : t = [epoch |-> e, nodes |-> nodes, members |-> members,
                  group_secret |-> x, application_key |-> y, group_hash |-> h]
  OBVIOUS
<1>2. x \in EpochSecret
  BY <1>0, <1>1 DEF derive_epoch_secret, EpochSecret
<1>3. y \in ApplicationKey
  BY <1>2 DEF derive_application_key, ApplicationKey
<1>4. h \in GroupHash
  BY <1>0, <1>1 DEF derive_group_hash, GroupHash
<1>5. t.epoch = e /\ t.nodes = nodes /\ t.members = members /\ t.group_hash = h
  OBVIOUS
<1>6. MemberIds(s) = M /\ MemberIds(t) = M
  BY <1>5 DEF MemberIds
<1>7. compute_group_hash(s) = h /\ compute_group_hash(t) = h
  BY <1>5, <1>6 DEF compute_group_hash, root_secret
<1>8. _rederive_group_secret(s) = t
  <2>1. t = [s EXCEPT !.group_secret = x, !.application_key = y, !.group_hash = h]
    <3>1. t = [epoch |-> s.epoch, nodes |-> s.nodes, members |-> s.members,
               group_secret |-> x, application_key |-> y, group_hash |-> h]
      OBVIOUS
    <3>2. t = WithDerived(s, x, y, h)
      BY <3>1, DerivedFields
    <3> QED BY <3>2 DEF WithDerived
  <2> QED BY <1>1, <1>7, <2>1 DEF _rederive_group_secret, root_secret
<1>9. t \in GroupStates
  BY <1>0, <1>1, <1>2, <1>3, <1>4 DEF GroupStates, Secret, Leaf
<1>10. t.application_key = derive_application_key(derive_epoch_secret(t.nodes[0], t.epoch))
  OBVIOUS
<1>11. GoodState(t)
  BY <1>0, <1>5, <1>7, <1>9, <1>10 DEF GoodState
<1> QED BY <1>5, <1>8, <1>11

\* Leaves get older.
LEMMA OlderLater ==
    ASSUME NEW x \in LeafSecret, NEW n \in Nat, OlderLeaf(x, n)
    PROVE  OlderLeaf(x, n + 1)
<1>1. x[2] \in Seed
  BY DEF LeafSecret
<1>2. CASE x[2] \in {"random"} \X Nat \X Nat
  BY <1>2 DEF OlderLeaf
<1>3. CASE x[2] \in {"padding"} \X Nat
  BY <1>3 DEF OlderLeaf
<1> QED BY <1>1, <1>2, <1>3 DEF Seed

\* s with a new secret on a leaf, in the next epoch.
Advanced(s, leaf, members) ==
    [s EXCEPT !.members = members,
              !.nodes = set_leaf(s.nodes, leaf, <<"random", s.epoch, 0>>),
              !.epoch = s.epoch + 1]

\* A new secret on a leaf and the next epoch make a good state again, whoever
\* its members are.
LEMMA NextEpoch ==
    ASSUME NEW s, GoodState(s), NEW leaf \in Leaf, NEW members \in [Client -> Leaf \cup {None}]
    PROVE  LET t == _rederive_group_secret(Advanced(s, leaf, members))
           IN  GoodState(t) /\ t.epoch = s.epoch + 1 /\ t.members = members
<1> PICK n : n = s.epoch
  OBVIOUS
<1> PICK x : x = <<"random", n, 0>>
  OBVIOUS
<1> PICK nodes : nodes = set_leaf(s.nodes, leaf, x)
  OBVIOUS
<1> PICK r : r = Advanced(s, leaf, members)
  OBVIOUS
<1>0. s \in GroupStates /\ FullTree(s.nodes) /\ n >= 1 /\ n \in Nat
  BY DEF GoodState, GroupStates
<1>1. x \in Seed
  BY <1>0 DEF Seed
<1>2. /\ FullTree(nodes) /\ nodes[leaf_offset + leaf] = derive_leaf_node_secret(x, leaf)
      /\ \A i \in LeafNode \ {leaf_offset + leaf} : nodes[i] = s.nodes[i]
  BY <1>0, <1>1, SetLeafFull
<1> PICK j : j = leaf_offset + leaf
  OBVIOUS
<1>3. j \in LeafNode /\ j - leaf_offset = leaf
  BY NodeNumbers
<1>4. \A i \in LeafNode : OlderLeaf(nodes[i], n + 1)
  <2> TAKE i \in LeafNode
  <2>1. CASE i = j
    BY <1>0, <1>2, <2>1 DEF OlderLeaf, derive_leaf_node_secret
  <2>2. CASE i # j
    <3>1. nodes[i] = s.nodes[i] /\ s.nodes[i] \in LeafSecret /\ OlderLeaf(s.nodes[i], n)
      BY <1>0, <1>2, <2>2 DEF GoodState, FullTree
    <3> QED BY <1>0, <3>1, OlderLater
  <2> QED BY <2>1, <2>2
<1>5. NewLeaf(nodes, j, n)
  BY <1>2, <1>3 DEF NewLeaf
<1>6. r = [epoch |-> n + 1, nodes |-> nodes, members |-> members,
           group_secret |-> s.group_secret, application_key |-> s.application_key,
           group_hash |-> s.group_hash]
  BY <1>0 DEF GroupStates, Advanced
<1>7. n + 1 \in Nat /\ n + 1 >= 1 /\ (n + 1) - 1 = n
  BY <1>0
<1>8. /\ r.epoch = n + 1 /\ r.nodes = nodes /\ r.members = members
      /\ r.group_secret = s.group_secret /\ r.application_key = s.application_key
      /\ r.group_hash = s.group_hash
  BY <1>6
<1>9. HasFields(r)
  BY <1>6, <1>8 DEF HasFields
<1>10. Derivable(r)
  <2>1. NewLeaf(r.nodes, j, r.epoch - 1)
    <3>1. r.epoch - 1 = n
      BY <1>0, <1>8
    <3> QED BY <1>5, <1>8, <3>1
  <2>2. \A i \in LeafNode : OlderLeaf(r.nodes[i], r.epoch)
    BY <1>4, <1>8
  <2> QED BY <1>2, <1>3, <1>7, <1>8, <2>1, <2>2 DEF Derivable
<1> PICK t : t = _rederive_group_secret(r)
  OBVIOUS
<1>11. GoodState(t) /\ t.epoch = n + 1 /\ t.members = members
  BY <1>8, <1>9, <1>10, Rederived
<1> QED BY <1>11

\* A client outside a small group finds a free index.
LEMMA RoomForMember ==
    ASSUME SmallGroup, NEW s, NEW u \in Client, u \notin MemberIds(s)
    PROVE  Cardinality(MemberIds(s)) \in Leaf
<1>1. MemberIds(s) \subseteq Client \ {u}
  BY DEF MemberIds
<1>2. IsFiniteSet(Client \ {u}) /\ Cardinality(Client \ {u}) = Cardinality(Client) - 1
  BY FS_RemoveElement DEF SmallGroup
<1>3. /\ IsFiniteSet(MemberIds(s))
      /\ Cardinality(MemberIds(s)) <= Cardinality(Client \ {u})
  BY <1>1, <1>2, FS_Subset
<1>4. Cardinality(MemberIds(s)) \in Nat /\ Cardinality(Client) \in Nat
  BY <1>3, FS_CardinalityType DEF SmallGroup
<1>5. Cardinality(MemberIds(s)) <= Cardinality(Client) - 1 /\ Cardinality(Client) <= 4
  BY <1>2, <1>3, NodeNumbers DEF SmallGroup
<1> HIDE DEF SmallGroup
<1> QED BY <1>4, <1>5, NodeNumbers

\* add_member makes the state of the next epoch.
LEMMA AddGood ==
    ASSUME SmallGroup, NEW s, GoodState(s), NEW u \in Client, u \notin MemberIds(s)
    PROVE  LET t == add_member(s, u, <<"random", s.epoch, 0>>)
           IN  GoodState(t) /\ t.epoch = s.epoch + 1
<1> PICK k : k = Cardinality(MemberIds(s))
  OBVIOUS
<1> PICK x : x = <<"random", s.epoch, 0>>
  OBVIOUS
<1>1. k \in Leaf /\ ~(k >= CAPACITY)
  BY RoomForMember, NodeNumbers
<1>2. s \in GroupStates /\ s.members \in [Client -> Leaf \cup {None}]
  BY DEF GoodState, GroupStates, Leaf
<1> PICK members : members = [s.members EXCEPT ![u] = k]
  OBVIOUS
<1>3. members \in [Client -> Leaf \cup {None}]
  BY <1>1, <1>2
<1> PICK r : r = Advanced(s, k, members)
  OBVIOUS
<1>4. r = [[s EXCEPT !.members[u] = k] EXCEPT !.nodes = set_leaf(@, k, x), !.epoch = @ + 1]
  BY <1>2 DEF GroupStates, Advanced
<1>5. add_member(s, u, x) = _rederive_group_secret(r)
  BY <1>1, <1>4 DEF add_member
<1> PICK t : t = _rederive_group_secret(r)
  OBVIOUS
<1>6. GoodState(t) /\ t.epoch = s.epoch + 1
  BY <1>1, <1>3, NextEpoch
<1> QED BY <1>5, <1>6

\* remove_member makes the state of the next epoch.
LEMMA RemoveGood ==
    ASSUME NEW s, GoodState(s), NEW u \in Client, u \in MemberIds(s)
    PROVE  LET t == remove_member(s, u, <<"random", s.epoch, 0>>)
           IN  GoodState(t) /\ t.epoch = s.epoch + 1
<1> PICK k : k = s.members[u]
  OBVIOUS
<1> PICK x : x = <<"random", s.epoch, 0>>
  OBVIOUS
<1>2. s \in GroupStates /\ s.members \in [Client -> Leaf \cup {None}]
  BY DEF GoodState, GroupStates, Leaf
<1>1. k \in Leaf /\ ~(k >= CAPACITY)
  BY <1>2, NodeNumbers DEF MemberIds
<1> PICK members : members = [s.members EXCEPT ![u] = None]
  OBVIOUS
<1>3. members \in [Client -> Leaf \cup {None}]
  BY <1>1, <1>2
<1> PICK r : r = Advanced(s, k, members)
  OBVIOUS
<1>4. r = [[s EXCEPT !.members[u] = None] EXCEPT !.nodes = set_leaf(@, k, x), !.epoch = @ + 1]
  BY <1>2 DEF GroupStates, Advanced
<1>5. remove_member(s, u, x) = _rederive_group_secret(r)
  BY <1>1, <1>4 DEF remove_member
<1> PICK t : t = _rederive_group_secret(r)
  OBVIOUS
<1>6. GoodState(t) /\ t.epoch = s.epoch + 1
  BY <1>1, <1>3, NextEpoch
<1> QED BY <1>5, <1>6

\* Positions from 1 are indices from 0.
LEMMA IndexBelow == \A n \in 1..4 : \A k \in 1..n : k - 1 \in 0..3 /\ k - 1 \in Nat
OBVIOUS

\* The state the group starts from.
LEMMA CreateGood ==
    LET secrets == [i \in 1..Len(InitialMembers) |-> <<"random", 0, i>>]
        s == create(InitialMembers, secrets)
    IN  /\ GoodState(s) /\ s.epoch = 1
        /\ \A u \in Client :
              s.members[u] # None <=> u \in {InitialMembers[i] : i \in 1..Len(InitialMembers)}
<1> PICK n : n = Len(InitialMembers)
  OBVIOUS
<1>0. n \in 1..4 /\ n \in Nat
  BY GroupAssumption, NodeNumbers
<1> PICK secrets : secrets = [i \in 1..Len(InitialMembers) |-> <<"random", 0, i>>]
  OBVIOUS
<1> PICK leaf : leaf = [i \in 0..(CAPACITY - 1) |->
                          IF i < Len(InitialMembers) THEN secrets[i + 1] ELSE <<"padding", i>>]
  OBVIOUS
<1> PICK nodes : nodes = Filled(leaf)
  OBVIOUS
<1> PICK members : members =
        [u \in Client |-> IF \E i \in 1..Len(InitialMembers) : InitialMembers[i] = u
                          THEN (CHOOSE i \in 1..Len(InitialMembers) : InitialMembers[i] = u) - 1
                          ELSE None]
  OBVIOUS
<1> PICK r : r = [epoch |-> 1, nodes |-> nodes, members |-> members,
                  group_secret |-> None, application_key |-> None, group_hash |-> None]
  OBVIOUS
<1>1. \A i \in Leaf : leaf[i] \in Seed /\ OlderLeaf(derive_leaf_node_secret(leaf[i], i), 1)
  <2> TAKE i \in Leaf
  <2>0. i \in Nat /\ i \in 0..(CAPACITY - 1)
    BY NodeNumbers DEF Leaf
  <2>1. CASE i < n
    <3>1. i + 1 \in 1..n /\ i + 1 \in Nat
      BY <1>0, <2>0, <2>1
    <3>2. leaf[i] = <<"random", 0, i + 1>>
      BY <2>0, <2>1, <3>1
    <3> QED BY <3>1, <3>2 DEF Seed, OlderLeaf, derive_leaf_node_secret
  <2>2. CASE ~(i < n)
    <3>1. leaf[i] = <<"padding", i>>
      BY <2>0, <2>2
    <3> QED BY <2>0, <3>1 DEF Seed, OlderLeaf, derive_leaf_node_secret
  <2> QED BY <2>1, <2>2
<1>2. leaf \in [Leaf -> Seed]
  BY <1>1 DEF Leaf
<1>3. /\ FullTree(nodes)
      /\ \A i \in Leaf : nodes[leaf_offset + i] = derive_leaf_node_secret(leaf[i], i)
  BY <1>2, FilledFull
<1>4. \A i \in LeafNode : OlderLeaf(nodes[i], 1)
  <2> TAKE i \in LeafNode
  <2>1. i - 3 \in Leaf /\ leaf_offset + (i - 3) = i
    BY NodeNumbers
  <2> QED BY <1>1, <1>3, <2>1
<1>5. \A u \in Client :
        /\ members[u] \in Leaf \cup {None}
        /\ members[u] # None <=> u \in {InitialMembers[i] : i \in 1..Len(InitialMembers)}
  <2> TAKE u \in Client
  <2>1. CASE \E i \in 1..Len(InitialMembers) : InitialMembers[i] = u
    <3>1. PICK k : k = CHOOSE i \in 1..Len(InitialMembers) : InitialMembers[i] = u
      OBVIOUS
    <3>2. k \in 1..n
      BY <2>1, <3>1
    <3>3. members[u] = k - 1
      BY <2>1, <3>1
    <3>4. k - 1 \in Leaf /\ k - 1 # None
      <4>1. k - 1 \in 0..3 /\ k - 1 \in Nat
        BY <1>0, <3>2, IndexBelow
      <4>2. None \notin Nat
        BY GroupAssumption
      <4>3. k - 1 # None
        BY <4>1, <4>2, Zenon
      <4>4. Leaf = 0..3
        BY NodeNumbers
      <4> QED BY <4>1, <4>3, <4>4
    <3> QED BY <2>1, <3>3, <3>4
  <2>2. CASE ~ \E i \in 1..Len(InitialMembers) : InitialMembers[i] = u
    BY <2>2
  <2> QED BY <2>1, <2>2
<1>6. members \in [Client -> Leaf \cup {None}]
  BY <1>5
<1> PICK s : s = create(InitialMembers, secrets)
  OBVIOUS
<1>7. s = _rederive_group_secret(r)
  BY DEF create, INITIAL_EPOCH
<1>8. GoodState(s) /\ s.epoch = 1 /\ s.members = members
  <2>1. /\ r.epoch = 1 /\ r.nodes = nodes /\ r.members = members
        /\ r.group_secret = None /\ r.application_key = None /\ r.group_hash = None
    OBVIOUS
  <2>2. HasFields(r)
    BY <2>1 DEF HasFields
  <2>3. 1 \in Nat /\ 1 >= 1 /\ ~(1 > 1)
    OBVIOUS
  <2>4. Derivable(r)
    BY <1>3, <1>4, <1>6, <2>1, <2>3 DEF Derivable
  <2> QED BY <1>7, <2>1, <2>2, <2>4, Rederived
<1>9. \A u \in Client :
        s.members[u] # None <=> u \in {InitialMembers[i] : i \in 1..Len(InitialMembers)}
  BY <1>5, <1>8
<1> QED BY <1>8, <1>9

-----------------------------------------------------------------------------
(* Membership steps. *)

\* The creator is a client.
LEMMA CreatorIsClient == Creator \in Client /\ None \notin GroupStates /\ None \notin Nat
<1>1. 1 \in 1..Len(InitialMembers)
  BY GroupAssumption, NodeNumbers
<1> QED BY <1>1, GroupAssumption

\* What a message was remembered by stays when the epoch grows.
LEMMA RememberedLater ==
    ASSUME NEW m \in GroupMessage, NEW s \in GroupStates, NEW t \in GroupStates,
           NEW cache, NEW other, s.epoch < t.epoch, Remembered(m, s, cache)
    PROVE  Remembered(m, t, other)
<1>1. m.epoch \in Nat /\ s.epoch \in Nat /\ t.epoch \in Nat
  BY DEF GroupMessage, GroupStates
<1>2. m.epoch <= s.epoch
  BY <1>1 DEF Remembered
<1>3. m.epoch < t.epoch
  BY <1>1, <1>2
<1> QED BY <1>3 DEF Remembered

\* Change to the state of the next epoch keeps the invariant.
LEMMA ChangeInv ==
    ASSUME GroupInv, NEW ns, GoodState(ns), ns.epoch = state[Creator].epoch + 1, Change(ns)
    PROVE  GroupInv'
<1>0. Creator \in Client /\ None \notin GroupStates /\ ns \in GroupStates /\ ns # None
  BY CreatorIsClient DEF GoodState
<1>1. TypeInv
  BY DEF GroupInv
<1>2. /\ state' = [state EXCEPT ![Creator] = ns] /\ changes' = changes + 1 /\ changes < MaxChanges
      /\ my_leaf' = my_leaf /\ seen' = seen /\ inbox' = inbox /\ wire' = wire
      /\ displayed' = displayed /\ faults' = faults
  BY DEF Change
<1>3. /\ state'[Creator] = ns /\ \A u \in Client : u # Creator => state'[u] = state[u]
      /\ state' \in [Client -> GroupStates \cup {None}]
  BY <1>0, <1>1, <1>2 DEF TypeInv
<1>4. \A v \in Client :
        \/ updates'[v] = updates[v]
        \/ updates'[v] = Append(updates[v], ns) /\ v # Creator /\ ns.members[v] # None
  BY DEF Change, MemberIds
<1>5. updates' \in [Client -> Seq(GroupStates)]
  <2>1. updates' = [v \in Client |-> updates'[v]]
    BY DEF Change
  <2>2. \A v \in Client : updates[v] \in Seq(GroupStates)
    BY <1>1 DEF TypeInv
  <2>3. \A v \in Client : updates'[v] \in Seq(GroupStates)
    <3> TAKE v \in Client
    <3>1. CASE updates'[v] = updates[v]
      BY <2>2, <3>1
    <3>2. CASE updates'[v] = Append(updates[v], ns)
      <4>1. Append(updates[v], ns) \in Seq(GroupStates)
        BY <1>0, <2>2
      <4> QED BY <3>2, <4>1
    <3> QED BY <1>4, <3>1, <3>2
  <2> QED BY <2>1, <2>3
<1>6. \A v \in Client : \A k \in 1..Len(updates'[v]) :
        \/ k \in 1..Len(updates[v]) /\ updates'[v][k] = updates[v][k]
        \/ /\ k = Len(updates[v]) + 1 /\ updates'[v][k] = ns
           /\ v # Creator /\ ns.members[v] # None
  <2> TAKE v \in Client
  <2>1. updates[v] \in Seq(GroupStates) /\ Len(updates[v]) \in Nat
    BY <1>1 DEF TypeInv
  <2>2. CASE updates'[v] = updates[v]
    BY <2>2
  <2>3. CASE updates'[v] = Append(updates[v], ns) /\ v # Creator /\ ns.members[v] # None
    <3>1. /\ Len(updates'[v]) = Len(updates[v]) + 1 /\ updates'[v][Len(updates[v]) + 1] = ns
          /\ \A i \in 1..Len(updates[v]) : updates'[v][i] = updates[v][i]
      BY <1>0, <2>1, <2>3, AppendProperties
    <3> QED BY <2>1, <2>3, <3>1
  <2> QED BY <1>4, <2>2, <2>3
<1>7. TypeInv'
  <2>1. changes' \in 0..MaxChanges
    BY <1>1, <1>2, GroupAssumption DEF TypeInv
  <2> QED BY <1>1, <1>2, <1>3, <1>5, <2>1 DEF TypeInv
<1>8. StatesInv'
  <2>0. StatesInv
    BY DEF GroupInv
  <2>1. ns.epoch = changes + 1 + 1
    BY <2>0 DEF StatesInv
  <2>2. \A u \in Client : state'[u] # None => GoodState(state'[u]) /\ my_leaf[u] # None
    BY <1>0, <1>3, <2>0 DEF StatesInv
  <2>3. \A v \in Client : \A k \in 1..Len(updates'[v]) :
          GoodState(updates'[v][k]) /\ updates'[v][k].members[v] # None
    BY <1>6, <2>0 DEF StatesInv
  <2> QED BY <1>0, <1>2, <1>3, <2>1, <2>2, <2>3 DEF StatesInv
<1>9. \A s \in Pool' : s = ns \/ s \in Pool
  BY <1>3, <1>6 DEF Pool
<1> PICK e : e = state[Creator].epoch
  OBVIOUS
<1>10. e \in Nat /\ \A s \in Pool : s.epoch <= e /\ s.epoch \in Nat
  <2>1. state[Creator] \in GroupStates
    BY <1>0, <1>1 DEF TypeInv, GroupInv, StatesInv
  <2> QED BY <2>1 DEF GroupInv, PoolInv, Pool, GroupStates
<1>11. PoolInv'
  <2>1. \A s, t \in Pool : s.epoch = t.epoch => s = t
    BY DEF GroupInv, PoolInv
  <2>2. \A s \in Pool' : s.epoch <= ns.epoch
    BY <1>9, <1>10
  <2>3. \A s, t \in Pool' : s.epoch = t.epoch => s = t
    BY <1>9, <1>10, <2>1
  <2> QED BY <1>3, <2>2, <2>3 DEF PoolInv
<1>12. OrderInv'
  <2>0. OrderInv
    BY DEF GroupInv
  <2>1. updates'[Creator] = << >>
    BY <1>0, <1>4, <2>0 DEF OrderInv
  <2>2. \A v \in Client : \A k \in 1..Len(updates[v]) :
          updates[v][k] \in Pool /\ updates[v][k].epoch < ns.epoch
    <3> TAKE v \in Client
    <3> TAKE k \in 1..Len(updates[v])
    <3>1. updates[v] \in Seq(GroupStates) /\ Len(updates[v]) \in Nat
      BY <1>1 DEF TypeInv
    <3>2. updates[v][k] \in GroupStates
      BY <3>1, ElementOfSeq
    <3>3. updates[v][k] \in Pool
      BY <3>2 DEF Pool
    <3> QED BY <1>10, <3>3
  <2>3. \A v \in Client : state[v] # None => state[v].epoch < ns.epoch
    <3> TAKE v \in Client
    <3> HAVE state[v] # None
    <3>1. state[v] \in Pool
      BY <1>1 DEF TypeInv, Pool
    <3> QED BY <1>10, <3>1
  <2>4. \A v \in Client : \A k \in 1..Len(updates'[v]) :
          state'[v] # None => state'[v].epoch < updates'[v][k].epoch
    <3> TAKE v \in Client
    <3> TAKE k \in 1..Len(updates'[v])
    <3>1. v # Creator /\ state'[v] = state[v]
      <4>1. ~ \E j \in 1..Len(updates'[Creator]) : TRUE
        BY <2>1
      <4> QED BY <1>3, <4>1
    <3>2. CASE k \in 1..Len(updates[v]) /\ updates'[v][k] = updates[v][k]
      BY <2>0, <3>1, <3>2 DEF OrderInv
    <3>3. CASE updates'[v][k] = ns
      BY <2>3, <3>1, <3>3
    <3> QED BY <1>6, <3>2, <3>3
  <2>5. \A v \in Client : \A j, k \in 1..Len(updates'[v]) :
          j < k => updates'[v][j].epoch < updates'[v][k].epoch
    <3> TAKE v \in Client
    <3> TAKE j, k \in 1..Len(updates'[v])
    <3> HAVE j < k
    <3>0. Len(updates[v]) \in Nat
      BY <1>1 DEF TypeInv
    <3>1. CASE k \in 1..Len(updates[v]) /\ updates'[v][k] = updates[v][k]
      <4>1. j \in 1..Len(updates[v]) /\ updates'[v][j] = updates[v][j]
        BY <1>6, <3>0, <3>1
      <4> QED BY <2>0, <3>1, <4>1 DEF OrderInv
    <3>2. CASE k = Len(updates[v]) + 1 /\ updates'[v][k] = ns
      <4>1. j \in 1..Len(updates[v]) /\ updates'[v][j] = updates[v][j]
        BY <1>6, <3>0, <3>2
      <4> QED BY <2>2, <3>2, <4>1
    <3> QED BY <1>6, <3>1, <3>2
  <2> QED BY <2>1, <2>4, <2>5 DEF OrderInv
<1>13. WireInv'
  <2>1. WireInv
    BY DEF GroupInv
  <2> QED BY <1>2, <2>1 DEF WireInv, Header
<1>14. ShownInv'
  <2> SUFFICES ASSUME NEW v \in Client, NEW j \in 1..Len(displayed[v])
               PROVE  /\ displayed[v][j] \in 1..Len(wire) /\ state'[v] # None
                      /\ Remembered(wire[displayed[v][j]], state'[v], seen[v])
    BY <1>2 DEF ShownInv
  <2>1. /\ displayed[v][j] \in 1..Len(wire) /\ state[v] # None
        /\ Remembered(wire[displayed[v][j]], state[v], seen[v])
    BY DEF GroupInv, ShownInv
  <2>2. CASE v # Creator
    BY <1>3, <2>1, <2>2
  <2>3. CASE v = Creator
    <3>1. wire[displayed[v][j]] \in GroupMessage /\ state[v] \in GroupStates
      BY <1>1, <2>1, ElementOfSeq DEF TypeInv
    <3>2. state[v].epoch < ns.epoch
      BY <1>10, <2>3
    <3> QED BY <1>0, <1>3, <2>1, <2>3, <3>1, <3>2, RememberedLater
  <2> QED BY <2>2, <2>3
<1>15. CacheInv' /\ DisplayedOnce'
  BY <1>2 DEF GroupInv, CacheInv, DisplayedOnce
<1> QED BY <1>7, <1>8, <1>11, <1>12, <1>13, <1>14, <1>15 DEF GroupInv

\* Both membership operations of the creator are such changes.
LEMMA MembershipInv ==
    ASSUME SmallGroup, GroupInv, NEW u \in Client,
           add_group_member(u) \/ remove_group_member(u)
    PROVE  GroupInv'
<1>1. GoodState(state[Creator]) /\ state[Creator].epoch = changes + 1
  BY CreatorIsClient DEF GroupInv, StatesInv
<1>2. Fresh = <<"random", state[Creator].epoch, 0>>
  BY <1>1 DEF Fresh
<1>3. CASE add_group_member(u)
  <2> PICK ns : ns = add_member(state[Creator], u, Fresh)
    OBVIOUS
  <2>1. Change(ns) /\ u \notin MemberIds(state[Creator])
    BY <1>3 DEF add_group_member
  <2>2. GoodState(ns) /\ ns.epoch = state[Creator].epoch + 1
    BY <1>1, <1>2, <2>1, AddGood
  <2> QED BY <2>1, <2>2, ChangeInv
<1>4. CASE remove_group_member(u)
  <2> PICK ns : ns = remove_member(state[Creator], u, Fresh)
    OBVIOUS
  <2>1. Change(ns) /\ u \in MemberIds(state[Creator])
    BY <1>4 DEF remove_group_member
  <2>2. GoodState(ns) /\ ns.epoch = state[Creator].epoch + 1
    BY <1>1, <1>2, <2>1, RemoveGood
  <2> QED BY <2>1, <2>2, ChangeInv
<1> QED BY <1>3, <1>4

\* Installing the next state keeps the invariant.
LEMMA InstallInv ==
    ASSUME GroupInv, NEW v \in Client, Install(v)
    PROVE  GroupInv'
<1>1. TypeInv
  BY DEF GroupInv
<1> PICK q : q = updates[v]
  OBVIOUS
<1> PICK ns : ns = Head(q)
  OBVIOUS
<1>2. /\ q # << >> /\ state' = [state EXCEPT ![v] = ns]
      /\ my_leaf' = [my_leaf EXCEPT ![v] = ns.members[v]]
      /\ updates' = [updates EXCEPT ![v] = Tail(q)] /\ seen' = [seen EXCEPT ![v] = None]
      /\ inbox' = inbox /\ wire' = wire
      /\ displayed' = displayed /\ faults' = faults /\ changes' = changes
  BY DEF Install
<1>3. q \in Seq(GroupStates) /\ Len(q) \in Nat
  BY <1>1 DEF TypeInv
<1>4. /\ ns \in GroupStates /\ Tail(q) \in Seq(GroupStates)
      /\ ns = q[1] /\ 1 \in 1..Len(q)
      /\ Len(Tail(q)) \in Nat
      /\ \A k \in 1..Len(Tail(q)) : Tail(q)[k] = q[k + 1] /\ k + 1 \in 1..Len(q)
  <2>1. /\ Head(q) \in GroupStates /\ Tail(q) \in Seq(GroupStates) /\ Len(Tail(q)) = Len(q) - 1
        /\ \A i \in 1..Len(Tail(q)) : Tail(q)[i] = q[i + 1]
    BY <1>2, <1>3, HeadTailProperties
  <2>2. ns = q[1] /\ Len(q) # 0
    BY <1>2, <1>3
  <2> QED BY <1>3, <2>1, <2>2
<1>5. None \notin GroupStates /\ ns # None /\ Creator \in Client
  BY <1>4, CreatorIsClient
<1>6. GoodState(ns) /\ ns.members[v] # None /\ ns.members[v] \in Leaf
  <2>1. GoodState(ns) /\ ns.members[v] # None
    BY <1>4 DEF GroupInv, StatesInv
  <2> QED BY <1>4, <2>1 DEF GroupStates, Leaf
<1>7. v # Creator
  BY <1>2 DEF GroupInv, OrderInv
<1>8. state[v] # None => state[v].epoch < ns.epoch
  BY <1>4 DEF GroupInv, OrderInv
<1>9. /\ state'[v] = ns /\ my_leaf'[v] = ns.members[v] /\ updates'[v] = Tail(q) /\ seen'[v] = None
      /\ \A u \in Client : u # v => /\ state'[u] = state[u] /\ my_leaf'[u] = my_leaf[u]
                                    /\ updates'[u] = updates[u] /\ seen'[u] = seen[u]
  BY <1>1, <1>2 DEF TypeInv
<1>10. TypeInv'
  BY <1>1, <1>2, <1>4, <1>6 DEF TypeInv
<1>11. StatesInv'
  <2>0. StatesInv
    BY DEF GroupInv
  <2>1. state'[Creator] # None /\ state'[Creator].epoch = changes + 1
    BY <1>5, <1>7, <1>9, <2>0 DEF StatesInv
  <2>2. \A u \in Client : state'[u] # None => GoodState(state'[u]) /\ my_leaf'[u] # None
    BY <1>6, <1>9, <2>0 DEF StatesInv
  <2>3. \A w \in Client : \A k \in 1..Len(updates'[w]) :
          GoodState(updates'[w][k]) /\ updates'[w][k].members[w] # None
    <3> TAKE w \in Client
    <3>1. CASE w = v
      <4> TAKE k \in 1..Len(updates'[w])
      <4>1. updates'[w][k] = updates[v][k + 1] /\ k + 1 \in 1..Len(updates[v])
        BY <1>4, <1>9, <3>1
      <4> QED BY <2>0, <3>1, <4>1 DEF StatesInv
    <3>2. CASE w # v
      BY <1>9, <2>0, <3>2 DEF StatesInv
    <3> QED BY <3>1, <3>2
  <2> QED BY <1>2, <2>1, <2>2, <2>3 DEF StatesInv
<1>12. \A s \in Pool' : s \in Pool
  <2> TAKE s \in Pool'
  <2>0. s \in GroupStates
    BY DEF Pool
  <2>1. CASE \E u \in Client : state'[u] = s
    <3> PICK u \in Client : state'[u] = s
      BY <2>1
    <3>1. CASE u = v
      <4>1. s = updates[v][1] /\ 1 \in 1..Len(updates[v])
        BY <1>4, <1>9, <3>1
      <4> QED BY <2>0, <4>1 DEF Pool
    <3>2. CASE u # v
      BY <1>9, <2>0, <3>2 DEF Pool
    <3> QED BY <3>1, <3>2
  <2>2. CASE \E u \in Client : \E k \in 1..Len(updates'[u]) : updates'[u][k] = s
    <3> PICK u \in Client : \E k \in 1..Len(updates'[u]) : updates'[u][k] = s
      BY <2>2
    <3> PICK k \in 1..Len(updates'[u]) : updates'[u][k] = s
      OBVIOUS
    <3>1. CASE u = v
      <4>1. s = updates[v][k + 1] /\ k + 1 \in 1..Len(updates[v])
        BY <1>4, <1>9, <3>1
      <4> QED BY <2>0, <4>1 DEF Pool
    <3>2. CASE u # v
      BY <1>9, <2>0, <3>2 DEF Pool
    <3> QED BY <3>1, <3>2
  <2> QED BY <2>1, <2>2 DEF Pool
<1>13. PoolInv'
  <2>0. PoolInv
    BY DEF GroupInv
  <2>1. state'[Creator] = state[Creator]
    BY <1>5, <1>7, <1>9
  <2> QED BY <1>12, <2>0, <2>1 DEF PoolInv
<1>14. OrderInv'
  <2>0. OrderInv
    BY DEF GroupInv
  <2>1. updates'[Creator] = << >>
    BY <1>5, <1>7, <1>9, <2>0 DEF OrderInv
  <2>2. \A w \in Client : \A k \in 1..Len(updates'[w]) :
          state'[w] # None => state'[w].epoch < updates'[w][k].epoch
    <3> TAKE w \in Client
    <3>1. CASE w = v
      <4> TAKE k \in 1..Len(updates'[w])
      <4>1. /\ updates'[w][k] = updates[v][k + 1] /\ k + 1 \in 1..Len(updates[v])
            /\ 1 \in 1..Len(updates[v]) /\ state'[w] = updates[v][1]
        BY <1>4, <1>9, <3>1
      <4>2. 1 < k + 1
        BY <1>4, <1>9, <3>1
      <4> QED BY <2>0, <4>1, <4>2 DEF OrderInv
    <3>2. CASE w # v
      BY <1>9, <2>0, <3>2 DEF OrderInv
    <3> QED BY <3>1, <3>2
  <2>3. \A w \in Client : \A j, k \in 1..Len(updates'[w]) :
          j < k => updates'[w][j].epoch < updates'[w][k].epoch
    <3> TAKE w \in Client
    <3>1. CASE w = v
      <4> TAKE j, k \in 1..Len(updates'[w])
      <4> HAVE j < k
      <4>1. /\ updates'[w][k] = updates[v][k + 1] /\ k + 1 \in 1..Len(updates[v])
            /\ updates'[w][j] = updates[v][j + 1] /\ j + 1 \in 1..Len(updates[v])
        BY <1>4, <1>9, <3>1
      <4>2. j + 1 < k + 1
        BY <1>4, <1>9, <3>1
      <4> QED BY <2>0, <4>1, <4>2 DEF OrderInv
    <3>2. CASE w # v
      BY <1>9, <2>0, <3>2 DEF OrderInv
    <3> QED BY <3>1, <3>2
  <2> QED BY <2>1, <2>2, <2>3 DEF OrderInv
<1>15. WireInv'
  <2>1. WireInv
    BY DEF GroupInv
  <2> QED BY <1>2, <2>1 DEF WireInv, Header
<1>16. ShownInv'
  <2> SUFFICES ASSUME NEW u \in Client, NEW j \in 1..Len(displayed[u])
               PROVE  /\ displayed[u][j] \in 1..Len(wire) /\ state'[u] # None
                      /\ Remembered(wire[displayed[u][j]], state'[u], seen'[u])
    BY <1>2 DEF ShownInv
  <2>1. /\ displayed[u][j] \in 1..Len(wire) /\ state[u] # None
        /\ Remembered(wire[displayed[u][j]], state[u], seen[u])
    BY DEF GroupInv, ShownInv
  <2>2. CASE u # v
    BY <1>9, <2>1, <2>2
  <2>3. CASE u = v
    <3>1. wire[displayed[u][j]] \in GroupMessage /\ state[u] \in GroupStates
      BY <1>1, <2>1, ElementOfSeq DEF TypeInv
    <3> QED BY <1>4, <1>5, <1>8, <1>9, <2>1, <2>3, <3>1, RememberedLater
  <2> QED BY <2>2, <2>3
<1>17. CacheInv' /\ DisplayedOnce'
  BY <1>2, <1>9 DEF GroupInv, CacheInv, DisplayedOnce
<1> QED BY <1>10, <1>11, <1>13, <1>14, <1>15, <1>16, <1>17 DEF GroupInv

-----------------------------------------------------------------------------
(* Messages. *)

\* What the steps of messages leave alone.
LEMMA MembershipKept ==
    ASSUME GroupInv, UNCHANGED <<state, my_leaf, updates, changes>>
    PROVE  StatesInv' /\ PoolInv' /\ OrderInv'
<1>1. StatesInv /\ PoolInv /\ OrderInv
  BY DEF GroupInv
<1>2. state' = state /\ my_leaf' = my_leaf /\ updates' = updates /\ changes' = changes
  OBVIOUS
<1>3. StatesInv'
  BY <1>1, <1>2 DEF StatesInv
<1>4. Pool' = Pool
  BY <1>2 DEF Pool
<1>5. PoolInv'
  BY <1>1, <1>2, <1>4 DEF PoolInv
<1>6. OrderInv'
  BY <1>1, <1>2 DEF OrderInv
<1> QED BY <1>3, <1>5, <1>6

\* send_group_text keeps the invariant.
LEMMA SendInv ==
    ASSUME GroupInv, NEW u \in Client, send_group_text(u)
    PROVE  GroupInv'
<1>1. TypeInv /\ WireInv /\ ShownInv
  BY DEF GroupInv
<1> PICK m : m = encrypt(u, 0)
  OBVIOUS
<1>2. /\ state[u] # None /\ Len(wire) < MaxSent /\ wire' = Append(wire, m)
      /\ inbox' = [v \in Client |-> IF v \in MemberIds(state[u]) \ {u}
                                    THEN Append(inbox[v], m) ELSE inbox[v]]
      /\ state' = state /\ my_leaf' = my_leaf /\ seen' = seen /\ updates' = updates
      /\ displayed' = displayed /\ changes' = changes /\ faults' = faults
  BY DEF send_group_text
<1>3. wire \in Seq(GroupMessage) /\ Len(wire) \in Nat /\ MaxSent \in Nat
  BY <1>1, GroupAssumption DEF TypeInv
<1>4. m \in GroupMessage /\ m.id = Len(wire) + 1
  <2>1. state[u] \in GroupStates /\ my_leaf[u] \in Leaf
    BY <1>1, <1>2 DEF TypeInv, GroupInv, StatesInv
  <2>2. state[u].epoch \in Nat /\ state[u].application_key \in ApplicationKey
    BY <2>1 DEF GroupStates
  <2> QED BY <1>3, <2>1, <2>2 DEF encrypt, GroupMessage
<1>5. /\ wire' \in Seq(GroupMessage) /\ Len(wire') = Len(wire) + 1
      /\ wire'[Len(wire) + 1] = m /\ \A k \in 1..Len(wire) : wire'[k] = wire[k]
  BY <1>2, <1>3, <1>4, AppendProperties
<1>6. \A v \in Client : \/ inbox'[v] = inbox[v]
                        \/ inbox'[v] = Append(inbox[v], m)
  BY <1>2
<1>7. \A v \in Client : inbox[v] \in Seq(GroupMessage) /\ Len(inbox[v]) \in Nat
  BY <1>1 DEF TypeInv
<1>8. \A v \in Client : inbox'[v] \in Seq(GroupMessage) /\
        \A k \in 1..Len(inbox'[v]) :
          \/ k \in 1..Len(inbox[v]) /\ inbox'[v][k] = inbox[v][k]
          \/ inbox'[v][k] = m
  <2> TAKE v \in Client
  <2>1. CASE inbox'[v] = inbox[v]
    BY <1>7, <2>1
  <2>2. CASE inbox'[v] = Append(inbox[v], m)
    <3>1. /\ inbox'[v] \in Seq(GroupMessage)
          /\ Len(inbox'[v]) = Len(inbox[v]) + 1 /\ inbox'[v][Len(inbox[v]) + 1] = m
          /\ \A i \in 1..Len(inbox[v]) : inbox'[v][i] = inbox[v][i]
      BY <1>4, <1>7, <2>2, AppendProperties
    <3> QED BY <1>7, <3>1
  <2> QED BY <1>6, <2>1, <2>2
<1>9. TypeInv'
  <2>1. inbox' \in [Client -> Seq(GroupMessage)]
    BY <1>2, <1>8
  <2>2. Len(wire') <= MaxSent
    BY <1>2, <1>3, <1>5
  <2> QED BY <1>1, <1>2, <1>5, <2>1, <2>2 DEF TypeInv
<1>10. \A k \in 1..Len(wire) : k \in 1..Len(wire')
  BY <1>3, <1>5
<1>11. WireInv'
  <2>1. \A k \in 1..Len(wire') : wire'[k].id = k
    BY <1>1, <1>3, <1>4, <1>5 DEF WireInv
  <2>2. \A v \in Client : \A k \in 1..Len(inbox'[v]) :
          /\ inbox'[v][k].id \in 1..Len(wire')
          /\ Header(inbox'[v][k]) = Header(wire'[inbox'[v][k].id])
    <3> TAKE v \in Client
    <3> TAKE k \in 1..Len(inbox'[v])
    <3>1. CASE k \in 1..Len(inbox[v]) /\ inbox'[v][k] = inbox[v][k]
      <4>1. inbox[v][k].id \in 1..Len(wire) /\ Header(inbox[v][k]) = Header(wire[inbox[v][k].id])
        BY <1>1, <3>1 DEF WireInv
      <4>2. wire'[inbox[v][k].id] = wire[inbox[v][k].id]
        BY <1>5, <4>1
      <4> QED BY <1>10, <3>1, <4>1, <4>2
    <3>2. CASE inbox'[v][k] = m
      <4>1. m.id \in 1..Len(wire')
        BY <1>3, <1>4, <1>5
      <4> QED BY <1>4, <1>5, <3>2, <4>1
    <3> QED BY <1>8, <3>1, <3>2
  <2> QED BY <2>1, <2>2 DEF WireInv
<1>12. ShownInv'
  <2> SUFFICES ASSUME NEW v \in Client, NEW j \in 1..Len(displayed[v])
               PROVE  /\ displayed[v][j] \in 1..Len(wire') /\ state[v] # None
                      /\ Remembered(wire'[displayed[v][j]], state[v], seen[v])
    BY <1>2 DEF ShownInv
  <2>1. /\ displayed[v][j] \in 1..Len(wire) /\ state[v] # None
        /\ Remembered(wire[displayed[v][j]], state[v], seen[v])
    BY <1>1 DEF ShownInv
  <2> QED BY <1>5, <1>10, <2>1
<1>13. CacheInv' /\ DisplayedOnce'
  BY <1>2 DEF GroupInv, CacheInv, DisplayedOnce
<1> QED BY <1>2, <1>9, <1>11, <1>12, <1>13, MembershipKept DEF GroupInv

\* One entry of a sequence is replaced.
LEMMA EntryReplaced ==
    ASSUME NEW S, NEW s \in Seq(S), NEW i \in 1..Len(s), NEW e \in S, NEW q,
           q = [s EXCEPT ![i] = e]
    PROVE  /\ q \in Seq(S) /\ Len(q) = Len(s)
           /\ q[i] = e /\ \A k \in 1..Len(s) : k # i => q[k] = s[k]
BY ExceptSeq

\* A message of the wire is put into an inbox again, or one loses its key.
LEMMA FaultInv ==
    ASSUME GroupInv, NEW v \in Client,
           \/ \E i \in 1..Len(wire) : Redeliver(v, i)
           \/ \E k \in 1..Len(inbox[v]) : Damage(v, k)
    PROVE  GroupInv'
<1>1. TypeInv /\ WireInv /\ ShownInv
  BY DEF GroupInv
<1>2. /\ state' = state /\ my_leaf' = my_leaf /\ seen' = seen /\ updates' = updates
      /\ displayed' = displayed /\ changes' = changes /\ wire' = wire
      /\ faults < MaxFaults /\ faults' = faults + 1
  BY DEF Redeliver, Damage
<1>3. /\ inbox \in [Client -> Seq(GroupMessage)] /\ inbox[v] \in Seq(GroupMessage)
      /\ Len(inbox[v]) \in Nat
  BY <1>1 DEF TypeInv
<1>4. /\ inbox' \in [Client -> Seq(GroupMessage)]
      /\ \A w \in Client : w # v => inbox'[w] = inbox[w]
      /\ \A k \in 1..Len(inbox'[v]) :
            \/ k \in 1..Len(inbox[v]) /\ Header(inbox'[v][k]) = Header(inbox[v][k])
                 /\ inbox'[v][k].id = inbox[v][k].id
            \/ \E i \in 1..Len(wire) : inbox'[v][k] = wire[i]
  <2>1. CASE \E i \in 1..Len(wire) : Redeliver(v, i)
    <3> PICK i \in 1..Len(wire) : Redeliver(v, i)
      BY <2>1
    <3> PICK m : m = wire[i]
      OBVIOUS
    <3>1. m \in GroupMessage
      BY <1>1, ElementOfSeq DEF TypeInv
    <3> PICK q : q = Append(inbox[v], m)
      OBVIOUS
    <3>2. inbox' = [inbox EXCEPT ![v] = q]
      BY DEF Redeliver
    <3>3. /\ q \in Seq(GroupMessage)
          /\ Len(q) = Len(inbox[v]) + 1 /\ q[Len(inbox[v]) + 1] = m
          /\ \A k \in 1..Len(inbox[v]) : q[k] = inbox[v][k]
      BY <1>3, <3>1, AppendProperties
    <3>4. /\ inbox' \in [Client -> Seq(GroupMessage)] /\ inbox'[v] = q
          /\ \A w \in Client : w # v => inbox'[w] = inbox[w]
      BY <1>3, <3>2, <3>3
    <3>5. \A k \in 1..Len(q) : k \in 1..Len(inbox[v]) \/ k = Len(inbox[v]) + 1
      BY <1>3, <3>3
    <3> QED BY <3>3, <3>4, <3>5
  <2>2. CASE \E k \in 1..Len(inbox[v]) : Damage(v, k)
    <3> PICK i \in 1..Len(inbox[v]) : Damage(v, i)
      BY <2>2
    <3> PICK m : m = [inbox[v][i] EXCEPT !.key = None]
      OBVIOUS
    <3>1. inbox[v][i] \in GroupMessage
      BY <1>3, ElementOfSeq
    <3>2. m \in GroupMessage /\ Header(m) = Header(inbox[v][i]) /\ m.id = inbox[v][i].id
      BY <3>1 DEF GroupMessage, Header
    <3> PICK q : q = [inbox[v] EXCEPT ![i] = m]
      OBVIOUS
    <3>3. inbox' = [inbox EXCEPT ![v] = q]
      BY <1>3 DEF Damage
    <3>4. /\ q \in Seq(GroupMessage) /\ Len(q) = Len(inbox[v])
          /\ q[i] = m /\ \A k \in 1..Len(inbox[v]) : k # i => q[k] = inbox[v][k]
      BY <1>3, <3>2, EntryReplaced
    <3>5. /\ inbox' \in [Client -> Seq(GroupMessage)] /\ inbox'[v] = q
          /\ \A w \in Client : w # v => inbox'[w] = inbox[w]
      BY <1>3, <3>3, <3>4
    <3> QED BY <3>2, <3>4, <3>5
  <2> QED BY <2>1, <2>2
<1>5. TypeInv'
  <2>1. faults' \in 0..MaxFaults
    BY <1>1, <1>2, GroupAssumption DEF TypeInv
  <2> QED BY <1>1, <1>2, <1>4, <2>1 DEF TypeInv
<1>6. WireInv'
  <2>1. \A w \in Client : \A k \in 1..Len(inbox'[w]) :
          /\ inbox'[w][k].id \in 1..Len(wire)
          /\ Header(inbox'[w][k]) = Header(wire[inbox'[w][k].id])
    <3> TAKE w \in Client
    <3>1. CASE w # v
      BY <1>1, <1>4, <3>1 DEF WireInv
    <3>2. CASE w = v
      <4> TAKE k \in 1..Len(inbox'[w])
      <4>1. CASE /\ k \in 1..Len(inbox[v]) /\ Header(inbox'[v][k]) = Header(inbox[v][k])
                 /\ inbox'[v][k].id = inbox[v][k].id
        BY <1>1, <3>2, <4>1 DEF WireInv
      <4>2. CASE \E i \in 1..Len(wire) : inbox'[v][k] = wire[i]
        BY <1>1, <3>2, <4>2 DEF WireInv
      <4> QED BY <1>4, <3>2, <4>1, <4>2
    <3> QED BY <3>1, <3>2
  <2> QED BY <1>1, <1>2, <2>1 DEF WireInv
<1>7. ShownInv'
  BY <1>1, <1>2 DEF ShownInv
<1>8. CacheInv' /\ DisplayedOnce'
  BY <1>2 DEF GroupInv, CacheInv, DisplayedOnce
<1> QED BY <1>2, <1>5, <1>6, <1>7, <1>8, MembershipKept DEF GroupInv

-----------------------------------------------------------------------------
(* recv_group_text *)

Pair(m) == <<m.leaf, m.counter>>

\* One round of the loop over the inbox.
Attempt(s, a, m, k) ==
    LET d == decrypt(s, a.seen, m)
    IN  IF a.stuck THEN a
        ELSE [taken |-> IF d.ok THEN k ELSE k - 1, stuck |-> ~ d.ok, seen |-> d.seen]

\* f holds the rounds over the first k messages of q, which start from z.
IsLoop(f, s, z, q, k) ==
    f = [j \in 0..k |-> IF j = 0 THEN z ELSE Attempt(s, f[j - 1], q[j], j)]

\* After k rounds: the messages taken are of the epoch of s, and have entered the
\* cache as new and different pairs.
LoopInv(a, s, c, q, k) ==
    /\ a.taken \in 0..k /\ (a.stuck \/ a.taken = k)
    /\ c \subseteq a.seen /\ a.seen \subseteq Leaf \X {0} /\ Cardinality(a.seen) <= max_entries
    /\ \A j \in 1..a.taken : q[j].epoch = s.epoch /\ Pair(q[j]) \in a.seen /\ Pair(q[j]) \notin c
    /\ \A i, j \in 1..a.taken : Pair(q[i]) = Pair(q[j]) => i = j

\* A cache that has room grows by one entry.
LEMMA MarkBounded ==
    ASSUME NEW cache, cache \subseteq Leaf \X {0}, NEW m \in GroupMessage, Fits(cache, m)
    PROVE  /\ Marked(cache, m) \subseteq Leaf \X {0}
           /\ Cardinality(Marked(cache, m)) <= max_entries
           /\ Marked(cache, m) = cache \cup {Pair(m)} /\ Pair(m) \notin cache
<1>1. Marked(cache, m) = cache \cup {Pair(m)} /\ Pair(m) \notin cache
  BY DEF Marked, Fits, Pair
<1>2. Pair(m) \in Leaf \X {0}
  BY DEF Pair, GroupMessage
<1>3. IsFiniteSet(Leaf) /\ IsFiniteSet({0})
  <2>1. IsFiniteSet(0..3)
    <3>1. 0 \in Int /\ 3 \in Int
      OBVIOUS
    <3> QED BY <3>1, FS_Interval, Zenon
  <2>2. Leaf = 0..3
    BY NodeNumbers
  <2> QED BY <2>1, <2>2, FS_Singleton
<1>4. IsFiniteSet(Leaf \X {0})
  BY <1>3, FS_Product
<1>5. IsFiniteSet(cache)
  BY <1>4, FS_Subset
<1>6. Cardinality(cache \cup {Pair(m)}) = Cardinality(cache) + 1 /\ Cardinality(cache) \in Nat
  BY <1>1, <1>5, FS_AddElement, FS_CardinalityType
<1>7. Cardinality(cache) < max_entries /\ max_entries \in Nat
  BY GroupAssumption DEF Fits
<1>8. Cardinality(cache) + 1 <= max_entries
  BY <1>6, <1>7
<1> QED BY <1>1, <1>2, <1>6, <1>8

\* What a round does to a: nothing after a failure; else the message is taken, of
\* the right epoch and new to the cache, or fails and leaves it in the cache or not.
OneRound(b, s, a, m, k) ==
    \/ a.stuck /\ b = a
    \/ /\ ~ a.stuck /\ m.epoch = s.epoch /\ Fits(a.seen, m)
       /\ b = [taken |-> k, stuck |-> FALSE, seen |-> Marked(a.seen, m)]
    \/ /\ ~ a.stuck /\ Fits(a.seen, m)
       /\ b = [taken |-> k - 1, stuck |-> TRUE, seen |-> Marked(a.seen, m)]
    \/ ~ a.stuck /\ b = [taken |-> k - 1, stuck |-> TRUE, seen |-> a.seen]

\* The cases of decrypt.
LEMMA AttemptCases ==
    ASSUME NEW s, NEW a, NEW m, NEW k
    PROVE  OneRound(Attempt(s, a, m, k), s, a, m, k)
<1>1. CASE a.stuck
  BY <1>1 DEF Attempt, OneRound
<1>2. CASE ~ a.stuck
  <2> PICK d : d = decrypt(s, a.seen, m)
    OBVIOUS
  <2>1. Attempt(s, a, m, k)
        = [taken |-> IF d.ok THEN k ELSE k - 1, stuck |-> ~ d.ok, seen |-> d.seen]
    BY <1>2 DEF Attempt
  <2>2. \/ d.ok = TRUE /\ m.epoch = s.epoch /\ Fits(a.seen, m) /\ d.seen = Marked(a.seen, m)
        \/ d.ok = FALSE /\ Fits(a.seen, m) /\ d.seen = Marked(a.seen, m)
        \/ d.ok = FALSE /\ d.seen = a.seen
    BY DEF decrypt
  <2>3. CASE d.ok = TRUE /\ m.epoch = s.epoch /\ Fits(a.seen, m) /\ d.seen = Marked(a.seen, m)
    BY <1>2, <2>1, <2>3 DEF OneRound
  <2>4. CASE d.ok = FALSE /\ Fits(a.seen, m) /\ d.seen = Marked(a.seen, m)
    BY <1>2, <2>1, <2>4 DEF OneRound
  <2>5. CASE d.ok = FALSE /\ d.seen = a.seen
    BY <1>2, <2>1, <2>5 DEF OneRound
  <2> QED BY <2>2, <2>3, <2>4, <2>5
<1> QED BY <1>1, <1>2

\* A round keeps the loop invariant.
LEMMA AttemptInv ==
    ASSUME NEW s, NEW a, NEW c, NEW q, NEW n \in Nat, q[n + 1] \in GroupMessage,
           LoopInv(a, s, c, q, n)
    PROVE  LoopInv(Attempt(s, a, q[n + 1], n + 1), s, c, q, n + 1)
<1> PICK m : m = q[n + 1]
  OBVIOUS
<1> PICK b : b = Attempt(s, a, m, n + 1)
  OBVIOUS
<1>0. /\ a.taken \in 0..n /\ (a.stuck \/ a.taken = n)
      /\ c \subseteq a.seen /\ a.seen \subseteq Leaf \X {0} /\ Cardinality(a.seen) <= max_entries
      /\ \A j \in 1..a.taken : q[j].epoch = s.epoch /\ Pair(q[j]) \in a.seen /\ Pair(q[j]) \notin c
      /\ \A i, j \in 1..a.taken : Pair(q[i]) = Pair(q[j]) => i = j
  BY DEF LoopInv
<1>1. CASE a.stuck /\ b = a
  <2>1. a.taken \in 0..(n + 1)
    BY <1>0
  <2>2. LoopInv(a, s, c, q, n + 1)
    BY <1>0, <1>1, <2>1 DEF LoopInv
  <2> QED BY <1>1, <2>2
<1>2. CASE /\ ~ a.stuck /\ m.epoch = s.epoch /\ Fits(a.seen, m)
           /\ b = [taken |-> n + 1, stuck |-> FALSE, seen |-> Marked(a.seen, m)]
  <2>1. b.taken = n + 1 /\ b.seen = Marked(a.seen, m)
    BY <1>2
  <2>2. a.taken = n
    BY <1>0, <1>2
  <2>3. /\ b.seen = a.seen \cup {Pair(m)} /\ Pair(m) \notin a.seen
        /\ b.seen \subseteq Leaf \X {0} /\ Cardinality(b.seen) <= max_entries
    BY <1>0, <1>2, <2>1, MarkBounded
  <2>4. \A j \in 1..(n + 1) : j \in 1..n \/ j = n + 1
    OBVIOUS
  <2>5. \A j \in 1..(n + 1) : q[j].epoch = s.epoch /\ Pair(q[j]) \in b.seen /\ Pair(q[j]) \notin c
    <3> TAKE j \in 1..(n + 1)
    <3>1. CASE j \in 1..n
      BY <1>0, <2>2, <2>3, <3>1
    <3>2. CASE j = n + 1
      BY <1>0, <1>2, <2>3, <3>2
    <3> QED BY <2>4, <3>1, <3>2
  <2>6. \A i, j \in 1..(n + 1) : Pair(q[i]) = Pair(q[j]) => i = j
    <3> TAKE i, j \in 1..(n + 1)
    <3>1. \A k \in 1..n : Pair(q[k]) \in a.seen
      BY <1>0, <2>2
    <3>2. Pair(q[n + 1]) \notin a.seen
      BY <2>3
    <3>3. CASE i \in 1..n /\ j \in 1..n
      BY <1>0, <2>2, <3>3
    <3> QED BY <2>4, <3>1, <3>2, <3>3
  <2>7. c \subseteq b.seen /\ b.taken \in 0..(n + 1)
    BY <1>0, <2>1, <2>3
  <2> QED BY <2>1, <2>3, <2>5, <2>6, <2>7 DEF LoopInv
<1>3. ASSUME NEW x, b = [taken |-> (n + 1) - 1, stuck |-> TRUE, seen |-> x], ~ a.stuck,
             a.seen \subseteq x, x \subseteq Leaf \X {0}, Cardinality(x) <= max_entries
      PROVE  LoopInv(b, s, c, q, n + 1)
  <2>1. b.taken = n /\ b.seen = x /\ b.stuck
    BY <1>3
  <2>2. a.taken = n
    BY <1>0, <1>3
  <2>3. /\ b.taken \in 0..(n + 1) /\ c \subseteq b.seen /\ b.seen \subseteq Leaf \X {0}
        /\ Cardinality(b.seen) <= max_entries
    BY <1>0, <1>3, <2>1
  <2>4. \A j \in 1..b.taken : q[j].epoch = s.epoch /\ Pair(q[j]) \in b.seen /\ Pair(q[j]) \notin c
    BY <1>0, <1>3, <2>1, <2>2
  <2>5. \A i, j \in 1..b.taken : Pair(q[i]) = Pair(q[j]) => i = j
    BY <1>0, <2>1, <2>2
  <2> QED BY <2>1, <2>3, <2>4, <2>5 DEF LoopInv
<1>4. CASE /\ ~ a.stuck /\ Fits(a.seen, m)
           /\ b = [taken |-> (n + 1) - 1, stuck |-> TRUE, seen |-> Marked(a.seen, m)]
  <2>1. /\ Marked(a.seen, m) = a.seen \cup {Pair(m)}
        /\ Marked(a.seen, m) \subseteq Leaf \X {0} /\ Cardinality(Marked(a.seen, m)) <= max_entries
    BY <1>0, <1>4, MarkBounded
  <2> PICK x : x = Marked(a.seen, m)
    OBVIOUS
  <2>2. /\ b = [taken |-> (n + 1) - 1, stuck |-> TRUE, seen |-> x] /\ a.seen \subseteq x
        /\ x \subseteq Leaf \X {0} /\ Cardinality(x) <= max_entries
    BY <1>4, <2>1
  <2>3. ~ a.stuck
    BY <1>4
  <2>4. LoopInv(b, s, c, q, n + 1)
    BY <1>3, <2>2, <2>3, Zenon
  <2> QED BY <2>4
<1>5. CASE ~ a.stuck /\ b = [taken |-> (n + 1) - 1, stuck |-> TRUE, seen |-> a.seen]
  BY <1>0, <1>3, <1>5
<1>6. \/ a.stuck /\ b = a
      \/ /\ ~ a.stuck /\ m.epoch = s.epoch /\ Fits(a.seen, m)
         /\ b = [taken |-> n + 1, stuck |-> FALSE, seen |-> Marked(a.seen, m)]
      \/ /\ ~ a.stuck /\ Fits(a.seen, m)
         /\ b = [taken |-> (n + 1) - 1, stuck |-> TRUE, seen |-> Marked(a.seen, m)]
      \/ ~ a.stuck /\ b = [taken |-> (n + 1) - 1, stuck |-> TRUE, seen |-> a.seen]
  <2>1. OneRound(b, s, a, m, n + 1)
    BY AttemptCases
  <2> QED BY <2>1 DEF OneRound
<1> QED BY <1>1, <1>2, <1>4, <1>5, <1>6, Zenon

\* The loop over the first k messages ends, with its invariant.
LEMMA LoopEnds ==
    ASSUME NEW s, NEW c, NEW z,
           NEW q \in Seq(GroupMessage), NEW k \in 0..Len(q), LoopInv(z, s, c, q, 0)
    PROVE  /\ \E f : IsLoop(f, s, z, q, k)
           /\ \A f : IsLoop(f, s, z, q, k) => LoopInv(f[k], s, c, q, k)
<1> DEFINE Ok(n) == /\ \E f : IsLoop(f, s, z, q, n)
                    /\ \A f : IsLoop(f, s, z, q, n) => LoopInv(f[n], s, c, q, n)
           S == {n \in Nat : n <= Len(q) => Ok(n)}
<1>0. Len(q) \in Nat
  BY LenProperties
<1>1. 0 \in S
  <2> DEFINE g == [j \in 0..0 |-> z]
  <2>1. IsLoop(g, s, z, q, 0)
    BY DEF IsLoop
  <2>2. ASSUME NEW f, IsLoop(f, s, z, q, 0)
        PROVE  LoopInv(f[0], s, c, q, 0)
    <3>1. f[0] = z
      BY <2>2 DEF IsLoop
    <3> QED BY <3>1
  <2> QED BY <2>1, <2>2
<1>2. ASSUME NEW n \in S PROVE n + 1 \in S
  <2> SUFFICES ASSUME n + 1 <= Len(q) PROVE Ok(n + 1)
    OBVIOUS
  <2>0. n \in Nat /\ Ok(n) /\ n + 1 \in 1..Len(q)
    BY <1>0
  <2>1. PICK g : IsLoop(g, s, z, q, n)
    BY <2>0
  <2> DEFINE h == [j \in 0..(n + 1) |-> IF j = n + 1 THEN Attempt(s, g[n], q[n + 1], n + 1) ELSE g[j]]
  <2>2. IsLoop(h, s, z, q, n + 1)
    BY <2>0, <2>1 DEF IsLoop
  <2>3. ASSUME NEW f, IsLoop(f, s, z, q, n + 1)
        PROVE  LoopInv(f[n + 1], s, c, q, n + 1)
    <3> DEFINE e == [j \in 0..n |-> f[j]]
    <3>1. IsLoop(e, s, z, q, n) /\ e[n] = f[n]
      BY <2>0, <2>3 DEF IsLoop
    <3>2. f[n + 1] = Attempt(s, f[n], q[n + 1], n + 1)
      BY <2>0, <2>3 DEF IsLoop
    <3>3. LoopInv(f[n], s, c, q, n)
      <4> HIDE DEF e
      <4> QED BY <2>0, <3>1
    <3>4. q[n + 1] \in GroupMessage
      BY <2>0, ElementOfSeq
    <3> QED BY <2>0, <3>2, <3>3, <3>4, AttemptInv
  <2> HIDE DEF h
  <2> QED BY <2>2, <2>3
<1>3. S = Nat
  <2> HIDE DEF S
  <2>1. S \subseteq Nat
    BY DEF S
  <2> QED BY <1>1, <1>2, <2>1, InductiveSet
<1>4. k \in S /\ k <= Len(q)
  BY <1>0, <1>3
<1> HIDE DEF Ok
<1>5. Ok(k)
  BY <1>4
<1> QED BY <1>5 DEF Ok

\* recv_group_text takes a prefix of the inbox and enters it into the cache.
LEMMA ReceiveUnfolded ==
    ASSUME GroupInv, NEW v \in Client, recv_group_text(v)
    PROVE  \E end :
             LET c == IF seen[v] = None THEN {} ELSE seen[v]
             IN  /\ LoopInv(end, state[v], c, inbox[v], Len(inbox[v]))
                 /\ seen' = [seen EXCEPT ![v] = end.seen]
                 /\ inbox' = [inbox EXCEPT ![v] =
                                SubSeq(inbox[v], end.taken + 1, Len(inbox[v]))]
                 /\ displayed' = [displayed EXCEPT ![v] =
                                    @ \o [k \in 1..end.taken |-> inbox[v][k].id]]
<1> DEFINE c == IF seen[v] = None THEN {} ELSE seen[v]
           z == [taken |-> 0, stuck |-> FALSE, seen |-> c]
           q == inbox[v]
           s == state[v]
           f == CHOOSE g : IsLoop(g, s, z, q, Len(q))
<1>0. TypeInv /\ CacheInv
  BY DEF GroupInv
<1>1. q \in Seq(GroupMessage) /\ Len(q) \in Nat /\ Len(q) \in 0..Len(q)
  BY <1>0 DEF TypeInv
<1>2. c \subseteq Leaf \X {0} /\ Cardinality(c) <= max_entries
  <2>1. CASE seen[v] = None
    <3>1. Cardinality({}) = 0 /\ max_entries \in Nat
      BY FS_EmptySet, GroupAssumption
    <3> QED BY <2>1, <3>1
  <2>2. CASE seen[v] # None
    BY <1>0, <2>2 DEF TypeInv, CacheInv
  <2> QED BY <2>1, <2>2
<1>3. LoopInv(z, s, c, q, 0)
  <2> HIDE DEF c, s, q
  <2>1. z.taken = 0 /\ z.seen = c
    OBVIOUS
  <2> HIDE DEF z
  <2> QED BY <1>2, <2>1 DEF LoopInv
<1>4. \E g : IsLoop(g, s, z, q, Len(q))
  <2> HIDE DEF c, z, s, q
  <2> QED BY <1>1, <1>3, LoopEnds
<1>5. IsLoop(f, s, z, q, Len(q))
  <2> HIDE DEF c, z, s, q
  <2> QED BY <1>4, Zenon
<1>6. LoopInv(f[Len(q)], s, c, q, Len(q))
  <2> HIDE DEF c, z, s, q, f
  <2> QED BY <1>1, <1>3, <1>5, LoopEnds
<1>7. /\ seen' = [seen EXCEPT ![v] = f[Len(q)].seen]
      /\ inbox' = [inbox EXCEPT ![v] = SubSeq(q, f[Len(q)].taken + 1, Len(q))]
      /\ displayed' = [displayed EXCEPT ![v] =
                         @ \o [k \in 1..f[Len(q)].taken |-> q[k].id]]
  BY Zenon DEF recv_group_text, IsLoop, Attempt
<1> HIDE DEF f
<1> QED BY <1>6, <1>7

\* A function on 1..n is a sequence of length n.
LEMMA FunctionIsSeq ==
    ASSUME NEW T, NEW n \in Nat, NEW f \in [1..n -> T]
    PROVE  f \in Seq(T) /\ Len(f) = n
<1>1. f \in Seq(T)
  BY SeqDef
<1>2. Len(f) = n
  BY <1>1, LenProperties
<1> QED BY <1>1, <1>2

\* What follows the first n entries of q.
After(q, n) == SubSeq(q, n + 1, Len(q))

EntriesOf(rest, q) == \A k \in 1..Len(rest) : \E i \in 1..Len(q) : rest[k] = q[i]

\* The entries of a suffix are entries of the sequence.
LEMMA SuffixEntries ==
    ASSUME NEW S, NEW q \in Seq(S), NEW n \in 0..Len(q)
    PROVE  After(q, n) \in Seq(S) /\ EntriesOf(After(q, n), q)
<1> PICK rest : rest = SubSeq(q, n + 1, Len(q))
  OBVIOUS
<1>1. rest \in Seq(S)
  <2>1. \A i \in (n + 1)..Len(q) : q[i] \in S
    BY ElementOfSeq
  <2>2. n + 1 \in Int /\ Len(q) \in Int
    OBVIOUS
  <2> QED BY <2>1, <2>2, SubSeqProperties, Zenon
<1>2. ASSUME NEW k \in 1..Len(rest) PROVE \E i \in 1..Len(q) : rest[k] = q[i]
  <2>1. Len(SubSeq(q, n + 1, Len(q))) = Len(q) - n
    OBVIOUS
  <2>2. k \in 1..(Len(q) - n)
    BY <2>1
  <2>3. k + n \in 1..Len(q)
    BY <2>2
  <2>4. SubSeq(q, n + 1, Len(q))[k] = q[k + n]
    BY <2>2
  <2> QED BY <2>3, <2>4
<1> QED BY <1>1, <1>2 DEF After, EntriesOf

\* recv_group_text keeps the invariant: a message that is taken was not displayed.
LEMMA ReceiveInv ==
    ASSUME GroupInv, NEW v \in Client, recv_group_text(v)
    PROVE  GroupInv'
<1>1. TypeInv /\ WireInv /\ ShownInv /\ CacheInv /\ DisplayedOnce
  BY DEF GroupInv
<1>2. /\ state[v] # None /\ state' = state /\ my_leaf' = my_leaf /\ updates' = updates
      /\ wire' = wire /\ changes' = changes /\ faults' = faults
  BY DEF recv_group_text
<1>3. PICK end :
        LET c == IF seen[v] = None THEN {} ELSE seen[v]
        IN  /\ LoopInv(end, state[v], c, inbox[v], Len(inbox[v]))
            /\ seen' = [seen EXCEPT ![v] = end.seen]
            /\ inbox' = [inbox EXCEPT ![v] =
                           SubSeq(inbox[v], end.taken + 1, Len(inbox[v]))]
            /\ displayed' = [displayed EXCEPT ![v] =
                               @ \o [k \in 1..end.taken |-> inbox[v][k].id]]
  BY ReceiveUnfolded
<1> PICK c : c = IF seen[v] = None THEN {} ELSE seen[v]
  OBVIOUS
<1> PICK q : q = inbox[v]
  OBVIOUS
<1> PICK s : s = state[v]
  OBVIOUS
<1> PICK n : n = end.taken
  OBVIOUS
<1> PICK cache : cache = end.seen
  OBVIOUS
<1> PICK ids : ids = [k \in 1..n |-> q[k].id]
  OBVIOUS
<1> PICK rest : rest = SubSeq(q, n + 1, Len(q))
  OBVIOUS
<1> PICK shown : shown = displayed[v] \o ids
  OBVIOUS
<1>4. /\ n \in 0..Len(q) /\ c \subseteq cache /\ cache \subseteq Leaf \X {0}
      /\ Cardinality(cache) <= max_entries
      /\ \A j \in 1..n : q[j].epoch = s.epoch /\ Pair(q[j]) \in cache /\ Pair(q[j]) \notin c
      /\ \A i, j \in 1..n : Pair(q[i]) = Pair(q[j]) => i = j
  BY <1>3 DEF LoopInv
<1>5. /\ q \in Seq(GroupMessage) /\ Len(q) \in Nat /\ n \in Nat
      /\ Len(wire) \in Nat /\ Len(wire) <= MaxSent /\ MaxSent \in Nat
      /\ wire \in Seq(GroupMessage)
      /\ displayed[v] \in Seq(1..MaxSent) /\ Len(displayed[v]) \in Nat
  <2>1. q \in Seq(GroupMessage) /\ wire \in Seq(GroupMessage) /\ displayed[v] \in Seq(1..MaxSent)
    BY <1>1 DEF TypeInv
  <2>2. Len(q) \in Nat /\ Len(wire) \in Nat /\ Len(displayed[v]) \in Nat
    BY <2>1, LenProperties
  <2>3. Len(wire) <= MaxSent /\ MaxSent \in Nat
    BY <1>1, GroupAssumption DEF TypeInv
  <2>4. n \in Nat
    BY <1>4, <2>2
  <2> QED BY <2>1, <2>2, <2>3, <2>4
<1>6. seen' = [seen EXCEPT ![v] = cache] /\ inbox' = [inbox EXCEPT ![v] = rest]
      /\ displayed' = [displayed EXCEPT ![v] = shown]
  BY <1>3
<1>7. /\ seen'[v] = cache /\ inbox'[v] = rest /\ displayed'[v] = shown
      /\ \A u \in Client : u # v => /\ seen'[u] = seen[u] /\ inbox'[u] = inbox[u]
                                    /\ displayed'[u] = displayed[u]
  BY <1>1, <1>6 DEF TypeInv
<1>8. \A j \in 1..n : /\ q[j].id \in 1..Len(wire) /\ q[j].id \in 1..MaxSent
                      /\ Header(q[j]) = Header(wire[q[j].id])
  <2> TAKE j \in 1..n
  <2>1. j \in 1..Len(q)
    BY <1>4, <1>5
  <2>2. q[j].id \in 1..Len(wire) /\ Header(q[j]) = Header(wire[q[j].id])
    BY <1>1, <2>1 DEF WireInv
  <2> QED BY <1>5, <2>2
<1>9. ids \in Seq(1..MaxSent) /\ Len(ids) = n /\ \A j \in 1..n : ids[j] = q[j].id
  <2>1. \A j \in 1..n : ids[j] \in 1..MaxSent
    BY <1>8
  <2>2. ids \in [1..n -> 1..MaxSent]
    BY <2>1
  <2>3. ids \in Seq(1..MaxSent) /\ Len(ids) = n
    BY <1>5, <2>2, FunctionIsSeq
  <2> QED BY <2>3
<1>10. /\ shown \in Seq(1..MaxSent) /\ Len(shown) = Len(displayed[v]) + n
       /\ \A i \in 1..Len(shown) :
             \/ i \in 1..Len(displayed[v]) /\ shown[i] = displayed[v][i]
             \/ i - Len(displayed[v]) \in 1..n /\ shown[i] = q[i - Len(displayed[v])].id
  <2>1. /\ shown \in Seq(1..MaxSent) /\ Len(shown) = Len(displayed[v]) + Len(ids)
        /\ \A i \in 1..Len(shown) : shown[i] = IF i <= Len(displayed[v]) THEN displayed[v][i]
                                               ELSE ids[i - Len(displayed[v])]
    BY <1>5, <1>9, ConcatProperties
  <2>2. ASSUME NEW i \in 1..Len(shown)
        PROVE  \/ i \in 1..Len(displayed[v]) /\ shown[i] = displayed[v][i]
               \/ i - Len(displayed[v]) \in 1..n /\ shown[i] = q[i - Len(displayed[v])].id
    <3>1. CASE i <= Len(displayed[v])
      BY <1>5, <2>1, <3>1
    <3>2. CASE ~(i <= Len(displayed[v]))
      <4>1. i - Len(displayed[v]) \in 1..n
        BY <1>5, <1>9, <2>1, <3>2, SMTT(30)
      <4> QED BY <1>9, <2>1, <3>2, <4>1
    <3> QED BY <3>1, <3>2
  <2> QED BY <1>9, <2>1, <2>2
<1>11. /\ rest \in Seq(GroupMessage)
       /\ \A k \in 1..Len(rest) : \E i \in 1..Len(q) : rest[k] = q[i]
  <2>1. q \in Seq(GroupMessage) /\ n \in 0..Len(q)
    BY <1>4, <1>5
  <2>2. After(q, n) \in Seq(GroupMessage) /\ EntriesOf(After(q, n), q)
    BY <2>1, SuffixEntries
  <2> QED BY <2>2 DEF After, EntriesOf
<1>12. TypeInv'
  BY <1>1, <1>2, <1>4, <1>6, <1>10, <1>11 DEF TypeInv
<1>13. WireInv'
  <2>1. \A w \in Client : \A k \in 1..Len(inbox'[w]) :
          /\ inbox'[w][k].id \in 1..Len(wire)
          /\ Header(inbox'[w][k]) = Header(wire[inbox'[w][k].id])
    <3> TAKE w \in Client
    <3>1. CASE w # v
      BY <1>1, <1>7, <3>1 DEF WireInv
    <3>2. CASE w = v
      <4> TAKE k \in 1..Len(inbox'[w])
      <4>1. PICK i \in 1..Len(inbox[v]) : inbox'[w][k] = inbox[v][i]
        BY <1>7, <1>11, <3>2
      <4> QED BY <1>1, <4>1 DEF WireInv
    <3> QED BY <3>1, <3>2
  <2> QED BY <1>1, <1>2, <2>1 DEF WireInv
<1>14. cache # None
  <2>1. cache \in SUBSET ((0..CAPACITY) \X {0})
    BY <1>4, NodeNumbers
  <2> QED BY <2>1, GroupAssumption
<1>15. \A j \in 1..n : Remembered(wire[q[j].id], s, cache)
  <2> TAKE j \in 1..n
  <2>1. wire[q[j].id].epoch = s.epoch /\ Pair(wire[q[j].id]) \in cache
    BY <1>4, <1>8, ZenonT(40) DEF Header, Pair
  <2> QED BY <1>14, <2>1 DEF Remembered, Pair
<1>16. \A j \in 1..Len(displayed[v]) :
         /\ displayed[v][j] \in 1..Len(wire) /\ Remembered(wire[displayed[v][j]], s, cache)
         /\ wire[displayed[v][j]].epoch < s.epoch \/ Pair(wire[displayed[v][j]]) \in c
  <2> TAKE j \in 1..Len(displayed[v])
  <2>1. displayed[v][j] \in 1..Len(wire) /\ Remembered(wire[displayed[v][j]], s, seen[v])
    BY <1>1 DEF ShownInv
  <2> QED BY <1>4, <1>14, <2>1 DEF Remembered, Pair
<1>17. ShownInv'
  <2>1. \A w \in Client : \A j \in 1..Len(displayed'[w]) :
          /\ displayed'[w][j] \in 1..Len(wire) /\ state[w] # None
          /\ Remembered(wire[displayed'[w][j]], state[w], seen'[w])
    <3> TAKE w \in Client
    <3>1. CASE w # v
      BY <1>1, <1>7, <3>1 DEF ShownInv
    <3>2. CASE w = v
      <4> TAKE j \in 1..Len(displayed'[w])
      <4>0. j \in 1..Len(shown) /\ displayed'[w][j] = shown[j] /\ seen'[w] = cache /\ state[w] = s
        BY <1>7, <3>2
      <4>1. shown[j] \in 1..Len(wire) /\ Remembered(wire[shown[j]], s, cache)
        BY <1>8, <1>10, <1>15, <1>16, <4>0
      <4> QED BY <1>2, <4>0, <4>1
    <3> QED BY <3>1, <3>2
  <2> QED BY <1>2, <2>1 DEF ShownInv
<1>18. CacheInv'
  BY <1>1, <1>4, <1>7 DEF CacheInv
<1>19. \A i \in 1..Len(displayed[v]), j \in 1..n : displayed[v][i] # q[j].id
  <2> SUFFICES ASSUME NEW i \in 1..Len(displayed[v]), NEW j \in 1..n, displayed[v][i] = q[j].id
               PROVE  FALSE
    OBVIOUS
  <2>1. Header(q[j]) = Header(wire[displayed[v][i]])
    BY <1>8
  <2>2. q[j].epoch = wire[displayed[v][i]].epoch /\ Pair(q[j]) = Pair(wire[displayed[v][i]])
    BY <2>1 DEF Header, Pair
  <2>3. s.epoch \in Nat
    BY <1>1, <1>2 DEF TypeInv, GroupStates
  <2>4. ~(wire[displayed[v][i]].epoch < s.epoch)
    BY <1>4, <2>2, <2>3
  <2>5. Pair(wire[displayed[v][i]]) \in c
    BY <1>16, <2>4
  <2> QED BY <1>4, <2>2, <2>5
<1>20. \A i, j \in 1..n : q[i].id = q[j].id => i = j
  <2> TAKE i, j \in 1..n
  <2> HAVE q[i].id = q[j].id
  <2>1. Header(q[i]) = Header(q[j])
    BY <1>8
  <2>2. Pair(q[i]) = Pair(q[j])
    BY <2>1 DEF Header, Pair
  <2> QED BY <1>4, <2>2
<1>21. DisplayedOnce'
  <2>1. \A j, k \in 1..Len(shown) : shown[j] = shown[k] => j = k
    <3> TAKE j, k \in 1..Len(shown)
    <3> HAVE shown[j] = shown[k]
    <3> PICK d : d = Len(displayed[v])
      OBVIOUS
    <3>1. CASE j \in 1..d /\ k \in 1..d /\ shown[j] = displayed[v][j] /\ shown[k] = displayed[v][k]
      BY <1>1, <3>1 DEF DisplayedOnce
    <3>2. CASE /\ j - d \in 1..n /\ k - d \in 1..n
               /\ shown[j] = q[j - d].id /\ shown[k] = q[k - d].id
      <4>1. j - d = k - d
        BY <1>20, <3>2
      <4>2. j \in Int /\ k \in Int /\ d \in Int
        BY <1>5, <1>10
      <4> QED BY <4>1, <4>2
    <3>3. CASE j \in 1..d /\ shown[j] = displayed[v][j] /\ k - d \in 1..n /\ shown[k] = q[k - d].id
      BY <1>19, <3>3
    <3>4. CASE k \in 1..d /\ shown[k] = displayed[v][k] /\ j - d \in 1..n /\ shown[j] = q[j - d].id
      BY <1>19, <3>4
    <3>5. /\ \/ j \in 1..d /\ shown[j] = displayed[v][j]
             \/ j - d \in 1..n /\ shown[j] = q[j - d].id
          /\ \/ k \in 1..d /\ shown[k] = displayed[v][k]
             \/ k - d \in 1..n /\ shown[k] = q[k - d].id
      BY <1>10
    <3> QED BY <3>1, <3>2, <3>3, <3>4, <3>5, Zenon
  <2>2. \A u \in Client : \A j, k \in 1..Len(displayed'[u]) :
          displayed'[u][j] = displayed'[u][k] => j = k
    <3> TAKE u \in Client
    <3>1. CASE u = v
      <4>1. displayed'[u] = shown
        BY <1>7, <3>1
      <4> QED BY <2>1, <4>1, Zenon
    <3>2. CASE u # v
      BY <1>1, <1>7, <3>2, ZenonT(40) DEF DisplayedOnce
    <3> QED BY <3>1, <3>2
  <2> QED BY <2>2 DEF DisplayedOnce
<1> QED BY <1>2, <1>12, <1>13, <1>17, <1>18, <1>21, MembershipKept DEF GroupInv

-----------------------------------------------------------------------------
(* The invariant. *)

\* create_group starts with it.
LEMMA GroupInit ==
    ASSUME Init
    PROVE  GroupInv
<1> PICK secrets : secrets = [i \in 1..Len(InitialMembers) |-> <<"random", 0, i>>]
  OBVIOUS
<1> PICK s : s = create(InitialMembers, secrets)
  OBVIOUS
<1> PICK members : members = {InitialMembers[i] : i \in 1..Len(InitialMembers)}
  OBVIOUS
<1>1. GoodState(s) /\ s.epoch = 1 /\ \A u \in Client : s.members[u] # None <=> u \in members
  BY CreateGood
<1>2. /\ state = [u \in Client |-> IF u \in members THEN s ELSE None] /\ my_leaf = s.members
      /\ seen = [u \in Client |-> None] /\ updates = [u \in Client |-> << >>]
      /\ inbox = [u \in Client |-> << >>] /\ wire = << >>
      /\ displayed = [u \in Client |-> << >>] /\ changes = 0 /\ faults = 0
  BY DEF Init
<1>3. s \in GroupStates /\ s # None /\ s.members \in [Client -> Leaf \cup {None}]
  <2>1. s \in GroupStates
    BY <1>1 DEF GoodState
  <2> QED BY <2>1, CreatorIsClient DEF GroupStates, Leaf
<1>4. Creator \in Client /\ Creator \in members
  <2>1. 1 \in 1..Len(InitialMembers) /\ InitialMembers[1] = Creator
    BY GroupAssumption, NodeNumbers
  <2> QED BY <2>1, CreatorIsClient
<1>5. Len(<< >>) = 0 /\ ~ \E k \in 1..0 : TRUE
  OBVIOUS
<1>6. \A u \in Client : /\ Len(updates[u]) = 0 /\ Len(inbox[u]) = 0 /\ Len(displayed[u]) = 0
                        /\ updates[u] = << >> /\ seen[u] = None
  BY <1>2
<1>7. TypeInv
  <2>1. 0 \in 0..MaxChanges /\ 0 \in 0..MaxFaults /\ 0 <= MaxSent
    BY GroupAssumption
  <2>2. /\ << >> \in Seq(GroupStates) /\ << >> \in Seq(GroupMessage)
        /\ << >> \in Seq(1..MaxSent)
    OBVIOUS
  <2>3. state \in [Client -> GroupStates \cup {None}] /\ my_leaf \in [Client -> Leaf \cup {None}]
    BY <1>2, <1>3
  <2>4. seen \in [Client -> {None} \cup SUBSET (Leaf \X {0})]
    BY <1>2
  <2>5. /\ updates \in [Client -> Seq(GroupStates)] /\ inbox \in [Client -> Seq(GroupMessage)]
        /\ displayed \in [Client -> Seq(1..MaxSent)]
    BY <1>2, <2>2
  <2>6. wire \in Seq(GroupMessage) /\ Len(wire) <= MaxSent
    BY <1>2, <1>5, <2>1, <2>2
  <2> QED BY <1>2, <2>1, <2>3, <2>4, <2>5, <2>6 DEF TypeInv
<1>8. StatesInv
  <2>1. state[Creator] = s
    BY <1>2, <1>4
  <2>2. \A u \in Client : state[u] # None => state[u] = s /\ my_leaf[u] # None
    BY <1>1, <1>2
  <2>3. state[Creator] # None /\ state[Creator].epoch = changes + 1
    BY <1>1, <1>2, <1>3, <2>1
  <2>4. \A u \in Client : state[u] # None => GoodState(state[u]) /\ my_leaf[u] # None
    BY <1>1, <2>2
  <2>5. \A v \in Client : \A k \in 1..Len(updates[v]) :
          GoodState(updates[v][k]) /\ updates[v][k].members[v] # None
    BY <1>5, <1>6
  <2> QED BY <2>3, <2>4, <2>5 DEF StatesInv
<1>9. PoolInv
  <2>1. \A t \in Pool : t = s
    <3> TAKE t \in Pool
    <3>1. t \in GroupStates /\ \E u \in Client : state[u] = t
      BY <1>5, <1>6 DEF Pool
    <3> QED BY <1>2, <3>1, CreatorIsClient
  <2>2. state[Creator] = s
    BY <1>2, <1>4
  <2> QED BY <1>1, <2>1, <2>2 DEF PoolInv
<1>10. OrderInv
  BY <1>4, <1>5, <1>6 DEF OrderInv
<1>11. WireInv
  BY <1>2, <1>5, <1>6 DEF WireInv
<1>12. ShownInv /\ CacheInv /\ DisplayedOnce
  BY <1>5, <1>6 DEF ShownInv, CacheInv, DisplayedOnce
<1> QED BY <1>7, <1>8, <1>9, <1>10, <1>11, <1>12 DEF GroupInv

\* A step that changes nothing.
LEMMA GroupStutter ==
    ASSUME GroupInv, UNCHANGED vars
    PROVE  GroupInv'
<1>1. /\ state' = state /\ my_leaf' = my_leaf /\ seen' = seen /\ updates' = updates
      /\ inbox' = inbox /\ wire' = wire /\ displayed' = displayed
      /\ changes' = changes /\ faults' = faults
  BY DEF vars
<1>2. TypeInv' /\ WireInv' /\ ShownInv' /\ CacheInv' /\ DisplayedOnce'
  BY <1>1 DEF GroupInv, TypeInv, WireInv, ShownInv, CacheInv, DisplayedOnce
<1> QED BY <1>1, <1>2, MembershipKept DEF GroupInv

\* Every step of the group keeps it.
LEMMA GroupNext ==
    ASSUME SmallGroup, GroupInv, [Next]_vars
    PROVE  GroupInv'
<1>1. CASE Next
  <2> PICK u \in Client :
        \/ add_group_member(u) \/ remove_group_member(u) \/ Install(u)
        \/ send_group_text(u) \/ recv_group_text(u)
        \/ \E i \in 1..Len(wire) : Redeliver(u, i)
        \/ \E k \in 1..Len(inbox[u]) : Damage(u, k)
    BY <1>1 DEF Next
  <2>1. CASE add_group_member(u) \/ remove_group_member(u)
    BY <2>1, MembershipInv
  <2>2. CASE Install(u)
    BY <2>2, InstallInv
  <2>3. CASE send_group_text(u)
    BY <2>3, SendInv
  <2>4. CASE recv_group_text(u)
    BY <2>4, ReceiveInv
  <2>5. CASE \/ \E i \in 1..Len(wire) : Redeliver(u, i)
             \/ \E k \in 1..Len(inbox[u]) : Damage(u, k)
    BY <2>5, FaultInv
  <2> QED BY <2>1, <2>2, <2>3, <2>4, <2>5
<1>2. CASE UNCHANGED vars
  BY <1>2, GroupStutter
<1> QED BY <1>1, <1>2

\* The invariant holds throughout, in groups of up to four clients.
THEOREM SpecGroup ==
    ASSUME SmallGroup
    PROVE  Spec => []GroupInv
<1>1. Init => GroupInv
  BY GroupInit
<1>2. GroupInv /\ [Next]_vars => GroupInv'
  BY GroupNext
<1> QED BY <1>1, <1>2, PTL DEF Spec

-----------------------------------------------------------------------------
(* Its consequences. *)

\* A state that is held is one of the pool.
LEMMA HeldStates ==
    ASSUME GroupInv, NEW u \in Client, state[u] # None
    PROVE  state[u] \in Pool /\ GoodState(state[u]) /\ state[u] \in GroupStates
<1>1. state[u] \in GroupStates
  BY DEF GroupInv, TypeInv
<1> QED BY <1>1 DEF Pool, GroupInv, StatesInv

\* Type correctness, the bound of the replay cache included.
LEMMA GroupTypes ==
    ASSUME GroupInv
    PROVE  TypeOK
<1>0. TypeInv
  BY DEF GroupInv
<1>1. MaxChanges \in Nat /\ changes \in Nat /\ changes <= MaxChanges /\ MaxSent \in Nat
  BY <1>0, GroupAssumption DEF TypeInv
<1>2. \A x \in Leaf \cup {None} : x \in 0..CAPACITY \cup {None}
  BY NodeNumbers
<1>3. ASSUME NEW u \in Client, state[u] # None
      PROVE  /\ state[u].epoch \in INITIAL_EPOCH..(INITIAL_EPOCH + MaxChanges)
             /\ state[u].members \in [Client -> 0..CAPACITY \cup {None}]
             /\ DOMAIN state[u].nodes = Node
  <2>1. state[u] \in Pool /\ GoodState(state[u]) /\ state[u] \in GroupStates
    BY <1>3, HeldStates
  <2>2. state[u].epoch <= state[Creator].epoch /\ state[Creator].epoch = changes + 1
    BY <2>1 DEF GroupInv, PoolInv, StatesInv
  <2>3. state[u].epoch \in Nat /\ state[u].epoch >= 1
    BY <2>1 DEF GoodState, GroupStates
  <2>4. state[u].epoch \in INITIAL_EPOCH..(INITIAL_EPOCH + MaxChanges)
    BY <1>1, <2>2, <2>3 DEF INITIAL_EPOCH
  <2>5. state[u].members \in [Client -> Leaf \cup {None}]
    BY <2>1 DEF GroupStates, Leaf
  <2>6. DOMAIN state[u].nodes = Node
    BY <2>1 DEF GroupStates
  <2> QED BY <1>2, <2>4, <2>5, <2>6
<1>4. my_leaf \in [Client -> 0..CAPACITY \cup {None}]
  BY <1>0, <1>2 DEF TypeInv
<1>5. \A u \in Client : seen[u] # None =>
        /\ seen[u] \subseteq (0..CAPACITY) \X Nat
        /\ Cardinality(seen[u]) <= max_entries
  <2> TAKE u \in Client
  <2> HAVE seen[u] # None
  <2>1. seen[u] \subseteq Leaf \X {0}
    BY <1>0 DEF TypeInv
  <2>2. Leaf \X {0} \subseteq (0..CAPACITY) \X Nat
    BY NodeNumbers
  <2> QED BY <2>1, <2>2 DEF GroupInv, CacheInv
<1>6. ASSUME NEW m \in GroupMessage, m.id \in 1..MaxSent PROVE Header(m) \in Message
  <2>1. m.epoch \in Nat /\ m.leaf \in 0..CAPACITY /\ m.counter \in Nat
    BY NodeNumbers DEF GroupMessage
  <2> QED BY <1>6, <2>1 DEF Header, Message
<1>7. Len(wire) \in Nat /\ Len(wire) <= MaxSent
  BY <1>0 DEF TypeInv
<1>8. \A k \in 1..Len(wire) : Header(wire[k]) \in Message
  <2> TAKE k \in 1..Len(wire)
  <2>1. wire[k] \in GroupMessage
    BY <1>0, ElementOfSeq DEF TypeInv
  <2>2. wire[k].id \in 1..MaxSent
    BY <1>1, <1>7 DEF GroupInv, WireInv
  <2> QED BY <1>6, <2>1, <2>2
<1>9. \A u \in Client : \A k \in 1..Len(inbox[u]) : Header(inbox[u][k]) \in Message
  <2> TAKE u \in Client
  <2> TAKE k \in 1..Len(inbox[u])
  <2>1. inbox[u][k] \in GroupMessage
    BY <1>0, ElementOfSeq DEF TypeInv
  <2>2. inbox[u][k].id \in 1..Len(wire)
    BY DEF GroupInv, WireInv
  <2>3. inbox[u][k].id \in 1..MaxSent
    BY <1>1, <1>7, <2>2
  <2> QED BY <1>6, <2>1, <2>3
<1>10. displayed \in [Client -> Seq(1..MaxSent)] /\ changes \in 0..MaxChanges /\ faults \in 0..MaxFaults
  BY <1>0 DEF TypeInv
<1> QED BY <1>3, <1>4, <1>5, <1>8, <1>9, <1>10 DEF TypeOK

\* The variables of a group keep their types, and replay caches their bound.
THEOREM GroupTypeCorrect ==
    ASSUME SmallGroup
    PROVE  Spec => []TypeOK
<1>1. GroupInv => TypeOK
  BY GroupTypes
<1> QED BY <1>1, SpecGroup, PTL

\* No member is shown a group message twice, however often it is delivered and
\* although Install drops the replay cache.
THEOREM GroupDisplayedOnce ==
    ASSUME SmallGroup
    PROVE  Spec => []DisplayedOnce
<1>1. GroupInv => DisplayedOnce
  BY DEF GroupInv
<1> QED BY <1>1, SpecGroup, PTL

\* The nodes of a full tree follow from its leaves.
LEMMA FullTreeFollows ==
    ASSUME NEW s, GoodState(s)
    PROVE  RootFollowsLeaves(s) /\ HashMatches(s)
<1>1. HashMatches(s)
  BY DEF GoodState, HashMatches
<1>2. ASSUME NEW i \in 0..2
      PROVE  s.nodes[i] = derive_internal_node_secret(s.nodes[2 * i + 1], s.nodes[2 * i + 2], i)
  <2>1. \/ i = 0 /\ 2 * i + 1 = 1 /\ 2 * i + 2 = 2
        \/ i = 1 /\ 2 * i + 1 = 3 /\ 2 * i + 2 = 4
        \/ i = 2 /\ 2 * i + 1 = 5 /\ 2 * i + 2 = 6
    OBVIOUS
  <2>2. FullTree(s.nodes)
    BY DEF GoodState
  <2> QED BY <2>1, <2>2 DEF FullTree
<1>3. 0..(leaf_offset - 1) = 0..2
  BY NodeNumbers
<1> QED BY <1>1, <1>2, <1>3 DEF RootFollowsLeaves

\* After any joins and removals the tree of every member is consistent and its
\* group hash commits to it.
THEOREM TreesConsistent ==
    ASSUME SmallGroup
    PROVE  Spec => []TreeConsistent
<1>1. GroupInv => TreeConsistent
  <2> SUFFICES ASSUME GroupInv, NEW s \in States PROVE RootFollowsLeaves(s) /\ HashMatches(s)
    BY DEF TreeConsistent
  <2>1. PICK u \in Client : s = state[u] /\ state[u] # None
    BY DEF States
  <2> QED BY <2>1, HeldStates, FullTreeFollows
<1> QED BY <1>1, SpecGroup, PTL

\* The members of one epoch, and no others, have one key and one summary.
THEOREM EpochDeterminesKey ==
    ASSUME SmallGroup
    PROVE  Spec => []SameEpochSameKey
<1>1. GroupInv => SameEpochSameKey
  <2> SUFFICES ASSUME GroupInv, NEW s \in States, NEW t \in States
               PROVE  /\ verify_consistency(s, {summarize_state(t)}, None) <=> s.epoch = t.epoch
                      /\ s.application_key = t.application_key <=> s.epoch = t.epoch
    BY DEF SameEpochSameKey
  <2>1. /\ s \in Pool /\ GoodState(s) /\ t \in Pool /\ GoodState(t)
    BY HeldStates DEF States
  <2>2. s.epoch = t.epoch => s = t
    BY <2>1 DEF GroupInv, PoolInv
  <2>3. verify_consistency(s, {summarize_state(t)}, None) <=> summarize_state(t) = summarize_state(s)
    BY DEF verify_consistency
  <2>4. summarize_state(t) = summarize_state(s) => s.epoch = t.epoch
    BY DEF summarize_state
  <2>5. s.application_key = t.application_key => s.epoch = t.epoch
    BY <2>1 DEF GoodState, derive_application_key, derive_epoch_secret
  <2> QED BY <2>2, <2>3, <2>4, <2>5
<1> QED BY <1>1, SpecGroup, PTL

-----------------------------------------------------------------------------
(* Removed members. *)

\* What a node of a full tree is.
LEMMA NodeShape ==
    ASSUME NEW t, FullTree(t.nodes), NEW j \in Node
    PROVE  \/ j \in LeafNode /\ t.nodes[j] \in LeafSecret
           \/ \E a, b \in Node : t.nodes[j] = <<"node", t.nodes[a], t.nodes[b], j>>
<1>1. CASE j \in LeafNode
  BY <1>1 DEF FullTree
<1>2. CASE j = 0
  <2>1. 1 \in Node /\ 2 \in Node /\ t.nodes[j] = <<"node", t.nodes[1], t.nodes[2], j>>
    BY <1>2, NodeNumbers DEF FullTree, derive_internal_node_secret
  <2> QED BY <2>1
<1>3. CASE j = 1
  <2>1. 3 \in Node /\ 4 \in Node /\ t.nodes[j] = <<"node", t.nodes[3], t.nodes[4], j>>
    BY <1>3, NodeNumbers DEF FullTree, derive_internal_node_secret
  <2> QED BY <2>1
<1>4. CASE j = 2
  <2>1. 5 \in Node /\ 6 \in Node /\ t.nodes[j] = <<"node", t.nodes[5], t.nodes[6], j>>
    BY <1>4, NodeNumbers DEF FullTree, derive_internal_node_secret
  <2> QED BY <2>1
<1>5. j \in LeafNode \/ j = 0 \/ j = 1 \/ j = 2
  BY NodeNumbers
<1> QED BY <1>1, <1>2, <1>3, <1>4, <1>5

\* A tree without a secret has nothing that is derived from it.
LEMMA NotAbove ==
    ASSUME NEW t, FullTree(t.nodes), NEW s, NEW p, NEW a, NEW b,
           s.nodes[p] = derive_internal_node_secret(s.nodes[a], s.nodes[b], p),
           ~ InTree(t, s, a) \/ ~ InTree(t, s, b)
    PROVE  ~ InTree(t, s, p)
<1> SUFFICES ASSUME NEW j \in Node, t.nodes[j] = s.nodes[p] PROVE FALSE
  BY DEF InTree
<1>1. t.nodes[j] = <<"node", s.nodes[a], s.nodes[b], p>>
  BY DEF derive_internal_node_secret
<1>2. CASE t.nodes[j] \in LeafSecret
  <2>1. t.nodes[j][1] = "leaf" /\ t.nodes[j][1] = "node"
    BY <1>1, <1>2 DEF LeafSecret
  <2> QED BY <2>1
<1>3. CASE \E c, d \in Node : t.nodes[j] = <<"node", t.nodes[c], t.nodes[d], j>>
  <2> PICK c \in Node, d \in Node : t.nodes[j] = <<"node", t.nodes[c], t.nodes[d], j>>
    BY <1>3
  <2>1. t.nodes[c] = s.nodes[a] /\ t.nodes[d] = s.nodes[b]
    BY <1>1
  <2> QED BY <2>1 DEF InTree
<1> QED BY <1>2, <1>3, NodeShape

\* The new leaf of a later state is not in an earlier tree.
LEMMA NewLeafUnknown ==
    ASSUME NEW t, GoodState(t), NEW s, GoodState(s), t.epoch < s.epoch
    PROVE  \E l \in LeafNode : ~ InTree(t, s, l)
<1> PICK n : n = s.epoch - 1
  OBVIOUS
<1>1. t.epoch \in Nat /\ t.epoch >= 1 /\ s.epoch \in Nat /\ s.epoch > 1 /\ t.epoch <= n /\ n \in Nat
  BY DEF GoodState, GroupStates
<1>2. PICK l \in LeafNode : NewLeaf(s.nodes, l, n)
  BY <1>1 DEF GoodState
<1>3. FullTree(t.nodes)
  BY DEF GoodState
<1>4. s.nodes[l] = <<"leaf", <<"random", n, 0>>, l - leaf_offset>>
  BY <1>2 DEF NewLeaf, derive_leaf_node_secret
<1>5. ASSUME NEW j \in Node, t.nodes[j] = s.nodes[l] PROVE FALSE
  <2>1. CASE j \in LeafNode
    <3>1. OlderLeaf(t.nodes[j], t.epoch)
      BY <2>1 DEF GoodState
    <3>2. t.nodes[j][2] = <<"random", n, 0>>
      BY <1>4, <1>5
    <3>3. n < t.epoch
      BY <3>1, <3>2 DEF OlderLeaf
    <3> QED BY <1>1, <3>3
  <2>2. CASE \E a, b \in Node : t.nodes[j] = <<"node", t.nodes[a], t.nodes[b], j>>
    <3> PICK a \in Node, b \in Node : t.nodes[j] = <<"node", t.nodes[a], t.nodes[b], j>>
      BY <2>2
    <3>1. t.nodes[j][1] = "node" /\ t.nodes[j][1] = "leaf"
      BY <1>4, <1>5
    <3> QED BY <3>1
  <2> QED BY <1>3, <2>1, <2>2, NodeShape
<1>6. ~ InTree(t, s, l)
  BY <1>5 DEF InTree
<1> QED BY <1>2, <1>6

\* The root secret of a later state cannot be computed from an earlier tree.
LEMMA LaterNotDerived ==
    ASSUME NEW t, GoodState(t), NEW s, GoodState(s), t.epoch < s.epoch
    PROVE  ~ Derives(t, s)
<1>1. FullTree(t.nodes) /\ FullTree(s.nodes)
  BY DEF GoodState
<1>2. PICK l \in LeafNode : ~ InTree(t, s, l)
  BY NewLeafUnknown
<1>3. l = 3 \/ l = 4 \/ l = 5 \/ l = 6
  BY NodeNumbers
<1>4. /\ 2 * 1 + 1 = 3 /\ 2 * 1 + 2 = 4 /\ 2 * 2 + 1 = 5 /\ 2 * 2 + 2 = 6
  OBVIOUS
<1>5. /\ s.nodes[1] = derive_internal_node_secret(s.nodes[3], s.nodes[4], 1)
      /\ s.nodes[2] = derive_internal_node_secret(s.nodes[5], s.nodes[6], 2)
      /\ s.nodes[0] = derive_internal_node_secret(s.nodes[1], s.nodes[2], 0)
  BY <1>1 DEF FullTree
<1>6. CASE l = 3 \/ l = 4
  <2>1. ~ InTree(t, s, 3) \/ ~ InTree(t, s, 4)
    BY <1>2, <1>6
  <2>2. ~ InTree(t, s, 1)
    BY <1>1, <1>5, <2>1, NotAbove
  <2>3. ~ InTree(t, s, 0)
    BY <1>1, <1>5, <2>2, NotAbove
  <2> QED BY <1>4, <2>1, <2>2, <2>3 DEF Derives
<1>7. CASE l = 5 \/ l = 6
  <2>1. ~ InTree(t, s, 5) \/ ~ InTree(t, s, 6)
    BY <1>2, <1>7
  <2>2. ~ InTree(t, s, 2)
    BY <1>1, <1>5, <2>1, NotAbove
  <2>3. ~ InTree(t, s, 0)
    BY <1>1, <1>5, <2>2, NotAbove
  <2> QED BY <1>4, <2>1, <2>2, <2>3 DEF Derives
<1> QED BY <1>3, <1>6, <1>7

\* A removed member cannot compute a later root secret from the tree it has.
THEOREM RemovedMembersCannotDerive ==
    ASSUME SmallGroup
    PROVE  Spec => []RemovedCannotDerive
<1>1. GroupInv => RemovedCannotDerive
  <2> SUFFICES ASSUME GroupInv, NEW v \in Client, NEW s \in States,
                      state[v] # None, s.epoch > state[v].epoch
               PROVE  ~ Derives(state[v], s)
    BY DEF RemovedCannotDerive
  <2>1. GoodState(s) /\ GoodState(state[v]) /\ state[v] \in GroupStates /\ s \in GroupStates
    BY HeldStates DEF States
  <2>2. state[v].epoch < s.epoch
    BY <2>1 DEF GroupStates
  <2> QED BY <2>1, <2>2, LaterNotDerived
<1> QED BY <1>1, SpecGroup, PTL
==============================================================================
