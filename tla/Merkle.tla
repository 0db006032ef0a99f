------------------------------- MODULE Merkle -------------------------------
(***************************************************************************)
(* The Merkle tree of the runtime (runtime/crypto/merkle.c): a search tree *)
(* from backing pages to hashes, whose root is in the enclave and whose    *)
(* nodes, with the lists of free ones, are in pages of the backing store.  *)
(* Module Paging uses the map it stands for.                               *)
(*                                                                         *)
(* A hash is the term it is computed from, so that equal hashes have equal *)
(* origins.                                                                *)
(***************************************************************************)
EXTENDS Integers, Sequences, SequencesExt, FiniteSets, FiniteSetsExt

CONSTANTS
    Keys,               \* addresses of backing pages
    Hashes,             \* hashes of pages
    MERK_MAX_DEPTH,     \* nodes on the longest path, the root included
    NODES_PER_PAGE,     \* MERK_NODES_PER_PAGE
    MaxPages            \* backing pages there are for nodes (a bound)

NULL == -1
Root == 0
Pages == 1 .. MaxPages
Slots == 1 .. NODES_PER_PAGE - 1
NodeIds == {p * NODES_PER_PAGE + s : p \in Pages, s \in Slots}
PageOf(n) == n \div NODES_PER_PAGE
NoHash == <<>>

ASSUME MerkleAssumption ==
    Keys \subseteq Nat \ {0} /\ MERK_MAX_DEPTH > 1 /\ NODES_PER_PAGE > 2

VARIABLES
    nodes,      \* nodes[n]: key, hash and children of a node, the root included
    pool,       \* per page the free slots, the list merk_free_list, the pages taken so far
    map         \* what was inserted last for each key

vars == <<nodes, pool, map>>

\* A node that is free, whose old contents are never read.
Empty == [ptr |-> 0, hash |-> NoHash, left |-> NULL, right |-> NULL]
Leaf(key, hash) == [ptr |-> key, hash |-> hash, left |-> NULL, right |-> NULL]
IsLeaf(node) == node.left = NULL /\ node.right = NULL

Init ==
    /\ nodes = [n \in NodeIds \cup {Root} |-> Empty]
    /\ pool = [free |-> [p \in Pages |-> {}], list |-> <<>>, taken |-> 0]
    /\ map = [k \in Keys |-> NoHash]

(***************************************************************************)
(* The pages of nodes.                                                     *)
(***************************************************************************)
merk_alloc_page(po) ==
    [po EXCEPT !.taken = @ + 1, !.list = <<po.taken + 1>>,
               !.free = [@ EXCEPT ![po.taken + 1] = Slots]]

\* Full pages at the head leave the list; a new page is taken if it is empty.
WithFree(po) ==
    LET kept == SelectInSeq(po.list, LAMBDA p : po.free[p] # {}) IN
    IF kept = 0 THEN merk_alloc_page(po)
    ELSE [po EXCEPT !.list = SubSeq(@, kept, Len(@))]

merk_alloc_node(po) ==
    LET ready == WithFree(po)
        page == Head(ready.list)
        slot == Min(ready.free[page])
    IN  [node |-> page * NODES_PER_PAGE + slot,
         pool |-> [ready EXCEPT !.free = [@ EXCEPT ![page] = @ \ {slot}]]]

merk_free_node(po, n) ==
    LET page == PageOf(n) IN
    [po EXCEPT !.free = [@ EXCEPT ![page] = @ \cup {n % NODES_PER_PAGE}],
               !.list = IF Contains(@, page) THEN @ ELSE <<page>> \o @]

(***************************************************************************)
(* Hashes of nodes.                                                        *)
(***************************************************************************)
Mark(mem, n) == IF n = NULL THEN NoHash ELSE <<mem[n].ptr, mem[n].hash>>
merk_hash_single_node(mem, left, right) == <<"inner">> \o Mark(mem, left) \o Mark(mem, right)

merk_verify_single_node(mem, node) ==
    IsLeaf(node) \/ node.hash = merk_hash_single_node(mem, node.left, node.right)

child(node, key) == IF key < node.ptr THEN node.left ELSE node.right

RECURSIVE verify_from(_, _, _, _)
verify_from(mem, node, key, hash) ==
    IF IsLeaf(node) THEN node.hash = hash
    ELSE /\ merk_verify_single_node(mem, node)
         /\ child(node, key) # NULL
         /\ verify_from(mem, mem[child(node, key)], key, hash)

\* Mutant: the first node is not compared with the root.
merk_verify_unrooted(mem, key, hash) ==
    mem[Root].right # NULL /\ verify_from(mem, mem[mem[Root].right], key, hash)

merk_verify(mem, key, hash) ==
    mem[Root].right # NULL /\ verify_from(mem, mem[Root], key, hash)

(***************************************************************************)
(* Insertion.                                                              *)
(***************************************************************************)
\* intermediate_nodes: from node n, which is at depth i, towards the key.
RECURSIVE descend(_, _, _)
descend(n, key, i) ==
    LET next == child(nodes[n], key) IN
    IF next = NULL \/ i = MERK_MAX_DEPTH - 1 THEN <<n>> ELSE <<n>> \o descend(next, key, i + 1)

\* The hashes of all nodes on a path change from its last node up to the root.
RECURSIVE percolate(_, _)
percolate(mem, path) ==
    IF path = <<>> THEN mem
    ELSE LET n == Last(path) IN
         percolate([mem EXCEPT ![n].hash = merk_hash_single_node(mem, mem[n].left, mem[n].right)],
                   Front(path))

\* Mutant: the old leaf is not freed.
Replaced_leak(po, leaf) == po

\* The inner node over a leaf and the new node, whose key is that of its right child.
Parent(mem, leaf, new) ==
    IF mem[new].ptr < mem[leaf].ptr
    THEN [ptr |-> mem[leaf].ptr, hash |-> NoHash, left |-> new, right |-> leaf]
    ELSE [ptr |-> mem[new].ptr, hash |-> NoHash, left |-> leaf, right |-> new]
Replaced(po, leaf) == merk_free_node(po, leaf)

\* What the parent of the leaf points to afterwards, with memory and pool.
merk_splice_node(mem, po, leaf, new) ==
    IF mem[new].ptr = mem[leaf].ptr
    THEN [node |-> new, mem |-> [mem EXCEPT ![leaf] = Empty], pool |-> Replaced(po, leaf)]
    ELSE LET a == merk_alloc_node(po) IN
         [node |-> a.node, pool |-> a.pool,
          mem |-> percolate([mem EXCEPT ![a.node] = Parent(mem, leaf, new)], <<a.node>>)]

\* The tree and the pool with the new node linked in at the end of the path.  At
\* the depth limit the walk may end at an inner node: then nothing is spliced
\* in, and the new node stays outside the tree.
Grown(mem, po, path, new) ==
    LET last == Last(path)
        up == path[Len(path) - 1]
        s == merk_splice_node(mem, po, last, new)
    IN  IF ~IsLeaf(mem[last]) THEN [mem |-> mem, pool |-> po]
        ELSE [pool |-> s.pool,
              mem |-> IF mem[up].right = last THEN [s.mem EXCEPT ![up].right = s.node]
                      ELSE [s.mem EXCEPT ![up].left = s.node]]

merk_insert(key, hash) ==
    LET a == merk_alloc_node(pool)
        mem == [nodes EXCEPT ![a.node] = Leaf(key, hash)]
        path == descend(Root, key, 0)
        g == IF nodes[Root].right = NULL
             THEN [mem |-> [mem EXCEPT ![Root].right = a.node], pool |-> a.pool]
             ELSE Grown(mem, a.pool, path, a.node)
    IN  /\ nodes' = percolate(g.mem, IF Len(path) = 1 THEN path ELSE Front(path))
        /\ pool' = g.pool

Inserted == {k \in Keys : map[k] # NoHash}

\* The backing store has a page if the insertion needs one.
Room(key) ==
    \/ pool.taken < MaxPages
    \/ Cardinality(UNION {{p} \X pool.free[p] : p \in Pages}) >= IF key \in Inserted THEN 1 ELSE 2

Insert(key, hash) ==
    /\ Room(key)
    /\ merk_insert(key, hash)
    /\ map' = [map EXCEPT ![key] = hash]

Next == \E key \in Keys, hash \in Hashes : Insert(key, hash)

Spec == Init /\ [][Next]_vars

(***************************************************************************)
(* Properties.                                                             *)
(***************************************************************************)
\* Nodes, free slots and the list have their types.
TypeOK ==
    /\ \A n \in NodeIds \cup {Root} :
          /\ nodes[n].ptr \in Keys \cup {0}
          /\ {nodes[n].left, nodes[n].right} \subseteq NodeIds \cup {NULL}
    /\ \A p \in Pages : pool.free[p] \subseteq Slots
    /\ pool.taken \in 0 .. MaxPages /\ pool.list \in Seq(1 .. pool.taken)
    /\ map \in [Keys -> Hashes \cup {NoHash}]

\* After any insertions in any order, a key verifies with the hash inserted for
\* it last and with no other (merk_insert, merk_verify).
InsertedVerifies ==
    \A k \in Inserted, h \in Hashes : merk_verify(nodes, k, h) <=> h = map[k]

RECURSIVE Below(_)
Below(n) == IF n = NULL THEN <<>> ELSE <<n>> \o Below(nodes[n].left) \o Below(nodes[n].right)

\* The tree has 2k - 1 nodes for k keys; they are the nodes that are not free,
\* each reached once, and a page with a free node is in the list, once
\* (merk_splice_node, merk_free_node, merk_alloc_node).
NodesOwned ==
    LET tree == Below(nodes[Root].right)
        used == {n \in NodeIds : PageOf(n) <= pool.taken
                                 /\ n % NODES_PER_PAGE \notin pool.free[PageOf(n)]}
    IN  /\ ToSet(tree) = used /\ IsInjective(tree)
        /\ Len(tree) = IF Inserted = {} THEN 0 ELSE 2 * Cardinality(Inserted) - 1
        /\ IsInjective(pool.list)
        /\ \A p \in Pages : pool.free[p] # {} => Contains(pool.list, p)

\* What a node of the tree may have become: it holds what another node held, or
\* one of its fields has another value that the tree has.
Changed(n) ==
    LET tree == ToSet(Below(nodes[Root].right))
        hashes == {nodes[m].hash : m \in tree} \cup Hashes
    IN  {nodes[m] : m \in tree}
          \cup {[nodes[n] EXCEPT !.ptr = k] : k \in Keys}
          \cup {[nodes[n] EXCEPT !.hash = h] : h \in hashes}
          \cup {[nodes[n] EXCEPT !.left = m] : m \in tree \cup {NULL}}
          \cup {[nodes[n] EXCEPT !.right = m] : m \in tree \cup {NULL}}

\* Whatever one node has become in the backing store, no key verifies with a hash
\* that is not the last one inserted for it (merk_verify).
ChangesDetected ==
    \A n \in ToSet(Below(nodes[Root].right)) : \A node \in Changed(n) :
        \A k \in Inserted : \A h \in Hashes \ {map[k]} :
            ~merk_verify([nodes EXCEPT ![n] = node], k, h)

\* A page verifies with the hash inserted for it last and with no other, also after a
\* node in the backing store has changed (merk_insert, merk_verify).
VerifiesLastOnly == InsertedVerifies /\ ChangesDetected

\* Nodes are the tree's or free, never both, never neither (merk_alloc_node,
\* merk_free_node, merk_splice_node).
NodesAccounted == TypeOK /\ NodesOwned
=============================================================================
