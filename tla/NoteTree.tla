------------------------------ MODULE NoteTree ------------------------------
(***************************************************************************)
(* The append-only commitment tree of a shielded pool (hk-state pool.rs):  *)
(* the frontier that consensus keeps, the authentication path that wallets *)
(* rebuild from the list of leaves, and the fold of a path that the spend  *)
(* circuit performs.                                                       *)
(*                                                                         *)
(* Hashes are collision free, so the hash of a subtree is the sequence of  *)
(* its leaves, and hashing two subtrees joins the sequences.               *)
(***************************************************************************)
EXTENDS Integers, Sequences

CONSTANTS
    TREE_DEPTH,
    NoNote          \* the leaf of an unfilled slot

ASSUME NoteTreeAssumption == TREE_DEPTH \in Nat \ {0}

\* Arithmetic, stated because the provers know nothing of powers.
ASSUME PowersAssumption == \A l \in 0..TREE_DEPTH : 2^l \in Nat \ {0}

merkle_node(left, right) == left \o right

\* empty_roots: the hash of an unfilled subtree of each height.
empty_root(l) == [i \in 1..2^l |-> NoNote]

Bit(n, l) == (n \div 2^l) % 2

new_tree == [frontier |-> [l \in 0..TREE_DEPTH - 1 |-> empty_root(0)], next_index |-> 0]

\* One slot of the last level is never used.
has_capacity(t, n) == t.next_index + n <= 2^TREE_DEPTH - 1

\* Faulty variant: the new subtree goes to the left of the parked one.
append_Swapped(t, leaf) ==
    LET cur[l \in 0..TREE_DEPTH] ==
            IF l = 0 THEN leaf ELSE merkle_node(cur[l - 1], t.frontier[l - 1])
        stop == CHOOSE l \in 0..TREE_DEPTH - 1 :
                    Bit(t.next_index, l) = 0 /\ \A k \in 0..l - 1 : Bit(t.next_index, k) = 1
    IN  [frontier |-> [t.frontier EXCEPT ![stop] = cur[stop]], next_index |-> t.next_index + 1]

\* Merge with the parked left siblings as long as the path went right, and
\* park the result at the first level where it is a left child.
append(t, leaf) ==
    LET cur[l \in 0..TREE_DEPTH] ==
            IF l = 0 THEN leaf ELSE merkle_node(t.frontier[l - 1], cur[l - 1])
        stop == CHOOSE l \in 0..TREE_DEPTH - 1 :
                    Bit(t.next_index, l) = 0 /\ \A k \in 0..l - 1 : Bit(t.next_index, k) = 1
    IN  [frontier |-> [t.frontier EXCEPT ![stop] = cur[stop]], next_index |-> t.next_index + 1]

root(t) ==
    LET cur[l \in 0..TREE_DEPTH] ==
            IF l = 0 THEN empty_root(0)
            ELSE IF Bit(t.next_index, l - 1) = 1 THEN merkle_node(t.frontier[l - 1], cur[l - 1])
            ELSE merkle_node(cur[l - 1], empty_root(l - 1))
    IN  cur[TREE_DEPTH]

\* full_tree_path: the levels of the whole tree, and from each the sibling of
\* the node above the leaf at `index'.
full_tree_path(leaves, index) ==
    LET level[l \in 0..TREE_DEPTH] ==
            IF l = 0 THEN leaves
            ELSE [i \in 1..((Len(level[l - 1]) + 1) \div 2) |->
                     merkle_node(level[l - 1][2 * i - 1],
                                 IF 2 * i <= Len(level[l - 1]) THEN level[l - 1][2 * i]
                                                               ELSE empty_root(l - 1))]
        sibling(l) == LET i == index \div 2^l
                          j == IF i % 2 = 0 THEN i + 1 ELSE i - 1
                      IN  IF j < Len(level[l]) THEN level[l][j + 1] ELSE empty_root(l)
    IN  [l \in 0..TREE_DEPTH - 1 |-> sibling(l)]

\* What the circuit makes of a leaf, its index and its siblings.
fold_path(leaf, index, siblings) ==
    LET cur[l \in 0..TREE_DEPTH] ==
            IF l = 0 THEN leaf
            ELSE IF Bit(index, l - 1) = 1 THEN merkle_node(siblings[l - 1], cur[l - 1])
            ELSE merkle_node(cur[l - 1], siblings[l - 1])
    IN  cur[TREE_DEPTH]

=============================================================================
