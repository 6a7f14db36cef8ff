------------------------------ MODULE LeafUse ------------------------------
(***************************************************************************)
(* What a stateful hash signer owes its owner, whatever it does to get     *)
(* there: trees of one-time leaves, one tree per rotation epoch, the       *)
(* signatures that left on each leaf, and the position of each tree that a *)
(* power loss would leave behind.  HashSigner.tla is the signer of this    *)
(* code.                                                                   *)
(***************************************************************************)
EXTENDS Integers

CONSTANTS
    Epochs,     \* rotation epochs, 0..max; epoch 0 is the genesis tree
    Capacity    \* signatures one tree can ever produce

ASSUME EpochsAssumption   == Epochs \subseteq Nat /\ 0 \in Epochs
ASSUME CapacityAssumption == Capacity \in Nat

VARIABLES
    durable,  \* durable[e]: what a power loss would leave of the state file of epoch e
    signed    \* signed[e][l]: signatures released on leaf l of tree e

Leaves == 0..(Capacity - 1)

\* Yellow paper I3: no leaf of any tree ever signs twice, whatever crashes,
\* failed writes, rotations and restores on an older epoch happen between.
NoLeafReuse ==
    \A e \in Epochs, l \in Leaves : signed[e][l] <= 1

\* Reserve-then-sign (hashsig.rs sign): every released leaf is already behind
\* the position a power loss right now would resume its tree at.
ReleasedIsDurable ==
    \A e \in Epochs, l \in Leaves :
        signed[e][l] > 0 => l < durable[e].used /\ l < durable[e].count

=============================================================================
