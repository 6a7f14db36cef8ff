---------------------------- MODULE RotationState ----------------------------
(***************************************************************************)
(* The state of key rotation in the network (hk-node state.rs, rpc.rs) and *)
(* what must hold of it.  Rotation.tla has the steps.                      *)
(*                                                                         *)
(* One seat, "me", runs out of leaves; "peer" stands for the rest of the   *)
(* network.  Heights are relative, so that the chain may go on for ever:   *)
(* the age of a certificate is the tip it is judged at, less the tip it    *)
(* was issued for (valid_from_height - 1); all ages beyond the horizon are *)
(* alike.                                                                  *)
(***************************************************************************)
EXTENDS Integers, FiniteSets, Sequences

CONSTANTS PerTree,      \* signatures of one tree
          Threshold,    \* rotation_threshold of this root
          Horizon,      \* ROTATION_FRESHNESS_HORIZON
          Slots,        \* CERT_VERIFY_SLOTS
          Changes,      \* the set changes that operators may submit
          MaxEpoch,     \* bound: the tree of this epoch does not run out
          MaxLag, MaxFaults

ASSUME RotationAssumption ==
  /\ {PerTree, Threshold, Horizon, Slots, MaxEpoch, MaxLag, MaxFaults} \subseteq Nat
  /\ Threshold <= PerTree /\ Changes \subseteq {"remove", "admit"}

VARIABLES
  seat,      \* the epoch of this root's seat in the network's set, or Out
  behind,    \* the blocks decided and not yet committed by "me"
  me,        \* HkApp: its own copy of the seat, current_epoch, highest_issued_epoch,
             \* last_issue_time, pending_rotations, the epoch of the live signer
  tick,      \* the rotation tick: running, its highest_issued, its last_issue
  gauge,     \* signer_gauge
  leaves,    \* per epoch, what is left of the tree
  foreign,   \* foreign_rotations of each node
  pending_set_changes,    \* of the peer, each with where the tip is, relative to its window
  rpc,       \* certificates on the way to the peer, or being verified there
  faults, refused, readmitted     \* bound; history: see the properties

Out == -1        \* no seat
Parties == {"me", "peer"}
Issued == [epoch : 1..MaxEpoch, age : 0..Horizon + 1]

verifying == {r \in rpc : r.stage = "verifying"}

-----------------------------------------------------------------------------
(* Properties                                                              *)

\* Certificates are for epochs that exist, a queue holds one of each root at
\* most (R9: never stack beside the entry that wedged us), however many
\* submissions of one root are verified at the same time.
RotationTypeOK ==
  /\ seat \in Out..MaxEpoch /\ me.seat \in Out..MaxEpoch /\ me.signer \in 0..MaxEpoch
  /\ \A n \in Parties : foreign[n] \in Seq(Issued) /\ Len(foreign[n]) <= 1
  /\ me.pending \in Seq(Issued) /\ Len(me.pending) <= 1
  /\ Cardinality(verifying) <= Slots
  /\ \A e \in 0..MaxEpoch : leaves[e] \in 0..PerTree

\* "The same rule at every site, so a certificate the RPC accepts is one
\* commit will apply" (rotation.rs): a queued certificate that a proposal
\* carries is never refused by the block that holds it, though it was verified
\* against an older set, at an older height.
CarriedAreApplied == RotationTypeOK /\ ~refused

\* The live signer is the tree the set verifies this node's votes with, across
\* rotations, removals and restarts.  Only a seat admitted anew, at epoch 0,
\* to a node that remembers a later epoch (apply_set_changes leaves the signer
\* and current_epoch alone) may have the node on another tree until it restarts.
SignerFollowsSeat == (me.seat # Out /\ ~readmitted) => me.signer = me.seat

=============================================================================
