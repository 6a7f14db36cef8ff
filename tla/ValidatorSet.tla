---------------------------- MODULE ValidatorSet ----------------------------
(***************************************************************************)
(* The validator set of a running chain (hk-consensus context.rs,          *)
(* rotation.rs, setchange.rs) as one node derives it from the decided      *)
(* blocks (hk-node state.rs): operational-key rotations, seats admitted,   *)
(* removed and re-weighted by certificate, the bootstrap re-weight, the    *)
(* per-height set history the engine verifies commit certificates with,    *)
(* the node's own live signer, and a restart from snapshot and block log.  *)
(*                                                                         *)
(* What the network decides is external: Decide appends any block.  The    *)
(* node commits decided blocks in order, whether it voted on them or       *)
(* fetched them by value-sync.                                             *)
(*                                                                         *)
(* Abstractions.  A key is a name; an address is the key it was derived    *)
(* from.  A signature is the fact it proves: the domain a rotation was     *)
(* signed under (v2 binds this chain), whether an approval verifies.       *)
(***************************************************************************)
EXTENDS Integers, SequencesExt, FiniteSetsExt

CONSTANTS
    Roots, Keys,
    genesis,                      \* the genesis seats: root -> [public_key, voting_power]
    Me,                           \* the root of this node
    op_key,                       \* op_key[e]: the key of this node's tree of epoch e
    RotationCerts, SetChangeCerts,
    Blocks,                       \* what a proposer may put in a block
    MAX_VOTING_POWER, ROTATION_FRESHNESS_HORIZON,
    rotation_v2_from,
    bootstrap_height, founding_power,
    MaxHeight                     \* bound on the run

Approvals == Seq([root_pk : Roots, valid : BOOLEAN])

ASSUME ValidatorSetAssumption ==
    /\ DOMAIN genesis \subseteq Roots /\ DOMAIN genesis # {} /\ Me \in Roots
    /\ \A r, s \in DOMAIN genesis : genesis[r].public_key = genesis[s].public_key => r = s
    /\ \A r \in DOMAIN genesis :
          genesis[r].public_key \in Keys /\ genesis[r].voting_power \in 1..MAX_VOTING_POWER
    /\ op_key[0] \in Keys /\ (Me \in DOMAIN genesis => genesis[Me].public_key = op_key[0])
    /\ MAX_VOTING_POWER \in Nat /\ MaxHeight \in Nat
    /\ founding_power \in 1..MAX_VOTING_POWER
    /\ \A c \in RotationCerts :
          c.root_pk \in Roots /\ c.new_op_pk \in Keys /\ c.epoch \in Nat
          /\ (c.root_pk = Me => c.new_op_pk = op_key[c.epoch])
    /\ \A c \in SetChangeCerts :
          /\ c.kind \in {"admit", "remove", "set_power"}
          /\ c.root_pk \in Roots /\ c.public_key \in Keys /\ c.approvals \in Approvals
    /\ \A b \in Blocks : b.rotations \in Seq(RotationCerts) /\ b.set_changes \in Seq(SetChangeCerts)

VARIABLES
    decided,   \* the blocks the network decided, from height 1
    node,      \* HkApp: height, validators, set_history, current_epoch, signer, and the
               \* certificates applied so far (history)
    disk,      \* heights whose block file was saved
    snap,      \* the last snapshot
    up

vars == <<decided, node, disk, snap, up>>

-----------------------------------------------------------------------------
(* A seat and a set                                                        *)

\* HkValidator::new: the address comes from the first key and never changes.
new_seat(key, power) == [address |-> key, public_key |-> key, epoch |-> 0, voting_power |-> power]

genesis_set == [r \in DOMAIN genesis |-> new_seat(genesis[r].public_key, genesis[r].voting_power)]

total_voting_power(set) == MapThenSumSet(LAMBDA r : set[r].voting_power, DOMAIN set)

with_seat(set, r, s) == [x \in DOMAIN set \cup {r} |-> IF x = r THEN s ELSE set[x]]

-----------------------------------------------------------------------------
(* Rotation certificates                                                   *)

domain(height) == IF height >= rotation_v2_from THEN "v2" ELSE "v1"

check_window(c, height) ==
    domain(height) = "v2" =>
        /\ c.valid_from_height <= height + 1
        /\ height + 1 <= c.valid_from_height + ROTATION_FRESHNESS_HORIZON

\* verify_against, for the seat of the certificate's root.
rotation_ok(set, c, height) ==
    /\ c.root_pk \in DOMAIN set
    /\ c.epoch > set[c.root_pk].epoch
    /\ check_window(c, height)
    /\ c.domain = domain(height)

\* apply_rotation finds the seat by its root and replaces it by its address.
apply_rotation(set, c) ==
    [r \in DOMAIN set |->
        IF set[r].address = set[c.root_pk].address
        THEN [set[r] EXCEPT !.public_key = c.new_op_pk, !.epoch = c.epoch]
        ELSE set[r]]

-----------------------------------------------------------------------------
(* Set-change certificates                                                 *)

check_shape(c) ==
    /\ c.not_before <= c.not_after
    /\ c.kind # "remove" => c.voting_power \in 1..MAX_VOTING_POWER

\* Each approval from a different current seat, and together more than 2/3.
verify_against(set, c) ==
    LET approvers == {c.approvals[i].root_pk : i \in DOMAIN c.approvals} IN
    /\ check_shape(c) /\ c.this_chain
    /\ c.approvals # <<>>
    /\ Cardinality(approvers) = Len(c.approvals)
    /\ approvers \subseteq DOMAIN set
    /\ \A i \in DOMAIN c.approvals : c.approvals[i].valid
    /\ 3 * MapThenSumSet(LAMBDA r : set[r].voting_power, approvers) > 2 * total_voting_power(set)

in_window(c, height) == c.not_before <= height /\ height <= c.not_after

\* Faulty variant: an admitted key is not compared with the seated addresses.
changes_AnyKey(set, c) ==
    CASE c.kind = "admit"     -> c.root_pk \notin DOMAIN set
      [] c.kind = "remove"    -> c.root_pk \in DOMAIN set /\ DOMAIN set # {c.root_pk}
      [] c.kind = "set_power" -> c.root_pk \in DOMAIN set /\ set[c.root_pk].voting_power # c.voting_power

\* Ok(Some(_)): neither a no-op (already so) nor refused (a colliding
\* address, the last seat, a root that is not seated).
changes(set, c) ==
    CASE c.kind = "admit"     -> c.root_pk \notin DOMAIN set /\ \A r \in DOMAIN set : set[r].address # c.public_key
      [] c.kind = "remove"    -> c.root_pk \in DOMAIN set /\ DOMAIN set # {c.root_pk}
      [] c.kind = "set_power" -> c.root_pk \in DOMAIN set /\ set[c.root_pk].voting_power # c.voting_power

changed(set, c) ==
    CASE c.kind = "admit"     -> with_seat(set, c.root_pk, new_seat(c.public_key, c.voting_power))
      [] c.kind = "remove"    -> [r \in DOMAIN set \ {c.root_pk} |-> set[r]]
      [] c.kind = "set_power" -> [set EXCEPT ![c.root_pk].voting_power = c.voting_power]

set_change_ok(set, c, height) == verify_against(set, c) /\ in_window(c, height) /\ changes(set, c)

reweight_roots(set) ==
    [r \in DOMAIN set |-> IF r \in DOMAIN genesis
                          THEN [set[r] EXCEPT !.voting_power = founding_power] ELSE set[r]]

-----------------------------------------------------------------------------
(* One block                                                               *)

\* HK-R6: a set changed by this block signs from the next height on.
recorded(n, before) ==
    IF n.applied = before.applied /\ n.validators = before.validators THEN n
    ELSE [n EXCEPT !.set_history = Append(@, [from |-> n.height + 1, set |-> n.validators])]

\* The owner of a rotated root follows with its own epoch and, unless this is
\* a replay, its live signer; never to an epoch it has left behind.
rotate(n, c, replay) ==
    IF ~rotation_ok(n.validators, c, n.height) THEN n
    ELSE LET mine == c.root_pk = Me /\ c.epoch > n.current_epoch IN
         [n EXCEPT !.validators = apply_rotation(n.validators, c),
                   !.current_epoch = IF mine THEN c.epoch ELSE @,
                   !.signer = IF mine /\ ~replay THEN op_key[c.epoch] ELSE @,
                   !.applied = Append(@, c)]

apply_rotations(n, b, replay) ==
    recorded(FoldLeft(LAMBDA m, c : rotate(m, c, replay), n, b.rotations), n)

set_change(n, c) ==
    IF ~set_change_ok(n.validators, c, n.height) THEN n
    ELSE [n EXCEPT !.validators = changed(n.validators, c), !.applied = Append(@, c)]

\* One certificate after the other, each against the set as it stands, then
\* the bootstrap re-weight at its height.
apply_set_changes(n, b) ==
    LET m == FoldLeft(set_change, n, b.set_changes) IN
    recorded(IF n.height = bootstrap_height
             THEN [m EXCEPT !.validators = reweight_roots(m.validators)] ELSE m, n)

apply_block(n, b, replay) ==
    apply_set_changes(apply_rotations([n EXCEPT !.height = @ + 1], b, replay), b)

\* None, as the one value no set can have (HkValidatorSet::new).
None == [r \in {} |-> 0]

\* HkContext: the last entry in force at h; None when h predates them all.
validator_set_at(history, h) ==
    LET inForce == {i \in DOMAIN history : history[i].from <= h} IN
    IF inForce = {} THEN None ELSE history[Max(inForce)].set

-----------------------------------------------------------------------------
\* HkApp::new, on the genesis tree.
fresh ==
    [height |-> 0, validators |-> genesis_set,
     set_history |-> <<[from |-> 1, set |-> genesis_set]>>,
     current_epoch |-> 0, signer |-> op_key[0], applied |-> <<>>]

Init ==
    /\ decided = <<>>
    /\ node = fresh
    /\ disk = {} /\ snap = fresh
    /\ up = TRUE

\* The network decides a block at the next height.
Decide(b) ==
    /\ Len(decided) < MaxHeight
    /\ decided' = Append(decided, b)
    /\ UNCHANGED <<node, disk, snap, up>>

\* commit: apply, save the block (a failure is only logged), and at some
\* heights save a snapshot.
Commit ==
    LET n == apply_block(node, decided[node.height + 1], FALSE) IN
    /\ up /\ node.height < Len(decided)
    /\ node' = n
    /\ disk' \in {disk, disk \cup {n.height}}
    /\ snap' \in {snap, n}
    /\ UNCHANGED <<decided, up>>

Crash ==
    /\ up
    /\ up' = FALSE
    /\ UNCHANGED <<decided, node, disk, snap>>

\* Faulty variant: the snapshot's set is taken to be in force one height early.
restored_Early ==
    IF snap.height = 0 THEN fresh
    ELSE [snap EXCEPT !.set_history = <<[from |-> snap.height, set |-> snap.validators]>>,
                      !.signer = op_key[0]]

\* The snapshot's image in a fresh process: the history restarts with it.
restored ==
    IF snap.height = 0 THEN fresh
    ELSE [snap EXCEPT !.set_history = <<[from |-> snap.height + 1, set |-> snap.validators]>>,
                      !.signer = op_key[0]]

\* The block files beyond the snapshot, up to the first gap.
replayable ==
    LET reach == CHOOSE h \in snap.height..MaxHeight :
                    (snap.height + 1)..h \subseteq disk /\ h + 1 \notin disk
    IN  SubSeq(decided, snap.height + 1, reach)

\* The live signer becomes the tree of the epoch the chain says; the handle's
\* own public key stays the genesis one.
adopt_epoch_signer(n) ==
    IF Me \notin DOMAIN n.validators THEN n
    ELSE LET seat == n.validators[Me] IN
         IF seat.public_key = op_key[0]
         THEN [n EXCEPT !.current_epoch = seat.epoch]
         ELSE [n EXCEPT !.signer = op_key[seat.epoch],
                        !.current_epoch = IF op_key[seat.epoch] = seat.public_key THEN seat.epoch ELSE @]

\* restore_from_store, then adopt_epoch_signer.
Restart ==
    /\ ~up
    /\ up' = TRUE
    /\ node' = adopt_epoch_signer(
                  FoldLeft(LAMBDA n, b : apply_block(n, b, TRUE), restored, replayable))
    /\ UNCHANGED <<decided, disk, snap>>

Next ==
    \/ \E b \in Blocks : Decide(b)
    \/ Commit
    \/ Crash
    \/ Restart

Spec == Init /\ [][Next]_vars

-----------------------------------------------------------------------------
(* Properties                                                              *)

\* Every seat's power stays within MAX_VOTING_POWER (the engine's quorum
\* arithmetic panics beyond it); the rest keeps its types.
TypeOK ==
    /\ decided \in Seq(Blocks) /\ up \in BOOLEAN
    /\ node.height \in 0..Len(decided) /\ snap.height \in 0..node.height
    /\ disk \subseteq 1..Len(decided)
    /\ DOMAIN node.validators \subseteq Roots
    /\ \A r \in DOMAIN node.validators :
          node.validators[r] \in [address : Keys, public_key : Keys, epoch : Nat,
                                  voting_power : 1..MAX_VOTING_POWER]
    /\ node.signer \in Keys

\* The set each block leaves behind, from the genesis: what a node that never
\* stopped would hold.
SetAfter(h) ==
    FoldLeft(LAMBDA n, b : apply_block(n, b, FALSE), fresh, SubSeq(decided, 1, h)).validators

\* Live, synced or replayed after a crash with any snapshot and any hole in
\* the block log, the node is where one that never stopped would be.  It holds
\* the set the decided blocks give.  HK-R6: for every height up to the next its
\* history answers with the set that signs that height or, for heights a
\* snapshot covers, with none; a certificate is never checked against the set
\* its own block installs.  And its live signer is on the tree the set verifies
\* its votes with.
FollowsBlocks ==
    up =>
      /\ node.validators = SetAfter(node.height)
      /\ \A h \in 1..(node.height + 1) :
            LET answer == validator_set_at(node.set_history, h) IN
            answer = SetAfter(h - 1) \/ (answer = None /\ h <= snap.height)
      /\ Me \in DOMAIN node.validators => node.signer = node.validators[Me].public_key

\* No sequence of certificates, even in one block, leaves a set that stops
\* every node: an empty one (the constructor panics), one with power beyond the
\* width (the quorum arithmetic does), or two seats of one address, where
\* apply_rotation would replace the seat of another root.
SetIsRunnable ==
    /\ TypeOK
    /\ DOMAIN node.validators # {}
    /\ \A r, s \in DOMAIN node.validators :
          node.validators[r].address = node.validators[s].address => r = s

=============================================================================
