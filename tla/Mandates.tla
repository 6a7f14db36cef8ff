------------------------------ MODULE Mandates ------------------------------
(***************************************************************************)
(* The MandateTree of hk-mandate as operators on a tree value `t': a       *)
(* function from the ids inserted so far to their nodes.  They have no     *)
(* state; MandateTree.tla gives the tree a behaviour of its own and        *)
(* Ledger.tla runs it inside the state machine.                            *)
(*                                                                         *)
(* Amounts are u128 in the code.  accrue and check saturate and then take  *)
(* the minimum with buffer_max, itself a u128, so the saturation is never  *)
(* visible and natural numbers give the same result.                       *)
(***************************************************************************)
EXTENDS Integers, FiniteSets

CONSTANTS
    MandateIds,   \* ids a mandate may be created under
    NoParent,     \* the parent of a root
    MAX_DEPTH     \* longest chain a walk accepts

ASSUME NoParentAssumption == NoParent \notin MandateIds
ASSUME DepthAssumption    == MAX_DEPTH \in Nat \ {0}

\* A node of hk-primitives MandateNode: scheme and tier are never read here.
Nodes(Accounts, Assets) ==
    [parent : MandateIds \cup {NoParent}, holder : Accounts, asset : Assets,
     rate_per_sec : Nat, buffer_max : Nat, per_tx_max : Nat, expiry : Nat,
     revoked : BOOLEAN, buffer : Nat, last_accrual : Nat]

Lesser(a, b) == IF a < b THEN a ELSE b

-----------------------------------------------------------------------------
(* Insertion: a child may only narrow                                      *)

\* insert: the parent exists and the child's expiry and per-spend cap fit it.
\* Its rate and buffer may exceed the parent's (oversubscription).
insert_ok(t, n) ==
    n.parent # NoParent =>
        /\ n.parent \in DOMAIN t
        /\ n.expiry <= t[n.parent].expiry
        /\ n.per_tx_max <= t[n.parent].per_tx_max

\* check_asset_bound (R17): the child carries its parent's asset.
check_asset_bound(t, n) ==
    n.parent # NoParent => n.parent \in DOMAIN t /\ n.asset = t[n.parent].asset

with_node(t, id, n) == [m \in DOMAIN t \cup {id} |-> IF m = id THEN n ELSE t[m]]

with_revoked(t, id) == [t EXCEPT ![id].revoked = TRUE]

-----------------------------------------------------------------------------
(* The walk from a leaf to its root                                        *)

\* S contains the parent of every node in it.
UpClosed(t, S) == \A m \in S : t[m].parent # NoParent => t[m].parent \in S

\* The ids chain_of collects: the least set with the leaf and all parents.
chain_of(t, leaf) ==
    {m \in DOMAIN t : \A S \in SUBSET DOMAIN t : leaf \in S /\ UpClosed(t, S) => m \in S}

\* chain_of's errors: NotFound, and BadChain past MAX_DEPTH nodes.
chain_ok(t, leaf) == leaf \in DOMAIN t /\ Cardinality(chain_of(t, leaf)) <= MAX_DEPTH

root_of(t, leaf) == CHOOSE r \in chain_of(t, leaf) : t[r].parent = NoParent

-----------------------------------------------------------------------------
(* Spending                                                                *)

\* Faulty variant: the drip is not capped by the buffer.
projected_Uncapped(n, now) == n.buffer + n.rate_per_sec * (now - n.last_accrual)

\* The buffer of node n at `now' after the lazy drip.
projected(n, now) ==
    Lesser(n.buffer + n.rate_per_sec * (now - n.last_accrual), n.buffer_max)

\* Faulty variant: revocation and expiry are looked up on the leaf only.
check_LeafOnly(t, leaf, amount, now) ==
    /\ chain_ok(t, leaf)
    /\ ~t[leaf].revoked /\ now < t[leaf].expiry
    /\ \A m \in chain_of(t, leaf) :
          amount <= t[m].per_tx_max /\ amount <= projected(t[m], now)

\* check: every node of the chain is live, within its per-spend cap, and has
\* the amount in its buffer.
check(t, leaf, amount, now) ==
    /\ chain_ok(t, leaf)
    /\ \A m \in chain_of(t, leaf) :
          /\ ~t[m].revoked
          /\ now < t[m].expiry
          /\ amount <= t[m].per_tx_max
          /\ amount <= projected(t[m], now)

\* Faulty variant: the drip is credited but its clock is not moved.
accrue_NoClock(n, now) ==
    IF now > n.last_accrual THEN [n EXCEPT !.buffer = projected(n, now)] ELSE n

accrue(n, now) ==
    IF now > n.last_accrual
    THEN [n EXCEPT !.buffer = projected(n, now), !.last_accrual = now]
    ELSE n

\* One node's share of a spend.
pay(n, amount, now) == [accrue(n, now) EXCEPT !.buffer = @ - amount]

\* spend, once check has passed: every node of the chain accrues and pays.
spend(t, leaf, amount, now) ==
    [m \in DOMAIN t |-> IF m \in chain_of(t, leaf) THEN pay(t[m], amount, now) ELSE t[m]]

\* available: no node of the chain is revoked or expired, and the answer is
\* the least of their buffers and caps.
available_ok(t, leaf, now) ==
    chain_ok(t, leaf) /\ \A m \in chain_of(t, leaf) : ~t[m].revoked /\ now < t[m].expiry

\* Faulty variant: the per-spend caps are left out of the minimum.
available_NoCap(t, leaf, now) ==
    CHOOSE a \in {projected(t[m], now) : m \in chain_of(t, leaf)} :
        \A m \in chain_of(t, leaf) : a <= projected(t[m], now)

available(t, leaf, now) ==
    LET limits == UNION {{projected(t[m], now), t[m].per_tx_max} : m \in chain_of(t, leaf)}
    IN  CHOOSE a \in limits : \A b \in limits : a <= b

=============================================================================
