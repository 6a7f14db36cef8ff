---------------------------- MODULE MandateTree -----------------------------
(***************************************************************************)
(* The budget tree of hk-mandate with a behaviour of its own: nodes are    *)
(* inserted, revoked and spent through while block time advances.  Who may *)
(* do so is the state machine's business (Ledger.tla, which implements     *)
(* this specification); here any caller may try anything, and a refused    *)
(* call changes nothing, so it is a stuttering step.                       *)
(***************************************************************************)
EXTENDS Mandates

CONSTANTS
    Accounts,   \* possible holders
    Assets,     \* possible denominations
    Requests,   \* MandateCreate transactions callers may submit
    Amounts,    \* amounts a caller may try to spend
    MaxTime     \* bound on block time

\* The fields of TxBody::MandateCreate (tier is never read).
RequestRecords ==
    [id : MandateIds, parent : MandateIds \cup {NoParent}, holder : Accounts,
     asset : Assets, rate_per_sec : Nat, buffer_max : Nat, per_tx_max : Nat,
     initial_buffer : Nat, expiry : Nat]

ASSUME RequestsAssumption == Requests \subseteq RequestRecords
ASSUME AmountsAssumption  == Amounts \subseteq Nat
ASSUME TimeAssumption     == MaxTime \in Nat

VARIABLES
    nodes,    \* MandateTree.nodes
    now,      \* the block time the state machine passes in
    drawn,    \* history: everything ever spent through each id
    born,     \* history: creation time and opening buffer of each id
    mark      \* history: an instant somebody started watching, and drawn then

vars == <<nodes, now, drawn, born, mark>>

\* The node MandateCreate builds: the opening buffer is capped at buffer_max.
new_node(q, time) ==
    [parent |-> q.parent, holder |-> q.holder, asset |-> q.asset,
     rate_per_sec |-> q.rate_per_sec, buffer_max |-> q.buffer_max,
     per_tx_max |-> q.per_tx_max, expiry |-> q.expiry, revoked |-> FALSE,
     buffer |-> Lesser(q.initial_buffer, q.buffer_max), last_accrual |-> time]

Init ==
    /\ nodes = [m \in {} |-> 0]
    /\ now = 0
    /\ drawn = [m \in MandateIds |-> 0]
    /\ born = [m \in MandateIds |-> [time |-> 0, buffer |-> 0]]
    /\ mark = [time |-> 0, drawn |-> [m \in MandateIds |-> 0]]

\* Faulty variant: an id that is taken is created anew.
Insert_Overwrites(q) ==
    LET n == new_node(q, now) IN
    /\ insert_ok(nodes, n)
    /\ nodes' = with_node(nodes, q.id, n)
    /\ born' = [born EXCEPT ![q.id] = [time |-> now, buffer |-> n.buffer]]
    /\ UNCHANGED <<now, drawn, mark>>

\* insert: the pre-R17 entry point, replayed for every old block.  The tree
\* itself would overwrite; its one caller refuses an id that is taken.
Insert(q) ==
    LET n == new_node(q, now) IN
    /\ q.id \notin DOMAIN nodes
    /\ insert_ok(nodes, n)
    /\ nodes' = with_node(nodes, q.id, n)
    /\ born' = [born EXCEPT ![q.id] = [time |-> now, buffer |-> n.buffer]]
    /\ UNCHANGED <<now, drawn, mark>>

\* revoke: one flag; the descendants die by the walk.
Revoke(id) ==
    /\ id \in DOMAIN nodes
    /\ nodes' = with_revoked(nodes, id)
    /\ UNCHANGED <<now, drawn, born, mark>>

\* spend: check the whole chain, then debit the whole chain.
Spend(leaf, amount) ==
    /\ check(nodes, leaf, amount, now)
    /\ nodes' = spend(nodes, leaf, amount, now)
    /\ drawn' = [m \in MandateIds |->
                    IF m \in chain_of(nodes, leaf) THEN drawn[m] + amount ELSE drawn[m]]
    /\ UNCHANGED <<now, born, mark>>

\* The next block carries a later time.
Tick(dt) ==
    /\ now + dt <= MaxTime
    /\ now' = now + dt
    /\ UNCHANGED <<nodes, drawn, born, mark>>

\* An auditor starts a measurement window now (no code: history only); the
\* first window opens with the chain, and one later instant replaces it.
Observe ==
    /\ mark.time = 0 /\ now > 0
    /\ mark' = [time |-> now, drawn |-> drawn]
    /\ UNCHANGED <<nodes, now, drawn, born>>

Next ==
    \/ \E q \in Requests : Insert(q)
    \/ \E id \in MandateIds : Revoke(id)
    \/ \E id \in MandateIds, a \in Amounts : Spend(id, a)
    \/ \E dt \in 1..MaxTime : Tick(dt)
    \/ Observe

Spec == Init /\ [][Next]_vars

-----------------------------------------------------------------------------
(* Properties                                                              *)

Tree(t) ==
    /\ DOMAIN t \subseteq MandateIds
    /\ \A m \in DOMAIN t : t[m] \in Nodes(Accounts, Assets)

\* Nodes, clock and history keep their types; in particular no spend takes a
\* buffer below zero (u128 would wrap).
TypeOK ==
    /\ Tree(nodes)
    /\ now \in Nat
    /\ drawn \in [MandateIds -> Nat]
    /\ born \in [MandateIds -> [time : Nat, buffer : Nat]]
    /\ mark \in [time : Nat, drawn : [MandateIds -> Nat]]

\* Drip, not reset: whatever was drawn through a node since its creation,
\* plus what it could still pay now, never exceeds its opening buffer plus
\* its rate times its age, however many descendants spent through it.
EnvelopeBound ==
    \A m \in DOMAIN nodes :
        drawn[m] + projected(nodes[m], now)
            <= born[m].buffer + nodes[m].rate_per_sec * (now - born[m].time)

\* Token bucket: over ANY window, from any instant an auditor picks, a node
\* and its whole subtree draw at most one full buffer plus the drip.
WindowBound ==
    \A m \in DOMAIN nodes :
        drawn[m] - mark.drawn[m]
            <= nodes[m].buffer_max + nodes[m].rate_per_sec * (now - mark.time)

\* Attenuation along the whole chain, not only to the parent: no ancestor
\* expires before, or allows less per spend than, a node below it.
Attenuated ==
    \A m \in DOMAIN nodes : \A a \in chain_of(nodes, m) :
        nodes[m].expiry <= nodes[a].expiry /\ nodes[m].per_tx_max <= nodes[a].per_tx_max

\* Cascade: a node is drawn on only while it and every ancestor are live, and
\* every ancestor pays the same amount in the same step.
WholeChainPays ==
    [][\A m \in DOMAIN nodes : drawn'[m] > drawn[m] =>
          \A a \in chain_of(nodes, m) :
              /\ ~nodes[a].revoked /\ now < nodes[a].expiry
              /\ drawn'[a] - drawn[a] = drawn'[m] - drawn[m]
              /\ drawn'[m] - drawn[m] <= nodes[a].per_tx_max]_vars

\* Delegated authority only narrows: whatever is inserted, revoked, spent or
\* waited for later, a mandate that is dead, by its own or an ancestor's
\* revocation or expiry, stays dead, and what its chain forbids in one spend
\* stays forbidden.
NeverWidened ==
    [][\A m \in DOMAIN nodes :
          /\ ~available_ok(nodes, m, now) => ~available_ok(nodes', m, now')
          /\ \A x \in Amounts :
                (\E a \in chain_of(nodes, m) : nodes[a].per_tx_max < x)
                   => \E a \in chain_of(nodes', m) : nodes'[a].per_tx_max < x]_vars

\* available() tells a wallet exactly what spend() would accept.
AvailableIsExact ==
    \A m \in DOMAIN nodes, a \in Amounts :
        check(nodes, m, a, now) <=>
            available_ok(nodes, m, now) /\ a <= available(nodes, m, now)

=============================================================================
