---------------------------- MODULE LedgerProofs ----------------------------
(***************************************************************************)
(* Proofs about the state machine of hk-state, for every genesis, request  *)
(* and bound.  Of Ledger.tla: the handlers drive the mandate tree only     *)
(* through its own operations, so what MandateTreeProofs shows of the tree *)
(* holds inside the ledger; value is conserved; an escrow is what its      *)
(* payee can claim; a stopped balance stays put; a draw costs the funder   *)
(* in the root's asset only.  Then the same of ShieldedPool.tla, where     *)
(* value also moves through the pools, and that every pool covers its      *)
(* unspent notes.                                                          *)
(***************************************************************************)
EXTENDS ShieldedPool, SumProofs, NaturalsInduction

\* The tree's specification and theorems, about the ledger's mandates.
MTP == INSTANCE MandateTreeProofs WITH
        nodes <- mandates, now <- time, Amounts <- 0..AMOUNT_MAX,
        mark <- [time |-> 0, drawn |-> [m \in MandateIds |-> 0]]

-----------------------------------------------------------------------------
(* The handlers implement the mandate tree                                 *)

\* The handlers call the operators of Mandates.tla, the tree's specification
\* the same ones.
LEMMA TreeOperators ==
  /\ \A t, l : MT!chain_of(t, l) = chain_of(t, l)
  /\ \A t, l, a, u : MT!spend(t, l, a, u) = spend(t, l, a, u)
  /\ \A t, l, a, u : check(t, l, a, u) => MT!check(t, l, a, u)
  /\ \A t, n : insert_ok(t, n) => MT!insert_ok(t, n)
  /\ \A t, i, n : MT!with_node(t, i, n) = with_node(t, i, n)
  /\ \A t, i : MT!with_revoked(t, i) = with_revoked(t, i)
  <1>1. \A t, l : MT!chain_of(t, l) = chain_of(t, l)
    BY DEF MT!chain_of, MT!UpClosed, chain_of, UpClosed
  <1>2. \A n, u : MT!projected(n, u) = projected(n, u)
    BY DEF MT!projected, projected, MT!Lesser, Lesser
  <1>3. \A n, a, u : MT!pay(n, a, u) = pay(n, a, u)
    BY <1>2 DEF MT!pay, pay, MT!accrue, accrue
  <1>4. \A t, l, a, u : MT!spend(t, l, a, u) = spend(t, l, a, u)
    BY <1>1, <1>3 DEF MT!spend, spend
  <1>5. \A t, l, a, u : check(t, l, a, u) => MT!check(t, l, a, u)
    <2>1. \A t, l : chain_ok(t, l) => MT!chain_ok(t, l)
      BY <1>1 DEF MT!chain_ok, chain_ok, MT!Cardinality, Cardinality
    <2>2. QED
      BY <1>1, <1>2, <2>1 DEF MT!check, check
  <1>6. QED
    BY <1>1, <1>4, <1>5
    DEF MT!insert_ok, insert_ok, MT!with_node, with_node, MT!with_revoked, with_revoked

\* What the two draining handlers do to the tree is one Spend of it.
LEMMA DrawSpends ==
  ASSUME NEW leaf \in MandateIds, NEW x \in 0..AMOUNT_MAX,
         check(mandates, leaf, x, time), DrawMandate(leaf, x), UNCHANGED time
  PROVE  MT!Next
  <1>1. MT!Spend(leaf, x)
    BY TreeOperators DEF DrawMandate, MT!Spend
  <1>2. QED
    BY <1>1 DEF MT!Next

\* What the assumptions say of the amounts.
LEMMA AmountsFit == Amounts \subseteq 0..AMOUNT_MAX /\ AMOUNT_MAX \in Nat /\ MaxTime \in Nat
  BY LedgerAssumption

\* Time passes with blocks only.
LEMMA TxTakesNoTime ==
  ASSUME NEW s \in Accounts, Tx(s)
  PROVE  UNCHANGED time
  BY DEF Tx, AssetTx, MandateTx, ChannelTx, do_transfer, do_account_create,
         do_asset_register, do_asset_mint, do_asset_burn, do_asset_freeze, do_asset_pause,
         do_mandate_create, do_mandate_spend, do_mandate_revoke,
         do_channel_open, do_channel_settle, do_channel_refund, clock

\* Block time is a natural number: NewBlock only adds to it.
LEMMA TimeIsNat == Spec => [](time \in Nat)
  <1>1. Init => time \in Nat
    BY DEF Init
  <1>2. time \in Nat /\ [Next]_vars => (time \in Nat)'
    BY TxTakesNoTime, AmountsFit DEF Next, NewBlock, vars
  <1>3. QED
    BY <1>1, <1>2, PTL DEF Spec

\* A step that leaves the mandates and the clock alone.
LEMMA TreeStays == UNCHANGED <<time, tree>> => UNCHANGED MT!vars
  BY DEF tree, MT!vars

\* A block lets time pass.
LEMMA BlockDrivesTree ==
  ASSUME time \in Nat, NEW dt \in 0..MaxTime, NewBlock(dt)
  PROVE  MT!Next \/ UNCHANGED MT!vars
  <1>1. UNCHANGED tree /\ time + dt <= MaxTime /\ time' = time + dt
    BY DEF NewBlock
  <1>2. CASE dt = 0
    BY TreeStays, <1>1, <1>2
  <1>3. CASE dt \in 1..MaxTime
    <2>1. MT!Tick(dt)
      BY <1>1 DEF MT!Tick, tree
    <2>2. QED
      BY <1>3, <2>1 DEF MT!Next
  <1>4. QED
    BY <1>1, <1>2, <1>3, AmountsFit

\* A transaction is one operation of the tree or leaves it alone.
LEMMA TxDrivesTree ==
  ASSUME time \in Nat, NEW s \in Accounts, Tx(s)
  PROVE  MT!Next \/ UNCHANGED MT!vars
  <1>1. ASSUME NEW q \in Requests, do_mandate_create(s, q) PROVE MT!Next
    <2>1. MT!Insert(q)
      BY <1>1, TreeOperators DEF do_mandate_create, clock, MT!Insert
    <2>2. QED
      BY <2>1 DEF MT!Next
  <1>2. ASSUME NEW m \in MandateIds, NEW to \in Accounts, NEW x \in Amounts,
               do_mandate_spend(s, m, to, x)
        PROVE  MT!Next
    <2>1. x \in 0..AMOUNT_MAX
      BY AmountsFit
    <2>2. QED
      BY <1>2, <2>1, DrawSpends DEF do_mandate_spend, sink_ok, clock
  <1>3. ASSUME NEW m \in MandateIds, do_mandate_revoke(s, m) PROVE MT!Next
    <2>1. MT!Revoke(m)
      BY <1>3, TreeOperators DEF do_mandate_revoke, clock, MT!Revoke
    <2>2. QED
      BY <2>1 DEF MT!Next
  <1>4. ASSUME NEW q \in Opens, do_channel_open(s, q) PROVE MT!Next
    <2> DEFINE d == q.unit_price * q.max_steps
    <2>1. q.mandate \in MandateIds /\ q.unit_price \in Nat /\ q.max_steps \in Nat
      BY LedgerAssumption DEF OpenRecords
    <2>2. d \in Nat /\ d <= AMOUNT_MAX
      BY <1>4, <2>1 DEF do_channel_open
    <2>3. check(mandates, q.mandate, d, time) /\ DrawMandate(q.mandate, d) /\ UNCHANGED time
      BY <1>4 DEF do_channel_open, sink_ok, clock
    <2> HIDE DEF d
    <2>4. QED
      BY <2>1, <2>2, <2>3, AmountsFit, DrawSpends
  <1>5. CASE UNCHANGED <<time, tree>>
    BY TreeStays, <1>5
  <1>6. MandateTx(s) => MT!Next
    BY <1>1, <1>2, <1>3 DEF MandateTx
  <1>7. AssetTx(s) => UNCHANGED <<time, tree>>
    BY DEF AssetTx, do_asset_register, do_asset_mint, do_asset_burn, do_asset_freeze,
           do_asset_pause, clock
  <1>8. ChannelTx(s) => MT!Next \/ UNCHANGED <<time, tree>>
    BY <1>4 DEF ChannelTx, do_channel_settle, do_channel_refund, clock
  <1>9. QED
    BY <1>5, <1>6, <1>7, <1>8 DEF Tx, do_transfer, do_account_create, clock

\* Every step of the ledger is a step of the tree or leaves the tree alone.
LEMMA TreeStep == time \in Nat /\ [Next]_vars => [MT!Next]_(MT!vars)
  <1>1. UNCHANGED vars => UNCHANGED MT!vars
    BY TreeStays DEF vars, tree
  <1>2. QED
    BY <1>1, BlockDrivesTree, TxDrivesTree DEF Next

\* The state machine drives the mandate tree only through its own operations
\* (do_mandate_create, do_mandate_spend, do_mandate_revoke, do_channel_open).
THEOREM LedgerImplementsMandateTree == Spec => ImplementsMandateTree
  <1>1. Init => MT!Init
    BY DEF Init, NoFunction, MT!Init
  <1>2. QED
    BY <1>1, TreeStep, TimeIsNat, PTL DEF Spec, ImplementsMandateTree, MT!Spec

-----------------------------------------------------------------------------
(* The tree inside the ledger                                              *)

\* The assumptions of the tree's theorems hold of the ledger's constants.
LEMMA TreeTheoremsApply ==
  /\ Requests \subseteq MTP!RequestRecords /\ 0..AMOUNT_MAX \subseteq Nat /\ MaxTime \in Nat
  /\ NoParent \notin MandateIds /\ MAX_DEPTH \in Nat \ {0}
  BY RequestsAssumption, AmountsFit, NoParentAssumption, DepthAssumption
  DEF MT!RequestRecords, MTP!RequestRecords

\* The tree the ledger implements is the one the tree's theorems are about.
LEMMA SameTree == MT!Spec => MTP!Spec
  <1>1. MT!Init => MTP!Init
    BY DEF MT!Init, MTP!Init
  <1>2. [MT!Next]_(MT!vars) => [MTP!Next]_(MTP!vars)
    <2>1. \A t, l : MTP!chain_of(t, l) = MT!chain_of(t, l)
      BY DEF MTP!chain_of, MTP!UpClosed, MT!chain_of, MT!UpClosed
    <2>2. \A n, u : MTP!projected(n, u) = MT!projected(n, u)
      BY DEF MTP!projected, MT!projected, MTP!Lesser, MT!Lesser
    <2>3. \A n, a, u : MTP!pay(n, a, u) = MT!pay(n, a, u)
      BY <2>2 DEF MTP!pay, MT!pay, MTP!accrue, MT!accrue
    <2>4. \A t, l, a, u : MTP!spend(t, l, a, u) = MT!spend(t, l, a, u)
      BY <2>1, <2>3 DEF MTP!spend, MT!spend
    <2>5. \A t, l, a, u : MT!check(t, l, a, u) => MTP!check(t, l, a, u)
      <3>1. \A t, l : MT!chain_ok(t, l) => MTP!chain_ok(t, l)
        BY <2>1 DEF MTP!chain_ok, MT!chain_ok, MTP!Cardinality, MT!Cardinality
      <3>2. QED
        BY <2>1, <2>2, <3>1 DEF MTP!check, MT!check
    <2>6. \A l, a : MT!Spend(l, a) => MTP!Spend(l, a)
      BY <2>1, <2>4, <2>5 DEF MTP!Spend, MT!Spend
    <2>7. \A q : MT!Insert(q) => MTP!Insert(q)
      <3>1. \A q, u : MTP!new_node(q, u) = MT!new_node(q, u)
        BY DEF MTP!new_node, MT!new_node, MTP!Lesser, MT!Lesser
      <3>2. \A t, n : MT!insert_ok(t, n) => MTP!insert_ok(t, n)
        BY DEF MTP!insert_ok, MT!insert_ok
      <3>3. \A t, i, n : MTP!with_node(t, i, n) = MT!with_node(t, i, n)
        BY DEF MTP!with_node, MT!with_node
      <3>4. QED
        BY <3>1, <3>2, <3>3 DEF MTP!Insert, MT!Insert
    <2>8. \A i : MT!Revoke(i) => MTP!Revoke(i)
      BY DEF MTP!Revoke, MT!Revoke, MTP!with_revoked, MT!with_revoked
    <2>9. \A d : MT!Tick(d) => MTP!Tick(d)
      BY DEF MTP!Tick, MT!Tick
    <2>10. MT!Observe => MTP!Observe
      BY DEF MTP!Observe, MT!Observe
    <2>11. QED
      BY <2>6, <2>7, <2>8, <2>9, <2>10 DEF MTP!Next, MT!Next, MTP!vars, MT!vars
  <1>3. QED
    BY <1>1, <1>2, PTL DEF MT!Spec, MTP!Spec

\* Whatever is true of the tree on its own is true of it in the ledger.
LEMMA TreeInLedger == Spec => []MTP!TreeInv
  <1>1. MTP!Spec => []MTP!TreeInv
    BY MTP!TreeInvariant, TreeTheoremsApply, PTL
  <1>2. QED
    BY <1>1, SameTree, LedgerImplementsMandateTree, PTL DEF ImplementsMandateTree

\* The budgets hold on the ledger: whatever mix of spends, channel openings,
\* revocations and blocks it applies, no mandate and its subtree draw more
\* than the opening buffer plus the drip since creation.
THEOREM LedgerEnvelopeBound == Spec => []MT!EnvelopeBound
  <1>1. MTP!Spec => []MTP!EnvelopeBound
    BY MTP!TreeEnvelopeBound, TreeTheoremsApply, PTL
  <1>2. MTP!EnvelopeBound => MT!EnvelopeBound
    BY DEF MTP!EnvelopeBound, MT!EnvelopeBound, MTP!projected, MT!projected,
           MTP!Lesser, MT!Lesser
  <1>3. QED
    BY <1>1, <1>2, SameTree, LedgerImplementsMandateTree, PTL DEF ImplementsMandateTree

-----------------------------------------------------------------------------
(* Balances                                                                *)

Balances == [Accounts -> [Assets -> Nat]]

\* Everything held of an asset under the balances b.
total(b, a) == SumOf([x \in Accounts |-> b[x][a]], Accounts)

\* The part of an amount of asset `of' that shows in asset a.
part(a, of, x) == IF a = of THEN x ELSE 0

\* No account holds more of an asset than all do together.
LEMMA TotalNat ==
  ASSUME NEW b \in Balances, NEW a \in Assets
  PROVE  total(b, a) \in Nat /\ \A x \in Accounts : b[x][a] \in Nat /\ b[x][a] <= total(b, a)
  <1> DEFINE f == [x \in Accounts |-> b[x][a]]
  <1>1. \A x \in Accounts : f[x] = b[x][a] /\ f[x] \in Nat
    BY DEF Balances
  <1> HIDE DEF f
  <1>2. SumOf(f, Accounts) \in Nat /\ \A x \in Accounts : f[x] <= SumOf(f, Accounts)
    BY <1>1, AllocationAssumption, SumNat, SumAbove
  <1>3. total(b, a) = SumOf(f, Accounts)
    BY DEF total, f
  <1>4. QED
    BY <1>1, <1>2, <1>3

with_balance(b, id, asset, v) == [b EXCEPT ![id][asset] = v]

\* Setting one balance moves the total of that asset by the difference.
LEMMA SetTotal ==
  ASSUME NEW b \in Balances, NEW id \in Accounts, NEW asset \in Assets, NEW v \in Nat
  PROVE  LET c == with_balance(b, id, asset, v) IN
         /\ c \in Balances
         /\ \A x \in Accounts, a \in Assets :
               c[x][a] = IF x = id /\ a = asset THEN v ELSE b[x][a]
         /\ \A a \in Assets : total(c, a) = total(b, a) + part(a, asset, v - b[id][asset])
  <1> DEFINE c == with_balance(b, id, asset, v)
  <1>1. c \in Balances
    BY DEF Balances, with_balance
  <1>2. \A x \in Accounts, a \in Assets :
               c[x][a] = IF x = id /\ a = asset THEN v ELSE b[x][a]
    BY DEF Balances, with_balance
  <1> HIDE DEF c
  <1>3. ASSUME NEW a \in Assets
        PROVE  total(c, a) = total(b, a) + part(a, asset, v - b[id][asset])
    <2> DEFINE f == [x \in Accounts |-> b[x][a]]
               e == [x \in Accounts |-> c[x][a]]
    <2>1. \A x \in Accounts : f[x] = b[x][a] /\ f[x] \in Nat /\ e[x] = c[x][a] /\ e[x] \in Nat
      BY <1>1 DEF Balances
    <2>2. \A x \in Accounts \ {id} : e[x] = f[x]
      BY <1>2
    <2>3. total(b, a) = SumOf(f, Accounts) /\ total(c, a) = SumOf(e, Accounts)
      BY DEF total
    <2> HIDE DEF e, f
    <2>4. SumOf(e, Accounts) = SumOf(f, Accounts) + (e[id] - f[id])
      BY <2>1, <2>2, AllocationAssumption, SumChange
    <2>5. e[id] - f[id] = part(a, asset, v - b[id][asset])
      BY <1>2, <2>1 DEF part
    <2>6. QED
      BY <2>3, <2>4, <2>5
  <1>4. QED
    BY <1>1, <1>2, <1>3 DEF c

\* A debit takes the amount from one account and from the total.
LEMMA DebitTotal ==
  ASSUME NEW b \in Balances, NEW id \in Accounts, NEW asset \in Assets, NEW n \in Nat,
         can_debit(b, id, asset, n)
  PROVE  LET c == debit(b, id, asset, n) IN
         /\ c \in Balances
         /\ \A x \in Accounts, a \in Assets :
               c[x][a] = IF x = id /\ a = asset THEN b[x][a] - n ELSE b[x][a]
         /\ \A a \in Assets : total(c, a) = total(b, a) - part(a, asset, n)
  <1> DEFINE c == debit(b, id, asset, n)
             v == b[id][asset] - n
  <1>1. v \in Nat /\ v - b[id][asset] = 0 - n
    BY DEF can_debit, Balances
  <1>2. c = with_balance(b, id, asset, v)
    BY DEF debit, with_balance
  <1> HIDE DEF c
  <1>3. \A a \in Assets : total(b, a) \in Nat
    BY TotalNat
  <1>4. /\ c \in Balances
        /\ \A x \in Accounts, a \in Assets : c[x][a] = IF x = id /\ a = asset THEN v ELSE b[x][a]
        /\ \A a \in Assets : total(c, a) = total(b, a) + part(a, asset, v - b[id][asset])
    <2> HIDE DEF v
    <2> QED
      BY <1>1, <1>2, SetTotal
  <1>5. QED
    BY <1>1, <1>3, <1>4 DEF part, c

\* A credit that fits does not saturate.
LEMMA CreditTotal ==
  ASSUME NEW b \in Balances, NEW id \in Accounts, NEW asset \in Assets, NEW n \in Nat,
         total(b, asset) + n <= AMOUNT_MAX
  PROVE  LET c == credit(b, id, asset, n) IN
         /\ c \in Balances
         /\ \A x \in Accounts, a \in Assets :
               c[x][a] = IF x = id /\ a = asset THEN b[x][a] + n ELSE b[x][a]
         /\ \A a \in Assets : total(c, a) = total(b, a) + part(a, asset, n)
  <1> DEFINE c == credit(b, id, asset, n)
             v == b[id][asset] + n
  <1>1. b[id][asset] \in Nat /\ b[id][asset] <= total(b, asset) /\ total(b, asset) \in Nat
    BY TotalNat
  <1>2. v \in Nat /\ v <= AMOUNT_MAX /\ v - b[id][asset] = n
    BY <1>1, AmountsFit
  <1>3. Lesser(v, AMOUNT_MAX) = v
    BY <1>2, AmountsFit DEF Lesser
  <1>4. c = with_balance(b, id, asset, v)
    BY <1>3 DEF credit, with_balance
  <1> HIDE DEF c
  <1>5. /\ c \in Balances
        /\ \A x \in Accounts, a \in Assets : c[x][a] = IF x = id /\ a = asset THEN v ELSE b[x][a]
        /\ \A a \in Assets : total(c, a) = total(b, a) + part(a, asset, v - b[id][asset])
    <2> HIDE DEF v
    <2> QED
      BY <1>2, <1>4, SetTotal
  <1>6. QED
    BY <1>2, <1>5 DEF part, c

\* Debit and credit of the same amount: the total stays.
LEMMA MoveTotal ==
  ASSUME NEW b \in Balances, NEW from \in Accounts, NEW to \in Accounts, NEW asset \in Assets,
         NEW n \in Nat, can_debit(b, from, asset, n), total(b, asset) <= AMOUNT_MAX
  PROVE  LET c == credit(debit(b, from, asset, n), to, asset, n) IN
         /\ c \in Balances
         /\ \A x \in Accounts, a \in Assets :
               /\ x \notin {from, to} \/ a # asset => c[x][a] = b[x][a]
               /\ x = to /\ a = asset => c[x][a] >= b[x][a] - n
         /\ \A a \in Assets : total(c, a) = total(b, a)
  <1> DEFINE d == debit(b, from, asset, n)
             c == credit(d, to, asset, n)
  <1>1. /\ d \in Balances
        /\ \A x \in Accounts, a \in Assets :
               d[x][a] = IF x = from /\ a = asset THEN b[x][a] - n ELSE b[x][a]
        /\ \A a \in Assets : total(d, a) = total(b, a) - part(a, asset, n)
    BY DebitTotal
  <1> HIDE DEF d
  <1>2. \A a \in Assets : total(b, a) \in Nat /\ \A x \in Accounts : b[x][a] \in Nat
    BY TotalNat
  <1>3. total(d, asset) + n <= AMOUNT_MAX
    BY <1>1, <1>2 DEF part
  <1>4. /\ c \in Balances
        /\ \A x \in Accounts, a \in Assets :
               c[x][a] = IF x = to /\ a = asset THEN d[x][a] + n ELSE d[x][a]
        /\ \A a \in Assets : total(c, a) = total(d, a) + part(a, asset, n)
    BY <1>1, <1>3, CreditTotal
  <1> HIDE DEF c
  <1>5. \A a \in Assets : total(c, a) = total(b, a)
    BY <1>1, <1>2, <1>4 DEF part
  <1>6. \A x \in Accounts, a \in Assets :
               /\ x \notin {from, to} \/ a # asset => c[x][a] = b[x][a]
               /\ x = to /\ a = asset => c[x][a] >= b[x][a] - n
    BY <1>1, <1>2, <1>4
  <1>7. QED
    BY <1>4, <1>5, <1>6 DEF c, d

-----------------------------------------------------------------------------
(* The inductive invariant                                                 *)

\* The parts of TypeOK that are about money, and the rest of EscrowBacked.
MoneyTyped ==
    /\ height \in Nat /\ time \in Nat
    /\ accounts \subseteq Accounts
    /\ balances \in Balances
    /\ DOMAIN assets \subseteq Assets /\ \A a \in DOMAIN assets : assets[a] \in AssetInfo
    /\ DOMAIN channels \subseteq ChannelIds /\ \A c \in DOMAIN channels : channels[c] \in Channels
    /\ fees_burned \in Nat

Exact(ch) ==
    /\ ch.highest_step_settled <= ch.max_steps
    /\ ch.escrow_remaining = IF ch.refunded THEN 0
          ELSE ch.unit_price * (ch.max_steps - ch.highest_step_settled)

\* Only an asset whose policy allows it is ever stopped, the fee asset is
\* registered by the genesis or never, and supplies fit.
Registry ==
    /\ GenesisAssets \subseteq DOMAIN assets
    /\ \A a \in DOMAIN assets :
          /\ a = fee_asset => a \in GenesisAssets
          /\ assets[a].paused => policy[a].pausable
          /\ assets[a].frozen # {} => policy[a].freezable
          /\ assets[a].supply <= AMOUNT_MAX

\* What is held of each asset in neither a balance nor a channel: nothing in the
\* transparent ledger, the pools' totals in the whole state machine.
Elsewhere == [Assets -> Nat]

Nowhere == [a \in Assets |-> 0]

BooksClose(o) == \A a \in Assets : held(a) + escrowed(a) + o[a] = issued(a) - fees(a)

\* The books close only while nothing saturates; nothing saturates while the
\* books close and supplies fit.
MoneyInv(o) ==
    MoneyTyped /\ (\A c \in DOMAIN channels : Exact(channels[c])) /\ BooksClose(o) /\ Registry

\* Exactly the roots have a funder.
Funded ==
    /\ DOMAIN root_funding = {m \in DOMAIN mandates : mandates[m].parent = NoParent}
    /\ \A m \in DOMAIN root_funding : root_funding[m] \in Accounts

\* What the tree's own theorems give.
TreeFacts == MTP!TreeInv /\ MTP!OneRoot

LedgerInv == MoneyInv(Nowhere) /\ Funded

\* Both modules walk the same chain.
LEMMA ChainInTree == \A t, l : MTP!chain_of(t, l) = chain_of(t, l)
  BY DEF MTP!chain_of, MTP!UpClosed, chain_of, UpClosed

\* The tree's invariant, read as types of the ledger's variables.
LEMMA MandatesTyped ==
  ASSUME MTP!TreeInv
  PROVE  /\ DOMAIN mandates \subseteq MandateIds
         /\ \A m \in DOMAIN mandates : mandates[m] \in Nodes(Accounts, Assets)
         /\ drawn \in [MandateIds -> Nat]
  BY DEF MTP!TreeInv, MTP!TypeOK, MTP!Tree, MTP!Nodes, Nodes

\* The account a spend is charged to exists, and is the same whatever root of
\* the leaf's chain one looks at.
LEMMA FunderExists ==
  ASSUME TreeFacts, Funded, NEW leaf \in DOMAIN mandates
  PROVE  /\ funder_of(leaf) \in Accounts
         /\ mandates[leaf].asset \in Assets
         /\ root_of(mandates, leaf) \in DOMAIN root_funding
         /\ \A r \in DOMAIN root_funding :
               r \in chain_of(mandates, leaf) => r = root_of(mandates, leaf)
  <1>1. PICK r \in DOMAIN mandates :
           /\ r \in chain_of(mandates, leaf) /\ mandates[r].parent = NoParent
           /\ \A x \in chain_of(mandates, leaf) : mandates[x].parent = NoParent => x = r
    BY ChainInTree DEF TreeFacts, MTP!OneRoot, MTP!IsRootOf
  <1>2. root_of(mandates, leaf) = r
    BY <1>1 DEF root_of
  <1>3. r \in DOMAIN root_funding
    BY <1>1 DEF Funded
  <1>4. mandates[leaf].asset \in Assets
    BY MandatesTyped DEF TreeFacts, Nodes
  <1>5. QED
    BY <1>1, <1>2, <1>3, <1>4 DEF Funded, funder_of

\* Escrows add up to a natural number, and issues to an integer that fits.
LEMMA SumsTyped ==
  ASSUME NEW o \in Elsewhere, MoneyInv(o), NEW a \in Assets
  PROVE  /\ escrowed(a) \in Nat /\ held(a) \in Nat /\ held(a) = total(balances, a)
         /\ issued(a) \in Int /\ issued(a) <= AMOUNT_MAX
         /\ fees(a) \in Nat /\ fees(a) = part(a, fee_asset, fees_burned)
  <1>1. escrowed(a) \in Nat
    <2> DEFINE f == [c \in DOMAIN channels |-> channels[c].escrow_remaining]
               S == {c \in DOMAIN channels : channels[c].asset = a}
    <2>1. IsFiniteSet(S)
      BY AllocationAssumption, FS_Subset DEF MoneyInv, MoneyTyped
    <2>2. \A c \in S : f[c] \in Nat
      BY DEF MoneyInv, MoneyTyped, Channels
    <2> HIDE DEF f, S
    <2>3. SumOf(f, S) \in Nat
      BY <2>1, <2>2, SumNat
    <2>4. QED
      BY <2>3 DEF escrowed, f, S
  <1>2. held(a) = total(balances, a) /\ held(a) \in Nat
    BY TotalNat DEF held, total, MoneyInv, MoneyTyped
  <1>3. issued(a) \in Int /\ issued(a) <= AMOUNT_MAX
    <2>1. CASE a \in DOMAIN assets
      BY <2>1, AmountsFit DEF issued, MoneyInv, MoneyTyped, Registry, AssetInfo
    <2>2. CASE a \notin DOMAIN assets
      <3>1. alloc \in Balances /\ allocated(a) = total(alloc, a)
        BY LedgerAssumption DEF Balances, allocated, total
      <3>2. allocated(a) \in Nat
        BY <3>1, TotalNat
      <3>3. QED
        BY <2>2, <3>2, AllocationAssumption DEF issued
    <2>3. QED
      BY <2>1, <2>2
  <1>4. fees(a) \in Nat /\ fees(a) = part(a, fee_asset, fees_burned)
    BY DEF fees, part, MoneyInv, MoneyTyped
  <1>5. QED
    BY <1>1, <1>2, <1>3, <1>4

\* apply_tx_at takes the fee off the sender and burns it, and the books of
\* the balances the handler sees close against the new fee total.
LEMMA FeeStep ==
  ASSUME NEW o \in Elsewhere, MoneyInv(o), NEW s \in Accounts, Sender(s), BurnFee
  PROVE  /\ fee \in Nat /\ fees_burned' \in Nat /\ fees_burned' = fees_burned + fee
         /\ paid(s) \in Balances
         /\ \A x \in Accounts, a \in Assets :
               paid(s)[x][a] = IF x = s /\ a = fee_asset THEN balances[x][a] - fee
                               ELSE balances[x][a]
         /\ \A a \in Assets :
               /\ total(paid(s), a) \in Nat /\ total(paid(s), a) <= AMOUNT_MAX
               /\ escrowed(a) \in Nat /\ issued(a) \in Int /\ issued(a) <= AMOUNT_MAX
               /\ total(paid(s), a) + escrowed(a) + o[a]
                     = issued(a) - part(a, fee_asset, fees_burned')
  <1>1. fee \in Nat /\ balances \in Balances /\ fees_burned \in Nat /\ fee_asset \in Assets
    BY LedgerAssumption DEF fee, MoneyInv, MoneyTyped
  <1>2. can_debit(balances, s, fee_asset, fee)
    BY DEF Sender
  <1> DEFINE p == paid(s)
  <1>3. /\ p \in Balances
        /\ \A x \in Accounts, a \in Assets :
              p[x][a] = IF x = s /\ a = fee_asset THEN balances[x][a] - fee ELSE balances[x][a]
        /\ \A a \in Assets : total(p, a) = total(balances, a) - part(a, fee_asset, fee)
    BY <1>1, <1>2, DebitTotal DEF paid
  <1> HIDE DEF p
  <1>4. \A a \in Assets : total(p, a) \in Nat
    BY <1>3, TotalNat
  <1>5. ASSUME NEW a \in Assets
        PROVE  /\ escrowed(a) \in Nat /\ issued(a) \in Int /\ issued(a) <= AMOUNT_MAX
               /\ total(balances, a) \in Nat
               /\ total(balances, a) + escrowed(a) + o[a]
                     = issued(a) - part(a, fee_asset, fees_burned)
               /\ o[a] \in Nat
    BY SumsTyped DEF MoneyInv, BooksClose, Elsewhere
  <1>6. fees_burned' = fees_burned + fee /\ fees_burned' \in Nat
    <2>1. total(p, fee_asset) = total(balances, fee_asset) - fee
      BY <1>1, <1>3 DEF part
    <2>2. total(balances, fee_asset) + escrowed(fee_asset) + o[fee_asset]
             = issued(fee_asset) - fees_burned
      BY <1>1, <1>5 DEF part
    <2>3. fees_burned + fee <= AMOUNT_MAX
      BY <1>1, <1>4, <1>5, <2>1, <2>2, AmountsFit
    <2>4. QED
      BY <1>1, <2>3, AmountsFit DEF BurnFee, Lesser
  <1>7. ASSUME NEW a \in Assets
        PROVE  /\ total(p, a) + escrowed(a) + o[a]
                     = issued(a) - part(a, fee_asset, fees_burned')
               /\ total(p, a) <= AMOUNT_MAX
    <2>1. CASE a = fee_asset
      <3>1. part(a, fee_asset, fee) = fee /\ part(a, fee_asset, fees_burned) = fees_burned
            /\ part(a, fee_asset, fees_burned') = fees_burned'
        BY <2>1 DEF part
      <3>2. QED
        BY <1>1, <1>3, <1>4, <1>5, <1>6, <3>1, AmountsFit
    <2>2. CASE a # fee_asset
      <3>1. part(a, fee_asset, fee) = 0 /\ part(a, fee_asset, fees_burned) = 0
            /\ part(a, fee_asset, fees_burned') = 0
        BY <2>2 DEF part
      <3>2. QED
        BY <1>1, <1>3, <1>4, <1>5, <1>6, <3>1, AmountsFit
    <2>3. QED
      BY <2>1, <2>2
  <1>8. QED
    BY <1>1, <1>3, <1>4, <1>5, <1>6, <1>7 DEF p

-----------------------------------------------------------------------------
(* Each transaction keeps the books                                        *)

AssetsFine ==
    /\ DOMAIN assets \subseteq Assets /\ \A a \in DOMAIN assets : assets[a] \in AssetInfo
    /\ Registry

ChannelsFine ==
    /\ DOMAIN channels \subseteq ChannelIds /\ \A c \in DOMAIN channels : channels[c] \in Channels
    /\ \A c \in DOMAIN channels : Exact(channels[c])

\* Assets nobody touches stay as they were, and so does what was issued.
LEMMA AssetsStay ==
  ASSUME NEW o \in Elsewhere, MoneyInv(o), UNCHANGED assets
  PROVE  AssetsFine' /\ \A a \in Assets : issued(a)' = issued(a)
  BY DEF MoneyInv, MoneyTyped, AssetsFine, Registry, issued

\* Channels nobody touches stay as they were, and so does the escrow.
LEMMA ChannelsStay ==
  ASSUME NEW o \in Elsewhere, MoneyInv(o), UNCHANGED channels
  PROVE  ChannelsFine' /\ \A a \in Assets : escrowed(a)' = escrowed(a)
  BY DEF MoneyInv, MoneyTyped, ChannelsFine, Exact, escrowed

\* A transaction keeps the books when, after the fee, balances, escrows and
\* what is held elsewhere together gain what was issued of each asset.
LEMMA BooksMove ==
  ASSUME NEW o \in Elsewhere, NEW w \in Elsewhere, MoneyInv(o),
         NEW s \in Accounts, Sender(s), BurnFee, UNCHANGED clock,
         (accounts \subseteq Accounts)', balances' \in Balances, AssetsFine', ChannelsFine',
         \A a \in Assets :
            /\ escrowed(a)' \in Nat /\ issued(a)' \in Int
            /\ total(balances', a) + escrowed(a)' + w[a] + issued(a)
                  = total(paid(s), a) + escrowed(a) + o[a] + issued(a)'
  PROVE  MoneyInv(w)'
  <1>1. fees_burned' \in Nat
    BY FeeStep
  <1>2. MoneyTyped'
    BY <1>1 DEF MoneyInv, MoneyTyped, clock, AssetsFine, ChannelsFine, Balances
  <1>3. ASSUME NEW a \in Assets PROVE held(a)' + escrowed(a)' + w[a] = issued(a)' - fees(a)'
    <2>1. held(a)' = total(balances', a)
      BY DEF held, total
    <2>2. fees(a)' = part(a, fee_asset, fees_burned')
      BY DEF fees, part
    <2>3. /\ total(paid(s), a) \in Nat /\ escrowed(a) \in Nat /\ issued(a) \in Int
          /\ total(paid(s), a) + escrowed(a) + o[a] = issued(a) - part(a, fee_asset, fees_burned')
      BY FeeStep
    <2>4. /\ part(a, fee_asset, fees_burned') \in Nat /\ total(balances', a) \in Nat
          /\ o[a] \in Nat /\ w[a] \in Nat
      BY <1>1, TotalNat DEF part, Elsewhere
    <2>5. /\ escrowed(a)' \in Nat /\ issued(a)' \in Int
          /\ total(balances', a) + escrowed(a)' + w[a] + issued(a)
                = total(paid(s), a) + escrowed(a) + o[a] + issued(a)'
      OBVIOUS
    <2>6. QED
      BY <2>1, <2>2, <2>3, <2>4, <2>5
  <1>4. BooksClose(w)'
    BY <1>3 DEF BooksClose
  <1>5. QED
    BY <1>2, <1>4 DEF MoneyInv, AssetsFine, ChannelsFine

\* The same when nothing moves elsewhere.
LEMMA Books ==
  ASSUME NEW o \in Elsewhere, MoneyInv(o),
         NEW s \in Accounts, Sender(s), BurnFee, UNCHANGED clock,
         (accounts \subseteq Accounts)', balances' \in Balances, AssetsFine', ChannelsFine',
         \A a \in Assets :
            /\ escrowed(a)' \in Nat /\ issued(a)' \in Int
            /\ total(balances', a) + escrowed(a)' + issued(a)
                  = total(paid(s), a) + escrowed(a) + issued(a)'
  PROVE  MoneyInv(o)'
  <1>1. ASSUME NEW a \in Assets
        PROVE  /\ escrowed(a)' \in Nat /\ issued(a)' \in Int
               /\ total(balances', a) + escrowed(a)' + o[a] + issued(a)
                     = total(paid(s), a) + escrowed(a) + o[a] + issued(a)'
    <2>1. total(paid(s), a) \in Nat /\ escrowed(a) \in Nat /\ issued(a) \in Int
      BY FeeStep
    <2>2. o[a] \in Nat /\ total(balances', a) \in Nat
      BY TotalNat DEF Elsewhere
    <2>3. QED
      BY <2>1, <2>2
  <1>2. QED
    BY <1>1, BooksMove

\* A transaction that only pays the fee or moves money between accounts.
LEMMA MoneyMoves ==
  ASSUME NEW o \in Elsewhere, MoneyInv(o),
         NEW s \in Accounts, Sender(s), BurnFee, UNCHANGED clock,
         (accounts \subseteq Accounts)', UNCHANGED assets, UNCHANGED channels,
         balances' \in Balances, \A a \in Assets : total(balances', a) = total(paid(s), a)
  PROVE  MoneyInv(o)'
  <1>1. AssetsFine' /\ \A a \in Assets : issued(a)' = issued(a)
    BY AssetsStay
  <1>2. ChannelsFine' /\ \A a \in Assets : escrowed(a)' = escrowed(a)
    BY ChannelsStay
  <1>3. \A a \in Assets :
           total(paid(s), a) \in Nat /\ escrowed(a) \in Nat /\ issued(a) \in Int
    BY FeeStep
  <1>4. QED
    BY <1>1, <1>2, <1>3, Books

\* debit and credit, from one account to another.
LEMMA PaymentMoves ==
  ASSUME NEW o \in Elsewhere, MoneyInv(o),
         NEW s \in Accounts, Sender(s), BurnFee, UNCHANGED clock,
         (accounts \subseteq Accounts)', UNCHANGED assets, UNCHANGED channels,
         NEW from \in Accounts, NEW to \in Accounts, NEW a \in Assets, NEW n \in Nat,
         can_debit(paid(s), from, a, n),
         balances' = credit(debit(paid(s), from, a, n), to, a, n)
  PROVE  MoneyInv(o)'
  <1>1. paid(s) \in Balances /\ total(paid(s), a) <= AMOUNT_MAX
    BY FeeStep
  <1> DEFINE b == paid(s)
  <1> HIDE DEF b
  <1>2. b \in Balances /\ can_debit(b, from, a, n) /\ total(b, a) <= AMOUNT_MAX
    BY <1>1 DEF b
  <1>3. balances' = credit(debit(b, from, a, n), to, a, n)
    BY DEF b
  <1>4. balances' \in Balances /\ \A x \in Assets : total(balances', x) = total(b, x)
    BY <1>2, <1>3, MoveTotal
  <1>5. QED
    BY <1>4, MoneyMoves DEF b

\* A transfer moves money between two accounts and takes the fee.
LEMMA TransferKeeps ==
  ASSUME NEW o \in Elsewhere, MoneyInv(o),
         NEW s \in Accounts, NEW to \in Accounts, NEW a \in Assets, NEW n \in Amounts,
         do_transfer(s, to, a, n)
  PROVE  MoneyInv(o)'
  <1>1. n \in Nat
    BY AmountsFit
  <1>2. (accounts \subseteq Accounts)'
    BY DEF do_transfer, MoneyInv, MoneyTyped
  <1>3. QED
    BY <1>1, <1>2, PaymentMoves DEF do_transfer

\* Creating an account moves its endowment out of the creator's.
LEMMA AccountCreateKeeps ==
  ASSUME NEW o \in Elsewhere, MoneyInv(o),
         NEW s \in Accounts, NEW id \in Accounts, NEW a \in Assets,
         NEW n \in Amounts \cup {0}, do_account_create(s, id, a, n)
  PROVE  MoneyInv(o)'
  <1>1. n \in Nat
    BY AmountsFit
  <1>2. (accounts \subseteq Accounts)'
    BY DEF do_account_create, MoneyInv, MoneyTyped
  <1>3. QED
    BY <1>1, <1>2, PaymentMoves DEF do_account_create

\* A spend debits the root's owner; the mandates of the chain only record it.
LEMMA MandateSpendKeeps ==
  ASSUME NEW o \in Elsewhere, MoneyInv(o),
         TreeFacts, Funded, NEW s \in Accounts, NEW leaf \in MandateIds,
         NEW to \in Accounts, NEW n \in Amounts, do_mandate_spend(s, leaf, to, n)
  PROVE  MoneyInv(o)'
  <1>1. n \in Nat
    BY AmountsFit
  <1>2. (accounts \subseteq Accounts)'
    BY DEF do_mandate_spend, MoneyInv, MoneyTyped
  <1>3. leaf \in DOMAIN mandates
    BY DEF do_mandate_spend, sink_ok
  <1>4. funder_of(leaf) \in Accounts /\ mandates[leaf].asset \in Assets
    BY <1>3, FunderExists
  <1>5. QED
    BY <1>1, <1>2, <1>4, PaymentMoves DEF do_mandate_spend

\* The handlers that touch no balance beyond the fee.
LEMMA FeeOnlyKeeps ==
  ASSUME NEW o \in Elsewhere, MoneyInv(o),
         NEW s \in Accounts, Sender(s), BurnFee, balances' = paid(s),
         UNCHANGED <<clock, accounts, channels>>, AssetsFine',
         \A a \in Assets : issued(a)' = issued(a)
  PROVE  MoneyInv(o)'
  <1>1. ChannelsFine' /\ \A a \in Assets : escrowed(a)' = escrowed(a)
    BY ChannelsStay
  <1>2. /\ paid(s) \in Balances
        /\ \A a \in Assets :
             total(paid(s), a) \in Nat /\ escrowed(a) \in Nat /\ issued(a) \in Int
    BY FeeStep
  <1>3. (accounts \subseteq Accounts)'
    BY DEF MoneyInv, MoneyTyped
  <1>4. QED
    BY <1>1, <1>2, <1>3, Books

\* register_asset starts a registry entry at zero, and an id that can be
\* registered was allocated nothing.
LEMMA RegisterKeeps ==
  ASSUME NEW o \in Elsewhere, MoneyInv(o),
         NEW s \in Accounts, NEW asset \in Assets, do_asset_register(s, asset)
  PROVE  MoneyInv(o)'
  <1> DEFINE e == [supply |-> 0, burned |-> 0, paused |-> FALSE, frozen |-> {}]
  <1>1. /\ asset \notin DOMAIN assets /\ issuer[asset] = s
        /\ assets' = with_node(assets, asset, e)
    BY DEF do_asset_register
  <1>2. /\ DOMAIN assets' = DOMAIN assets \cup {asset}
        /\ assets'[asset] = e /\ \A a \in DOMAIN assets : assets'[a] = assets[a]
    BY <1>1 DEF with_node
  <1>3. asset \notin GenesisAssets /\ issuer[asset] # NoIssuer
    BY <1>1, GenesisAssumption DEF MoneyInv, Registry
  <1>4. asset # fee_asset /\ \A x \in Accounts : alloc[x][asset] = 0
    BY <1>3, GenesisAssumption
  <1>5. allocated(asset) = 0
    <2> DEFINE f == [x \in Accounts |-> alloc[x][asset]]
    <2>1. \A x \in Accounts : f[x] = 0
      BY <1>4
    <2> HIDE DEF f
    <2>2. SumOf(f, Accounts) = 0
      BY <2>1, AllocationAssumption, SumZero
    <2>3. QED
      BY <2>2 DEF f, allocated
  <1>6. AssetsFine'
    <2>1. e \in AssetInfo
      BY DEF AssetInfo
    <2>2. e.paused = FALSE /\ e.frozen = {} /\ e.supply = 0
      OBVIOUS
    <2> HIDE DEF e
    <2>3. QED
      BY <1>2, <1>4, <2>1, <2>2, AmountsFit
      DEF AssetsFine, Registry, MoneyInv, MoneyTyped
  <1>7. ASSUME NEW a \in Assets PROVE issued(a)' = issued(a)
    <2>1. CASE a = asset
      BY <1>1, <1>2, <1>5, <2>1 DEF issued
    <2>2. CASE a # asset
      BY <1>2, <2>2 DEF issued
    <2>3. QED
      BY <2>1, <2>2
  <1>8. QED
    BY <1>6, <1>7, FeeOnlyKeeps DEF do_asset_register

\* Freezing or thawing an account moves no money.
LEMMA FreezeKeeps ==
  ASSUME NEW o \in Elsewhere, MoneyInv(o),
         NEW s \in Accounts, NEW asset \in Assets, NEW x \in Accounts,
         NEW on \in BOOLEAN, do_asset_freeze(s, asset, x, on)
  PROVE  MoneyInv(o)'
  <1> DEFINE fr == IF on THEN assets[asset].frozen \cup {x} ELSE assets[asset].frozen \ {x}
             e == [assets[asset] EXCEPT !.frozen = fr]
  <1>1. asset \in DOMAIN assets /\ policy[asset].freezable /\ assets[asset] \in AssetInfo
    BY DEF do_asset_freeze, issuer_entry, MoneyInv, MoneyTyped
  <1>2. /\ DOMAIN assets' = DOMAIN assets /\ assets'[asset] = e
        /\ \A a \in DOMAIN assets \ {asset} : assets'[a] = assets[a]
    BY <1>1 DEF do_asset_freeze
  <1>3. /\ e \in AssetInfo /\ e.supply = assets[asset].supply /\ e.burned = assets[asset].burned
        /\ e.paused = assets[asset].paused
    BY <1>1 DEF AssetInfo
  <1> HIDE DEF e
  <1>4. AssetsFine'
    BY <1>1, <1>2, <1>3 DEF AssetsFine, Registry, MoneyInv, MoneyTyped
  <1>5. \A a \in Assets : issued(a)' = issued(a)
    BY <1>1, <1>2, <1>3 DEF issued
  <1>6. QED
    BY <1>4, <1>5, FeeOnlyKeeps DEF do_asset_freeze

\* Pausing an asset moves no money.
LEMMA PauseKeeps ==
  ASSUME NEW o \in Elsewhere, MoneyInv(o), NEW s \in Accounts, NEW asset \in Assets,
         NEW on \in BOOLEAN, do_asset_pause(s, asset, on)
  PROVE  MoneyInv(o)'
  <1> DEFINE e == [assets[asset] EXCEPT !.paused = on]
  <1>1. asset \in DOMAIN assets /\ policy[asset].pausable /\ assets[asset] \in AssetInfo
    BY DEF do_asset_pause, issuer_entry, MoneyInv, MoneyTyped
  <1>2. /\ DOMAIN assets' = DOMAIN assets /\ assets'[asset] = e
        /\ \A a \in DOMAIN assets \ {asset} : assets'[a] = assets[a]
    BY <1>1 DEF do_asset_pause
  <1>3. /\ e \in AssetInfo /\ e.supply = assets[asset].supply /\ e.burned = assets[asset].burned
        /\ e.frozen = assets[asset].frozen
    BY <1>1 DEF AssetInfo
  <1> HIDE DEF e
  <1>4. AssetsFine'
    BY <1>1, <1>2, <1>3 DEF AssetsFine, Registry, MoneyInv, MoneyTyped
  <1>5. \A a \in Assets : issued(a)' = issued(a)
    BY <1>1, <1>2, <1>3 DEF issued
  <1>6. QED
    BY <1>4, <1>5, FeeOnlyKeeps DEF do_asset_pause

\* checked_add on the supply keeps the credit from saturating.
LEMMA MintKeeps ==
  ASSUME NEW o \in Elsewhere, MoneyInv(o),
         NEW s \in Accounts, NEW asset \in Assets, NEW to \in Accounts,
         NEW n \in Amounts, do_asset_mint(s, asset, to, n)
  PROVE  MoneyInv(o)'
  <1> DEFINE e == [assets[asset] EXCEPT !.supply = @ + n]
  <1>1. /\ asset \in DOMAIN assets /\ assets[asset] \in AssetInfo
        /\ n \in Nat /\ assets[asset].supply + n <= AMOUNT_MAX
    BY AmountsFit DEF do_asset_mint, issuer_entry, MoneyInv, MoneyTyped
  <1>2. /\ DOMAIN assets' = DOMAIN assets /\ assets'[asset] = e
        /\ \A a \in DOMAIN assets \ {asset} : assets'[a] = assets[a]
    BY <1>1 DEF do_asset_mint
  <1>3. /\ e \in AssetInfo /\ e.supply = assets[asset].supply + n
        /\ e.burned = assets[asset].burned /\ e.paused = assets[asset].paused
        /\ e.frozen = assets[asset].frozen
        /\ assets[asset].supply \in Nat /\ assets[asset].burned \in Nat
    BY <1>1 DEF AssetInfo
  <1> HIDE DEF e
  <1>4. AssetsFine'
    BY <1>1, <1>2, <1>3 DEF AssetsFine, Registry, MoneyInv, MoneyTyped
  <1>5. /\ \A a \in Assets \ {asset} : issued(a)' = issued(a)
        /\ issued(asset)' = issued(asset) + n
        /\ issued(asset) = assets[asset].supply - assets[asset].burned
    BY <1>1, <1>2, <1>3 DEF issued
  <1>6. Sender(s) /\ BurnFee /\ UNCHANGED <<clock, accounts, channels>>
    BY DEF do_asset_mint
  <1> DEFINE b == paid(s)
  <1>7. balances' = credit(b, to, asset, n)
    BY DEF do_asset_mint
  <1>8. /\ b \in Balances
        /\ \A a \in Assets :
              /\ total(b, a) \in Nat /\ escrowed(a) \in Nat /\ issued(a) \in Int
              /\ total(b, a) + escrowed(a) + o[a] = issued(a) - part(a, fee_asset, fees_burned')
              /\ o[a] \in Nat
        /\ fees_burned' \in Nat
    BY <1>6, FeeStep DEF Elsewhere
  <1> HIDE DEF b
  <1>9. total(b, asset) + n <= AMOUNT_MAX
    <2>1. part(asset, fee_asset, fees_burned') \in Nat
      BY <1>8 DEF part
    <2>2. QED
      BY <1>1, <1>3, <1>5, <1>8, <2>1, AmountsFit
  <1>10. /\ balances' \in Balances
         /\ \A a \in Assets : total(balances', a) = total(b, a) + part(a, asset, n)
    BY <1>1, <1>7, <1>8, <1>9, CreditTotal
  <1>11. ChannelsFine' /\ \A a \in Assets : escrowed(a)' = escrowed(a)
    BY <1>6, ChannelsStay
  <1>12. ASSUME NEW a \in Assets
         PROVE  /\ escrowed(a)' \in Nat /\ issued(a)' \in Int
                /\ total(balances', a) + escrowed(a)' + issued(a)
                      = total(b, a) + escrowed(a) + issued(a)'
    BY <1>1, <1>5, <1>8, <1>10, <1>11 DEF part
  <1>13. (accounts \subseteq Accounts)'
    BY <1>6 DEF MoneyInv, MoneyTyped
  <1>14. QED
    BY <1>4, <1>6, <1>10, <1>11, <1>12, <1>13, Books DEF b

\* What is burned was issued, so the burned total does not saturate either.
LEMMA BurnKeeps ==
  ASSUME NEW o \in Elsewhere, MoneyInv(o),
         NEW s \in Accounts, NEW asset \in Assets, NEW n \in Amounts,
         do_asset_burn(s, asset, n)
  PROVE  MoneyInv(o)'
  <1> DEFINE e == [assets[asset] EXCEPT !.burned = Lesser(@ + n, AMOUNT_MAX)]
             b == paid(s)
  <1>1. /\ asset \in DOMAIN assets /\ assets[asset] \in AssetInfo /\ n \in Nat
        /\ assets[asset].supply <= AMOUNT_MAX
    BY AmountsFit DEF do_asset_burn, MoneyInv, MoneyTyped, Registry
  <1>2. Sender(s) /\ BurnFee /\ UNCHANGED <<clock, accounts, channels>>
    BY DEF do_asset_burn
  <1>3. /\ b \in Balances
        /\ \A a \in Assets :
              /\ total(b, a) \in Nat /\ escrowed(a) \in Nat /\ issued(a) \in Int
              /\ total(b, a) + escrowed(a) + o[a] = issued(a) - part(a, fee_asset, fees_burned')
              /\ o[a] \in Nat
        /\ fees_burned' \in Nat
    BY <1>2, FeeStep DEF Elsewhere
  <1>4. can_debit(b, s, asset, n) /\ balances' = debit(b, s, asset, n)
    BY DEF do_asset_burn
  <1>5. /\ DOMAIN assets' = DOMAIN assets /\ assets'[asset] = e
        /\ \A a \in DOMAIN assets \ {asset} : assets'[a] = assets[a]
    BY <1>1 DEF do_asset_burn
  <1>6. assets[asset].burned \in Nat /\ assets[asset].supply \in Nat
    BY <1>1 DEF AssetInfo
  <1> HIDE DEF b
  <1>7. assets[asset].burned + n <= AMOUNT_MAX
    <2>1. n <= total(b, asset)
      BY <1>1, <1>3, <1>4, TotalNat DEF can_debit
    <2>2. issued(asset) = assets[asset].supply - assets[asset].burned
      BY <1>1 DEF issued
    <2>3. part(asset, fee_asset, fees_burned') \in Nat
      BY <1>3 DEF part
    <2>4. QED
      BY <1>1, <1>3, <1>6, <2>1, <2>2, <2>3, AmountsFit
  <1>8. /\ e \in AssetInfo /\ e.supply = assets[asset].supply
        /\ e.burned = assets[asset].burned + n /\ e.paused = assets[asset].paused
        /\ e.frozen = assets[asset].frozen
    BY <1>1, <1>6, <1>7, AmountsFit DEF AssetInfo, Lesser
  <1> HIDE DEF e
  <1>9. AssetsFine'
    BY <1>1, <1>5, <1>8 DEF AssetsFine, Registry, MoneyInv, MoneyTyped
  <1>10. /\ \A a \in Assets \ {asset} : issued(a)' = issued(a)
         /\ issued(asset)' = issued(asset) - n
    BY <1>1, <1>5, <1>6, <1>8 DEF issued
  <1>11. /\ balances' \in Balances
         /\ \A a \in Assets : total(balances', a) = total(b, a) - part(a, asset, n)
    BY <1>1, <1>3, <1>4, DebitTotal
  <1>12. ChannelsFine' /\ \A a \in Assets : escrowed(a)' = escrowed(a)
    BY <1>2, ChannelsStay
  <1>13. ASSUME NEW a \in Assets
         PROVE  /\ escrowed(a)' \in Nat /\ issued(a)' \in Int
                /\ total(balances', a) + escrowed(a)' + issued(a)
                      = total(b, a) + escrowed(a) + issued(a)'
    BY <1>1, <1>3, <1>10, <1>11, <1>12 DEF part
  <1>14. (accounts \subseteq Accounts)'
    BY <1>2 DEF MoneyInv, MoneyTyped
  <1>15. QED
    BY <1>2, <1>9, <1>11, <1>12, <1>13, <1>14, Books DEF b

\* Creating or revoking a mandate costs the fee and nothing else.
LEMMA MandateFeeKeeps ==
  ASSUME NEW o \in Elsewhere, MoneyInv(o), NEW s \in Accounts,
         (\E q \in Requests : do_mandate_create(s, q)) \/ (\E m \in MandateIds : do_mandate_revoke(s, m))
  PROVE  MoneyInv(o)'
  <1>1. /\ Sender(s) /\ BurnFee /\ balances' = paid(s)
        /\ UNCHANGED <<clock, accounts, channels>> /\ UNCHANGED assets
    BY DEF do_mandate_create, do_mandate_revoke
  <1>2. QED
    BY <1>1, AssetsStay, FeeOnlyKeeps

-----------------------------------------------------------------------------
(* Escrows                                                                 *)

\* Everything escrowed of an asset in the channels t.
escrow_in(t, a) == SumOf([c \in DOMAIN t |-> t[c].escrow_remaining], {c \in DOMAIN t : t[c].asset = a})

ChannelTable(t) == DOMAIN t \subseteq ChannelIds /\ \A c \in DOMAIN t : t[c] \in Channels

\* Changing one channel's escrow changes the sum by the difference.
LEMMA ChangeEscrow ==
  ASSUME NEW t, NEW u, ChannelTable(t), ChannelTable(u), DOMAIN u = DOMAIN t, NEW id \in DOMAIN t,
         \A c \in DOMAIN t \ {id} : u[c] = t[c], u[id].asset = t[id].asset
  PROVE  /\ t[id].escrow_remaining <= escrow_in(t, t[id].asset)
         /\ \A a \in Assets : escrow_in(u, a) = escrow_in(t, a)
               + part(a, t[id].asset, u[id].escrow_remaining - t[id].escrow_remaining)
  <1> DEFINE f == [c \in DOMAIN t |-> t[c].escrow_remaining]
             e == [c \in DOMAIN u |-> u[c].escrow_remaining]
             S(a) == {c \in DOMAIN t : t[c].asset = a}
  <1>1. \A c \in DOMAIN t : /\ f[c] = t[c].escrow_remaining /\ f[c] \in Nat
                            /\ e[c] = u[c].escrow_remaining /\ e[c] \in Nat
    BY DEF ChannelTable, Channels
  <1>2. \A a : IsFiniteSet(S(a))
    BY AllocationAssumption, FS_Subset DEF ChannelTable
  <1>3. \A a : {c \in DOMAIN u : u[c].asset = a} = S(a)
    OBVIOUS
  <1>4. \A c \in DOMAIN t \ {id} : e[c] = f[c]
    BY <1>1
  <1>5. \A a : escrow_in(t, a) = SumOf(f, S(a)) /\ escrow_in(u, a) = SumOf(e, S(a))
    BY <1>3 DEF escrow_in
  <1>6. \A a : S(a) \subseteq DOMAIN t /\ (id \in S(a) <=> a = t[id].asset)
    OBVIOUS
  <1> HIDE DEF f, e, S
  <1>7. t[id].escrow_remaining <= escrow_in(t, t[id].asset)
    <2>1. id \in S(t[id].asset) /\ \A c \in S(t[id].asset) : f[c] \in Nat
      BY <1>1, <1>6
    <2>2. f[id] <= SumOf(f, S(t[id].asset))
      BY <1>2, <2>1, SumAbove
    <2>3. QED
      BY <1>1, <1>5, <2>2
  <1>8. ASSUME NEW a \in Assets
        PROVE  escrow_in(u, a) = escrow_in(t, a)
                  + part(a, t[id].asset, u[id].escrow_remaining - t[id].escrow_remaining)
    <2> DEFINE X == S(a)
    <2>1. IsFiniteSet(X) /\ \A c \in X : f[c] \in Nat /\ e[c] \in Nat
      BY <1>1, <1>2, <1>6
    <2>2. \A c \in X \ {id} : e[c] = f[c]
      BY <1>4, <1>6
    <2>3. CASE a = t[id].asset
      <3>1. id \in X
        BY <1>6, <2>3
      <3> HIDE DEF X
      <3>2. SumOf(e, X) = SumOf(f, X) + (e[id] - f[id])
        BY <2>1, <2>2, <3>1, SumChange
      <3>3. QED
        BY <1>1, <1>5, <2>3, <3>2 DEF part, X
    <2>4. CASE a # t[id].asset
      <3>1. \A c \in X : e[c] = f[c]
        BY <1>6, <2>2, <2>4
      <3> HIDE DEF X
      <3>2. SumOf(e, X) = SumOf(f, X) /\ SumOf(f, X) \in Nat
        BY <2>1, <3>1, SumCongruent, SumNat
      <3>3. QED
        BY <1>5, <2>4, <3>2 DEF part, X
    <2>5. QED
      BY <2>3, <2>4
  <1>9. QED
    BY <1>7, <1>8

\* Opening a channel adds its escrow.
LEMMA OpenEscrow ==
  ASSUME NEW t, ChannelTable(t), NEW id \in ChannelIds, id \notin DOMAIN t, NEW n \in Channels
  PROVE  \A a \in Assets :
           /\ escrow_in(t, a) \in Nat
           /\ escrow_in(with_node(t, id, n), a)
                 = escrow_in(t, a) + part(a, n.asset, n.escrow_remaining)
  <1> DEFINE u == with_node(t, id, n)
             f == [c \in DOMAIN t |-> t[c].escrow_remaining]
             e == [c \in DOMAIN u |-> u[c].escrow_remaining]
  <1>1. DOMAIN u = DOMAIN t \cup {id} /\ u[id] = n /\ \A c \in DOMAIN t : u[c] = t[c]
    BY DEF with_node
  <1> HIDE DEF u
  <1>2. n.escrow_remaining \in Nat
    BY DEF Channels
  <1>3. \A c \in DOMAIN t : f[c] = t[c].escrow_remaining /\ f[c] \in Nat
    BY DEF ChannelTable, Channels
  <1>4. \A c \in DOMAIN t : e[c] = f[c]
    BY <1>1
  <1>5. e[id] = n.escrow_remaining
    BY <1>1
  <1>6. ASSUME NEW a \in Assets
        PROVE  /\ escrow_in(t, a) \in Nat
               /\ escrow_in(u, a) = escrow_in(t, a) + part(a, n.asset, n.escrow_remaining)
    <2> DEFINE X == {c \in DOMAIN t : t[c].asset = a}
               Y == {c \in DOMAIN u : u[c].asset = a}
    <2>1. IsFiniteSet(X) /\ X \subseteq DOMAIN t /\ id \notin X
      BY AllocationAssumption, FS_Subset DEF ChannelTable
    <2>2. escrow_in(t, a) = SumOf(f, X) /\ escrow_in(u, a) = SumOf(e, Y)
      BY DEF escrow_in
    <2>3. Y = IF n.asset = a THEN X \cup {id} ELSE X
      BY <1>1
    <2> HIDE DEF X, Y, f, e
    <2>4. SumOf(e, X) = SumOf(f, X)
      BY <1>4, <2>1, SumCongruent
    <2>5. SumOf(f, X) \in Nat
      BY <1>3, <2>1, SumNat
    <2>6. CASE n.asset = a
      <3>1. \A c \in X \cup {id} : e[c] \in Nat
        BY <1>2, <1>3, <1>4, <1>5, <2>1
      <3>2. SumOf(e, X \cup {id}) = SumOf(e, X) + e[id]
        BY <2>1, <3>1, SumAdd
      <3>3. QED
        BY <1>5, <2>2, <2>3, <2>4, <2>5, <2>6, <3>2 DEF part
    <2>7. CASE n.asset # a
      BY <2>2, <2>3, <2>4, <2>5, <2>7 DEF part
    <2>8. QED
      BY <2>6, <2>7
  <1>7. QED
    BY <1>6 DEF u

\* The escrow of an asset, as a sum over the channels before and after a step.
LEMMA EscrowedIs == \A a : escrowed(a) = escrow_in(channels, a) /\ escrowed(a)' = escrow_in(channels', a)
  BY DEF escrowed, escrow_in

\* Money that leaves one escrow for one balance.
LEMMA ReleaseKeeps ==
  ASSUME NEW o \in Elsewhere, MoneyInv(o),
         NEW s \in Accounts, Sender(s), BurnFee, UNCHANGED <<clock, accounts, assets>>,
         NEW id \in DOMAIN channels, NEW to \in Accounts, NEW n \in Nat,
         n <= channels[id].escrow_remaining,
         balances' = credit(paid(s), to, channels[id].asset, n),
         ChannelsFine', DOMAIN channels' = DOMAIN channels,
         \A c \in DOMAIN channels \ {id} : channels'[c] = channels[c],
         channels'[id].asset = channels[id].asset,
         channels'[id].escrow_remaining = channels[id].escrow_remaining - n
  PROVE  MoneyInv(o)'
  <1> DEFINE b == paid(s)
             asset == channels[id].asset
  <1>1. asset \in Assets /\ channels[id].escrow_remaining \in Nat
    BY DEF MoneyInv, MoneyTyped, Channels
  <1>2. /\ b \in Balances /\ fees_burned' \in Nat
        /\ \A a \in Assets :
              /\ total(b, a) \in Nat /\ escrowed(a) \in Nat /\ issued(a) \in Int
              /\ issued(a) <= AMOUNT_MAX
              /\ total(b, a) + escrowed(a) + o[a] = issued(a) - part(a, fee_asset, fees_burned')
              /\ o[a] \in Nat
    BY FeeStep DEF Elsewhere
  <1>3. /\ channels[id].escrow_remaining <= escrowed(asset)
        /\ \A a \in Assets : escrowed(a)' = escrowed(a)
              + part(a, asset, channels'[id].escrow_remaining - channels[id].escrow_remaining)
    <2>1. ChannelTable(channels) /\ ChannelTable(channels')
      BY DEF ChannelTable, MoneyInv, MoneyTyped, ChannelsFine
    <2>2. QED
      BY <2>1, ChangeEscrow, EscrowedIs
  <1>4. balances' = credit(b, to, asset, n)
    OBVIOUS
  <1> HIDE DEF b, asset
  <1>5. total(b, asset) + n <= AMOUNT_MAX
    <2>1. part(asset, fee_asset, fees_burned') \in Nat
      BY <1>2 DEF part
    <2>2. QED
      BY <1>1, <1>2, <1>3, <2>1, AmountsFit
  <1>6. /\ balances' \in Balances
        /\ \A a \in Assets : total(balances', a) = total(b, a) + part(a, asset, n)
    BY <1>1, <1>2, <1>4, <1>5, CreditTotal
  <1>7. AssetsFine' /\ \A a \in Assets : issued(a)' = issued(a)
    BY AssetsStay
  <1>8. \A a \in Assets : escrowed(a)' = escrowed(a) - part(a, asset, n)
    BY <1>1, <1>2, <1>3 DEF part
  <1>9. ASSUME NEW a \in Assets
        PROVE  /\ escrowed(a)' \in Nat /\ issued(a)' \in Int
               /\ total(balances', a) + escrowed(a)' + issued(a)
                     = total(b, a) + escrowed(a) + issued(a)'
    <2>1. CASE a = asset
      <3>1. part(a, asset, n) = n
        BY <2>1 DEF part
      <3>2. escrowed(a)' = escrowed(a) - n /\ total(balances', a) = total(b, a) + n
        BY <1>6, <1>8, <3>1
      <3>3. n <= escrowed(a)
        BY <1>1, <1>2, <1>3, <2>1
      <3>4. QED
        BY <1>2, <1>7, <3>2, <3>3
    <2>2. CASE a # asset
      <3>1. part(a, asset, n) = 0
        BY <2>2 DEF part
      <3>2. escrowed(a)' = escrowed(a) /\ total(balances', a) = total(b, a)
        BY <1>2, <1>6, <1>8, <3>1
      <3>3. QED
        BY <1>2, <1>7, <3>2
    <2>3. QED
      BY <2>1, <2>2
  <1>10. (accounts \subseteq Accounts)'
    BY DEF MoneyInv, MoneyTyped
  <1>11. QED
    BY <1>6, <1>7, <1>9, <1>10, Books DEF b

\* A settlement takes out of the escrow exactly the price of the steps it
\* settles, and the escrow covers them.
LEMMA SettleKeeps ==
  ASSUME NEW o \in Elsewhere, MoneyInv(o), NEW s \in Accounts, NEW id \in DOMAIN channels,
         NEW step \in 1..channels[id].max_steps, do_channel_settle(s, id, step)
  PROVE  MoneyInv(o)'
  <1> DEFINE ch    == channels[id]
             newly == step - ch.highest_step_settled
             n     == ch.unit_price * newly
             rest  == ch.unit_price * (ch.max_steps - step)
             new   == channels'[id]
  <1>1. ch \in Channels /\ Exact(ch)
    BY DEF MoneyInv, MoneyTyped
  <1>2. /\ ch.unit_price \in Nat /\ ch.max_steps \in Nat /\ ch.highest_step_settled \in Nat
        /\ ch.escrow_remaining \in Nat /\ ch.payee \in Accounts
    BY <1>1 DEF Channels
  <1>3. ~ch.refunded /\ step \in Nat /\ ch.highest_step_settled < step /\ step <= ch.max_steps
    BY <1>2 DEF do_channel_settle
  <1>4. n \in Nat /\ rest \in Nat /\ newly \in Nat /\ ch.max_steps - step \in Nat
    BY <1>2, <1>3
  <1>5. ch.escrow_remaining = rest + n
    <2>1. ch.escrow_remaining = ch.unit_price * (ch.max_steps - ch.highest_step_settled)
      BY <1>1, <1>3 DEF Exact
    <2>2. ch.max_steps - ch.highest_step_settled = (ch.max_steps - step) + newly
      BY <1>2, <1>3
    <2>3. \A p, x, y \in Nat : p * (x + y) = p * x + p * y
      OBVIOUS
    <2>4. QED
      BY <1>2, <1>4, <2>1, <2>2, <2>3
  <1>6. /\ DOMAIN channels' = DOMAIN channels
        /\ \A c \in DOMAIN channels \ {id} : channels'[c] = channels[c]
        /\ new = [ch EXCEPT !.highest_step_settled = step, !.escrow_remaining = @ - n]
    BY DEF do_channel_settle
  <1>7. ch.escrow_remaining - n = rest
    BY <1>2, <1>4, <1>5
  <1> HIDE DEF n, rest
  <1>8. /\ new \in Channels /\ new.asset = ch.asset /\ new.escrow_remaining = rest
        /\ new.highest_step_settled = step /\ new.max_steps = ch.max_steps
        /\ new.unit_price = ch.unit_price /\ ~new.refunded
    BY <1>1, <1>3, <1>4, <1>6, <1>7 DEF Channels
  <1>9. Exact(new)
    BY <1>3, <1>8 DEF Exact, rest
  <1>10. ChannelsFine'
    BY <1>6, <1>8, <1>9 DEF ChannelsFine, MoneyInv, MoneyTyped
  <1>11. n <= ch.escrow_remaining
    BY <1>2, <1>4, <1>5
  <1>12. /\ Sender(s) /\ BurnFee /\ UNCHANGED <<clock, accounts, assets>>
         /\ balances' = credit(paid(s), ch.payee, ch.asset, n)
    BY DEF do_channel_settle, n
  <1>13. QED
    BY <1>2, <1>4, <1>6, <1>7, <1>8, <1>10, <1>11, <1>12, ReleaseKeeps

\* A refund gives the rest of the escrow back and closes the channel.
LEMMA RefundKeeps ==
  ASSUME NEW o \in Elsewhere, MoneyInv(o),
         NEW s \in Accounts, NEW id \in DOMAIN channels, do_channel_refund(s, id)
  PROVE  MoneyInv(o)'
  <1> DEFINE ch  == channels[id]
             new == channels'[id]
             n   == ch.escrow_remaining
  <1>1. ch \in Channels /\ Exact(ch)
    BY DEF MoneyInv, MoneyTyped
  <1>2. n \in Nat /\ ch.payer \in Accounts
    BY <1>1 DEF Channels
  <1>3. /\ DOMAIN channels' = DOMAIN channels
        /\ \A c \in DOMAIN channels \ {id} : channels'[c] = channels[c]
        /\ new = [ch EXCEPT !.escrow_remaining = 0, !.refunded = TRUE]
    BY DEF do_channel_refund
  <1>4. /\ new \in Channels /\ new.asset = ch.asset /\ new.escrow_remaining = 0
        /\ new.highest_step_settled = ch.highest_step_settled /\ new.max_steps = ch.max_steps
        /\ new.refunded
    <2> DEFINE on == TRUE
    <2>1. on \in BOOLEAN /\ new = [ch EXCEPT !.escrow_remaining = 0, !.refunded = on]
      BY <1>3
    <2> HIDE DEF on
    <2>2. ch \in Channels
      BY <1>1
    <2> HIDE DEF ch, new
    <2>3. new \in Channels
      BY <2>1, <2>2 DEF Channels
    <2>4. /\ new.asset = ch.asset /\ new.escrow_remaining = 0
          /\ new.highest_step_settled = ch.highest_step_settled /\ new.max_steps = ch.max_steps
      BY <2>1, <2>2 DEF Channels
    <2>5. new.refunded = on
      BY <2>1, <2>2 DEF Channels
    <2>6. QED
      BY <2>3, <2>4, <2>5 DEF on
  <1>5. Exact(new)
    BY <1>1, <1>4 DEF Exact
  <1>6. ChannelsFine'
    BY <1>3, <1>4, <1>5 DEF ChannelsFine, MoneyInv, MoneyTyped
  <1>7. /\ Sender(s) /\ BurnFee /\ UNCHANGED <<clock, accounts, assets>>
        /\ balances' = credit(paid(s), ch.payer, ch.asset, n)
    BY DEF do_channel_refund
  <1>8. n <= n /\ 0 = n - n
    BY <1>2
  <1>10. channels'[id].asset = channels[id].asset
         /\ channels'[id].escrow_remaining = channels[id].escrow_remaining - n
    BY <1>4, <1>8
  <1>11. n <= channels[id].escrow_remaining
         /\ balances' = credit(paid(s), ch.payer, channels[id].asset, n)
    BY <1>7, <1>8
  <1> HIDE DEF n, new
  <1>9. QED
    BY <1>10, <1>11, <1>2, <1>3, <1>4, <1>6, <1>7, <1>8, ReleaseKeeps

\* The deposit moves from the funder's balance into the new escrow.
LEMMA OpenKeeps ==
  ASSUME NEW o \in Elsewhere, MoneyInv(o),
         TreeFacts, Funded, NEW s \in Accounts, NEW q \in Opens, do_channel_open(s, q)
  PROVE  MoneyInv(o)'
  <1> DEFINE d   == q.unit_price * q.max_steps
             f   == funder_of(q.mandate)
             b   == paid(s)
             new == [payer |-> s, payee |-> q.payee, asset |-> q.asset,
                     unit_price |-> q.unit_price, max_steps |-> q.max_steps,
                     highest_step_settled |-> 0, expiry |-> q.expiry,
                     escrow_remaining |-> d, refunded |-> FALSE]
  <1>1. /\ q.id \in ChannelIds /\ q.payee \in Accounts /\ q.asset \in Assets
        /\ q.unit_price \in Nat /\ q.max_steps \in Nat /\ q.expiry \in Nat
    BY LedgerAssumption DEF OpenRecords
  <1>2. d \in Nat /\ d = q.unit_price * (q.max_steps - 0)
    BY <1>1
  <1>3. f \in Accounts
    BY FunderExists DEF do_channel_open, sink_ok
  <1>4. /\ Sender(s) /\ BurnFee /\ UNCHANGED <<clock, accounts, assets>>
        /\ q.id \notin DOMAIN channels /\ channels' = with_node(channels, q.id, new)
        /\ can_debit(b, f, q.asset, d) /\ balances' = debit(b, f, q.asset, d)
    BY DEF do_channel_open
  <1> HIDE DEF d
  <1>5. new \in Channels /\ Exact(new) /\ new.asset = q.asset /\ new.escrow_remaining = d
    BY <1>1, <1>2 DEF Channels, Exact
  <1> HIDE DEF new
  <1>6. /\ b \in Balances
        /\ \A a \in Assets : total(b, a) \in Nat /\ escrowed(a) \in Nat /\ issued(a) \in Int
    BY <1>4, FeeStep
  <1> HIDE DEF b, f
  <1>7. /\ balances' \in Balances
        /\ \A a \in Assets : total(balances', a) = total(b, a) - part(a, q.asset, d)
    BY <1>1, <1>2, <1>3, <1>4, <1>6, DebitTotal
  <1>8. \A a \in Assets : escrowed(a)' = escrowed(a) + part(a, q.asset, d)
    <2>1. ChannelTable(channels)
      BY DEF ChannelTable, MoneyInv, MoneyTyped
    <2>2. QED
      BY <1>1, <1>4, <1>5, <2>1, OpenEscrow, EscrowedIs
  <1>9. ChannelsFine'
    BY <1>1, <1>4, <1>5 DEF ChannelsFine, with_node, MoneyInv, MoneyTyped
  <1>10. AssetsFine' /\ \A a \in Assets : issued(a)' = issued(a)
    BY <1>4, AssetsStay
  <1>11. ASSUME NEW a \in Assets
         PROVE  /\ escrowed(a)' \in Nat /\ issued(a)' \in Int
                /\ total(balances', a) + escrowed(a)' + issued(a)
                      = total(b, a) + escrowed(a) + issued(a)'
    BY <1>2, <1>6, <1>7, <1>8, <1>10 DEF part
  <1>12. (accounts \subseteq Accounts)'
    BY <1>4 DEF MoneyInv, MoneyTyped
  <1>13. QED
    BY <1>4, <1>7, <1>9, <1>10, <1>11, <1>12, Books DEF b

-----------------------------------------------------------------------------
(* The invariant holds                                                     *)

\* Time passes and no money moves.
LEMMA NewBlockKeeps ==
  ASSUME NEW o \in Elsewhere, MoneyInv(o), NEW dt \in 0..MaxTime, NewBlock(dt)
  PROVE  MoneyInv(o)'
  <1>1. AssetsFine' /\ \A a \in Assets : issued(a)' = issued(a)
    BY AssetsStay DEF NewBlock
  <1>2. ChannelsFine' /\ \A a \in Assets : escrowed(a)' = escrowed(a)
    BY ChannelsStay DEF NewBlock
  <1>3. \A a \in Assets : held(a)' = held(a) /\ fees(a)' = fees(a)
    BY DEF NewBlock, held, fees
  <1>4. BooksClose(o)'
    BY <1>1, <1>2, <1>3 DEF MoneyInv, BooksClose
  <1>5. (height \in Nat /\ time \in Nat)'
    BY AmountsFit DEF NewBlock, MoneyInv, MoneyTyped
  <1>6. QED
    BY <1>1, <1>2, <1>4, <1>5
    DEF NewBlock, MoneyInv, MoneyTyped, AssetsFine, ChannelsFine, Balances

\* Neither does it in a step that changes nothing.
LEMMA IdleKeeps ==
  ASSUME NEW o \in Elsewhere, MoneyInv(o), UNCHANGED vars
  PROVE  MoneyInv(o)'
  <1>1. AssetsFine' /\ \A a \in Assets : issued(a)' = issued(a)
    BY AssetsStay DEF vars
  <1>2. ChannelsFine' /\ \A a \in Assets : escrowed(a)' = escrowed(a)
    BY ChannelsStay DEF vars
  <1>3. \A a \in Assets : held(a)' = held(a) /\ fees(a)' = fees(a)
    BY DEF vars, held, fees
  <1>4. BooksClose(o)'
    BY <1>1, <1>2, <1>3 DEF MoneyInv, BooksClose
  <1>5. QED
    BY <1>1, <1>2, <1>4 DEF vars, MoneyInv, MoneyTyped, AssetsFine, ChannelsFine, Balances

\* Every transaction keeps the books closed.
LEMMA TxKeeps ==
  ASSUME NEW o \in Elsewhere, MoneyInv(o), TreeFacts, Funded, NEW s \in Accounts, Tx(s)
  PROVE  MoneyInv(o)'
  <1>1. CASE AssetTx(s)
    BY <1>1, RegisterKeeps, MintKeeps, BurnKeeps, FreezeKeeps, PauseKeeps DEF AssetTx
  <1>2. CASE MandateTx(s)
    BY <1>2, MandateFeeKeeps, MandateSpendKeeps DEF MandateTx
  <1>3. CASE ChannelTx(s)
    BY <1>3, OpenKeeps, SettleKeeps, RefundKeeps DEF ChannelTx
  <1>4. QED
    BY <1>1, <1>2, <1>3, TransferKeeps, AccountCreateKeeps DEF Tx

\* So does every step of the transparent ledger.
LEMMA MoneyStep ==
  ASSUME NEW o \in Elsewhere, MoneyInv(o), TreeFacts, Funded, [Next]_vars
  PROVE  MoneyInv(o)'
  BY TxKeeps, NewBlockKeeps, IdleKeeps DEF Next

\* The books close at genesis.
LEMMA MoneyInit == Init => MoneyInv(Nowhere)
  <1> SUFFICES ASSUME Init PROVE MoneyInv(Nowhere)
    OBVIOUS
  <1>1. alloc \in Balances /\ \A a : allocated(a) = total(alloc, a)
    BY LedgerAssumption DEF Balances, allocated, total
  <1>2. \A a \in Assets : allocated(a) \in Nat /\ allocated(a) <= AMOUNT_MAX
    BY <1>1, TotalNat, AllocationAssumption
  <1>3. /\ DOMAIN assets = GenesisAssets /\ GenesisAssets \subseteq Assets
        /\ \A a \in GenesisAssets :
              /\ assets[a].supply = allocated(a) /\ assets[a].burned = 0
              /\ assets[a].paused = FALSE /\ assets[a].frozen = {}
              /\ assets[a] \in AssetInfo
    BY <1>2, LedgerAssumption DEF Init, AssetInfo
  <1>4. Registry
    BY <1>2, <1>3 DEF Registry
  <1>5. DOMAIN channels = {}
    BY DEF Init, NoFunction
  <1>6. MoneyTyped
    BY <1>1, <1>3, <1>5, LedgerAssumption DEF Init, MoneyTyped
  <1>7. ASSUME NEW a \in Assets PROVE held(a) + escrowed(a) + Nowhere[a] = issued(a) - fees(a)
    <2>1. held(a) = allocated(a)
      BY DEF held, allocated, Init
    <2>2. escrowed(a) = 0
      <3>1. {c \in DOMAIN channels : channels[c].asset = a} = {}
        BY <1>5
      <3>2. QED
        BY <3>1, SumEmpty DEF escrowed
    <2>3. issued(a) = allocated(a)
      BY <1>2, <1>3 DEF issued
    <2>4. fees(a) = 0
      BY DEF fees, Init
    <2>5. QED
      BY <1>2, <2>1, <2>2, <2>3, <2>4 DEF Nowhere
  <1>8. QED
    BY <1>4, <1>5, <1>6, <1>7 DEF MoneyInv, BooksClose

\* No parent and no funder changes while the tree keeps its shape.
LEMMA FundingStays ==
  ASSUME Funded, UNCHANGED root_funding, DOMAIN mandates' = DOMAIN mandates,
         \A m \in DOMAIN mandates : mandates'[m].parent = mandates[m].parent
  PROVE  Funded'
  BY DEF Funded

\* A draw keeps it.
LEMMA DrawFunded ==
  ASSUME Funded, NEW leaf, NEW x, DrawMandate(leaf, x)
  PROVE  Funded'
  <1>1. \A n, u : pay(n, x, u).parent = n.parent
    BY DEF pay, accrue
  <1>2. QED
    BY <1>1, FundingStays DEF DrawMandate, spend

\* A root is funded by its creator when it is created, and no later
\* transaction changes a parent or a funder.
LEMMA TxFunded ==
  ASSUME Funded, NEW s \in Accounts, Tx(s)
  PROVE  Funded'
  <1>1. ASSUME NEW q \in Requests, do_mandate_create(s, q) PROVE Funded'
    <2> DEFINE n == MT!new_node(q, time)
    <2>1. /\ q.id \notin DOMAIN mandates /\ mandates' = with_node(mandates, q.id, n)
          /\ root_funding' = IF q.parent = NoParent THEN with_node(root_funding, q.id, s)
                             ELSE root_funding
      BY <1>1 DEF do_mandate_create
    <2>2. n.parent = q.parent
      BY DEF MT!new_node
    <2> HIDE DEF n
    <2>3. /\ DOMAIN mandates' = DOMAIN mandates \cup {q.id} /\ mandates'[q.id] = n
          /\ \A m \in DOMAIN mandates : mandates'[m] = mandates[m]
      BY <2>1 DEF with_node
    <2>4. QED
      BY <2>1, <2>2, <2>3 DEF Funded, with_node
  <1>3. ASSUME NEW m \in MandateIds, do_mandate_revoke(s, m) PROVE Funded'
    BY FundingStays, <1>3 DEF do_mandate_revoke, with_revoked
  <1>4. CASE UNCHANGED tree
    BY FundingStays, <1>4 DEF tree
  <1>5. AssetTx(s) => UNCHANGED tree
    BY DEF AssetTx, do_asset_register, do_asset_mint, do_asset_burn, do_asset_freeze,
           do_asset_pause
  <1>6. MandateTx(s) => Funded'
    BY <1>1, DrawFunded, <1>3 DEF MandateTx, do_mandate_spend
  <1>7. ChannelTx(s) => Funded'
    BY DrawFunded, <1>4 DEF ChannelTx, do_channel_open, do_channel_settle, do_channel_refund
  <1>8. QED
    BY <1>4, <1>5, <1>6, <1>7 DEF Tx, do_transfer, do_account_create

\* Nor does any other step.
LEMMA FundedStep == Funded /\ [Next]_vars => Funded'
  <1>1. ASSUME Funded, UNCHANGED tree PROVE Funded'
    BY <1>1, FundingStays DEF tree
  <1>2. QED
    BY <1>1, TxFunded DEF Next, NewBlock, vars, tree

\* The tree's theorems hold of the ledger's mandates, through the refinement.
LEMMA TreeFactsHold == Spec => []TreeFacts
  <1>1. MTP!Spec => []MTP!OneRoot
    BY MTP!TreeOneRoot, TreeTheoremsApply, PTL
  <1>2. QED
    BY <1>1, SameTree, LedgerImplementsMandateTree, TreeInLedger, PTL
    DEF ImplementsMandateTree, TreeFacts

\* Every reachable state has closed books, exact escrows, a sane registry and
\* funded roots, over a tree that satisfies its own theorems.
THEOREM LedgerInvariant == Spec => [](LedgerInv /\ TreeFacts)
  <1>1. Init => LedgerInv
    BY MoneyInit DEF LedgerInv, Funded, Init, NoFunction
  <1>2. LedgerInv /\ TreeFacts /\ [Next]_vars => LedgerInv'
    <2>1. Nowhere \in Elsewhere
      BY DEF Nowhere, Elsewhere
    <2>2. QED
      BY <2>1, MoneyStep, FundedStep DEF LedgerInv
  <1>3. QED
    BY <1>1, <1>2, TreeFactsHold, PTL DEF Spec

\* I5': whatever transactions and blocks it applies, hk-state holds every unit
\* issued, and neither burned nor spent on fees, in a balance or an escrow; so
\* no saturating_add in credit, burn or the fee total ever loses anything.
THEOREM LedgerConservation == Spec => []Conservation
  <1>1. LedgerInv => Conservation
    <2>1. SUFFICES ASSUME LedgerInv, NEW a \in Assets
                   PROVE  held(a) + escrowed(a) = issued(a) - fees(a)
      BY DEF Conservation
    <2>2. Nowhere \in Elsewhere /\ Nowhere[a] = 0 /\ MoneyInv(Nowhere)
      BY <2>1 DEF Nowhere, Elsewhere, LedgerInv
    <2>3. held(a) \in Nat /\ escrowed(a) \in Nat
      BY <2>2, SumsTyped
    <2>4. QED
      BY <2>2, <2>3 DEF MoneyInv, BooksClose
  <1>2. QED
    BY <1>1, LedgerInvariant, PTL

\* The state stays well typed (nothing goes below zero), and a channel always
\* escrows exactly what its payee could still claim, after any order of
\* do_channel_settle and do_channel_refund.
THEOREM LedgerEscrowBacked == Spec => []EscrowBacked
  <1>1. LedgerInv /\ TreeFacts => TypeOK
    BY MandatesTyped DEF TreeFacts, LedgerInv, MoneyInv, MoneyTyped, Funded, TypeOK, Balances
  <1>2. LedgerInv /\ TreeFacts => EscrowBacked
    BY <1>1 DEF LedgerInv, MoneyInv, Exact, EscrowBacked
  <1>3. QED
    BY <1>2, LedgerInvariant, PTL

-----------------------------------------------------------------------------
(* What a transaction may do to a balance                                  *)

stopped(x, a) == a \in DOMAIN assets /\ (assets[a].paused \/ x \in assets[a].frozen)

\* The gate refuses a movement of a stopped balance.
LEMMA GateStops ==
  ASSUME NEW a, NEW P, asset_gate(a, P), NEW x, stopped(x, a)
  PROVE  x \notin P
  BY DEF asset_gate, stopped

\* The fee asset cannot be stopped, so the fee never touches what is.
LEMMA FeeIsNeverStopped ==
  ASSUME NEW o \in Elsewhere, MoneyInv(o),
         NEW s \in Accounts, Sender(s), BurnFee, NEW x \in Accounts, NEW a \in Assets,
         stopped(x, a)
  PROVE  a # fee_asset /\ paid(s)[x][a] = balances[x][a]
  <1>1. a # fee_asset
    BY GenesisAssumption DEF MoneyInv, Registry, stopped
  <1>2. QED
    BY <1>1, FeeStep

\* A payment changes its two ends and nothing else.
LEMMA PaymentTouches ==
  ASSUME NEW o \in Elsewhere, MoneyInv(o), NEW s \in Accounts, Sender(s), BurnFee,
         NEW from \in Accounts, NEW to \in Accounts, NEW a \in Assets, NEW n \in Nat,
         can_debit(paid(s), from, a, n),
         balances' = credit(debit(paid(s), from, a, n), to, a, n)
  PROVE  \A x \in Accounts, y \in Assets :
            x \notin {from, to} \/ y # a => balances'[x][y] = paid(s)[x][y]
  <1>1. paid(s) \in Balances /\ total(paid(s), a) <= AMOUNT_MAX
    BY FeeStep
  <1> DEFINE b == paid(s)
  <1>2. can_debit(b, from, a, n) /\ balances' = credit(debit(b, from, a, n), to, a, n)
    OBVIOUS
  <1> HIDE DEF b
  <1>3. \A x \in Accounts, y \in Assets :
            x \notin {from, to} \/ y # a => balances'[x][y] = b[x][y]
    BY <1>1, <1>2, MoveTotal DEF b
  <1>4. QED
    BY <1>3 DEF b

\* One credit, or one debit, after the fee changes one balance.
LEMMA CreditTouches ==
  ASSUME NEW o \in Elsewhere, MoneyInv(o), NEW s \in Accounts, Sender(s), BurnFee,
         NEW to \in Accounts, NEW a \in Assets, NEW n,
         balances' \in {credit(paid(s), to, a, n), debit(paid(s), to, a, n)}
  PROVE  \A x \in Accounts, y \in Assets :
            x # to \/ y # a => balances'[x][y] = paid(s)[x][y]
  <1>1. paid(s) \in Balances
    BY FeeStep
  <1>2. QED
    BY <1>1 DEF credit, debit, Balances

\* Whatever the transaction, a paused asset or a frozen balance stays put.
LEMMA StoppedStays ==
  ASSUME NEW o \in Elsewhere, MoneyInv(o), TreeFacts, Funded, NEW x \in Accounts,
         NEW a \in Assets, stopped(x, a), NEW s \in Accounts, Tx(s)
  PROVE  balances'[x][a] = balances[x][a]
  <1>2. ASSUME Sender(s), BurnFee, balances' = paid(s) PROVE balances'[x][a] = balances[x][a]
    BY <1>2, FeeIsNeverStopped
  <1>3. ASSUME Sender(s), BurnFee, NEW P, NEW y, asset_gate(y, P),
               x \notin P \/ a # y => balances'[x][a] = paid(s)[x][a]
        PROVE  balances'[x][a] = balances[x][a]
    <2>1. a # y \/ x \notin P
      BY <1>3, GateStops
    <2>2. QED
      BY <1>3, <2>1, FeeIsNeverStopped
  <1>4. ASSUME NEW to \in Accounts, NEW y \in Assets, NEW n \in Amounts, do_transfer(s, to, y, n)
        PROVE  balances'[x][a] = balances[x][a]
    <2>1. Sender(s) /\ BurnFee /\ asset_gate(y, {s, to}) /\ n \in Nat
      BY <1>4, AmountsFit DEF do_transfer
    <2>2. x \notin {s, to} \/ a # y => balances'[x][a] = paid(s)[x][a]
      BY <1>4, <2>1, PaymentTouches DEF do_transfer
    <2>3. QED
      BY <1>3, <2>1, <2>2
  <1>5. ASSUME NEW id \in Accounts, NEW y \in Assets, NEW n \in Amounts \cup {0},
               do_account_create(s, id, y, n)
        PROVE  balances'[x][a] = balances[x][a]
    <2>1. Sender(s) /\ BurnFee /\ (n > 0 => asset_gate(y, {s, id})) /\ n \in Nat
      BY <1>5, AmountsFit DEF do_account_create
    <2>2. CASE n > 0
      <3>1. x \notin {s, id} \/ a # y => balances'[x][a] = paid(s)[x][a]
        BY <1>5, <2>1, PaymentTouches DEF do_account_create
      <3>2. QED
        BY <1>3, <2>1, <2>2, <3>1
    <2>3. CASE n = 0
      <3>1. balances' = credit(debit(paid(s), s, y, 0), id, y, 0)
        BY <1>5, <2>3 DEF do_account_create
      <3>2. paid(s) \in Balances /\ total(paid(s), y) <= AMOUNT_MAX
            /\ total(paid(s), y) \in Nat
        BY <2>1, FeeStep
      <3>3. \A z \in Accounts : paid(s)[z][y] \in Nat /\ paid(s)[z][y] <= AMOUNT_MAX
        BY <3>2, TotalNat, AmountsFit
      <3> DEFINE b == paid(s)
                 d == debit(b, s, y, 0)
      <3> HIDE DEF b
      <3>4. d \in Balances /\ \A z \in Accounts, w \in Assets : d[z][w] = b[z][w]
        <4>1. \A z \in Accounts, w \in Assets : b[z][w] \in Nat
          BY <3>2 DEF b, Balances
        <4>2. QED
          BY <3>2, <4>1 DEF debit, Balances, b
      <3>5. balances' = credit(d, id, y, 0)
        BY <3>1 DEF b
      <3> HIDE DEF d
      <3>6. balances'[x][a] = b[x][a]
        <4>1. d[id][y] \in Nat /\ d[id][y] <= AMOUNT_MAX
          BY <3>3, <3>4 DEF b
        <4>2. Lesser(d[id][y] + 0, AMOUNT_MAX) = d[id][y]
          BY <4>1, AmountsFit DEF Lesser
        <4>3. balances' = [d EXCEPT ![id][y] = d[id][y]]
          BY <3>5, <4>2 DEF credit
        <4>4. QED
          BY <3>4, <4>3 DEF Balances
      <3>7. QED
        BY <2>1, <3>6, FeeIsNeverStopped DEF b
    <2>4. QED
      BY <2>1, <2>2, <2>3
  <1>6. CASE AssetTx(s)
    <2>1. ASSUME NEW y \in Assets, NEW to \in Accounts, NEW n \in Amounts,
                 do_asset_mint(s, y, to, n)
          PROVE  balances'[x][a] = balances[x][a]
      <3>1. Sender(s) /\ BurnFee /\ asset_gate(y, {to})
        BY <2>1 DEF do_asset_mint
      <3>2. x \notin {to} \/ a # y => balances'[x][a] = paid(s)[x][a]
        BY <2>1, <3>1, CreditTouches DEF do_asset_mint
      <3>3. QED
        BY <1>3, <3>1, <3>2
    <2>2. ASSUME NEW y \in Assets, NEW n \in Amounts, do_asset_burn(s, y, n)
          PROVE  balances'[x][a] = balances[x][a]
      <3>1. Sender(s) /\ BurnFee /\ asset_gate(y, {s})
        BY <2>2 DEF do_asset_burn
      <3>2. x \notin {s} \/ a # y => balances'[x][a] = paid(s)[x][a]
        BY <2>2, <3>1, CreditTouches DEF do_asset_burn
      <3>3. QED
        BY <1>3, <3>1, <3>2
    <2>3. QED
      BY <1>2, <1>6, <2>1, <2>2
      DEF AssetTx, do_asset_register, do_asset_freeze, do_asset_pause
  <1>7. CASE MandateTx(s)
    <2>1. ASSUME NEW m \in MandateIds, NEW to \in Accounts, NEW n \in Amounts,
                 do_mandate_spend(s, m, to, n)
          PROVE  balances'[x][a] = balances[x][a]
      <3> DEFINE f == funder_of(m)
                 y == mandates[m].asset
      <3>1. /\ Sender(s) /\ BurnFee /\ asset_gate(y, {f, to}) /\ n \in Nat
            /\ can_debit(paid(s), f, y, n)
            /\ balances' = credit(debit(paid(s), f, y, n), to, y, n)
        BY <2>1, AmountsFit DEF do_mandate_spend
      <3>2. f \in Accounts /\ y \in Assets
        BY <2>1, FunderExists DEF do_mandate_spend, sink_ok
      <3> HIDE DEF f, y
      <3>3. x \notin {f, to} \/ a # y => balances'[x][a] = paid(s)[x][a]
        BY <3>1, <3>2, PaymentTouches
      <3>4. QED
        BY <1>3, <3>1, <3>3
    <2>2. QED
      BY <1>2, <1>7, <2>1 DEF MandateTx, do_mandate_create, do_mandate_revoke
  <1>8. CASE ChannelTx(s)
    <2>1. ASSUME NEW q \in Opens, do_channel_open(s, q)
          PROVE  balances'[x][a] = balances[x][a]
      <3> DEFINE f == funder_of(q.mandate)
                 n == q.unit_price * q.max_steps
      <3>1. /\ Sender(s) /\ BurnFee /\ asset_gate(q.asset, {f})
            /\ balances' = debit(paid(s), f, q.asset, n)
        BY <2>1 DEF do_channel_open
      <3>2. f \in Accounts /\ q.asset \in Assets
        BY <2>1, FunderExists, LedgerAssumption
        DEF do_channel_open, sink_ok, OpenRecords
      <3> HIDE DEF f, n
      <3>3. x \notin {f} \/ a # q.asset => balances'[x][a] = paid(s)[x][a]
        BY <3>1, <3>2, CreditTouches
      <3>4. QED
        BY <1>3, <3>1, <3>3
    <2>2. ASSUME NEW c \in DOMAIN channels, NEW to \in Accounts, NEW n, Sender(s), BurnFee,
                 asset_gate(channels[c].asset, {to}),
                 balances' = credit(paid(s), to, channels[c].asset, n)
          PROVE  balances'[x][a] = balances[x][a]
      <3>1. channels[c].asset \in Assets
        BY DEF MoneyInv, MoneyTyped, Channels
      <3>2. x \notin {to} \/ a # channels[c].asset => balances'[x][a] = paid(s)[x][a]
        BY <2>2, <3>1, CreditTouches
      <3>3. QED
        BY <1>3, <2>2, <3>2
    <2>3. \A c \in DOMAIN channels :
             channels[c].payee \in Accounts /\ channels[c].payer \in Accounts
      BY DEF MoneyInv, MoneyTyped, Channels
    <2>4. QED
      BY <1>8, <2>1, <2>2, <2>3 DEF ChannelTx, do_channel_settle, do_channel_refund
  <1>9. QED
    BY <1>4, <1>5, <1>6, <1>7, <1>8 DEF Tx

\* No step of the ledger moves a balance that is stopped.
THEOREM LedgerFrozenMovesNothing == Spec => FrozenMovesNothing
  <1> DEFINE Stays == \A a \in DOMAIN assets, x \in Accounts :
          assets[a].paused \/ x \in assets[a].frozen => balances'[x][a] = balances[x][a]
  <1>1. ASSUME LedgerInv, TreeFacts, [Next]_vars PROVE [Stays]_vars
    <2>1. Nowhere \in Elsewhere /\ MoneyInv(Nowhere) /\ Funded /\ DOMAIN assets \subseteq Assets
      BY <1>1 DEF Nowhere, Elsewhere, LedgerInv, MoneyInv, MoneyTyped
    <2>2. CASE \E dt \in 0..MaxTime : NewBlock(dt)
      BY <2>2 DEF NewBlock
    <2>3. CASE \E s \in Accounts : Tx(s)
      BY <1>1, <2>1, <2>3, StoppedStays DEF stopped
    <2>4. QED
      BY <1>1, <2>2, <2>3 DEF Next
  <1>2. QED
    BY <1>1, LedgerInvariant, PTL DEF Spec, FrozenMovesNothing

\* R17: a spend or a channel opening through a tree charges its funder in the
\* root's asset only; in any other it costs at most the envelope fee.
THEOREM LedgerDrawsInRootAsset == Spec => DrawsInRootAsset
  <1> DEFINE Charged(r) == \A a \in Assets \ {mandates[r].asset} :
                 balances'[root_funding[r]][a]
                     >= balances[root_funding[r]][a] - (IF a = fee_asset THEN fee ELSE 0)
             Draws == asset_bound => \A r \in DOMAIN root_funding :
                                        drawn'[r] > drawn[r] => Charged(r)
  <1>1. ASSUME LedgerInv, TreeFacts, [Next]_vars PROVE [Draws]_vars
    <2>1. /\ Nowhere \in Elsewhere /\ MoneyInv(Nowhere) /\ Funded
          /\ DOMAIN root_funding \subseteq MandateIds /\ drawn \in [MandateIds -> Nat]
      BY <1>1, MandatesTyped DEF Nowhere, Elsewhere, LedgerInv, Funded, TreeFacts
    <2>2. ASSUME UNCHANGED drawn PROVE Draws
      BY <2>1, <2>2
    <2>3. ASSUME asset_bound, NEW s \in Accounts, Sender(s), BurnFee, NEW leaf \in MandateIds,
                 NEW n, NEW k, sink_ok(s, leaf, k), DrawMandate(leaf, n),
                 NEW r \in DOMAIN root_funding, drawn'[r] > drawn[r],
                 NEW a \in Assets \ {mandates[r].asset},
                 \A x \in Accounts, y \in Assets :
                    y # mandates[leaf].asset => balances'[x][y] = paid(s)[x][y]
          PROVE  balances'[root_funding[r]][a]
                     >= balances[root_funding[r]][a] - (IF a = fee_asset THEN fee ELSE 0)
      <3>1. r \in chain_of(mandates, leaf)
        BY <2>1, <2>3 DEF DrawMandate
      <3>2. leaf \in DOMAIN mandates
            /\ mandates[leaf].asset = mandates[root_of(mandates, leaf)].asset
        BY <2>3 DEF sink_ok
      <3>3. r = root_of(mandates, leaf)
        BY <1>1, <2>1, <2>3, <3>1, <3>2, FunderExists
      <3>4. root_funding[r] \in Accounts
        BY <2>1, <2>3 DEF Funded
      <3>5. balances'[root_funding[r]][a] = paid(s)[root_funding[r]][a]
        BY <2>3, <3>2, <3>3, <3>4
      <3>6. balances[root_funding[r]][a] \in Nat /\ fee \in Nat
        BY <2>1, <2>3, <3>4, FeeStep DEF MoneyInv, MoneyTyped, Balances
      <3>7. paid(s)[root_funding[r]][a] = IF root_funding[r] = s /\ a = fee_asset
               THEN balances[root_funding[r]][a] - fee ELSE balances[root_funding[r]][a]
        BY <2>1, <2>3, <3>4, FeeStep
      <3>8. QED
        BY <3>5, <3>6, <3>7
    <2>4. ASSUME NEW s \in Accounts, NEW m \in MandateIds, NEW to \in Accounts, NEW n \in Amounts,
                 do_mandate_spend(s, m, to, n)
          PROVE  Draws
      <3> DEFINE f == funder_of(m)
                 y == mandates[m].asset
      <3>1. /\ Sender(s) /\ BurnFee /\ n \in Nat /\ sink_ok(s, m, n) /\ DrawMandate(m, n)
            /\ can_debit(paid(s), f, y, n)
            /\ balances' = credit(debit(paid(s), f, y, n), to, y, n)
        BY <2>4, AmountsFit DEF do_mandate_spend
      <3>2. f \in Accounts /\ y \in Assets
        BY <1>1, <2>1, <3>1, FunderExists DEF sink_ok
      <3> HIDE DEF f
      <3>3. \A x \in Accounts, z \in Assets : z # y => balances'[x][z] = paid(s)[x][z]
        BY <2>1, <3>1, <3>2, PaymentTouches
      <3>4. QED
        BY <2>3, <3>1, <3>3
    <2>5. ASSUME NEW s \in Accounts, NEW q \in Opens, do_channel_open(s, q)
          PROVE  Draws
      <3> DEFINE f == funder_of(q.mandate)
                 n == q.unit_price * q.max_steps
      <3>1. /\ Sender(s) /\ BurnFee /\ sink_ok(s, q.mandate, n) /\ DrawMandate(q.mandate, n)
            /\ mandates[q.mandate].asset = q.asset
            /\ balances' = debit(paid(s), f, q.asset, n)
        BY <2>5 DEF do_channel_open
      <3>2. f \in Accounts /\ q.asset \in Assets /\ q.mandate \in MandateIds
        BY <1>1, <2>1, <3>1, FunderExists, LedgerAssumption DEF sink_ok, OpenRecords
      <3> HIDE DEF f, n
      <3>3. \A x \in Accounts, z \in Assets :
               z # mandates[q.mandate].asset => balances'[x][z] = paid(s)[x][z]
        BY <2>1, <3>1, <3>2, CreditTouches
      <3>4. QED
        BY <2>3, <3>1, <3>2, <3>3
    <2>6. ASSUME NEW s \in Accounts, Tx(s) PROVE Draws
      <3>1. AssetTx(s) => UNCHANGED drawn
        BY DEF AssetTx, do_asset_register, do_asset_mint, do_asset_burn, do_asset_freeze,
               do_asset_pause, tree
      <3>2. MandateTx(s) => Draws
        BY <2>2, <2>4 DEF MandateTx, do_mandate_create, do_mandate_revoke
      <3>3. ChannelTx(s) => Draws
        BY <2>2, <2>5 DEF ChannelTx, do_channel_settle, do_channel_refund, tree
      <3>4. QED
        BY <2>2, <2>6, <3>1, <3>2, <3>3 DEF Tx, do_transfer, do_account_create, tree
    <2>7. QED
      BY <1>1, <2>2, <2>6 DEF Next, NewBlock, tree
  <1>2. QED
    BY <1>1, LedgerInvariant, PTL DEF Spec, DrawsInRootAsset

-----------------------------------------------------------------------------
(* The commitment tree                                                     *)

\* A set of naturals that is not empty has a least element.
LEMMA Least ==
  ASSUME NEW S \in SUBSET Nat, S # {}
  PROVE  \E a \in S : \A b \in S : a <= b
  <1> DEFINE R == OpToRel(<, Nat)
  <1>1. PICK a \in S : \A b \in S : ~ (<<b, a>> \in R)
    BY NatLessThanWellFounded, WFMin
  <1>2. \A b \in Nat : b < a => <<b, a>> \in R
    BY DEF OpToRel
  <1> HIDE DEF R
  <1>3. ASSUME NEW b \in S PROVE a <= b
    <2>1. a \in Nat /\ b \in Nat /\ ~ (<<b, a>> \in R)
      BY <1>1
    <2>2. QED
      BY <1>2, <2>1
  <1>4. QED
    BY <1>3

\* What holds at the leaf and passes on to the next level holds at every level.
LEMMA LevelByLevel ==
  ASSUME NEW n \in Nat, NEW G, 0 \in G, \A l \in 1..n : l - 1 \in G => l \in G
  PROVE  \A l \in 0..n : l \in G
  <1> DEFINE B == {l \in 0..n : l \notin G}
  <1>1. SUFFICES ASSUME B # {} PROVE FALSE
    OBVIOUS
  <1>2. PICK b \in B : \A v \in B : b <= v
    <2>1. B \in SUBSET Nat
      OBVIOUS
    <2> HIDE DEF B
    <2>2. QED
      BY <1>1, <2>1, Least
  <1>3. b \in 1..n /\ b \notin G
    OBVIOUS
  <1>4. b - 1 \in B
    BY <1>3
  <1>5. QED
    BY <1>2, <1>3, <1>4

\* One level up in append and in root, over the frontier f and below the
\* index i: where the new subtree x goes.
up(way, f, i, x, l) ==
  IF way = "append" \/ Bit(i, l) = 1 THEN merkle_node(f[l], x) ELSE merkle_node(x, empty_root(l))

\* g takes the walk of append or root from the leaf up to level n.
IsWalk(g, way, f, i, leaf, n) ==
  g = [l \in 0..n |-> IF l = 0 THEN leaf ELSE up(way, f, i, g[l - 1], l - 1)]

\* The walk exists, whatever the tree.
LEMMA WalkExists ==
  ASSUME NEW way, NEW f, NEW i, NEW leaf, NEW n \in Nat
  PROVE  \E g : IsWalk(g, way, f, i, leaf, n)
  <1> DEFINE G == {k \in Nat : \E g : IsWalk(g, way, f, i, leaf, k)}
  <1>1. 0 \in G
    <2>1. IsWalk([l \in 0..0 |-> leaf], way, f, i, leaf, 0)
      BY DEF IsWalk
    <2>2. QED
      BY <2>1
  <1>2. ASSUME NEW k \in 1..n, k - 1 \in G PROVE k \in G
    <2>1. PICK g : IsWalk(g, way, f, i, leaf, k - 1)
      BY <1>2
    <2> DEFINE h == [l \in 0..k |-> IF l = 0 THEN leaf ELSE up(way, f, i, g[l - 1], l - 1)]
    <2>2. \A l \in 0..(k - 1) : h[l] = g[l]
      BY <2>1 DEF IsWalk
    <2>3. h = [l \in 0..k |-> IF l = 0 THEN leaf ELSE up(way, f, i, h[l - 1], l - 1)]
      <3>1. \A l \in 0..k : l # 0 => l - 1 \in 0..(k - 1)
        OBVIOUS
      <3>2. \A l \in 0..k : l # 0 => h[l - 1] = g[l - 1]
        BY <2>2, <3>1
      <3>3. QED
        BY <3>2
    <2> HIDE DEF h
    <2>4. IsWalk(h, way, f, i, leaf, k)
      BY <2>3 DEF IsWalk
    <2>5. QED
      BY <2>4
  <1> HIDE DEF G
  <1>3. n \in G
    BY <1>1, <1>2, LevelByLevel
  <1>4. QED
    BY <1>3 DEF G

\* What the provers know of powers of two and of unfilled subtrees.
LEMMA EmptyRoots ==
  /\ TREE_DEPTH \in Nat \ {0} /\ 2^TREE_DEPTH \in Nat \ {0}
  /\ \A l \in 0..(TREE_DEPTH - 1) : empty_root(l) \in Seq({NoNote})
  <1>1. \A l \in 0..TREE_DEPTH : 2^l \in Nat \ {0}
    BY PowersAssumption
  <1>2. ASSUME NEW l \in 0..(TREE_DEPTH - 1) PROVE empty_root(l) \in Seq({NoNote})
    <2>1. PICK n \in Nat : n = 2^l
      BY <1>1, NoteTreeAssumption
    <2>2. empty_root(l) = [i \in 1..n |-> NoNote]
      BY <2>1 DEF empty_root
    <2>3. QED
      BY <2>2
  <1>3. QED
    BY <1>1, <1>2, NoteTreeAssumption

\* A walk over subtrees of X makes subtrees of X.
LEMMA WalkTyped ==
  ASSUME NEW X, NoNote \in X, NEW way, NEW f \in [0..(TREE_DEPTH - 1) -> Seq(X)], NEW i,
         NEW leaf \in Seq(X), NEW g, IsWalk(g, way, f, i, leaf, TREE_DEPTH)
  PROVE  \A l \in 0..TREE_DEPTH : g[l] \in Seq(X)
  <1>1. TREE_DEPTH \in Nat \ {0}
    BY EmptyRoots
  <1>2. \A l \in 0..(TREE_DEPTH - 1) : empty_root(l) \in Seq(X)
    <2>1. \A q \in Seq({NoNote}) : q \in Seq(X)
      OBVIOUS
    <2>2. QED
      BY <2>1, EmptyRoots
  <1> DEFINE G == {l \in Nat : l \in 0..TREE_DEPTH => g[l] \in Seq(X)}
  <1>3. 0 \in G
    BY <1>1 DEF IsWalk
  <1>4. ASSUME NEW l \in 1..TREE_DEPTH, l - 1 \in G PROVE l \in G
    <2>1. l - 1 \in 0..(TREE_DEPTH - 1) /\ g[l - 1] \in Seq(X) /\ f[l - 1] \in Seq(X)
      BY <1>1, <1>4
    <2>2. g[l] = up(way, f, i, g[l - 1], l - 1)
      BY <1>1, <1>4 DEF IsWalk
    <2>3. empty_root(l - 1) \in Seq(X)
      BY <1>2, <2>1
    <2>4. \A a, b \in Seq(X) : a \o b \in Seq(X)
      OBVIOUS
    <2>5. up(way, f, i, g[l - 1], l - 1) \in Seq(X)
      BY <2>1, <2>3, <2>4 DEF up, merkle_node
    <2>6. QED
      BY <1>1, <2>2, <2>5
  <1> HIDE DEF G
  <1>5. \A l \in 0..TREE_DEPTH : l \in G
    BY <1>1, <1>3, <1>4, LevelByLevel
  <1>6. QED
    BY <1>5 DEF G

Trees(X) == [frontier : [0..(TREE_DEPTH - 1) -> Seq(X)], next_index : Nat]

\* append parks a subtree made of the new leaf and of parked subtrees.
LEMMA AppendTyped ==
  ASSUME NEW X, NoNote \in X, NEW t \in Trees(X), NEW leaf \in Seq(X)
  PROVE  append(t, leaf) \in Trees(X) /\ append(t, leaf).next_index = t.next_index + 1
  <1> DEFINE f == t.frontier
             cur == CHOOSE g : g = [l \in 0..TREE_DEPTH |->
                       IF l = 0 THEN leaf ELSE merkle_node(f[l - 1], g[l - 1])]
             stop == CHOOSE l \in 0..TREE_DEPTH - 1 :
                    Bit(t.next_index, l) = 0 /\ \A k \in 0..l - 1 : Bit(t.next_index, k) = 1
  <1>1. f \in [0..(TREE_DEPTH - 1) -> Seq(X)] /\ t.next_index \in Nat
    BY DEF Trees
  <1>2. \E g : IsWalk(g, "append", f, 0, leaf, TREE_DEPTH)
    BY EmptyRoots, WalkExists
  <1>3. \A g : IsWalk(g, "append", f, 0, leaf, TREE_DEPTH) <=>
               g = [l \in 0..TREE_DEPTH |->
                       IF l = 0 THEN leaf ELSE merkle_node(f[l - 1], g[l - 1])]
    BY DEF IsWalk, up
  <1>4. append(t, leaf) = [frontier |-> [f EXCEPT ![stop] = cur[stop]],
                           next_index |-> t.next_index + 1]
    BY DEF append
  <1>5. cur = [l \in 0..TREE_DEPTH |-> IF l = 0 THEN leaf ELSE merkle_node(f[l - 1], cur[l - 1])]
    BY <1>2, <1>3
  <1> HIDE DEF cur
  <1>6. IsWalk(cur, "append", f, 0, leaf, TREE_DEPTH)
    BY <1>3, <1>5
  <1> HIDE DEF f, stop
  <1>7. \A l \in 0..TREE_DEPTH : cur[l] \in Seq(X)
    BY <1>1, <1>6, WalkTyped
  <1>8. [f EXCEPT ![stop] = cur[stop]] \in [0..(TREE_DEPTH - 1) -> Seq(X)]
    <2>1. stop \in 0..(TREE_DEPTH - 1) => cur[stop] \in Seq(X)
      BY <1>7, EmptyRoots
    <2>2. QED
      BY <1>1, <2>1
  <1>9. QED
    BY <1>1, <1>4, <1>8 DEF Trees

\* The root is made of parked subtrees and unfilled ones.
LEMMA RootTyped ==
  ASSUME NEW X, NoNote \in X, NEW t \in Trees(X)
  PROVE  root(t) \in Seq(X)
  <1> DEFINE f == t.frontier
             i == t.next_index
             cur == CHOOSE g : g = [l \in 0..TREE_DEPTH |->
                       IF l = 0 THEN empty_root(0)
                       ELSE IF Bit(i, l - 1) = 1 THEN merkle_node(f[l - 1], g[l - 1])
                       ELSE merkle_node(g[l - 1], empty_root(l - 1))]
  <1>1. f \in [0..(TREE_DEPTH - 1) -> Seq(X)] /\ empty_root(0) \in Seq(X)
    <2>1. \A q \in Seq({NoNote}) : q \in Seq(X)
      OBVIOUS
    <2>2. 0 \in 0..(TREE_DEPTH - 1)
      BY EmptyRoots
    <2>3. QED
      BY <2>1, <2>2, EmptyRoots DEF Trees
  <1>2. \E g : IsWalk(g, "root", f, i, empty_root(0), TREE_DEPTH)
    BY EmptyRoots, WalkExists
  <1>3. \A g : IsWalk(g, "root", f, i, empty_root(0), TREE_DEPTH) <=>
               g = [l \in 0..TREE_DEPTH |->
                       IF l = 0 THEN empty_root(0)
                       ELSE IF Bit(i, l - 1) = 1 THEN merkle_node(f[l - 1], g[l - 1])
                       ELSE merkle_node(g[l - 1], empty_root(l - 1))]
    BY DEF IsWalk, up
  <1>4. root(t) = cur[TREE_DEPTH]
    BY DEF root
  <1>5. cur = [l \in 0..TREE_DEPTH |->
                       IF l = 0 THEN empty_root(0)
                       ELSE IF Bit(i, l - 1) = 1 THEN merkle_node(f[l - 1], cur[l - 1])
                       ELSE merkle_node(cur[l - 1], empty_root(l - 1))]
    BY <1>2, <1>3
  <1> HIDE DEF cur
  <1>6. IsWalk(cur, "root", f, i, empty_root(0), TREE_DEPTH)
    BY <1>3, <1>5
  <1> HIDE DEF f, i
  <1>7. \A l \in 0..TREE_DEPTH : cur[l] \in Seq(X)
    BY <1>1, <1>6, WalkTyped
  <1>8. QED
    BY <1>4, <1>7, EmptyRoots

-----------------------------------------------------------------------------
(* What the notes of a pool are worth                                      *)

\* The dearest note of L with the nullifier.
worth(L, nf) == Max({n.value : n \in {x \in L : x.nf = nf}})

open_of(L, N) == {n.nf : n \in L} \ N

\* Claims(k), for a pool that took the notes L and has seen the nullifiers N.
claims_of(L, N) == SumOf([nf \in open_of(L, N) |-> worth(L, nf)], open_of(L, N))

\* A finite set of naturals has a largest element.
LEMMA LargestOf ==
  ASSUME NEW S, IsFiniteSet(S), S # {}, \A x \in S : x \in Nat
  PROVE  Max(S) \in S /\ \A x \in S : x <= Max(S)
  <1> DEFINE from(x) == {y \in S : y >= x}
             W == {from(x) : x \in S}
  <1>1. W \in SUBSET (SUBSET S) /\ W # {}
    OBVIOUS
  <1>2. PICK m \in W : \A t \in W : t \subseteq m => t = m
    <2>1. PICK V : V = W
      OBVIOUS
    <2>2. V \in SUBSET (SUBSET S) /\ V # {}
      BY <1>1, <2>1
    <2>3. \E m \in V : \A t \in V : t \subseteq m => t = m
      BY <2>2, MinimalSubset
    <2>4. QED
      BY <2>1, <2>3
  <1>3. PICK x \in S : m = from(x)
    BY <1>2
  <1>4. ASSUME NEW y \in S PROVE x >= y
    <2>1. SUFFICES ASSUME y > x PROVE FALSE
      OBVIOUS
    <2>2. from(y) \in W
      OBVIOUS
    <2>3. \A z \in S : z >= y => z >= x
      BY <2>1
    <2>4. from(y) \subseteq m
      BY <1>3, <2>3
    <2>5. x \in from(x) /\ x \notin from(y)
      BY <2>1
    <2>6. QED
      BY <1>2, <1>3, <2>2, <2>4, <2>5
  <1>5. \E z \in S : \A y \in S : z >= y
    BY <1>4
  <1>6. Max(S) \in S /\ \A y \in S : Max(S) >= y
    BY <1>5 DEF Max
  <1>7. QED
    BY <1>6

\* The image of a finite set is finite.
LEMMA FiniteImage ==
  ASSUME NEW S, IsFiniteSet(S), NEW g
  PROVE  IsFiniteSet({g[x] : x \in S})
  <1> DEFINE T == {g[x] : x \in S}
             h == [x \in S |-> g[x]]
  <1>1. h \in Surjection(S, T)
    BY DEF Surjection
  <1>2. QED
    BY <1>1, FS_Surjection

\* A note is worth at least its value, and there is one of that value.
LEMMA WorthOf ==
  ASSUME NEW L \in SUBSET Notes, IsFiniteSet(L), NEW nf \in {n.nf : n \in L}
  PROVE  /\ worth(L, nf) \in Nat
         /\ \A n \in L : n.nf = nf => n.value <= worth(L, nf)
         /\ \E n \in L : n.nf = nf /\ n.value = worth(L, nf)
  <1> DEFINE M == {x \in L : x.nf = nf}
             V == {n.value : n \in M}
  <1>1. IsFiniteSet(V) /\ V \subseteq Nat /\ V # {}
    <2>1. IsFiniteSet(M)
      BY FS_Subset
    <2>2. IsFiniteSet(V)
      <3> DEFINE g == [x \in M |-> x.value]
      <3>1. V = {g[x] : x \in M}
        OBVIOUS
      <3> HIDE DEF M, V, g
      <3>2. QED
        BY <2>1, <3>1, FiniteImage
    <2>3. \A n \in Notes : n.value \in Nat
      BY PoolAssumption
    <2>4. V \subseteq Nat /\ V # {}
      BY <2>3
    <2>5. QED
      BY <2>2, <2>4
  <1> HIDE DEF V
  <1>2. Max(V) \in V /\ \A x \in V : x <= Max(V)
    BY <1>1, LargestOf
  <1>3. worth(L, nf) = Max(V)
    BY DEF worth, V
  <1>4. QED
    BY <1>1, <1>2, <1>3 DEF V

\* What there is to sum.
LEMMA OpenOf ==
  ASSUME NEW L \in SUBSET Notes, IsFiniteSet(L), NEW N
  PROVE  /\ IsFiniteSet(open_of(L, N))
         /\ \A nf \in open_of(L, N) : worth(L, nf) \in Nat
         /\ claims_of(L, N) \in Nat
  <1>1. IsFiniteSet({n.nf : n \in L})
    <2> DEFINE g == [x \in L |-> x.nf]
    <2>1. {n.nf : n \in L} = {g[x] : x \in L}
      OBVIOUS
    <2> HIDE DEF g
    <2>2. QED
      BY <2>1, FiniteImage
  <1>2. IsFiniteSet(open_of(L, N))
    BY <1>1, FS_Subset DEF open_of
  <1>3. \A nf \in open_of(L, N) : worth(L, nf) \in Nat
    BY WorthOf DEF open_of
  <1> DEFINE S == open_of(L, N)
             f == [nf \in S |-> worth(L, nf)]
  <1>4. \A x \in S : f[x] \in Nat
    BY <1>3
  <1>5. claims_of(L, N) = SumOf(f, S)
    BY DEF claims_of
  <1> HIDE DEF f, S
  <1>6. SumOf(f, S) \in Nat
    BY <1>2, <1>4, SumNat DEF S
  <1>7. QED
    BY <1>2, <1>3, <1>5, <1>6 DEF S

\* A note that is spent takes its value out of the claims.
LEMMA SpentNote ==
  ASSUME NEW L \in SUBSET Notes, IsFiniteSet(L), NEW N, NEW n \in L, n.nf \notin N
  PROVE  claims_of(L, N \cup {n.nf}) + n.value <= claims_of(L, N)
  <1> DEFINE S == open_of(L, N)
             T == open_of(L, N \cup {n.nf})
             f == [nf \in S |-> worth(L, nf)]
             e == [nf \in T |-> worth(L, nf)]
  <1>1. IsFiniteSet(S) /\ n.nf \in S /\ T = S \ {n.nf} /\ IsFiniteSet(T)
    <2>1. n.nf \in S /\ T = S \ {n.nf}
      BY DEF open_of
    <2>2. QED
      BY <2>1, OpenOf
  <1>2. \A x \in S : f[x] = worth(L, x) /\ f[x] \in Nat
    BY OpenOf
  <1>3. \A x \in T : e[x] = f[x]
    BY <1>1
  <1>4. n.value <= worth(L, n.nf) /\ n.value \in Nat
    BY WorthOf, PoolAssumption
  <1>5. claims_of(L, N) = SumOf(f, S) /\ claims_of(L, N \cup {n.nf}) = SumOf(e, T)
    BY DEF claims_of
  <1> HIDE DEF S, T, e, f
  <1>6. SumOf(f, S) = f[n.nf] + SumOf(f, S \ {n.nf})
    BY <1>1, <1>2, SumRemove
  <1>7. SumOf(e, T) = SumOf(f, T)
    BY <1>1, <1>3, SumCongruent
  <1>8. SumOf(f, T) \in Nat
    BY <1>1, <1>2, SumNat
  <1>9. QED
    BY <1>1, <1>2, <1>4, <1>5, <1>6, <1>7, <1>8

\* A note that is added claims its value at most.
LEMMA AddedNote ==
  ASSUME NEW L \in SUBSET Notes, IsFiniteSet(L), NEW N, NEW n \in Notes
  PROVE  claims_of(L \cup {n}, N) <= claims_of(L, N) + n.value
  <1> DEFINE K == L \cup {n}
             S == open_of(L, N)
             T == open_of(K, N)
             f == [nf \in S |-> worth(L, nf)]
             e == [nf \in T |-> worth(K, nf)]
  <1>1. K \in SUBSET Notes /\ IsFiniteSet(K) /\ IsFiniteSet(S) /\ IsFiniteSet(T)
    <2>1. K \in SUBSET Notes /\ IsFiniteSet(K)
      BY FS_AddElement
    <2> HIDE DEF K
    <2>2. QED
      BY <2>1, OpenOf
  <1>2. T = IF n.nf \in N THEN S ELSE S \cup {n.nf}
    BY DEF open_of
  <1>3. ASSUME NEW nf \in S, nf # n.nf PROVE nf \in T /\ worth(K, nf) = worth(L, nf)
    <2>1. {x \in K : x.nf = nf} = {x \in L : x.nf = nf}
      BY <1>3
    <2>2. QED
      BY <1>2, <2>1 DEF worth
  <1>4. n.value \in Nat
    BY PoolAssumption
  <1>5. /\ \A x \in S : f[x] = worth(L, x) /\ f[x] \in Nat
        /\ \A x \in T : e[x] = worth(K, x) /\ e[x] \in Nat
    <2>1. \A x \in S : worth(L, x) \in Nat
      BY OpenOf
    <2>2. \A x \in T : worth(K, x) \in Nat
      <3> HIDE DEF K
      <3>1. QED
        BY <1>1, OpenOf
    <2>3. QED
      BY <2>1, <2>2
  <1>6. claims_of(L, N) = SumOf(f, S) /\ claims_of(K, N) = SumOf(e, T)
    BY DEF claims_of
  <1>7. n.nf \in S => worth(K, n.nf) <= worth(L, n.nf) + n.value
    <2>1. SUFFICES ASSUME n.nf \in S PROVE worth(K, n.nf) <= worth(L, n.nf) + n.value
      OBVIOUS
    <2>2. n.nf \in {x.nf : x \in L} /\ n.nf \in {x.nf : x \in K}
      BY <2>1 DEF open_of
    <2>3. /\ worth(L, n.nf) \in Nat
          /\ \A x \in L : x.nf = n.nf => x.value <= worth(L, n.nf)
      BY <2>2, WorthOf
    <2>4. PICK x \in K : x.nf = n.nf /\ x.value = worth(K, n.nf)
      <3> HIDE DEF K
      <3>1. QED
        BY <1>1, <2>2, WorthOf
    <2>5. CASE x = n
      BY <1>4, <2>3, <2>4, <2>5
    <2>6. CASE x \in L
      <3>1. x.value \in Nat
        BY <2>6, PoolAssumption
      <3>2. QED
        BY <1>4, <2>3, <2>4, <2>6, <3>1
    <2>7. QED
      BY <2>4, <2>5, <2>6
  <1>8. n.nf \notin S /\ n.nf \in T => worth(K, n.nf) = n.value
    <2>1. SUFFICES ASSUME n.nf \notin S, n.nf \in T PROVE worth(K, n.nf) = n.value
      OBVIOUS
    <2>2. n.nf \in {x.nf : x \in K}
      OBVIOUS
    <2>3. PICK x \in K : x.nf = n.nf /\ x.value = worth(K, n.nf)
      <3> HIDE DEF K
      <3>1. QED
        BY <1>1, <2>2, WorthOf
    <2>4. x = n
      BY <2>1, <2>3 DEF open_of
    <2>5. QED
      BY <2>3, <2>4
  <1> HIDE DEF K, S, T, e, f
  <1>9. SumOf(f, S) \in Nat /\ SumOf(e, T) \in Nat
    BY <1>1, <1>5, SumNat
  <1>10. CASE n.nf \in N
    <2>1. T = S /\ \A x \in S : x # n.nf
      BY <1>2, <1>10 DEF S, open_of
    <2>2. \A x \in S : e[x] = f[x]
      BY <1>3, <1>5, <2>1
    <2>3. SumOf(e, S) = SumOf(f, S)
      BY <1>1, <2>2, SumCongruent
    <2>4. QED
      BY <1>4, <1>6, <1>9, <2>1, <2>3 DEF K
  <1>11. CASE n.nf \notin N /\ n.nf \in S
    <2>1. T = S /\ \A x \in S \ {n.nf} : e[x] = f[x]
      BY <1>2, <1>3, <1>5, <1>11
    <2>2. SumOf(e, S) = SumOf(f, S) + (e[n.nf] - f[n.nf])
      BY <1>1, <1>5, <1>11, <2>1, SumChange
    <2>3. e[n.nf] <= f[n.nf] + n.value /\ e[n.nf] \in Nat /\ f[n.nf] \in Nat
      BY <1>5, <1>7, <1>11, <2>1
    <2>4. QED
      BY <1>4, <1>6, <1>9, <2>1, <2>2, <2>3 DEF K
  <1>12. CASE n.nf \notin N /\ n.nf \notin S
    <2>1. T = S \cup {n.nf} /\ \A x \in S : e[x] = f[x]
      BY <1>2, <1>3, <1>5, <1>12
    <2>2. \A x \in S \cup {n.nf} : e[x] \in Nat
      BY <1>5, <2>1
    <2>3. SumOf(e, S \cup {n.nf}) = SumOf(e, S) + e[n.nf]
      BY <1>1, <1>12, <2>2, SumAdd
    <2>4. SumOf(e, S) = SumOf(f, S)
      BY <1>1, <2>1, SumCongruent
    <2>5. e[n.nf] = n.value
      BY <1>5, <1>8, <1>12, <2>1
    <2>6. QED
      BY <1>4, <1>6, <1>9, <2>1, <2>3, <2>4, <2>5 DEF K
  <1>13. QED
    BY <1>10, <1>11, <1>12

-----------------------------------------------------------------------------
(* One pool                                                                *)

\* A pool whose tree and anchors are made of the notes in X.
PoolStates(X) ==
    [asset : Assets \cup {NoAsset}, tree : Trees(X), nullifiers : SUBSET {n.nf : n \in Notes},
     total_shielded : Nat, anchors : Seq(Seq(X))]

\* The pool p under key k, which took the notes L.
PoolFine(k, p, L) ==
    /\ p \in PoolStates(L \cup {NoNote})
    /\ k \in PoolKeys /\ (p.asset = k \/ k = Legacy)
    /\ p.asset = NoAsset => p.total_shielded = 0
    /\ p.tree.next_index <= 2^TREE_DEPTH - 1
    /\ Len(p.anchors) \in 1..ANCHOR_WINDOW
    /\ p.total_shielded <= AMOUNT_MAX
    /\ claims_of(L, p.nullifiers) <= p.total_shielded

\* Trees of some notes are trees of more notes.
LEMMA MoreNotes ==
  ASSUME NEW X, NEW Y, X \subseteq Y
  PROVE  /\ \A s \in Seq(X) : s \in Seq(Y)
         /\ \A s \in Seq(Seq(X)) : s \in Seq(Seq(Y))
         /\ \A t \in Trees(X) : t \in Trees(Y)
  <1>1. \A s \in Seq(X) : s \in Seq(Y)
    OBVIOUS
  <1>2. \A s \in Seq(Seq(X)) : s \in Seq(Seq(Y))
    <2>1. PICK A, B : A = Seq(X) /\ B = Seq(Y) /\ \A s \in A : s \in B
      BY <1>1
    <2>2. \A s \in Seq(A) : s \in Seq(B)
      BY <2>1
    <2>3. QED
      BY <2>1, <2>2
  <1>3. ASSUME NEW t \in Trees(X) PROVE t \in Trees(Y)
    <2>1. PICK A, B : A = Seq(X) /\ B = Seq(Y) /\ \A s \in A : s \in B
      BY <1>1
    <2>2. t \in [frontier : [0..(TREE_DEPTH - 1) -> A], next_index : Nat]
      BY <2>1 DEF Trees
    <2>3. t \in [frontier : [0..(TREE_DEPTH - 1) -> B], next_index : Nat]
      BY <2>1, <2>2
    <2>4. QED
      BY <2>1, <2>3 DEF Trees
  <1>4. QED
    BY <1>1, <1>2, <1>3

\* Sealing puts a root of the pool's own notes into the window, and the window
\* never runs over or dry.
LEMMA SealFine ==
  ASSUME NEW X, NoNote \in X, NEW p \in PoolStates(X), Len(p.anchors) <= ANCHOR_WINDOW
  PROVE  /\ seal_anchor(p) \in PoolStates(X)
         /\ Len(seal_anchor(p).anchors) \in 1..ANCHOR_WINDOW
         /\ \E r : seal_anchor(p) = [p EXCEPT !.anchors = r]
  <1>1. PICK A : A = Seq(X)
    OBVIOUS
  <1>2. PICK r : r = root(p.tree)
    OBVIOUS
  <1>3. r \in A /\ p.anchors \in Seq(A) /\ ANCHOR_WINDOW \in Nat /\ ANCHOR_WINDOW > 0
    <2>1. p.tree \in Trees(X)
      BY DEF PoolStates
    <2>2. root(p.tree) \in Seq(X)
      BY <2>1, RootTyped
    <2>3. QED
      BY <1>1, <1>2, <2>2, PoolAssumption DEF PoolStates
  <1>4. PICK more : more = Append(p.anchors, r)
    OBVIOUS
  <1>5. more \in Seq(A) /\ Len(more) = Len(p.anchors) + 1 /\ more # <<>> /\ Len(p.anchors) \in Nat
    BY <1>3, <1>4
  <1>6. Tail(more) \in Seq(A) /\ Len(Tail(more)) = Len(more) - 1
    BY <1>5
  <1> DEFINE w == IF p.anchors # <<>> /\ Last(p.anchors) = r THEN p.anchors
                  ELSE IF Len(more) > ANCHOR_WINDOW THEN Tail(more) ELSE more
  <1>7. seal_anchor(p) = [p EXCEPT !.anchors = w]
    <2>1. CASE p.anchors # <<>> /\ Last(p.anchors) = r
      <3>1. seal_anchor(p) = p
        BY <1>2, <2>1 DEF seal_anchor
      <3>2. [p EXCEPT !.anchors = p.anchors] = p
        BY DEF PoolStates
      <3>3. QED
        BY <2>1, <3>1, <3>2
    <2>2. CASE ~(p.anchors # <<>> /\ Last(p.anchors) = r)
      BY <1>2, <1>4, <2>2 DEF seal_anchor
    <2>3. QED
      BY <2>1, <2>2
  <1>8. w \in Seq(A) /\ Len(w) \in 1..ANCHOR_WINDOW
    <2>1. p.anchors # <<>> => Len(p.anchors) > 0
      BY <1>3
    <2>2. QED
      BY <1>3, <1>5, <1>6, <2>1
  <1> HIDE DEF w
  <1>9. [p EXCEPT !.anchors = w] \in PoolStates(X) /\ [p EXCEPT !.anchors = w].anchors = w
    BY <1>1, <1>8 DEF PoolStates
  <1>10. QED
    BY <1>7, <1>8, <1>9

\* So a pool is still fine once it is sealed.
LEMMA SealedFine ==
  ASSUME NEW k, NEW p, NEW L, PoolFine(k, p, L)
  PROVE  /\ PoolFine(k, seal_anchor(p), L)
         /\ seal_anchor(p).asset = p.asset /\ seal_anchor(p).total_shielded = p.total_shielded
  <1>1. p \in PoolStates(L \cup {NoNote}) /\ Len(p.anchors) <= ANCHOR_WINDOW
    BY PoolAssumption DEF PoolFine
  <1>2. PICK q : q = seal_anchor(p)
    OBVIOUS
  <1>3. q \in PoolStates(L \cup {NoNote}) /\ Len(q.anchors) \in 1..ANCHOR_WINDOW
        /\ \E r : q = [p EXCEPT !.anchors = r]
    <2>1. PICK X : X = L \cup {NoNote}
      OBVIOUS
    <2>2. NoNote \in X /\ p \in PoolStates(X)
      BY <1>1, <2>1
    <2>3. q \in PoolStates(X) /\ Len(q.anchors) \in 1..ANCHOR_WINDOW
          /\ \E r : q = [p EXCEPT !.anchors = r]
      BY <1>1, <1>2, <2>2, SealFine
    <2>4. QED
      BY <2>1, <2>3
  <1>4. /\ q.asset = p.asset /\ q.tree = p.tree /\ q.nullifiers = p.nullifiers
        /\ q.total_shielded = p.total_shielded
    BY <1>1, <1>3 DEF PoolStates
  <1>5. PoolFine(k, q, L)
    BY <1>3, <1>4 DEF PoolFine
  <1>6. QED
    BY <1>2, <1>4, <1>5

\* A pool starts empty, with its empty root as the first anchor.
LEMMA NewPoolFine ==
  ASSUME NEW asset \in Assets \cup {NoAsset}, NEW k \in PoolKeys, k = asset \/ k = Legacy
  PROVE  /\ PoolFine(k, new_pool(asset), {})
         /\ new_pool(asset).asset = asset /\ new_pool(asset).total_shielded = 0
         /\ new_pool(asset).nullifiers = {}
  <1> DEFINE p == [asset |-> asset, tree |-> new_tree, nullifiers |-> {}, total_shielded |-> 0,
                   anchors |-> <<>>]
  <1>1. new_tree \in Trees({NoNote}) /\ new_tree.next_index = 0
    <2>1. 0 \in 0..(TREE_DEPTH - 1)
      BY EmptyRoots
    <2>2. empty_root(0) \in Seq({NoNote})
      BY <2>1, EmptyRoots
    <2>3. QED
      BY <2>2 DEF new_tree, Trees
  <1>2. /\ p \in PoolStates({NoNote}) /\ p.asset = asset /\ p.total_shielded = 0
        /\ p.nullifiers = {} /\ p.anchors = <<>> /\ p.tree = new_tree
    <2>1. PICK t \in Trees({NoNote}) : t = new_tree
      BY <1>1
    <2>2. <<>> \in Seq(Seq({NoNote}))
      OBVIOUS
    <2>3. QED
      BY <2>1, <2>2 DEF PoolStates
  <1> HIDE DEF p
  <1>3. PICK q : q = seal_anchor(p)
    OBVIOUS
  <1>4. q \in PoolStates({NoNote}) /\ Len(q.anchors) \in 1..ANCHOR_WINDOW
        /\ \E r : q = [p EXCEPT !.anchors = r]
    <2>1. Len(p.anchors) <= ANCHOR_WINDOW
      BY <1>2, PoolAssumption
    <2>2. QED
      BY <1>2, <1>3, <2>1, SealFine
  <1>5. q.asset = asset /\ q.tree = new_tree /\ q.nullifiers = {} /\ q.total_shielded = 0
    BY <1>2, <1>4 DEF PoolStates
  <1>6. claims_of({}, {}) = 0
    <2>1. open_of({}, {}) = {}
      BY DEF open_of
    <2>2. QED
      BY <2>1, SumEmpty DEF claims_of
  <1>7. PoolFine(k, q, {})
    <2>1. {} \cup {NoNote} = {NoNote}
      OBVIOUS
    <2>2. 0 <= 2^TREE_DEPTH - 1
      BY EmptyRoots
    <2>3. q \in PoolStates({} \cup {NoNote}) /\ Len(q.anchors) \in 1..ANCHOR_WINDOW
      BY <1>4, <2>1
    <2>4. q.tree.next_index <= 2^TREE_DEPTH - 1
      BY <1>1, <1>5, <2>2
    <2>5. q.total_shielded <= AMOUNT_MAX /\ claims_of({}, q.nullifiers) <= q.total_shielded
      BY <1>5, <1>6, AmountsFit
    <2>6. QED
      BY <1>5, <2>3, <2>4, <2>5 DEF PoolFine
  <1>8. new_pool(asset) = q
    BY <1>3 DEF new_pool, p
  <1>9. QED
    BY <1>5, <1>7, <1>8

\* u is p with one more commitment in its tree, and nothing else changed.
Taken(u, p, Y) ==
    /\ u \in PoolStates(Y)
    /\ u.tree.next_index = p.tree.next_index + 1
    /\ u.asset = p.asset /\ u.nullifiers = p.nullifiers
    /\ u.total_shielded = p.total_shielded /\ u.anchors = p.anchors

\* A commitment enters the tree.
LEMMA NoteTaken ==
  ASSUME NEW X, NEW Y, X \subseteq Y, NoNote \in Y, NEW n \in Y, NEW p \in PoolStates(X),
         NEW u, u = take_note(p, n)
  PROVE  Taken(u, p, Y)
  <1>1. p.tree \in Trees(Y) /\ p.anchors \in Seq(Seq(Y)) /\ <<n>> \in Seq(Y)
    BY MoreNotes DEF PoolStates
  <1>2. PICK t : t = append(p.tree, <<n>>)
    OBVIOUS
  <1>3. t \in Trees(Y) /\ t.next_index = p.tree.next_index + 1
    <2>1. PICK b, l : b = p.tree /\ l = <<n>>
      OBVIOUS
    <2>2. b \in Trees(Y) /\ l \in Seq(Y)
      BY <1>1, <2>1
    <2>3. append(b, l) \in Trees(Y) /\ append(b, l).next_index = b.next_index + 1
      BY <2>2, AppendTyped
    <2>4. QED
      BY <1>2, <2>1, <2>3
  <1>4. p = [asset |-> p.asset, tree |-> p.tree, nullifiers |-> p.nullifiers,
             total_shielded |-> p.total_shielded, anchors |-> p.anchors]
    BY DEF PoolStates
  <1>5. u = [asset |-> p.asset, tree |-> t, nullifiers |-> p.nullifiers,
             total_shielded |-> p.total_shielded, anchors |-> p.anchors]
    BY <1>2, <1>4 DEF take_note
  <1>6. /\ p.asset \in Assets \cup {NoAsset} /\ p.nullifiers \in SUBSET {x.nf : x \in Notes}
        /\ p.total_shielded \in Nat
    BY DEF PoolStates
  <1>7. u \in PoolStates(Y)
    BY <1>1, <1>3, <1>5, <1>6 DEF PoolStates
  <1>8. QED
    BY <1>3, <1>5, <1>7 DEF Taken

\* A pool after do_mint_to_pool, and after do_shielded_spend.
minted(p, n, asset, v) ==
    [take_note(p, n) EXCEPT !.asset = IF @ = NoAsset THEN asset ELSE @,
                            !.total_shielded = Lesser(@ + v, AMOUNT_MAX)]

spent(p, nf, x, y, v) ==
    [take_note(take_note(p, x), y) EXCEPT !.nullifiers = @ \cup {nf},
                                          !.total_shielded = IF v < @ THEN @ - v ELSE 0]

\* A fine pool q with the notes L holds so much of the asset.
Holds(k, q, L, asset, amount) ==
    PoolFine(k, q, L) /\ q.asset = asset /\ q.total_shielded = amount

\* A shielded amount is claimed by its note at most, and the total covers it.
LEMMA MintFine ==
  ASSUME NEW k, NEW p, NEW L \in SUBSET Notes, IsFiniteSet(L), PoolFine(k, p, L),
         NEW n \in Notes, NEW v \in Nat, n.value = v, NEW asset \in Assets,
         p.asset \in {NoAsset, asset}, has_capacity(p.tree, 1),
         p.total_shielded + v <= AMOUNT_MAX,
         k = asset \/ k = Legacy, NEW q, q = minted(p, n, asset, v)
  PROVE  Holds(k, q, L \cup {n}, asset, p.total_shielded + v)
  <1>1. p \in PoolStates(L \cup {NoNote})
    BY DEF PoolFine
  <1>2. PICK u : u = take_note(p, n)
    OBVIOUS
  <1>3. PICK X, Y : X = L \cup {NoNote} /\ Y = (L \cup {n}) \cup {NoNote}
    OBVIOUS
  <1>4. PICK t : t = u.tree
    OBVIOUS
  <1>5. /\ u \in PoolStates(Y) /\ t.next_index = p.tree.next_index + 1
        /\ u.asset = p.asset /\ u.nullifiers = p.nullifiers
        /\ u.total_shielded = p.total_shielded /\ u.anchors = p.anchors
    <2>1. X \subseteq Y /\ NoNote \in Y /\ n \in Y /\ p \in PoolStates(X)
      BY <1>1, <1>3
    <2>2. Taken(u, p, Y)
      BY <1>2, <2>1, NoteTaken
    <2>3. QED
      BY <1>4, <2>2 DEF Taken
  <1>6. p.total_shielded \in Nat /\ Lesser(p.total_shielded + v, AMOUNT_MAX) = p.total_shielded + v
    <2>1. p.total_shielded \in Nat
      BY <1>1 DEF PoolStates
    <2>2. QED
      BY <2>1, AmountsFit DEF Lesser
  <1>7. (IF p.asset = NoAsset THEN asset ELSE p.asset) = asset
    OBVIOUS
  <1> DEFINE new == minted(p, n, asset, v)
  <1>8. new = [asset |-> asset, tree |-> t, nullifiers |-> p.nullifiers,
               total_shielded |-> p.total_shielded + v, anchors |-> p.anchors]
    <2>1. u = [asset |-> p.asset, tree |-> t, nullifiers |-> p.nullifiers,
               total_shielded |-> p.total_shielded, anchors |-> p.anchors]
      BY <1>4, <1>5 DEF PoolStates
    <2>2. new = [u EXCEPT !.asset = IF @ = NoAsset THEN asset ELSE @,
                          !.total_shielded = Lesser(@ + v, AMOUNT_MAX)]
      BY <1>2 DEF minted
    <2>3. new = [u EXCEPT !.asset = asset, !.total_shielded = p.total_shielded + v]
      BY <1>5, <1>6, <1>7, <2>2
    <2> HIDE DEF new
    <2>4. QED
      BY <2>1, <2>3
  <1> HIDE DEF new
  <1>9. /\ new \in PoolStates(Y) /\ new.asset = asset /\ new.tree = t
        /\ new.nullifiers = p.nullifiers /\ new.total_shielded = p.total_shielded + v
        /\ new.anchors = p.anchors
    <2>1. p.total_shielded + v \in Nat
      BY <1>6
    <2>2. p.anchors \in Seq(Seq(Y)) /\ t \in Trees(Y)
          /\ p.nullifiers \in SUBSET {x.nf : x \in Notes}
      BY <1>4, <1>5 DEF PoolStates
    <2>3. QED
      BY <1>8, <2>1, <2>2 DEF PoolStates
  <1>10. claims_of(L \cup {n}, new.nullifiers) <= new.total_shielded
    <2>1. claims_of(L \cup {n}, p.nullifiers) <= claims_of(L, p.nullifiers) + v
      BY AddedNote
    <2>2. claims_of(L, p.nullifiers) <= p.total_shielded
      BY DEF PoolFine
    <2>3. claims_of(L, p.nullifiers) \in Nat /\ claims_of(L \cup {n}, p.nullifiers) \in Nat
      <3>1. PICK K : K = L \cup {n}
        OBVIOUS
      <3>2. K \in SUBSET Notes /\ IsFiniteSet(K)
        BY <3>1, FS_AddElement
      <3>3. QED
        BY <3>1, <3>2, OpenOf
    <2>4. QED
      BY <1>6, <1>9, <2>1, <2>2, <2>3
  <1>11. new.tree.next_index <= 2^TREE_DEPTH - 1
    BY <1>5, <1>9 DEF has_capacity
  <1>12. asset # NoAsset /\ k \in PoolKeys /\ Len(p.anchors) \in 1..ANCHOR_WINDOW
    BY PoolAssumption DEF PoolFine
  <1>13. PoolFine(k, new, L \cup {n})
    BY <1>3, <1>9, <1>10, <1>11, <1>12 DEF PoolFine
  <1>14. QED
    BY <1>9, <1>13 DEF new, Holds

\* A spend closes one claim, opens two of what is left after the fee, and takes
\* the fee, which the pool has, out of the total.
LEMMA SpendFine ==
  ASSUME NEW k, NEW p, NEW L \in SUBSET Notes, IsFiniteSet(L), PoolFine(k, p, L),
         NEW n \in L, n.nf \notin p.nullifiers, NEW x \in Notes, NEW y \in Notes, NEW v \in Nat,
         n.value = x.value + y.value + v, has_capacity(p.tree, 2),
         v > 0 => p.asset # NoAsset, NEW q, q = spent(p, n.nf, x, y, v)
  PROVE  Holds(k, q, (L \cup {x}) \cup {y}, p.asset, p.total_shielded - v)
         /\ v <= p.total_shielded
  <1>1. p \in PoolStates(L \cup {NoNote})
    BY DEF PoolFine
  <1> DEFINE K == L \cup {x}
             M == K \cup {y}
             Y == M \cup {NoNote}
             N == p.nullifiers
  <1>2. /\ K \in SUBSET Notes /\ IsFiniteSet(K) /\ M \in SUBSET Notes /\ IsFiniteSet(M)
    BY FS_AddElement
  <1>3. PICK u, w : u = take_note(p, x) /\ w = take_note(u, y)
    OBVIOUS
  <1>4. PICK b : b = w.tree
    OBVIOUS
  <1>5. /\ u \in PoolStates(K \cup {NoNote}) /\ u.tree.next_index = p.tree.next_index + 1
        /\ u.asset = p.asset /\ u.nullifiers = N
        /\ u.total_shielded = p.total_shielded /\ u.anchors = p.anchors
    <2>1. PICK X, Z : X = L \cup {NoNote} /\ Z = K \cup {NoNote}
      OBVIOUS
    <2>2. X \subseteq Z /\ NoNote \in Z /\ x \in Z /\ p \in PoolStates(X)
      BY <1>1, <2>1
    <2>3. Taken(u, p, Z)
      BY <1>3, <2>2, NoteTaken
    <2>4. QED
      BY <2>1, <2>3 DEF Taken
  <1>6. /\ w \in PoolStates(Y) /\ b.next_index = u.tree.next_index + 1
        /\ w.asset = u.asset /\ w.nullifiers = u.nullifiers
        /\ w.total_shielded = u.total_shielded /\ w.anchors = u.anchors
    <2>1. PICK Z : Z = K \cup {NoNote}
      OBVIOUS
    <2>2. Z \subseteq Y /\ NoNote \in Y /\ y \in Y /\ u \in PoolStates(Z)
      BY <1>5, <2>1
    <2> HIDE DEF Y
    <2>3. Taken(w, u, Y)
      BY <1>3, <2>2, NoteTaken
    <2>4. QED
      BY <1>4, <2>3 DEF Taken
  <1>7. /\ w \in PoolStates(Y) /\ w.tree = b /\ w.asset = p.asset
        /\ w.nullifiers = N /\ w.total_shielded = p.total_shielded /\ w.anchors = p.anchors
    BY <1>4, <1>5, <1>6
  <1>8. /\ claims_of(L, N \cup {n.nf}) + n.value <= claims_of(L, N)
        /\ claims_of(K, N \cup {n.nf}) <= claims_of(L, N \cup {n.nf}) + x.value
        /\ claims_of(M, N \cup {n.nf}) <= claims_of(K, N \cup {n.nf}) + y.value
    <2>1. claims_of(L, N \cup {n.nf}) + n.value <= claims_of(L, N)
      BY SpentNote
    <2>2. claims_of(K, N \cup {n.nf}) <= claims_of(L, N \cup {n.nf}) + x.value
      BY AddedNote
    <2>3. claims_of(M, N \cup {n.nf}) <= claims_of(K, N \cup {n.nf}) + y.value
      <3> HIDE DEF K
      <3>1. QED
        BY <1>2, AddedNote
    <2>4. QED
      BY <2>1, <2>2, <2>3
  <1>9. /\ claims_of(L, N) \in Nat /\ claims_of(L, N \cup {n.nf}) \in Nat
         /\ claims_of(K, N \cup {n.nf}) \in Nat /\ claims_of(M, N \cup {n.nf}) \in Nat
    <2> HIDE DEF K, M
    <2>1. QED
      BY <1>2, OpenOf
  <1>10. /\ x.value \in Nat /\ y.value \in Nat /\ n.value \in Nat /\ p.total_shielded \in Nat
         /\ claims_of(L, N) <= p.total_shielded /\ n.nf \in {z.nf : z \in Notes}
    BY <1>1, PoolAssumption DEF PoolStates, PoolFine
  <1>11. v <= p.total_shielded /\ claims_of(M, N \cup {n.nf}) <= p.total_shielded - v
    <2> HIDE DEF K, M, N
    <2>1. QED
      BY <1>8, <1>9, <1>10
  <1>12. (IF v < p.total_shielded THEN p.total_shielded - v ELSE 0) = p.total_shielded - v
    BY <1>10, <1>11
  <1> DEFINE new == spent(p, n.nf, x, y, v)
  <1> HIDE DEF K, M, Y, N
  <1>13. new = [asset |-> p.asset, tree |-> b, nullifiers |-> N \cup {n.nf},
                total_shielded |-> p.total_shielded - v, anchors |-> p.anchors]
    <2>1. w = [asset |-> p.asset, tree |-> b, nullifiers |-> N,
               total_shielded |-> p.total_shielded, anchors |-> p.anchors]
      BY <1>7 DEF PoolStates
    <2>2. new = [w EXCEPT !.nullifiers = @ \cup {n.nf},
                          !.total_shielded = IF v < @ THEN @ - v ELSE 0]
      BY <1>3 DEF spent
    <2>3. new = [w EXCEPT !.nullifiers = N \cup {n.nf},
                          !.total_shielded = p.total_shielded - v]
      BY <1>7, <1>12, <2>2
    <2> HIDE DEF new
    <2>4. QED
      BY <2>1, <2>3
  <1> HIDE DEF new
  <1>14. /\ new \in PoolStates(Y) /\ new.asset = p.asset /\ new.tree = b
         /\ new.nullifiers = N \cup {n.nf} /\ new.total_shielded = p.total_shielded - v
         /\ new.anchors = p.anchors
    <2>1. p.total_shielded - v \in Nat
      BY <1>10, <1>11
    <2>2. /\ p.anchors \in Seq(Seq(Y)) /\ b \in Trees(Y) /\ p.asset \in Assets \cup {NoAsset}
          /\ N \cup {n.nf} \in SUBSET {z.nf : z \in Notes}
      BY <1>7, <1>10 DEF PoolStates
    <2>3. QED
      BY <1>13, <2>1, <2>2 DEF PoolStates
  <1>15. new.tree.next_index <= 2^TREE_DEPTH - 1
    <2>1. p.tree.next_index \in Nat
      BY <1>1 DEF PoolStates, Trees
    <2>2. b.next_index = p.tree.next_index + 2
      BY <1>5, <1>6, <2>1
    <2>3. QED
      BY <1>14, <2>2 DEF has_capacity
  <1>16. /\ k \in PoolKeys /\ (p.asset = k \/ k = Legacy)
         /\ Len(p.anchors) \in 1..ANCHOR_WINDOW /\ p.total_shielded <= AMOUNT_MAX
         /\ p.asset = NoAsset => p.total_shielded = 0
    BY DEF PoolFine
  <1>17. new.total_shielded <= AMOUNT_MAX /\ (new.asset = NoAsset => new.total_shielded = 0)
    BY <1>10, <1>11, <1>14, <1>16, AmountsFit
  <1>18. claims_of(M, new.nullifiers) <= new.total_shielded
    BY <1>11, <1>14
  <1>19. PoolFine(k, new, M)
    BY <1>14, <1>15, <1>16, <1>17, <1>18 DEF PoolFine, Y
  <1>20. QED
    BY <1>11, <1>14, <1>19 DEF new, M, K, Holds

-----------------------------------------------------------------------------
(* What the pools hold of an asset                                         *)

in_pool(ps, a) ==
    SumOf([k \in DOMAIN ps |-> ps[k].total_shielded], {k \in DOMAIN ps : ps[k].asset = a})

\* What a table of pools must be for its totals to add up.
PoolTable(ps) ==
    /\ DOMAIN ps \subseteq PoolKeys
    /\ \A k \in DOMAIN ps :
          /\ ps[k].total_shielded \in Nat
          /\ ps[k].asset = k \/ k = Legacy
          /\ ps[k].asset = NoAsset => ps[k].total_shielded = 0

\* Taking one element out of a set, whether it is in it or not.
LEMMA SumWithout ==
  ASSUME NEW f, NEW S, IsFiniteSet(S), \A x \in S : f[x] \in Nat, NEW z, NEW R, R = S \ {z}
  PROVE  /\ SumOf(f, R) \in Nat
         /\ z \in S => SumOf(f, S) = SumOf(f, R) + f[z]
         /\ z \notin S => SumOf(f, S) = SumOf(f, R)
  <1>1. IsFiniteSet(R) /\ \A x \in R : f[x] \in Nat
    BY FS_Subset
  <1>2. SumOf(f, R) \in Nat
    BY <1>1, SumNat
  <1>3. ASSUME z \in S PROVE SumOf(f, S) = SumOf(f, R) + f[z]
    <2>1. SumOf(f, S) = f[z] + SumOf(f, R)
      BY <1>3, SumRemove
    <2>2. QED
      BY <1>2, <1>3, <2>1
  <1>4. ASSUME z \notin S PROVE SumOf(f, S) = SumOf(f, R)
    <2>1. R = S
      BY <1>4
    <2>2. QED
      BY <2>1
  <1>5. QED
    BY <1>2, <1>3, <1>4

\* At most two pools hold an asset, its own and the legacy one.
LEMMA FewPools ==
  ASSUME NEW ps, PoolTable(ps), NEW a
  PROVE  /\ IsFiniteSet({k \in DOMAIN ps : ps[k].asset = a})
         /\ in_pool(ps, a) \in Nat
         /\ \A k \in DOMAIN ps : ps[k].asset = a => ps[k].total_shielded <= in_pool(ps, a)
  <1> DEFINE S == {k \in DOMAIN ps : ps[k].asset = a}
             f == [k \in DOMAIN ps |-> ps[k].total_shielded]
  <1>1. S \subseteq {Legacy, a}
    BY DEF PoolTable
  <1>2. IsFiniteSet({Legacy, a})
    <2>1. IsFiniteSet({Legacy})
      BY FS_Singleton
    <2>2. IsFiniteSet({Legacy} \cup {a})
      BY <2>1, FS_AddElement
    <2>3. {Legacy} \cup {a} = {Legacy, a}
      OBVIOUS
    <2>4. QED
      BY <2>2, <2>3
  <1>3. IsFiniteSet(S)
    BY <1>1, <1>2, FS_Subset
  <1>4. /\ \A k \in S : f[k] \in Nat
        /\ \A k \in DOMAIN ps : f[k] = ps[k].total_shielded /\ (ps[k].asset = a => k \in S)
    BY DEF PoolTable
  <1>5. in_pool(ps, a) = SumOf(f, S)
    BY DEF in_pool
  <1>6. IsFiniteSet({k \in DOMAIN ps : ps[k].asset = a})
    BY <1>3
  <1> HIDE DEF S, f
  <1>7. SumOf(f, S) \in Nat /\ \A k \in S : f[k] <= SumOf(f, S)
    BY <1>3, <1>4, SumNat, SumAbove
  <1>8. QED
    BY <1>4, <1>5, <1>6, <1>7

\* The pool k gains what its total gains, in the asset it holds then.
LEMMA PoolChange ==
  ASSUME NEW ps, NEW qs, PoolTable(ps), PoolTable(qs), NEW k, DOMAIN qs = DOMAIN ps \cup {k},
         \A j \in DOMAIN ps \ {k} :
            qs[j].asset = ps[j].asset /\ qs[j].total_shielded = ps[j].total_shielded,
         k \in DOMAIN ps => ps[k].asset \in {NoAsset, qs[k].asset},
         NEW n, n = IF k \in DOMAIN ps THEN ps[k].total_shielded ELSE 0,
         NEW a \in Assets
  PROVE  in_pool(qs, a) = in_pool(ps, a) + part(a, qs[k].asset, qs[k].total_shielded - n)
  <1> DEFINE S == {j \in DOMAIN ps : ps[j].asset = a}
             T == {j \in DOMAIN qs : qs[j].asset = a}
             f == [j \in DOMAIN ps |-> ps[j].total_shielded]
             e == [j \in DOMAIN qs |-> qs[j].total_shielded]
  <1>1. IsFiniteSet(S) /\ IsFiniteSet(T)
    BY FewPools
  <1>2. in_pool(ps, a) = SumOf(f, S) /\ in_pool(qs, a) = SumOf(e, T)
    BY DEF in_pool
  <1>3. S \ {k} = T \ {k}
    OBVIOUS
  <1>4. /\ \A j \in S : f[j] \in Nat /\ f[j] = ps[j].total_shielded
        /\ \A j \in T : e[j] \in Nat /\ e[j] = qs[j].total_shielded
    BY DEF PoolTable
  <1>5. \A j \in S \ {k} : f[j] = e[j]
    OBVIOUS
  <1>6. n \in Nat /\ qs[k].total_shielded \in Nat
    BY DEF PoolTable
  <1>7. /\ k \in T <=> qs[k].asset = a
        /\ k \in S => ps[k].asset = a /\ k \in DOMAIN ps /\ f[k] = n
        /\ k \notin S /\ qs[k].asset = a => n = 0
    <2>1. k \in DOMAIN qs /\ a # NoAsset
      BY PoolAssumption
    <2>2. k \notin S /\ qs[k].asset = a => n = 0
      BY <2>1 DEF PoolTable
    <2>3. QED
      BY <2>1, <2>2
  <1>8. k \in S => qs[k].asset = a
    BY PoolAssumption
  <1> HIDE DEF S, T, f, e
  <1>9. PICK R : R = S \ {k} /\ R = T \ {k}
    BY <1>3
  <1>10. SumOf(f, R) = SumOf(e, R)
    <2>1. IsFiniteSet(R) /\ \A j \in R : f[j] = e[j]
      BY <1>1, <1>5, <1>9, FS_Subset
    <2>2. QED
      BY <2>1, SumCongruent
  <1>11. /\ SumOf(f, R) \in Nat
         /\ k \in S => SumOf(f, S) = SumOf(f, R) + f[k]
         /\ k \notin S => SumOf(f, S) = SumOf(f, R)
         /\ k \in T => SumOf(e, T) = SumOf(e, R) + e[k]
         /\ k \notin T => SumOf(e, T) = SumOf(e, R)
    <2>1. /\ SumOf(f, R) \in Nat
          /\ k \in S => SumOf(f, S) = SumOf(f, R) + f[k]
          /\ k \notin S => SumOf(f, S) = SumOf(f, R)
      <3>1. R = S \ {k} /\ \A j \in S : f[j] \in Nat
        BY <1>4, <1>9
      <3>2. SumOf(f, R) \in Nat
        BY <1>1, <3>1, SumWithout
      <3>3. k \in S => SumOf(f, S) = SumOf(f, R) + f[k]
        BY <1>1, <3>1, SumWithout
      <3>4. k \notin S => SumOf(f, S) = SumOf(f, R)
        BY <1>1, <3>1, SumWithout
      <3>5. QED
        BY <3>2, <3>3, <3>4
    <2>2. /\ k \in T => SumOf(e, T) = SumOf(e, R) + e[k]
          /\ k \notin T => SumOf(e, T) = SumOf(e, R)
      <3>1. R = T \ {k} /\ \A j \in T : e[j] \in Nat
        BY <1>4, <1>9
      <3>2. k \in T => SumOf(e, T) = SumOf(e, R) + e[k]
        BY <1>1, <3>1, SumWithout
      <3>3. k \notin T => SumOf(e, T) = SumOf(e, R)
        BY <1>1, <3>1, SumWithout
      <3>4. QED
        BY <3>2, <3>3
    <2>3. QED
      BY <2>1, <2>2
  <1>12. CASE qs[k].asset = a
    <2>1. /\ k \in T /\ e[k] = qs[k].total_shielded
          /\ k \in S => f[k] = n
          /\ k \notin S => n = 0
      BY <1>4, <1>7, <1>12
    <2>2. part(a, qs[k].asset, qs[k].total_shielded - n) = qs[k].total_shielded - n
      BY <1>12 DEF part
    <2>3. QED
      BY <1>2, <1>6, <1>10, <1>11, <2>1, <2>2
  <1>13. CASE qs[k].asset # a
    <2>1. part(a, qs[k].asset, qs[k].total_shielded - n) = 0
      BY <1>13 DEF part
    <2>2. k \notin S /\ k \notin T
      BY <1>7, <1>8, <1>13
    <2>3. QED
      BY <1>2, <1>10, <1>11, <2>1, <2>2
  <1>14. QED
    BY <1>12, <1>13

-----------------------------------------------------------------------------
(* All pools                                                               *)

\* The notes of a sequence, and of a longer one.
LEMMA NotesOf ==
  ASSUME NEW T, NEW s \in Seq(T)
  PROVE  /\ ToSet(s) \in SUBSET T /\ IsFiniteSet(ToSet(s))
         /\ \A x \in T : ToSet(Append(s, x)) = ToSet(s) \cup {x}
         /\ \A x, y \in T : ToSet(s \o <<x, y>>) = (ToSet(s) \cup {x}) \cup {y}
  <1>1. ToSet(s) \in SUBSET T
    BY DEF ToSet
  <1>2. IsFiniteSet(ToSet(s))
    <2>1. IsFiniteSet(1..Len(s)) /\ DOMAIN s = 1..Len(s)
      BY FS_Interval
    <2>2. IsFiniteSet({s[i] : i \in 1..Len(s)})
      <3>1. PICK S : S = 1..Len(s)
        OBVIOUS
      <3>2. IsFiniteSet({s[i] : i \in S})
        BY <2>1, <3>1, FiniteImage
      <3>3. QED
        BY <3>1, <3>2
    <2>3. QED
      BY <2>1, <2>2 DEF ToSet
  <1>3. ASSUME NEW x \in T PROVE ToSet(Append(s, x)) = ToSet(s) \cup {x}
    <2>1. PICK u : u = Append(s, x)
      OBVIOUS
    <2>2. /\ DOMAIN s = 1..Len(s) /\ DOMAIN u = 1..(Len(s) + 1) /\ Len(s) \in Nat
          /\ u[Len(s) + 1] = x /\ \A i \in 1..Len(s) : u[i] = s[i]
      BY <2>1
    <2>3. {u[i] : i \in DOMAIN u} = {s[i] : i \in DOMAIN s} \cup {x}
      <3>1. \A i \in DOMAIN u : i \in DOMAIN s \/ i = Len(s) + 1
        BY <2>2
      <3>2. DOMAIN s \subseteq DOMAIN u /\ Len(s) + 1 \in DOMAIN u
        BY <2>2
      <3>3. QED
        BY <2>2, <3>1, <3>2
    <2>4. QED
      BY <2>1, <2>3 DEF ToSet
  <1>4. ASSUME NEW x \in T, NEW y \in T
        PROVE  ToSet(s \o <<x, y>>) = (ToSet(s) \cup {x}) \cup {y}
    <2>1. PICK u : u = s \o <<x, y>>
      OBVIOUS
    <2>2. /\ DOMAIN s = 1..Len(s) /\ DOMAIN u = 1..(Len(s) + 2) /\ Len(s) \in Nat
          /\ u[Len(s) + 1] = x /\ u[Len(s) + 2] = y /\ \A i \in 1..Len(s) : u[i] = s[i]
      BY <2>1
    <2>3. {u[i] : i \in DOMAIN u} = ({s[i] : i \in DOMAIN s} \cup {x}) \cup {y}
      <3>1. \A i \in DOMAIN u : i \in DOMAIN s \/ i = Len(s) + 1 \/ i = Len(s) + 2
        BY <2>2
      <3>2. DOMAIN s \subseteq DOMAIN u /\ Len(s) + 1 \in DOMAIN u /\ Len(s) + 2 \in DOMAIN u
        BY <2>2
      <3>3. QED
        BY <2>2, <3>1, <3>2
    <2>4. QED
      BY <2>1, <2>3 DEF ToSet
  <1>5. QED
    BY <1>1, <1>2, <1>3, <1>4

\* Every pool is fine with the notes it took; one that does not exist took none.
PoolsInv ==
    /\ Legacy \in DOMAIN pools /\ DOMAIN pools \subseteq PoolKeys
    /\ leaves \in [PoolKeys -> Seq(Notes)]
    /\ \A k \in DOMAIN pools : PoolFine(k, pools[k], ToSet(leaves[k]))
    /\ \A k \in PoolKeys \ DOMAIN pools : leaves[k] = <<>>

\* What the pools hold of each asset.
shielded == [a \in Assets |-> in_pool(pools, a)]

\* Pools that are fine have totals that add up.
LEMMA PoolsAdd ==
  ASSUME PoolsInv
  PROVE  PoolTable(pools) /\ shielded \in Elsewhere
  <1>1. PoolTable(pools)
    BY DEF PoolsInv, PoolFine, PoolStates, PoolTable
  <1>2. QED
    BY <1>1, FewPools DEF shielded, Elsewhere

\* The pool an anchor routes to is one that has it.
LEMMA AnchorKey ==
  ASSUME NEW ps, DOMAIN ps \subseteq PoolKeys, NEW anchor, NEW key,
         key = pool_key_of_anchor(ps, anchor), key # NoPool
  PROVE  key \in DOMAIN ps /\ anchor \in ToSet(ps[key].anchors)
  <1> DEFINE known == {k \in DOMAIN ps : anchor \in ToSet(ps[k].anchors)}
  <1>1. known # {}
    BY DEF pool_key_of_anchor
  <1>2. CASE Legacy \in known
    BY <1>2 DEF pool_key_of_anchor
  <1>3. CASE Legacy \notin known
    <2>1. \A k \in known : k \in Assets /\ rank[k] \in Nat
      BY <1>3, PoolAssumption DEF PoolKeys
    <2>2. key = CHOOSE k \in known : \A j \in known : rank[k] <= rank[j]
      BY <1>1, <1>3 DEF pool_key_of_anchor
    <2>3. \E k \in known : \A j \in known : rank[k] <= rank[j]
      <3> HIDE DEF known
      <3>1. PICK N : N = {rank[k] : k \in known}
        OBVIOUS
      <3>2. N # {} /\ \A x \in N : x \in Nat
        BY <1>1, <2>1, <3>1
      <3>3. PICK m \in N : \A x \in N : m <= x
        BY <3>2, Least
      <3>4. QED
        BY <3>1, <3>3
    <2>4. key \in known
      <3> HIDE DEF known
      <3>1. QED
        BY <2>2, <2>3
    <2>5. QED
      BY <2>4
  <1>4. QED
    BY <1>2, <1>3

\* The pool an anchor routes to has that anchor, and every note below the
\* anchor is one that this very pool took.
LEMMA AnchorRoutes ==
  ASSUME PoolsInv, NEW anchor, NEW key, key = pool_key_of_anchor(pools, anchor), key # NoPool
  PROVE  /\ key \in DOMAIN pools
         /\ \A n \in Notes : n \in ToSet(anchor) => n \in ToSet(leaves[key])
  <1>1. key \in DOMAIN pools /\ anchor \in ToSet(pools[key].anchors)
    BY AnchorKey DEF PoolsInv
  <1>2. PICK X : X = ToSet(leaves[key]) \cup {NoNote}
    OBVIOUS
  <1>3. pools[key].anchors \in Seq(Seq(X))
    BY <1>1, <1>2 DEF PoolsInv, PoolFine, PoolStates
  <1>4. anchor \in Seq(X)
    BY <1>1, <1>3 DEF ToSet
  <1>5. ToSet(anchor) \subseteq X
    BY <1>4 DEF ToSet
  <1>6. QED
    BY <1>1, <1>2, <1>5, PoolAssumption

\* The invariant of the whole state machine.
PoolInv == MoneyInv(shielded) /\ Funded /\ PoolsInv

\* What is held elsewhere, named before and after a step.
LEMMA HeldInPools ==
  ASSUME NEW o, MoneyInv(o)', shielded' = o
  PROVE  MoneyInv(shielded)'
  BY DEF MoneyInv, BooksClose

\* A u64 that holds the amount holds it unchanged.
LEMMA Fits == \A x, m \in Nat : x <= m => x % (m + 1) = x
  OBVIOUS

\* A step that leaves the pools alone.
LEMMA PoolsIdle ==
  ASSUME PoolsInv, UNCHANGED <<pools, leaves>>
  PROVE  PoolsInv' /\ shielded' = shielded
  BY DEF PoolsInv, shielded

\* A block seals every pool, which changes no total.
LEMMA SealKeeps ==
  ASSUME PoolsInv, pools' = [k \in DOMAIN pools |-> seal_anchor(pools[k])], UNCHANGED leaves
  PROVE  PoolsInv' /\ shielded' = shielded
  <1>1. DOMAIN pools' = DOMAIN pools /\ \A k \in DOMAIN pools : pools'[k] = seal_anchor(pools[k])
    OBVIOUS
  <1>2. ASSUME NEW k \in DOMAIN pools
        PROVE  /\ PoolFine(k, pools'[k], ToSet(leaves[k]))
               /\ pools'[k].asset = pools[k].asset
               /\ pools'[k].total_shielded = pools[k].total_shielded
    <2>1. PICK p, L : p = pools[k] /\ L = ToSet(leaves[k])
      OBVIOUS
    <2>2. PoolFine(k, p, L)
      BY <2>1 DEF PoolsInv
    <2>3. /\ PoolFine(k, seal_anchor(p), L) /\ seal_anchor(p).asset = p.asset
          /\ seal_anchor(p).total_shielded = p.total_shielded
      BY <2>2, SealedFine
    <2>4. QED
      BY <1>1, <2>1, <2>3
  <1>3. PoolsInv'
    BY <1>1, <1>2 DEF PoolsInv
  <1>4. ASSUME NEW a \in Assets PROVE in_pool(pools', a) = in_pool(pools, a)
    <2>1. [k \in DOMAIN pools' |-> pools'[k].total_shielded]
             = [k \in DOMAIN pools |-> pools[k].total_shielded]
      BY <1>1, <1>2
    <2>2. {k \in DOMAIN pools' : pools'[k].asset = a} = {k \in DOMAIN pools : pools[k].asset = a}
      BY <1>1, <1>2
    <2>3. QED
      BY <2>1, <2>2 DEF in_pool
  <1>5. QED
    BY <1>3, <1>4 DEF shielded

\* The pools are fine after the step and hold x more of the asset.
PoolsGain(asset, x) ==
    /\ PoolsInv' /\ shielded' \in Elsewhere
    /\ \A a \in Assets : shielded'[a] = shielded[a] + part(a, asset, x)

\* One pool takes notes and its total moves; all others stay.
LEMMA PoolMoves ==
  ASSUME PoolsInv, NEW key \in PoolKeys, NEW q, NEW s \in Seq(Notes),
         pools' = with_node(pools, key, q), leaves' \in [PoolKeys -> Seq(Notes)],
         leaves'[key] = s, \A k \in PoolKeys \ {key} : leaves'[k] = leaves[k],
         PoolFine(key, q, ToSet(s)),
         key \in DOMAIN pools => pools[key].asset \in {NoAsset, q.asset},
         NEW n, n = IF key \in DOMAIN pools THEN pools[key].total_shielded ELSE 0
  PROVE  PoolsGain(q.asset, q.total_shielded - n)
  <1>1. /\ DOMAIN pools' = DOMAIN pools \cup {key} /\ pools'[key] = q
        /\ \A k \in DOMAIN pools \ {key} : pools'[k] = pools[k]
    BY DEF with_node
  <1>2. /\ leaves' \in [PoolKeys -> Seq(Notes)] /\ leaves'[key] = s
        /\ \A k \in PoolKeys \ {key} : leaves'[k] = leaves[k]
    OBVIOUS
  <1>3. ASSUME NEW k \in DOMAIN pools'
        PROVE  PoolFine(k, pools'[k], ToSet(leaves'[k]))
    <2>1. CASE k = key
      BY <1>1, <1>2, <2>1
    <2>2. CASE k # key
      <3>1. k \in DOMAIN pools /\ k \in PoolKeys
        BY <1>1, <1>3, <2>2 DEF PoolsInv
      <3>2. pools'[k] = pools[k] /\ leaves'[k] = leaves[k]
        BY <1>1, <1>2, <2>2, <3>1
      <3>3. PoolFine(k, pools[k], ToSet(leaves[k]))
        BY <3>1 DEF PoolsInv
      <3>4. QED
        BY <3>2, <3>3
    <2>3. QED
      BY <2>1, <2>2
  <1>4. PoolsInv'
    <2>1. Legacy \in DOMAIN pools' /\ DOMAIN pools' \subseteq PoolKeys
      BY <1>1 DEF PoolsInv
    <2>2. \A k \in PoolKeys \ DOMAIN pools' : leaves'[k] = <<>>
      BY <1>1, <1>2 DEF PoolsInv
    <2>3. QED
      BY <1>2, <1>3, <2>1, <2>2 DEF PoolsInv
  <1>5. PoolTable(pools)
    BY PoolsAdd
  <1>6. PoolTable(pools')
    BY <1>4 DEF PoolsInv, PoolFine, PoolStates, PoolTable
  <1>7. ASSUME NEW a \in Assets
        PROVE  in_pool(pools', a) = in_pool(pools, a) + part(a, q.asset, q.total_shielded - n)
    <2>1. PICK ps, qs : ps = pools /\ qs = pools'
      OBVIOUS
    <2>2. in_pool(qs, a) = in_pool(ps, a) + part(a, qs[key].asset, qs[key].total_shielded - n)
      <3>1. PoolTable(ps) /\ PoolTable(qs)
        BY <1>5, <1>6, <2>1
      <3>2. /\ DOMAIN qs = DOMAIN ps \cup {key}
            /\ key \in DOMAIN ps => ps[key].asset \in {NoAsset, qs[key].asset}
            /\ n = IF key \in DOMAIN ps THEN ps[key].total_shielded ELSE 0
        BY <1>1, <2>1
      <3>3. \A j \in DOMAIN ps \ {key} :
               qs[j].asset = ps[j].asset /\ qs[j].total_shielded = ps[j].total_shielded
        BY <1>1, <2>1
      <3>4. QED
        BY <3>1, <3>2, <3>3, PoolChange
    <2>3. QED
      BY <1>1, <2>1, <2>2
  <1>8. shielded' \in Elsewhere
    BY <1>6, FewPools DEF shielded, Elsewhere
  <1>9. QED
    BY <1>4, <1>7, <1>8 DEF shielded, PoolsGain

\* do_mint_to_pool: what leaves the sender's balance is in the pool, under one
\* new note of that value, and no total saturates.
LEMMA ShieldKeeps ==
  ASSUME PoolInv, NEW s \in Accounts, NEW asset \in Assets, NEW value \in Values,
         NEW note \in Notes, do_mint_to_pool(s, asset, value, note)
  PROVE  PoolInv'
  <1> DEFINE key == pool_key_of_asset(pools, asset)
             p   == IF key \in DOMAIN pools THEN pools[key] ELSE new_pool(asset)
             L   == ToSet(leaves[key])
             n   == IF key \in DOMAIN pools THEN pools[key].total_shielded ELSE 0
             q   == minted(p, note, asset, value)
             u   == Append(leaves[key], note)
  <1>1. /\ Sender(s) /\ BurnFee /\ UNCHANGED <<clock, accounts, assets, channels, tree>>
        /\ has_capacity(p.tree, 1) /\ mint_statement(note, value) /\ value <= NOTE_MAX
        /\ can_debit(paid(s), s, asset, value) /\ balances' = debit(paid(s), s, asset, value)
        /\ pools' = with_node(pools, key, q) /\ leaves' = [leaves EXCEPT ![key] = u]
    BY DEF do_mint_to_pool, minted
  <1>2. /\ value \in Nat /\ note.value = value /\ PoolsInv
        /\ asset # NoAsset /\ asset # Legacy /\ AMOUNT_MAX \in Nat
    <2>1. value \in Nat /\ NOTE_MAX \in Nat
      BY PoolAssumption, AmountsFit
    <2>2. note.value = value
      BY <1>1, <2>1, Fits DEF mint_statement
    <2>3. QED
      BY <2>1, <2>2, PoolAssumption, AmountsFit DEF PoolInv
  <1>3. /\ key \in PoolKeys /\ (key = asset \/ key = Legacy)
        /\ key = Legacy => key \in DOMAIN pools /\ pools[key].asset \in {NoAsset, asset}
    BY <1>2 DEF pool_key_of_asset, PoolKeys, PoolsInv
  <1> HIDE DEF key
  <1>4. leaves[key] \in Seq(Notes) /\ L \in SUBSET Notes /\ IsFiniteSet(L) /\ u \in Seq(Notes)
        /\ ToSet(u) = L \cup {note}
    <2>1. leaves[key] \in Seq(Notes)
      BY <1>2, <1>3 DEF PoolsInv
    <2>2. PICK l : l = leaves[key]
      OBVIOUS
    <2>3. ToSet(l) \in SUBSET Notes /\ IsFiniteSet(ToSet(l))
          /\ ToSet(Append(l, note)) = ToSet(l) \cup {note}
      BY <2>1, <2>2, NotesOf
    <2>4. QED
      BY <2>1, <2>2, <2>3
  <1>5. /\ PoolFine(key, p, L) /\ p.asset \in {NoAsset, asset} /\ p.total_shielded = n
        /\ key \in DOMAIN pools => p = pools[key]
    <2>1. CASE key \in DOMAIN pools
      BY <1>2, <1>3, <2>1 DEF PoolsInv, PoolFine
    <2>2. CASE key \notin DOMAIN pools
      <3>1. key = asset /\ p = new_pool(asset) /\ n = 0
        BY <1>3, <2>2
      <3>2. L = {}
        BY <1>2, <1>3, <2>2 DEF PoolsInv, ToSet
      <3>3. PoolFine(key, new_pool(asset), {}) /\ new_pool(asset).asset = asset
            /\ new_pool(asset).total_shielded = 0
        BY <1>3, NewPoolFine
      <3> HIDE DEF p, L, n
      <3>4. QED
        BY <2>2, <3>1, <3>2, <3>3
    <2>3. QED
      BY <2>1, <2>2
  <1> HIDE DEF p, L, n, u
  <1>6. PICK o : o = shielded
    OBVIOUS
  <1>7. o \in Elsewhere /\ MoneyInv(o)
    BY <1>2, <1>6, PoolsAdd DEF PoolInv
  <1>8. /\ paid(s) \in Balances
        /\ \A a \in Assets :
              /\ total(paid(s), a) \in Nat /\ escrowed(a) \in Nat /\ issued(a) \in Int
              /\ o[a] \in Nat /\ fees_burned' \in Nat /\ issued(a) <= AMOUNT_MAX
              /\ total(paid(s), a) + escrowed(a) + o[a]
                    = issued(a) - part(a, fee_asset, fees_burned')
    BY <1>1, <1>7, FeeStep DEF Elsewhere
  <1>9. p.total_shielded + value <= AMOUNT_MAX /\ p.total_shielded \in Nat
    <2>1. p.total_shielded \in Nat /\ p.total_shielded <= o[asset]
      <3>1. p.total_shielded \in Nat
        BY <1>5 DEF PoolFine, PoolStates
      <3>2. CASE key \in DOMAIN pools /\ p.asset = asset
        <4>1. o[asset] = in_pool(pools, asset)
          BY <1>6 DEF shielded
        <4>2. PoolTable(pools)
          BY <1>2, PoolsAdd
        <4>3. QED
          BY <1>5, <3>1, <3>2, <4>1, <4>2, FewPools
      <3>3. CASE key \in DOMAIN pools /\ p.asset = NoAsset
        BY <1>5, <1>8, <3>3 DEF PoolFine
      <3>4. CASE key \notin DOMAIN pools
        BY <1>5, <1>8, <3>4 DEF n
      <3>5. QED
        BY <1>5, <3>1, <3>2, <3>3, <3>4
    <2>2. value <= total(paid(s), asset)
      <3>1. paid(s)[s][asset] \in Nat /\ paid(s)[s][asset] <= total(paid(s), asset)
        BY <1>8, TotalNat
      <3>2. QED
        BY <1>1, <1>2, <1>8, <3>1 DEF can_debit
    <2>3. part(asset, fee_asset, fees_burned') \in Nat
      BY <1>8 DEF part
    <2>4. QED
      BY <1>2, <1>8, <2>1, <2>2, <2>3
  <1>10. PoolFine(key, q, L \cup {note}) /\ q.asset = asset /\ q.total_shielded = n + value
    <2>1. q = minted(p, note, asset, value)
      OBVIOUS
    <2> HIDE DEF q
    <2>2. Holds(key, q, L \cup {note}, asset, p.total_shielded + value)
      BY <1>1, <1>2, <1>3, <1>4, <1>5, <1>9, <2>1, MintFine
    <2>3. QED
      BY <1>5, <2>2 DEF Holds
  <1> HIDE DEF q
  <1>11. /\ PoolsInv' /\ shielded' \in Elsewhere
         /\ \A a \in Assets : shielded'[a] = shielded[a] + part(a, asset, value)
    <2>1. PoolsGain(q.asset, q.total_shielded - n)
      <3>1. PoolFine(key, q, ToSet(u))
        BY <1>4, <1>10
      <3>2. key \in DOMAIN pools => pools[key].asset \in {NoAsset, q.asset}
        BY <1>5, <1>10
      <3>3. n = IF key \in DOMAIN pools THEN pools[key].total_shielded ELSE 0
        BY DEF n
      <3>4. /\ leaves' \in [PoolKeys -> Seq(Notes)] /\ leaves'[key] = u
            /\ \A k \in PoolKeys \ {key} : leaves'[k] = leaves[k]
        BY <1>1, <1>2, <1>3, <1>4 DEF PoolsInv
      <3>5. QED
        BY <1>1, <1>2, <1>3, <1>4, <3>1, <3>2, <3>3, <3>4, PoolMoves
    <2>2. q.total_shielded - n = value
      BY <1>2, <1>5, <1>9, <1>10
    <2>3. QED
      BY <1>10, <2>1, <2>2 DEF PoolsGain
  <1>12. /\ balances' \in Balances
         /\ \A a \in Assets : total(balances', a) = total(paid(s), a) - part(a, asset, value)
    <2>1. PICK b : b = paid(s)
      OBVIOUS
    <2>2. b \in Balances /\ can_debit(b, s, asset, value)
          /\ balances' = debit(b, s, asset, value)
      BY <1>1, <1>8, <2>1
    <2>3. balances' \in Balances
          /\ \A a \in Assets : total(balances', a) = total(b, a) - part(a, asset, value)
      BY <1>2, <2>2, DebitTotal
    <2>4. QED
      BY <2>1, <2>3
  <1>13. MoneyInv(shielded)'
    <2>1. AssetsFine' /\ \A a \in Assets : issued(a)' = issued(a)
      BY <1>1, <1>7, AssetsStay
    <2>2. ChannelsFine' /\ \A a \in Assets : escrowed(a)' = escrowed(a)
      BY <1>1, <1>7, ChannelsStay
    <2>3. PICK w : w = shielded'
      OBVIOUS
    <2>4. w \in Elsewhere /\ \A a \in Assets : w[a] = o[a] + part(a, asset, value)
      BY <1>6, <1>11, <2>3
    <2>5. ASSUME NEW a \in Assets
          PROVE  /\ escrowed(a)' \in Nat /\ issued(a)' \in Int
                 /\ total(balances', a) + escrowed(a)' + w[a] + issued(a)
                       = total(paid(s), a) + escrowed(a) + o[a] + issued(a)'
      <3>1. /\ total(paid(s), a) \in Nat /\ escrowed(a) \in Nat /\ issued(a) \in Int
            /\ o[a] \in Nat /\ part(a, asset, value) \in Nat
        BY <1>2, <1>8 DEF part
      <3>2. QED
        BY <1>12, <2>1, <2>2, <2>4, <3>1
    <2>6. (accounts \subseteq Accounts)' /\ UNCHANGED clock
      BY <1>1, <1>7 DEF MoneyInv, MoneyTyped
    <2>7. MoneyInv(w)'
      BY <1>1, <1>7, <1>12, <2>1, <2>2, <2>4, <2>5, <2>6, BooksMove
    <2>8. QED
      BY <2>3, <2>7, HeldInPools
  <1>14. Funded'
    BY <1>1, FundingStays DEF PoolInv, tree
  <1>15. QED
    BY <1>11, <1>13, <1>14 DEF PoolInv

\* What the spend w from the pool under key does.
Unshields(s, key, to, m, w) ==
    /\ key \in DOMAIN pools /\ w.note \in ToSet(leaves[key]) /\ w \in Spends
    /\ has_capacity(pools[key].tree, 2)
    /\ spend_ok(s, pools[key], w, to, m)
    /\ IF m = NoParent THEN UNCHANGED tree ELSE DrawMandate(m, w.fee)
    /\ pools' = [pools EXCEPT ![key] = spent(pools[key], w.note.nf, w.out, w.out2, w.fee)]
    /\ leaves' = [leaves EXCEPT ![key] = @ \o <<w.out, w.out2>>]
    /\ balances' = IF w.fee > 0 THEN credit(paid(s), to, pools[key].asset, w.fee) ELSE paid(s)
    /\ Sender(s) /\ BurnFee /\ UNCHANGED <<clock, accounts, assets, channels>>

\* do_shielded_spend draws on the pool that took the note, and on no other.
LEMMA SpendUnshields ==
  ASSUME PoolsInv, NEW s, NEW anchor, NEW to, NEW m, do_shielded_spend(s, anchor, to, m)
  PROVE  \E key, w : Unshields(s, key, to, m, w)
  <1>1. PICK key : key = pool_key_of_anchor(pools, anchor)
    OBVIOUS
  <1>2. PICK w \in spend_statements(anchor) :
          /\ spend_ok(s, pools[key], w, to, m)
          /\ IF m = NoParent THEN UNCHANGED tree ELSE DrawMandate(m, w.fee)
          /\ pools' = [pools EXCEPT ![key] = spent(pools[key], w.note.nf, w.out, w.out2, w.fee)]
          /\ leaves' = [leaves EXCEPT ![key] = @ \o <<w.out, w.out2>>]
          /\ balances' = IF w.fee > 0 THEN credit(paid(s), to, pools[key].asset, w.fee)
                         ELSE paid(s)
    BY <1>1 DEF do_shielded_spend, spent
  <1>3. /\ key # NoPool /\ has_capacity(pools[key].tree, 2)
        /\ Sender(s) /\ BurnFee /\ UNCHANGED <<clock, accounts, assets, channels>>
    BY <1>1 DEF do_shielded_spend
  <1>4. w \in Spends /\ w.note \in Notes /\ w.note \in ToSet(anchor)
    BY <1>2 DEF spend_statements, Spends
  <1>5. key \in DOMAIN pools /\ w.note \in ToSet(leaves[key])
    BY <1>1, <1>3, <1>4, AnchorRoutes
  <1>6. Unshields(s, key, to, m, w)
    BY <1>2, <1>3, <1>4, <1>5 DEF Unshields
  <1>7. QED
    BY <1>6

\* The fields of a spend, and its balance once the fee is known to fit.
LEMMA SpendFields ==
  ASSUME NEW w \in Spends, w.fee <= NOTE_MAX
  PROVE  /\ w.note \in Notes /\ w.out \in Notes /\ w.out2 \in Notes
         /\ w.fee \in Values /\ w.fee \in 0..AMOUNT_MAX
         /\ w.note.value = w.out.value + w.out2.value + w.fee
  <1>1. /\ w.note \in Notes /\ w.out \in Notes /\ w.out2 \in Notes /\ w.fee \in Values
        /\ w.note.value = w.out.value + w.out2.value + (w.fee % (NOTE_MAX + 1))
    BY DEF Spends
  <1>2. w.fee \in 0..AMOUNT_MAX /\ w.fee \in Nat /\ NOTE_MAX \in Nat
    <2>1. NOTE_MAX \in Nat /\ \A v \in Values : v \in 0..AMOUNT_MAX
      BY PoolAssumption
    <2>2. w.fee \in 0..AMOUNT_MAX
      BY <1>1, <2>1
    <2>3. QED
      BY <2>1, <2>2, AmountsFit
  <1>3. w.fee % (NOTE_MAX + 1) = w.fee
    BY <1>2, Fits
  <1>4. QED
    BY <1>1, <1>2, <1>3

\* do_shielded_spend: the fee that leaves the pool is in a balance, the rest
\* under the new notes, and the pool could pay it.
LEMMA UnshieldKeeps ==
  ASSUME PoolInv, NEW s \in Accounts, NEW key, NEW to \in Accounts \cup {NoAccount}, NEW m, NEW w,
         Unshields(s, key, to, m, w)
  PROVE  PoolInv'
  <1> DEFINE p == pools[key]
             l == leaves[key]
             n == w.note
             v == w.fee
             q == spent(p, n.nf, w.out, w.out2, v)
             u == l \o <<w.out, w.out2>>
  <1>1. /\ Sender(s) /\ BurnFee /\ UNCHANGED <<clock, accounts, assets, channels>>
        /\ has_capacity(p.tree, 2) /\ key \in DOMAIN pools /\ n \in ToSet(l)
        /\ v <= NOTE_MAX /\ n.nf \notin p.nullifiers
        /\ v > 0 => to # NoAccount /\ p.asset # NoAsset
        /\ balances' = IF v > 0 THEN credit(paid(s), to, p.asset, v) ELSE paid(s)
        /\ pools' = [pools EXCEPT ![key] = q] /\ leaves' = [leaves EXCEPT ![key] = u]
    BY DEF Unshields, spend_ok
  <1>2. /\ n \in Notes /\ w.out \in Notes /\ w.out2 \in Notes /\ v \in Nat
        /\ n.value = w.out.value + w.out2.value + v
    <2>1. w \in Spends
      BY DEF Unshields
    <2>2. QED
      BY <1>1, <2>1, SpendFields
  <1>3. PoolsInv /\ key \in PoolKeys /\ AMOUNT_MAX \in Nat
    BY <1>1, AmountsFit DEF PoolInv, PoolsInv
  <1> HIDE DEF n, v
  <1>4. /\ l \in Seq(Notes) /\ ToSet(l) \in SUBSET Notes /\ IsFiniteSet(ToSet(l))
        /\ u \in Seq(Notes) /\ ToSet(u) = (ToSet(l) \cup {w.out}) \cup {w.out2}
    <2>1. l \in Seq(Notes)
      BY <1>3 DEF PoolsInv
    <2> HIDE DEF l
    <2>2. PICK x \in Notes, y \in Notes : x = w.out /\ y = w.out2
      BY <1>2
    <2>3. ToSet(l) \in SUBSET Notes /\ IsFiniteSet(ToSet(l))
          /\ ToSet(l \o <<x, y>>) = (ToSet(l) \cup {x}) \cup {y}
      BY <2>1, <2>2, NotesOf
    <2>4. QED
      BY <1>2, <2>1, <2>2, <2>3
  <1>5. PoolFine(key, p, ToSet(l))
    BY <1>1, <1>3 DEF PoolsInv
  <1>6. /\ p.total_shielded \in Nat /\ p.asset \in Assets \cup {NoAsset}
        /\ v > 0 => p.asset \in Assets /\ to \in Accounts
    BY <1>1, <1>5 DEF PoolFine, PoolStates
  <1> HIDE DEF p, l, q, u
  <1>7. Holds(key, q, ToSet(u), p.asset, p.total_shielded - v) /\ v <= p.total_shielded
    <2>1. PICK L : L = ToSet(l)
      OBVIOUS
    <2>2. PICK x \in Notes, y \in Notes : x = w.out /\ y = w.out2
      BY <1>2
    <2>3. /\ L \in SUBSET Notes /\ IsFiniteSet(L) /\ PoolFine(key, p, L) /\ n \in L
          /\ n.nf \notin p.nullifiers /\ n.value = x.value + y.value + v
          /\ has_capacity(p.tree, 2) /\ v \in Nat /\ (v > 0 => p.asset # NoAsset)
          /\ q = spent(p, n.nf, x, y, v)
      BY <1>1, <1>2, <1>4, <1>5, <2>1, <2>2 DEF q
    <2>4. /\ Holds(key, q, (L \cup {x}) \cup {y}, p.asset, p.total_shielded - v)
          /\ v <= p.total_shielded
      BY <2>3, SpendFine
    <2>5. QED
      BY <1>4, <2>1, <2>2, <2>4
  <1>8. /\ PoolsInv' /\ shielded' \in Elsewhere
        /\ \A a \in Assets : shielded'[a] = shielded[a] + part(a, p.asset, 0 - v)
    <2>1. PoolsGain(q.asset, q.total_shielded - p.total_shielded)
      <3>1. PoolFine(key, q, ToSet(u)) /\ q.asset = p.asset
        BY <1>7 DEF Holds
      <3>2. key \in DOMAIN pools => pools[key].asset \in {NoAsset, q.asset}
        BY <3>1 DEF p
      <3>3. p.total_shielded = IF key \in DOMAIN pools THEN pools[key].total_shielded ELSE 0
        BY <1>1 DEF p
      <3>4. /\ leaves' \in [PoolKeys -> Seq(Notes)] /\ leaves'[key] = u
            /\ \A k \in PoolKeys \ {key} : leaves'[k] = leaves[k]
        BY <1>1, <1>3, <1>4 DEF PoolsInv
      <3>5. pools' = with_node(pools, key, q)
        BY <1>1 DEF with_node
      <3>6. QED
        BY <1>3, <1>4, <3>1, <3>2, <3>3, <3>4, <3>5, PoolMoves
    <2>2. q.total_shielded - p.total_shielded = 0 - v /\ q.asset = p.asset
      BY <1>2, <1>6, <1>7 DEF Holds
    <2>3. QED
      BY <2>1, <2>2 DEF PoolsGain
  <1>9. PICK o : o = shielded
    OBVIOUS
  <1>10. o \in Elsewhere /\ MoneyInv(o)
    BY <1>3, <1>9, PoolsAdd DEF PoolInv
  <1>11. /\ paid(s) \in Balances
         /\ \A a \in Assets :
              /\ total(paid(s), a) \in Nat /\ escrowed(a) \in Nat /\ issued(a) \in Int
              /\ o[a] \in Nat /\ fees_burned' \in Nat /\ issued(a) <= AMOUNT_MAX
              /\ total(paid(s), a) + escrowed(a) + o[a]
                    = issued(a) - part(a, fee_asset, fees_burned')
    BY <1>1, <1>10, FeeStep DEF Elsewhere
  <1>12. /\ balances' \in Balances
         /\ \A a \in Assets : total(balances', a) = total(paid(s), a) + part(a, p.asset, v)
    <2>1. CASE v > 0
      <3>1. p.asset \in Assets /\ to \in Accounts
        BY <1>6, <2>1
      <3>2. p.total_shielded <= o[p.asset]
        <4>1. o[p.asset] = in_pool(pools, p.asset)
          BY <1>9, <3>1 DEF shielded
        <4>2. PoolTable(pools)
          BY <1>3, PoolsAdd
        <4>3. QED
          BY <1>1, <4>1, <4>2, FewPools DEF p
      <3>3. part(p.asset, fee_asset, fees_burned') \in Nat
        BY <1>11, <3>1 DEF part
      <3>4. total(paid(s), p.asset) + v <= AMOUNT_MAX
        BY <1>2, <1>3, <1>6, <1>7, <1>11, <3>1, <3>2, <3>3
      <3>5. PICK b, a0 : b = paid(s) /\ a0 = p.asset
        OBVIOUS
      <3>6. b \in Balances /\ a0 \in Assets /\ balances' = credit(b, to, a0, v)
            /\ total(b, a0) + v <= AMOUNT_MAX
        BY <1>1, <1>11, <2>1, <3>1, <3>4, <3>5
      <3>7. balances' \in Balances
            /\ \A a \in Assets : total(balances', a) = total(b, a) + part(a, a0, v)
        BY <1>2, <3>1, <3>6, CreditTotal
      <3>8. QED
        BY <3>5, <3>7
    <2>2. CASE v = 0
      <3>1. balances' = paid(s)
        BY <1>1, <2>2
      <3>2. \A a : part(a, p.asset, v) = 0
        BY <2>2 DEF part
      <3>3. QED
        BY <1>11, <3>1, <3>2
    <2>3. QED
      BY <1>2, <2>1, <2>2
  <1>13. MoneyInv(shielded)'
    <2>1. AssetsFine' /\ \A a \in Assets : issued(a)' = issued(a)
      BY <1>1, <1>10, AssetsStay
    <2>2. ChannelsFine' /\ \A a \in Assets : escrowed(a)' = escrowed(a)
      BY <1>1, <1>10, ChannelsStay
    <2>3. PICK z : z = shielded'
      OBVIOUS
    <2>4. z \in Elsewhere /\ \A a \in Assets : z[a] = o[a] + part(a, p.asset, 0 - v)
      BY <1>8, <1>9, <2>3
    <2>5. ASSUME NEW a \in Assets
          PROVE  /\ escrowed(a)' \in Nat /\ issued(a)' \in Int
                 /\ total(balances', a) + escrowed(a)' + z[a] + issued(a)
                       = total(paid(s), a) + escrowed(a) + o[a] + issued(a)'
      <3>1. /\ total(paid(s), a) \in Nat /\ escrowed(a) \in Nat /\ issued(a) \in Int
            /\ o[a] \in Nat /\ part(a, p.asset, v) \in Nat
            /\ part(a, p.asset, 0 - v) = 0 - part(a, p.asset, v)
        BY <1>2, <1>11 DEF part
      <3>2. QED
        BY <1>12, <2>1, <2>2, <2>4, <3>1
    <2>6. (accounts \subseteq Accounts)' /\ UNCHANGED clock
      BY <1>1, <1>10 DEF MoneyInv, MoneyTyped
    <2>7. MoneyInv(z)'
      BY <1>1, <1>10, <1>12, <2>1, <2>2, <2>4, <2>5, <2>6, BooksMove
    <2>8. QED
      BY <2>3, <2>7, HeldInPools
  <1>14. Funded'
    <2>1. Funded
      BY DEF PoolInv
    <2>2. CASE m = NoParent
      BY <2>1, <2>2, FundingStays DEF Unshields, tree
    <2>3. CASE m # NoParent
      BY <2>1, <2>3, DrawFunded DEF Unshields
    <2>4. QED
      BY <2>2, <2>3
  <1>15. QED
    BY <1>8, <1>13, <1>14 DEF PoolInv

-----------------------------------------------------------------------------
(* The whole state machine                                                 *)

\* A spend with a mandate draws it once, for the fee; without one it leaves
\* the tree alone.
LEMMA SpendDrivesTree ==
  ASSUME NEW s \in Accounts, NEW anchor, NEW to, NEW m \in MandateIds \cup {NoParent},
         do_shielded_spend(s, anchor, to, m)
  PROVE  MT!Next \/ UNCHANGED MT!vars
  <1>1. PICK p, w : /\ w \in Spends /\ spend_ok(s, p, w, to, m)
                    /\ IF m = NoParent THEN UNCHANGED tree ELSE DrawMandate(m, w.fee)
    BY DEF do_shielded_spend, spend_statements
  <1>2. UNCHANGED time
    BY DEF do_shielded_spend, clock
  <1>3. CASE m = NoParent
    BY <1>1, <1>2, <1>3, TreeStays
  <1>4. CASE m # NoParent
    <2>1. w.fee <= NOTE_MAX /\ check(mandates, m, w.fee, time) /\ m \in MandateIds
      BY <1>1, <1>4 DEF spend_ok, sink_ok
    <2>2. w.fee \in 0..AMOUNT_MAX /\ DrawMandate(m, w.fee)
      BY <1>1, <1>4, <2>1, SpendFields
    <2>3. QED
      BY <1>2, <2>1, <2>2, DrawSpends
  <1>5. QED
    BY <1>3, <1>4

\* Every step of the whole state machine is a step of the tree or leaves the
\* tree alone.
LEMMA PoolStepDrivesTree == time \in Nat /\ [PoolNext]_allvars => [MT!Next]_(MT!vars)
  <1> SUFFICES ASSUME time \in Nat, [PoolNext]_allvars PROVE MT!Next \/ UNCHANGED MT!vars
    OBVIOUS
  <1>1. CASE UNCHANGED allvars
    BY <1>1, TreeStays DEF allvars, vars, tree
  <1>2. CASE \E dt \in 0..MaxTime : EndBlock(dt)
    BY <1>2, BlockDrivesTree DEF EndBlock
  <1>3. ASSUME NEW s \in Accounts, PoolTx(s) PROVE MT!Next \/ UNCHANGED MT!vars
    <2>1. ASSUME NEW a \in Assets, NEW v \in Values, NEW n \in Notes, do_mint_to_pool(s, a, v, n)
          PROVE  UNCHANGED MT!vars
      BY <2>1, TreeStays DEF do_mint_to_pool, clock
    <2>2. QED
      BY <1>3, <2>1, SpendDrivesTree DEF PoolTx
  <1>4. QED
    BY <1>1, <1>2, <1>3, TxDrivesTree DEF PoolNext

\* Block time is a natural number.
LEMMA PoolTimeIsNat == PoolSpec => [](time \in Nat)
  <1>1. PoolInit => time \in Nat
    BY DEF PoolInit, Init
  <1>2. time \in Nat /\ [PoolNext]_allvars => (time \in Nat)'
    <2> SUFFICES ASSUME time \in Nat, [PoolNext]_allvars PROVE time' \in Nat
      OBVIOUS
    <2>1. ASSUME NEW dt \in 0..MaxTime, EndBlock(dt) PROVE time' \in Nat
      <3>1. NewBlock(dt)
        BY <2>1 DEF EndBlock
      <3>2. QED
        BY <3>1, AmountsFit DEF NewBlock
    <2>2. ASSUME NEW s \in Accounts, PoolTx(s) PROVE UNCHANGED time
      <3>1. \A a, v, n : do_mint_to_pool(s, a, v, n) => UNCHANGED time
        BY DEF do_mint_to_pool, clock
      <3>2. \A anchor, to, m : do_shielded_spend(s, anchor, to, m) => UNCHANGED time
        BY DEF do_shielded_spend, clock
      <3>3. QED
        BY <2>2, <3>1, <3>2 DEF PoolTx
    <2>3. UNCHANGED allvars => UNCHANGED time
      BY DEF allvars, vars
    <2>4. QED
      BY <2>1, <2>2, <2>3, TxTakesNoTime DEF PoolNext
  <1>3. QED
    BY <1>1, <1>2, PTL DEF PoolSpec

\* With pools as without, hk-state drives the mandate tree only through its own
\* operations: an unshielding fee is one more Spend.
THEOREM PoolImplementsMandateTree == PoolSpec => ImplementsMandateTree
  <1>1. PoolInit => MT!Init
    BY DEF PoolInit, Init, NoFunction, MT!Init
  <1>2. QED
    BY <1>1, PoolStepDrivesTree, PoolTimeIsNat, PTL DEF PoolSpec, ImplementsMandateTree, MT!Spec

\* So the tree's theorems hold of it.
LEMMA PoolTreeFacts == PoolSpec => []TreeFacts
  <1>1. MTP!Spec => []MTP!OneRoot
    BY MTP!TreeOneRoot, TreeTheoremsApply, PTL
  <1>2. MTP!Spec => []MTP!TreeInv
    BY MTP!TreeInvariant, TreeTheoremsApply, PTL
  <1>3. QED
    BY <1>1, <1>2, SameTree, PoolImplementsMandateTree, PTL DEF ImplementsMandateTree, TreeFacts

\* Fees taken out of a pool count against the budgets too: no mandate and its
\* subtree draw more than the opening buffer plus the drip since creation.
THEOREM PoolEnvelopeBound == PoolSpec => []MT!EnvelopeBound
  <1>1. MTP!Spec => []MTP!EnvelopeBound
    BY MTP!TreeEnvelopeBound, TreeTheoremsApply, PTL
  <1>2. MTP!EnvelopeBound => MT!EnvelopeBound
    BY DEF MTP!EnvelopeBound, MT!EnvelopeBound, MTP!projected, MT!projected,
           MTP!Lesser, MT!Lesser
  <1>3. QED
    BY <1>1, <1>2, SameTree, PoolImplementsMandateTree, PTL DEF ImplementsMandateTree

\* At genesis there is the legacy pool, empty and without an asset.
LEMMA PoolInvInit == PoolInit => PoolInv
  <1> SUFFICES ASSUME PoolInit PROVE PoolInv
    OBVIOUS
  <1>1. DOMAIN pools = {Legacy} /\ pools[Legacy] = new_pool(NoAsset)
        /\ leaves = [k \in PoolKeys |-> <<>>]
    BY DEF PoolInit
  <1>2. Legacy \in PoolKeys
    BY DEF PoolKeys
  <1>3. /\ PoolFine(Legacy, new_pool(NoAsset), {}) /\ new_pool(NoAsset).asset = NoAsset
        /\ new_pool(NoAsset).total_shielded = 0
    BY <1>2, NewPoolFine
  <1>4. PoolsInv
    <2>1. \A k \in PoolKeys : leaves[k] = <<>> /\ ToSet(leaves[k]) = {}
      BY <1>1 DEF ToSet
    <2>2. leaves \in [PoolKeys -> Seq(Notes)]
      <3>1. <<>> \in Seq(Notes)
        OBVIOUS
      <3>2. QED
        BY <1>1, <3>1
    <2>3. QED
      BY <1>1, <1>2, <1>3, <2>1, <2>2 DEF PoolsInv
  <1>5. shielded = Nowhere
    <2>1. ASSUME NEW a \in Assets PROVE in_pool(pools, a) = 0
      <3>1. a # NoAsset
        BY PoolAssumption
      <3>2. {k \in DOMAIN pools : pools[k].asset = a} = {}
        BY <1>1, <1>3, <3>1
      <3>3. QED
        BY <3>2, SumEmpty DEF in_pool
    <2>2. QED
      BY <2>1 DEF shielded, Nowhere
  <1>6. MoneyInv(shielded)
    BY <1>5, MoneyInit DEF PoolInit
  <1>7. Funded
    BY DEF PoolInit, Funded, Init, NoFunction
  <1>8. QED
    BY <1>4, <1>6, <1>7 DEF PoolInv

\* Whatever leaves the pools alone and keeps the books keeps the invariant.
LEMMA PoolInvStays ==
  ASSUME PoolInv, Funded', PoolsInv', shielded' = shielded,
         \A o \in Elsewhere : MoneyInv(o) => MoneyInv(o)'
  PROVE  PoolInv'
  <1>1. PICK o : o = shielded
    OBVIOUS
  <1>2. o \in Elsewhere /\ MoneyInv(o)
    BY <1>1, PoolsAdd DEF PoolInv
  <1>3. MoneyInv(o)' /\ shielded' = o
    BY <1>1, <1>2
  <1>4. MoneyInv(shielded)'
    BY <1>3, HeldInPools
  <1>5. QED
    BY <1>4 DEF PoolInv

\* Every step keeps the invariant.
LEMMA PoolInvStep == PoolInv /\ TreeFacts /\ [PoolNext]_allvars => PoolInv'
  <1> SUFFICES ASSUME PoolInv, TreeFacts, [PoolNext]_allvars PROVE PoolInv'
    OBVIOUS
  <1>1. Funded /\ PoolsInv
    BY DEF PoolInv
  <1>2. CASE UNCHANGED allvars
    <2>1. UNCHANGED vars /\ UNCHANGED <<pools, leaves>>
      BY <1>2 DEF allvars
    <2>2. PoolsInv' /\ shielded' = shielded
      BY <1>1, <2>1, PoolsIdle
    <2>3. Funded'
      BY <1>1, <2>1, FundedStep
    <2>4. QED
      BY <2>1, <2>2, <2>3, IdleKeeps, PoolInvStays
  <1>3. ASSUME NEW dt \in 0..MaxTime, EndBlock(dt) PROVE PoolInv'
    <2>1. /\ NewBlock(dt) /\ UNCHANGED leaves
          /\ pools' = [k \in DOMAIN pools |-> seal_anchor(pools[k])]
      BY <1>3 DEF EndBlock
    <2>2. PoolsInv' /\ shielded' = shielded
      BY <1>1, <2>1, SealKeeps
    <2>3. Funded'
      BY <1>1, <2>1, FundingStays DEF NewBlock, tree
    <2>4. QED
      BY <2>1, <2>2, <2>3, NewBlockKeeps, PoolInvStays
  <1>4. ASSUME NEW s \in Accounts, Tx(s), UNCHANGED poolvars PROVE PoolInv'
    <2>1. PoolsInv' /\ shielded' = shielded
      BY <1>1, <1>4, PoolsIdle DEF poolvars
    <2>2. Funded'
      BY <1>1, <1>4, TxFunded
    <2>3. QED
      BY <1>1, <1>4, <2>1, <2>2, TxKeeps, PoolInvStays
  <1>5. ASSUME NEW s \in Accounts, PoolTx(s) PROVE PoolInv'
    <2>1. ASSUME NEW anchor, NEW to \in Accounts \cup {NoAccount}, NEW m,
                 do_shielded_spend(s, anchor, to, m)
          PROVE  PoolInv'
      <3>1. PICK key, w : Unshields(s, key, to, m, w)
        BY <1>1, <2>1, SpendUnshields
      <3>2. QED
        BY <3>1, UnshieldKeeps
    <2>2. QED
      BY <1>5, <2>1, ShieldKeeps DEF PoolTx
  <1>6. QED
    BY <1>2, <1>3, <1>4, <1>5 DEF PoolNext

\* Every reachable state has closed books with the pools' totals on them, pools
\* that cover their notes, and funded roots over a sound mandate tree.
THEOREM PoolInvariant == PoolSpec => [](PoolInv /\ TreeFacts)
  BY PoolInvInit, PoolInvStep, PoolTreeFacts, PTL DEF PoolSpec

\* The pools neither make nor lose money: do_mint_to_pool, do_shielded_spend and
\* the sealing of a block leave in every pool at least what its unspent notes are
\* worth, and every unit issued in a balance, an escrow or a pool of its asset.
THEOREM PoolsAreBacked == PoolSpec => []PoolBacked
  <1>1. PoolInv /\ TreeFacts => TypeOK
    BY MandatesTyped DEF TreeFacts, PoolInv, MoneyInv, MoneyTyped, Funded, TypeOK, Balances
  <1>2. PoolInv => \A k \in DOMAIN pools :
            /\ pools[k].asset = k \/ (k = Legacy /\ pools[k].asset \in Assets \cup {NoAsset})
            /\ pools[k].tree.next_index \in 0..(2^TREE_DEPTH - 1)
            /\ Len(pools[k].anchors) \in 1..ANCHOR_WINDOW
            /\ pools[k].total_shielded \in 0..AMOUNT_MAX
    <2> SUFFICES ASSUME PoolInv, NEW k \in DOMAIN pools
                 PROVE  /\ pools[k].asset = k \/ (k = Legacy /\ pools[k].asset \in Assets \cup {NoAsset})
                        /\ pools[k].tree.next_index \in 0..(2^TREE_DEPTH - 1)
                        /\ Len(pools[k].anchors) \in 1..ANCHOR_WINDOW
                        /\ pools[k].total_shielded \in 0..AMOUNT_MAX
      OBVIOUS
    <2>1. PICK p, L : p = pools[k] /\ L = ToSet(leaves[k])
      OBVIOUS
    <2>2. PoolFine(k, p, L)
      BY <2>1 DEF PoolInv, PoolsInv
    <2>3. p.asset \in Assets \cup {NoAsset} /\ p.total_shielded \in Nat /\ p.tree.next_index \in Nat
      BY <2>2 DEF PoolFine, PoolStates, Trees
    <2>4. 2^TREE_DEPTH - 1 \in Int
      BY EmptyRoots
    <2>5. QED
      BY <2>1, <2>2, <2>3, <2>4, AmountsFit DEF PoolFine
  <1>3. PoolInv /\ TreeFacts => PoolTypeOK
    BY <1>1, <1>2 DEF PoolInv, PoolsInv, PoolTypeOK
  <1>4. PoolInv => \A k \in DOMAIN pools : Claims(k) <= pools[k].total_shielded
    <2> SUFFICES ASSUME PoolInv, NEW k \in DOMAIN pools
                 PROVE  Claims(k) <= pools[k].total_shielded
      OBVIOUS
    <2>1. Claims(k) = claims_of(ToSet(leaves[k]), pools[k].nullifiers)
      BY DEF Claims, claims_of, open_of, worth
    <2>2. QED
      BY <2>1 DEF PoolInv, PoolsInv, PoolFine
  <1>5. PoolInv => \A a \in Assets :
            held(a) + escrowed(a)
                + SumOf([k \in DOMAIN pools |-> pools[k].total_shielded],
                        {k \in DOMAIN pools : pools[k].asset = a}) = issued(a) - fees(a)
    BY DEF PoolInv, MoneyInv, BooksClose, shielded, in_pool
  <1>6. PoolInv /\ TreeFacts => PoolBacked
    BY <1>3, <1>4, <1>5 DEF PoolBacked
  <1>7. QED
    BY <1>6, PoolInvariant, PTL

\* Shielding and unshielding leave a paused asset and a frozen balance alone.
LEMMA StoppedStaysOut ==
  ASSUME PoolInv, NEW x \in Accounts, NEW a \in Assets, stopped(x, a), NEW s \in Accounts, PoolTx(s)
  PROVE  balances'[x][a] = balances[x][a]
  <1>1. PICK o : o = shielded
    OBVIOUS
  <1>2. o \in Elsewhere /\ MoneyInv(o) /\ PoolsInv
    BY <1>1, PoolsAdd DEF PoolInv
  <1>3. ASSUME Sender(s), BurnFee PROVE a # fee_asset /\ paid(s)[x][a] = balances[x][a]
    BY <1>2, <1>3, FeeIsNeverStopped
  <1>4. ASSUME Sender(s), BurnFee, NEW y \in Accounts, NEW b \in Assets, NEW n, asset_gate(b, {y}),
               balances' \in {credit(paid(s), y, b, n), debit(paid(s), y, b, n)}
        PROVE  balances'[x][a] = balances[x][a]
    <2>1. a # b \/ x # y
      BY <1>4, GateStops
    <2>2. balances'[x][a] = paid(s)[x][a]
      BY <1>2, <1>4, <2>1, CreditTouches
    <2>3. QED
      BY <1>3, <1>4, <2>2
  <1>5. ASSUME NEW b \in Assets, NEW v \in Values, NEW n \in Notes, do_mint_to_pool(s, b, v, n)
        PROVE  balances'[x][a] = balances[x][a]
    <2>1. /\ Sender(s) /\ BurnFee /\ asset_gate(b, {s})
          /\ balances' = debit(paid(s), s, b, v)
      BY <1>5 DEF do_mint_to_pool
    <2>2. QED
      BY <1>4, <2>1
  <1>6. ASSUME NEW anchor, NEW to \in Accounts \cup {NoAccount}, NEW m,
               do_shielded_spend(s, anchor, to, m)
        PROVE  balances'[x][a] = balances[x][a]
    <2>1. PICK key, w : Unshields(s, key, to, m, w)
      BY <1>2, <1>6, SpendUnshields
    <2>2. PICK p, v : p = pools[key] /\ v = w.fee
      OBVIOUS
    <2>3. /\ Sender(s) /\ BurnFee
          /\ v > 0 => to # NoAccount /\ p.asset # NoAsset /\ asset_gate(p.asset, {to})
          /\ balances' = IF v > 0 THEN credit(paid(s), to, p.asset, v) ELSE paid(s)
          /\ p.asset \in Assets \cup {NoAsset}
      BY <1>2, <2>1, <2>2 DEF Unshields, spend_ok, PoolsInv, PoolFine, PoolStates
    <2>4. CASE v > 0
      BY <1>4, <2>3, <2>4
    <2>5. CASE ~(v > 0)
      BY <1>3, <2>3, <2>5
    <2>6. QED
      BY <2>4, <2>5
  <1>7. QED
    BY <1>5, <1>6 DEF PoolTx

\* R17: the pool a mandate's fee comes from holds the asset of the mandate's root.
LEMMA FeeInRootAsset ==
  ASSUME PoolInv, TreeFacts, NEW s, NEW key, NEW to, NEW m \in MandateIds \cup {NoParent}, NEW w,
         Unshields(s, key, to, m, w), asset_bound,
         NEW r \in DOMAIN root_funding, drawn'[r] > drawn[r],
         NEW k \in DOMAIN pools, pools'[k].total_shielded < pools[k].total_shielded
  PROVE  pools[k].asset = mandates[r].asset
  <1>1. /\ DOMAIN root_funding \subseteq MandateIds /\ drawn \in [MandateIds -> Nat]
        /\ Funded /\ pools[k].total_shielded \in Nat
    BY MandatesTyped DEF PoolInv, Funded, TreeFacts, PoolsInv, PoolFine, PoolStates
  <1>2. m # NoParent /\ m \in MandateIds /\ DrawMandate(m, w.fee)
    <2>1. CASE m = NoParent
      <3>1. UNCHANGED drawn
        BY <2>1 DEF Unshields, tree
      <3>2. QED
        BY <1>1, <3>1
    <2>2. QED
      BY <2>1 DEF Unshields
  <1>3. k = key
    <2>1. k # key => pools'[k] = pools[k]
      BY DEF Unshields
    <2>2. QED
      BY <1>1, <2>1
  <1>4. /\ m \in DOMAIN mandates /\ pools[key].asset = mandates[m].asset
        /\ mandates[m].asset = mandates[root_of(mandates, m)].asset
    BY <1>2 DEF Unshields, spend_ok, sink_ok
  <1>5. r \in chain_of(mandates, m)
    BY <1>1, <1>2 DEF DrawMandate
  <1>6. r = root_of(mandates, m)
    BY <1>1, <1>4, <1>5, FunderExists
  <1>7. QED
    BY <1>3, <1>4, <1>6

\* Money does not get round the issuer's or the mandate's rules through a pool:
\* neither do_mint_to_pool nor do_shielded_spend moves a stopped balance, and
\* (R17) a mandate's fee leaves a pool of the asset of the mandate's root only.
THEOREM PoolNoWayRound == PoolSpec => NoWayRoundThePool
  <1> DEFINE Stays == \A a \in DOMAIN assets, x \in Accounts :
                 assets[a].paused \/ x \in assets[a].frozen => balances'[x][a] = balances[x][a]
             InAsset == asset_bound => \A r \in DOMAIN root_funding, k \in DOMAIN pools :
                 drawn'[r] > drawn[r] /\ pools'[k].total_shielded < pools[k].total_shielded
                    => pools[k].asset = mandates[r].asset
  <1>1. ASSUME PoolInv, TreeFacts, [PoolNext]_allvars PROVE [Stays]_vars
    <2>1. PICK o : o = shielded
      OBVIOUS
    <2>2. o \in Elsewhere /\ MoneyInv(o) /\ Funded /\ DOMAIN assets \subseteq Assets
      BY <1>1, <2>1, PoolsAdd DEF PoolInv, MoneyInv, MoneyTyped
    <2>3. CASE \E dt \in 0..MaxTime : EndBlock(dt)
      BY <2>3 DEF EndBlock, NewBlock
    <2>4. CASE \E s \in Accounts : Tx(s)
      BY <1>1, <2>2, <2>4, StoppedStays DEF stopped
    <2>5. CASE \E s \in Accounts : PoolTx(s)
      BY <1>1, <2>2, <2>5, StoppedStaysOut DEF stopped
    <2>6. CASE UNCHANGED allvars
      BY <2>6 DEF allvars
    <2>7. QED
      BY <1>1, <2>3, <2>4, <2>5, <2>6 DEF PoolNext
  <1>2. ASSUME PoolInv, TreeFacts, [PoolNext]_allvars PROVE [InAsset]_allvars
    <2>1. /\ DOMAIN root_funding \subseteq MandateIds /\ drawn \in [MandateIds -> Nat]
          /\ \A k \in DOMAIN pools : pools[k].total_shielded \in Nat
      BY <1>2, MandatesTyped DEF PoolInv, Funded, TreeFacts, PoolsInv, PoolFine, PoolStates
    <2>2. ASSUME UNCHANGED drawn PROVE InAsset
      BY <2>1, <2>2
    <2>3. ASSUME UNCHANGED pools PROVE InAsset
      BY <2>1, <2>3
    <2>4. ASSUME NEW s \in Accounts, PoolTx(s) PROVE InAsset
      <3>1. ASSUME NEW a, NEW v, NEW n, do_mint_to_pool(s, a, v, n) PROVE UNCHANGED drawn
        BY <3>1 DEF do_mint_to_pool, tree
      <3>2. ASSUME NEW anchor, NEW to, NEW m \in MandateIds \cup {NoParent},
                   do_shielded_spend(s, anchor, to, m)
            PROVE  InAsset
        <4>1. PICK key, w : Unshields(s, key, to, m, w)
          BY <1>2, <3>2, SpendUnshields DEF PoolInv
        <4>2. QED
          BY <1>2, <4>1, FeeInRootAsset
      <3>3. QED
        BY <2>2, <2>4, <3>1, <3>2 DEF PoolTx
    <2>5. \A dt : EndBlock(dt) => UNCHANGED drawn
      BY DEF EndBlock, NewBlock, tree
    <2>6. QED
      BY <1>2, <2>2, <2>3, <2>4, <2>5 DEF PoolNext, poolvars
  <1>3. QED
    BY <1>1, <1>2, PoolInvariant, PTL DEF PoolSpec, NoWayRoundThePool, FrozenMovesNothing

-----------------------------------------------------------------------------
(* The feeds                                                               *)

Mints == [kind : {"mint"}, asset : Assets, pool : PoolKeys, outs : Seq(Notes)]
Sends == [kind : {"spend"}, anchor : Seq(Notes \cup {NoNote}), pool : PoolKeys, outs : Seq(Notes)]

\* g is what the pools held before and after each transaction of b; l, at its end.
Takes(g, b, l) ==
    /\ \A i \in 0..Len(b) : g[i] \in [PoolKeys -> Seq(Notes)]
    /\ \A i \in 1..Len(b) : g[i] = [g[i - 1] EXCEPT ![b[i].pool] = @ \o b[i].outs]
    /\ g[Len(b)] = l

\* Outside X the feeds f hold what the pools held before the block b.
Behind(f, b, l, X) ==
    /\ f \in [PoolKeys -> Seq(Notes)] /\ b \in Seq(Mints \cup Sends)
    /\ \E g : Takes(g, b, l) /\ \A k \in PoolKeys \ X : g[0][k] = f[k]

\* Once an asset is the legacy pool's, where a shield goes is settled.
Homes(a, b) == \A i \in 1..Len(b) : b[i].kind = "mint" =>
                  a # NoAsset /\ b[i].pool = (IF a = b[i].asset THEN Legacy ELSE b[i].asset)

\* The feeds are behind the pools by the block under way.
FeedInv == Behind(feeds, block, leaves, strays) /\ Homes(pools[Legacy].asset, block)

\* g is the fold of the filing over the subsets of 1..n in D.
IsFiling(g, ps, base, q, D) ==
    g = [s \in D |-> IF s = {} THEN base ELSE filed(g[s \ {Max(s)}], ps, q[Max(s)])]

\* The last of some transactions of a block.
LEMMA LastOf ==
  ASSUME NEW n \in Nat, NEW s \in SUBSET (1..n), s # {}
  PROVE  Max(s) \in s /\ \A x \in s : x <= Max(s)
  <1>0. IsFiniteSet(1..n) /\ s \subseteq 1..n
    BY FS_Interval
  <1>1. IsFiniteSet(s)
    BY <1>0, FS_Subset
  <1>2. \A x \in s : x \in Nat
    OBVIOUS
  <1>3. QED
    BY <1>1, <1>2, LargestOf

\* A fold over n transactions extends to one more.
LEMMA FilingExtends ==
  ASSUME NEW ps, NEW base, NEW q, NEW n \in Nat, NEW g, IsFiling(g, ps, base, q, SUBSET (1..n))
  PROVE  \E h : IsFiling(h, ps, base, q, SUBSET (1..(n + 1)))
  <1> DEFINE D == SUBSET (1..(n + 1))
             h == [s \in D |-> IF s = {} THEN base ELSE filed(g[s \ {Max(s)}], ps, q[Max(s)])]
  <1>1. ASSUME NEW s \in D, s # {} PROVE s \ {Max(s)} \in SUBSET (1..n)
    <2>1. PICK k \in Nat : k = n + 1
      OBVIOUS
    <2>2. s \in SUBSET (1..k)
      BY <2>1
    <2>3. Max(s) \in s /\ \A x \in s : x <= Max(s)
      BY <1>1, <2>2, LastOf
    <2>4. \A x \in s : x \in 1..(n + 1)
      OBVIOUS
    <2>5. ASSUME NEW x \in s, x # Max(s) PROVE x \in 1..n
      <3>1. x <= Max(s) /\ x \in 1..(n + 1) /\ Max(s) \in 1..(n + 1)
        BY <2>3, <2>4
      <3>2. QED
        BY <2>5, <3>1
    <2>6. QED
      BY <2>5
  <1>2. ASSUME NEW t \in SUBSET (1..n) PROVE t \in D /\ h[t] = g[t]
    <2>1. t \in D
      OBVIOUS
    <2>2. g[t] = IF t = {} THEN base ELSE filed(g[t \ {Max(t)}], ps, q[Max(t)])
      BY DEF IsFiling
    <2>3. QED
      BY <2>1, <2>2
  <1>3. h = [s \in D |-> IF s = {} THEN base ELSE filed(h[s \ {Max(s)}], ps, q[Max(s)])]
    BY <1>1, <1>2
  <1> HIDE DEF h
  <1>4. QED
    BY <1>3 DEF IsFiling

\* So there is a fold for blocks of any length.
LEMMA FilingExists ==
  ASSUME NEW ps, NEW base, NEW q, NEW n \in Nat
  PROVE  \E g : IsFiling(g, ps, base, q, SUBSET (1..n))
  <1> DEFINE G == {i \in Nat : \E g : IsFiling(g, ps, base, q, SUBSET (1..i))}
  <1>1. 0 \in G
    <2>1. SUBSET (1..0) = {{}}
      OBVIOUS
    <2>2. IsFiling([s \in {{}} |-> base], ps, base, q, SUBSET (1..0))
      BY <2>1 DEF IsFiling
    <2>3. QED
      BY <2>2
  <1>2. \A i \in 1..n : i - 1 \in G => i \in G
    <2>1. SUFFICES ASSUME NEW i \in 1..n, i - 1 \in G PROVE i \in G
      OBVIOUS
    <2>2. PICK g : IsFiling(g, ps, base, q, SUBSET (1..(i - 1)))
      BY <2>1
    <2>3. \E h : IsFiling(h, ps, base, q, SUBSET (1..((i - 1) + 1)))
      BY <2>1, <2>2, FilingExtends
    <2>4. (i - 1) + 1 = i
      OBVIOUS
    <2>5. QED
      BY <2>3, <2>4
  <1> HIDE DEF G
  <1>3. n \in G
    BY <1>1, <1>2, LevelByLevel
  <1>4. QED
    BY <1>3 DEF G

\* r files the transactions of b one after the other, from f on.
Files(r, f, ps, b) == r[0] = f /\ \A i \in 1..Len(b) : r[i] = filed(r[i - 1], ps, b[i])

\* So the block's transactions are filed one after the other.
LEMMA FilingRuns ==
  ASSUME NEW ps, NEW base, NEW q, Len(q) \in Nat, DOMAIN q = 1..Len(q)
  PROVE  \E r : Files(r, base, ps, q) /\ r[Len(q)] = filed_all(base, ps, q)
  <1> DEFINE n == Len(q)
             D == SUBSET DOMAIN q
             h == CHOOSE g : g = [s \in D |-> IF s = {} THEN base ELSE filed(g[s \ {Max(s)}], ps, q[Max(s)])]
             r == [i \in 0..n |-> h[1..i]]
  <1>1. filed_all(base, ps, q) = h[DOMAIN q]
    BY DEF filed_all, FoldLeft, MapThenFoldSet
  <1>2. PICK g : IsFiling(g, ps, base, q, SUBSET (1..Len(q)))
    BY FilingExists
  <1>3. h = [s \in D |-> IF s = {} THEN base ELSE filed(h[s \ {Max(s)}], ps, q[Max(s)])]
    BY <1>2 DEF IsFiling
  <1> HIDE DEF h
  <1>4. r[0] = base
    <2>1. 1..0 = {}
      OBVIOUS
    <2>2. QED
      BY <1>3, <2>1
  <1>5. ASSUME NEW i \in 1..n PROVE r[i] = filed(r[i - 1], ps, q[i])
    <2>1. 1..i \in SUBSET (1..n) /\ 1..i # {}
      <3>1. n \in Nat /\ i \in Nat /\ 1 <= i /\ i <= n
        OBVIOUS
      <3> HIDE DEF n
      <3>2. \A x \in 1..i : x \in 1..n
        BY <3>1
      <3>3. i \in 1..i
        BY <3>1
      <3>4. QED
        BY <3>2, <3>3
    <2>2. Max(1..i) = i
      <3>1. PICK s \in SUBSET (1..n) : s = 1..i /\ s # {}
        BY <2>1
      <3>2. Max(s) \in s /\ \A x \in s : x <= Max(s)
        BY <3>1, LastOf
      <3>3. i \in s /\ \A x \in s : x \in Nat /\ x <= i
        BY <3>1
      <3>4. PICK m : m = Max(s)
        OBVIOUS
      <3>5. m \in Nat /\ m <= i /\ i <= m
        BY <3>2, <3>3, <3>4
      <3>6. m = i
        BY <3>5
      <3>7. QED
        BY <3>1, <3>4, <3>6
    <2>3. (1..i) \ {i} = 1..(i - 1)
      OBVIOUS
    <2>4. h[1..i] = filed(h[1..(i - 1)], ps, q[i])
      BY <1>3, <2>1, <2>2, <2>3
    <2>5. QED
      BY <2>4
  <1>6. r[n] = h[DOMAIN q]
    OBVIOUS
  <1> HIDE DEF r
  <1>7. QED
    BY <1>1, <1>4, <1>5, <1>6 DEF Files

\* Every transaction of a block has a feed.
LEMMA FeedKey ==
  ASSUME NEW ps, DOMAIN ps \subseteq PoolKeys, NEW tx \in Mints \cup Sends
  PROVE  feed_of(ps, tx) \in PoolKeys /\ tx.outs \in Seq(Notes)
  <1>1. Legacy \in PoolKeys /\ Assets \subseteq PoolKeys
    BY DEF PoolKeys
  <1>2. tx.outs \in Seq(Notes)
    BY DEF Mints, Sends
  <1>3. CASE tx \in Mints
    <2>1. tx.kind = "mint" /\ tx.asset \in Assets
      BY <1>3 DEF Mints
    <2>2. QED
      BY <1>1, <1>2, <2>1 DEF feed_of, pool_key_of_asset
  <1>4. CASE tx \in Sends
    <2>1. tx.kind # "mint"
      BY <1>4 DEF Sends
    <2>2. PICK key : key = pool_key_of_anchor(ps, tx.anchor)
      OBVIOUS
    <2>3. feed_of(ps, tx) = IF key = NoPool THEN Legacy ELSE key
      BY <2>1, <2>2 DEF feed_of
    <2>4. key # NoPool => key \in DOMAIN ps
      BY <2>2, AnchorKey
    <2>5. QED
      BY <1>1, <1>2, <2>3, <2>4
  <1>5. QED
    BY <1>3, <1>4

\* One more transaction is taken.
LEMMA TakesMore ==
  ASSUME NEW f, NEW b, NEW l, NEW X, Behind(f, b, l, X), NEW t \in Mints \cup Sends,
         NEW u \in [PoolKeys -> Seq(Notes)], u = [l EXCEPT ![t.pool] = @ \o t.outs]
  PROVE  Behind(f, Append(b, t), u, X)
  <1>1. PICK g : Takes(g, b, l) /\ \A k \in PoolKeys \ X : g[0][k] = f[k]
    BY DEF Behind
  <1>2. PICK c, m : c = Append(b, t) /\ m = Len(b)
    OBVIOUS
  <1>3. b \in Seq(Mints \cup Sends) /\ f \in [PoolKeys -> Seq(Notes)]
    BY DEF Behind
  <1>4. /\ c \in Seq(Mints \cup Sends) /\ m \in Nat /\ Len(c) = m + 1 /\ c[m + 1] = t
        /\ \A i \in 1..m : c[i] = b[i]
    BY <1>2, <1>3
  <1>5. PICK h : h = [i \in 0..(m + 1) |-> IF i = m + 1 THEN u ELSE g[i]]
    OBVIOUS
  <1>6. h[m + 1] = u /\ \A i \in 0..m : h[i] = g[i]
    <2>1. m + 1 \in 0..(m + 1) /\ \A i \in 0..m : i \in 0..(m + 1) /\ i # m + 1
      BY <1>4
    <2>2. QED
      BY <1>5, <2>1
  <1>7. /\ \A i \in 0..m : g[i] \in [PoolKeys -> Seq(Notes)]
        /\ \A i \in 1..m : g[i] = [g[i - 1] EXCEPT ![b[i].pool] = @ \o b[i].outs]
        /\ g[m] = l
    BY <1>1, <1>2 DEF Takes
  <1>8. \A i \in 0..(m + 1) : h[i] \in [PoolKeys -> Seq(Notes)]
    <2>1. \A i \in 0..(m + 1) : i \in 0..m \/ i = m + 1
      BY <1>4
    <2>2. QED
      BY <1>6, <1>7, <2>1
  <1>9. ASSUME NEW i \in 1..(m + 1)
        PROVE  h[i] = [h[i - 1] EXCEPT ![c[i].pool] = @ \o c[i].outs]
    <2>1. i - 1 \in 0..m
      BY <1>4
    <2>2. CASE i = m + 1
      <3>1. h[i] = u /\ h[i - 1] = l /\ c[i] = t
        BY <1>4, <1>6, <1>7, <2>1, <2>2
      <3>2. QED
        BY <3>1
    <2>3. CASE i # m + 1
      <3>1. i \in 1..m /\ i \in 0..m
        BY <1>4, <2>3
      <3>2. h[i] = g[i] /\ h[i - 1] = g[i - 1] /\ c[i] = b[i]
        BY <1>4, <1>6, <2>1, <3>1
      <3>3. QED
        BY <1>7, <3>1, <3>2
    <2>4. QED
      BY <2>2, <2>3
  <1>10. Takes(h, c, u)
    BY <1>4, <1>6, <1>8, <1>9 DEF Takes
  <1>11. h[0] = g[0]
    BY <1>4, <1>6
  <1>12. Behind(f, c, u, X)
    <2>1. \A k \in PoolKeys \ X : h[0][k] = f[k]
      BY <1>1, <1>11
    <2>2. QED
      BY <1>3, <1>4, <1>10, <2>1 DEF Behind
  <1>13. QED
    BY <1>2, <1>12

\* The pools' notes that a transaction sends astray.
Astray(ps, b) == UNION {touched(ps, tx) : tx \in {t \in ToSet(b) : rerouted(ps, t)}}

\* An anchor that one pool knows routes to it.
LEMMA AnchorFound ==
  ASSUME NEW ps, NEW anchor, NEW home \in PoolKeys, knowing(ps, anchor) = {home}
  PROVE  pool_key_of_anchor(ps, anchor) = home
  <1> DEFINE known == {k \in DOMAIN ps : anchor \in ToSet(ps[k].anchors)}
  <1>1. known = {home}
    BY DEF knowing
  <1>2. CASE home = Legacy
    BY <1>1, <1>2 DEF pool_key_of_anchor
  <1>3. CASE home # Legacy
    <2>1. rank[home] \in Nat
      BY <1>3, PoolAssumption DEF PoolKeys
    <2>2. pool_key_of_anchor(ps, anchor) = CHOOSE k \in known : \A j \in known : rank[k] <= rank[j]
      BY <1>1, <1>3 DEF pool_key_of_anchor
    <2> HIDE DEF known
    <2>3. \A k \in known : k = home
      BY <1>1
    <2>4. \E k \in known : \A j \in known : rank[k] <= rank[j]
      BY <1>1, <2>1
    <2>5. QED
      BY <2>2, <2>3, <2>4
  <1>4. QED
    BY <1>2, <1>3

\* A transaction is filed under the pool that took it, or both are astray.
LEMMA FiledHome ==
  ASSUME NEW ps, DOMAIN ps \subseteq PoolKeys, NEW tx \in Mints \cup Sends,
         tx.kind = "mint" => pool_key_of_asset(ps, tx.asset) = tx.pool,
         NEW X, rerouted(ps, tx) => touched(ps, tx) \subseteq X
  PROVE  \/ feed_of(ps, tx) = tx.pool
         \/ feed_of(ps, tx) \in X /\ tx.pool \in X
  <1>1. tx.pool \in PoolKeys /\ NoPool \notin PoolKeys
    BY PoolAssumption DEF Mints, Sends, PoolKeys
  <1>2. CASE tx.kind = "mint"
    BY <1>1, <1>2 DEF feed_of
  <1>3. CASE tx.kind # "mint"
    <2>1. tx.kind = "spend"
      BY <1>3 DEF Mints, Sends
    <2>2. PICK key : key = pool_key_of_anchor(ps, tx.anchor)
      OBVIOUS
    <2>3. feed_of(ps, tx) = IF key = NoPool THEN Legacy ELSE key
      BY <1>3, <2>2 DEF feed_of
    <2>4. key # NoPool => key \in knowing(ps, tx.anchor)
      BY <2>2, AnchorKey DEF knowing
    <2>5. CASE rerouted(ps, tx)
      BY <2>3, <2>4, <2>5 DEF touched
    <2>6. CASE ~rerouted(ps, tx)
      <3>1. knowing(ps, tx.anchor) = {tx.pool}
        BY <2>1, <2>6 DEF rerouted
      <3>2. key = tx.pool
        BY <1>1, <2>2, <3>1, AnchorFound
      <3>3. QED
        BY <1>1, <2>3, <3>2
    <2>7. QED
      BY <2>5, <2>6
  <1>4. QED
    BY <1>2, <1>3

\* Filing a block leaves the feeds, outside what went astray, at the pools' notes.
LEMMA FiledAll ==
  ASSUME NEW f, NEW b, NEW l, NEW X, Behind(f, b, l, X), NEW ps, DOMAIN ps \subseteq PoolKeys,
         \A i \in 1..Len(b) : b[i].kind = "mint" => pool_key_of_asset(ps, b[i].asset) = b[i].pool,
         NEW r, Files(r, f, ps, b)
  PROVE  /\ r[Len(b)] \in [PoolKeys -> Seq(Notes)]
         /\ \A k \in PoolKeys \ (X \cup Astray(ps, b)) : r[Len(b)][k] = l[k]
  <1>1. PICK g : Takes(g, b, l) /\ \A k \in PoolKeys \ X : g[0][k] = f[k]
    BY DEF Behind
  <1>2. PICK Y : Y = X \cup Astray(ps, b)
    OBVIOUS
  <1>3. PICK m \in Nat : m = Len(b) /\ b \in Seq(Mints \cup Sends) /\ f \in [PoolKeys -> Seq(Notes)]
    BY DEF Behind
  <1> DEFINE G == {i \in Nat : i <= m => /\ r[i] \in [PoolKeys -> Seq(Notes)]
                                        /\ \A k \in PoolKeys \ Y : r[i][k] = g[i][k]}
  <1>4. 0 \in G
    BY <1>1, <1>2, <1>3 DEF Files
  <1>5. \A i \in 1..m : i - 1 \in G => i \in G
    <2>1. SUFFICES ASSUME NEW i \in 1..m, i - 1 \in G PROVE i \in G
      OBVIOUS
    <2>2. PICK x, y, tx : x = r[i - 1] /\ y = r[i] /\ tx = b[i]
      OBVIOUS
    <2>3. /\ x \in [PoolKeys -> Seq(Notes)] /\ y = filed(x, ps, tx) /\ tx \in Mints \cup Sends
          /\ tx.kind = "mint" => pool_key_of_asset(ps, tx.asset) = tx.pool
          /\ \A k \in PoolKeys \ Y : x[k] = g[i - 1][k]
      BY <1>3, <2>1, <2>2 DEF Files
    <2>4. rerouted(ps, tx) => touched(ps, tx) \subseteq Y
      <3>1. tx \in ToSet(b)
        BY <1>3, <2>2 DEF ToSet
      <3>2. QED
        BY <1>2, <3>1 DEF Astray
    <2>5. PICK key : key = feed_of(ps, tx)
      OBVIOUS
    <2>6. key \in PoolKeys /\ tx.outs \in Seq(Notes) /\ tx.pool \in PoolKeys
      BY <2>3, <2>5, FeedKey DEF Mints, Sends
    <2>7. key = tx.pool \/ (key \in Y /\ tx.pool \in Y)
      BY <2>3, <2>4, <2>5, FiledHome
    <2>8. y = [x EXCEPT ![key] = x[key] \o tx.outs]
      BY <2>3, <2>5 DEF filed
    <2>9. PICK p, q : p = g[i - 1] /\ q = g[i]
      OBVIOUS
    <2>10. q = [p EXCEPT ![tx.pool] = p[tx.pool] \o tx.outs] /\ p \in [PoolKeys -> Seq(Notes)]
      <3>1. i \in 1..Len(b) /\ i - 1 \in 0..Len(b)
        BY <1>3
      <3>2. g[i] = [g[i - 1] EXCEPT ![b[i].pool] = @ \o b[i].outs] /\ g[i - 1] \in [PoolKeys -> Seq(Notes)]
        BY <1>1, <3>1 DEF Takes
      <3>3. QED
        BY <2>2, <2>9, <3>2
    <2>11. x[key] \o tx.outs \in Seq(Notes)
      BY <2>3, <2>6
    <2>12. y \in [PoolKeys -> Seq(Notes)]
      BY <2>3, <2>6, <2>8, <2>11
    <2>13. ASSUME NEW k \in PoolKeys \ Y PROVE y[k] = q[k]
      <3>1. x[k] = p[k]
        BY <2>3, <2>9
      <3>2. CASE k = key
        <4>1. key = tx.pool
          BY <2>7, <3>2
        <4>2. y[key] = x[key] \o tx.outs
          BY <2>3, <2>6, <2>8
        <4>3. q[key] = p[key] \o tx.outs
          BY <2>6, <2>10, <4>1
        <4>4. QED
          BY <3>1, <3>2, <4>2, <4>3
      <3>3. CASE k # key
        <4>1. k # tx.pool
          BY <2>7, <3>3
        <4>2. y[k] = x[k]
          BY <2>3, <2>6, <2>8, <3>3
        <4>3. q[k] = p[k]
          BY <2>6, <2>10, <4>1
        <4>4. QED
          BY <3>1, <4>2, <4>3
      <3>4. QED
        BY <3>2, <3>3
    <2>14. QED
      BY <2>2, <2>9, <2>12, <2>13
  <1> HIDE DEF G
  <1>6. m \in G
    <2>1. \A i \in 0..m : i \in G
      BY <1>4, <1>5, LevelByLevel
    <2>2. m \in 0..m
      OBVIOUS
    <2>3. QED
      BY <2>1, <2>2
  <1>7. QED
    BY <1>1, <1>2, <1>3, <1>6 DEF G, Takes

\* do_mint_to_pool: the commitment goes to the asset's pool and into the block.
LEMMA ShieldFiled ==
  ASSUME FeedInv, PoolsInv, NEW s, NEW asset \in Assets, NEW value, NEW note \in Notes,
         do_mint_to_pool(s, asset, value, note)
  PROVE  FeedInv'
  <1>1. PICK key : key = pool_key_of_asset(pools, asset)
    OBVIOUS
  <1>2. PICK t : t = [kind |-> "mint", asset |-> asset, pool |-> key, outs |-> <<note>>]
    OBVIOUS
  <1>3. /\ leaves' = [leaves EXCEPT ![key] = Append(leaves[key], note)]
        /\ block' = Append(block, t) /\ feeds' = feeds /\ strays' = strays
    BY <1>1, <1>2 DEF do_mint_to_pool
  <1>4. PICK f, b, l, u, X : f = feeds /\ b = block /\ l = leaves /\ u = leaves' /\ X = strays
    OBVIOUS
  <1>5. Behind(f, b, l, X) /\ l \in [PoolKeys -> Seq(Notes)] /\ b \in Seq(Mints \cup Sends)
    BY <1>4 DEF FeedInv, Behind, PoolsInv
  <1>6. key \in PoolKeys
    BY <1>1 DEF pool_key_of_asset, PoolKeys
  <1>7. t \in Mints \cup Sends /\ t.outs = <<note>> /\ t.pool = key /\ t.asset = asset
    BY <1>2, <1>6 DEF Mints
  <1>8. Append(l[key], note) = l[key] \o <<note>> /\ l[key] \o <<note>> \in Seq(Notes)
    BY <1>5, <1>6
  <1>9. u = [l EXCEPT ![t.pool] = l[t.pool] \o t.outs] /\ u \in [PoolKeys -> Seq(Notes)]
    BY <1>3, <1>4, <1>5, <1>6, <1>7, <1>8
  <1>10. Behind(f, Append(b, t), u, X)
    BY <1>5, <1>7, <1>9, TakesMore
  <1>11. PICK a, e : a = pools[Legacy].asset /\ e = pools'[Legacy].asset
    OBVIOUS
  <1>12. /\ key = (IF a \in {NoAsset, asset} THEN Legacy ELSE asset)
         /\ e = (IF a = NoAsset /\ key = Legacy THEN asset ELSE a)
    <2>1. key = (IF a \in {NoAsset, asset} THEN Legacy ELSE asset)
      BY <1>1, <1>11 DEF pool_key_of_asset
    <2>2. PICK p : /\ p = (IF key \in DOMAIN pools THEN pools[key] ELSE new_pool(asset))
                   /\ pools' = with_node(pools, key,
                        [take_note(p, note) EXCEPT !.asset = IF @ = NoAsset THEN asset ELSE @,
                                     !.total_shielded = Lesser(@ + value, AMOUNT_MAX)])
      BY <1>1 DEF do_mint_to_pool
    <2>3. Legacy \in DOMAIN pools /\ pools[Legacy] \in PoolStates(ToSet(leaves[Legacy]) \cup {NoNote})
      BY DEF PoolsInv, PoolFine
    <2>4. CASE key = Legacy
      <3>1. p = pools[Legacy] /\ p.asset = a
        BY <1>11, <2>2, <2>3, <2>4
      <3>2. PICK o : o = take_note(p, note)
        OBVIOUS
      <3>3. o.asset = a /\ DOMAIN o = {"asset", "tree", "nullifiers", "total_shielded", "anchors"}
        BY <2>3, <3>1, <3>2 DEF take_note, PoolStates
      <3>4. pools'[Legacy] = [o EXCEPT !.asset = IF @ = NoAsset THEN asset ELSE @,
                                     !.total_shielded = Lesser(@ + value, AMOUNT_MAX)]
        BY <2>2, <2>3, <2>4, <3>2 DEF with_node
      <3>5. pools'[Legacy].asset = IF a = NoAsset THEN asset ELSE a
        BY <3>3, <3>4
      <3>6. QED
        BY <1>11, <2>1, <2>4, <3>5
    <2>5. CASE key # Legacy
      BY <1>11, <2>1, <2>2, <2>3, <2>5 DEF with_node
    <2>6. QED
      BY <2>4, <2>5
  <1>13. Homes(e, Append(b, t))
    <2>1. Homes(a, b) /\ asset # NoAsset
      BY <1>4, <1>11, PoolAssumption DEF FeedInv
    <2>2. PICK c, n : c = Append(b, t) /\ n = Len(b)
      OBVIOUS
    <2>3. n \in Nat /\ Len(c) = n + 1 /\ c[n + 1] = t /\ \A i \in 1..n : c[i] = b[i]
      BY <1>5, <2>2
    <2>4. ASSUME NEW i \in 1..(n + 1), c[i].kind = "mint"
          PROVE  e # NoAsset /\ c[i].pool = (IF e = c[i].asset THEN Legacy ELSE c[i].asset)
      <3>1. CASE i = n + 1
        <4>1. c[i].pool = key /\ c[i].asset = asset
          BY <1>7, <2>3, <3>1
        <4>2. QED
          BY <1>12, <2>1, <4>1
      <3>2. CASE i # n + 1
        <4>1. i \in 1..Len(b) /\ c[i] = b[i]
          BY <2>2, <2>3, <3>2
        <4>2. a # NoAsset /\ b[i].pool = (IF a = b[i].asset THEN Legacy ELSE b[i].asset)
          BY <2>1, <2>4, <4>1 DEF Homes
        <4>3. QED
          BY <1>12, <4>1, <4>2
      <3>3. QED
        BY <3>1, <3>2
    <2>5. QED
      BY <2>2, <2>3, <2>4 DEF Homes
  <1>14. QED
    BY <1>3, <1>4, <1>10, <1>11, <1>13 DEF FeedInv

\* do_shielded_spend: both commitments go to the anchor's pool and into the block.
LEMMA UnshieldFiled ==
  ASSUME FeedInv, PoolsInv, NEW s, NEW anchor, NEW to, NEW m, do_shielded_spend(s, anchor, to, m)
  PROVE  FeedInv'
  <1>1. PICK key : key = pool_key_of_anchor(pools, anchor)
    OBVIOUS
  <1>2. key # NoPool /\ feeds' = feeds /\ strays' = strays
    BY <1>1 DEF do_shielded_spend
  <1>3. PICK w \in Spends : /\ leaves' = [leaves EXCEPT ![key] = leaves[key] \o <<w.out, w.out2>>]
                            /\ block' = Append(block, [kind |-> "spend", anchor |-> anchor, pool |-> key,
                                                       outs |-> <<w.out, w.out2>>])
                            /\ pools' = [pools EXCEPT ![key] =
                                 [take_note(take_note(pools[key], w.out), w.out2) EXCEPT
                                     !.nullifiers = @ \cup {w.note.nf},
                                     !.total_shielded = IF w.fee < @ THEN @ - w.fee ELSE 0]]
    BY <1>1 DEF do_shielded_spend, spend_statements
  <1>4. PICK x \in Notes, y \in Notes : x = w.out /\ y = w.out2
    BY DEF Spends
  <1>5. PICK t : t = [kind |-> "spend", anchor |-> anchor, pool |-> key, outs |-> <<x, y>>]
    OBVIOUS
  <1>6. PICK f, b, l, u, X : f = feeds /\ b = block /\ l = leaves /\ u = leaves' /\ X = strays
    OBVIOUS
  <1>7. Behind(f, b, l, X) /\ l \in [PoolKeys -> Seq(Notes)] /\ b \in Seq(Mints \cup Sends)
    BY <1>6 DEF FeedInv, Behind, PoolsInv
  <1>8. u = [l EXCEPT ![key] = l[key] \o <<x, y>>] /\ block' = Append(b, t)
    BY <1>3, <1>4, <1>5, <1>6
  <1>9. key \in PoolKeys /\ key \in DOMAIN pools /\ anchor \in ToSet(pools[key].anchors)
    <2>1. PICK ps : ps = pools /\ DOMAIN ps \subseteq PoolKeys
      BY DEF PoolsInv
    <2>2. key \in DOMAIN ps /\ anchor \in ToSet(ps[key].anchors)
      BY <1>1, <1>2, <2>1, AnchorKey
    <2>3. QED
      BY <2>1, <2>2
  <1>10. anchor \in Seq(Notes \cup {NoNote})
    <2>1. PICK Z : Z = ToSet(leaves[key]) \cup {NoNote}
      OBVIOUS
    <2>2. pools[key].anchors \in Seq(Seq(Z))
      BY <1>9, <2>1 DEF PoolsInv, PoolFine, PoolStates
    <2>3. anchor \in Seq(Z)
      BY <1>9, <2>2 DEF ToSet
    <2>4. leaves[key] \in Seq(Notes)
      BY <1>6, <1>7, <1>9
    <2>5. Z \subseteq Notes \cup {NoNote}
      BY <2>1, <2>4 DEF ToSet
    <2>6. QED
      BY <2>3, <2>5
  <1>11. t \in Mints \cup Sends /\ t.outs = <<x, y>> /\ t.pool = key /\ t.kind = "spend"
    <2>1. <<x, y>> \in Seq(Notes)
      OBVIOUS
    <2>2. QED
      BY <1>5, <1>9, <1>10, <2>1 DEF Sends
  <1>12. l[key] \o <<x, y>> \in Seq(Notes)
    BY <1>7, <1>9
  <1>13. u \in [PoolKeys -> Seq(Notes)] /\ u = [l EXCEPT ![t.pool] = l[t.pool] \o t.outs]
    BY <1>7, <1>8, <1>9, <1>11, <1>12
  <1>14. Behind(f, Append(b, t), u, X)
    BY <1>7, <1>11, <1>13, TakesMore
  <1>15. pools'[Legacy].asset = pools[Legacy].asset
    <2>1. Legacy \in DOMAIN pools /\ pools[Legacy] \in PoolStates(ToSet(leaves[Legacy]) \cup {NoNote})
      BY DEF PoolsInv, PoolFine
    <2>2. CASE key = Legacy
      <3>1. PICK p, o : p = pools[Legacy] /\ o = take_note(take_note(p, w.out), w.out2)
        OBVIOUS
      <3>2. o.asset = p.asset /\ DOMAIN o = {"asset", "tree", "nullifiers", "total_shielded", "anchors"}
        BY <2>1, <3>1 DEF take_note, PoolStates
      <3>3. pools'[Legacy] = [o EXCEPT !.nullifiers = @ \cup {w.note.nf},
                                     !.total_shielded = IF w.fee < @ THEN @ - w.fee ELSE 0]
        BY <1>3, <2>1, <2>2, <3>1
      <3>4. QED
        BY <3>1, <3>2, <3>3
    <2>3. CASE key # Legacy
      BY <1>3, <2>1, <2>3
    <2>4. QED
      BY <2>2, <2>3
  <1>16. Homes(pools[Legacy].asset, Append(b, t))
    <2>1. PICK a : a = pools[Legacy].asset /\ Homes(a, b)
      BY <1>6 DEF FeedInv
    <2>2. PICK c, n : c = Append(b, t) /\ n = Len(b)
      OBVIOUS
    <2>3. n \in Nat /\ Len(c) = n + 1 /\ c[n + 1] = t /\ \A i \in 1..n : c[i] = b[i]
      BY <1>7, <2>2
    <2>4. ASSUME NEW i \in 1..(n + 1), c[i].kind = "mint" PROVE i \in 1..Len(b) /\ c[i] = b[i]
      BY <1>11, <2>2, <2>3, <2>4
    <2>5. Homes(a, c)
      BY <2>1, <2>3, <2>4 DEF Homes
    <2>6. QED
      BY <2>1, <2>2, <2>5
  <1>17. QED
    BY <1>2, <1>6, <1>8, <1>14, <1>15, <1>16 DEF FeedInv

\* Sealing keeps a pool's asset.
LEMMA SealKeepsAsset ==
  ASSUME NEW p, NEW Z, p \in PoolStates(Z)
  PROVE  seal_anchor(p).asset = p.asset
  BY DEF seal_anchor, PoolStates

\* The end of a block files what its transactions put out.
LEMMA BlockFiled ==
  ASSUME FeedInv, PoolsInv, NEW dt, EndBlock(dt)
  PROVE  FeedInv'
  <1>1. PICK ps : ps = [k \in DOMAIN pools |-> seal_anchor(pools[k])]
    OBVIOUS
  <1>2. DOMAIN ps \subseteq PoolKeys /\ ps[Legacy].asset = pools[Legacy].asset
    <2>1. Legacy \in DOMAIN pools /\ pools[Legacy] \in PoolStates(ToSet(leaves[Legacy]) \cup {NoNote})
      BY DEF PoolsInv, PoolFine
    <2>2. QED
      BY <1>1, <2>1, SealKeepsAsset DEF PoolsInv
  <1>3. PICK f, b, l, X : f = feeds /\ b = block /\ l = leaves /\ X = strays
    OBVIOUS
  <1>4. Behind(f, b, l, X) /\ b \in Seq(Mints \cup Sends) /\ Homes(ps[Legacy].asset, b)
    BY <1>2, <1>3 DEF FeedInv, Behind
  <1>5. /\ feeds' = filed_all(f, ps, b) /\ block' = <<>> /\ leaves' = l
        /\ strays' = X \cup Astray(ps, b)
    BY <1>1, <1>3 DEF EndBlock, Astray
  <1>6. PICK r : Files(r, f, ps, b) /\ r[Len(b)] = feeds'
    <2>1. Len(b) \in Nat /\ DOMAIN b = 1..Len(b)
      BY <1>4
    <2>2. \E r : Files(r, f, ps, b) /\ r[Len(b)] = filed_all(f, ps, b)
      BY <2>1, FilingRuns
    <2>3. QED
      BY <1>5, <2>2
  <1>7. \A i \in 1..Len(b) : b[i].kind = "mint" => pool_key_of_asset(ps, b[i].asset) = b[i].pool
    BY <1>4 DEF Homes, pool_key_of_asset
  <1>8. /\ r[Len(b)] \in [PoolKeys -> Seq(Notes)]
        /\ \A k \in PoolKeys \ (X \cup Astray(ps, b)) : r[Len(b)][k] = l[k]
    BY <1>2, <1>4, <1>6, <1>7, FiledAll
  <1>9. PICK e, h, z, Y : e = <<>> /\ h = [i \in 0..0 |-> l] /\ z = feeds' /\ Y = strays'
    OBVIOUS
  <1>10. e \in Seq(Mints \cup Sends) /\ Len(e) = 0 /\ l \in [PoolKeys -> Seq(Notes)]
    BY <1>3, <1>9 DEF PoolsInv
  <1>11. Takes(h, e, l) /\ h[0] = l
    BY <1>9, <1>10 DEF Takes
  <1>12. z \in [PoolKeys -> Seq(Notes)] /\ \A k \in PoolKeys \ Y : h[0][k] = z[k]
    BY <1>5, <1>6, <1>8, <1>9, <1>11
  <1>13. Behind(z, e, l, Y)
    BY <1>10, <1>11, <1>12 DEF Behind
  <1>14. \A a : Homes(a, e)
    BY <1>10 DEF Homes
  <1>15. QED
    BY <1>5, <1>9, <1>13, <1>14 DEF FeedInv

\* At genesis there is nothing to file.
LEMMA FeedInit == PoolInit => FeedInv
  <1> SUFFICES ASSUME PoolInit PROVE FeedInv
    OBVIOUS
  <1>1. PICK f, b, h : f = [k \in PoolKeys |-> <<>>] /\ b = <<>> /\ h = [i \in 0..0 |-> f]
    OBVIOUS
  <1>2. feeds = f /\ leaves = f /\ block = b
    BY <1>1 DEF PoolInit
  <1>3. b \in Seq(Mints \cup Sends) /\ Len(b) = 0 /\ f \in [PoolKeys -> Seq(Notes)]
    <2>1. <<>> \in Seq(Notes)
      OBVIOUS
    <2>2. QED
      BY <1>1, <2>1
  <1>4. Takes(h, b, f) /\ h[0] = f
    BY <1>1, <1>3 DEF Takes
  <1>5. \A X : Behind(f, b, f, X)
    BY <1>3, <1>4 DEF Behind
  <1>6. \A a : Homes(a, b)
    BY <1>3 DEF Homes
  <1>7. QED
    BY <1>2, <1>5, <1>6 DEF FeedInv

\* Every step keeps the account of the feeds.
LEMMA FeedStep == FeedInv /\ PoolsInv /\ [PoolNext]_allvars => FeedInv'
  <1> SUFFICES ASSUME FeedInv, PoolsInv, [PoolNext]_allvars PROVE FeedInv'
    OBVIOUS
  <1>1. CASE UNCHANGED <<pools, feeds, block, leaves, strays>>
    BY <1>1 DEF FeedInv
  <1>2. ASSUME NEW dt \in 0..MaxTime, EndBlock(dt) PROVE FeedInv'
    BY <1>2, BlockFiled
  <1>3. ASSUME NEW s \in Accounts, PoolTx(s) PROVE FeedInv'
    BY <1>3, ShieldFiled, UnshieldFiled DEF PoolTx
  <1>4. CASE UNCHANGED allvars
    BY <1>1, <1>4 DEF allvars
  <1>5. QED
    BY <1>1, <1>2, <1>3, <1>4 DEF PoolNext, poolvars

\* Between blocks, nothing is left to file.
LEMMA FiledEmpty ==
  ASSUME NEW f, NEW b, NEW l, NEW X, Behind(f, b, l, X), b = <<>>, NEW k \in PoolKeys \ X
  PROVE  f[k] = l[k]
  <1>1. Len(b) = 0
    OBVIOUS
  <1>2. QED
    BY <1>1 DEF Behind, Takes

\* Between blocks the feed that apply_batch_to_chain keeps for a pool is the
\* list of commitments do_mint_to_pool and do_shielded_spend appended to its
\* tree, though each transaction's feed is worked out only when the block is
\* over and its roots are sealed; unless the seal changed which pools know the
\* anchor of a spend, which is the one way a note is filed astray.
THEOREM PoolFeedsFollowPools == PoolSpec => []FeedsFollowPools
  <1>1. FeedInv => FeedsFollowPools
    BY FiledEmpty DEF FeedInv, FeedsFollowPools
  <1>2. PoolInv => PoolsInv
    BY DEF PoolInv
  <1>3. QED
    BY <1>1, <1>2, FeedInit, FeedStep, PoolInvariant, PTL DEF PoolSpec

=============================================================================
