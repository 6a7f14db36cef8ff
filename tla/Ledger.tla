------------------------------- MODULE Ledger -------------------------------
(***************************************************************************)
(* The transparent state machine of hk-state: accounts, balances, issued   *)
(* assets, mandates and PayWord channels, under the flat envelope fee.     *)
(*                                                                         *)
(* One action per transaction kind, for a transaction that is ACCEPTED.  A *)
(* refused one has its fee refunded and changes nothing, so it stutters;   *)
(* nonces, one-time keys and signatures are the subject of Mempool.tla     *)
(* (apply_tx_at there) and play no part here.  NewBlock ends one block and *)
(* begins the next.  Account, asset and channel ids are hashes of what     *)
(* they name; here they are names, and the constants say what each one is  *)
(* derived from.                                                           *)
(***************************************************************************)
EXTENDS Mandates, Sums

CONSTANTS
    Accounts,            \* every account id, created or not
    Assets,              \* every asset id, registered or not
    GenesisAccounts,     \* created by the genesis
    GenesisAssets,       \* registered by the genesis
    alloc,               \* genesis allocation of each account in each asset
    issuer, NoIssuer,    \* the account each asset id is derived from, if any
    policy,              \* the policy each asset is registered with
    fee_asset, fee_micro, fee_from,
    mandate_asset_from,  \* R17 activation height
    payword_cap_from,    \* R18 activation height
    MAX_SETTLE_DELTA, MAX_CHANNEL_STEPS,
    AMOUNT_MAX,          \* u128::MAX
    Amounts,             \* amounts a transaction may name
    Requests,            \* MandateCreate transactions (MandateTree.tla)
    ChannelIds, Opens,   \* ChannelOpen transactions
    MaxHeight, MaxTime   \* bounds on the run

Policies == [mintable : BOOLEAN, freezable : BOOLEAN, pausable : BOOLEAN,
             pool_eligible : BOOLEAN]

\* `payer' is the account the id is derived from.
OpenRecords ==
    [id : ChannelIds, payer : Accounts, mandate : MandateIds, payee : Accounts,
     asset : Assets, unit_price : Nat, max_steps : Nat, expiry : Nat]

ASSUME LedgerAssumption ==
    /\ GenesisAccounts \subseteq Accounts /\ GenesisAssets \subseteq Assets
    /\ alloc \in [Accounts -> [Assets -> Nat]]
    /\ issuer \in [Assets -> Accounts \cup {NoIssuer}] /\ policy \in [Assets -> Policies]
    /\ fee_asset \in Assets
    /\ {fee_micro, fee_from, mandate_asset_from, payword_cap_from, MAX_SETTLE_DELTA,
        MAX_CHANNEL_STEPS, AMOUNT_MAX, MaxHeight, MaxTime} \subseteq Nat
    /\ Amounts \subseteq 0..AMOUNT_MAX /\ Opens \subseteq OpenRecords

\* from_genesis refuses a fee asset an issuer could stop (BadFeeAssetPolicy),
\* and no runtime registration can claim it.  An id derived from an issuer
\* has no balance before it is registered.
ASSUME GenesisAssumption ==
    /\ fee_asset \in GenesisAssets => ~policy[fee_asset].pausable /\ ~policy[fee_asset].freezable
    /\ NoIssuer \notin Accounts
    /\ \A a \in Assets \ GenesisAssets : issuer[a] # NoIssuer =>
          a # fee_asset /\ \A x \in Accounts : alloc[x][a] = 0

VARIABLES
    height, time,
    accounts,        \* ids that exist
    balances,
    assets,          \* the registry: entries of the registered ids
    mandates, root_funding,
    channels,
    fees_burned,
    drawn, born      \* history of the mandates, as in MandateTree.tla

clock  == <<height, time>>
tree   == <<mandates, root_funding, drawn, born>>
vars   == <<height, time, accounts, balances, assets, mandates, root_funding,
            channels, fees_burned, drawn, born>>

NoFunction == [x \in {} |-> 0]

\* What the genesis allocates of an asset: its supply, if it is registered.
allocated(asset) == SumOf([x \in Accounts |-> alloc[x][asset]], Accounts)

\* Ids are 32 bytes long.  from_genesis adds the allocations of an asset up
\* with saturating_add and refuses none; the model stops where that matters.
ASSUME AllocationAssumption ==
    /\ IsFiniteSet(Accounts) /\ IsFiniteSet(ChannelIds)
    /\ \A a \in Assets : allocated(a) <= AMOUNT_MAX

-----------------------------------------------------------------------------
(* Balances and the fee                                                    *)

fee == IF height >= fee_from THEN fee_micro ELSE 0

can_debit(b, id, asset, amount) == b[id][asset] >= amount

debit(b, id, asset, amount) == [b EXCEPT ![id][asset] = @ - amount]

\* credit: saturating_add.
credit(b, id, asset, amount) == [b EXCEPT ![id][asset] = Lesser(@ + amount, AMOUNT_MAX)]

\* apply_tx_at: a sender inside a block who can pay the fee; the handler
\* sees the balances after it, and an accepted transaction burns it.
Sender(s) == height > 0 /\ s \in accounts /\ can_debit(balances, s, fee_asset, fee)

paid(s) == debit(balances, s, fee_asset, fee)

BurnFee == fees_burned' = Lesser(fees_burned + fee, AMOUNT_MAX)

\* Faulty variant: frozen accounts are not looked up.
asset_gate_PauseOnly(asset, parties) == asset \in DOMAIN assets => ~assets[asset].paused

\* asset_gate, for the accounts the money leaves and reaches.
asset_gate(asset, parties) ==
    asset \in DOMAIN assets => ~assets[asset].paused /\ parties \cap assets[asset].frozen = {}

-----------------------------------------------------------------------------
Init ==
    /\ height = 0 /\ time = 0
    /\ accounts = GenesisAccounts
    /\ balances = alloc
    /\ assets = [a \in GenesisAssets |->
                    [supply |-> allocated(a),
                     burned |-> 0, paused |-> FALSE, frozen |-> {}]]
    /\ mandates = NoFunction /\ root_funding = NoFunction
    /\ channels = NoFunction
    /\ fees_burned = 0
    /\ drawn = [m \in MandateIds |-> 0]
    /\ born = [m \in MandateIds |-> [time |-> 0, buffer |-> 0]]

\* apply_block_verified: heights are consecutive and time never goes back.
NewBlock(dt) ==
    /\ height < MaxHeight /\ time + dt <= MaxTime
    /\ height' = height + 1 /\ time' = time + dt
    /\ UNCHANGED <<accounts, balances, assets, channels, fees_burned, tree>>

do_transfer(s, to, asset, amount) ==
    /\ Sender(s) /\ amount > 0
    /\ asset_gate(asset, {s, to})
    /\ can_debit(paid(s), s, asset, amount)
    /\ balances' = credit(debit(paid(s), s, asset, amount), to, asset, amount)
    /\ BurnFee
    /\ UNCHANGED <<clock, accounts, assets, channels, tree>>

do_account_create(s, id, asset, amount) ==
    /\ Sender(s) /\ id \notin accounts
    /\ amount > 0 => asset_gate(asset, {s, id})
    /\ can_debit(paid(s), s, asset, amount)
    /\ balances' = credit(debit(paid(s), s, asset, amount), id, asset, amount)
    /\ accounts' = accounts \cup {id}
    /\ BurnFee
    /\ UNCHANGED <<clock, assets, channels, tree>>

-----------------------------------------------------------------------------
(* Issued assets                                                           *)

do_asset_register(s, asset) ==
    /\ Sender(s) /\ issuer[asset] = s /\ asset \notin DOMAIN assets
    /\ assets' = with_node(assets, asset,
                    [supply |-> 0, burned |-> 0, paused |-> FALSE, frozen |-> {}])
    /\ balances' = paid(s) /\ BurnFee
    /\ UNCHANGED <<clock, accounts, channels, tree>>

\* issuer_entry: a registered asset, its issuer, and a policy that allows it.
issuer_entry(s, asset, allowed) == asset \in DOMAIN assets /\ issuer[asset] = s /\ allowed

\* Faulty variant: adds to the supply without checked_add.
do_asset_mint_Unchecked(s, asset, to, amount) ==
    /\ Sender(s) /\ amount > 0
    /\ issuer_entry(s, asset, policy[asset].mintable)
    /\ asset_gate(asset, {to})
    /\ assets' = [assets EXCEPT ![asset].supply = @ + amount]
    /\ balances' = credit(paid(s), to, asset, amount)
    /\ BurnFee
    /\ UNCHANGED <<clock, accounts, channels, tree>>

do_asset_mint(s, asset, to, amount) ==
    /\ Sender(s) /\ amount > 0
    /\ issuer_entry(s, asset, policy[asset].mintable)
    /\ assets[asset].supply + amount <= AMOUNT_MAX
    /\ asset_gate(asset, {to})
    /\ assets' = [assets EXCEPT ![asset].supply = @ + amount]
    /\ balances' = credit(paid(s), to, asset, amount)
    /\ BurnFee
    /\ UNCHANGED <<clock, accounts, channels, tree>>

do_asset_burn(s, asset, amount) ==
    /\ Sender(s) /\ amount > 0 /\ asset \in DOMAIN assets
    /\ asset_gate(asset, {s})
    /\ can_debit(paid(s), s, asset, amount)
    /\ balances' = debit(paid(s), s, asset, amount)
    /\ assets' = [assets EXCEPT ![asset].burned = Lesser(@ + amount, AMOUNT_MAX)]
    /\ BurnFee
    /\ UNCHANGED <<clock, accounts, channels, tree>>

do_asset_freeze(s, asset, account, frozen) ==
    /\ Sender(s) /\ issuer_entry(s, asset, policy[asset].freezable)
    /\ assets' = [assets EXCEPT ![asset].frozen =
                     IF frozen THEN @ \cup {account} ELSE @ \ {account}]
    /\ balances' = paid(s) /\ BurnFee
    /\ UNCHANGED <<clock, accounts, channels, tree>>

do_asset_pause(s, asset, paused) ==
    /\ Sender(s) /\ issuer_entry(s, asset, policy[asset].pausable)
    /\ assets' = [assets EXCEPT ![asset].paused = paused]
    /\ balances' = paid(s) /\ BurnFee
    /\ UNCHANGED <<clock, accounts, channels, tree>>

-----------------------------------------------------------------------------
(* Mandates                                                                *)

\* The tree as a component of its own: the node a MandateCreate builds, and
\* the specification the handlers below implement.
MT == INSTANCE MandateTree WITH
        nodes <- mandates, now <- time, Amounts <- 0..AMOUNT_MAX,
        mark <- [time |-> 0, drawn |-> [m \in MandateIds |-> 0]]

\* A MandateCreate carries the fields the tree reads.
ASSUME RequestsAssumption == Requests \subseteq MT!RequestRecords

asset_bound == height >= mandate_asset_from

\* Faulty variant: an id that is taken is overwritten, buffer and all.
do_mandate_create_Overwrites(s, q) ==
    LET n == MT!new_node(q, time) IN
    /\ Sender(s)
    /\ q.parent # NoParent => q.parent \in DOMAIN mandates /\ mandates[q.parent].holder = s
    /\ asset_bound => check_asset_bound(mandates, n)
    /\ insert_ok(mandates, n)
    /\ mandates' = with_node(mandates, q.id, n)
    /\ born' = [born EXCEPT ![q.id] = [time |-> time, buffer |-> n.buffer]]
    /\ root_funding' = IF q.parent = NoParent THEN with_node(root_funding, q.id, s) ELSE root_funding
    /\ balances' = paid(s) /\ BurnFee
    /\ UNCHANGED <<clock, accounts, assets, channels, drawn>>

\* A child is created by its parent's holder; a root is funded by its creator,
\* whoever holds it.
do_mandate_create(s, q) ==
    LET n == MT!new_node(q, time) IN
    /\ Sender(s) /\ q.id \notin DOMAIN mandates
    /\ q.parent # NoParent => q.parent \in DOMAIN mandates /\ mandates[q.parent].holder = s
    /\ asset_bound => check_asset_bound(mandates, n)
    /\ insert_ok(mandates, n)
    /\ mandates' = with_node(mandates, q.id, n)
    /\ born' = [born EXCEPT ![q.id] = [time |-> time, buffer |-> n.buffer]]
    /\ root_funding' = IF q.parent = NoParent THEN with_node(root_funding, q.id, s) ELSE root_funding
    /\ balances' = paid(s) /\ BurnFee
    /\ UNCHANGED <<clock, accounts, assets, channels, drawn>>

\* Faulty variant: the sinks trust the tree to be single-asset.
sink_ok_Trusting(s, leaf, amount) ==
    /\ leaf \in DOMAIN mandates /\ mandates[leaf].holder = s
    /\ check(mandates, leaf, amount, time)

\* What MandateSpend and ChannelOpen require of the leaf: the sender holds
\* it, from R17 on its asset is its root's, and its whole chain can pay.
sink_ok(s, leaf, amount) ==
    /\ leaf \in DOMAIN mandates /\ mandates[leaf].holder = s
    /\ asset_bound => mandates[leaf].asset = mandates[root_of(mandates, leaf)].asset
    /\ check(mandates, leaf, amount, time)

funder_of(leaf) == root_funding[root_of(mandates, leaf)]

\* MandateTree::spend, with the history of what was drawn.
DrawMandate(leaf, amount) ==
    /\ mandates' = spend(mandates, leaf, amount, time)
    /\ drawn' = [m \in MandateIds |->
                    IF m \in chain_of(mandates, leaf) THEN drawn[m] + amount ELSE drawn[m]]
    /\ UNCHANGED <<root_funding, born>>

\* The root's funder pays, in the leaf's asset.
do_mandate_spend(s, leaf, to, amount) ==
    /\ Sender(s) /\ amount > 0
    /\ sink_ok(s, leaf, amount)
    /\ LET f == funder_of(leaf)
           a == mandates[leaf].asset
       IN  /\ asset_gate(a, {f, to})
           /\ can_debit(paid(s), f, a, amount)
           /\ balances' = credit(debit(paid(s), f, a, amount), to, a, amount)
    /\ DrawMandate(leaf, amount)
    /\ BurnFee
    /\ UNCHANGED <<clock, accounts, assets, channels>>

\* The holder of the parent, or of the root itself.
do_mandate_revoke(s, target) ==
    /\ Sender(s) /\ target \in DOMAIN mandates
    /\ LET p == mandates[target].parent
       IN  s = mandates[IF p = NoParent THEN target ELSE p].holder
    /\ mandates' = with_revoked(mandates, target)
    /\ balances' = paid(s) /\ BurnFee
    /\ UNCHANGED <<clock, accounts, assets, channels, root_funding, drawn, born>>

-----------------------------------------------------------------------------
(* PayWord channels                                                        *)

\* The whole escrow is drawn through the mandate when the channel opens.
do_channel_open(s, q) ==
    LET deposit == q.unit_price * q.max_steps IN
    /\ Sender(s) /\ q.id \notin DOMAIN channels
    /\ q.unit_price > 0 /\ q.max_steps > 0
    /\ height >= payword_cap_from => q.max_steps <= MAX_CHANNEL_STEPS
    /\ q.payer = s
    /\ deposit <= AMOUNT_MAX
    /\ sink_ok(s, q.mandate, deposit) /\ mandates[q.mandate].asset = q.asset
    /\ asset_gate(q.asset, {funder_of(q.mandate)})
    /\ can_debit(paid(s), funder_of(q.mandate), q.asset, deposit)
    /\ balances' = debit(paid(s), funder_of(q.mandate), q.asset, deposit)
    /\ DrawMandate(q.mandate, deposit)
    /\ channels' = with_node(channels, q.id,
          [payer |-> s, payee |-> q.payee, asset |-> q.asset, unit_price |-> q.unit_price,
           max_steps |-> q.max_steps, highest_step_settled |-> 0, expiry |-> q.expiry,
           escrow_remaining |-> deposit, refunded |-> FALSE])
    /\ BurnFee
    /\ UNCHANGED <<clock, accounts, assets>>

\* Anyone may settle with the word of a later step, expired or not.
do_channel_settle(s, id, step) ==
    LET ch    == channels[id]
        newly == step - ch.highest_step_settled
    IN
    /\ Sender(s) /\ id \in DOMAIN channels /\ ~ch.refunded
    /\ ch.highest_step_settled < step /\ step <= ch.max_steps
    /\ height >= payword_cap_from => newly <= MAX_SETTLE_DELTA
    /\ asset_gate(ch.asset, {ch.payee})
    /\ channels' = [channels EXCEPT ![id].highest_step_settled = step,
                                    ![id].escrow_remaining = @ - ch.unit_price * newly]
    /\ balances' = credit(paid(s), ch.payee, ch.asset, ch.unit_price * newly)
    /\ BurnFee
    /\ UNCHANGED <<clock, accounts, assets, tree>>

\* Faulty variant: the refund does not close the channel.
do_channel_refund_StaysOpen(s, id) ==
    LET ch == channels[id] IN
    /\ Sender(s) /\ id \in DOMAIN channels /\ ~ch.refunded
    /\ ch.payer = s /\ time >= ch.expiry
    /\ asset_gate(ch.asset, {ch.payer})
    /\ channels' = [channels EXCEPT ![id].escrow_remaining = 0]
    /\ balances' = credit(paid(s), ch.payer, ch.asset, ch.escrow_remaining)
    /\ BurnFee
    /\ UNCHANGED <<clock, accounts, assets, tree>>

\* After expiry the opener takes back what was not settled.
do_channel_refund(s, id) ==
    LET ch == channels[id] IN
    /\ Sender(s) /\ id \in DOMAIN channels /\ ~ch.refunded
    /\ ch.payer = s /\ time >= ch.expiry
    /\ asset_gate(ch.asset, {ch.payer})
    /\ channels' = [channels EXCEPT ![id].escrow_remaining = 0, ![id].refunded = TRUE]
    /\ balances' = credit(paid(s), ch.payer, ch.asset, ch.escrow_remaining)
    /\ BurnFee
    /\ UNCHANGED <<clock, accounts, assets, tree>>

-----------------------------------------------------------------------------
AssetTx(s) ==
    \/ \E a \in Assets : do_asset_register(s, a)
    \/ \E a \in Assets, to \in Accounts, x \in Amounts : do_asset_mint(s, a, to, x)
    \/ \E a \in Assets, x \in Amounts : do_asset_burn(s, a, x)
    \/ \E a \in Assets, x \in Accounts, on \in BOOLEAN : do_asset_freeze(s, a, x, on)
    \/ \E a \in Assets, on \in BOOLEAN : do_asset_pause(s, a, on)

MandateTx(s) ==
    \/ \E q \in Requests : do_mandate_create(s, q)
    \/ \E m \in MandateIds, to \in Accounts, x \in Amounts : do_mandate_spend(s, m, to, x)
    \/ \E m \in MandateIds : do_mandate_revoke(s, m)

ChannelTx(s) ==
    \/ \E q \in Opens : do_channel_open(s, q)
    \/ \E c \in DOMAIN channels : \E n \in 1..channels[c].max_steps : do_channel_settle(s, c, n)
    \/ \E c \in DOMAIN channels : do_channel_refund(s, c)

\* dispatch
Tx(s) ==
    \/ \E to \in Accounts, a \in Assets, x \in Amounts : do_transfer(s, to, a, x)
    \/ \E id \in Accounts, a \in Assets, x \in Amounts \cup {0} : do_account_create(s, id, a, x)
    \/ AssetTx(s) \/ MandateTx(s) \/ ChannelTx(s)

Next == (\E dt \in 0..MaxTime : NewBlock(dt)) \/ (\E s \in Accounts : Tx(s))

Spec == Init /\ [][Next]_vars

-----------------------------------------------------------------------------
(* Properties                                                              *)

AssetInfo == [supply : Nat, burned : Nat, paused : BOOLEAN, frozen : SUBSET Accounts]

Channels ==
    [payer : Accounts, payee : Accounts, asset : Assets, unit_price : Nat, max_steps : Nat,
     highest_step_settled : Nat, expiry : Nat, escrow_remaining : Nat, refunded : BOOLEAN]

\* Balances, escrows, supplies and buffers never go below zero (u128), and
\* exactly the root mandates have a funding account.
TypeOK ==
    /\ height \in Nat /\ time \in Nat
    /\ accounts \subseteq Accounts
    /\ balances \in [Accounts -> [Assets -> Nat]]
    /\ DOMAIN assets \subseteq Assets /\ \A a \in DOMAIN assets : assets[a] \in AssetInfo
    /\ DOMAIN mandates \subseteq MandateIds
    /\ \A m \in DOMAIN mandates : mandates[m] \in Nodes(Accounts, Assets)
    /\ DOMAIN root_funding = {m \in DOMAIN mandates : mandates[m].parent = NoParent}
    /\ \A m \in DOMAIN root_funding : root_funding[m] \in Accounts
    /\ DOMAIN channels \subseteq ChannelIds /\ \A c \in DOMAIN channels : channels[c] \in Channels
    /\ fees_burned \in Nat

\* What is held of an asset openly, and in open channels; what was issued of
\* it and not burned; and what of it went into fees.
held(a)     == SumOf([x \in Accounts |-> balances[x][a]], Accounts)
escrowed(a) == SumOf([c \in DOMAIN channels |-> channels[c].escrow_remaining],
                     {c \in DOMAIN channels : channels[c].asset = a})
issued(a)   == IF a \in DOMAIN assets THEN assets[a].supply - assets[a].burned ELSE allocated(a)
fees(a)     == IF a = fee_asset THEN fees_burned ELSE 0

\* I5': everything issued of an asset, and neither burned nor spent on fees,
\* is in a balance or in the escrow of a channel.
Conservation == \A a \in Assets : held(a) + escrowed(a) = issued(a) - fees(a)

\* What a channel still escrows is exactly what its payee could still claim:
\* no order of settlements, expiry and refund leaves it short or pays twice.
EscrowBacked ==
    TypeOK /\ \A c \in DOMAIN channels : LET ch == channels[c] IN
        /\ ch.highest_step_settled <= ch.max_steps
        /\ ch.escrow_remaining = IF ch.refunded THEN 0
              ELSE ch.unit_price * (ch.max_steps - ch.highest_step_settled)

\* While an asset is paused no balance in it moves, and while an account is
\* frozen its balance does not move, whatever transaction tries.
FrozenMovesNothing ==
    [][\A a \in DOMAIN assets, x \in Accounts :
          assets[a].paused \/ x \in assets[a].frozen => balances'[x][a] = balances[x][a]]_vars

\* R17: once active, a draw through a tree never costs its funder more than
\* the fee in an asset other than the one the root was created in.
DrawsInRootAsset ==
    [][asset_bound => \A r \in DOMAIN root_funding : drawn'[r] > drawn[r] =>
          \A a \in Assets \ {mandates[r].asset} :
              balances'[root_funding[r]][a]
                  >= balances[root_funding[r]][a] - (IF a = fee_asset THEN fee ELSE 0)]_vars

\* The state machine drives the mandate tree only through its own operations.
ImplementsMandateTree == MT!Spec

=============================================================================
