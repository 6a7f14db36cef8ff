---------------------------- MODULE ShieldedPool ----------------------------
(***************************************************************************)
(* The whole state machine of hk-state: the transparent ledger, the        *)
(* shielded pools that value moves into and out of, and the feed of note   *)
(* commitments the node keeps per pool for the wallets.                    *)
(*                                                                         *)
(* The legacy pool takes the first asset ever shielded; from               *)
(* multi_pool_from on every other eligible asset has a pool of its own.  A *)
(* spend names no pool: the state machine finds it by the anchor.          *)
(*                                                                         *)
(* Abstractions.  A note is its value and its nullifier, and a commitment  *)
(* is the note.  A transaction is accepted for a true statement, whether   *)
(* its own proof or the block's aggregate shows it (both may be used again *)
(* and again); soundness of the proofs is assumed.  Who may spend a note   *)
(* is settled inside the proof.                                            *)
(***************************************************************************)
EXTENDS Ledger, NoteTree, SequencesExt

CONSTANTS
    Notes,                  \* [nf, value] records
    Values,                 \* values and fees a transaction may name (u128)
    NOTE_MAX,               \* u64::MAX
    Legacy, NoPool, NoAsset, NoAccount,
    rank,                   \* byte order of the asset ids
    ANCHOR_WINDOW, multi_pool_from

ASSUME PoolAssumption ==
    /\ {NOTE_MAX, ANCHOR_WINDOW, multi_pool_from} \subseteq Nat /\ ANCHOR_WINDOW > 0
    /\ Values \subseteq 0..AMOUNT_MAX
    /\ NoNote \notin Notes /\ \A n \in Notes : n.value \in 0..NOTE_MAX
    /\ Legacy \notin Assets /\ NoPool \notin Assets \cup {Legacy} /\ NoAsset \notin Assets /\ NoAccount \notin Accounts
    /\ rank \in [Assets -> Nat] /\ \A a, b \in Assets : rank[a] = rank[b] => a = b

VARIABLES
    pools,      \* Legacy and the assets that have a pool |-> PoolState
    feeds,      \* the node's pool_notes and pool_notes_by_asset
    block,      \* pool transactions accepted in the block under way
    leaves,     \* history: the commitments each pool took, in order
    strays      \* history: see FeedsFollowPools

poolvars == <<pools, feeds, block, leaves, strays>>
allvars  == <<vars, pools, feeds, block, leaves, strays>>

PoolKeys == {Legacy} \cup Assets

-----------------------------------------------------------------------------
(* Anchors and routing                                                     *)

\* The current root becomes an anchor; the oldest one leaves a full window.
seal_anchor(p) ==
    LET r    == root(p.tree)
        more == Append(p.anchors, r)
    IN  IF p.anchors # <<>> /\ Last(p.anchors) = r THEN p
        ELSE [p EXCEPT !.anchors = IF Len(more) > ANCHOR_WINDOW THEN Tail(more) ELSE more]

new_pool(asset) ==
    seal_anchor([asset |-> asset, tree |-> new_tree, nullifiers |-> {}, total_shielded |-> 0,
                 anchors |-> <<>>])

\* Where a shield of the asset goes, if it is let in.
pool_key_of_asset(ps, asset) == IF ps[Legacy].asset \in {NoAsset, asset} THEN Legacy ELSE asset

\* The pool that has the anchor in its window: the legacy one, or the first.
pool_key_of_anchor(ps, anchor) ==
    LET known == {k \in DOMAIN ps : anchor \in ToSet(ps[k].anchors)} IN
    IF known = {} THEN NoPool
    ELSE IF Legacy \in known THEN Legacy
    ELSE CHOOSE k \in known : \A j \in known : rank[k] <= rank[j]

-----------------------------------------------------------------------------
(* What the proofs show                                                    *)

\* run_mint: the commitment opens to the value, as a u64.
mint_statement(note, value) == note.value = value % (NOTE_MAX + 1)

\* run: a note below the root is spent into two others and the fee, as a u64.
Spends ==
    {w \in [note : Notes, out : Notes, out2 : Notes, fee : Values] :
        w.note.value = w.out.value + w.out2.value + (w.fee % (NOTE_MAX + 1))}

spend_statements(anchor) == LET below == ToSet(anchor) IN {w \in Spends : w.note \in below}

-----------------------------------------------------------------------------
(* The two transactions                                                    *)

take_note(p, note) == [p EXCEPT !.tree = append(@, <<note>>)]

do_mint_to_pool(s, asset, value, note) ==
    LET key == pool_key_of_asset(pools, asset)
        p   == IF key \in DOMAIN pools THEN pools[key] ELSE new_pool(asset)
    IN
    /\ Sender(s) /\ value > 0 /\ value <= NOTE_MAX /\ mint_statement(note, value)
    /\ asset \in DOMAIN assets => policy[asset].pool_eligible
    /\ asset_gate(asset, {s})
    /\ key # Legacy => /\ height >= multi_pool_from \/ key \in DOMAIN pools
                       /\ asset \in DOMAIN assets
    /\ has_capacity(p.tree, 1)
    /\ can_debit(paid(s), s, asset, value)
    /\ balances' = debit(paid(s), s, asset, value)
    /\ pools' = with_node(pools, key,
          [take_note(p, note) EXCEPT !.asset = IF @ = NoAsset THEN asset ELSE @,
                                     !.total_shielded = Lesser(@ + value, AMOUNT_MAX)])
    /\ leaves' = [leaves EXCEPT ![key] = Append(@, note)]
    /\ block' = Append(block, [kind |-> "mint", asset |-> asset, pool |-> key, outs |-> <<note>>])
    /\ BurnFee
    /\ UNCHANGED <<clock, accounts, assets, channels, tree, feeds, strays>>

\* Faulty variant: the fee may be wider than the one in the proof.
spend_ok_AnyFee(s, p, w, to, m) ==
    /\ w.note.nf \notin p.nullifiers
    /\ w.fee > 0 => to # NoAccount /\ p.asset # NoAsset /\ asset_gate(p.asset, {to})
    /\ m # NoParent => /\ w.fee > 0 /\ sink_ok(s, m, w.fee)
                       /\ asset_bound => p.asset = mandates[m].asset

\* Faulty variant: the mandate's asset is not compared with the pool's.
spend_ok_AnyAsset(s, p, w, to, m) ==
    /\ w.fee <= NOTE_MAX
    /\ w.note.nf \notin p.nullifiers
    /\ w.fee > 0 => to # NoAccount /\ p.asset # NoAsset /\ asset_gate(p.asset, {to})
    /\ m # NoParent => w.fee > 0 /\ sink_ok(s, m, w.fee)

\* A fee is a u64, credits somebody in the pool's asset, and with a mandate is
\* drawn by its holder, from R17 on in the mandate's asset.
spend_ok(s, p, w, to, m) ==
    /\ w.fee <= NOTE_MAX
    /\ w.note.nf \notin p.nullifiers
    /\ w.fee > 0 => to # NoAccount /\ p.asset # NoAsset /\ asset_gate(p.asset, {to})
    /\ m # NoParent => /\ w.fee > 0 /\ sink_ok(s, m, w.fee)
                       /\ asset_bound => p.asset = mandates[m].asset

\* The sender only relays: the right to spend the note is in the proof.
do_shielded_spend(s, anchor, to, m) ==
    LET key == pool_key_of_anchor(pools, anchor)
        p   == pools[key]
    IN
    /\ Sender(s) /\ key # NoPool /\ has_capacity(p.tree, 2)
    /\ \E w \in spend_statements(anchor) :
          /\ spend_ok(s, p, w, to, m)
          /\ IF m = NoParent THEN UNCHANGED tree ELSE DrawMandate(m, w.fee)
          /\ pools' = [pools EXCEPT ![key] =
                [take_note(take_note(p, w.out), w.out2) EXCEPT
                    !.nullifiers = @ \cup {w.note.nf},
                    !.total_shielded = IF w.fee < @ THEN @ - w.fee ELSE 0]]
          /\ balances' = IF w.fee > 0 THEN credit(paid(s), to, p.asset, w.fee) ELSE paid(s)
          /\ leaves' = [leaves EXCEPT ![key] = @ \o <<w.out, w.out2>>]
          /\ block' = Append(block,
                [kind |-> "spend", anchor |-> anchor, pool |-> key, outs |-> <<w.out, w.out2>>])
    /\ BurnFee
    /\ UNCHANGED <<clock, accounts, assets, channels, feeds, strays>>

-----------------------------------------------------------------------------
(* Blocks                                                                  *)

\* Faulty variant: every spend is filed under the legacy pool.
feed_of_Legacy(ps, tx) == IF tx.kind = "mint" THEN pool_key_of_asset(ps, tx.asset) ELSE Legacy

\* Which feed the node files a transaction's notes under, once the block is
\* applied and its roots are sealed.
feed_of(ps, tx) ==
    LET key == IF tx.kind = "mint" THEN pool_key_of_asset(ps, tx.asset)
                                   ELSE pool_key_of_anchor(ps, tx.anchor)
    IN  IF key = NoPool THEN Legacy ELSE key

filed(f, ps, tx) == [f EXCEPT ![feed_of(ps, tx)] = @ \o tx.outs]

\* The whole block, transaction by transaction.
filed_all(f, ps, txs) == FoldLeft(LAMBDA g, tx : filed(g, ps, tx), f, txs)

\* History: the pools that have a spend's anchor in their windows after the
\* seal are not just the one that took the spend.
knowing(ps, anchor) == {k \in DOMAIN ps : anchor \in ToSet(ps[k].anchors)}
rerouted(ps, tx) == tx.kind = "spend" /\ knowing(ps, tx.anchor) # {tx.pool}
touched(ps, tx) == {tx.pool, Legacy} \cup knowing(ps, tx.anchor)

\* The end of apply_block and of apply_batch_to_chain, and the next block.
EndBlock(dt) ==
    LET sealed == [k \in DOMAIN pools |-> seal_anchor(pools[k])] IN
    /\ NewBlock(dt)
    /\ pools' = sealed
    /\ feeds' = filed_all(feeds, sealed, block)
    /\ strays' = strays \cup UNION {touched(sealed, tx) : tx \in {t \in ToSet(block) : rerouted(sealed, t)}}
    /\ block' = <<>>
    /\ UNCHANGED leaves

PoolInit ==
    /\ Init
    /\ pools = [k \in {Legacy} |-> new_pool(NoAsset)]
    /\ feeds = [k \in PoolKeys |-> <<>>] /\ leaves = [k \in PoolKeys |-> <<>>]
    /\ block = <<>> /\ strays = {}

Anchors == UNION {ToSet(pools[k].anchors) : k \in DOMAIN pools}

PoolTx(s) ==
    \/ \E a \in Assets, v \in Values, n \in Notes : do_mint_to_pool(s, a, v, n)
    \/ \E anchor \in Anchors, to \in Accounts \cup {NoAccount}, m \in MandateIds \cup {NoParent} :
          do_shielded_spend(s, anchor, to, m)

PoolNext ==
    \/ \E dt \in 0..MaxTime : EndBlock(dt)
    \/ \E s \in Accounts : PoolTx(s) \/ (Tx(s) /\ UNCHANGED poolvars)

PoolSpec == PoolInit /\ [][PoolNext]_allvars

-----------------------------------------------------------------------------
(* Properties                                                              *)

\* Every pool other than the legacy one holds its own asset, and trees,
\* windows and totals stay within their limits.
PoolTypeOK ==
    /\ TypeOK
    /\ Legacy \in DOMAIN pools /\ DOMAIN pools \subseteq PoolKeys
    /\ \A k \in DOMAIN pools :
          /\ pools[k].asset = k \/ (k = Legacy /\ pools[k].asset \in Assets \cup {NoAsset})
          /\ pools[k].tree.next_index \in 0..(2^TREE_DEPTH - 1)
          /\ Len(pools[k].anchors) \in 1..ANCHOR_WINDOW
          /\ pools[k].total_shielded \in 0..AMOUNT_MAX

\* What the unspent notes of a pool are worth.  Notes with one nullifier can
\* be spent once between them.
Claims(k) ==
    LET taken == ToSet(leaves[k])
        open  == {n.nf : n \in taken} \ pools[k].nullifiers
    IN  SumOf([nf \in open |-> Max({n.value : n \in {x \in taken : x.nf = nf}})], open)

\* The pools neither make nor lose money.  Every pool holds the value of all
\* its unspent notes, whichever transactions shared an anchor, a block, a note
\* or a root with another pool; and (I5') what was issued of an asset and not
\* burned is held openly, in the escrow of a channel or in the pools of that asset.
PoolBacked ==
    /\ PoolTypeOK
    /\ \A k \in DOMAIN pools : Claims(k) <= pools[k].total_shielded
    /\ \A a \in Assets :
        held(a) + escrowed(a)
            + SumOf([k \in DOMAIN pools |-> pools[k].total_shielded],
                    {k \in DOMAIN pools : pools[k].asset = a}) = issued(a) - fees(a)

\* A wallet that knows all leaves rebuilds, for each, a path that the circuit
\* folds to the root the chain computed from its frontier.
PathsReachRoot ==
    \A k \in DOMAIN pools :
        LET hashes == [i \in 1..Len(leaves[k]) |-> <<leaves[k][i]>>] IN
        \A i \in 1..Len(hashes) :
            fold_path(hashes[i], i - 1, full_tree_path(hashes, i - 1)) = root(pools[k].tree)

\* Money does not get round the issuer's or the mandate's rules through a pool:
\* a paused asset or a frozen account does not move, and (R17, once active) what
\* a mandate tree lets out of a pool is in the asset its root was created in.
NoWayRoundThePool ==
    /\ FrozenMovesNothing
    /\ [][asset_bound => \A r \in DOMAIN root_funding, k \in DOMAIN pools :
            drawn'[r] > drawn[r] /\ pools'[k].total_shielded < pools[k].total_shielded
               => pools[k].asset = mandates[r].asset]_allvars

\* A wallet that reads a pool's feed has the leaves of its tree, each once and
\* in order, though the node works out the feed after the block was sealed.
\* Not so once a spend's anchor had left its pool's window by then, pushed out
\* by the root of its own block, or was another pool's too: the feeds of the
\* pools it touched (strays) part from their trees for good.
FeedsFollowPools == block = <<>> => \A k \in PoolKeys \ strays : feeds[k] = leaves[k]

=============================================================================
