# A TLA+ verification of HashKinetics

HashKinetics is a post-quantum payment chain written in Rust: a state machine of
accounts, issued assets, delegated spending mandates, PayWord channels and a
shielded pool (`hk-state`, `hk-mandate`), agreed on by the vendored Malachite
engine with stateful hash signatures (`hk-consensus`, `hk-crypto`), and run by a
node with a mempool, a write-ahead log, snapshots and a block log (`hk-node`).
This directory holds TLA+ models of the parts where the order of events, a crash
or a boundary decides whether the system is right, the TLC runs that check them
on small instances, and TLAPS proofs of the most important results for every
instance.

Paths below are relative to `src/chain/crates/`.

## 1. Inventory

| Component | State | Operations | Hard because | Properties that make it correct |
|---|---|---|---|---|
| Stateful hash signer: `hk-crypto/src/hashsig.rs`, `fsutil.rs`, `hk-consensus/src/hashsig_scheme.rs` | leaf position in memory, in the file, on the disk | attach, sign, rotate to a new tree | a leaf that signs twice gives the key away; crash, power loss, failed write at every step | no leaf signs twice; nothing is released before its position is durable |
| Mandate tree: `hk-mandate/src/lib.rs` | nodes with parent, rate, buffer, cap, expiry, revoked | insert, check, spend, revoke, available | lazy accrual, all-or-nothing debit of a chain, budgets that overlap | token-bucket bounds for every node, cascade of revocation; no call widens or revives a mandate |
| Transparent ledger: `hk-state/src/lib.rs` | accounts, balances, fee counter, clock | transfer, account create, mandate and channel transactions | handlers fail half-way, rules activate at heights | conservation; only the owner's or the mandate's money moves |
| Issued assets: `hk-state/src/assets.rs`, `lib.rs` | registry: supply, burned, paused, frozen | register, mint, burn, freeze, pause | the gate must be on every money leg | frozen and paused money does not move; supply equals what is held |
| PayWord channels: `hk-state/src/lib.rs`, `hk-crypto/src/payword.rs` | escrow, highest settled step, refunded | open, settle, refund | settle, expiry and refund in any order | escrow is exactly what can still be claimed |
| Shielded pool: `hk-state/src/pool.rs`, `lib.rs`, note feed in `hk-node/src/state.rs`, circuit in `src/zkvm-bakeoff/circuit` | commitment tree, anchors, nullifiers, value per pool; a feed of notes per pool | mint, spend, seal, file in the feed | anchor window, routing by anchor, three algorithms for one root | pools cover their unspent notes; conservation; paths reach the root; a pool's feed is its tree's leaves |
| Mempool: `hk-node/src/mempool.rs` | queue and three indexes | admit (two doors), prune, restore | mirrors consensus rules that the chain moves under it | indexes exact; slots only held by their owner; nothing parks |
| Write-ahead log: `hk-node/src/store.rs`, `rpc.rs` | frames | append, load, reset | torn tails, concurrent appends, reset racing appends | an accepted transaction survives |
| Block building: `hk-node/src/state.rs` | none of its own | select transactions, certificates, bundle | budgets, held senders | what is admitted is eventually proposed |
| Validator set: `hk-consensus/src/context.rs`, `rotation.rs`, `setchange.rs` | seats, history per height | rotate, admit, remove, set power, re-weight | replays, windows, certificates that are valid one by one | the set follows the blocks, is never empty, addresses differ |
| Commit and restore: `hk-node/src/state.rs`, `store.rs` | snapshot, block files | commit, snapshot, restart | a crash between any two of them, holes in the log | a restarted node equals one that never stopped |
| Rotation issue: `hk-node/src/state.rs` | own pending certificate, highest issued epoch, timer, leaf gauge | trigger at commit, 60 s tick, re-issue, push to peers | lost certificates, stale guards, a seat removed and admitted again | a seat that runs low is rotated; the live signer is the seat's tree |
| Certificate queues: `hk-node/src/rpc.rs`, `state.rs` | two queues, verification slots | submit, filter at proposal | verified on a copy, queued later | what a proposal carries its block applies |
| Block log, segments, retention, search index: `hk-node/src/state.rs`, `store.rs`, `app.rs`, `streaming.rs` | block files, segments, snapshots, index file, RAM window, servable floor | receive, commit, save, snapshot, prune, pack, index, serve, restart | background threads, failed writes and crashes between any two of them | serves what it advertises, resumes where it stopped, holds the network's state |
| Wallets: `hk-wallet-core`, `hk-wallet`, `hk-node/src/wallet_cli.rs`, `account.rs` | `account.json`, `shield.json`, `wallet.json`, passphrase | send, shield, pay, unshield, scan, protect, unlock | reserve before use, a crash at every step, a passphrase change beside an operation, a relaunched chain | no one-time leaf twice, the scan is complete, no master lost, the ratchet within reach |
| Faucet: `hk-node/src/faucet.rs` | shared ratchet, cooldowns, day count | handle, restart | concurrent handlers, late refusals, a cooldown file that may not be written | the ratchet comes home, one drip per cooldown |
| Bridge: `hk-node/src/attest.rs`, `eth.rs`, `src/bridge/contracts` | ledger file, cursors, processed ids, daily limits | scan, mint, attest, release, resolve, reconcile | two chains, restarts, lost answers, forks | each transfer is paid once, in its amount, and none is skipped |
| Facilitator, gossip, RPC queries, wallets' user interfaces | caches | read, forward | - | - |
| Malachite engine, zkVM, hbs-lms | vendored | decide, prove, sign | - | assumed |

Interaction. RPC workers admit transactions under the chain and mempool locks and
append to the log outside them. The one consensus task builds batches from the
mempool, and on a decision applies the block to the ledger, then its rotations,
then its set changes, saves the block and at some heights a snapshot, and resets
the log. The engine asks the shared set history which set signed which height.
A rotation of the node's own root swaps the signer every holder of the key handle
shares. A restart rebuilds ledger, set, mempool and signer from snapshot, block
files and log. Background threads pack old block files, prune and index them.
Wallets, the faucet and the bridge's attestor are clients of the node's RPC: they
sign, submit and poll for a receipt, and each keeps a file that must survive it.

## 2. Modules

| Module | Models |
|---|---|
| `LeafUse` | what a signer of one-time leaves promises: none signs twice, none leaves before its reservation is durable |
| `HashSigner` | `sign`, `attach_persistence_with_floor`, `write_atomic_with`, `rotate_to` as single steps, with process crashes and power losses between them |
| `Mandates` | the functions of `hk-mandate` as constant operators over a tree |
| `MandateTree` | the tree with a behaviour: insert, spend, revoke, time |
| `Ledger` | the transparent state machine: one action per transaction kind |
| `NoteTree` | the incremental commitment tree, the wallet's path and the circuit's fold as constant operators |
| `ShieldedPool` | the whole state machine: `Ledger` plus the two pool transactions, sealing and the note feed |
| `Mempool` | door, mempool, log, block building, commit, snapshot, restart |
| `ValidatorSet` | certificates, set, history and signer of one node along a decided chain |
| `RotationState`, `Rotation` | the state of key rotation and what must hold of it; a seat that runs out of leaves: triggers, queues, pushes, proposals, operator's certificates |
| `Node` | one node's copy of the chain: receive, commit, save, snapshot, prune, pack, index, serve, restart |
| `Bridge` | the attestor service, its co-signers and operator, both contracts, both chains as it sees them |
| `FaucetState`, `Faucet` | the state of the faucet and what must hold of it; concurrent request handlers over one account |
| `Wallet` | the app core and the command line on one account directory, against the chain |
| `Sums` | the sum of a function over a finite set |
| `MandateTreeProofs`, `LedgerProofs`, `BridgeProofs`, `WalletProofs`, `NodeProofs`, `MempoolProofs`, `ValidatorProofs` | TLAPS proofs about the module of that name; `LedgerProofs` covers `Ledger` and `ShieldedPool`, `ValidatorProofs` covers `ValidatorSet`, `Rotation` and `HashSigner`, `MempoolProofs` covers `Mempool` and `Faucet` |
| `SumProofs` | lemmas about `Sums` |
| `MC*` | constants and symmetry for TLC |

`Mandates` is used by `MandateTree` (its behaviour alone) and by `Ledger`
(embedded in the state machine); the run `ledger` checks that the second
implements the first, so what is proved of the tree holds of the ledger's.
`ShieldedPool` extends `Ledger`: its next-state relation is the ledger's with the
pool transactions and a block end that also seals the pools. The modules of a
node each follow one concern through the same code (`commit`,
`restore_from_store`): `Mempool` the transactions, `ValidatorSet` the set,
`Rotation` the certificates, `Node` the blocks. What another module models is in
each of them a nondeterministic choice: a refusal in `Mempool`, a certificate in
`ValidatorSet`, a verdict in `Node`, the door and the receipt in `Faucet`,
`Wallet` and `Bridge`.

### How the state and the actions correspond to the code

*HashSigner.* `used` and `count` are the header and the leaf counter inside the
key in memory; `file[e]` is what the operating system shows of the state file of
epoch `e`, `durable[e]` what a power loss leaves of it. `sign` is five steps: reserve
(`BeginSign`), write the temporary file, rename, sync the directory, release; any
of the writes may fail (`WriteFails`, which rolls memory back as the code does).
`Resume` is the maximum of floor, header and key, as in the code. A `Floor` may be
any number the operator passes.

*Mandates, MandateTree.* Nodes are records with the fields of `MandateNode`
except `tier`, which nothing reads. The walk of `chain_of` is defined as the least
parent-closed set that holds the leaf, because a recursive operator would keep
the provers away. `drawn`, `born` and `mark` are history variables, and `Observe` starts a measurement window; none of
them influences the tree.

*Ledger.* Every transaction kind except the two of the shielded pool (which are
in `ShieldedPool`) is an action with the handler's checks in its guard. Refused transactions change nothing (the
fee is refunded), so they are stuttering steps. Saturating additions saturate at
`AMOUNT_MAX`. Activation heights (fee, R17, R18) are crossed inside the runs.

*NoteTree, ShieldedPool.* A commitment is its note (value and nullifier), and the
hash of a subtree the sequence of its leaves, which is what collision freedom
means; `NoteTree` builds that sequence by the code's three different routes. A
transaction passes if its statement is true, whether its own proof or the block's
aggregate shows it, so an accepted statement may be used again and again unless
the state machine stops it. `rank` is the byte order of asset ids in the map of
pools. Fees and values may be wider than a u64; the proof sees them cut
(`% (NOTE_MAX + 1)`), as the casts in `expected_spend_public` do. Nothing keeps a
commitment out of a second pool, so two pools can have the same root and a spend
of either goes to the legacy one; the run includes this and the pools stay backed.
`feeds` is what the node gives to wallets, filed by `feed_of` after the block is
sealed, as in `apply_batch_to_chain`. `leaves` and `strays` are history: what each
pool took, and the pools touched by a spend that the feed does not route as the
state machine did.

*Mempool.* A transaction is a record of what the door and the chain read: sender,
nonce, the key that signed, the next key it commits to, whether the signature
holds, and for the kinds the door looks into, the channel and step or the anchor
and nullifier. Whether the chain refuses it for any other reason (a balance, a
mandate) is nondeterministic (`refused`). The signature check that `admit_one`
does before it takes the locks changes no verdict, so door and insertion are one
step; the append to the log is two more (`WriteLen`, `WriteBody`), as are the
snapshot and the reset. An append that holds the old file when the log is
replaced goes nowhere (`Orphaned`); the worker notices nothing, and whether the new
log has its transaction anyway is what `appended` records. The prune, the pick, the
block and the two loops of the restart are folds over the queue, as in the code.
At a restart the block log replays to the same chain, so `chain` survives a crash
and only the pool is rebuilt. `owed` is history: what a client was told is
accepted and no block has carried since.

*ValidatorSet.* `Decide` is the engine: any block of the given certificates. The
node commits decided blocks in order, saving the block or failing to, and taking
a snapshot or not; a crash loses everything else. `Restart` is
`restore_from_store` followed by `adopt_epoch_signer`. A key is a name, an
address the key it was derived from, a signature the fact it proves.

*Rotation.* `me` is the part of `HkApp` that rotation reads, `tick` the locals of
`spawn_rotation_tick`, `gauge` the `signer_gauge` they share. `peer` stands for
the rest of the network. Heights are relative, so the chain can go on for ever:
a certificate carries its age. `Receive` and `Queue` are the two halves of
`submit_rotation` and `submit_set_change`, with the verification between them;
`carried` and `due_change` are `build_batch`'s filters, `Commit` applies the block
and runs the trigger. `refused` records that a block did not apply what its
proposer took from a queue, `readmitted` that the seat of a node that remembers a
later epoch started again at epoch 0.

*Node.* `files`, `segs`, `snaps`, `saved` and `verdict` are the disk; everything
else is lost by a crash (`tip` stays to be compared with). Of the state one thing
is kept: which heights' aggregate proofs were found good, the one input of
`apply_block` that replay does not recompute. `Commit`, `Snapshot`, `Prune`,
`PruneDone`, `PersistIndex` are the handler of a decision in its order;
`StartJob`, `WriteSegment`, `VerifySegment`, `DeleteFile` one segment's packing;
`LookAtFile` and `LookAtSegment` one height of the index pass. `StoreUndecided` is
a value that sync or this node's own proposal brings, which a decision is then looked
up in; if it is not there, the height starts again (`RestartHeight`). A retention pass
deletes one segment at a time and may fail at each (`PruneFailed`): what it
deleted is gone and the floor stays where it was, which `unlisted` records. The
packing that runs at startup stops at the image the restart took (`startup`). The
run starts on new homes and on homes an older or a rolled-back release left.

*Bridge.* The service is one thread, so `pc` says where its loop is. A record of
the ledger file has the code's states (`seen`, `held_recipient`, `submitting`,
`submitted`, `confirmed`, ...); `mem` is the folded map, `disk` the file. `hk_submit`,
`answer` and `submit_failed` are the three outcomes of a submission, and `answer`
may be lost. A release gathers its signatures before its write-ahead line. A pass
over the burns may end before the last one, as `hk_batch` makes it (`read_vault`). A
restart may find a torn last line, which the operator must cut off before the service opens the file again. A restart of the HashKinetics node forgets
receipts, of burns and of mints (`forgotten`). `Reorg` replaces the newest block,
whether or not it holds an event: `orphans` are the records whose event or release it
took back, `replaced` the blocks below the cursor that were exchanged. `processed`, the
daily limit, pause and the attestors' threshold are the contracts'. `resolve` is the operator, who looks at the chains first.
`faults` counts what went wrong, per record for lost answers.

*Faucet, Wallet.* One thread or process takes one step of an operation at a time.
The chain is what the client sees of it: balance, nonce, pending transactions,
receipts by txid. `slips` counts the events after which the code itself gives up
on a ratchet in step: a lost answer, a rollback that is not saved, a refusal that
comes after the client stopped waiting, a restart with drips pending.

In `Faucet`, `last_drip` is the map in memory and `saved` the file. `save_cooldowns`
may fail, which is logged and no more; `unsaved` are the keys the file is behind on,
and a restart that finds the file unreadable starts with none.

In `Wallet` the window has two threads. `work` is the operation of a process or of the
window's worker; `reseal` is the passphrase change on the window's own thread: it reads
both files, derives a key, and writes both back, one step each, beside whatever the
worker does. A client that finds no `shield.json` or `wallet.json` makes one in a later
step (`create_master`), so two processes may both find none. Every query of a scan may
fail, and a note whose nullifier query failed counts as unspent. `Relaunch` starts the
chain again at any time, under a new id or the same one. History: `lost` are the files a
passphrase change put back to what it had read earlier, `era` is the start of the chain
a cached note belongs to, which the files do not record.

## 3. Runs

All passing runs finish within four minutes with two workers. CHECK_DEADLOCK is
off where the bounds end the run (heights, times and submissions are finite);
`signer`, `bridge`, `rotation` and `node` are checked for deadlock.

| Run | Module | Distinct states | Shows |
|---|---|---|---|
| `signer` | `HashSigner` | 9,964 | no leaf reuse, nothing released before its position is durable |
| `mandates` | `MandateTree` | 176,760 | envelope and window bounds, the whole chain pays, exact `available`, no mandate is widened or revived |
| `ledger` | `Ledger` | 208,546 | conservation, backed escrow, the freeze and pause gate, R17 on older trees; implements `MandateTree` |
| `pool` | `ShieldedPool` | 188,765 | pools cover their notes and conserve value, wallet paths reach the root, each feed is its pool's leaves in order, no rule is got round through a pool |
| `mempool` | `Mempool` | 242,436 | exact indexes, slots only held by their owner, an accepted transaction keeps its slot through crashes; liveness: nothing parks |
| `validator_set` | `ValidatorSet` | 1,462,762 | set, history and signer follow the decided blocks through every restart; the engine can run on every set |
| `bridge` | `Bridge` | 2,393,294 | one mint per deposit, mints match locks and releases burns, the ledger file tells what happened, the reconciliation is exact at rest |
| `bridge_lost` | `Bridge` | (violation) | a lost answer mints twice |
| `faucet` | `Faucet` | 2,534,848 | the shared ratchet comes home, one drip per cooldown |
| `wallet` | `Wallet` | 2,989,673 | no one-time leaf or tag twice, complete scans, no master replaced, ratchet within reach |
| `rotation` | `Rotation` | 312,095 | what is carried is applied, the signer follows the seat; liveness: a low seat is rotated |
| `node` | `Node` | 1,607,584 | serves what it advertises, holds the network's state, indexes what it covers, resumes where it stopped |

Where a property names exceptions (`slips`, `lost`, `faults`, `readmitted`, `strays`,
`orphans`, `replaced`, `unlisted`, `unsaved`, `era`), the code does go wrong in them;
they are listed below.

### Disagreements between the code and its documentation

`bridge_lost` ends in a counterexample: *never entered the mempool (the nonce was
rolled back) - safe to retry later* (`hk-node/src/attest.rs:752`). A request that
was admitted and whose answer was lost looks the same, and the retry, signed at
the nonce the chain has reached by then, mints the deposit a second time.
`OneMintPerDeposit` shows that this is the only way.

Others were met while modelling. They are visible in the models, as exceptions in
a property or as a bound of a run.

- *an admission the client was told "accepted" survives a power cut*
  (`hk-node/src/store.rs:718`): not when an earlier crash left half a frame, since
  the restart reads up to it and appends behind it, nor when two workers append at
  once, with two writes each and no lock. `AcceptedHoldsSlot` is what does hold;
  it allows for a spend that a block refused, is still in the log, and at the restart
  takes the nullifier that a later, accepted spend of the same note reveals.
- *nonce order per sender = submission order* (`hk-node/src/mempool.rs:12`): a
  refused predecessor is pruned alone and queues behind its successors when it is
  submitted again.
- *a replay inside the window changes nothing* (`hk-consensus/src/setchange.rs:22`):
  an Admit that is carried again seats a root again that was removed in between.
- *still a recent anchor of its pool ..., exactly as the state machine routed it*
  (`hk-node/src/state.rs:1313`): the feed asks after the block is sealed. A spend
  under the oldest anchor of a full window finds it evicted by the root its own
  block added, and its notes are filed in the legacy feed. A spend under a root that
  two pools have may be filed in either. Both feeds then part from their trees for
  good; these are the `strays` of `FeedsFollowPools`, and there is no other way.
- R17 compares the asset of a spend with the leaf's and the root's only
  (`hk-state/src/lib.rs:953`, `1411`). A tree from before R17 whose intermediate node
  is in another asset pays from that node's budget in the root's asset, so
  `NoWayRoundThePool` speaks of roots. The proof attempt showed it.
- *Next NEVER-REUSED spend-tree leaf* (`hk-node/src/wallet_cli.rs:61`): two processes
  on one directory reserve from their own copies of the file. And one process is
  enough in the desktop wallet: its passphrase buttons
  (`hk-wallet-gui/src/main.rs:909`, `921`, `943`) do not ask whether an operation is
  `busy`. `protect` reads both files (`hk-wallet-core/src/lib.rs:348`), derives a key
  for about a second, and writes what it read (`351`, `777`-`783`); a leaf the worker
  reserved in between, or a ratchet index it took or rolled back, is put back on disk.
  The Android client takes a mutex (`WalletVm.kt:34` under `src/android`). The files this
  happened to are `lost`; one process reuses a leaf in no other way
  (`LeavesUsedOnce`).
- *Never overwrites* (`hk-wallet-core/src/shield.rs:325`): the check and the write are apart
  (`326`-`339`, and `hk-node/src/wallet_cli.rs:307`-`318`), so two processes on first use replace
  each other's master, and notes to the first are lost. `MasterKept` is for one process.
- A rollback of the ratchet that cannot be saved is only logged
  (`hk-wallet-core/src/lib.rs:890`) or ignored (`hk-node/src/wallet_cli.rs:187`): the
  index on disk stays ahead of the chain.
- A chain relaunched under the same id is noticed by a pool shorter than the cursor
  (`hk-wallet-core/src/shield.rs:393`), so not once it has grown past it: the wallet then keeps
  notes of the old chain and does not see the new one's below the cursor.
- *an honest floor keeps peers from asking us for heights we'd answer with nothing*
  (`hk-node/src/state.rs:872`): when a retention pass
  fails half-way (`hk-node/src/store.rs:617`-`626`), `state.rs:1795` warns and does not
  raise the floor, so that what was already deleted is advertised until a later pass
  deletes more or the node restarts (`unlisted`).
- The R1.b tick (`hk-node/src/state.rs:750`) is for a node that does not commit,
  but reads a gauge that is written only at commits and at start, and it is only
  started by a node that has a seat then.
- A seat admitted again at epoch 0 leaves a running node's signer on its later
  tree until it restarts (`hk-node/src/state.rs:1397` says "in lockstep"). The
  proof attempt showed a second case, beyond the bounds of the run: the node
  restarts while it has no seat, with the signer of epoch 0 and the `current_epoch`
  of its snapshot; it is admitted at epoch 0, so all is well, until a rotation to an
  epoch it remembers (`cert.epoch > self.current_epoch`, line 1419) moves the seat
  and not the signer. Hence `readmitted` is about the epoch, not the signer.
- A burn that was refused, and whose receipt is gone, is held for review and
  counted as pending, so the reconciliation reports a drift that is none.
- *Sepolia reorg before finality | never eligible - nothing minted*
  (`src/docs/BRIDGE-GUIDE.md:72`, and `hk-node/src/attest.rs:684`-`686`): the scan
  records events up to the newest head and never looks at them again. Once enough blocks
  are above its number, a deposit that a fork took back is minted; an event the fork put
  into a block that was already scanned is never recorded; a deposit that comes back
  under its id with another amount keeps the old one. `MintsMatchLocks` and
  `LedgerIsTrue` name these (`orphans`, `replaced`) and show that without a fork below
  the cursor each mint has its deposit and its amount.
- A mint whose receipt is lost with a restart of the HashKinetics node stays "submitted"
  (`hk-node/src/attest.rs:709`-`715`), and the reconciliation (`956`) counts it as
  pending for ever.
- A crash while a line is appended leaves the ledger file unreadable
  (`hk-node/src/attest.rs:201`) until the operator cuts the last line off.
- *a restart no longer hands everyone a fresh drip* (`hk-node/src/faucet.rs:29`-`31`):
  not when the cooldowns could not be written (`604`-`614`, logged and never fatal), nor
  when the file cannot be parsed and is read as empty (`597`-`599`).
- *a crash can never re-sign a spent L-ratchet index* (`hk-node/src/faucet.rs:16`): a
  restart adopts the chain's nonce, and signs again at an index whose drip is still
  pending.
- The faucet takes a "rejected" receipt of an earlier drip for the one it retries
  at the same index, since both have one txid; a restart forgets the day's count;
  several handlers may pass the reserve check on one balance.
- A passphrase change that is cut between its two writes leaves `shield.json`
  under the other passphrase: the user needs both until it is set again.
- The command line does not take its ratchet back when a block refuses the
  transaction, and stays ahead of the chain.

### Bounds, and why they are enough

- `signer`: two epochs, trees of three leaves, floors 0 and 2. Reuse needs one
  tree, two signatures and a loss between; the second epoch is there for
  rotation and for a restart on an older tree.
- `mandates`: three ids, seven requests (two roots, oversubscribing child,
  grandchild, sibling, one that outlives its parent, one that names itself), two
  amounts, time up to 2.
- `ledger`: three accounts, three assets, blocks around height 2, where the fee,
  R17 and the channel caps start. `OneSubject` slices the run by what a behaviour
  is about (new accounts and assets; the issuer's powers and the channels of one
  root; trees of mandates), so that each goes deep; money moves in all of them. `AMOUNT_MAX` is small enough to saturate.
- `pool`: two accounts, two assets, trees of depth 3 (seven notes, so full trees
  and odd leaves occur), windows of two anchors, three notes worth 2, 1 and 0,
  three heights with R17 and the second pool from height 2. A value of 5 is past
  `NOTE_MAX`. Fees are off; `ledger` has them. Pause and freeze happen at any time.
- `mempool`: two accounts, nonces 0 to 2, a pool of three, own blocks of up to two
  transactions, a foreign block of one, one RPC worker. Three settings: a node
  without a store that crosses the R18 height, and two with a store and two crashes,
  one with two transactions for one slot and a successor, one with a note that two
  accounts spend. `WalMax` bounds the appended frames.
- `validator_set`: two genesis seats and a guest, three heights, sixteen blocks
  that include pairs of certificates, the bootstrap and the v2 height at 2.
- `bridge`: both legs, up to two events on Ethereum and a burn on HashKinetics, a
  head of 3 with one block of confirmation, a second day, two attestors who must
  both sign, and one fault, of any kind, at any step. `bridge_lost` needs one event.
- `faucet`: two handlers, two callers, both assets, three requests, a day boundary,
  two faults (a crash, a save that fails, a file that cannot be read, a lost answer).
  The account is nearly dry, so that drips are refused. Handlers, and callers, are
  interchangeable: nothing in the module or its properties tells them apart.
- `wallet`: one process (two would reuse leaves, see above) with its window's thread,
  a passphrase or none, both clients, two operations, a tree of one leaf, a pool of one
  note. `MaxFaults` is 2 and counts faults, relaunches and passphrase changes together,
  so that each pair of them occurs at every step of two operations. `OneSubject` leaves a
  sealed `wallet.json` to users of the command line alone: its seal decides nothing.
- `rotation`: a tree of one leaf with threshold 1, so every vote makes it low; a
  horizon of three blocks, two verification slots, a lag of one block, both set
  changes, two faults. No bound on heights. `MaxEpoch` 2: the tree of epoch 2 does
  not run out.
- `node`: six heights, segments of two, snapshots and index writes every two, a
  window of one and retention of two blocks, three kinds of home, two faults, a failed
  retention pass among them.

### Fairness

Two runs check liveness.

- `NothingParks` (`mempool`): `WF` on the node's own steps (snapshot, reset,
  restart) says a running process goes on. `SF` on `OwnBlock` says that this node
  gets to propose again and again: the engine rotates proposers by voting power, so
  a seated node's turn always comes back, but other blocks may come in between at
  any time. No fairness is assumed of clients or of other proposers.
- `LowSeatRotates` (`rotation`): `WF` on the commit of decided blocks and on the
  timers, and on the steps of the RPC server; `SF` on the peer's decisions (others
  keep proposing) and on the delivery of a push that is tried again and again (best
  effort, but not lost for ever). The low node's own proposals are not assumed: it
  may have no leaf left to sign one.

## 4. Proofs

Every theorem below holds for all values of its module's constants under the
`ASSUME`s named here, which TLC evaluates on the runs' instances.

| Proof module | Proves, of the runs' properties | Assumes |
|---|---|---|
| `MandateTreeProofs` | `EnvelopeBound`, `WindowBound`, `WholeChainPays`, `AvailableIsExact`, `NeverWidened` | requests and amounts are of their types, a depth of at least 1 |
| `LedgerProofs` | `ImplementsMandateTree`, `Conservation`, `EscrowBacked`, `FrozenMovesNothing`, `DrawsInRootAsset`; with the pools: `PoolBacked`, `NoWayRoundThePool`, `FeedsFollowPools` | `LedgerAssumption`, `GenesisAssumption`, `PoolAssumption` (types), `AllocationAssumption` (see below), `PowersAssumption` (powers of two are naturals, which the provers do not know) |
| `BridgeProofs` | `OneMintPerDeposit`, `ReleasesMatchBurns`, `MintsMatchLocks`, `LedgerIsTrue`, `ReconcileExact` | `BridgeAssumption` (types, a primary among the attestors) |
| `WalletProofs` | `LeavesUsedOnce`, `RatchetReachable`, `MasterKept` (one process), `ScanComplete` (any number) | `WalletAssumption` (types) |
| `NodeProofs` | `SigmaIsCanonical`, `ServesWhatItAdvertises`, `IndexCovers`, `ResumesWhereItStopped` | `NodeAssumption` (types; a home is block files and two images within the chain's length) |
| `MempoolProofs` | `IndexesMirrorQueue`, `HeldByOwner`, `AcceptedHoldsSlot`; of the faucet `RatchetInStep`, `OneDripPerWindow` | `MempoolAssumption` (types; the settle limits are ordered as `state.rs` asserts), `OwnerAssumption` (what verifies under an owner's key commits to another key of the owner); of the faucet `FaucetAssumption` (types; finitely many handlers) |
| `ValidatorProofs` | `SetIsRunnable`, `FollowsBlocks` (for a root that no certificate admits; the part about sets and history for every root); of rotation `CarriedAreApplied`, `SignerFollowsSeat`; of the signer `NoLeafReuse`, `ReleasedIsDurable` | `ValidatorSetAssumption` (types; genesis powers are within `MAX_VOTING_POWER`, as `genesis.rs` checks, and genesis keys differ, as `keygen` makes them; a rotation of this root names this node's own tree); of rotation `RotationAssumption` (the limits are naturals; set changes admit or remove); of the signer, that epochs, floors and the capacity are naturals |

*MandateTreeProofs.* `TreeInv` says that parents exist and are wider
(`ParentsNarrow`), that ids not yet inserted have no history (`Unborn`), and for
each node (`NodeInv`) that what was drawn plus what it could pay now is within its
envelope, since birth and since the mark. The arithmetic is separated from the
tree: five lemmas say what one node's account does when it pays, waits, is watched
or is born, so the step lemmas only decide which nodes pay. Bounds hold for whole
chains by the least-set definition: the nodes wider than a leaf form a
parent-closed set, so they contain its chain (`ChainInside`). `NeverWidened` follows
from `KeepsTerms`: no step changes a node's chain, expiry or per-spend limit or takes a
revocation back, and time only grows. `TreeOneRoot` and
`TreeAvailableIsExact` are used or stated for the ledger.

*LedgerProofs.* First the refinement: each transaction is a step of `MandateTree`
or leaves the tree alone, so the tree's theorems hold of the ledger's mandates and
are used below as facts (`TreeFacts`). Then the money. `MoneyInv` is needed because
the books close only while no addition saturates, and nothing saturates only while
the books close and every supply fits: the two are proved together, with escrows
that equal what is claimable and a registry in which the fee asset has no issuer
(otherwise a fee could be stopped). `AllocationAssumption` says that genesis does
not allocate more than fits: `hk-state/src/lib.rs:523` saturates there too, so an
overfull genesis would start with books that do not close.

The same invariant is then carried to `ShieldedPool`. The books are stated with a
column for what is held elsewhere (`BooksClose(o)`): it is empty for `Ledger` alone,
and the pools' totals (`shielded`) with the pools, so each of the ledger's
transactions is argued once. No total saturates, because it is part of what was
issued. `PoolFine` is what a pool needs to cover its notes: tree and anchors contain
only notes that this very pool took, so an anchor that is known to several pools
leads, whichever of them answers, to a pool that took the spent note
(`AnchorRoutes`); a nullifier is recorded with the spend; and the claims fall by the
note that is spent (`SpentNote`) and grow by at most the ones that are added
(`AddedNote`). A note that sits in two pools is therefore backed in both. The sums of
pools need no finite set of assets: at most the legacy pool and the asset's own hold
one asset. `FeedInv` gives `FeedsFollowPools`:
outside the strays, a feed followed by what the block under way put into its pool is
that pool's leaves (`Behind`), and where a shield goes does not change once an asset
has the legacy pool (`Homes`). The fold that files a block is the end of a run of feeds
(`FilingRuns`), compared transaction by transaction with the run of the pools
(`FiledAll`). An anchor that only its own pool has after the seal is found there
(`AnchorFound`), so its notes come home (`FiledHome`); any other spend makes the pools it
touches strays.

*Sums, SumProofs.* Totals are sums over sets of accounts, channels and burns. The
library's induction theorems cannot be instantiated, but a smallest
counterexample can be taken with first-order facts only: among the subsets of a
finite set any nonempty collection has a minimal member (`MinimalSubset`). That gives
what the proofs use: a sum is natural, any element may be taken out first, one
changed value changes the sum by the difference, a sum may be split in two or
taken over other names for the same things.

*BridgeProofs.* `Typed`, `ServiceInv` (what each point of the loop knows of the
record in hand; the file is the map in memory), `MintInv` (a deposit whose record is
in a state from which it is submitted has no mint that is pending or done, beyond
its lost answers), `BurnInv` and `CallsInv` (a call names an accepted burn and its
amount, and one that succeeded has its id among the processed ones). `LedgerIsTrue`
adds `ScanInv` (a record is written before the cursor passes it, and none is ever
unwritten; what a fork exchanged below the cursor is `replaced`), `DoneInv` (the call or receipt behind a record) and the two sets of
books. `SourceInv` gives
`MintsMatchLocks`: a record that is no orphan has its event on the chain, with its
amount, and a mint has the amount of its record. `TokensInv` says what each contract
holds at every block up to the head and
not only at the head: a fork goes back to the block before, and a balance that is
only known to be sound now says nothing about that one. `ReconcileExact` compares
four totals: what was locked, issued, burnt and released. Each is a sum over its own
things (logs, receipts, burns, calls), and the invariants `EventMatch`, `MintMatch`,
`BurnInv` and `PaidMatch` make each a one-to-one image of the ledger's records of
some states, with the same amounts, so that all four become sums over records and
the equation is arithmetic.

*WalletProofs.* Whichever operation runs, one step of a process does one of four
things to the shielded files: hold, make, save, or put back the one a passphrase change
read (`Shape`, `Restores`, `SealPart`), and only this is used in the proofs. `ScanInv` (a
cache that names this start of this chain agrees with a full scan up to its cursor, on
disk and in hand) is preserved by all four, with any number of processes, and gives
`ScanComplete`. The others need one process (`OneProcess`). `Custody` (a file in hand is
one of the directory's, with the same master; one about to be made is not there) gives
`MasterKept`. `CountInv` (counters in hand are those on disk, taken leaves lie below
them) gives `LeavesUsedOnce`; of a file that was put back (`Off`) it says nothing more than
whose it is. `RatchetInv` gives `RatchetReachable`, while nothing slipped or was put back
(`Held`): a nonce that an operation has fixed, perhaps minutes before it signs, stays
within the chain's nonce plus what is pending (`Reach`); the index on disk is one past it
while it is in hand; and `Reach` falls only by a refusal, which is the refusal of the very operation
that waits (`QueueIds`: ids are not shared between the queue, the receipts and the hand)
and that puts the index back, or is counted as a slip.

*NodeProofs.* Five parts: `SigmaInv` (images and state are the network's), `RangeInv`
(behind the image a start would take, every block is on disk or could not be
written; only what lies below it is packed), `SegInv` (a segment contains the files
it replaces), `ServeInv` (from the floor on, everything is `Kept`, in a segment or a file
that no packing job is deleting, or is `Missing`: deleted by a pass under way, below
where it will set the floor, or by one that failed),
`IndexInv` (a height that is said to be covered is indexed, or is not on disk and
never will be). `ServeInv` is where the missing lock of `prune_below` matters, and
the reason it does no harm: it deletes below the floor it is about to set. Replay,
`Min` and `Max` are handled by smallest counterexamples too.

*MempoolProofs.* The pool changes by loops: the prune, the restore of a snapshot,
the replay of the log, the block, the pick. The library's folds take their body as
a parameter, so the bodies are made data (`turn`), one lemma shows that a fold is the
end of a run of states that follow from one another (`LoopRuns`), and each loop is
then an induction along its run (`Climb`). `MempoolInv` joins what `HeldByOwner` and
`IndexesMirrorQueue` need of each other: a transaction ahead of the chain is bound to
the key its queued predecessor committed to, so ownership needs exact indexes, and it
needs the chain's own keys to be the owners' (`ChainOK`). `SnapOK` says that what the
chain has passed of an old snapshot is named by the blocks a restart replays; without
it a restart could bring back a spent nonce. `AcceptedHoldsSlot` needs `AcceptedInv`:
what is owed is pending, its frame is in the log before the answer and again in the
log a reset writes, and it still fits (`Fits`): channels only grow, so a settle that the
door let in never costs more than the door allowed. So the replay meets the
transaction, and the door, which has no other reason left, lets it in (`NextIsLetIn`).

*MempoolProofs, the faucet.* Neither property is inductive. Two handlers at work
never have the same caller and asset, because each holds that key's stamp and a
handler ends within a tick, before the stamp is old (`FlightInv`). So a pending drip
belongs to one handler, and a refusal is waited for by at most one. `RatchetInv`
adds to `RatchetInStep` that a refused nonce whose handler does not know yet lies
before every pending one: without it a block could accept a transaction equal to a
refused one and turn that refusal into an acceptance. `DoorInv` says that what left
the pool has a receipt, and that nothing accepted is at or past the chain's nonce.
`OneDripPerWindow` needs `DripInv`: a drip that is pending or paid keeps its stamp for
a cooldown, and a handler that may still take a stamp back has no drip made with it,
unless it waits for that one's receipt. `StampInv` relates memory and file: they agree
except where a save failed (`unsaved`), and what a restart does not load is old. Taking a stamp back is one lemma (`TakeBack`) for the
three failures after the signature and the three before it.

*ValidatorProofs, the set.* A block is a loop over its certificates and a restart a
loop over blocks, handled as in `MempoolProofs`. A certificate keeps a set runnable
(`RotateKeeps`, `ChangedRunnable`): apply_rotation replaces a seat by its address, so
unique addresses are needed for it to replace one seat only, and an admission is the
one place where an address is added. What a block does to a set depends on the set
and the height alone (`BlockSame`), neither on the signer nor on whether it is a
replay; so a node that restarted and one that never stopped hold the same set at the
same height (`OnChain`). `HistOK` says that the history's last entry is the set in
force and that every height from its first entry on is answered with the set of the
height before; a restart begins it again at the snapshot. The signer is on its seat's
tree (`SignerOK`) only while the process is up, and only because nothing moves the
seat back to an earlier tree: an admission does, hence the hypothesis `NotReadmitted`
of `ValidatorSetFollowsBlocks`.

*ValidatorProofs, rotation.* That a queue never holds two certificates is not inductive:
a new one retires only what is not newer. `RotInv` says what the queues can hold
(`Short`): this node's own pending certificate is for the epoch after its own at most,
its queue for the epoch after the one in the gauge, which is not ahead of the node
(`GaugeInv`), so that each issue finds nothing newer; at the peer the second preflight
says the same. A carried certificate holds against the seat of the proposal; the
certificates before it in the block are of lower epochs, so they leave the seat below
its epoch (`SeatBelow`, `CarriedHolds`), whatever order they come in. For the signer
the invariant needs the third copy of the epoch: seat, signer and `current_epoch` are
one while the node is seated (`StepInv`), for a rotation moves the signer only past
`current_epoch`.

*ValidatorProofs, the signer.* `NoLeafReuse` is not inductive: nothing in it says where a
restarted signer resumes. `SignerInv` adds that every released leaf lies below the
durable position, that the durable record is never ahead of the visible one, that
the live signer is past every leaf it released and at most one reservation behind
its file, and what has been established at each point of `sign`. Attaching a tree
is one lemma shared by start and rotation; the rest is one step per action.

Only model-checked:

- liveness (`NothingParks`, `LowSeatRotates`): fairness is outside the
  prover's reach;
- `PathsReachRoot`, about the recursive tree algorithms.

Proved and no longer among the runs' properties: `SignerTypeOK`,
`SignerPositionMonotone`, `TreeTypeOK`, `TreeAttenuated`. The type invariants of
the other modules are conjuncts of a property of their run.

## 5. Not modelled

- The consensus engine, the zkVM and the hash-signature library are vendored and
  assumed: a decided block is any block, a signature or a proof is the fact it
  shows. Ethereum is a chain that may replace its last blocks.
- The queue of aggregation bundles (`hk_submitBundle`): what an aggregate makes
  true is in `ShieldedPool`, how a bundle waits is not.
- Changing the contracts' attestors, threshold or cap (owner calls).
- The payment facilitator and gossip: they forward what others signed and keep
  nothing that is not rebuilt from the chain.
- A file that is corrupt rather than old or missing, except where the code reads on
  (the mempool's log, the cooldowns, the bridge's ledger): the node refuses to start.
- The parts of a proposal stream (`streaming.rs`): a value arrives whole or not at all.
- The `key-seal` and `account-seal` verbs (`keys.rs:233`-`311`), which change a
  passphrase from the command line; the name of a temporary file that two threads may
  share (a file is replaced atomically); two clicks within one frame, before `busy` is
  set, which are the case of two processes.
- Which address the faucet knows a caller by, the cap on its cooldown map, and how
  wallets derive keys, encrypt notes and print.
- Formatting, logging, RPC queries, user interfaces, demos, benches and circuits.

## 6. Plan

Nothing of the plan is left to prove: what is only model-checked is out of the
prover's reach, for the reasons given in section 4. Left to model, in order:

1. The queue of aggregation bundles, beside the certificate queues.
2. Changing the attestors and the cap of the bridge contracts.
