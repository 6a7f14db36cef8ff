------------------------------ MODULE Mempool ------------------------------
(***************************************************************************)
(* One node's mempool: the admission door (mempool.rs), the proposer's     *)
(* pick and the commit-time prune (state.rs), and the write-ahead log and  *)
(* snapshot that carry pending transactions over a restart (store.rs,      *)
(* rpc.rs admit_one, state.rs restore_from_store).                         *)
(*                                                                         *)
(* RPC workers admit under the chain and mempool locks, then append to the *)
(* WAL and answer outside them; the application loop commits blocks, its   *)
(* own or another proposer's, and takes snapshots.                         *)
(*                                                                         *)
(* Abstractions.  A transaction is a record of what its envelope and the   *)
(* door look at; a key is named by its commitment.  What else may make the *)
(* state machine refuse a payload (balances, mandates, words: Ledger.tla)  *)
(* is a free choice per block.  Heights matter only up to the R18 one.     *)
(***************************************************************************)
EXTENDS Integers, SequencesExt

CONSTANTS
    Settings,               \* the networks and nodes to look at: see Init
    Senders, Channels,
    auth_commit,            \* genesis commitment of each account
    OwnKeys,                \* commitments of the keys the account's owner holds
    cap, NONCE_WINDOW, MAX_TXS_PER_BLOCK,
    MAX_SETTLE_DELTA, MAX_CHANNEL_STEPS, MAX_SETTLE_LINKS_PER_BLOCK,
    Workers,                \* RPC connection handlers
    ForeignMax,             \* longest block of another proposer
    WalMax, Crashes,        \* bounds on the run
    TornWrites,             \* a crash may cut an append in half
    DiskFails               \* an append may fail with an I/O error

Txs == UNION {s.txs : s \in Settings}

ASSUME MempoolAssumption ==
    /\ {cap, NONCE_WINDOW, MAX_TXS_PER_BLOCK} \subseteq Nat \ {0}
    /\ {MAX_SETTLE_DELTA, MAX_CHANNEL_STEPS, MAX_SETTLE_LINKS_PER_BLOCK, ForeignMax, WalMax, Crashes} \subseteq Nat
    /\ \A s \in Settings : s.store \in BOOLEAN /\ s.payword_cap_from \in Nat
    /\ MAX_CHANNEL_STEPS <= MAX_SETTLE_LINKS_PER_BLOCK   \* asserted by state.rs
    /\ MAX_SETTLE_DELTA <= MAX_SETTLE_LINKS_PER_BLOCK
    /\ \A t \in Txs : /\ t.sender \in Senders /\ t.nonce \in Nat
                      /\ t.kind = "open" => t.channel \in Channels /\ t.max_steps \in Nat
                      /\ t.kind = "settle" => t.step \in Nat
    /\ {TornWrites, DiskFails} \subseteq BOOLEAN

\* Keys cannot be forged: what verifies under a key of the account's owner was
\* made by the owner, and commits to another key of the owner.
ASSUME OwnerAssumption ==
    /\ auth_commit \in [Senders -> UNION {OwnKeys[s] : s \in Senders}]
    /\ \A s \in Senders : auth_commit[s] \in OwnKeys[s]
    /\ \A t \in Txs : t.sig /\ t.key \in OwnKeys[t.sender] => t.next_auth \in OwnKeys[t.sender]

VARIABLES
    set,        \* the setting of this run
    chain,      \* the part of hk_state::State the door reads
    mp,         \* the Mempool struct
    rpc,        \* rpc[w]: what worker w is doing
    wal,        \* mempool.wal, as the writes that reached it
    snap,       \* the mempool in the last snapshot
    replay,     \* slots of the blocks after that snapshot
    app,        \* the application loop: idle, or inside commit's persist part
    up, crashes,
    owed        \* history: answered "accepted" with the append done, and still pending

vars == <<set, chain, mp, rpc, wal, snap, replay, app, up, crashes, owed>>

\* store: FALSE for a node without persistence (HK_NO_PERSIST).  anchors: the
\* roots of the pool at the start.  txs: what anyone may submit or propose.
store            == set.store
payword_cap_from == set.payword_cap_from
Anchors          == set.anchors

slot(t) == <<t.sender, t.nonce>>
Slots   == {slot(t) : t \in Txs}

nullifiers_of(t) == IF t.kind = "spend" THEN {t.nullifier} ELSE {}

Lesser(a, b) == IF a < b THEN a ELSE b

EmptyPool == [q |-> <<>>, ids |-> {}, keys |-> [x \in {} |-> 0], nullifiers |-> {}]

Idle == [pc |-> "idle"]

Init ==
    /\ set \in Settings
    /\ chain = [height |-> 0, nonce |-> [s \in Senders |-> 0], auth |-> auth_commit,
                spent |-> {}, anchors |-> Anchors, channels |-> [c \in {} |-> 0]]
    /\ mp = EmptyPool
    /\ rpc = [w \in Workers |-> Idle]
    /\ wal = <<>> /\ snap = <<>> /\ replay = {}
    /\ app = "idle" /\ up = TRUE /\ crashes = 0
    /\ owed = {}

-----------------------------------------------------------------------------
(* What the chain says of a settle                                         *)

\* settle_delta; None is 0, which no settle can have.
settle_delta(ch, c, step) ==
    IF /\ c \in DOMAIN ch.channels
       /\ ~ch.channels[c].refunded
       /\ ch.channels[c].highest < step /\ step <= ch.channels[c].max_steps
    THEN step - ch.channels[c].highest
    ELSE 0

\* The links a settle would make the fleet hash in the next block.
settle_cost(ch, c, step) ==
    IF settle_delta(ch, c, step) > 0        THEN step
    ELSE IF c \in DOMAIN ch.channels        THEN 0
    ELSE IF ch.height + 1 >= payword_cap_from THEN Lesser(step, MAX_SETTLE_DELTA)
    ELSE step

-----------------------------------------------------------------------------
(* The door                                                                *)

gate(m, t) == Len(m.q) < cap /\ t \notin m.ids /\ slot(t) \notin DOMAIN m.keys

channel_open_cap(t) == t.kind = "open" => t.max_steps <= MAX_CHANNEL_STEPS

\* Faulty variant: the first cut of R18, which admitted what no block could carry.
channel_settle_cap_DeltaOnly(ch, t) ==
    t.kind = "settle" =>
        /\ settle_delta(ch, t.channel, t.step) <= MAX_SETTLE_DELTA
        /\ t.channel \in DOMAIN ch.channels \/ t.step <= MAX_SETTLE_DELTA

channel_settle_cap(ch, t) ==
    t.kind = "settle" =>
        /\ settle_delta(ch, t.channel, t.step) <= MAX_SETTLE_DELTA
        /\ t.channel \in DOMAIN ch.channels \/ t.step <= MAX_SETTLE_DELTA
        /\ settle_cost(ch, t.channel, t.step) <= MAX_SETTLE_LINKS_PER_BLOCK

\* Faulty variant: a transaction ahead of the chain is not bound to a key.
admit_gated_Unbound(m, ch, t) ==
    /\ channel_open_cap(t)
    /\ ch.nonce[t.sender] <= t.nonce /\ t.nonce < ch.nonce[t.sender] + NONCE_WINDOW
    /\ t.kind = "spend" => /\ t.anchor \in ch.anchors
                           /\ t.nullifier \notin ch.spent \cup m.nullifiers
    /\ t.nonce = ch.nonce[t.sender] => t.key = ch.auth[t.sender]
    /\ t.sig

\* The nonce window, the pool lookups, the key (the account's, or the one the
\* pending predecessor committed to), then the signature.
admit_gated(m, ch, t) ==
    /\ channel_open_cap(t)
    /\ ch.nonce[t.sender] <= t.nonce /\ t.nonce < ch.nonce[t.sender] + NONCE_WINDOW
    /\ t.kind = "spend" => /\ t.anchor \in ch.anchors
                           /\ t.nullifier \notin ch.spent \cup m.nullifiers
    /\ LET before == <<t.sender, t.nonce - 1>>
       IN  IF t.nonce = ch.nonce[t.sender]
           THEN t.key = ch.auth[t.sender]
           ELSE before \in DOMAIN m.keys /\ t.key = m.keys[before]
    /\ t.sig

try_admit(m, ch, t) == gate(m, t) /\ channel_settle_cap(ch, t) /\ admit_gated(m, ch, t)

\* index, and the push on the queue.
index(m, t) ==
    [q          |-> Append(m.q, t),
     ids        |-> m.ids \cup {t},
     keys       |-> [x \in DOMAIN m.keys \cup {slot(t)} |->
                        IF x = slot(t) THEN t.next_auth ELSE m.keys[x]],
     nullifiers |-> m.nullifiers \cup nullifiers_of(t)]

insert_unchecked(m, t) == IF t \in m.ids \/ Len(m.q) >= cap THEN m ELSE index(m, t)

\* Faulty variant: the slot is forgotten.
unindex_KeepsSlots(m, t) ==
    [q |-> m.q, ids |-> m.ids \ {t}, keys |-> m.keys,
     nullifiers |-> m.nullifiers \ nullifiers_of(t)]

unindex(m, t) ==
    [q |-> m.q, ids |-> m.ids \ {t},
     keys |-> [x \in DOMAIN m.keys \ {slot(t)} |-> m.keys[x]],
     nullifiers |-> m.nullifiers \ nullifiers_of(t)]

\* The queue is taken and filled again: every pending transaction in an
\* included slot leaves, with its indexes.
keep_or_drop(m, t, included) ==
    IF slot(t) \in included THEN unindex(m, t) ELSE [m EXCEPT !.q = Append(@, t)]

remove_included(m, included) ==
    FoldLeft(LAMBDA n, t : keep_or_drop(n, t, included), [m EXCEPT !.q = <<>>], m.q)

-----------------------------------------------------------------------------
(* Blocks                                                                  *)

\* One turn of select_batch_txs: within the room and the settle-link budget;
\* what follows a held transaction of the same sender is held with it.
pick_or_hold(ch, s, t) ==
    LET cost == IF t.kind = "settle" THEN settle_cost(ch, t.channel, t.step) ELSE 0 IN
    IF Len(s.picked) >= MAX_TXS_PER_BLOCK \/ t.sender \in s.held THEN s
    ELSE IF t.kind = "settle" /\ s.links + cost > MAX_SETTLE_LINKS_PER_BLOCK
    THEN [s EXCEPT !.held = @ \cup {t.sender}]
    ELSE [s EXCEPT !.picked = Append(@, t), !.links = @ + cost]

\* What the proposer takes from the pool, in pool order.
select_batch_txs(ch, q) ==
    FoldLeft(LAMBDA s, t : pick_or_hold(ch, s, t),
             [picked |-> <<>>, links |-> 0, held |-> {}], q).picked

\* The payload's own conditions, as far as the door mirrors them.
dispatch_ok(ch, t) ==
    /\ t.kind = "open" =>
          /\ t.channel \notin DOMAIN ch.channels
          /\ ch.height >= payword_cap_from => t.max_steps <= MAX_CHANNEL_STEPS
    /\ t.kind = "settle" => LET d == settle_delta(ch, t.channel, t.step) IN
          d > 0 /\ (ch.height >= payword_cap_from => d <= MAX_SETTLE_DELTA)
    /\ t.kind = "refund" => t.channel \in DOMAIN ch.channels /\ ~ch.channels[t.channel].refunded
    /\ t.kind = "spend" => t.anchor \in ch.anchors /\ t.nullifier \notin ch.spent

channels_after(ch, t) ==
    CASE t.kind = "open"   -> [c \in DOMAIN ch.channels \cup {t.channel} |->
                                  IF c = t.channel
                                  THEN [max_steps |-> t.max_steps, highest |-> 0, refunded |-> FALSE]
                                  ELSE ch.channels[c]]
      [] t.kind = "settle" -> [ch.channels EXCEPT ![t.channel].highest = t.step]
      [] t.kind = "refund" -> [ch.channels EXCEPT ![t.channel].refunded = TRUE]
      [] OTHER             -> ch.channels

\* apply_tx_at: nonce, key and signature, then the payload; a refusal changes
\* nothing, a success consumes the key and commits to the next one.
apply_tx_at(ch, t, refused) ==
    IF /\ t.nonce = ch.nonce[t.sender] /\ t.key = ch.auth[t.sender] /\ t.sig
       /\ t \notin refused /\ dispatch_ok(ch, t)
    THEN [ch EXCEPT !.nonce[t.sender] = @ + 1, !.auth[t.sender] = t.next_auth,
                    !.spent = @ \cup nullifiers_of(t), !.channels = channels_after(ch, t)]
    ELSE ch

\* Sealing at block end may push anchors out of the window.
apply_block(ch, block, refused, kept) ==
    [FoldLeft(LAMBDA c, t : apply_tx_at(c, t, refused),
              [ch EXCEPT !.height = Lesser(@ + 1, payword_cap_from)], block)
        EXCEPT !.anchors = @ \cap kept]

\* Every transaction of the block gets a receipt and leaves the pool.
included(block) == {slot(t) : t \in ToSet(block)}

\* commit: apply, prune, save the block.
Commit(block, refused, kept) ==
    /\ up /\ app = "idle"
    /\ chain' = apply_block(chain, block, refused, kept)
    /\ mp' = remove_included(mp, included(block))
    /\ replay' = replay \cup included(block)
    /\ owed' = {t \in owed : slot(t) \notin included(block)}
    /\ app' \in IF store THEN {"idle", "snapshot"} ELSE {"idle"}
    /\ UNCHANGED <<set, rpc, wal, snap, up, crashes>>

\* This node's turn to propose (build_batch).
OwnBlock ==
    \E block \in {select_batch_txs(chain, mp.q)} :
        \E refused \in SUBSET ToSet(block), kept \in SUBSET Anchors : Commit(block, refused, kept)

\* Another proposer's block: whatever it chose to put in it.
ForeignBlock ==
    \E block \in UNION {[1..n -> set.txs] : n \in 1..ForeignMax} :
        \E refused \in SUBSET ToSet(block), kept \in SUBSET Anchors : Commit(block, refused, kept)

\* save_snapshot, with the mempool as it is now.
SaveSnapshot ==
    /\ up /\ app = "snapshot"
    /\ snap' = mp.q /\ replay' = {}
    /\ app' = "reset"
    /\ UNCHANGED <<set, chain, mp, rpc, wal, up, crashes, owed>>

Frames(q) == [i \in 1..(2 * Len(q)) |-> [part |-> IF i % 2 = 1 THEN "len" ELSE "body",
                                         tx |-> q[(i + 1) \div 2]]]

\* An append that already opened the WAL goes on in the file the reset replaced.
Orphaned == {w \in Workers : rpc[w].pc = "body"}
MayBeOrphaned == {w \in Workers : rpc[w].pc = "len"}

\* The workers whose append is over once the late ones have lost theirs: the new
\* WAL has the transaction if it is pending, and otherwise no trace of it.
appended(late) ==
    [w \in Workers |->
        IF w \in late \cup Orphaned \cup {v \in Workers : rpc[v].pc = "answer"}
        THEN [rpc[w] EXCEPT !.pc = IF rpc[w].tx \in mp.ids THEN "answer" ELSE "failed"]
        ELSE rpc[w]]

\* Faulty variant: the WAL is emptied, the snapshot being thought to hold it all.
WalReset_Empties ==
    /\ up /\ app = "reset"
    /\ wal' = <<>>
    /\ \E late \in SUBSET MayBeOrphaned : rpc' = appended(late)
    /\ app' = "idle"
    /\ UNCHANGED <<set, chain, mp, snap, replay, up, crashes, owed>>

\* wal_reset, under the mempool lock: the WAL becomes the mempool of this moment.
WalReset ==
    /\ up /\ app = "reset"
    /\ wal' = Frames(mp.q)
    /\ \E late \in SUBSET MayBeOrphaned : rpc' = appended(late)
    /\ app' = "idle"
    /\ UNCHANGED <<set, chain, mp, snap, replay, up, crashes, owed>>

-----------------------------------------------------------------------------
(* admit_one: the door, the WAL append, the answer                         *)

Submit(w, t) ==
    /\ up /\ rpc[w] = Idle
    /\ Len(wal) < WalMax
    /\ try_admit(mp, chain, t)
    /\ mp' = index(mp, t)
    /\ rpc' = [rpc EXCEPT ![w] = [pc |-> IF store THEN "len" ELSE "answer", tx |-> t]]
    /\ UNCHANGED <<set, chain, wal, snap, replay, app, up, crashes, owed>>

\* wal_append writes the length and the frame with two calls.
WriteLen(w) ==
    /\ up /\ rpc[w].pc = "len"
    /\ wal' = Append(wal, [part |-> "len", tx |-> rpc[w].tx])
    /\ rpc' = [rpc EXCEPT ![w].pc = "body"]
    /\ UNCHANGED <<set, chain, mp, snap, replay, app, up, crashes, owed>>

WriteBody(w) ==
    /\ up /\ rpc[w].pc = "body"
    /\ wal' = Append(wal, [part |-> "body", tx |-> rpc[w].tx])
    /\ rpc' = [rpc EXCEPT ![w].pc = "answer"]
    /\ UNCHANGED <<set, chain, mp, snap, replay, app, up, crashes, owed>>

\* An I/O error is logged; the transaction is accepted all the same.
AppendFails(w) ==
    /\ DiskFails /\ up /\ rpc[w].pc \in {"len", "body"}
    /\ rpc' = [rpc EXCEPT ![w].pc = "failed"]
    /\ UNCHANGED <<set, chain, mp, wal, snap, replay, app, up, crashes, owed>>

\* The answer: "accepted".
Answer(w) ==
    /\ up /\ rpc[w].pc \in {"answer", "failed"}
    /\ owed' = IF rpc[w].pc = "answer" THEN owed \cup ({rpc[w].tx} \cap mp.ids) ELSE owed
    /\ rpc' = [rpc EXCEPT ![w] = Idle]
    /\ UNCHANGED <<set, chain, mp, wal, snap, replay, app, up, crashes>>

-----------------------------------------------------------------------------
(* Crash and restart                                                       *)

Crash ==
    /\ up /\ store /\ crashes < Crashes
    /\ TornWrites \/ \A w \in Workers : rpc[w].pc # "body"
    /\ up' = FALSE /\ crashes' = crashes + 1
    /\ mp' = EmptyPool
    /\ rpc' = [w \in Workers |-> Idle]
    /\ app' = "idle"
    /\ UNCHANGED <<set, chain, wal, snap, replay, owed>>

\* wal_load: frames up to the first that does not decode.
wal_load ==
    LET intact(k) == \A i \in 1..k : /\ wal[2*i - 1].part = "len" /\ wal[2*i].part = "body"
                                     /\ wal[2*i - 1].tx = wal[2*i].tx
        n == CHOOSE k \in 0..(Len(wal) \div 2) :
                intact(k) /\ (k < Len(wal) \div 2 => ~intact(k + 1))
    IN  [i \in 1..n |-> wal[2*i].tx]

\* The snapshot's mempool, less what the replayed blocks carried.
restored == remove_included(FoldLeft(insert_unchecked, EmptyPool, snap), replay)

\* restore_from_store: the block log replays to the same chain, and the WAL
\* goes through the door.
Restart ==
    /\ ~up
    /\ up' = TRUE
    /\ mp' = FoldLeft(LAMBDA m, t : IF try_admit(m, chain, t) THEN index(m, t) ELSE m,
                      restored, wal_load)
    /\ owed' = owed \cap mp'.ids
    /\ UNCHANGED <<set, chain, rpc, wal, snap, replay, app, crashes>>

Next ==
    \/ OwnBlock \/ ForeignBlock
    \/ SaveSnapshot \/ WalReset
    \/ \E w \in Workers, t \in set.txs : Submit(w, t)
    \/ \E w \in Workers : WriteLen(w) \/ WriteBody(w) \/ AppendFails(w) \/ Answer(w)
    \/ Crash \/ Restart

\* Proposer rotation gives every validator its turn again and again; the
\* application loop, a started append and an operator's restart go on.
Fairness ==
    /\ SF_vars(OwnBlock)
    /\ WF_vars(SaveSnapshot) /\ WF_vars(WalReset) /\ WF_vars(Restart)

Spec == Init /\ [][Next]_vars /\ Fairness

-----------------------------------------------------------------------------
(* Properties                                                              *)

\* The pool stays within its cap and holds transactions that were submitted;
\* the rest keeps its types.
TypeOK ==
    /\ chain.nonce \in [Senders -> Nat] /\ chain.height \in 0..payword_cap_from
    /\ DOMAIN chain.channels \subseteq Channels /\ chain.anchors \subseteq Anchors
    /\ mp.q \in Seq(Txs) /\ Len(mp.q) <= cap
    /\ mp.ids \subseteq Txs /\ DOMAIN mp.keys \subseteq Slots
    /\ \A w \in Workers : rpc[w] = Idle \/ rpc[w].tx \in Txs
    /\ wal \in Seq([part : {"len", "body"}, tx : Txs])
    /\ app \in {"idle", "snapshot", "reset"} /\ up \in BOOLEAN /\ crashes \in 0..Crashes

\* The indexes hold exactly what is queued, one transaction per slot, and no
\* block, restart or race with the door leaves a nonce queued that the chain has
\* passed: a slot left behind would refuse its account's transactions for ever.
IndexesMirrorQueue ==
    LET queued == ToSet(mp.q) IN
    /\ TypeOK
    /\ \A t \in queued : t.nonce >= chain.nonce[t.sender]
    /\ Len(mp.q) = Cardinality(queued)
    /\ mp.ids = queued
    /\ mp.keys = [x \in {slot(t) : t \in queued} |->
                     (CHOOSE t \in queued : slot(t) = x).next_auth]
    /\ Cardinality(DOMAIN mp.keys) = Cardinality(queued)
    /\ mp.nullifiers = UNION {nullifiers_of(t) : t \in queued}

\* M-2: a slot is only ever held by a transaction its own account signed.
HeldByOwner ==
    \A t \in ToSet(mp.q) : t.sig /\ t.key \in OwnKeys[t.sender]

\* R18: "nothing admitted parks".  Whatever the door lets in, a block carries
\* in the end: no slot stays taken for ever.
NothingParks ==
    \A x \in Slots : []<>(x \notin DOMAIN mp.keys)

\* Accepted, and the next its account could apply.
NextInLine ==
    {t \in owed : t.nonce = chain.nonce[t.sender] /\ t.key = chain.auth[t.sender] /\ dispatch_ok(chain, t)}

\* No crash, whether before or after a block, the snapshot or the WAL reset,
\* frees the slot of an accepted transaction that could apply next, as long as
\* no append was cut: the WAL reads back whole.  (The slot, or the nullifier the
\* transaction reveals, may come back to an older, refused one that the WAL
\* still has, and a transaction whose append failed was accepted without a
\* promise.)
AcceptedHoldsSlot ==
    [][up' /\ ~up /\ 2 * Len(wal_load) = Len(wal) =>
          \A t \in NextInLine : \/ slot(t) \in DOMAIN mp'.keys
                                \/ nullifiers_of(t) \cap mp'.nullifiers # {}
                                \/ Len(mp'.q) = cap]_vars

=============================================================================
