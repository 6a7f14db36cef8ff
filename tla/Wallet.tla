------------------------------- MODULE Wallet -------------------------------
(***************************************************************************)
(* The wallets of one user: the app core (hk-wallet-core, behind the       *)
(* desktop window and the phone) and the command line (wallet_cli.rs,      *)
(* account.rs), which may share an account directory.                      *)
(*                                                                         *)
(* The directory holds account.json (the ratchet index of the transparent  *)
(* account) and one shielded file per client: shield.json of the app,      *)
(* wallet.json of the command line.  Each keeps two counters that must     *)
(* never repeat, the next one-time spend leaf and the next note tag; the   *)
(* app's also keeps what the last scan found.  The app seals its files     *)
(* under a passphrase.                                                     *)
(*                                                                         *)
(* A process runs one operation, step by step; between two steps it may    *)
(* die, blocks are committed, others pay into the pool, or the test chain  *)
(* is started over.  The desktop window changes the passphrase on its own  *)
(* thread, beside the operation of its worker.  Files are replaced         *)
(* atomically (fsutil).  The pool of one asset stands for all; its tree    *)
(* and proofs are ShieldedPool.tla's.                                      *)
(***************************************************************************)
EXTENDS Integers, FiniteSets, SequencesExt

CONSTANTS Procs,                    \* wallet processes open on the directory
          Passes,                   \* passphrases the user may choose
          Amounts, Drip, Fee,       \* payments; what the faucet gives; the network fee
          OTS_CAPACITY,
          Sealing,                  \* the user protects the files (else only pays)
          MaxOps, MaxPool, MaxFaults     \* bounds of the run

ASSUME WalletAssumption ==
  /\ Amounts \subseteq Nat \ {0} /\ {Drip, Fee, OTS_CAPACITY, MaxOps, MaxPool, MaxFaults} \subseteq Nat
  /\ {"plain", "none"} \cap Passes = {} /\ Sealing \in BOOLEAN

VARIABLES
  account,         \* account.json
  box,             \* shield.json of "app" and wallet.json of "cli"
  session,         \* per process: the passphrase in memory (vault.rs)
  work, reseal,    \* per process: the operation, the change of passphrase under way
  chain,           \* the ledger as a wallet sees it
  pending, receipts,
  ops, faults,     \* operations; faults, relaunches and changes of passphrase
  born,            \* shielded masters made so far
  leaves, tags,    \* history: one-time leaves and tags taken, by operation
  slips, lost      \* history: see RatchetReachable and write_secret_files

files == <<account, box>>
net   == <<chain, pending, receipts>>
hist  == <<born, leaves, tags, slips, lost>>
vars  == <<files, session, work, reseal, net, ops, faults, hist>>

Clients == {"app", "cli"}
\* A note that was found, by its place.  The era is no field of the files: the
\* start of the network that the note, or the cursor, is from.
NoNote == [at |-> 0, value |-> 0, era |-> 0]
EmptyCache == [chain_id |-> -1, through |-> 0, notes |-> {}, spent |-> {}, era |-> 0]
NoFile == [exists |-> FALSE, master |-> 0, ots |-> 0, tag |-> 1, seal |-> "plain", scan |-> EmptyCache]
Idle == [pc |-> "idle", client |-> "app", op |-> "none", amount |-> 0, id |-> 0,
         file |-> NoFile, nonce |-> -1, note |-> NoNote, ots |-> -1, tag |-> 0]
NoReseal == [pc |-> "idle", pass |-> "none", old |-> "none", nonce |-> 0, file |-> NoFile]

Init ==
  /\ account = [exists |-> FALSE, nonce |-> 0, seal |-> "plain"]
  /\ box = [c \in Clients |-> NoFile]
  /\ session = [p \in Procs |-> "none"] /\ work = [p \in Procs |-> Idle]
  /\ reseal = [p \in Procs |-> NoReseal]
  /\ chain = [id |-> 0, era |-> 0, exists |-> FALSE, nonce |-> 0, balance |-> 0, pool |-> <<>>, spent |-> {}]
  /\ pending = {} /\ receipts = {}
  /\ ops = 0 /\ faults = 0 /\ born = 0
  /\ leaves = {} /\ tags = {} /\ slips = 0 /\ lost = {}

Spend == faults < MaxFaults /\ faults' = faults + 1

----------------------------------------------------------------------------
(* The vault: what a process can read, and how it writes.                  *)

readable(p, f) == f.seal = "plain" \/ f.seal = session[p]

\* Sealed while a passphrase is set, plain otherwise.
encode(p, f) == IF session[p] = "none" THEN "plain" ELSE session[p]

\* The command line finds the passphrase in its environment and writes a
\* sealed file back as it was (keys.rs write_secret).
can_load(p, c, f) == f.exists /\ (c = "app" => readable(p, f))
sealed_by(p, c, f) == IF c = "app" THEN encode(p, f) ELSE f.seal

locked(p) == account.exists /\ account.seal # "plain" /\ session[p] = "none"
free(p) == work[p].pc = "idle" /\ reseal[p].pc = "idle"

create(p) ==
  /\ free(p) /\ ~account.exists
  /\ account' = [exists |-> TRUE, nonce |-> 0, seal |-> encode(p, account)]
  /\ UNCHANGED <<box, session, work, reseal, net, ops, faults, hist>>

\* The account file is tried if there is one; a plain file needs no passphrase
\* and the vault forgets any it had.
unlock(p, pass) ==
  /\ free(p) /\ account.exists
  /\ \/ account.seal = "plain" /\ session' = [session EXCEPT ![p] = "none"]
     \/ account.seal = pass /\ session' = [session EXCEPT ![p] = pass]
  /\ UNCHANGED <<files, work, reseal, net, ops, faults, hist>>

lock(p) ==
  /\ free(p) /\ session' = [session EXCEPT ![p] = "none"]
  /\ UNCHANGED <<files, work, reseal, net, ops, faults, hist>>

\* protect and unprotect read both files first.  The buttons ask for no idle
\* worker: an operation of the app may be under way.
read_secret_files(p, pass) ==
  /\ Sealing /\ Spend /\ reseal[p].pc = "idle" /\ (work[p].pc # "idle" => work[p].client = "app")
  /\ account.exists /\ readable(p, account)
  /\ box["app"].exists => readable(p, box["app"])
  /\ reseal' = [reseal EXCEPT ![p] = [pc |-> "set", pass |-> pass, old |-> session[p],
                                      nonce |-> account.nonce, file |-> box["app"]]]
  /\ UNCHANGED <<files, session, work, net, ops, hist>>

\* The new key is derived and the session changes.
protect(p) ==
  /\ reseal[p].pc = "set" /\ session' = [session EXCEPT ![p] = reseal[p].pass]
  /\ reseal' = [reseal EXCEPT ![p].pc = "account"]
  /\ UNCHANGED <<files, work, net, ops, faults, hist>>

\* What was read is written, the account first; if a file cannot be written the
\* old passphrase comes back.  Kept as history (lost): a file that an operation
\* had moved on since it was read.
write_secret_files(p) ==
  LET r == reseal[p] IN
  /\ \/ /\ r.pc = "account"
        /\ account' = [account EXCEPT !.nonce = r.nonce, !.seal = encode(p, account)]
        /\ lost' = lost \cup {f \in {"account"} : r.nonce # account.nonce}
        /\ reseal' = [reseal EXCEPT ![p] = IF r.file.exists THEN [r EXCEPT !.pc = "shield"] ELSE NoReseal]
        /\ UNCHANGED <<box, session, faults>>
     \/ /\ r.pc = "shield"
        /\ box' = [box EXCEPT !["app"] = [r.file EXCEPT !.seal = encode(p, r.file)]]
        /\ lost' = lost \cup {f \in {"app"} : r.file.ots # box["app"].ots \/ r.file.tag # box["app"].tag}
        /\ reseal' = [reseal EXCEPT ![p] = NoReseal]
        /\ UNCHANGED <<account, session, faults>>
     \/ /\ r.pc \in {"account", "shield"} /\ Spend
        /\ session' = [session EXCEPT ![p] = r.old]
        /\ reseal' = [reseal EXCEPT ![p] = NoReseal]
        /\ UNCHANGED <<files, lost>>
  /\ UNCHANGED <<work, net, ops, born, leaves, tags, slips>>

----------------------------------------------------------------------------
(* Starting an operation.                                                  *)

step(p, l) == work' = [work EXCEPT ![p].pc = l]
fail(p) == work' = [work EXCEPT ![p] = Idle]

SpendOps == {"unshield", "pay"}

\* An operation on an account that exists.
begin(p, c, op, a, first) ==
  /\ free(p) /\ ops < MaxOps /\ ops' = ops + 1
  /\ account.exists
  /\ work' = [work EXCEPT ![p] = [Idle EXCEPT !.client = c, !.op = op, !.amount = a,
                                              !.id = ops', !.pc = first]]
  /\ UNCHANGED <<files, session, reseal, net, faults, hist>>

\* The app must be able to read the account; all but a send open shield.json.
can_read(p) == ~locked(p) /\ readable(p, account)
do_send(p, a)     == can_read(p) /\ begin(p, "app", "send", a, "check")
do_shield(p, a)   == can_read(p) /\ begin(p, "app", "shield", a, "load")
do_unshield(p, a) == can_read(p) /\ begin(p, "app", "unshield", a, "load")
do_pay(p, a)      == can_read(p) /\ begin(p, "app", "pay", a, "load")
do_scan(p)        == can_read(p) /\ begin(p, "app", "scan", 0, "load")
do_disclose(p)    == can_read(p) /\ begin(p, "app", "disclose", 0, "load")

\* account.rs: `account-send`, `account-create` and the `asset` verbs sign in
\* the same way and look at nothing first.
sign_submit(p, a) == begin(p, "account", "send", a, "check")

\* wallet_cli.rs: each verb that pays takes its nonce first.
cli_transfer(p, a) == begin(p, "cli", "send", a, "signer")
cli_shield(p, a)   == begin(p, "cli", "shield", a, "signer")
cli_unshield(p, a) == begin(p, "cli", "unshield", a, "signer")
cli_pay(p, a)      == begin(p, "cli", "pay", a, "signer")

\* Faulty variant: a file that does not open is taken for a missing one.
load_or_create_shield_Variant(p) ==
  /\ work[p].pc = "load"
  /\ IF can_load(p, "app", box["app"])
     THEN work' = [work EXCEPT ![p].file = box["app"], ![p].pc = "check"]
     ELSE IF work[p].op # "disclose" THEN step(p, "create") ELSE fail(p)
  /\ UNCHANGED <<files, session, reseal, net, ops, faults, hist>>

\* The file if there is one; one that does not open is an error, never replaced.
\* The first shielded use makes the master; disclose only loads.
load_or_create_shield(p) ==
  /\ work[p].pc = "load"
  /\ \/ /\ can_load(p, "app", box["app"])
        /\ work' = [work EXCEPT ![p].file = box["app"], ![p].pc = "check"]
     \/ ~box["app"].exists /\ work[p].op # "disclose" /\ step(p, "create")
     \/ /\ IF box["app"].exists THEN ~readable(p, box["app"]) ELSE work[p].op = "disclose"
        /\ fail(p)
  /\ UNCHANGED <<files, session, reseal, net, ops, faults, hist>>

\* `wallet init` looks for wallet.json first.
cli_init(p) ==
  /\ free(p) /\ account.exists /\ ~box["cli"].exists
  /\ work' = [work EXCEPT ![p] = [Idle EXCEPT !.client = "cli", !.op = "init", !.pc = "create"]]
  /\ UNCHANGED <<files, session, reseal, net, ops, faults, hist>>

\* The file with a fresh master, a step after it was missed.  The app seals it
\* under its session, the command line when its environment has a passphrase.
create_master(p) ==
  LET c == work[p].client IN
  /\ work[p].pc = "create" /\ born' = born + 1
  /\ \E s \in IF c = "app" THEN {encode(p, box[c])} ELSE {"plain"} \cup (IF Sealing THEN Passes ELSE {}) :
       box' = [box EXCEPT ![c] = [NoFile EXCEPT !.exists = TRUE, !.master = born', !.seal = s]]
  /\ work' = [work EXCEPT ![p] = IF c = "app" THEN [work[p] EXCEPT !.file = box'[c], !.pc = "check"] ELSE Idle]
  /\ UNCHANGED <<account, session, reseal, net, ops, faults, leaves, tags, slips, lost>>

\* wallet_cli.rs: load wallet.json, and fix the nonce now: the larger of the
\* account file's and the chain's.
cli_signer(p) ==
  /\ work[p].pc = "signer"
  /\ IF box["cli"].exists /\ chain.exists
     THEN work' = [work EXCEPT ![p].file = box["cli"], ![p].pc = "check",
            ![p].nonce = IF account.nonce > chain.nonce THEN account.nonce ELSE chain.nonce]
     ELSE fail(p)
  /\ UNCHANGED <<files, session, reseal, net, ops, faults, hist>>

\* What the balance must cover before anything is reserved or proved.
cost(w) == CASE w.op \in {"send", "shield"} -> w.amount + Fee
             [] w.op \in SpendOps           -> Fee
             [] OTHER                       -> 0

\* The command line looks at the balance only before shielding, and not at the fee.
require_fee(p) ==
  LET w == work[p]
      enough == CASE w.client = "app" -> chain.balance >= cost(w)
                  [] w.client = "cli" -> w.op = "shield" => chain.balance >= w.amount
                  [] OTHER            -> TRUE IN
  /\ w.pc = "check"
  /\ IF enough
     THEN step(p, CASE w.op = "send" -> "nonce" [] w.op = "shield" -> "tag" [] OTHER -> "scan")
     ELSE fail(p)
  /\ UNCHANGED <<files, session, reseal, net, ops, faults, hist>>

----------------------------------------------------------------------------
(* Notes.                                                                  *)

found(i) == [at |-> i, value |-> chain.pool[i].value, era |-> chain.era]

\* The cache after a scan that goes on from old: the new entries that open, then
\* the nullifiers of what was not known to be spent.  One whose query failed
\* (missed) counts as unspent.  A cursor that a pool started over has grown
\* past is taken for one of this start, and its era stays.
scanned(f, old, id, missed) ==
  LET total == Len(chain.pool)
      notes == old.notes \cup {found(i) : i \in {j \in old.through + 1..total : chain.pool[j].owner = f.master}} IN
  [chain_id |-> id, through |-> IF total > old.through THEN total ELSE old.through, notes |-> notes,
   spent |-> old.spent \cup {n \in notes : n.era = chain.era /\ n.at \in chain.spent \ missed},
   era |-> IF f.scan.chain_id = id /\ f.scan.through \in 1..total THEN f.scan.era ELSE chain.era]

\* Faulty variant: a pool shorter than the cursor does not start it afresh.
my_notes_Variant(f, id, missed) ==
  scanned(f, IF f.scan.chain_id # id THEN EmptyCache ELSE f.scan, id, missed)

\* A new chain, or a pool shorter than the cursor, starts the cache afresh.
my_notes(f, id, missed) ==
  scanned(f, IF f.scan.chain_id # id \/ Len(chain.pool) < f.scan.through THEN EmptyCache ELSE f.scan, id, missed)

\* The smallest unspent note that covers the amount.
pick_note(s, a) ==
  LET fit == {n \in s.notes \ s.spent : n.value >= a} IN
  {n \in fit : \A m \in fit : n.value <= m.value}

\* A counter moves on disk before its value is used.
save_file(p, f) == box' = [box EXCEPT ![work[p].client] =
                             [f EXCEPT !.seal = sealed_by(p, work[p].client, box[work[p].client])]]

\* The app saves what changed; chain_info may fail, which names no chain (-1
\* stands for the empty id) but lets the scan go on.  The command line reads
\* the whole pool every time.
scan(p) ==
  LET w == work[p]
      f == IF w.client = "app" THEN w.file ELSE [w.file EXCEPT !.scan = EmptyCache] IN
  /\ w.pc = "scan"
  /\ \E id \in {chain.id} \cup (IF w.client = "app" THEN {-1} ELSE {}), missed \in SUBSET chain.spent :
       LET s == my_notes(f, id, missed)
           kept == IF w.client = "app" THEN [w.file EXCEPT !.scan = s] ELSE w.file IN
       /\ IF id = chain.id /\ missed = {} THEN UNCHANGED faults ELSE Spend
       /\ IF kept # w.file THEN save_file(p, kept) ELSE UNCHANGED box
       /\ IF w.op \in SpendOps /\ pick_note(s, w.amount) # {}
          THEN \E n \in pick_note(s, w.amount) :
                 work' = [work EXCEPT ![p].note = n, ![p].file = kept, ![p].pc = "tag"]
          ELSE fail(p)
  /\ UNCHANGED <<account, session, reseal, net, ops, hist>>

reserve_tag(p) ==
  LET w == work[p] IN
  /\ w.pc = "tag"
  /\ save_file(p, [w.file EXCEPT !.tag = @ + 1])
  /\ tags' = tags \cup {[master |-> w.file.master, n |-> w.file.tag, id |-> w.id]}
  /\ work' = [work EXCEPT ![p].tag = w.file.tag, ![p].file.tag = @ + 1,
                          ![p].pc = IF w.op = "shield" THEN "prove" ELSE "ots"]
  /\ UNCHANGED <<account, session, reseal, net, ops, faults, born, leaves, slips, lost>>

\* Faulty variant: the leaf is used and the counter saved with the next write.
reserve_ots_Variant(p) ==
  LET w == work[p] IN
  /\ w.pc = "ots" /\ w.file.ots < OTS_CAPACITY
  /\ leaves' = leaves \cup {[master |-> w.file.master, n |-> w.file.ots, id |-> w.id]}
  /\ work' = [work EXCEPT ![p].ots = w.file.ots, ![p].file.ots = @ + 1, ![p].pc = "prove"]
  /\ UNCHANGED <<files, session, reseal, net, ops, faults, born, tags, slips, lost>>

\* The leaf; a spend tree that is used up ends the operation.
reserve_ots(p) ==
  LET w == work[p] IN
  /\ w.pc = "ots"
  /\ IF w.file.ots < OTS_CAPACITY
     THEN /\ save_file(p, [w.file EXCEPT !.ots = @ + 1])
          /\ leaves' = leaves \cup {[master |-> w.file.master, n |-> w.file.ots, id |-> w.id]}
          /\ work' = [work EXCEPT ![p].ots = w.file.ots, ![p].file.ots = @ + 1, ![p].pc = "prove"]
     ELSE fail(p) /\ UNCHANGED <<box, leaves>>
  /\ UNCHANGED <<account, session, reseal, net, ops, faults, born, tags, slips, lost>>

\* build_spend and the prover: minutes.
prove(p) ==
  /\ work[p].pc = "prove" /\ step(p, "nonce")
  /\ UNCHANGED <<files, session, reseal, net, ops, faults, hist>>

Before == {"load", "create", "signer", "check", "scan", "tag", "ots", "prove", "nonce", "reserve"}

\* A query, a save or the prover fails: the operation ends with nothing sent.
op_error(p) ==
  /\ work[p].pc \in Before /\ Spend /\ fail(p)
  /\ UNCHANGED <<files, session, reseal, net, ops, hist>>

----------------------------------------------------------------------------
(* Sending.                                                                *)

\* The app and account.rs take the chain's nonce now; the command line keeps
\* the one it fixed at the start.
sync_nonce(p) ==
  LET w == work[p] IN
  /\ w.pc = "nonce"
  /\ IF w.client = "cli" THEN step(p, "reserve")
     ELSE IF chain.exists
     THEN work' = [work EXCEPT ![p].nonce = chain.nonce, ![p].pc = "reserve"]
     ELSE fail(p)
  /\ UNCHANGED <<files, session, reseal, net, ops, faults, hist>>

save_nonce(p, n) ==
  account' = [account EXCEPT !.nonce = n, !.seal = sealed_by(p, work[p].client, account)]

\* RESERVE-THEN-SIGN.  The app reads the file again first, and cannot while a
\* change of passphrase has the session ahead of the file.
reserve_nonce(p) ==
  /\ work[p].pc = "reserve"
  /\ IF work[p].client = "app" /\ ~readable(p, account)
     THEN fail(p) /\ UNCHANGED account
     ELSE save_nonce(p, work[p].nonce + 1) /\ step(p, "submit")
  /\ UNCHANGED <<box, session, reseal, net, ops, faults, hist>>

door(n) ==
  /\ chain.exists /\ \A t \in pending : t.nonce # n
  /\ n = chain.nonce \/ (n > chain.nonce /\ \E t \in pending : t.nonce = n - 1)

\* The index is put back; a save that fails is logged or ignored, and the
\* index stays ahead.
rollback(p, n) ==
  \/ /\ save_nonce(p, work[p].nonce)
     /\ faults' = faults + n /\ UNCHANGED slips
  \/ /\ faults + n < MaxFaults /\ faults' = faults + n + 1
     /\ slips' = slips + 1 /\ UNCHANGED account

signed(w) == [nonce |-> w.nonce, op |-> w.op, amount |-> w.amount, note |-> w.note,
              owner |-> w.file.master, tag |-> w.tag, id |-> w.id]

\* Faulty variant: a refused submission leaves the index advanced.
submit_Variant(p) ==
  LET w == work[p] IN
  /\ w.pc = "submit"
  /\ \/ door(w.nonce) /\ pending' = pending \cup {signed(w)} /\ step(p, "poll") /\ UNCHANGED faults
     \/ ~door(w.nonce) /\ fail(p) /\ UNCHANGED <<pending, faults>>
     \/ Spend /\ fail(p) /\ UNCHANGED pending
  /\ UNCHANGED <<files, session, reseal, chain, receipts, ops, hist>>

\* Taken; or the answer lost, refused, or never delivered, and rolled back.
submit(p) ==
  LET w == work[p] IN
  /\ w.pc = "submit"
  /\ \/ /\ door(w.nonce) /\ pending' = pending \cup {signed(w)} /\ step(p, "poll")
        /\ UNCHANGED <<account, faults, slips>>
     \/ /\ door(w.nonce) /\ pending' = pending \cup {signed(w)}
        /\ faults < MaxFaults /\ rollback(p, 1) /\ fail(p)
     \/ /\ ~door(w.nonce) /\ UNCHANGED pending /\ rollback(p, 0) /\ fail(p)
     \/ /\ UNCHANGED pending /\ faults < MaxFaults /\ rollback(p, 1) /\ fail(p)
  /\ UNCHANGED <<box, session, reseal, chain, receipts, ops, born, leaves, tags, lost>>

\* A receipt, or none in time.  After a refusal the app and account.rs put
\* the index back, the command line does not.
poll(p) ==
  LET w == work[p] IN
  /\ w.pc = "poll" /\ fail(p)
  /\ IF w.client # "cli" /\ \E r \in receipts : r.id = w.id /\ ~r.ok
     THEN rollback(p, 0) ELSE UNCHANGED <<account, faults, slips>>
  /\ UNCHANGED <<box, session, reseal, net, ops, born, leaves, tags, lost>>

----------------------------------------------------------------------------
(* The world.                                                              *)

entry(owner, v) == [owner |-> owner, value |-> v]

valid(t) ==
  /\ t.nonce = chain.nonce
  /\ chain.balance >= (CASE t.op \in {"send", "shield"} -> t.amount + Fee [] OTHER -> Fee)
  /\ t.op \in SpendOps => /\ t.note.era = chain.era /\ t.note.at \in DOMAIN chain.pool
                        /\ t.note.at \notin chain.spent

\* The outputs, in order: an unshield's second is a dummy.
outputs(t) ==
  CASE t.op = "shield"   -> <<entry(t.owner, t.amount)>>
    [] t.op = "unshield" -> <<entry(t.owner, t.note.value - t.amount), entry(0, 0)>>
    [] t.op = "pay"      -> <<entry(0, t.amount), entry(t.owner, t.note.value - t.amount)>>
    [] OTHER             -> <<>>

apply(t) == [chain EXCEPT
  !.nonce = @ + 1,
  !.pool = @ \o outputs(t),
  !.spent = IF t.op \in SpendOps THEN @ \cup {t.note.at} ELSE @,
  !.balance = @ - Fee + (CASE t.op \in {"send", "shield"} -> -t.amount
                           [] t.op = "unshield" -> t.amount
                           [] OTHER -> 0)]

awaited(t) == \E p \in Procs : work[p].pc = "poll" /\ work[p].id = t.id /\ work[p].client # "cli"

\* A block takes the first of the account's transactions; all get a receipt.
Commit ==
  \E t \in pending :
    /\ \A u \in pending : t.nonce <= u.nonce
    /\ pending' = pending \ {t}
    /\ receipts' = receipts \cup {[id |-> t.id, ok |-> valid(t)]}
    /\ chain' = IF valid(t) THEN apply(t) ELSE chain
    /\ slips' = slips + (IF ~valid(t) /\ ~awaited(t) THEN 1 ELSE 0)
    /\ UNCHANGED <<files, session, work, reseal, ops, faults, born, leaves, tags, lost>>

\* do_faucet: the account is created and funded.
faucet ==
  /\ account.exists /\ ~chain.exists
  /\ chain' = [chain EXCEPT !.exists = TRUE, !.balance = Drip]
  /\ UNCHANGED <<files, session, work, reseal, pending, receipts, ops, faults, hist>>

\* Somebody pays one of the user's shielded addresses.
PayMe(c) ==
  /\ box[c].exists /\ Len(chain.pool) < MaxPool
  /\ chain' = [chain EXCEPT !.pool = Append(@, entry(box[c].master, 2))]
  /\ UNCHANGED <<files, session, work, reseal, pending, receipts, ops, faults, hist>>

\* The test network is started over, under a new chain id or under the same.
Relaunch(id) ==
  /\ Spend
  /\ chain' = [id |-> id, era |-> chain.era + 1, exists |-> FALSE, nonce |-> 0, balance |-> 0,
               pool |-> <<>>, spent |-> {}]
  /\ pending' = {} /\ slips' = slips + 1
  /\ UNCHANGED <<files, session, work, reseal, receipts, ops, born, leaves, tags, lost>>

Crash(p) ==
  /\ Spend /\ work' = [work EXCEPT ![p] = Idle] /\ reseal' = [reseal EXCEPT ![p] = NoReseal]
  /\ session' = [session EXCEPT ![p] = "none"]
  /\ slips' = slips + (IF work[p].pc \in {"submit", "poll"} THEN 1 ELSE 0)
  /\ UNCHANGED <<files, net, ops, born, leaves, tags, lost>>

\* What the buttons of the window do: all but the passphrase's wait for the worker.
window(p) ==
  \/ create(p) \/ lock(p)
  \/ \E pass \in Passes : unlock(p, pass)
  \/ \E pass \in Passes \cup {"none"} : read_secret_files(p, pass)
  \/ do_scan(p) \/ do_disclose(p)
  \/ \E a \in Amounts : do_send(p, a) \/ do_shield(p, a) \/ do_unshield(p, a) \/ do_pay(p, a)

\* The verbs of the command line.
verbs(p) ==
  \/ cli_init(p)
  \/ \E a \in Amounts : \/ sign_submit(p, a) \/ cli_transfer(p, a) \/ cli_shield(p, a)
                        \/ cli_unshield(p, a) \/ cli_pay(p, a)

Process(p) ==
  \/ window(p) \/ verbs(p) \/ protect(p) \/ write_secret_files(p)
  \/ load_or_create_shield(p) \/ create_master(p) \/ cli_signer(p) \/ require_fee(p) \/ scan(p)
  \/ reserve_tag(p) \/ reserve_ots(p) \/ prove(p) \/ op_error(p)
  \/ sync_nonce(p) \/ reserve_nonce(p) \/ submit(p) \/ poll(p)

Next == \/ \E p \in Procs : Process(p) \/ Crash(p)
        \/ Commit \/ faucet \/ \E c \in Clients : PayMe(c)
        \/ \E id \in {chain.id, chain.id + 1} : Relaunch(id)

Spec == Init /\ [][Next]_vars

----------------------------------------------------------------------------
(* Properties.                                                             *)

\* Counters, seals and cursors have the types of the three files.
WalletTypeOK ==
  /\ account.nonce \in Nat /\ account.seal \in Passes \cup {"plain"}
  /\ \A c \in Clients : /\ box[c].ots \in 0..OTS_CAPACITY /\ box[c].tag \in Nat
                        /\ box[c].seal \in Passes \cup {"plain"}
                        /\ box[c].scan.spent \subseteq box[c].scan.notes
                        /\ \A n \in box[c].scan.notes : n.at \in 1..box[c].scan.through
  /\ chain.balance \in Nat /\ chain.spent \subseteq DOMAIN chain.pool

\* "never re-used: advance + fsync before use": no one-time leaf signs two
\* spends and no tag makes two notes, though an operation may die after its
\* reservation and be started again.  The exception: a change of passphrase
\* that ran beside an operation of the window and wrote back the shield.json it
\* had read before (lost).
LeavesUsedOnce ==
  /\ WalletTypeOK
  /\ \A s \in {leaves, tags} : \A x, y \in s : (x.master = y.master /\ x.n = y.n) =>
       x = y \/ ("app" \in lost /\ x.master = box["app"].master)

\* The scan cache that is kept by cursor agrees with a scan from the start: on
\* the chain it names it holds exactly the user's notes below the cursor, and
\* calls spent only what is, after any number of partial scans and relaunches,
\* under the same chain id too.  What it cannot tell apart is a pool started
\* over under the same id that has already grown to the cursor (era).
ScanComplete ==
  LET f == box["app"] IN
  f.scan.chain_id = chain.id /\ f.scan.era = chain.era =>
    /\ f.scan.through <= Len(chain.pool)
    /\ f.scan.notes = {found(i) : i \in {j \in 1..f.scan.through : chain.pool[j].owner = f.master}}
    /\ \A n \in f.scan.spent : n.at \in chain.spent

\* Once made, a shielded master is never replaced by the one process that runs,
\* whatever is locked, sealed under another passphrase or interrupted, and
\* though the window seals it again beside an operation.  (Two processes on
\* first use both find no file and make one.)
MasterKept ==
  [][\A c \in Clients : box[c].exists => box'[c].exists /\ box'[c].master = box[c].master]_vars

\* The ratchet index on disk never runs ahead of the chain by more than what
\* is pending and in hand, so the next signature can be accepted.  It can only
\* after a crash between the two, a rollback that was not saved, a relaunch, or
\* a refusal nobody waited for, as every refusal of the command line is
\* (slips); or after a change of passphrase that wrote back the account.json it
\* had read before (lost).
RatchetReachable ==
  slips = 0 /\ "account" \notin lost =>
    account.nonce <= chain.nonce + Cardinality(pending)
                     + Cardinality({p \in Procs : work[p].pc \in {"submit", "poll"}})
=============================================================================
