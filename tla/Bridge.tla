------------------------------- MODULE Bridge -------------------------------
(***************************************************************************)
(* The bridge between HashKinetics and Ethereum: the attestation service   *)
(* (`hk-node attest-serve`, attest.rs), its co-signers, the two contracts  *)
(* it drives and the operator who resolves what the service holds back.    *)
(*                                                                         *)
(* There are two legs.  On "usdc" a user locks tokens in HKVault (kind     *)
(* "deposit") and the issuer mints USDC.sep on HashKinetics; a burn there  *)
(* (kind "burn") is released by an attested unlock.  On "hkt" the roles    *)
(* are turned round: a burn of HKT on HashKinetics (kind "wlock") mints    *)
(* HKWrapped tokens, and burning those (kind "wburn") mints HKT again.     *)
(*                                                                         *)
(* The service is one thread: scan Ethereum, mint, scan HashKinetics,      *)
(* release, and again.  Its ledger is an append-only file; a line is on    *)
(* disk before the process acts on it.  The process may die between any    *)
(* two steps, an answer of a node may be lost, and the unsafe end of the   *)
(* Ethereum chain may be replaced.                                         *)
(***************************************************************************)
EXTENDS FiniteSets, Sequences, SequencesExt, Sums

CONSTANTS Amounts,      \* what a user locks or burns
          DailyCap,     \* daily limit of each contract
          InitialHkt,   \* HKT in circulation on HashKinetics at the start
          Confirm,      \* blocks behind the head that count as safe (eth.confirm)
          Attestors,    \* the contracts' attestor set
          Primary,      \* the attestor that runs the service
          Threshold,    \* signatures a release needs
          MaxHead, MaxEvents, MaxBurns, MaxDays,   \* bounds of the run
          MaxFaults     \* crashes, lost answers, errors, forks and pauses of the run

ASSUME BridgeAssumption ==
  /\ Amounts \subseteq Nat /\ DailyCap \in Nat /\ InitialHkt \in Nat
  /\ Confirm \in Nat /\ Primary \in Attestors
  /\ Threshold \in 1..Cardinality(Attestors)
  /\ {MaxHead, MaxEvents, MaxBurns, MaxDays, MaxFaults} \subseteq Nat

VARIABLES
  head, events,        \* Ethereum: its height, the Locked and Burned logs
  replaced, orphans,   \* history: what forks took from under the ledger, see Reorg
  contract,            \* per leg: paused, usedToday, processed ids, tokens held or in circulation
  calls,               \* unlock and mint calls sent to Ethereum, in order
  nonce, pending,      \* HashKinetics: the issuer's nonce and its mints in the mempool
  receipts, minted,    \* receipts of the issuer's mints; accepted mints per record
  forgotten,           \* the receipts the node no longer has
  burns, accounts,     \* AssetBurns committed, one a block; whether the recipient exists
  mem, disk,           \* the service's ledger in memory and in the file
  eth_cursor, hk_cursor,
  pc, todo, cur, txid, \* where the service is, the records this loop has left, the one in hand
  sigs,                \* and the signatures gathered for it
  safe, vault_paused, vault_remaining,   \* what it read from Ethereum at the start of a phase
  day, faults          \* days passed; the faults so far

chain  == <<head, events, contract, calls, replaced, orphans>>
hk     == <<nonce, pending, receipts, minted, forgotten, burns, accounts>>
book   == <<mem, disk, eth_cursor, hk_cursor>>
stance == <<pc, todo, cur, txid, sigs, safe, vault_paused, vault_remaining>>
vars   == <<chain, hk, book, stance, day, faults>>

Legs     == {"usdc", "hkt"}
EthKinds == {"deposit", "wburn"}
HkKinds  == {"burn", "wlock"}
EthKind  == [l \in Legs |-> IF l = "usdc" THEN "deposit" ELSE "wburn"]
HkKind   == [l \in Legs |-> IF l = "usdc" THEN "burn" ELSE "wlock"]
LegOf(k) == IF k[1] \in {"deposit", "burn"} THEN "usdc" ELSE "hkt"

\* Ledger keys: an Ethereum event by its contract's nonce, a burn by its height.
Keys == (EthKinds \X (1..MaxEvents)) \cup (HkKinds \X (1..MaxBurns))

Record(state, amount, at, tx) == [state |-> state, amount |-> amount, at |-> at, tx |-> tx]
Unrecorded == Record("none", 0, 0, 0)
has(k) == mem[k].state # "none"
in_states(kinds, states) == {k \in Keys : k[1] \in kinds /\ mem[k].state \in states}

\* Append the line, then fold it: the state changes, fields not named stay.
write(k, r) ==
  /\ mem' = [mem EXCEPT ![k] = r]
  /\ disk' = [disk EXCEPT ![k] = r]
  /\ UNCHANGED <<eth_cursor, hk_cursor>>

\* Faulty variant: fields that a line does not name are cleared.
write_state_Variant(k, state) == write(k, [Unrecorded EXCEPT !.state = state])

write_state(k, state) == write(k, [mem[k] EXCEPT !.state = state])

Init ==
  /\ head = 0 /\ events = {} /\ calls = <<>> /\ replaced = {} /\ orphans = {}
  /\ contract = [l \in Legs |-> [paused |-> FALSE, used |-> 0, processed |-> {}, tokens |-> 0]]
  /\ nonce = 0 /\ pending = {} /\ receipts = {} /\ minted = [k \in Keys |-> 0] /\ forgotten = {}
  /\ burns = <<>> /\ accounts = FALSE
  /\ mem = [k \in Keys |-> Unrecorded] /\ disk = mem
  /\ eth_cursor = 0 /\ hk_cursor = 0
  /\ pc = "scan_eth" /\ todo = {} /\ cur = <<>> /\ txid = 0 /\ sigs = {}
  /\ safe = 0 /\ vault_paused = FALSE /\ vault_remaining = 0
  /\ day = 0
  /\ faults = [crash |-> 0, lost |-> [k \in Keys |-> 0], abort |-> 0, reorg |-> 0, brake |-> 0]

FaultsSoFar == faults.crash + faults.abort + faults.reorg + faults.brake
               + SumOf(faults.lost, Keys)
Spend(f) == FaultsSoFar < MaxFaults /\ faults' = [faults EXCEPT ![f] = @ + 1]

----------------------------------------------------------------------------
(* Ethereum: HKVault, HKWrapped and the attestor set they share.           *)

\* HKVault.lock on "usdc", HKWrapped.burn on "hkt": the id is the contract's
\* next nonce.  The wrapped token refuses a zero amount, the vault (minLock
\* zero) does not.
Lock(l, amount) ==
  LET n == Cardinality({e \in events : e.key[1] = EthKind[l]}) + 1 IN
  /\ ~contract[l].paused
  /\ Cardinality(events) < MaxEvents /\ head + 1 + Confirm <= MaxHead
  /\ l = "hkt" => amount # 0 /\ contract[l].tokens >= amount
  /\ head' = head + 1
  /\ events' = events \cup {[key |-> <<EthKind[l], n>>, amount |-> amount, block |-> head']}
  /\ contract' = [contract EXCEPT ![l].tokens = IF l = "usdc" THEN @ + amount ELSE @ - amount]
  /\ UNCHANGED <<calls, replaced, orphans, hk, book, stance, day, faults>>

EthBlock ==
  /\ head < MaxHead /\ head' = head + 1
  /\ UNCHANGED <<events, contract, calls, replaced, orphans, hk, book, stance, day, faults>>

remainingToday(l) == IF contract[l].used >= DailyCap THEN 0 ELSE DailyCap - contract[l].used

\* What unlock and mint require of a call (_requireAttested, _consumeDaily).
call_ok(c) ==
  /\ ~contract[c.leg].paused
  /\ c.id \notin contract[c.leg].processed
  /\ Cardinality(c.sigs \cap Attestors) >= Threshold
  /\ c.amount <= remainingToday(c.leg)
  /\ c.leg = "hkt" => c.amount # 0
  /\ c.leg = "usdc" => c.amount <= contract[c.leg].tokens

\* The newest block includes a call: HKVault.unlock or HKWrapped.mint, or a revert.
Include(i) ==
  LET c == calls[i] IN
  /\ c.status = "pending"
  /\ IF call_ok(c)
     THEN /\ calls' = [calls EXCEPT ![i].status = "ok", ![i].block = head]
          /\ contract' = [contract EXCEPT
               ![c.leg].used = @ + c.amount,
               ![c.leg].processed = @ \cup {c.id},
               ![c.leg].tokens = IF c.leg = "usdc" THEN @ - c.amount ELSE @ + c.amount]
     ELSE /\ calls' = [calls EXCEPT ![i].status = "reverted", ![i].block = head]
          /\ UNCHANGED contract
  /\ UNCHANGED <<head, events, replaced, orphans, hk, book, stance, day, faults>>

\* pause() by the owner or any attestor; only the owner unpauses.
Pause(l) ==
  /\ ~contract[l].paused /\ Spend("brake")
  /\ contract' = [contract EXCEPT ![l].paused = TRUE]
  /\ UNCHANGED <<head, events, calls, replaced, orphans, hk, book, stance, day>>

Unpause(l) ==
  /\ contract[l].paused
  /\ contract' = [contract EXCEPT ![l].paused = FALSE]
  /\ UNCHANGED <<head, events, calls, replaced, orphans, hk, book, stance, day, faults>>

\* The daily counters start again (the contracts reset them on first use); a day
\* before which nothing was released makes no difference.
NewDay ==
  /\ day < MaxDays /\ day' = day + 1 /\ \E l \in Legs : contract[l].used # 0
  /\ contract' = [l \in Legs |-> [contract[l] EXCEPT !.used = 0]]
  /\ UNCHANGED <<head, events, calls, replaced, orphans, hk, book, stance, faults>>

\* A fork replaces the newest block: its events are gone and their nonces free
\* again, its calls wait for another block.  Taken again, it goes deeper.  Kept
\* as history: the replaced blocks that the scan had passed, and the records
\* whose event or whose release is gone.
Reorg ==
  LET gone == {e \in events : e.block = head}
      undone(l) == {i \in DOMAIN calls : calls[i].block = head /\ calls[i].leg = l
                                          /\ calls[i].status = "ok"}
      out(l) == SumOf([i \in DOMAIN calls |-> calls[i].amount], undone(l))
      in(l) == SumOf([e \in events |-> e.amount], {e \in gone : LegOf(e.key) = l}) IN
  /\ head > 0 /\ Confirm > 0 /\ Spend("reorg")
  /\ head' = head - 1 /\ events' = events \ gone
  /\ calls' = [i \in DOMAIN calls |-> IF calls[i].block = head
                 THEN [calls[i] EXCEPT !.status = "pending", !.block = 0] ELSE calls[i]]
  /\ contract' = [l \in Legs |-> [contract[l] EXCEPT
       !.processed = @ \ {calls[i].id : i \in undone(l)},
       !.used = IF @ > out(l) THEN @ - out(l) ELSE 0,
       !.tokens = IF l = "usdc" THEN @ - in(l) + out(l) ELSE @ + in(l) - out(l)]]
  /\ replaced' = replaced \cup {b \in {head} : b <= eth_cursor}
  /\ orphans' = orphans \cup {e.key : e \in {g \in gone : disk[g.key].state # "none"}}
                        \cup UNION {{<<HkKind[l], calls[i].id>> : i \in undone(l)} : l \in Legs}
  /\ UNCHANGED <<hk, book, stance, day>>

----------------------------------------------------------------------------
(* HashKinetics, as the service and its co-signers see it.                 *)

amount_of(ks) == SumOf([k \in Keys |-> mem[k].amount], ks)
burnt(l) == SumOf([i \in DOMAIN burns |-> burns[i].amount],
                  {i \in DOMAIN burns : burns[i].leg = l /\ burns[i].accepted})
minted_on(l) == SumOf([r \in receipts |-> r.amount], {r \in receipts : LegOf(r.key) = l /\ r.ok})
circulating(l) == (IF l = "hkt" THEN InitialHkt ELSE 0) + minted_on(l) - burnt(l)

\* An AssetBurn is committed, accepted or refused; its memo may name no
\* Ethereum address.
HkBurn(l, amount, bridgeable, accepted) ==
  /\ Len(burns) < MaxBurns
  /\ amount # 0 /\ (accepted => circulating(l) >= amount) /\ (accepted \/ bridgeable)
  /\ burns' = Append(burns, [leg |-> l, amount |-> amount, bridgeable |-> bridgeable,
                             accepted |-> accepted, known |-> TRUE])
  /\ UNCHANGED <<chain, nonce, pending, receipts, minted, forgotten, accounts, book, stance, day, faults>>

\* A restarted node has no receipts for the blocks before, of burns or of mints.
ForgetReceipts ==
  /\ forgotten # receipts \/ \E i \in DOMAIN burns : burns[i].known
  /\ burns' = [i \in DOMAIN burns |-> [burns[i] EXCEPT !.known = FALSE]]
  /\ forgotten' = receipts /\ Spend("abort")
  /\ UNCHANGED <<chain, nonce, pending, receipts, minted, accounts, book, stance, day>>

CreateAccount ==
  /\ ~accounts /\ accounts' = TRUE
  /\ UNCHANGED <<chain, nonce, pending, receipts, minted, forgotten, burns, book, stance, day, faults>>

\* A mint is committed, or refused (asset paused, recipient frozen): the
\* issuer's nonce moves only with an accepted one.
CommitMint(m, ok) ==
  /\ m \in pending /\ m.nonce = nonce
  /\ IF ok THEN UNCHANGED faults ELSE Spend("abort")
  /\ pending' = pending \ {m}
  /\ receipts' = receipts \cup {[key |-> m.key, nonce |-> m.nonce, amount |-> m.amount, ok |-> ok]}
  /\ nonce' = IF ok THEN nonce + 1 ELSE nonce
  /\ minted' = [minted EXCEPT ![m.key] = IF ok THEN @ + 1 ELSE @]
  /\ UNCHANGED <<chain, forgotten, burns, accounts, book, stance, day>>

\* Faulty variant: a burn without a receipt is taken as accepted.
receipt_class_Variant(b) == IF b.known /\ ~b.accepted THEN "rejected" ELSE "ok"

\* The receipt class of a burn: a refused one moved nothing, one without a
\* receipt is not taken on trust.
receipt_class(b) == IF ~b.known THEN "unknown" ELSE IF b.accepted THEN "ok" ELSE "rejected"

----------------------------------------------------------------------------
(* The service: one pass of the loop is scan_eth, process_eth_events,      *)
(* scan_hk, process_hk_burns.                                              *)

goto(l) == pc' = l /\ UNCHANGED <<todo, cur, txid, sigs, safe, vault_paused, vault_remaining>>
next_record(l) == /\ pc' = l /\ todo' = todo \ {cur} /\ cur' = <<>> /\ txid' = 0 /\ sigs' = {}
                  /\ UNCHANGED <<safe, vault_paused, vault_remaining>>
done(k) == /\ todo' = todo \ {k}
           /\ UNCHANGED <<pc, cur, txid, sigs, safe, vault_paused, vault_remaining>>
\* The tick returns an error: the loop starts over.
give_up == /\ pc' = "scan_eth" /\ todo' = {} /\ cur' = <<>> /\ txid' = 0 /\ sigs' = {}
           /\ UNCHANGED <<safe, vault_paused, vault_remaining>>

unscanned == {e \in events : e.block > eth_cursor}

\* An event up to the head is recorded as seen, unless its id is known.  What
\* others do between the read of a page of logs and its lines commutes with these.
record_eth_event(e) ==
  /\ pc = "scan_eth" /\ e \in unscanned /\ ~has(e.key)
  /\ write(e.key, Record("seen", e.amount, e.block, 0))
  /\ UNCHANGED <<chain, hk, stance, day, faults>>

\* Faulty variant: a record left "submitting" by a crash is tried again.
EthToDo_Variant == {"seen", "held_recipient", "submitted", "submitting"}

EthToDo == {"seen", "held_recipient", "submitted"}

\* The end of scan_eth: the cursor is written and the safe head kept for the
\* pass over the deposits.
scan_eth ==
  /\ pc = "scan_eth" /\ \A e \in unscanned : has(e.key)
  /\ eth_cursor' = (IF head > eth_cursor THEN head ELSE eth_cursor)
  /\ safe' = (IF head > Confirm THEN head - Confirm ELSE 0)
  /\ pc' = "eth" /\ todo' = in_states(EthKinds, EthToDo)
  /\ UNCHANGED <<mem, disk, hk_cursor, cur, txid, sigs, vault_paused, vault_remaining, chain, hk, day, faults>>

receipt_of(k) == {r \in receipts \ forgotten : r.key = k /\ r.nonce = mem[k].tx}

\* A mint submitted earlier: look for the receipt missed then.
recheck_mint(k) ==
  /\ pc = "eth" /\ k \in todo /\ mem[k].state = "submitted"
  /\ IF receipt_of(k) = {} THEN UNCHANGED book
     ELSE \E r \in receipt_of(k) : write_state(k, IF r.ok THEN "confirmed" ELSE "rejected")
  /\ done(k) /\ UNCHANGED <<chain, hk, day, faults>>

\* What is not to be minted now: not final, no such account yet, or nothing
\* to mint.
hold_deposit(k) ==
  /\ pc = "eth" /\ k \in todo /\ mem[k].state # "submitted"
  /\ \/ mem[k].at > safe /\ UNCHANGED book
     \/ mem[k].at <= safe /\ ~accounts /\ write_state(k, "held_recipient")
     \/ mem[k].at <= safe /\ accounts /\ mem[k].amount = 0 /\ write_state(k, "needs_review")
  /\ done(k) /\ UNCHANGED <<chain, hk, day, faults>>

\* WRITE-AHEAD: the record is "submitting" on disk before anything is sent.
begin_mint(k) ==
  /\ pc = "eth" /\ k \in todo /\ mem[k].state # "submitted"
  /\ mem[k].at <= safe /\ accounts /\ mem[k].amount # 0
  /\ write_state(k, "submitting")
  /\ pc' = "mint" /\ cur' = k /\ UNCHANGED <<todo, txid, sigs, safe, vault_paused, vault_remaining>>
  /\ UNCHANGED <<chain, hk, day, faults>>

\* What was sent was taken: the answer with its id arrives, or is lost.
answer(id) ==
  \/ /\ pc' = "sent" /\ txid' = id
     /\ UNCHANGED <<todo, cur, sigs, safe, vault_paused, vault_remaining, faults>>
  \/ /\ FaultsSoFar < MaxFaults /\ faults' = [faults EXCEPT !.lost[cur] = @ + 1]
     /\ goto("failed")

\* hk_submit: sign at the chain's nonce, save the account file, post.  The
\* mempool refuses a second transaction at a pending nonce; every failure,
\* a lost answer to an admitted mint too, reads "submit-failed".
hk_submit ==
  /\ pc = "mint"
  /\ \/ /\ \A m \in pending : m.nonce # nonce
        /\ pending' = pending \cup {[key |-> cur, nonce |-> nonce, amount |-> mem[cur].amount]}
        /\ answer(nonce)
     \/ /\ \E m \in pending : m.nonce = nonce
        /\ goto("failed") /\ UNCHANGED <<pending, faults>>
     \/ goto("failed") /\ UNCHANGED pending /\ Spend("abort")
  /\ UNCHANGED <<chain, nonce, receipts, minted, forgotten, burns, accounts, book, day>>

submit_failed ==
  /\ pc = "failed"
  /\ write_state(cur, "seen") /\ give_up
  /\ UNCHANGED <<chain, hk, day, faults>>

submitted ==
  /\ pc = "sent"
  /\ write(cur, [mem[cur] EXCEPT !.state = "submitted", !.tx = txid])
  /\ goto("wait") /\ UNCHANGED <<chain, hk, day, faults>>

\* hk_wait_receipt: the receipt, or "submitted" again on the next pass.
hk_wait_receipt ==
  /\ pc = "wait" /\ cur[1] \in EthKinds
  /\ \/ UNCHANGED book
     \/ \E r \in receipt_of(cur) : write_state(cur, IF r.ok THEN "confirmed" ELSE "rejected")
  /\ next_record("eth") /\ UNCHANGED <<chain, hk, day, faults>>

end_eth ==
  /\ pc = "eth" /\ todo = {}
  /\ goto("scan_hk") /\ UNCHANGED <<chain, hk, book, day, faults>>

BurnKey(i) == <<HkKind[burns[i].leg], i>>

\* A committed burn is recorded: unverified ones for review, those without an
\* Ethereum address as unbridgeable; a refused one is passed over.
record_hk_burn ==
  LET i == hk_cursor + 1
      class == receipt_class(burns[i]) IN
  /\ pc = "scan_hk" /\ i \in DOMAIN burns
  /\ class # "rejected" /\ ~has(BurnKey(i))
  /\ write(BurnKey(i), Record(IF class = "unknown" THEN "needs_review"
                              ELSE IF burns[i].bridgeable THEN "seen" ELSE "unbridgeable",
                              burns[i].amount, i, 0))
  /\ UNCHANGED <<chain, hk, stance, day, faults>>

\* Faulty variant: the cursor moves before the burn of its block is recorded.
scan_hk_Variant ==
  /\ pc = "scan_hk" /\ hk_cursor + 1 \in DOMAIN burns
  /\ hk_cursor' = hk_cursor + 1
  /\ UNCHANGED <<chain, hk, mem, disk, eth_cursor, stance, day, faults>>

scan_hk ==
  LET i == hk_cursor + 1 IN
  /\ pc = "scan_hk" /\ i \in DOMAIN burns
  /\ has(BurnKey(i)) \/ receipt_class(burns[i]) = "rejected"
  /\ hk_cursor' = i
  /\ UNCHANGED <<chain, hk, mem, disk, eth_cursor, stance, day, faults>>

HkToDo == {"seen", "queued_cap", "queued_paused", "submitted"}

\* The pass over the blocks ends at the height it read first, or after hk_batch.
\* process_hk_burns reads the pause and the room left today once, of the vault.
read_vault ==
  /\ pc = "scan_hk" /\ (hk_cursor + 1 \in DOMAIN burns => ~has(BurnKey(hk_cursor + 1)))
  /\ vault_paused' = contract["usdc"].paused
  /\ vault_remaining' = remainingToday("usdc")
  /\ pc' = "hk" /\ todo' = in_states(HkKinds, HkToDo)
  /\ UNCHANGED <<cur, txid, sigs, safe, chain, hk, book, day, faults>>

processed(k) == k[2] \in contract[LegOf(k)].processed

\* Already released, by a call whose answer was missed or by a co-operator.
already_released(k) ==
  /\ pc = "hk" /\ k \in todo /\ processed(k)
  /\ write_state(k, "confirmed") /\ done(k)
  /\ UNCHANGED <<chain, hk, day, faults>>

recheck_release(k) ==
  /\ pc = "hk" /\ k \in todo /\ ~processed(k) /\ mem[k].state = "submitted"
  /\ IF calls[mem[k].tx].status = "reverted" THEN write_state(k, "reverted") ELSE UNCHANGED book
  /\ done(k) /\ UNCHANGED <<chain, hk, day, faults>>

queue_burn(k) ==
  /\ pc = "hk" /\ k \in todo /\ ~processed(k) /\ mem[k].state # "submitted"
  /\ \/ vault_paused /\ write_state(k, "queued_paused")
     \/ ~vault_paused /\ mem[k].amount > vault_remaining /\ write_state(k, "queued_cap")
  /\ done(k) /\ UNCHANGED <<chain, hk, day, faults>>

\* cosign_one: a co-signer signs only what its own node shows, accepted and
\* with the same amount.
cosign_one(k) == LET b == burns[k[2]] IN
  /\ receipt_class(b) = "ok" /\ b.bridgeable
  /\ HkKind[b.leg] = k[1] /\ b.amount = mem[k].amount

\* attest: the service's own signature and those of the co-signers that answer.
attest(k) == {{Primary} \cup S : S \in IF cosign_one(k) THEN SUBSET Attestors ELSE {{}}}

\* The signatures are gathered, then the record is "submitting" on disk.
begin_release(k) ==
  /\ pc = "hk" /\ k \in todo /\ ~processed(k) /\ mem[k].state # "submitted"
  /\ ~vault_paused /\ mem[k].amount <= vault_remaining
  /\ sigs' \in attest(k) /\ write_state(k, "submitting")
  /\ pc' = "release" /\ cur' = k /\ UNCHANGED <<todo, txid, safe, vault_paused, vault_remaining>>
  /\ UNCHANGED <<chain, hk, day, faults>>

\* send_call: the gas estimate runs the call first, so one that would revert
\* now is not sent; the answer to one that was may be lost.
send_call ==
  LET c == [leg |-> LegOf(cur), id |-> cur[2], amount |-> mem[cur].amount,
            sigs |-> sigs, status |-> "pending", block |-> 0] IN
  /\ pc = "release"
  /\ \/ call_ok(c) /\ calls' = Append(calls, c) /\ answer(Len(calls) + 1)
     \/ ~call_ok(c) /\ goto("failed") /\ UNCHANGED <<calls, faults>>
     \/ goto("failed") /\ UNCHANGED calls /\ Spend("abort")
  /\ UNCHANGED <<head, events, contract, replaced, orphans, hk, book, day>>

wait_release ==
  /\ pc = "wait" /\ cur[1] \in HkKinds
  /\ LET status == calls[mem[cur].tx].status IN
     \/ UNCHANGED book
     \/ status = "ok" /\ write_state(cur, "confirmed")
     \/ status = "reverted" /\ write_state(cur, "reverted")
  /\ next_record("hk") /\ UNCHANGED <<chain, hk, day, faults>>

end_hk ==
  /\ pc = "hk" /\ todo = {}
  /\ goto("scan_eth") /\ UNCHANGED <<chain, hk, book, day, faults>>

\* A node does not answer a query: the tick ends with an error.
tick_error ==
  /\ pc \in {"eth", "scan_hk", "hk"} /\ Spend("abort")
  /\ give_up /\ UNCHANGED <<chain, hk, book, day>>

\* kill -9, at any instant.
Crash ==
  /\ pc # "down" /\ Spend("crash")
  /\ pc' = "down" /\ todo' = {} /\ cur' = <<>> /\ txid' = 0 /\ sigs' = {}
  /\ safe' = 0 /\ vault_paused' = FALSE /\ vault_remaining' = 0
  /\ UNCHANGED <<chain, hk, book, day>>

\* Ledger::open folds the file again.  It refuses a last line that the crash
\* tore: the service is down until the operator takes that line out, and nothing
\* was done on it.
Restart ==
  /\ pc = "down" /\ pc' = "scan_eth" /\ mem' = disk
  /\ UNCHANGED <<chain, hk, disk, eth_cursor, hk_cursor, todo, cur, txid, sigs, safe,
                 vault_paused, vault_remaining, day, faults>>

\* What health reports for an operator: never retried by the service itself.
NeedsReview == {"needs_review", "rejected", "reverted", "submitting"}

\* attest-ledger resolve: the operator looks at the chain, then appends to the
\* file of the stopped service.
resolve(k) ==
  /\ pc = "down" /\ disk[k].state \in NeedsReview
  /\ IF k[1] \in EthKinds
     THEN \/ minted[k] > 0 /\ disk' = [disk EXCEPT ![k].state = "confirmed"]
          \/ minted[k] = 0 /\ (\A m \in pending : m.key # k) /\ disk[k].amount # 0
             /\ disk' = [disk EXCEPT ![k].state = "seen"]
     ELSE \/ processed(k) /\ disk' = [disk EXCEPT ![k].state = "confirmed"]
          \/ ~processed(k) /\ burns[k[2]].accepted /\ burns[k[2]].bridgeable
             /\ disk' = [disk EXCEPT ![k].state = "seen"]
  /\ UNCHANGED <<chain, hk, mem, eth_cursor, hk_cursor, stance, day, faults>>

----------------------------------------------------------------------------

Users ==
  \/ \E l \in Legs, a \in Amounts : Lock(l, a)
  \/ \E l \in Legs, a \in Amounts, b, ok \in BOOLEAN : HkBurn(l, a, b, ok)
  \/ CreateAccount

Chains ==
  \/ EthBlock \/ NewDay \/ Reorg \/ ForgetReceipts
  \/ \E l \in Legs : Pause(l) \/ Unpause(l)
  \/ \E i \in DOMAIN calls : Include(i)
  \/ \E m \in pending, ok \in BOOLEAN : CommitMint(m, ok)

Service ==
  \/ \E e \in events : record_eth_event(e)
  \/ \E k \in todo : \/ recheck_mint(k) \/ hold_deposit(k) \/ begin_mint(k)
                     \/ already_released(k) \/ recheck_release(k)
                     \/ queue_burn(k) \/ begin_release(k)
  \/ scan_eth \/ hk_submit \/ submit_failed \/ submitted \/ hk_wait_receipt \/ end_eth
  \/ record_hk_burn \/ scan_hk \/ read_vault \/ send_call
  \/ wait_release \/ end_hk

Next == \/ Users \/ Chains \/ Service
        \/ tick_error \/ Crash \/ Restart \/ \E k \in Keys : resolve(k)

Spec == Init /\ [][Next]_vars

----------------------------------------------------------------------------
(* Properties.                                                             *)

States == {"none", "seen", "held_recipient", "needs_review", "submitting", "submitted",
           "confirmed", "rejected", "reverted", "unbridgeable", "queued_cap", "queued_paused"}

\* The ledger in memory and in the file, the two cursors and the counters of
\* both chains have the types attest.rs and the contracts give them.
BridgeTypeOK ==
  /\ \A k \in Keys : mem[k].state \in States /\ disk[k].state \in States
  /\ eth_cursor \in 0..MaxHead /\ hk_cursor \in 0..Len(burns)
  /\ \A l \in Legs : contract[l].tokens \in Nat /\ contract[l].used \in Nat
                      /\ circulating(l) \in Nat
  /\ todo \subseteq Keys /\ nonce \in Nat

\* "That is what makes `kill -9` at any instant unable to double-mint or
\* double-unlock" (attest.rs): a deposit is minted once, however often the service crashes, is refused, or
\* is told by its operator to try again, and once more only for each answer
\* to an admitted mint that was lost on the way back.
OneMintPerDeposit == \A k \in Keys : minted[k] <= 1 + faults.lost[k]

\* A release pays an accepted burn, its amount, under enough signatures, and
\* pays it once, though calls are sent again after a crash or a lost answer.
ReleasesMatchBurns ==
  \A i \in DOMAIN calls : calls[i].status = "ok" =>
    /\ LET b == burns[calls[i].id] IN
       b.accepted /\ b.bridgeable /\ b.leg = calls[i].leg /\ b.amount = calls[i].amount
    /\ \A j \in DOMAIN calls :
         (calls[j].status = "ok" /\ calls[j].leg = calls[i].leg /\ calls[j].id = calls[i].id) => j = i

\* A mint pays a deposit that is on the Ethereum chain, its amount, and no other:
\* unless a fork took the deposit back after the ledger had it (orphans).  The
\* service records events up to the head, never looks again, and mints those too.
MintsMatchLocks ==
  \A r \in receipts : r.ok /\ r.key \notin orphans =>
    \E e \in events : e.key = r.key /\ e.amount = r.amount

\* The file tells what happened.  Nothing the cursors have passed is missing
\* from it, but for what a fork put into a block that they had passed before: a
\* crash between a record and the cursor cannot lose a deposit or a burn.  And
\* what it calls confirmed is done: the mint on HashKinetics, the release on
\* Ethereum, unless a fork took that back.
LedgerIsTrue ==
  /\ BridgeTypeOK
  /\ \A e \in events : e.block <= eth_cursor => e.block \in replaced \/ disk[e.key].state # "none"
  /\ \A i \in 1..hk_cursor : burns[i].accepted => disk[BurnKey(i)].state # "none"
  /\ \A k \in Keys : disk[k].state = "confirmed" =>
       IF k[1] \in EthKinds THEN minted[k] > 0 ELSE k \in orphans \/ processed(k)

PendingDeposits == {"seen", "held_recipient", "submitting", "submitted", "rejected", "needs_review"}
\* Faulty variant: a burn without a usable destination is left out.
PendingBurns_Variant == {"seen", "queued_cap", "queued_paused", "submitting", "submitted",
                         "reverted", "needs_review"}
PendingBurns == {"seen", "queued_cap", "queued_paused", "submitting", "submitted",
                 "unbridgeable", "reverted", "needs_review"}

\* reconcile: the vault's reserves against what circulates and what is under way.
reconciled_ok ==
  contract["usdc"].tokens = circulating("usdc") + amount_of(in_states({"deposit"}, PendingDeposits))
                            + amount_of(in_states({"burn"}, PendingBurns))

\* Both scans have caught up and nothing sent has landed behind the ledger's back.
Settled ==
  /\ unscanned = {} /\ hk_cursor = Len(burns) /\ pc = "scan_eth" /\ mem = disk
  /\ \A k \in Keys : mem[k].state # "confirmed" =>
       IF k[1] \in EthKinds THEN minted[k] = 0 ELSE ~processed(k)
  /\ \A i \in 1..hk_cursor : ~burns[i].accepted => ~has(BurnKey(i))

\* The reconciliation raises no false alarm: at rest, with no refused burn held
\* and no mint unconfirmed for want of a receipt, the reserves are exactly what
\* it expects, unless an answer was lost or a block replaced.
ReconcileExact ==
  (Settled /\ faults.reorg = 0 /\ \A k \in Keys : faults.lost[k] = 0) => reconciled_ok

\* "never entered the mempool (the nonce was rolled back) - safe to retry
\* later" (attest.rs): after any failed submission the retry is the only mint.
NeverMintsTwice == \A k \in Keys : minted[k] <= 1
=============================================================================
