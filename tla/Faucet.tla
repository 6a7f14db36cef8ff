------------------------------- MODULE Faucet -------------------------------
(***************************************************************************)
(* The public faucet (`hk-node faucet`, faucet.rs): one account whose      *)
(* ratchet every request handler shares.                                   *)
(*                                                                         *)
(* A handler is a thread.  It stamps the caller's cooldown and the day's   *)
(* count, finds out whether the target exists, looks at the balance, then  *)
(* signs and submits under the signer's lock and waits for a receipt.      *)
(* What fails on the way takes the stamp back, and what fails after the    *)
(* signature takes the ratchet back one step.                              *)
(*                                                                         *)
(* Time passes in half days: a cooldown and a day are both Day ticks.  A   *)
(* handler ends within a tick.  The node is seen through its door          *)
(* (Mempool.tla) and its receipts; one target account stands for all.      *)
(***************************************************************************)
EXTENDS Integers, FiniteSets, FaucetState

chainv == <<exists, balance, float, nonce>>
node   == <<pending, receipts>>
stamps == <<last_drip, saved, daily, unsaved>>
hist   == <<served, lost, slips>>
vars == <<now, requests, chainv, node, next_nonce, lock, stamps, pc, req, tx, faults, hist>>

Names == {"auth_commit", "account", "bad"} \* what the body names
today == now \div Day

Spend == faults < MaxFaults /\ faults' = faults + 1

Init ==
  /\ now = 0 /\ requests = 0
  /\ exists \in BOOLEAN /\ balance = Balance /\ float = Float /\ nonce = 0
  /\ pending = {} /\ receipts = {}
  /\ next_nonce = 0 /\ lock = {}
  /\ last_drip = [k \in CoolKeys |-> None] /\ saved = last_drip /\ daily = <<0, 0>>
  /\ pc = [t \in Threads |-> "idle"]
  /\ req = [t \in Threads |-> <<>>] /\ tx = [t \in Threads |-> <<>>]
  /\ faults = 0 /\ unsaved = {} /\ served = {} /\ lost = {} /\ slips = 0

----------------------------------------------------------------------------
(* The stamps.                                                             *)

counted == IF daily[1] = today THEN daily[2] ELSE 0

\* The whole map is written, or not: a failure is only logged.  other: what else
\* fails in the step.
save_cooldowns(k, other) ==
  \E failed \in {0, 1} :
    /\ faults' = faults + other + failed /\ faults' <= MaxFaults
    /\ saved' = IF failed = 1 THEN saved ELSE last_drip'
    /\ unsaved' = IF failed = 1 THEN unsaved \cup {k} ELSE {}

\* Faulty variant: the stamp is written only in memory.
stamp_Variant(t, r) ==
  /\ last_drip' = [last_drip EXCEPT ![key(r)] = now] /\ UNCHANGED <<saved, unsaved, faults>>
  /\ daily' = <<today, counted + 1>>

\* Both are taken, and the cooldowns saved, before anything is looked at.
stamp(t, r) ==
  /\ last_drip' = [last_drip EXCEPT ![key(r)] = now] /\ save_cooldowns(key(r), 0)
  /\ daily' = <<today, counted + 1>>

over_cap == counted >= DailyCap

\* The cap is looked at first, then the caller's cooldown.
rate_limit(t, r) ==
  /\ pc[t] = "idle" /\ requests < MaxRequests /\ requests' = requests + 1
  /\ IF over_cap \/ now - last_drip[key(r)] < Day
     THEN /\ daily' = <<today, counted>>
          /\ UNCHANGED <<last_drip, saved, unsaved, pc, req, faults>>
     ELSE /\ stamp(t, r)
          /\ pc' = [pc EXCEPT ![t] = "parse"] /\ req' = [req EXCEPT ![t] = r]
  /\ UNCHANGED <<now, chainv, node, next_nonce, lock, tx, hist>>

\* The caller's stamp goes, and one of whatever day is being counted now.
undo_stamp(t, other) ==
  /\ last_drip' = [last_drip EXCEPT ![key(req[t])] = None] /\ save_cooldowns(key(req[t]), other)
  /\ daily' = <<daily[1], IF daily[2] = 0 THEN 0 ELSE daily[2] - 1>>

goto(t, l) == pc' = [pc EXCEPT ![t] = l]
finish(t) == /\ goto(t, "idle") /\ req' = [req EXCEPT ![t] = <<>>] /\ tx' = [tx EXCEPT ![t] = <<>>]

----------------------------------------------------------------------------
(* The handler.                                                            *)

\* The target: only a native drip for an auth_commit creates an account.
parse_target(t) ==
  LET r == req[t] IN
  /\ pc[t] = "parse"
  /\ IF \/ r.name = "bad"
        \/ ~exists /\ (r.name = "account" \/ r.asset # "native")
     THEN undo_stamp(t, 0) /\ finish(t)
     ELSE /\ goto(t, "floor") /\ UNCHANGED <<stamps, req, faults>>
          /\ tx' = [tx EXCEPT ![t] = [kind |-> IF exists THEN "Transfer" ELSE "AccountCreate",
                                      asset |-> r.asset]]
  /\ UNCHANGED <<now, requests, chainv, node, next_nonce, lock, hist>>

\* The native balance pays every fee, and the native drips.
need(r) == IF r.asset = "native" THEN Reserve + 1 ELSE Reserve

\* K3, the reserve floor, on the balances as the chain has them now.
reserve_floor(t) ==
  /\ pc[t] = "floor"
  /\ IF balance < need(req[t]) \/ (req[t].asset = "issued" /\ float < 1)
     THEN undo_stamp(t, 0) /\ finish(t)
     ELSE /\ goto(t, "sign") /\ UNCHANGED <<stamps, req, tx, faults>>
  /\ UNCHANGED <<now, requests, chainv, node, next_nonce, lock, hist>>

\* Under the signer's lock: the ratchet moves and the file is saved; if that
\* fails, both are taken back.
sign(t) ==
  /\ pc[t] = "sign" /\ lock = {}
  /\ \/ /\ lock' = {t} /\ next_nonce' = next_nonce + 1
        /\ tx' = [tx EXCEPT ![t] = [nonce |-> next_nonce, kind |-> tx[t].kind, asset |-> tx[t].asset]]
        /\ goto(t, "submit") /\ UNCHANGED <<stamps, req, faults>>
     \/ /\ undo_stamp(t, 1) /\ finish(t) /\ UNCHANGED <<lock, next_nonce>>
  /\ UNCHANGED <<now, requests, chainv, node, hist>>

\* What the node's door asks of a transaction (Mempool.tla, admit_gated).
door(x) ==
  /\ \A p \in pending : p.tx.nonce # x.nonce
  /\ x.nonce = nonce \/ \E p \in pending : p.tx.nonce = x.nonce - 1
  /\ x.nonce >= nonce

\* Still under the lock: submitted, or taken back.  A lost answer to an
\* admitted drip also reads "submit-failed".
submit(t) ==
  LET p == [tx |-> tx[t], key |-> key(req[t]), at |-> req[t].at] IN
  /\ pc[t] = "submit" /\ lock' = {}
  /\ \/ /\ door(tx[t]) /\ pending' = pending \cup {p}
        /\ goto(t, "poll")
        /\ UNCHANGED <<next_nonce, stamps, req, tx, faults, lost, slips>>
     \/ /\ door(tx[t]) /\ pending' = pending \cup {p}
        /\ next_nonce' = next_nonce - 1 /\ undo_stamp(t, 1) /\ finish(t)
        /\ lost' = lost \cup {p.key} /\ slips' = slips + 1
     \/ /\ ~door(tx[t]) /\ next_nonce' = next_nonce - 1 /\ undo_stamp(t, 0) /\ finish(t)
        /\ UNCHANGED <<pending, lost, slips>>
  /\ UNCHANGED <<now, requests, chainv, receipts, served>>

\* Faulty variant: the ratchet is set back to the refused transaction.
poll_rejected_Variant(t) ==
  /\ pc[t] = "poll" /\ FALSE \in receipt(tx[t]) /\ lock = {}
  /\ next_nonce' = tx[t].nonce /\ undo_stamp(t, 0) /\ finish(t)
  /\ lost' = (IF mine(t) = {} THEN lost ELSE lost \cup {key(req[t])})
  /\ slips' = slips + Cardinality(mine(t))
  /\ UNCHANGED <<now, requests, chainv, node, lock, served>>

\* A "rejected" receipt takes the ratchet back one step.  A retry of the same
\* drip at the same index has the txid of the one refused before it, and may
\* find that one's receipt.
poll_rejected(t) ==
  /\ pc[t] = "poll" /\ FALSE \in receipt(tx[t]) /\ lock = {}
  /\ next_nonce' = next_nonce - 1 /\ undo_stamp(t, 0) /\ finish(t)
  /\ lost' = (IF mine(t) = {} THEN lost ELSE lost \cup {key(req[t])})
  /\ slips' = slips + Cardinality(mine(t))
  /\ UNCHANGED <<now, requests, chainv, node, lock, served>>

\* 200 with a receipt, 202 when none came in time.
poll_done(t) ==
  /\ pc[t] = "poll"
  /\ \/ receipt(tx[t]) = {TRUE} /\ UNCHANGED faults
     \/ receipt(tx[t]) = {} /\ Spend
  /\ finish(t)
  /\ UNCHANGED <<now, requests, chainv, node, next_nonce, lock, stamps, hist>>

----------------------------------------------------------------------------
(* The chain, the clock, the operator.                                     *)

can_apply(x) ==
  /\ x.nonce = nonce
  /\ x.kind = "AccountCreate" => ~exists
  /\ balance >= Fee + (IF x.asset = "native" THEN 1 ELSE 0)
  /\ x.asset = "issued" => float >= 1

\* A block takes the first of the pending drips; refused ones get a receipt too.
Commit ==
  \E p \in pending :
    /\ \A q \in pending : p.tx.nonce <= q.tx.nonce
    /\ pending' = pending \ {p}
    /\ receipts' = {r \in receipts : r.tx # p.tx} \cup {[tx |-> p.tx, ok |-> can_apply(p.tx)]}
    /\ IF can_apply(p.tx)
       THEN /\ nonce' = nonce + 1 /\ exists' = TRUE
            /\ balance' = balance - Fee - (IF p.tx.asset = "native" THEN 1 ELSE 0)
            /\ float' = float - (IF p.tx.asset = "issued" THEN 1 ELSE 0)
            /\ served' = served \cup {[key |-> p.key, at |-> p.at, nonce |-> p.tx.nonce]}
            /\ UNCHANGED slips
       ELSE /\ UNCHANGED <<chainv, served>>
            /\ slips' = slips + (IF \E t \in Threads : pc[t] = "poll" /\ tx[t] = p.tx THEN 0 ELSE 1)
    /\ UNCHANGED <<now, requests, next_nonce, lock, stamps, pc, req, tx, faults, lost>>

Tick ==
  /\ now < MaxTime /\ now' = now + 1
  /\ \A t \in Threads : pc[t] # "idle" => req[t].at = now
  /\ UNCHANGED <<requests, chainv, node, next_nonce, lock, stamps, pc, req, tx, faults, hist>>

\* The cold wallet sends one drip and its fee.
Refill ==
  /\ Spend /\ balance' = balance + 1 + Fee
  /\ UNCHANGED <<now, requests, exists, float, nonce, node, next_nonce, lock, stamps, pc, req, tx, hist>>

\* The process dies and is started again: serve takes the chain's nonce and
\* loads the cooldowns still open, none of a file it cannot read (it is renamed
\* without a sync); the day's count starts at zero.
Restart(readable) ==
  LET file == [k \in CoolKeys |-> IF readable THEN saved[k] ELSE None] IN
  /\ Spend
  /\ next_nonce' = nonce /\ lock' = {}
  /\ last_drip' = [k \in CoolKeys |-> IF now - file[k] < Day THEN file[k] ELSE None]
  /\ saved' = file /\ daily' = <<0, 0>> /\ unsaved' = {}
  /\ pc' = [t \in Threads |-> "idle"]
  /\ req' = [t \in Threads |-> <<>>] /\ tx' = [t \in Threads |-> <<>>]
  /\ slips' = slips + Cardinality(pending)
  /\ lost' = lost \cup unsaved \cup {k \in CoolKeys : saved[k] # file[k]}
  /\ UNCHANGED <<now, requests, chainv, node, served>>

Requests == [ip : Ips, asset : Assets, name : Names, at : {now}]

Handler(t) == \/ \E r \in Requests : rate_limit(t, r)
              \/ parse_target(t) \/ reserve_floor(t) \/ sign(t) \/ submit(t)
              \/ poll_rejected(t) \/ poll_done(t)

Next == (\E t \in Threads : Handler(t)) \/ Commit \/ Tick \/ Refill \/ \E readable \in BOOLEAN : Restart(readable)
Spec == Init /\ [][Next]_vars

=============================================================================
