----------------------------- MODULE FaucetState -----------------------------
(***************************************************************************)
(* The state of the public faucet (faucet.rs FaucetState, its handlers and *)
(* what it sees of the node) and what must hold of it.  Faucet.tla has the *)
(* handlers' steps.                                                        *)
(***************************************************************************)
EXTENDS Integers, FiniteSets

CONSTANTS Threads,               \* concurrent handlers
          Ips,                   \* callers (cooldown_key: an IPv4 address, an IPv6 /64)
          Balance, Float,        \* what the account holds: native, and of the issued asset
          Reserve, Fee,          \* reserve_micro; a transaction's fee.  Every drip is 1
          DailyCap,
          MaxRequests, MaxTime, MaxFaults    \* bounds of the run

ASSUME FaucetAssumption ==
  /\ {Balance, Float, Reserve, Fee, DailyCap, MaxRequests, MaxTime, MaxFaults} \subseteq Nat
  /\ IsFiniteSet(Threads)

VARIABLES
  now, requests,                    \* the clock; requests so far
  exists, balance, float, nonce,    \* the chain: the target account, the faucet's account
  pending, receipts,                \* the node: the faucet's transactions, the last receipt per txid
  next_nonce, lock,                 \* the wallet behind the signer's lock, and who holds it
  last_drip, saved, daily,          \* the stamps, in memory and on disk; <<day, count>>
  pc, req, tx,                      \* per thread: where it is, what was asked, what it signed
  faults,
  unsaved,                          \* history: the stamps changed since the last save that worked
  served, lost, slips               \* history: accepted drips; see the properties

Assets   == {"native", "issued"}
CoolKeys == Ips \X Assets                         \* the cooldown's key
Day      == 2
None     == -10

key(r) == <<r.ip, r.asset>>

receipt(x) == {r.ok : r \in {q \in receipts : q.tx = x}}
mine(t) == {p \in pending : p.tx = tx[t] /\ p.at = req[t].at /\ p.key = key(req[t])}

----------------------------------------------------------------------------
(* Properties.                                                             *)

\* The clocks, counters and stamps of FaucetState; the day's count is a u32,
\* which undo_stamp saturates, and stays within the cap.
FaucetTypeOK ==
  /\ next_nonce \in Nat /\ nonce \in Nat /\ balance \in Nat /\ float \in Nat
  /\ daily[1] \in Nat /\ daily[2] \in 0..DailyCap
  /\ lock \subseteq Threads
  /\ \A t \in Threads : pc[t] \in {"idle", "parse", "floor", "sign", "submit", "poll"}
  /\ \A k \in CoolKeys : last_drip[k] \in {None} \cup 0..now /\ saved[k] \in {None} \cup 0..now

\* The ratchet that every handler moves and takes back is never lost track of:
\* it is ahead of the chain by the drips pending, the one being submitted and
\* the refusals not yet seen, so it comes home when they are over.  What breaks
\* the account (slips) is a lost answer, a receipt of an earlier attempt, a
\* refusal after the handler gave up waiting, or a restart with drips pending.
RatchetInStep ==
  /\ FaucetTypeOK
  /\ slips = 0 =>
    next_nonce = nonce + Cardinality(pending) + Cardinality(lock)
                 + Cardinality({t \in Threads : pc[t] = "poll" /\ FALSE \in receipt(tx[t])
                                                 /\ mine(t) = {}})

\* A caller receives one drip of an asset in a cooldown, through restarts and
\* whatever other callers do.  It may receive another (lost) when a drip of its
\* was admitted while the handler took it for refused, or when the process is
\* restarted after a save_cooldowns that failed, or with a file it cannot read.
OneDripPerWindow ==
  \A a, b \in served :
    (a.nonce # b.nonce /\ a.key = b.key /\ a.at <= b.at /\ b.at - a.at < Day) => a.key \in lost

=============================================================================
