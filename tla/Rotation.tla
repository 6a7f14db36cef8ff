------------------------------ MODULE Rotation ------------------------------
(***************************************************************************)
(* How a validator renews its operational key before the one-time leaves   *)
(* of the tree run out (hk-node state.rs, rpc.rs): the two triggers that   *)
(* issue a root-signed certificate, the queues it waits in, its way to     *)
(* other nodes' proposals and into a block, and the operator's own         *)
(* certificates.  What a certificate does to a set is ValidatorSet.tla's.  *)
(*                                                                         *)
(* One seat, "me", runs out of leaves; "peer" stands for the rest of the   *)
(* network, which can decide without it.  The peer commits what it decides *)
(* at once, "me" after a while.  Every certificate is of the v2 domain.    *)
(***************************************************************************)
EXTENDS RotationState, SequencesExt

vars == <<seat, behind, me, tick, gauge, leaves, foreign, pending_set_changes, rpc,
          faults, refused, readmitted>>

Issue(e, lag) == [epoch |-> e, age |-> IF lag > Horizon THEN Horizon + 1 ELSE lag]
NoCert == [epoch |-> 0, age |-> 0]
request(kind, c, from) == [kind |-> kind, cert |-> c, stage |-> "sent", from |-> from]

Init ==
  /\ seat = 0 /\ behind = <<>>
  /\ me = [seat |-> 0, epoch |-> 0, highest |-> 0, last |-> "none", pending |-> <<>>, signer |-> 0]
  /\ tick = [on |-> TRUE, highest |-> 0, last |-> "none"]
  /\ leaves = [e \in 0..MaxEpoch |-> PerTree] /\ gauge = <<0, PerTree>>
  /\ foreign = [n \in Parties |-> <<>>] /\ pending_set_changes = <<>>
  /\ rpc = {}
  /\ faults = 0 /\ refused = FALSE /\ readmitted = FALSE

Max2(a, b) == IF a > b THEN a ELSE b

-----------------------------------------------------------------------------
(* What a certificate does to the seat.                                    *)

\* At the next height: seated, a newer epoch, inside the freshness window.
rotation_ok(s, c) == s # Out /\ c.epoch > s /\ c.age < Horizon

rotated(s, c) == IF rotation_ok(s, c) THEN c.epoch ELSE s
takes_effect(s, ch) == IF ch = "admit" THEN s = Out ELSE s # Out
changed(s, ch) == IF ~takes_effect(s, ch) THEN s ELSE IF ch = "admit" THEN 0 ELSE Out

\* Rotations first, then set changes, each against what the one before left.
rotate_all(s, q) == FoldLeft(rotated, s, q)
change_all(s, q) == FoldLeft(changed, s, q)
seat_after(s, b) == change_all(rotate_all(s, b.rotations), b.set_changes)

\* Vec::retain: what is in K stays, in its order.
retain(q, K) == FoldLeft(LAMBDA kept, x : IF x \in K THEN Append(kept, x) ELSE kept, <<>>, q)
newer(q, e) == retain(q, {x \in Range(q) : x.epoch > e})

\* A committed certificate retires the queued ones of its epoch and below.
retired(st, c) == IF rotation_ok(st[1], c) THEN <<c.epoch, newer(st[2], c.epoch)>> ELSE st
retire_all(q, s, cs) == FoldLeft(retired, <<s, q>>, cs)
retire(q, s, b) == retire_all(q, s, b.rotations)[2]

-----------------------------------------------------------------------------
(* Issuing.                                                                *)

\* Faulty variant: a previous issue holds the trigger for ever (before R9).
rotation_due_Once(remaining, mine_pending, next, highest, stale) ==
  remaining < Threshold /\ ~mine_pending /\ next > highest

\* R9: the guards hold only while the last issue is fresh.
rotation_due(remaining, mine_pending, next, highest, stale) ==
  remaining < Threshold /\ ((~mine_pending /\ next > highest) \/ stale)

\* Faulty variant: this node's signer is not moved with its seat.
follow_Never(m, b) == [m EXCEPT !.seat = seat_after(m.seat, b), !.pending = retire(@, m.seat, b)]

\* apply_rotations and apply_set_changes on this node: the owner of the root
\* follows with its live signer, never to an epoch it has left behind.
rotate(n, c) ==
  IF ~rotation_ok(n.seat, c) THEN n
  ELSE [n EXCEPT !.seat = c.epoch, !.epoch = Max2(@, c.epoch),
                 !.signer = IF c.epoch > n.epoch THEN c.epoch ELSE @,
                 !.pending = newer(@, c.epoch)]

follow_all(m, q) == FoldLeft(rotate, m, q)
follow(m, b) ==
  LET n == follow_all(m, b.rotations) IN [n EXCEPT !.seat = change_all(@, b.set_changes)]

\* The trigger at the end of commit; a re-issue replaces what it renews.
issue_on_commit(m, lag) ==
  LET next == m.epoch + 1 IN
  IF /\ next <= MaxEpoch
     /\ rotation_due(leaves[m.signer], m.pending # <<>>, next, m.highest, m.last # "fresh")
  THEN [m EXCEPT !.highest = Max2(@, next), !.last = "fresh",
                 !.pending = Append(newer(@, next), Issue(next, lag))]
  ELSE m

\* "me" commits the next block it has received or synced.
Commit ==
  /\ behind # <<>>
  /\ \E b \in {Head(behind)}, m \in {follow(me, Head(behind))} :
     /\ me' = issue_on_commit(m, Len(behind) - 1)
     /\ gauge' = <<m.epoch, leaves[m.signer]>>
     /\ foreign' = [foreign EXCEPT !["me"] = retire(@, me.seat, b)]
     /\ readmitted' = (readmitted \/ ("admit" \in Range(b.set_changes) /\ m.epoch # 0))
  /\ behind' = Tail(behind)
  /\ UNCHANGED <<seat, tick, leaves, pending_set_changes, rpc, faults, refused>>

\* Every minute, once the last push is over: the certificate goes to this
\* node's own queue and is pushed to the peers, best effort.
TickIssue(delivered) ==
  LET epoch == gauge[1]
      next == epoch + 1
      highest == Max2(tick.highest, epoch)
      c == Issue(next, Len(behind)) IN
  /\ tick.on /\ next <= MaxEpoch /\ \A r \in rpc : r.from # "tick"
  /\ rotation_due(gauge[2], \E i \in DOMAIN foreign["me"] : foreign["me"][i].epoch >= next,
                  next, highest, tick.last # "fresh")
  /\ tick' = [tick EXCEPT !.highest = Max2(highest, next), !.last = "fresh"]
  /\ foreign' = [foreign EXCEPT !["me"] = Append(newer(@, next), c)]
  /\ rpc' = IF delivered THEN rpc \cup {request("rotation", c, "tick")} ELSE rpc
  /\ UNCHANGED <<seat, behind, me, gauge, leaves, pending_set_changes, faults, refused, readmitted>>

\* REISSUE_AFTER has passed since the last issue.
Stale ==
  /\ me.last = "fresh" \/ tick.last = "fresh"
  /\ me' = [me EXCEPT !.last = IF @ = "fresh" THEN "stale" ELSE @]
  /\ tick' = [tick EXCEPT !.last = IF @ = "fresh" THEN "stale" ELSE @]
  /\ UNCHANGED <<seat, behind, gauge, leaves, foreign, pending_set_changes, rpc, faults,
                 refused, readmitted>>

\* "me" votes at the tip (it abstains while behind), block or no block.
Vote ==
  /\ behind = <<>> /\ me.signer < MaxEpoch /\ leaves[me.signer] > 0
  /\ leaves' = [leaves EXCEPT ![me.signer] = @ - 1]
  /\ UNCHANGED <<seat, behind, me, tick, gauge, foreign, pending_set_changes, rpc, faults,
                 refused, readmitted>>

-----------------------------------------------------------------------------
(* The operator's submits at the peer.                                     *)

\* `issue-rotation`, for the next epoch or the one after, and `set-change`.
Operator(r) ==
  /\ faults < MaxFaults /\ faults' = faults + 1
  /\ rpc' = rpc \cup {r}
  /\ UNCHANGED <<seat, behind, me, tick, gauge, leaves, foreign, pending_set_changes, refused,
                 readmitted>>

\* The free checks.  The window of a rotation is judged once, at the tip the
\* request arrived at.
rotation_preflight(c) ==
  /\ seat # Out /\ c.epoch > seat
  /\ \A i \in DOMAIN foreign["peer"] : foreign["peer"][i].epoch < c.epoch
set_change_preflight(ch) ==
  takes_effect(seat, ch) /\ \A i \in DOMAIN pending_set_changes : pending_set_changes[i].kind # ch
preflight(r) == IF r.kind = "rotation" THEN rotation_preflight(r.cert) ELSE set_change_preflight(r.kind)

\* The request arrives, perhaps again later: refused, already queued, busy, or
\* on to the root signature with no lock held.
Receive(r) ==
  /\ r.stage = "sent"
  /\ LET go == /\ preflight(r) /\ (r.kind = "rotation" => r.cert.age < Horizon)
               /\ Cardinality(verifying) < Slots
         more == IF go THEN {[r EXCEPT !.stage = "verifying"]} ELSE {} IN
     \/ rpc' = (rpc \ {r}) \cup more /\ UNCHANGED faults
     \/ /\ faults < MaxFaults /\ faults' = faults + 1
        /\ rpc' = (rpc \ {r}) \cup more \cup {[r EXCEPT !.from = "again"]}
  /\ UNCHANGED <<seat, behind, me, tick, gauge, leaves, foreign, pending_set_changes, refused,
                 readmitted>>

\* Verified: the set and the queue may have moved, so the free checks again;
\* a newer certificate retires an older one.
Queue(r) ==
  /\ r.stage = "verifying" /\ rpc' = rpc \ {r}
  /\ \/ ~preflight(r) /\ UNCHANGED <<foreign, pending_set_changes>>
     \/ /\ preflight(r) /\ r.kind = "rotation"
        /\ foreign' = [foreign EXCEPT !["peer"] =
                         Append(newer(@, r.cert.epoch - 1), r.cert)]
        /\ UNCHANGED pending_set_changes
     \/ /\ preflight(r) /\ r.kind # "rotation"
        /\ \E w \in {"early", "open"} :
             pending_set_changes' = Append(pending_set_changes, [kind |-> r.kind, window |-> w])
        /\ UNCHANGED foreign
  /\ UNCHANGED <<seat, behind, me, tick, gauge, leaves, faults, refused, readmitted>>

\* The tip comes to the window of a queued set change, or leaves it.
Window(i) ==
  /\ pending_set_changes[i].window # "closed"
  /\ pending_set_changes' =
       [pending_set_changes EXCEPT ![i].window = IF @ = "early" THEN "open" ELSE "closed"]
  /\ UNCHANGED <<seat, behind, me, tick, gauge, leaves, foreign, rpc, faults, refused, readmitted>>

-----------------------------------------------------------------------------
(* Proposing and deciding.                                                 *)

\* Faulty variant: what was checked when it was queued is not looked at again.
carried_AsQueued(n) == foreign[n]

\* build_batch: a queued certificate that does not hold at this height any
\* more is dropped.
carried(n) == retain(foreign[n], {c \in Range(foreign[n]) : rotation_ok(seat, c)})

due_change(c) == c.window = "open" /\ takes_effect(seat, c.kind)
keep_change(c) == c.window = "early" \/ due_change(c)
kinds(q) == [i \in DOMAIN q |-> q[i].kind]

\* The node's own certificates ride as issued, and the queued ones that they
\* do not cover; of the set changes those in their window that do something.
build_batch(n, queued) ==
  LET own == IF n = "me" THEN me.pending ELSE <<>>
      covered == {c \in Range(queued) : \E i \in DOMAIN own : own[i].epoch >= c.epoch}
      due == {c \in Range(pending_set_changes) : due_change(c)} IN
  [rotations   |-> own \o retain(queued, Range(queued) \ covered),
   set_changes |-> IF n = "me" THEN <<>> ELSE kinds(retain(pending_set_changes, due))]

\* "me" proposes at the tip, with the key the set knows and a leaf to sign with.
can_propose(n) ==
  n = "me" => behind = <<>> /\ seat # Out /\ me.signer = seat /\ leaves[me.signer] > 0

kept_changes(n) ==
  IF n = "me" THEN pending_set_changes
  ELSE retain(pending_set_changes, {c \in Range(pending_set_changes) : keep_change(c)})

\* A proposal that is not decided only cleans the proposer's queues.
LostRound(n) ==
  /\ can_propose(n)
  /\ foreign' = [foreign EXCEPT ![n] = carried(n)]
  /\ pending_set_changes' = kept_changes(n)
  /\ UNCHANGED <<seat, behind, me, tick, gauge, leaves, rpc, faults, refused, readmitted>>

older(c) == [c EXCEPT !.age = IF @ > Horizon THEN @ ELSE @ + 1]
olderSeq(s) == [i \in DOMAIN s |-> older(s[i])]

\* The horizon is a day and a half: only what is delivered once more reaches
\* the peer when its window is over.
in_time == \A r \in rpc : (r.kind = "rotation" /\ r.from # "again") => r.cert.age < Horizon - 1

\* A certificate of a block holds when the block's earlier ones were applied.
applied(s, q, c) ==
  rotation_ok(rotate_all(s, retain(q, {x \in Range(q) : x.epoch < c.epoch})), c)

uncommitted(q, b) == retain(q, {c \in Range(q) : c.kind \notin Range(b.set_changes)})

\* n's proposal is decided; the peer commits it; every certificate is a height older.
Decide(n) ==
  /\ can_propose(n) /\ Len(behind) < MaxLag /\ in_time
  /\ \E q \in {carried(n)} : \E b \in {build_batch(n, q)} :
     /\ seat' = seat_after(seat, b)
     /\ behind' = Append(behind, b)
     /\ refused' = \/ refused
                   \/ \E c \in Range(q) \cap Range(b.rotations) : ~applied(seat, b.rotations, c)
     /\ foreign' = [foreign EXCEPT
                      !["peer"] = olderSeq(retire(IF n = "peer" THEN q ELSE @, seat, b)),
                      !["me"] = olderSeq(IF n = "me" THEN q ELSE @)]
     /\ pending_set_changes' = uncommitted(kept_changes(n), b)
  /\ me' = [me EXCEPT !.pending = olderSeq(@)]
  /\ rpc' = {IF r.kind = "rotation" THEN [r EXCEPT !.cert = older(@)] ELSE r : r \in rpc}
  /\ UNCHANGED <<tick, gauge, leaves, faults, readmitted>>

\* "me" starts again from its store: the queues are gone, nothing was issued
\* recently, and the signer is the seat's (adopt_epoch_signer).  The snapshot
\* may be older than the last issue.
Restart ==
  /\ faults < MaxFaults /\ faults' = faults + 1
  /\ \E h \in {me.highest, Max2(me.seat, 0)} :
       LET e == IF me.seat = Out THEN me.epoch ELSE me.seat IN
       /\ me' = [me EXCEPT !.epoch = e, !.highest = Max2(h, Max2(me.seat, 0)), !.last = "none",
                           !.pending = <<>>, !.signer = Max2(me.seat, 0)]
       /\ tick' = [on |-> me.seat # Out, highest |-> me'.highest, last |-> "none"]
  /\ gauge' = <<Max2(me.seat, 0), leaves[Max2(me.seat, 0)]>>
  /\ foreign' = [foreign EXCEPT !["me"] = <<>>]
  /\ readmitted' = FALSE
  /\ UNCHANGED <<seat, behind, leaves, pending_set_changes, rpc, refused>>

Next ==
  \/ Commit \/ Stale \/ Vote \/ Restart
  \/ \E d \in BOOLEAN : TickIssue(d)
  \/ \E e \in {seat + 1, seat + 2} \cap (1..MaxEpoch) :
       Operator(request("rotation", Issue(e, 0), "operator"))
  \/ \E c \in Changes : Operator(request(c, NoCert, "operator"))
  \/ \E i \in DOMAIN pending_set_changes : Window(i)
  \/ \E r \in rpc : Receive(r) \/ Queue(r)
  \/ \E n \in Parties : LostRound(n) \/ Decide(n)

\* The network goes on deciding the peer's proposals and "me" gets its blocks;
\* timers run; the RPC server serves; a push gets through now and then.
Fairness ==
  /\ WF_vars(Commit) /\ WF_vars(Stale) /\ SF_vars(Decide("peer"))
  /\ \A f \in {"tick", "operator", "again"} :
       /\ WF_vars(\E r \in rpc : r.from = f /\ Receive(r))
       /\ WF_vars(\E r \in rpc : r.from = f /\ Queue(r))
  /\ SF_vars(TickIssue(TRUE))

Spec == Init /\ [][Next]_vars /\ Fairness

-----------------------------------------------------------------------------
(* Properties                                                              *)

\* "a lost cert must never wedge a validator into burning its tree to zero":
\* a seat whose tree runs low is rotated, though pushes are lost, windows
\* close, the node restarts and earlier issues hold the trigger.  (A node that
\* starts while it has no seat has no tick, and is on its own proposals.)
LowSeatRotates ==
  \A e \in 0..MaxEpoch - 1 :
    (tick.on /\ seat = e /\ me.epoch = e /\ me.signer = e /\ leaves[e] < Threshold)
      ~> (seat # e \/ ~tick.on)
=============================================================================
