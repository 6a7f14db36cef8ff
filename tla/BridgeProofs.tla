---------------------------- MODULE BridgeProofs ----------------------------
(***************************************************************************)
(* Proofs about Bridge.tla, for every attestor set, amount, confirmation   *)
(* depth and bound, and any number of faults: a deposit is minted once     *)
(* (but for lost answers) and for its amount, a release pays an accepted   *)
(* burn once, the ledger file tells what happened (but for what a fork     *)
(* takes back), and without forks reconcile finds the books exact.         *)
(***************************************************************************)
EXTENDS Bridge, SumProofs

Events  == [key : {k \in Keys : k[1] \in EthKinds}, amount : Nat, block : Nat]
Calls   == [leg : Legs, id : Nat, amount : Nat, sigs : SUBSET Attestors,
            status : {"pending", "ok", "reverted"}, block : Nat]
Burns   == [leg : Legs, amount : Nat, bridgeable : BOOLEAN, accepted : BOOLEAN, known : BOOLEAN]
Records == [state : States, amount : Nat, at : Nat, tx : Nat]
Mints   == [key : Keys, nonce : Nat, amount : Nat]
Faults  == [crash : Nat, lost : [Keys -> Nat], abort : Nat, reorg : Nat, brake : Nat]
Contracts == [paused : BOOLEAN, used : Nat, processed : SUBSET Nat, tokens : Int]
Labels  == {"scan_eth", "eth", "mint", "sent", "wait", "failed", "scan_hk", "hk", "release", "down"}

ChainTyped ==
  /\ head \in Nat /\ events \subseteq Events /\ IsFiniteSet(events)
  /\ contract \in [Legs -> Contracts] /\ calls \in Seq(Calls)

HkTyped ==
  /\ nonce \in Nat /\ pending \subseteq Mints
  /\ receipts \subseteq [key : Keys, nonce : Nat, amount : Nat, ok : BOOLEAN]
  /\ IsFiniteSet(receipts)
  /\ minted \in [Keys -> Nat]
  /\ burns \in Seq(Burns) /\ Len(burns) <= MaxBurns /\ accounts \in BOOLEAN

BookTyped ==
  /\ mem \in [Keys -> Records] /\ disk \in [Keys -> Records]
  /\ eth_cursor \in Nat /\ hk_cursor \in Nat

StanceTyped == /\ pc \in Labels /\ todo \subseteq Keys /\ cur \in Keys \cup {<<>>} /\ txid \in Nat
               /\ sigs \subseteq Attestors

Typed == ChainTyped /\ HkTyped /\ BookTyped /\ StanceTyped /\ faults \in Faults

-----------------------------------------------------------------------------
(* Types                                                                   *)

\* A ledger key is a kind and a number, and no kind belongs to both chains.
LEMMA KeyFacts ==
  /\ \A k \in Keys : /\ k[1] \in EthKinds \cup HkKinds /\ k[2] \in Nat /\ k = <<k[1], k[2]>>
                     /\ LegOf(k) \in Legs
  /\ EthKinds \cap HkKinds = {}
  BY BridgeAssumption DEF Keys, EthKinds, HkKinds, LegOf, Legs

\* What the assumption says of each constant.
LEMMA BoundsNat ==
  /\ MaxHead \in Nat /\ MaxEvents \in Nat /\ MaxBurns \in Nat /\ Confirm \in Nat /\ DailyCap \in Nat
  /\ Amounts \subseteq Nat /\ InitialHkt \in Nat /\ Primary \in Attestors
  BY BridgeAssumption

\* Appending a line keeps the ledger well formed.
LEMMA WriteTyped ==
  ASSUME BookTyped, NEW k \in Keys, NEW r \in Records, write(k, r)
  PROVE  /\ BookTyped' /\ UNCHANGED <<eth_cursor, hk_cursor>>
         /\ \A j \in Keys : /\ mem'[j] = IF j = k THEN r ELSE mem[j]
                            /\ disk'[j] = IF j = k THEN r ELSE disk[j]
  BY DEF BookTyped, write

\* A line that names only a state keeps the record's other fields.
LEMMA WriteStateTyped ==
  ASSUME BookTyped, NEW k \in Keys, NEW s \in States, write_state(k, s)
  PROVE  /\ BookTyped' /\ UNCHANGED <<eth_cursor, hk_cursor>>
         /\ \A j \in Keys \ {k} : mem'[j] = mem[j] /\ disk'[j] = disk[j]
         /\ mem'[k] = [mem[k] EXCEPT !.state = s] /\ disk'[k] = mem'[k]
         /\ mem'[k].state = s /\ mem'[k].amount = mem[k].amount /\ mem'[k].tx = mem[k].tx
         /\ mem'[k].at = mem[k].at
  <1> DEFINE r == [mem[k] EXCEPT !.state = s]
  <1>1. mem[k] \in Records
    BY DEF BookTyped
  <1>2. r \in Records /\ r.state = s /\ r.amount = mem[k].amount /\ r.tx = mem[k].tx
        /\ r.at = mem[k].at
    BY <1>1 DEF Records
  <1>3. write(k, r)
    BY DEF write_state
  <1> HIDE DEF r
  <1>4. /\ BookTyped' /\ UNCHANGED <<eth_cursor, hk_cursor>>
        /\ \A j \in Keys : /\ mem'[j] = IF j = k THEN r ELSE mem[j]
                           /\ disk'[j] = IF j = k THEN r ELSE disk[j]
    BY <1>2, <1>3, WriteTyped
  <1>5. QED
    BY <1>2, <1>4 DEF r

\* A fault is counted and nothing else about the faults changes.
LEMMA SpendTyped ==
  ASSUME faults \in Faults, NEW f \in {"crash", "abort", "reorg", "brake"}, Spend(f)
  PROVE  /\ faults' \in Faults /\ faults'.lost = faults.lost
         /\ faults'.reorg = IF f = "reorg" THEN faults.reorg + 1 ELSE faults.reorg
  BY DEF Faults, Spend

\* An answer arrives, or is lost and counted against the record in hand.
LEMMA AnswerTyped ==
  ASSUME faults \in Faults, StanceTyped, cur \in Keys, NEW id \in Nat, answer(id)
  PROVE  /\ faults' \in Faults /\ StanceTyped' /\ faults'.reorg = faults.reorg
         /\ UNCHANGED <<todo, cur>>
         /\ \/ pc' = "sent" /\ txid' = id /\ UNCHANGED faults
            \/ pc' = "failed" /\ UNCHANGED txid
               /\ \A j \in Keys : faults'.lost[j]
                     = IF j = cur THEN faults.lost[j] + 1 ELSE faults.lost[j]
  <1>1. CASE pc' = "sent" /\ txid' = id
             /\ UNCHANGED <<todo, cur, sigs, safe, vault_paused, vault_remaining, faults>>
    BY <1>1 DEF StanceTyped, Labels
  <1>2. CASE faults' = [faults EXCEPT !.lost[cur] = @ + 1] /\ goto("failed")
    <2>1. /\ faults' \in Faults /\ faults'.reorg = faults.reorg
          /\ \A j \in Keys : faults'.lost[j]
                = IF j = cur THEN faults.lost[j] + 1 ELSE faults.lost[j]
      BY <1>2 DEF Faults
    <2>2. QED
      BY <1>2, <2>1 DEF goto, StanceTyped, Labels
  <1>3. QED
    BY <1>1, <1>2 DEF answer

\* Statuses the service writes.
LEMMA StatesNamed ==
  /\ {"seen", "held_recipient", "needs_review", "submitting", "submitted", "confirmed", "rejected",
      "reverted", "unbridgeable", "queued_cap", "queued_paused", "none"} \subseteq States
  /\ EthToDo \subseteq States /\ HkToDo \subseteq States
  BY DEF States, EthToDo, HkToDo

\* A sequence is a function on its indices, and conversely.
LEMMA SeqIsFunction ==
  ASSUME NEW T, NEW s \in Seq(T)
  PROVE  /\ Len(s) \in Nat /\ DOMAIN s = 1..Len(s) /\ s \in [1..Len(s) -> T]
         /\ IsFiniteSet(DOMAIN s)
  <1>1. Len(s) \in Nat /\ DOMAIN s = 1..Len(s) /\ s \in [1..Len(s) -> T]
    OBVIOUS
  <1>2. QED
    BY <1>1, FS_Interval

\* A function on 1..n is a sequence of length n.
LEMMA FunctionIsSeq ==
  ASSUME NEW T, NEW n \in Nat, NEW s \in [1..n -> T]
  PROVE  s \in Seq(T) /\ Len(s) = n
  OBVIOUS

\* What a write to one field leaves of a record.
LEMMA ContractFields ==
  ASSUME NEW r \in Contracts, NEW p \in BOOLEAN, NEW u \in Nat, NEW q \in SUBSET Nat, NEW t \in Int
  PROVE  /\ [r EXCEPT !.tokens = t] \in Contracts /\ [r EXCEPT !.used = u] \in Contracts
         /\ [r EXCEPT !.paused = p] \in Contracts
         /\ [r EXCEPT !.processed = q, !.used = u, !.tokens = t] \in Contracts
         /\ [r EXCEPT !.used = u, !.processed = q, !.tokens = t] \in Contracts
  <1>1. [r EXCEPT !.tokens = t] \in Contracts /\ [r EXCEPT !.used = u] \in Contracts
    BY DEF Contracts
  <1>2. [r EXCEPT !.paused = p] \in Contracts
    BY DEF Contracts
  <1>3. [r EXCEPT !.processed = q, !.used = u, !.tokens = t] \in Contracts
    BY DEF Contracts
  <1>4. [r EXCEPT !.used = u, !.processed = q, !.tokens = t] \in Contracts
    BY DEF Contracts
  <1>5. QED
    BY <1>1, <1>2, <1>3, <1>4

\* Including a call, or taking it back, leaves what it asks for as it was.
LEMMA CallFields ==
  ASSUME NEW c \in Calls, NEW s \in {"pending", "ok", "reverted"}, NEW b \in Nat
  PROVE  LET d == [c EXCEPT !.status = s, !.block = b] IN
         /\ d \in Calls /\ d.status = s /\ d.block = b
         /\ d.leg = c.leg /\ d.id = c.id /\ d.amount = c.amount
  BY DEF Calls

\* What a step does not touch keeps its type.
LEMMA KeptTyped ==
  /\ ChainTyped /\ UNCHANGED chain => ChainTyped'
  /\ HkTyped /\ UNCHANGED hk => HkTyped'
  /\ BookTyped /\ UNCHANGED book => BookTyped'
  /\ StanceTyped /\ UNCHANGED stance => StanceTyped'
  BY DEF chain, hk, book, stance, ChainTyped, HkTyped, BookTyped, StanceTyped

\* The users and the two chains.
LEMMA UsersTyped ==
  ASSUME Typed, Users
  PROVE  Typed'
  <1>1. ASSUME NEW l \in Legs, NEW a \in Amounts, Lock(l, a) PROVE Typed'
    <2> DEFINE K == {e \in events : e.key[1] = EthKind[l]}
               n == Cardinality(K) + 1
               e == [key |-> <<EthKind[l], n>>, amount |-> a, block |-> head + 1]
    <2>1. Cardinality(events) < MaxEvents /\ UNCHANGED <<calls, hk, book, stance, day, faults>>
          /\ head' = head + 1 /\ events' = events \cup {e}
          /\ contract' = [contract EXCEPT ![l].tokens = IF l = "usdc" THEN @ + a ELSE @ - a]
      BY <1>1 DEF Lock
    <2>2. n \in 1..MaxEvents
      <3>1. IsFiniteSet(events) /\ K \subseteq events
        BY DEF Typed, ChainTyped
      <3>2. Cardinality(K) \in Nat /\ Cardinality(events) \in Nat
            /\ Cardinality(K) <= Cardinality(events)
        BY <3>1, FS_Subset, FS_CardinalityType
      <3>3. QED
        BY <2>1, <3>2, BoundsNat
    <2>3. EthKind[l] \in EthKinds
      BY DEF EthKind, EthKinds, Legs
    <2>4. <<EthKind[l], n>> \in {k \in Keys : k[1] \in EthKinds}
      BY <2>2, <2>3 DEF Keys
    <2>5. e \in Events
      BY <2>4, BoundsNat DEF Events, Typed, ChainTyped
    <2> HIDE DEF e
    <2>6. events' \subseteq Events /\ IsFiniteSet(events')
      BY <2>1, <2>5, FS_AddElement DEF Typed, ChainTyped
    <2>7. contract' \in [Legs -> Contracts]
      <3> DEFINE t == IF l = "usdc" THEN contract[l].tokens + a ELSE contract[l].tokens - a
      <3>1. contract[l] \in Contracts /\ contract[l].tokens \in Int /\ a \in Int
        BY BoundsNat DEF Typed, ChainTyped, Contracts
      <3>2. t \in Int
        BY <3>1
      <3>3. contract' = [contract EXCEPT ![l] = [contract[l] EXCEPT !.tokens = t]]
        BY <2>1 DEF Typed, ChainTyped
      <3> HIDE DEF t
      <3>4. QED
        BY <3>1, <3>2, <3>3, ContractFields DEF Typed, ChainTyped
    <2>8. QED
      BY <2>1, <2>6, <2>7, KeptTyped DEF Typed, ChainTyped
  <1>2. ASSUME NEW l \in Legs, NEW a \in Amounts, NEW b \in BOOLEAN, NEW ok \in BOOLEAN,
               HkBurn(l, a, b, ok)
        PROVE  Typed'
    <2> DEFINE r == [leg |-> l, amount |-> a, bridgeable |-> b, accepted |-> ok, known |-> TRUE]
    <2>1. Len(burns) < MaxBurns /\ burns' = Append(burns, r)
          /\ UNCHANGED <<chain, nonce, pending, receipts, minted, accounts, book, stance, day, faults>>
      BY <1>2 DEF HkBurn
    <2>2. r \in Burns
      BY BoundsNat DEF Burns
    <2> HIDE DEF r
    <2>3. burns' \in Seq(Burns) /\ Len(burns') <= MaxBurns
      BY <2>1, <2>2, BoundsNat DEF Typed, HkTyped
    <2>4. HkTyped'
      BY <2>1, <2>3 DEF Typed, HkTyped
    <2>5. QED
      BY <2>1, <2>4, KeptTyped DEF Typed
  <1>3. CASE CreateAccount
    <2>1. HkTyped'
      BY <1>3 DEF CreateAccount, Typed, HkTyped
    <2>2. QED
      BY <1>3, <2>1, KeptTyped DEF CreateAccount, Typed
  <1>4. QED
    BY <1>1, <1>2, <1>3 DEF Users

\* out(l) and in(l) of Reorg: what its block paid out and took in.
gone_now == {e \in events : e.block = head}
undone_now(l) == {i \in DOMAIN calls : calls[i].block = head /\ calls[i].leg = l
                                        /\ calls[i].status = "ok"}
out_now(l) == SumOf([i \in DOMAIN calls |-> calls[i].amount], undone_now(l))
in_now(l) == SumOf([e \in events |-> e.amount], {e \in gone_now : LegOf(e.key) = l})

\* What a fork takes back is a natural number.
LEMMA SumsNow ==
  ASSUME ChainTyped
  PROVE  \A l \in Legs : out_now(l) \in Nat /\ in_now(l) \in Nat
  <1> TAKE l \in Legs
  <1> DEFINE f == [i \in DOMAIN calls |-> calls[i].amount]
             g == [e \in events |-> e.amount]
             S == undone_now(l)
             T == {e \in gone_now : LegOf(e.key) = l}
  <1>1. IsFiniteSet(S) /\ \A i \in S : f[i] \in Nat
    <2>1. IsFiniteSet(DOMAIN calls) /\ S \subseteq DOMAIN calls
          /\ \A i \in DOMAIN calls : calls[i] \in Calls
      BY SeqIsFunction DEF ChainTyped, undone_now
    <2>2. \A i \in DOMAIN calls : f[i] \in Nat
      BY <2>1 DEF Calls
    <2>3. QED
      BY <2>1, <2>2, FS_Subset
  <1>2. IsFiniteSet(T) /\ \A e \in T : g[e] \in Nat
    <2>1. T \subseteq events /\ IsFiniteSet(events) /\ events \subseteq Events
      BY DEF ChainTyped, gone_now
    <2>2. QED
      BY <2>1, FS_Subset DEF Events
  <1> HIDE DEF f, g, S, T
  <1>3. SumOf(f, S) \in Nat /\ SumOf(g, T) \in Nat
    BY <1>1, <1>2, SumNat
  <1>4. QED
    BY <1>3 DEF f, g, S, T, out_now, in_now

\* The whole effect of a fork.
LEMMA ReorgIs ==
  ASSUME Reorg
  PROVE  /\ head > 0 /\ head' = head - 1 /\ events' = events \ gone_now /\ Spend("reorg")
         /\ calls' = [i \in DOMAIN calls |-> IF calls[i].block = head
                        THEN [calls[i] EXCEPT !.status = "pending", !.block = 0] ELSE calls[i]]
         /\ contract' = [l \in Legs |-> [contract[l] EXCEPT
              !.processed = @ \ {calls[i].id : i \in undone_now(l)},
              !.used = IF @ > out_now(l) THEN @ - out_now(l) ELSE 0,
              !.tokens = IF l = "usdc" THEN @ - in_now(l) + out_now(l)
                         ELSE @ + in_now(l) - out_now(l)]]
         /\ replaced' = replaced \cup {b \in {head} : b <= eth_cursor}
         /\ orphans' = orphans \cup {e.key : e \in {g \in gone_now : disk[g.key].state # "none"}}
              \cup UNION {{<<HkKind[l], calls[i].id>> : i \in undone_now(l)} : l \in Legs}
         /\ UNCHANGED <<hk, book, stance, day>>
  BY DEF Reorg, gone_now, undone_now, out_now, in_now

\* The steps of the two chains keep the types.
LEMMA ChainsTyped ==
  ASSUME Typed, Chains
  PROVE  Typed'
  <1>1. CASE EthBlock
    <2>1. ChainTyped'
      BY <1>1 DEF EthBlock, Typed, ChainTyped
    <2>2. QED
      BY <1>1, <2>1, KeptTyped DEF EthBlock, Typed
  <1>2. CASE NewDay
    <2>1. contract' \in [Legs -> Contracts]
      BY <1>2 DEF NewDay, Typed, ChainTyped, Contracts
    <2>2. QED
      BY <1>2, <2>1, KeptTyped DEF NewDay, Typed, ChainTyped
  <1>3. ASSUME NEW l \in Legs, Pause(l) \/ Unpause(l) PROVE Typed'
    <2>1. contract' \in [Legs -> Contracts]
      <3>1. contract \in [Legs -> Contracts] /\ contract[l] \in Contracts
        BY DEF Typed, ChainTyped
      <3>2. PICK p \in BOOLEAN : contract' = [contract EXCEPT ![l] = [contract[l] EXCEPT !.paused = p]]
        BY <1>3, <3>1 DEF Pause, Unpause
      <3>3. [contract[l] EXCEPT !.paused = p] \in Contracts
        BY <3>1 DEF Contracts
      <3>4. QED
        BY <3>1, <3>2, <3>3
    <2>2. ChainTyped'
      BY <1>3, <2>1 DEF Pause, Unpause, Typed, ChainTyped
    <2>3. faults' \in Faults
      BY <1>3, SpendTyped DEF Pause, Unpause, Typed
    <2>4. QED
      BY <1>3, <2>2, <2>3, KeptTyped DEF Pause, Unpause, Typed
  <1>4. CASE ForgetReceipts
    <2>1. /\ burns' = [i \in DOMAIN burns |-> [burns[i] EXCEPT !.known = FALSE]] /\ Spend("abort")
          /\ UNCHANGED <<chain, nonce, pending, receipts, minted, accounts, book, stance, day>>
      BY <1>4 DEF ForgetReceipts
    <2>2. burns \in Seq(Burns) /\ Len(burns) <= MaxBurns
      BY DEF Typed, HkTyped
    <2>3. \A b \in Burns : [b EXCEPT !.known = FALSE] \in Burns
      BY DEF Burns
    <2>4. burns' \in Seq(Burns) /\ Len(burns') = Len(burns)
      <3>1. DOMAIN burns = 1..Len(burns) /\ Len(burns) \in Nat
            /\ \A i \in DOMAIN burns : burns[i] \in Burns
        BY <2>2, SeqIsFunction
      <3>2. burns' \in [1..Len(burns) -> Burns]
        BY <2>1, <2>3, <3>1
      <3>3. QED
        BY <3>1, <3>2, FunctionIsSeq
    <2>5. HkTyped'
      BY <2>1, <2>2, <2>4 DEF Typed, HkTyped
    <2>6. QED
      BY <2>1, <2>5, KeptTyped, SpendTyped DEF Typed
  <1>5. ASSUME NEW i \in DOMAIN calls, Include(i) PROVE Typed'
    <2> DEFINE c == calls[i]
    <2>1. /\ calls \in [1..Len(calls) -> Calls] /\ Len(calls) \in Nat
          /\ DOMAIN calls = 1..Len(calls)
          /\ c \in Calls /\ head \in Nat
      BY SeqIsFunction DEF Typed, ChainTyped
    <2>0. c.leg \in Legs /\ c.amount \in Nat /\ c.id \in Nat
      BY <2>1 DEF Calls
    <2>6. ASSUME NEW s \in {"ok", "reverted"},
                 calls' = [calls EXCEPT ![i].status = s, ![i].block = head]
          PROVE  calls' \in Seq(Calls)
      <3>1. [c EXCEPT !.status = s, !.block = head] \in Calls
        BY <2>1, CallFields
      <3>2. calls' = [calls EXCEPT ![i] = [c EXCEPT !.status = s, !.block = head]]
        BY <2>1, <2>6
      <3>3. calls' \in [1..Len(calls) -> Calls]
        BY <2>1, <3>1, <3>2
      <3>4. QED
        BY <2>1, <3>3, FunctionIsSeq
    <2>2. UNCHANGED <<head, events, hk, book, stance, day, faults>>
      BY <1>5 DEF Include
    <2>3. CASE call_ok(c)
      <3>1. calls' = [calls EXCEPT ![i].status = "ok", ![i].block = head]
        BY <1>5, <2>3 DEF Include
      <3>2. calls' \in Seq(Calls)
        BY <2>6, <3>1
      <3>3. contract' = [contract EXCEPT
               ![c.leg].used = @ + c.amount,
               ![c.leg].processed = @ \cup {c.id},
               ![c.leg].tokens = IF c.leg = "usdc" THEN @ - c.amount ELSE @ + c.amount]
        BY <1>5, <2>3 DEF Include
      <3>4. contract' \in [Legs -> Contracts]
        <4> DEFINE k == contract[c.leg]
                   u == k.used + c.amount
                   q == k.processed \cup {c.id}
                   t == IF c.leg = "usdc" THEN k.tokens - c.amount ELSE k.tokens + c.amount
        <4>1. k \in Contracts
          BY <2>0 DEF Typed, ChainTyped
        <4>2. u \in Nat /\ q \in SUBSET Nat /\ t \in Int
          BY <2>0, <4>1 DEF Contracts
        <4>3. contract' = [contract EXCEPT
                 ![c.leg] = [k EXCEPT !.used = u, !.processed = q, !.tokens = t]]
          BY <2>0, <3>3 DEF Typed, ChainTyped
        <4> HIDE DEF k, u, q, t
        <4>4. QED
          BY <2>0, <4>1, <4>2, <4>3, ContractFields DEF Typed, ChainTyped
      <3>5. QED
        BY <2>2, <3>2, <3>4, KeptTyped DEF Typed, ChainTyped
    <2>4. CASE ~call_ok(c)
      <3>1. calls' = [calls EXCEPT ![i].status = "reverted", ![i].block = head]
            /\ UNCHANGED contract
        BY <1>5, <2>4 DEF Include
      <3>2. calls' \in Seq(Calls)
        BY <2>6, <3>1
      <3>3. QED
        BY <2>2, <3>1, <3>2, KeptTyped DEF Typed, ChainTyped
    <2>5. QED
      BY <2>3, <2>4
  <1>6. ASSUME NEW m \in pending, NEW ok \in BOOLEAN, CommitMint(m, ok) PROVE Typed'
    <2> DEFINE r == [key |-> m.key, nonce |-> m.nonce, amount |-> m.amount, ok |-> ok]
               R == [key : Keys, nonce : Nat, amount : Nat, ok : BOOLEAN]
    <2>1. m \in Mints
      BY DEF Typed, HkTyped
    <2>2. r \in R
      BY <2>1 DEF Mints
    <2>3. receipts' = receipts \cup {r} /\ pending' = pending \ {m}
          /\ nonce' = (IF ok THEN nonce + 1 ELSE nonce)
          /\ minted' = [minted EXCEPT ![m.key] = IF ok THEN @ + 1 ELSE @]
          /\ UNCHANGED <<chain, burns, accounts, book, stance, day>>
      BY <1>6 DEF CommitMint
    <2> HIDE DEF r
    <2>4. receipts' \subseteq R /\ IsFiniteSet(receipts')
      BY <2>2, <2>3, FS_AddElement DEF Typed, HkTyped
    <2>8. minted' \in [Keys -> Nat] /\ nonce' \in Nat /\ pending' \subseteq Mints
      BY <2>1, <2>3 DEF Typed, HkTyped, Mints
    <2>5. HkTyped'
      BY <2>3, <2>4, <2>8 DEF Typed, HkTyped
    <2>6. faults' \in Faults
      BY <1>6, SpendTyped DEF CommitMint, Typed
    <2>7. QED
      BY <2>3, <2>5, <2>6, KeptTyped DEF Typed
  <1>7. CASE Reorg
    <2>1. \A l \in Legs : out_now(l) \in Nat /\ in_now(l) \in Nat
      BY SumsNow DEF Typed
    <2>2. contract' \in [Legs -> Contracts]
      <3>1. ASSUME NEW l \in Legs PROVE contract'[l] \in Contracts
        <4> DEFINE k == contract[l]
                   u == IF k.used > out_now(l) THEN k.used - out_now(l) ELSE 0
                   q == k.processed \ {calls[i].id : i \in undone_now(l)}
                   t == IF l = "usdc" THEN k.tokens - in_now(l) + out_now(l)
                        ELSE k.tokens + in_now(l) - out_now(l)
        <4>1. k \in Contracts
          BY DEF Typed, ChainTyped
        <4>2. u \in Nat /\ q \in SUBSET Nat /\ t \in Int
          BY <2>1, <4>1 DEF Contracts
        <4>3. contract'[l] = [k EXCEPT !.processed = q, !.used = u, !.tokens = t]
          BY <1>7, ReorgIs
        <4> HIDE DEF k, u, q, t
        <4>4. [k EXCEPT !.processed = q, !.used = u, !.tokens = t] \in Contracts
          BY <4>1, <4>2, TRUE \in BOOLEAN, ContractFields
        <4>5. QED
          BY <4>3, <4>4
      <3>2. contract' = [l \in Legs |-> contract'[l]]
        BY <1>7, ReorgIs
      <3>3. QED
        BY <3>1, <3>2
    <2>3. calls' \in Seq(Calls)
      <3>1. /\ Len(calls) \in Nat /\ DOMAIN calls = 1..Len(calls)
            /\ \A i \in DOMAIN calls : calls[i] \in Calls
        BY SeqIsFunction DEF Typed, ChainTyped
      <3>2. \A c \in Calls : [c EXCEPT !.status = "pending", !.block = 0] \in Calls
        BY CallFields
      <3>0. calls' = [i \in DOMAIN calls |-> IF calls[i].block = head
                        THEN [calls[i] EXCEPT !.status = "pending", !.block = 0] ELSE calls[i]]
        BY <1>7, ReorgIs
      <3> DEFINE g(i) == IF calls[i].block = head
                         THEN [calls[i] EXCEPT !.status = "pending", !.block = 0] ELSE calls[i]
      <3>5. \A i \in 1..Len(calls) : g(i) \in Calls
        BY <3>1, <3>2
      <3>6. calls' = [i \in 1..Len(calls) |-> g(i)]
        BY <3>0, <3>1
      <3> HIDE DEF g
      <3>3. calls' \in [1..Len(calls) -> Calls]
        BY <3>5, <3>6
      <3>4. QED
        BY <3>1, <3>3, FunctionIsSeq
    <2>4. events' \subseteq events /\ head > 0 /\ head' = head - 1
      BY <1>7, ReorgIs
    <2>6. events' \subseteq Events /\ IsFiniteSet(events') /\ head' \in Nat
      BY <2>4, FS_Subset DEF Typed, ChainTyped
    <2>5. QED
      BY <1>7, <2>2, <2>3, <2>6, ReorgIs, KeptTyped, SpendTyped DEF Typed, ChainTyped
  <1>8. QED
    BY <1>1, <1>2, <1>3, <1>4, <1>5, <1>6, <1>7 DEF Chains

\* Where the service goes next.
LEMMA MovesTyped ==
  ASSUME StanceTyped
  PROVE  /\ \A l \in Labels : goto(l) => StanceTyped' /\ pc' = l /\ UNCHANGED <<todo, cur, txid>>
         /\ \A l \in Labels : next_record(l) => StanceTyped' /\ pc' = l /\ todo' = todo \ {cur}
         /\ \A k : done(k) => StanceTyped' /\ todo' = todo \ {k} /\ UNCHANGED <<pc, cur, txid>>
         /\ give_up => StanceTyped' /\ pc' = "scan_eth" /\ todo' = {}
  BY DEF StanceTyped, goto, next_record, done, give_up, Labels

\* The steps on the ledger's records.
LEMMA RecordsTyped ==
  ASSUME Typed, NEW k \in todo,
         \/ recheck_mint(k) \/ hold_deposit(k) \/ begin_mint(k)
         \/ already_released(k) \/ recheck_release(k) \/ queue_burn(k) \/ begin_release(k)
  PROVE  Typed'
  <1>1. k \in Keys /\ BookTyped /\ StanceTyped
    BY DEF Typed, StanceTyped
  <1>2. \A s : write_state(k, s) /\ s \in States => BookTyped'
    BY <1>1, WriteStateTyped
  <1>3. UNCHANGED book => BookTyped'
    BY <1>1, KeptTyped
  <1>4. BookTyped'
    <2>1. CASE recheck_mint(k)
      BY <1>2, <1>3, <2>1, StatesNamed DEF recheck_mint
    <2>2. CASE hold_deposit(k)
      BY <1>2, <1>3, <2>2, StatesNamed DEF hold_deposit
    <2>3. CASE begin_mint(k) \/ already_released(k) \/ begin_release(k)
      BY <1>2, <2>3, StatesNamed DEF begin_mint, already_released, begin_release
    <2>4. CASE recheck_release(k)
      BY <1>2, <1>3, <2>4, StatesNamed DEF recheck_release
    <2>5. CASE queue_burn(k)
      BY <1>2, <2>5, StatesNamed DEF queue_burn
    <2>6. QED
      BY <2>1, <2>2, <2>3, <2>4, <2>5
  <1>5. StanceTyped'
    <2>1. CASE begin_mint(k)
      BY <1>1, <2>1 DEF begin_mint, StanceTyped, Labels
    <2>2. CASE done(k)
      BY <1>1, <2>2, MovesTyped
    <2>3. CASE begin_release(k)
      <3>1. sigs' \in attest(k)
        BY <2>3 DEF begin_release
      <3>2. sigs' \subseteq Attestors
        BY <3>1, BoundsNat DEF attest
      <3>3. QED
        BY <1>1, <2>3, <3>2 DEF begin_release, StanceTyped, Labels
    <2>4. QED
      BY <2>1, <2>2, <2>3
      DEF recheck_mint, hold_deposit, already_released, recheck_release, queue_burn
  <1>6. UNCHANGED <<chain, hk, day, faults>>
    BY DEF recheck_mint, hold_deposit, begin_mint, already_released, recheck_release,
           queue_burn, begin_release
  <1>7. QED
    BY <1>4, <1>5, <1>6, KeptTyped DEF Typed

InHand == {"mint", "release", "sent", "failed", "wait"}

\* The steps on the record in hand.
LEMMA InHandTyped ==
  ASSUME Typed, pc \in InHand => cur \in Keys,
         hk_submit \/ submit_failed \/ submitted \/ hk_wait_receipt \/ send_call \/ wait_release
  PROVE  Typed'
  <1>1. cur \in Keys
    BY DEF hk_submit, submit_failed, submitted, hk_wait_receipt, send_call, wait_release, InHand
  <1>2. BookTyped /\ StanceTyped /\ mem[cur] \in Records /\ faults \in Faults
    BY <1>1 DEF Typed, BookTyped
  <1>3. \A s : write_state(cur, s) /\ s \in States => BookTyped'
    BY <1>1, <1>2, WriteStateTyped
  <1>4. UNCHANGED book => BookTyped'
    BY <1>2, KeptTyped
  <1>5. \A l \in Labels : goto(l) \/ next_record(l) => StanceTyped'
    BY <1>2, MovesTyped
  <1>6. CASE hk_submit
    <2> DEFINE m == [key |-> cur, nonce |-> nonce, amount |-> mem[cur].amount]
    <2>1. m \in Mints
      BY <1>1, <1>2 DEF Mints, Records, Typed, HkTyped
    <2>2. pending' = pending \cup {m} \/ UNCHANGED pending
      BY <1>6 DEF hk_submit
    <2> HIDE DEF m
    <2>3. UNCHANGED <<chain, nonce, receipts, minted, burns, accounts, book, day>>
      BY <1>6 DEF hk_submit
    <2>4. HkTyped'
      BY <2>1, <2>2, <2>3 DEF Typed, HkTyped
    <2>5. faults' \in Faults /\ StanceTyped'
      <3>1. CASE answer(nonce)
        BY <1>1, <1>2, <3>1, AnswerTyped DEF Typed, HkTyped
      <3>2. CASE goto("failed") /\ (UNCHANGED faults \/ Spend("abort"))
        BY <1>2, <1>5, <3>2, SpendTyped DEF Labels
      <3>3. QED
        BY <1>6, <3>1, <3>2 DEF hk_submit
    <2>6. QED
      BY <2>3, <2>4, <2>5, KeptTyped DEF Typed
  <1>7. CASE submit_failed
    <2>1. StanceTyped'
      BY <1>2, <1>7, MovesTyped DEF submit_failed
    <2>2. BookTyped'
      BY <1>3, <1>7, StatesNamed DEF submit_failed
    <2>3. QED
      BY <1>7, <2>1, <2>2, KeptTyped DEF submit_failed, Typed
  <1>8. CASE submitted
    <2> DEFINE r == [mem[cur] EXCEPT !.state = "submitted", !.tx = txid]
    <2>1. r \in Records
      BY <1>2, StatesNamed DEF Records, StanceTyped
    <2>2. write(cur, r)
      BY <1>8 DEF submitted
    <2> HIDE DEF r
    <2>3. BookTyped'
      BY <1>1, <1>2, <2>1, <2>2, WriteTyped
    <2>4. StanceTyped'
      BY <1>5, <1>8 DEF submitted, Labels
    <2>5. QED
      BY <1>8, <2>3, <2>4, KeptTyped DEF submitted, Typed
  <1>9. CASE hk_wait_receipt
    <2>1. BookTyped'
      BY <1>3, <1>4, <1>9, StatesNamed DEF hk_wait_receipt
    <2>2. StanceTyped'
      BY <1>5, <1>9 DEF hk_wait_receipt, Labels
    <2>3. QED
      BY <1>9, <2>1, <2>2, KeptTyped DEF hk_wait_receipt, Typed
  <1>10. CASE wait_release
    <2>1. BookTyped'
      BY <1>3, <1>4, <1>10, StatesNamed DEF wait_release
    <2>2. StanceTyped'
      BY <1>5, <1>10 DEF wait_release, Labels
    <2>3. QED
      BY <1>10, <2>1, <2>2, KeptTyped DEF wait_release, Typed
  <1>11. CASE send_call
    <2>1. LET c == [leg |-> LegOf(cur), id |-> cur[2], amount |-> mem[cur].amount,
                      sigs |-> sigs, status |-> "pending", block |-> 0] IN
            \/ call_ok(c) /\ calls' = Append(calls, c) /\ answer(Len(calls) + 1)
            \/ ~call_ok(c) /\ goto("failed") /\ UNCHANGED <<calls, faults>>
            \/ goto("failed") /\ UNCHANGED calls /\ Spend("abort")
      BY <1>11 DEF send_call
    <2> DEFINE c == [leg |-> LegOf(cur), id |-> cur[2], amount |-> mem[cur].amount,
                     sigs |-> sigs, status |-> "pending", block |-> 0]
    <2>2. sigs \in SUBSET Attestors
      BY <1>2 DEF StanceTyped
    <2>3. c \in Calls
      BY <1>1, <1>2, <2>2, KeyFacts DEF Calls, Records
    <2>4. calls' = Append(calls, c) \/ UNCHANGED calls
      BY <2>1
    <2>5. faults' \in Faults /\ StanceTyped'
      <3>1. CASE answer(Len(calls) + 1)
        <4>1. Len(calls) + 1 \in Nat
          BY SeqIsFunction DEF Typed, ChainTyped
        <4>2. QED
          BY <1>1, <1>2, <3>1, <4>1, AnswerTyped
      <3>2. CASE goto("failed") /\ (UNCHANGED faults \/ Spend("abort"))
        BY <1>2, <1>5, <3>2, SpendTyped DEF Labels
      <3>3. QED
        BY <2>1, <3>1, <3>2
    <2> HIDE DEF c
    <2>6. calls' \in Seq(Calls)
      BY <2>3, <2>4 DEF Typed, ChainTyped
    <2>7. UNCHANGED <<head, events, contract, hk, book, day>>
      BY <1>11 DEF send_call
    <2>8. QED
      BY <2>5, <2>6, <2>7, KeptTyped DEF Typed, ChainTyped
  <1>12. QED
    BY <1>6, <1>7, <1>8, <1>9, <1>10, <1>11

\* The scans.
LEMMA ScansTyped ==
  ASSUME Typed,
         \/ \E e \in events : record_eth_event(e)
         \/ scan_eth \/ end_eth \/ record_hk_burn \/ scan_hk \/ read_vault \/ end_hk
  PROVE  Typed'
  <1>1. ASSUME NEW e \in events, record_eth_event(e) PROVE Typed'
    <2> DEFINE r == Record("seen", e.amount, e.block, 0)
    <2>1. r \in Records /\ e.key \in Keys
      BY StatesNamed DEF Typed, ChainTyped, Events, Records, Record
    <2> HIDE DEF r
    <2>2. write(e.key, r) /\ UNCHANGED <<chain, hk, stance, day, faults>>
      BY <1>1 DEF record_eth_event, r
    <2>3. BookTyped'
      BY <2>1, <2>2, WriteTyped DEF Typed
    <2>4. QED
      BY <2>2, <2>3, KeptTyped DEF Typed
  <1>2. CASE scan_eth
    <2>1. BookTyped'
      BY <1>2 DEF scan_eth, Typed, BookTyped, ChainTyped
    <2>2. StanceTyped'
      BY <1>2 DEF scan_eth, in_states, Typed, StanceTyped, Labels
    <2>3. QED
      BY <1>2, <2>1, <2>2, KeptTyped DEF scan_eth, Typed
  <1>3. CASE end_eth \/ end_hk
    <2>1. StanceTyped'
      BY <1>3, MovesTyped DEF end_eth, end_hk, Typed, Labels
    <2>2. QED
      BY <1>3, <2>1, KeptTyped DEF end_eth, end_hk, Typed
  <1>4. CASE record_hk_burn
    <2> DEFINE i == hk_cursor + 1
               s == IF receipt_class(burns[i]) = "unknown" THEN "needs_review"
                    ELSE IF burns[i].bridgeable THEN "seen" ELSE "unbridgeable"
               r == Record(s, burns[i].amount, i, 0)
    <2>1. i \in DOMAIN burns /\ write(BurnKey(i), r) /\ UNCHANGED <<chain, hk, stance, day, faults>>
      BY <1>4 DEF record_hk_burn
    <2>2. burns[i] \in Burns /\ i \in 1..MaxBurns
      BY <2>1, SeqIsFunction, BoundsNat DEF Typed, HkTyped
    <2>3. r \in Records
      BY <2>2, StatesNamed DEF Records, Record, Burns
    <2>4. BurnKey(i) \in Keys
      BY <2>2 DEF BurnKey, Keys, HkKind, HkKinds, Legs, Burns
    <2> HIDE DEF r
    <2>5. BookTyped'
      BY <2>1, <2>3, <2>4, WriteTyped DEF Typed
    <2>6. QED
      BY <2>1, <2>5, KeptTyped DEF Typed
  <1>5. CASE scan_hk
    <2>1. BookTyped'
      BY <1>5 DEF scan_hk, Typed, BookTyped
    <2>2. QED
      BY <1>5, <2>1, KeptTyped DEF scan_hk, Typed
  <1>6. CASE read_vault
    <2>1. StanceTyped'
      BY <1>6 DEF read_vault, in_states, Typed, StanceTyped, Labels
    <2>2. QED
      BY <1>6, <2>1, KeptTyped DEF read_vault, Typed
  <1>7. QED
    BY <1>1, <1>2, <1>3, <1>4, <1>5, <1>6

\* Errors, the crash, the restart and the operator.
LEMMA StopsTyped ==
  ASSUME Typed, tick_error \/ Crash \/ Restart \/ \E k \in Keys : resolve(k)
  PROVE  Typed'
  <1>1. CASE tick_error
    BY <1>1, MovesTyped, SpendTyped, KeptTyped DEF tick_error, Typed
  <1>2. CASE Crash
    <2>1. StanceTyped'
      BY <1>2 DEF Crash, StanceTyped, Labels
    <2>2. QED
      BY <1>2, <2>1, SpendTyped, KeptTyped DEF Crash, Typed
  <1>3. CASE Restart
    <2>1. StanceTyped' /\ BookTyped'
      BY <1>3 DEF Restart, Typed, StanceTyped, BookTyped, Labels
    <2>2. QED
      BY <1>3, <2>1, KeptTyped DEF Restart, Typed
  <1>4. ASSUME NEW k \in Keys, resolve(k) PROVE Typed'
    <2>1. disk' = [disk EXCEPT ![k].state = "confirmed"] \/ disk' = [disk EXCEPT ![k].state = "seen"]
      BY <1>4 DEF resolve
    <2>2. disk[k] \in Records
      BY DEF Typed, BookTyped
    <2>3. \A s \in States : [disk[k] EXCEPT !.state = s] \in Records
      BY <2>2 DEF Records
    <2>4. PICK s \in States : disk' = [disk EXCEPT ![k] = [disk[k] EXCEPT !.state = s]]
      BY <2>1, StatesNamed DEF Typed, BookTyped
    <2>5. BookTyped'
      BY <1>4, <2>3, <2>4 DEF resolve, Typed, BookTyped
    <2>6. QED
      BY <1>4, <2>5, KeptTyped DEF resolve, Typed
  <1>5. QED
    BY <1>1, <1>2, <1>3, <1>4

-----------------------------------------------------------------------------
(* Where the service stands                                                *)

Mintable(k)   == k[1] \in EthKinds /\ disk[k].state \in EthToDo
Releasable(k) == k[1] \in HkKinds /\ disk[k].state \in HkToDo

\* While the process runs its memory is the file; what is left to do in a pass
\* is still to be done; the record in hand was written ahead.
ServiceInv ==
  /\ pc # "down" => mem = disk
  /\ pc = "eth" => \A k \in todo : Mintable(k)
  /\ pc = "hk" => \A k \in todo : Releasable(k)
  /\ pc \in InHand =>
       /\ cur \in Keys
       /\ disk[cur].state = IF pc = "wait" THEN "submitted" ELSE "submitting"
       /\ \A k \in todo \ {cur} : IF cur[1] \in EthKinds THEN Mintable(k) ELSE Releasable(k)
  /\ pc = "mint" => cur[1] \in EthKinds
  /\ pc = "release" => cur[1] \in HkKinds

\* A step of a user or a chain does not move the service.
LEMMA ServiceKept ==
  ASSUME ServiceInv, UNCHANGED <<book, stance>>
  PROVE  ServiceInv'
  BY DEF ServiceInv, book, stance, Mintable, Releasable

\* The two scans keep memory and file equal.
LEMMA ServiceScans ==
  ASSUME Typed, ServiceInv,
         \/ \E e \in events : record_eth_event(e)
         \/ scan_eth \/ end_eth \/ record_hk_burn \/ scan_hk \/ read_vault \/ end_hk
  PROVE  ServiceInv'
  <1>1. CASE (\E e \in events : record_eth_event(e)) \/ record_hk_burn
    <2>1. pc \in {"scan_eth", "scan_hk"} /\ UNCHANGED stance
      BY <1>1 DEF record_eth_event, record_hk_burn
    <2>2. mem' = disk'
      BY <1>1, <2>1 DEF record_eth_event, record_hk_burn, write, ServiceInv
    <2>3. QED
      BY <2>1, <2>2 DEF stance, ServiceInv, InHand
  <1>2. CASE scan_eth
    <2>1. mem = disk /\ UNCHANGED <<mem, disk>> /\ pc' = "eth"
          /\ todo' = in_states(EthKinds, EthToDo)
      BY <1>2 DEF scan_eth, ServiceInv
    <2>2. QED
      BY <2>1 DEF in_states, ServiceInv, InHand, Mintable
  <1>3. CASE read_vault
    <2>1. mem = disk /\ UNCHANGED <<mem, disk>> /\ pc' = "hk"
          /\ todo' = in_states(HkKinds, HkToDo)
      BY <1>3 DEF read_vault, book, ServiceInv
    <2>2. QED
      BY <2>1 DEF in_states, ServiceInv, InHand, Releasable
  <1>4. CASE scan_hk
    BY <1>4 DEF scan_hk, stance, ServiceInv, InHand
  <1>5. CASE end_eth \/ end_hk
    BY <1>5 DEF end_eth, end_hk, goto, book, ServiceInv, InHand
  <1>6. QED
    BY <1>1, <1>2, <1>3, <1>4, <1>5

\* What a step on one record does to the file: that record at most, and only
\* its state.
LEMMA RecordStep ==
  ASSUME Typed, ServiceInv, NEW k \in Keys, NEW s \in States, pc # "down", write_state(k, s)
  PROVE  /\ mem' = disk' /\ disk'[k].state = s /\ disk'[k].amount = disk[k].amount
         /\ disk'[k].tx = disk[k].tx /\ disk'[k].at = disk[k].at
         /\ \A j \in Keys \ {k} : disk'[j] = disk[j]
  <1>1. mem = disk
    BY DEF ServiceInv
  <1>2. mem' = disk'
    BY <1>1 DEF write_state, write
  <1>3. QED
    BY <1>1, <1>2, WriteStateTyped DEF Typed

\* So does every decision about a record of the pass; one it begins to
\* pay is "submitting" in the file before the service holds it in hand.
LEMMA ServiceRecords ==
  ASSUME Typed, ServiceInv, NEW k \in todo,
         \/ recheck_mint(k) \/ hold_deposit(k) \/ begin_mint(k)
         \/ already_released(k) \/ recheck_release(k) \/ queue_burn(k) \/ begin_release(k)
  PROVE  ServiceInv'
  <1>1. k \in Keys /\ todo \subseteq Keys /\ pc \in {"eth", "hk"} /\ mem = disk
    BY DEF Typed, StanceTyped, ServiceInv, recheck_mint, hold_deposit, begin_mint,
           already_released, recheck_release, queue_burn, begin_release
  <1>2. \/ UNCHANGED book
        \/ \E s \in States : write_state(k, s)
    BY StatesNamed DEF recheck_mint, hold_deposit, begin_mint,
           already_released, recheck_release, queue_burn, begin_release
  <1>3. mem' = disk' /\ \A j \in Keys \ {k} : disk'[j] = disk[j]
    <2>1. CASE UNCHANGED book
      BY <1>1, <2>1 DEF book
    <2>2. CASE \E s \in States : write_state(k, s)
      BY <1>1, <2>2, RecordStep
    <2>3. QED
      BY <1>2, <2>1, <2>2
  <1>4. CASE done(k)
    <2>1. todo' = todo \ {k} /\ UNCHANGED pc
      BY <1>4 DEF done
    <2>2. QED
      BY <1>1, <1>3, <2>1 DEF ServiceInv, InHand, Mintable, Releasable
  <1>5. CASE begin_mint(k)
    <2>1. pc = "eth" /\ pc' = "mint" /\ cur' = k /\ UNCHANGED todo /\ write_state(k, "submitting")
      BY <1>5 DEF begin_mint
    <2>2. disk'[k].state = "submitting"
      BY <1>1, <2>1, RecordStep, StatesNamed
    <2>3. k[1] \in EthKinds /\ \A j \in todo \ {k} : Mintable(j)
      BY <2>1 DEF ServiceInv, Mintable
    <2>4. QED
      BY <1>1, <1>3, <2>1, <2>2, <2>3 DEF ServiceInv, InHand, Mintable
  <1>6. CASE begin_release(k)
    <2>1. pc = "hk" /\ pc' = "release" /\ cur' = k /\ UNCHANGED todo /\ write_state(k, "submitting")
      BY <1>6 DEF begin_release
    <2>2. disk'[k].state = "submitting"
      BY <1>1, <2>1, RecordStep, StatesNamed
    <2>3. k[1] \in HkKinds /\ \A j \in todo \ {k} : Releasable(j)
      BY <2>1 DEF ServiceInv, Releasable
    <2>4. k[1] \notin EthKinds
      BY <1>1, <2>3, KeyFacts
    <2>5. QED
      BY <1>1, <1>3, <2>1, <2>2, <2>3, <2>4 DEF ServiceInv, InHand, Releasable
  <1>7. QED
    BY <1>4, <1>5, <1>6
    DEF recheck_mint, hold_deposit, already_released, recheck_release, queue_burn

\* The record in hand keeps the state its step of the loop expects.
LEMMA ServiceInHand ==
  ASSUME Typed, ServiceInv,
         hk_submit \/ submit_failed \/ submitted \/ hk_wait_receipt \/ send_call \/ wait_release
  PROVE  ServiceInv'
  <1>1. pc \in InHand /\ cur \in Keys /\ mem = disk /\ todo \subseteq Keys
    BY DEF hk_submit, submit_failed, submitted, hk_wait_receipt, send_call, wait_release,
           InHand, ServiceInv, Typed, StanceTyped
  <1>2. faults \in Faults /\ StanceTyped /\ nonce \in Nat /\ Len(calls) + 1 \in Nat
    BY SeqIsFunction DEF Typed, HkTyped, ChainTyped
  <1>3. CASE hk_submit \/ send_call
    <2>1. pc \in {"mint", "release"} /\ UNCHANGED book
      BY <1>3 DEF hk_submit, send_call
    <2>2. pc' \in {"sent", "failed"} /\ UNCHANGED <<todo, cur>>
      <3>1. \A id \in Nat : answer(id) => pc' \in {"sent", "failed"} /\ UNCHANGED <<todo, cur>>
        BY <1>1, <1>2, AnswerTyped
      <3>2. goto("failed") => pc' \in {"sent", "failed"} /\ UNCHANGED <<todo, cur>>
        BY DEF goto
      <3>3. QED
        BY <1>2, <1>3, <3>1, <3>2 DEF hk_submit, send_call
    <2>3. QED
      BY <1>1, <2>1, <2>2 DEF book, ServiceInv, InHand, Mintable, Releasable
  <1>4. CASE submit_failed
    <2>1. mem' = disk' /\ pc' = "scan_eth"
      BY <1>1, <1>4 DEF submit_failed, write_state, write, give_up
    <2>2. QED
      BY <2>1 DEF ServiceInv, InHand
  <1>5. CASE submitted
    <2> DEFINE r == [mem[cur] EXCEPT !.state = "submitted", !.tx = txid]
    <2>1. mem[cur] \in Records /\ txid \in Nat
      BY <1>1 DEF Typed, BookTyped, StanceTyped
    <2>2. r \in Records /\ r.state = "submitted"
      BY <2>1, StatesNamed DEF Records
    <2>3. write(cur, r) /\ goto("wait") /\ pc = "sent"
      BY <1>5 DEF submitted
    <2> HIDE DEF r
    <2>4. mem' = disk' /\ disk'[cur].state = "submitted"
          /\ \A j \in Keys \ {cur} : disk'[j] = disk[j]
      <3>1. mem' = disk'
        BY <1>1, <2>3 DEF write
      <3>2. QED
        BY <1>1, <2>2, <2>3, <3>1, WriteTyped DEF Typed
    <2>5. pc' = "wait" /\ UNCHANGED <<todo, cur>>
      BY <2>3 DEF goto
    <2>6. QED
      BY <1>1, <2>3, <2>4, <2>5 DEF ServiceInv, InHand, Mintable, Releasable
  <1>6. CASE hk_wait_receipt \/ wait_release
    <2>1. UNCHANGED book \/ \E s \in States : write_state(cur, s)
      BY <1>6, StatesNamed DEF hk_wait_receipt, wait_release
    <2>2. mem' = disk' /\ \A j \in Keys \ {cur} : disk'[j] = disk[j]
      <3>1. CASE UNCHANGED book
        BY <1>1, <3>1 DEF book
      <3>2. CASE \E s \in States : write_state(cur, s)
        BY <1>1, <3>2, RecordStep DEF InHand
      <3>3. QED
        BY <2>1, <3>1, <3>2
    <2>3. CASE hk_wait_receipt
      <3>1. cur[1] \in EthKinds /\ pc' = "eth" /\ todo' = todo \ {cur}
        BY <2>3 DEF hk_wait_receipt, next_record
      <3>2. QED
        BY <1>1, <2>2, <3>1 DEF ServiceInv, InHand, Mintable
    <2>4. CASE wait_release
      <3>1. cur[1] \in HkKinds /\ pc' = "hk" /\ todo' = todo \ {cur}
        BY <2>4 DEF wait_release, next_record
      <3>2. cur[1] \notin EthKinds
        BY <3>1, KeyFacts
      <3>3. QED
        BY <1>1, <2>2, <3>1, <3>2 DEF ServiceInv, InHand, Releasable
    <2>5. QED
      BY <1>6, <2>3, <2>4
  <1>7. QED
    BY <1>3, <1>4, <1>5, <1>6

\* An error, a crash, a restart or the operator: nothing is in hand after.
LEMMA ServiceStops ==
  ASSUME Typed, ServiceInv, tick_error \/ Crash \/ Restart \/ \E k \in Keys : resolve(k)
  PROVE  ServiceInv'
  <1>1. CASE tick_error
    BY <1>1 DEF tick_error, give_up, book, ServiceInv, InHand
  <1>2. CASE Crash
    BY <1>2 DEF Crash, ServiceInv, InHand
  <1>3. CASE Restart
    BY <1>3 DEF Restart, ServiceInv, InHand
  <1>4. CASE \E k \in Keys : resolve(k)
    BY <1>4 DEF resolve, stance, ServiceInv, InHand
  <1>5. QED
    BY <1>1, <1>2, <1>3, <1>4

\* Users and chains leave the service alone.
LEMMA WorldStep ==
  ASSUME Users \/ Chains
  PROVE  UNCHANGED <<book, stance>>
  BY DEF Users, Chains, Lock, HkBurn, CreateAccount, EthBlock, NewDay, Reorg, ForgetReceipts,
         Pause, Unpause, Include, CommitMint

\* Every step keeps the types and the service's position.
LEMMA PositionStep == Typed /\ ServiceInv /\ [Next]_vars => Typed' /\ ServiceInv'
  <1> SUFFICES ASSUME Typed, ServiceInv, [Next]_vars PROVE Typed' /\ ServiceInv'
    OBVIOUS
  <1>1. CASE Users \/ Chains
    BY <1>1, UsersTyped, ChainsTyped, WorldStep, ServiceKept
  <1>2. CASE Service
    <2>1. pc \in InHand => cur \in Keys
      BY DEF ServiceInv
    <2>2. QED
      BY <1>2, <2>1, RecordsTyped, InHandTyped, ScansTyped, ServiceRecords, ServiceInHand,
         ServiceScans DEF Service
  <1>3. CASE tick_error \/ Crash \/ Restart \/ \E k \in Keys : resolve(k)
    BY <1>3, StopsTyped, ServiceStops
  <1>4. CASE UNCHANGED vars
    BY <1>4, KeptTyped, ServiceKept DEF vars, Typed
  <1>5. QED
    BY <1>1, <1>2, <1>3, <1>4 DEF Next

\* The service starts with an empty ledger.
LEMMA PositionInit == Init => Typed /\ ServiceInv
  <1> SUFFICES ASSUME Init PROVE Typed /\ ServiceInv
    OBVIOUS
  <1>1. ChainTyped
    <2>1. \A l \in Legs : contract[l] \in Contracts
      BY DEF Init, Contracts
    <2>2. calls \in Seq(Calls) /\ events \subseteq Events /\ IsFiniteSet(events) /\ head \in Nat
      BY FS_EmptySet DEF Init
    <2>3. contract \in [Legs -> Contracts]
      BY <2>1 DEF Init
    <2>4. QED
      BY <2>2, <2>3 DEF ChainTyped
  <1>2. HkTyped
    <2>1. burns \in Seq(Burns) /\ Len(burns) <= MaxBurns
      BY BoundsNat DEF Init
    <2>2. QED
      BY <2>1, FS_EmptySet DEF Init, HkTyped
  <1>3. BookTyped
    BY StatesNamed DEF Init, BookTyped, Unrecorded, Record, Records
  <1>4. StanceTyped
    BY DEF Init, StanceTyped, Labels
  <1>5. faults \in Faults
    BY DEF Init, Faults
  <1>6. ServiceInv
    BY DEF Init, ServiceInv, InHand
  <1>7. QED
    BY <1>1, <1>2, <1>3, <1>4, <1>5, <1>6 DEF Typed

-----------------------------------------------------------------------------
(* A deposit is minted once                                                *)

\* Mints of a record that took effect or still may.
spent(k) == minted[k] + (IF \E m \in pending : m.key = k THEN 1 ELSE 0)

\* The service may still send, or send again, the mint of this record.
Unsent(k) == \/ disk[k].state \in {"none", "seen", "held_recipient"}
             \/ pc \in {"mint", "failed"} /\ cur = k

\* Only one mint of the issuer is ever pending, at its current nonce; what may
\* still be sent was never admitted, but for the answers that were lost.
MintInv ==
  /\ \A m \in pending : m.nonce = nonce /\ m.key[1] \in EthKinds /\ \A n \in pending : n = m
  /\ \A k \in Keys : k[1] \in HkKinds => minted[k] = 0
  /\ \A k \in Keys : spent(k) <= 1 + faults.lost[k]
  /\ \A k \in Keys : Unsent(k) => spent(k) <= faults.lost[k]

\* A step that mints nothing keeps the account of the mints, if no record
\* becomes unsent that was paid before.
LEMMA MintKept ==
  ASSUME Typed, MintInv, faults' \in Faults, UNCHANGED <<minted, pending, nonce>>,
         \A k \in Keys : faults'.lost[k] >= faults.lost[k],
         \A k \in Keys : Unsent(k)' => Unsent(k) \/ k[1] \in HkKinds \/ spent(k) = 0
  PROVE  MintInv'
  <1>1. \A k \in Keys : /\ spent(k)' = spent(k) /\ spent(k) \in Nat
                        /\ faults'.lost[k] \in Nat /\ faults.lost[k] \in Nat
    BY DEF spent, Typed, HkTyped, Faults
  <1>2. \A k \in Keys : k[1] \in HkKinds => spent(k) = 0
    BY KeyFacts DEF spent, MintInv
  <1>3. (\A k \in Keys : spent(k) <= 1 + faults.lost[k])'
    BY <1>1 DEF MintInv
  <1>4. (\A k \in Keys : Unsent(k) => spent(k) <= faults.lost[k])'
    BY <1>1, <1>2 DEF MintInv
  <1>5. QED
    BY <1>3, <1>4 DEF MintInv

\* A mint leaves the mempool when it is committed, so it is counted once.
LEMMA MintWorld ==
  ASSUME Typed, Typed', MintInv, Users \/ Chains
  PROVE  MintInv'
  <1>1. ASSUME NEW m \in pending, NEW ok \in BOOLEAN, CommitMint(m, ok) PROVE MintInv'
    <2>1. /\ pending' = pending \ {m} /\ UNCHANGED <<book, stance>>
          /\ nonce' = (IF ok THEN nonce + 1 ELSE nonce)
          /\ minted' = [minted EXCEPT ![m.key] = IF ok THEN @ + 1 ELSE @]
      BY <1>1 DEF CommitMint
    <2>2. faults' \in Faults /\ faults'.lost = faults.lost
      BY <1>1, SpendTyped DEF CommitMint, Typed
    <2>3. pending = {m} /\ pending' = {} /\ m.key \in Keys /\ m.key[1] \in EthKinds
      BY <2>1 DEF MintInv, Typed, HkTyped, Mints
    <2>4. ASSUME NEW k \in Keys PROVE spent(k)' <= spent(k) /\ spent(k) \in Nat /\ spent(k)' \in Nat
      <3>1. minted[k] \in Nat /\ minted'[k] = IF k = m.key /\ ok THEN minted[k] + 1 ELSE minted[k]
        BY <2>1 DEF Typed, HkTyped
      <3>2. spent(k)' = minted'[k]
        BY <2>3, <3>1 DEF spent
      <3>3. spent(k) = minted[k] + (IF k = m.key THEN 1 ELSE 0)
        BY <2>3 DEF spent
      <3>4. QED
        BY <3>1, <3>2, <3>3
    <2>5. \A k \in Keys : Unsent(k)' => Unsent(k)
      BY <2>1 DEF Unsent, book, stance
    <2>6. \A k \in Keys : faults.lost[k] \in Nat
      BY DEF Typed, Faults
    <2>7. (\A k \in Keys : spent(k) <= 1 + faults.lost[k])'
      BY <2>2, <2>4, <2>6 DEF MintInv
    <2>8. (\A k \in Keys : Unsent(k) => spent(k) <= faults.lost[k])'
      BY <2>2, <2>4, <2>5, <2>6 DEF MintInv
    <2>9. (\A k \in Keys : k[1] \in HkKinds => minted[k] = 0)'
      BY <2>1, <2>3, KeyFacts DEF MintInv, Typed, HkTyped
    <2>10. QED
      BY <2>3, <2>7, <2>8, <2>9 DEF MintInv
  <1>2. CASE UNCHANGED <<minted, pending, nonce, book, stance>> /\ faults'.lost = faults.lost
    <2>1. \A k \in Keys : Unsent(k)' => Unsent(k)
      BY <1>2 DEF Unsent, book, stance
    <2>2. \A k \in Keys : faults.lost[k] \in Nat
      BY DEF Typed, Faults
    <2>3. QED
      BY <1>2, <2>1, <2>2, MintKept DEF Typed
  <1>3. CASE Users
    BY <1>2, <1>3 DEF Users, Lock, HkBurn, CreateAccount, hk
  <1>4. CASE Chains
    <2>1. CASE EthBlock \/ NewDay \/ \E i \in DOMAIN calls : Include(i)
      BY <1>2, <2>1 DEF EthBlock, NewDay, Include, hk
    <2>2. CASE Reorg \/ ForgetReceipts \/ \E l \in Legs : Pause(l) \/ Unpause(l)
      <3>1. faults'.lost = faults.lost
        BY <2>2, SpendTyped DEF Reorg, ForgetReceipts, Pause, Unpause, Typed
      <3>2. QED
        BY <1>2, <2>2, <3>1 DEF Reorg, ForgetReceipts, Pause, Unpause, hk
    <2>3. QED
      BY <1>1, <1>4, <2>1, <2>2 DEF Chains
  <1>5. QED
    BY <1>3, <1>4

\* A recorded event is new: nothing was minted for its key.
LEMMA MintScans ==
  ASSUME Typed, ServiceInv, MintInv,
         \/ \E e \in events : record_eth_event(e)
         \/ scan_eth \/ end_eth \/ record_hk_burn \/ scan_hk \/ read_vault \/ end_hk
  PROVE  MintInv'
  <1>1. UNCHANGED <<hk, faults>> /\ pc \notin {"mint", "failed"} /\ pc' \notin {"mint", "failed"}
    BY DEF record_eth_event, scan_eth, end_eth, record_hk_burn, scan_hk, read_vault, end_hk,
           goto, stance
  <1>2. \A k \in Keys : disk'[k] = disk[k] \/ disk[k].state = "none"
    <2>1. CASE \E e \in events : record_eth_event(e)
      BY <2>1 DEF record_eth_event, write, has, ServiceInv, Typed, BookTyped
    <2>2. CASE record_hk_burn
      BY <2>2 DEF record_hk_burn, write, has, ServiceInv, Typed, BookTyped
    <2>3. CASE UNCHANGED disk
      BY <2>3
    <2>4. QED
      BY <2>1, <2>2, <2>3 DEF scan_eth, end_eth, scan_hk, read_vault, end_hk, book
  <1>3. \A k \in Keys : Unsent(k)' => Unsent(k)
    BY <1>1, <1>2 DEF Unsent
  <1>4. faults' \in Faults /\ \A k \in Keys : faults'.lost[k] >= faults.lost[k]
    BY <1>1 DEF Typed, Faults
  <1>5. QED
    BY <1>1, <1>3, <1>4, MintKept DEF hk

\* A record taken up for minting is one nothing was sent for.
LEMMA MintRecords ==
  ASSUME Typed, ServiceInv, MintInv, NEW k \in todo,
         \/ recheck_mint(k) \/ hold_deposit(k) \/ begin_mint(k)
         \/ already_released(k) \/ recheck_release(k) \/ queue_burn(k) \/ begin_release(k)
  PROVE  MintInv'
  <1>1. k \in Keys /\ pc \in {"eth", "hk"} /\ UNCHANGED <<hk, faults>>
    BY DEF Typed, StanceTyped, recheck_mint, hold_deposit, begin_mint,
           already_released, recheck_release, queue_burn, begin_release
  <1>2. faults' \in Faults /\ \A j \in Keys : faults'.lost[j] >= faults.lost[j]
    BY <1>1 DEF Typed, Faults
  <1>3. \/ UNCHANGED disk
        \/ \E s \in States : write_state(k, s)
    BY StatesNamed DEF recheck_mint, hold_deposit, begin_mint,
           already_released, recheck_release, queue_burn, begin_release, book
  <1>4. \A j \in Keys \ {k} : disk'[j] = disk[j]
    BY <1>1, <1>3, RecordStep
  <1>5. pc' \in {"eth", "hk", "release"} \/ (pc' = "mint" /\ cur' = k)
    BY <1>1 DEF recheck_mint, hold_deposit, begin_mint,
           already_released, recheck_release, queue_burn, begin_release, done
  <1>6. Unsent(k)' => Unsent(k) \/ k[1] \in HkKinds
    <2>1. CASE pc = "hk"
      BY <2>1 DEF ServiceInv, Releasable
    <2>2. CASE pc = "eth" /\ mem[k].state # "submitted"
      BY <2>2 DEF ServiceInv, Mintable, EthToDo, Unsent
    <2>3. CASE recheck_mint(k)
      <3>1. disk'[k].state \in {"submitted", "confirmed", "rejected"}
        <4>1. CASE UNCHANGED book
          BY <2>3, <4>1 DEF recheck_mint, ServiceInv, book
        <4>2. ASSUME NEW s \in {"confirmed", "rejected"}, write_state(k, s)
              PROVE  disk'[k].state \in {"confirmed", "rejected"}
          BY <1>1, <4>2, StatesNamed, RecordStep
        <4>3. QED
          BY <2>3, <4>1, <4>2 DEF recheck_mint
      <3>2. pc' = "eth"
        BY <2>3 DEF recheck_mint, done
      <3>3. QED
        BY <3>1, <3>2 DEF Unsent
    <2>4. QED
      BY <1>1, <2>1, <2>2, <2>3 DEF hold_deposit, begin_mint, already_released, recheck_release,
         queue_burn, begin_release
  <1>7. \A j \in Keys : Unsent(j)' => Unsent(j) \/ j[1] \in HkKinds
    BY <1>4, <1>5, <1>6 DEF Unsent
  <1>8. QED
    BY <1>1, <1>2, <1>7, MintKept DEF hk

\* One submission adds one mint; a failed one that was admitted is a lost
\* answer.
LEMMA MintInHand ==
  ASSUME Typed, Typed', ServiceInv, MintInv,
         hk_submit \/ submit_failed \/ submitted \/ hk_wait_receipt \/ send_call \/ wait_release
  PROVE  MintInv'
  <1>1. pc \in InHand /\ cur \in Keys /\ mem = disk
    BY DEF hk_submit, submit_failed, submitted, hk_wait_receipt, send_call, wait_release,
           InHand, ServiceInv
  <1>2. \A k \in Keys : faults.lost[k] \in Nat /\ faults'.lost[k] \in Nat
    BY DEF Typed, Faults
  <1>3. CASE submit_failed \/ submitted \/ hk_wait_receipt \/ wait_release
    <2>1. UNCHANGED <<hk, faults>>
      BY <1>3 DEF submit_failed, submitted, hk_wait_receipt, wait_release
    <2>2. \A k \in Keys \ {cur} : disk'[k] = disk[k]
      <3>1. CASE submitted
        BY <1>1, <3>1 DEF submitted, write, Typed, BookTyped
      <3>2. CASE submit_failed \/ hk_wait_receipt \/ wait_release
        <4>1. UNCHANGED disk \/ \E s \in States : write_state(cur, s)
          BY <3>2, StatesNamed DEF submit_failed, hk_wait_receipt, wait_release, book
        <4>2. QED
          BY <1>1, <4>1, RecordStep DEF InHand
      <3>3. QED
        BY <1>3, <3>1, <3>2
    <2>3. pc' \notin {"mint", "failed"}
      BY <1>3 DEF submit_failed, submitted, hk_wait_receipt, wait_release, goto, next_record,
             give_up
    <2>4. ASSUME NEW c \in Keys, c = cur PROVE Unsent(c)' => Unsent(c) \/ c[1] \in HkKinds
      <3>1. CASE submit_failed
        BY <2>4, <3>1 DEF submit_failed, Unsent
      <3>2. CASE submitted
        <4>1. [mem[cur] EXCEPT !.state = "submitted", !.tx = txid].state = "submitted"
          BY <1>1 DEF Typed, BookTyped, Records
        <4>2. disk'[c].state = "submitted"
          BY <1>1, <2>4, <3>2, <4>1 DEF submitted, write, Typed, BookTyped
        <4>3. QED
          BY <2>3, <4>2 DEF Unsent
      <3>3. CASE hk_wait_receipt
        <4>1. disk'[c].state \in {"submitted", "confirmed", "rejected"}
          <5>1. CASE UNCHANGED book
            BY <2>4, <3>3, <5>1 DEF hk_wait_receipt, ServiceInv, InHand, book
          <5>2. ASSUME NEW s \in {"confirmed", "rejected"}, write_state(cur, s)
                PROVE  disk'[c].state \in {"confirmed", "rejected"}
            BY <1>1, <2>4, <5>2, StatesNamed, RecordStep DEF InHand
          <5>3. QED
            BY <3>3, <5>1, <5>2 DEF hk_wait_receipt
        <4>2. QED
          BY <2>3, <4>1 DEF Unsent
      <3>4. CASE wait_release
        BY <2>4, <3>4 DEF wait_release
      <3>5. QED
        BY <1>3, <3>1, <3>2, <3>3, <3>4
    <2>5. \A k \in Keys : Unsent(k)' => Unsent(k) \/ k[1] \in HkKinds
      BY <2>2, <2>3, <2>4 DEF Unsent
    <2>6. QED
      BY <1>2, <2>1, <2>5, MintKept DEF hk, Typed
  <1>4. CASE send_call
    <2>1. pc = "release" /\ cur[1] \in HkKinds /\ UNCHANGED <<hk, book>>
      BY <1>4 DEF send_call, ServiceInv
    <2>2. UNCHANGED cur /\ \A k \in Keys : faults'.lost[k] >= faults.lost[k]
      <3>1. Len(calls) + 1 \in Nat /\ faults \in Faults /\ StanceTyped
        BY SeqIsFunction DEF Typed, ChainTyped
      <3>2. CASE answer(Len(calls) + 1)
        BY <1>1, <1>2, <3>1, <3>2, AnswerTyped
      <3>3. CASE goto("failed") /\ (UNCHANGED faults \/ Spend("abort"))
        BY <1>2, <3>1, <3>3, SpendTyped DEF goto
      <3>4. QED
        BY <1>4, <3>2, <3>3 DEF send_call
    <2>3. \A k \in Keys : Unsent(k)' => Unsent(k) \/ k[1] \in HkKinds
      BY <2>1, <2>2 DEF Unsent, book
    <2>4. QED
      BY <2>1, <2>2, <2>3, MintKept DEF hk, Typed
  <1>5. CASE hk_submit
    <2>1. /\ pc = "mint" /\ cur[1] \in EthKinds /\ Unsent(cur)
          /\ UNCHANGED <<minted, nonce, book>>
      BY <1>5 DEF hk_submit, ServiceInv, Unsent
    <2>2. faults \in Faults /\ StanceTyped /\ nonce \in Nat
      BY DEF Typed, HkTyped
    <2>3. CASE goto("failed") /\ UNCHANGED pending /\ (UNCHANGED faults \/ Spend("abort"))
      <3>1. faults'.lost = faults.lost
        BY <2>2, <2>3, SpendTyped
      <3>2. \A k \in Keys : Unsent(k)' => Unsent(k)
        BY <2>1, <2>3 DEF Unsent, book, goto
      <3>3. QED
        BY <1>2, <2>1, <2>3, <3>1, <3>2, MintKept DEF Typed
    <2>4. CASE /\ \A m \in pending : m.nonce # nonce
               /\ pending' = pending \cup {[key |-> cur, nonce |-> nonce, amount |-> mem[cur].amount]}
               /\ answer(nonce)
      <3> DEFINE n == [key |-> cur, nonce |-> nonce, amount |-> mem[cur].amount]
      <3>1. n.key = cur /\ n.nonce = nonce
        OBVIOUS
      <3>2. pending = {} /\ pending' = {n}
        BY <2>4 DEF MintInv
      <3> HIDE DEF n
      <3>3. ASSUME NEW k \in Keys
            PROVE  /\ spent(k) = minted[k] /\ spent(k) \in Nat
                   /\ spent(k)' = IF k = cur THEN spent(k) + 1 ELSE spent(k)
        BY <2>1, <3>1, <3>2 DEF spent, Typed, HkTyped
      <3>4. UNCHANGED cur /\ pc' \in {"sent", "failed"}
            /\ \/ pc' = "sent" /\ UNCHANGED faults
               \/ \A j \in Keys : faults'.lost[j]
                     = IF j = cur THEN faults.lost[j] + 1 ELSE faults.lost[j]
        BY <1>1, <2>2, <2>4, AnswerTyped
      <3>5. \A k \in Keys : Unsent(k)' => Unsent(k)
        BY <2>1, <3>4 DEF Unsent, book
      <3>6. disk'[cur].state = "submitting"
        BY <2>1 DEF book, ServiceInv, InHand
      <3>7. (\A k \in Keys : spent(k) <= 1 + faults.lost[k])'
        BY <1>1, <1>2, <2>1, <3>3, <3>4 DEF MintInv
      <3>8. ASSUME NEW k \in Keys, Unsent(k)' PROVE spent(k)' <= faults'.lost[k]
        <4>1. CASE k # cur
          <5>1. spent(k) <= faults.lost[k]
            BY <3>5, <3>8 DEF MintInv
          <5>2. QED
            BY <1>2, <3>3, <3>4, <4>1, <5>1
        <4>2. CASE k = cur
          <5>1. pc' = "failed"
            BY <3>4, <3>6, <3>8, <4>2 DEF Unsent
          <5>2. faults'.lost[k] = faults.lost[k] + 1
            BY <1>1, <3>4, <4>2, <5>1
          <5>3. spent(k) <= faults.lost[k]
            BY <2>1, <4>2 DEF MintInv
          <5>4. QED
            BY <1>2, <3>3, <4>2, <5>2, <5>3
        <4>3. QED
          BY <4>1, <4>2
      <3>9. QED
        BY <2>1, <3>1, <3>2, <3>7, <3>8 DEF MintInv
    <2>5. QED
      BY <1>5, <2>3, <2>4 DEF hk_submit
  <1>6. QED
    BY <1>3, <1>4, <1>5

\* Neither a restart nor the operator makes a record with a mint unsent.
LEMMA MintStops ==
  ASSUME Typed, Typed', ServiceInv, MintInv,
         tick_error \/ Crash \/ Restart \/ \E k \in Keys : resolve(k)
  PROVE  MintInv'
  <1>1. UNCHANGED hk /\ faults'.lost = faults.lost
    BY SpendTyped DEF tick_error, Crash, Restart, resolve, Typed
  <1>2. \A k \in Keys : faults.lost[k] \in Nat
    BY DEF Typed, Faults
  <1>3. \A k \in Keys : Unsent(k)' => Unsent(k) \/ k[1] \in HkKinds \/ spent(k) = 0
    <2>1. CASE tick_error \/ Crash \/ Restart
      BY <2>1 DEF tick_error, Crash, Restart, give_up, book, Unsent
    <2>2. ASSUME NEW k \in Keys, resolve(k)
          PROVE  \A j \in Keys : Unsent(j)' => Unsent(j) \/ j[1] \in HkKinds \/ spent(j) = 0
      <3>1. UNCHANGED stance /\ pc = "down" /\ \A j \in Keys \ {k} : disk'[j] = disk[j]
        BY <2>2 DEF resolve, Typed, BookTyped
      <3>2. CASE k[1] \in HkKinds
        BY <3>1, <3>2 DEF Unsent, stance
      <3>3. CASE minted[k] = 0 /\ \A m \in pending : m.key # k
        BY <3>1, <3>3 DEF Unsent, stance, spent
      <3>4. CASE disk' = [disk EXCEPT ![k].state = "confirmed"]
        <4>1. disk'[k].state = "confirmed"
          BY <3>4 DEF Typed, BookTyped, Records
        <4>2. QED
          BY <3>1, <4>1 DEF Unsent, stance
      <3>5. QED
        BY <2>2, <3>2, <3>3, <3>4, KeyFacts DEF resolve
    <2>3. QED
      BY <2>1, <2>2
  <1>4. QED
    BY <1>1, <1>2, <1>3, MintKept DEF hk, Typed

\* OneMintPerDeposit: an event on Ethereum is minted once on HashKinetics, and
\* once more only for each lost answer of hk_submit, whatever crashes, forks,
\* refusals and resolutions there are.
THEOREM BridgeOneMintPerDeposit == Spec => []OneMintPerDeposit
  <1>1. Init => MintInv
    <2> SUFFICES ASSUME Init PROVE MintInv
      OBVIOUS
    <2>1. \A k \in Keys : spent(k) = 0 /\ faults.lost[k] = 0 /\ minted[k] = 0
      BY DEF Init, spent
    <2>2. QED
      BY <2>1 DEF Init, MintInv
  <1>2. Typed /\ ServiceInv /\ MintInv /\ Typed' /\ [Next]_vars => MintInv'
    <2> SUFFICES ASSUME Typed, ServiceInv, MintInv, Typed', [Next]_vars PROVE MintInv'
      OBVIOUS
    <2>1. CASE Users \/ Chains
      BY <2>1, MintWorld
    <2>2. CASE Service
      BY <2>2, MintScans, MintRecords, MintInHand DEF Service
    <2>3. CASE tick_error \/ Crash \/ Restart \/ \E k \in Keys : resolve(k)
      BY <2>3, MintStops
    <2>4. CASE UNCHANGED vars
      BY <2>4 DEF vars, hk, book, stance, MintInv, spent, Unsent
    <2>5. QED
      BY <2>1, <2>2, <2>3, <2>4 DEF Next
  <1>3. Typed /\ MintInv => OneMintPerDeposit
    <2> SUFFICES ASSUME Typed, MintInv, NEW k \in Keys PROVE minted[k] <= 1 + faults.lost[k]
      BY DEF OneMintPerDeposit
    <2>1. minted[k] \in Nat /\ faults.lost[k] \in Nat
      BY DEF Typed, HkTyped, Faults
    <2>2. spent(k) <= 1 + faults.lost[k] /\ spent(k) >= minted[k] /\ spent(k) \in Nat
      BY <2>1 DEF MintInv, spent
    <2>3. QED
      BY <2>1, <2>2
  <1>4. QED
    BY <1>1, <1>2, <1>3, PositionInit, PositionStep, PTL DEF Spec

-----------------------------------------------------------------------------
(* A release pays an accepted burn once                                    *)

GoodBurn(l, i, a) ==
  /\ i \in DOMAIN burns /\ burns[i].accepted /\ burns[i].bridgeable
  /\ burns[i].leg = l /\ burns[i].amount = a

\* States from which the service sends a release, at once or later.
Sendable == {"seen", "queued_cap", "queued_paused", "submitting", "submitted", "reverted"}

\* The record of a burn is the burn, and is sendable only if it was accepted.
BurnInv ==
  \A k \in Keys : k[1] \in HkKinds /\ disk[k].state # "none" =>
     /\ k[2] \in DOMAIN burns /\ burns[k[2]].leg = LegOf(k) /\ burns[k[2]].amount = disk[k].amount
     /\ disk[k].state \in Sendable => burns[k[2]].accepted /\ burns[k[2]].bridgeable

Same(i, j) == calls[i].leg = calls[j].leg /\ calls[i].id = calls[j].id

CallsInv ==
  /\ \A i \in DOMAIN calls : GoodBurn(calls[i].leg, calls[i].id, calls[i].amount)
  /\ \A i \in DOMAIN calls :
        calls[i].status = "ok" => calls[i].id \in contract[calls[i].leg].processed
  /\ \A i, j \in DOMAIN calls :
        calls[i].status = "ok" /\ calls[j].status = "ok" /\ Same(i, j) => i = j

\* Burns are only added, and only what is known of them is forgotten.
LEMMA BurnsStay ==
  ASSUME Typed, Users \/ Chains
  PROVE  \A i \in DOMAIN burns :
            /\ i \in DOMAIN burns' /\ burns'[i].accepted = burns[i].accepted
            /\ burns'[i].bridgeable = burns[i].bridgeable
            /\ burns'[i].leg = burns[i].leg /\ burns'[i].amount = burns[i].amount
  <1>1. burns \in Seq(Burns) /\ \A i \in DOMAIN burns : burns[i] \in Burns
    BY SeqIsFunction DEF Typed, HkTyped
  <1>2. ASSUME NEW l \in Legs, NEW a, NEW b, NEW ok, HkBurn(l, a, b, ok)
        PROVE  \A i \in DOMAIN burns : i \in DOMAIN burns' /\ burns'[i] = burns[i]
    <2> DEFINE r == [leg |-> l, amount |-> a, bridgeable |-> b, accepted |-> ok, known |-> TRUE]
    <2>1. burns' = Append(burns, r)
      BY <1>2 DEF HkBurn
    <2> HIDE DEF r
    <2>2. QED
      BY <1>1, <2>1
  <1>3. CASE ForgetReceipts
    <2>1. \A r \in Burns : LET q == [r EXCEPT !.known = FALSE] IN
             /\ q.accepted = r.accepted /\ q.bridgeable = r.bridgeable
             /\ q.leg = r.leg /\ q.amount = r.amount
      BY DEF Burns
    <2>2. burns' = [i \in DOMAIN burns |-> [burns[i] EXCEPT !.known = FALSE]]
      BY <1>3 DEF ForgetReceipts
    <2>3. QED
      BY <1>1, <2>1, <2>2
  <1>4. CASE UNCHANGED burns
    BY <1>4
  <1>5. QED
    BY <1>2, <1>3, <1>4 DEF Users, Chains, Lock, CreateAccount, EthBlock, NewDay, Reorg,
       Pause, Unpause, Include, CommitMint, hk

\* Burns are only appended, and forgetting receipts does not change what
\* was accepted.
LEMMA BurnWorld ==
  ASSUME Typed, BurnInv, Users \/ Chains
  PROVE  /\ BurnInv'
         /\ \A l, i, a : GoodBurn(l, i, a) => GoodBurn(l, i, a)'
  <1>1. UNCHANGED disk
    BY WorldStep DEF book
  <1>2. QED
    BY <1>1, BurnsStay DEF BurnInv, GoodBurn

\* A step that records no burn keeps the records of burns true.
LEMMA BurnKept ==
  ASSUME BurnInv, UNCHANGED burns,
         \A k \in Keys : k[1] \in HkKinds =>
            \/ disk'[k] = disk[k]
            \/ /\ disk[k].state # "none" /\ disk'[k].amount = disk[k].amount
               /\ disk'[k].state \in Sendable => \/ disk[k].state \in Sendable
                                                 \/ burns[k[2]].accepted /\ burns[k[2]].bridgeable
  PROVE  BurnInv'
  BY DEF BurnInv

\* Only an accepted, bridgeable burn is recorded as one to release.
LEMMA BurnScans ==
  ASSUME Typed, ServiceInv, BurnInv,
         \/ \E e \in events : record_eth_event(e)
         \/ scan_eth \/ end_eth \/ record_hk_burn \/ scan_hk \/ read_vault \/ end_hk
  PROVE  BurnInv'
  <1>1. ASSUME NEW e \in events, record_eth_event(e) PROVE BurnInv'
    <2>1. e.key \in Keys /\ e.key[1] \in EthKinds /\ UNCHANGED burns
      BY <1>1 DEF Typed, ChainTyped, Events, record_eth_event, hk
    <2>2. \A k \in Keys \ {e.key} : disk'[k] = disk[k]
      BY <1>1 DEF record_eth_event, write, Typed, BookTyped
    <2>3. QED
      BY <2>1, <2>2, KeyFacts, BurnKept
  <1>2. CASE record_hk_burn
    <2> DEFINE i == hk_cursor + 1
               b == burns[i]
               s == IF receipt_class(b) = "unknown" THEN "needs_review"
                    ELSE IF b.bridgeable THEN "seen" ELSE "unbridgeable"
               r == Record(s, b.amount, i, 0)
               k == BurnKey(i)
    <2>1. i \in DOMAIN burns /\ write(k, r) /\ receipt_class(b) # "rejected" /\ UNCHANGED burns
      BY <1>2 DEF record_hk_burn, hk
    <2>2. b \in Burns /\ i \in 1..MaxBurns
      BY <2>1, SeqIsFunction, BoundsNat DEF Typed, HkTyped
    <2>3. k \in Keys /\ k[2] = i /\ LegOf(k) = b.leg
      BY <2>2 DEF BurnKey, Keys, HkKind, HkKinds, Legs, Burns, LegOf
    <2>4. r.state = s /\ r.amount = b.amount
      BY DEF Record
    <2>5. s \in Sendable => b.accepted /\ b.bridgeable
      BY <2>1, <2>2 DEF receipt_class, Sendable, Burns
    <2> HIDE DEF r, k, s, b
    <2>6. disk'[k] = r /\ \A j \in Keys \ {k} : disk'[j] = disk[j]
      BY <2>1, <2>3 DEF write, Typed, BookTyped
    <2>7. QED
      BY <2>1, <2>3, <2>4, <2>5, <2>6 DEF BurnInv, b
  <1>3. CASE UNCHANGED <<disk, burns>>
    BY <1>3, BurnKept
  <1>4. QED
    BY <1>1, <1>2, <1>3 DEF scan_eth, end_eth, scan_hk, read_vault, end_hk, book, hk

\* The pass over the burns makes no record sendable that was not.
LEMMA BurnRecords ==
  ASSUME Typed, ServiceInv, BurnInv, NEW k \in todo,
         \/ recheck_mint(k) \/ hold_deposit(k) \/ begin_mint(k)
         \/ already_released(k) \/ recheck_release(k) \/ queue_burn(k) \/ begin_release(k)
  PROVE  BurnInv'
  <1>1. k \in Keys /\ pc \in {"eth", "hk"} /\ UNCHANGED burns
    BY DEF Typed, StanceTyped, recheck_mint, hold_deposit, begin_mint,
           already_released, recheck_release, queue_burn, begin_release, hk
  <1>2. \/ UNCHANGED disk
        \/ \E s \in States : write_state(k, s)
    BY StatesNamed DEF recheck_mint, hold_deposit, begin_mint,
           already_released, recheck_release, queue_burn, begin_release, book
  <1>3. /\ \A j \in Keys \ {k} : disk'[j] = disk[j]
        /\ disk'[k].amount = disk[k].amount
    BY <1>1, <1>2, RecordStep
  <1>4. k[1] \in HkKinds => disk[k].state # "none" /\ disk[k].state \in Sendable
    BY <1>1, KeyFacts DEF ServiceInv, Mintable, Releasable, HkToDo, Sendable
  <1>5. QED
    BY <1>1, <1>3, <1>4, BurnKept

\* Neither do the steps that send and wait.
LEMMA BurnInHand ==
  ASSUME Typed, ServiceInv, BurnInv,
         hk_submit \/ submit_failed \/ submitted \/ hk_wait_receipt \/ send_call \/ wait_release
  PROVE  BurnInv'
  <1>1. pc \in InHand /\ cur \in Keys /\ mem = disk /\ UNCHANGED burns
        /\ disk[cur].state \in {"submitted", "submitting"}
    BY DEF hk_submit, submit_failed, submitted, hk_wait_receipt, send_call, wait_release,
           InHand, ServiceInv, hk
  <1>2. disk[cur].state # "none" /\ disk[cur].state \in Sendable
    BY <1>1 DEF Sendable
  <1>3. \A k \in Keys \ {cur} : disk'[k] = disk[k]
    <2>1. CASE submitted
      BY <1>1, <2>1 DEF submitted, write, Typed, BookTyped
    <2>2. CASE UNCHANGED disk \/ \E s \in States : write_state(cur, s)
      BY <1>1, <2>2, RecordStep DEF InHand
    <2>3. QED
      BY <2>1, <2>2, StatesNamed DEF hk_submit, submit_failed, hk_wait_receipt, send_call,
         wait_release, book
  <1>4. disk'[cur].amount = disk[cur].amount
    <2>1. CASE submitted
      <3>1. [mem[cur] EXCEPT !.state = "submitted", !.tx = txid].amount = mem[cur].amount
        BY <1>1 DEF Typed, BookTyped, Records
      <3>2. QED
        BY <1>1, <2>1, <3>1 DEF submitted, write, Typed, BookTyped
    <2>2. CASE UNCHANGED disk \/ \E s \in States : write_state(cur, s)
      BY <1>1, <2>2, RecordStep DEF InHand
    <2>3. QED
      BY <2>1, <2>2, StatesNamed DEF hk_submit, submit_failed, hk_wait_receipt, send_call,
         wait_release, book
  <1>5. QED
    BY <1>1, <1>2, <1>3, <1>4, BurnKept

\* The operator sends only an accepted burn round again.
LEMMA BurnStops ==
  ASSUME Typed, BurnInv, tick_error \/ Crash \/ Restart \/ \E k \in Keys : resolve(k)
  PROVE  BurnInv'
  <1>1. UNCHANGED burns
    BY DEF tick_error, Crash, Restart, resolve, hk
  <1>2. ASSUME NEW k \in Keys, resolve(k) PROVE BurnInv'
    <2>1. \A j \in Keys \ {k} : disk'[j] = disk[j]
      BY <1>2 DEF resolve, Typed, BookTyped
    <2>2. PICK s \in {"seen", "confirmed"} : disk' = [disk EXCEPT ![k].state = s]
      BY <1>2 DEF resolve
    <2>3. disk[k] \in Records
      BY DEF Typed, BookTyped
    <2>4. disk'[k].amount = disk[k].amount /\ disk'[k].state = s
      BY <2>2, <2>3 DEF Typed, BookTyped, Records
    <2>5. disk[k].state # "none"
      BY <1>2 DEF resolve, NeedsReview
    <2>6. s = "seen" /\ k[1] \in HkKinds => burns[k[2]].accepted /\ burns[k[2]].bridgeable
      <3>1. ASSUME disk' = [disk EXCEPT ![k].state = "confirmed"] PROVE disk'[k].state = "confirmed"
        BY <2>3, <3>1 DEF Typed, BookTyped, Records
      <3>2. QED
        BY <1>2, <2>4, <3>1, KeyFacts DEF resolve
    <2>7. s \in Sendable => s = "seen"
      BY DEF Sendable
    <2>8. QED
      BY <1>1, <2>1, <2>4, <2>5, <2>6, <2>7, BurnKept
  <1>3. CASE UNCHANGED disk
    BY <1>1, <1>3, BurnKept
  <1>4. QED
    BY <1>2, <1>3 DEF tick_error, Crash, Restart, book

\* The calls are records of their type, and so are their legs.
LEMMA CallsTyped ==
  ASSUME Typed
  PROVE  /\ Len(calls) \in Nat /\ DOMAIN calls = 1..Len(calls)
         /\ calls \in [1..Len(calls) -> Calls]
         /\ \A i \in DOMAIN calls : calls[i] \in Calls
         /\ \A i \in DOMAIN calls : calls[i].leg \in Legs /\ calls[i].id \in Nat
                                    /\ calls[i].amount \in Nat /\ calls[i].block \in Nat
  <1>1. calls \in Seq(Calls)
    BY DEF Typed, ChainTyped
  <1>2. /\ Len(calls) \in Nat /\ DOMAIN calls = 1..Len(calls)
        /\ calls \in [1..Len(calls) -> Calls]
    BY <1>1, SeqIsFunction
  <1>3. \A i \in DOMAIN calls : calls[i] \in Calls
    BY <1>2
  <1>4. \A c \in Calls : c.leg \in Legs /\ c.id \in Nat /\ c.amount \in Nat /\ c.block \in Nat
    BY DEF Calls
  <1>5. QED
    BY <1>2, <1>3, <1>4

\* The processed ids and the tokens of a contract whose fields are replaced.
LEMMA ContractReads ==
  ASSUME NEW r \in Contracts, NEW u, NEW q, NEW t
  PROVE  /\ [r EXCEPT !.used = u, !.processed = q, !.tokens = t].processed = q
         /\ [r EXCEPT !.used = u, !.processed = q, !.tokens = t].tokens = t
         /\ [r EXCEPT !.processed = q, !.used = u, !.tokens = t].processed = q
         /\ [r EXCEPT !.processed = q, !.used = u, !.tokens = t].tokens = t
  BY DEF Contracts

\* Calls and what the contracts processed stay as they are.
LEMMA CallsKept ==
  ASSUME CallsInv, UNCHANGED calls, \A l \in Legs : contract'[l].processed = contract[l].processed,
         \A i \in DOMAIN calls : calls[i].leg \in Legs,
         \A l, i, a : GoodBurn(l, i, a) => GoodBurn(l, i, a)'
  PROVE  CallsInv'
  <1>1. (\A i \in DOMAIN calls : GoodBurn(calls[i].leg, calls[i].id, calls[i].amount))'
    BY DEF CallsInv, GoodBurn
  <1>2. QED
    BY <1>1 DEF CallsInv, Same

\* Including a call: one that is paid was not paid before.
LEMMA CallsInclude ==
  ASSUME Typed, BurnInv, CallsInv, NEW n \in DOMAIN calls, Include(n)
  PROVE  CallsInv'
  <1> DEFINE c == calls[n]
  <1>1. DOMAIN calls = 1..Len(calls) /\ calls \in [1..Len(calls) -> Calls]
        /\ \A i \in DOMAIN calls : calls[i] \in Calls /\ calls[i].leg \in Legs
    BY CallsTyped
  <1>2. head \in Nat /\ UNCHANGED burns /\ c.status = "pending"
    BY DEF Typed, ChainTyped, Include, hk
  <1>3. PICK s \in {"ok", "reverted"} :
           /\ calls' = [calls EXCEPT ![n].status = s, ![n].block = head]
           /\ s = "ok" => call_ok(c) /\ contract' = [contract EXCEPT
                 ![c.leg].used = @ + c.amount,
                 ![c.leg].processed = @ \cup {c.id},
                 ![c.leg].tokens = IF c.leg = "usdc" THEN @ - c.amount ELSE @ + c.amount]
           /\ s = "reverted" => UNCHANGED contract
    BY DEF Include
  <1>4. /\ DOMAIN calls' = DOMAIN calls
        /\ \A i \in DOMAIN calls \ {n} : calls'[i] = calls[i]
        /\ calls'[n] = [c EXCEPT !.status = s, !.block = head]
    BY <1>1, <1>3
  <1>5. calls'[n].status = s /\ calls'[n].leg = c.leg /\ calls'[n].id = c.id
        /\ calls'[n].amount = c.amount
    <2>1. c \in Calls /\ head \in Nat /\ s \in {"pending", "ok", "reverted"}
      BY <1>1, <1>2
    <2> HIDE DEF c
    <2>2. QED
      BY <1>4, <2>1 DEF Calls
  <1>6. \A l \in Legs : contract'[l].processed =
           IF s = "ok" /\ l = c.leg THEN contract[l].processed \cup {c.id} ELSE contract[l].processed
    <2>1. c.leg \in Legs /\ contract \in [Legs -> Contracts]
      BY <1>1 DEF Typed, ChainTyped
    <2>2. CASE s = "ok"
      <3> DEFINE k == c.leg
                 r == contract[k]
                 u == r.used + c.amount
                 q == r.processed \cup {c.id}
                 t == IF k = "usdc" THEN r.tokens - c.amount ELSE r.tokens + c.amount
      <3>1. contract' = [contract EXCEPT ![k] = [r EXCEPT !.used = u, !.processed = q, !.tokens = t]]
        BY <1>3, <2>1, <2>2
      <3>2. r \in Contracts
        BY <2>1
      <3> HIDE DEF u, q, t
      <3>3. contract'[k].processed = q /\ \A l \in Legs \ {k} : contract'[l] = contract[l]
        BY <2>1, <3>1, <3>2, ContractReads
      <3>4. QED
        BY <2>2, <3>3 DEF q
    <2>3. CASE s = "reverted"
      BY <1>3, <2>3
    <2>4. QED
      BY <2>2, <2>3
  <1>7. s = "ok" => c.id \notin contract[c.leg].processed
    BY <1>3 DEF call_ok
  <1> HIDE DEF c
  <1>8. \A i \in DOMAIN calls : /\ calls'[i].leg = calls[i].leg /\ calls'[i].id = calls[i].id
                                /\ calls'[i].amount = calls[i].amount
                                /\ i # n => calls'[i].status = calls[i].status
    BY <1>4, <1>5 DEF c
  <1>9. (\A i \in DOMAIN calls : GoodBurn(calls[i].leg, calls[i].id, calls[i].amount))'
    BY <1>2, <1>4, <1>8 DEF CallsInv, GoodBurn
  <1>10. ASSUME NEW i \in DOMAIN calls, calls'[i].status = "ok"
         PROVE  calls'[i].id \in contract'[calls'[i].leg].processed
    <2>1. CASE i = n
      BY <1>1, <1>5, <1>6, <1>10, <2>1 DEF c
    <2>2. CASE i # n
      <3> DEFINE l == calls[i].leg
      <3>1. calls[i].status = "ok" /\ calls'[i].id = calls[i].id /\ calls'[i].leg = l
        BY <1>8, <1>10, <2>2
      <3>2. l \in Legs /\ calls[i].id \in contract[l].processed
        BY <1>1, <3>1 DEF CallsInv
      <3> HIDE DEF l
      <3>3. contract[l].processed \subseteq contract'[l].processed
        BY <1>6, <3>2
      <3>4. QED
        BY <3>1, <3>2, <3>3
    <2>3. QED
      BY <2>1, <2>2
  <1>11. ASSUME NEW i \in DOMAIN calls, NEW j \in DOMAIN calls,
                calls'[i].status = "ok", calls'[j].status = "ok",
                calls'[i].leg = calls'[j].leg, calls'[i].id = calls'[j].id
         PROVE  i = j
    BY <1>5, <1>7, <1>8, <1>11 DEF CallsInv, Same, c
  <1>12. QED
    BY <1>4, <1>9, <1>10, <1>11 DEF CallsInv, Same

\* A fork takes the calls of its block back, and their ids with them.
LEMMA CallsReorg ==
  ASSUME Typed, CallsInv, Reorg
  PROVE  CallsInv'
  <1>1. \A i \in DOMAIN calls : calls[i] \in Calls /\ calls[i].leg \in Legs
    BY CallsTyped
  <1>2. UNCHANGED burns /\ DOMAIN calls' = DOMAIN calls
    BY ReorgIs DEF hk
  <1>3. ASSUME NEW i \in DOMAIN calls
        PROVE  /\ calls'[i].leg = calls[i].leg /\ calls'[i].id = calls[i].id
               /\ calls'[i].amount = calls[i].amount
               /\ calls'[i].status = "ok" => calls[i].status = "ok" /\ calls[i].block # head
    <2>1. CASE calls[i].block = head
      <3>1. calls'[i] = [calls[i] EXCEPT !.status = "pending", !.block = 0]
        BY <2>1, ReorgIs
      <3>2. calls[i] \in Calls /\ 0 \in Nat /\ "pending" \in {"pending", "ok", "reverted"}
        BY <1>1
      <3>3. QED
        BY <3>1, <3>2 DEF Calls
    <2>2. CASE calls[i].block # head
      BY <2>2, ReorgIs
    <2>3. QED
      BY <2>1, <2>2
  <1>4. \A l \in Legs : contract'[l].processed
                          = contract[l].processed \ {calls[i].id : i \in undone_now(l)}
    <2> TAKE l \in Legs
    <2> DEFINE r == contract[l]
               q == r.processed \ {calls[i].id : i \in undone_now(l)}
               u == IF r.used > out_now(l) THEN r.used - out_now(l) ELSE 0
               t == IF l = "usdc" THEN r.tokens - in_now(l) + out_now(l)
                    ELSE r.tokens + in_now(l) - out_now(l)
    <2>1. r \in Contracts
      BY DEF Typed, ChainTyped
    <2>2. contract'[l] = [r EXCEPT !.processed = q, !.used = u, !.tokens = t]
      BY ReorgIs
    <2> HIDE DEF r, q, u, t
    <2>3. contract'[l].processed = q
      BY <2>1, <2>2, ContractReads
    <2>4. QED
      BY <2>3 DEF q, r
  <1>5. (\A i \in DOMAIN calls : GoodBurn(calls[i].leg, calls[i].id, calls[i].amount))'
    BY <1>2, <1>3 DEF CallsInv, GoodBurn
  <1>6. ASSUME NEW i \in DOMAIN calls, calls'[i].status = "ok"
        PROVE  calls'[i].id \in contract'[calls'[i].leg].processed
    <2> DEFINE l == calls[i].leg
    <2>1. calls[i].status = "ok" /\ calls[i].block # head /\ l \in Legs
          /\ calls[i].id \in contract[l].processed
      BY <1>1, <1>3, <1>6 DEF CallsInv
    <2>2. ASSUME NEW j \in undone_now(l) PROVE calls[j].id # calls[i].id
      BY <2>1 DEF undone_now, CallsInv, Same
    <2>3. QED
      BY <1>3, <1>4, <2>1, <2>2
  <1>7. ASSUME NEW i \in DOMAIN calls, NEW j \in DOMAIN calls,
               calls'[i].status = "ok", calls'[j].status = "ok",
               calls'[i].leg = calls'[j].leg, calls'[i].id = calls'[j].id
        PROVE  i = j
    BY <1>3, <1>7 DEF CallsInv, Same
  <1>8. QED
    BY <1>2, <1>5, <1>6, <1>7 DEF CallsInv, Same

\* The users and the chains keep the calls straight.
LEMMA CallsWorld ==
  ASSUME Typed, BurnInv, CallsInv, Users \/ Chains
  PROVE  CallsInv'
  <1>1. \A i \in DOMAIN calls : calls[i].leg \in Legs
    BY CallsTyped
  <1>2. \A l, i, a : GoodBurn(l, i, a) => GoodBurn(l, i, a)'
    BY BurnWorld
  <1>3. contract \in [Legs -> Contracts]
    BY DEF Typed, ChainTyped
  <1>4. CASE UNCHANGED <<calls, contract>>
    BY <1>1, <1>2, <1>4, CallsKept
  <1>5. CASE NewDay \/ \E l \in Legs : Pause(l) \/ Unpause(l) \/ \E a \in Amounts : Lock(l, a)
    <2>1. \A l \in Legs : contract'[l].processed = contract[l].processed
      BY <1>3, <1>5 DEF NewDay, Pause, Unpause, Lock, Contracts
    <2>2. UNCHANGED calls
      BY <1>5 DEF NewDay, Pause, Unpause, Lock
    <2>3. QED
      BY <1>1, <1>2, <2>1, <2>2, CallsKept
  <1>6. QED
    BY <1>4, <1>5, CallsInclude, CallsReorg DEF Users, Chains, HkBurn, CreateAccount, EthBlock,
       ForgetReceipts, CommitMint, chain

\* A call the service sends asks for a burn that is on record.
LEMMA CallsService ==
  ASSUME Typed, ServiceInv, BurnInv, CallsInv,
         Service \/ tick_error \/ Crash \/ Restart \/ \E k \in Keys : resolve(k)
  PROVE  CallsInv'
  <1>1. \A i \in DOMAIN calls : calls[i].leg \in Legs
    BY CallsTyped
  <1>2. CASE send_call
    <2>1. UNCHANGED <<contract, burns>> /\ pc = "release"
      BY <1>2 DEF send_call, hk
    <2>2. \A l, i, a : GoodBurn(l, i, a) => GoodBurn(l, i, a)'
      BY <2>1 DEF GoodBurn
    <2>3. \/ calls' = Append(calls, [leg |-> LegOf(cur), id |-> cur[2], amount |-> mem[cur].amount,
                                      sigs |-> sigs, status |-> "pending", block |-> 0])
            \/ UNCHANGED calls
      BY <1>2 DEF send_call
    <2> DEFINE c == [leg |-> LegOf(cur), id |-> cur[2], amount |-> mem[cur].amount,
                     sigs |-> sigs, status |-> "pending", block |-> 0]
    <2>4. c.leg = LegOf(cur) /\ c.id = cur[2] /\ c.amount = mem[cur].amount /\ c.status # "ok"
      OBVIOUS
    <2>5. GoodBurn(c.leg, c.id, c.amount)
      <3>1. cur \in Keys /\ cur[1] \in HkKinds /\ disk[cur].state = "submitting" /\ mem = disk
        BY <2>1 DEF ServiceInv, InHand
      <3>2. QED
        BY <2>4, <3>1 DEF BurnInv, GoodBurn, Sendable
    <2>6. CASE UNCHANGED calls
      BY <1>1, <2>1, <2>2, <2>6, CallsKept
    <2>7. CASE calls' = Append(calls, c)
      <3> HIDE DEF c
      <3> DEFINE n == Len(calls) + 1
      <3>1. /\ DOMAIN calls' = DOMAIN calls \cup {n} /\ n \notin DOMAIN calls
            /\ calls'[n] = c /\ \A i \in DOMAIN calls : calls'[i] = calls[i]
        BY <2>7 DEF Typed, ChainTyped
      <3>2. (\A i \in DOMAIN calls : GoodBurn(calls[i].leg, calls[i].id, calls[i].amount))'
        BY <2>1, <2>5, <3>1 DEF CallsInv, GoodBurn
      <3>3. QED
        BY <2>1, <2>4, <3>1, <3>2 DEF CallsInv, Same
    <2>8. QED
      BY <2>3, <2>6, <2>7
  <1>3. CASE UNCHANGED <<calls, contract, burns>>
    <2>1. \A l, i, a : GoodBurn(l, i, a) => GoodBurn(l, i, a)'
      BY <1>3 DEF GoodBurn
    <2>2. QED
      BY <1>1, <1>3, <2>1, CallsKept
  <1>4. CASE Service
    BY <1>2, <1>3, <1>4 DEF Service, record_eth_event, recheck_mint, hold_deposit, begin_mint,
       already_released, recheck_release, queue_burn, begin_release, scan_eth, hk_submit,
       submit_failed, submitted, hk_wait_receipt, end_eth, record_hk_burn, scan_hk, read_vault,
       wait_release, end_hk, chain, hk
  <1>5. QED
    BY <1>3, <1>4 DEF tick_error, Crash, Restart, resolve, chain, hk

\* Every step keeps the burns' records and the calls straight.
LEMMA ReleaseStep ==
  Typed /\ ServiceInv /\ BurnInv /\ CallsInv /\ [Next]_vars => BurnInv' /\ CallsInv'
  <1> SUFFICES ASSUME Typed, ServiceInv, BurnInv, CallsInv, [Next]_vars PROVE BurnInv' /\ CallsInv'
    OBVIOUS
  <1>1. CASE Users \/ Chains
    BY <1>1, BurnWorld, CallsWorld
  <1>2. CASE Service
    <2>1. BurnInv'
      BY <1>2, BurnScans, BurnRecords, BurnInHand DEF Service
    <2>2. QED
      BY <1>2, <2>1, CallsService
  <1>3. CASE tick_error \/ Crash \/ Restart \/ \E k \in Keys : resolve(k)
    BY <1>3, BurnStops, CallsService
  <1>4. CASE UNCHANGED vars
    <2>1. UNCHANGED <<disk, burns, calls, contract>>
      BY <1>4 DEF vars, chain, hk, book
    <2>2. QED
      BY <2>1 DEF BurnInv, CallsInv, GoodBurn, Same
  <1>5. QED
    BY <1>1, <1>2, <1>3, <1>4 DEF Next

\* At the start there is no record and no call.
LEMMA ReleaseInit == Init => BurnInv /\ CallsInv
  BY DEF Init, BurnInv, CallsInv, Unrecorded, Record

\* ReleasesMatchBurns: HKVault.unlock and HKWrapped.mint succeed only for an
\* accepted burn and its amount, once for each, whatever calls send_call sends
\* again, however blocks are replaced, and whichever attestors signed.
THEOREM BridgeReleasesMatchBurns == Spec => []ReleasesMatchBurns
  <1>1. CallsInv => ReleasesMatchBurns
    BY DEF CallsInv, ReleasesMatchBurns, GoodBurn, Same
  <1>2. QED
    BY <1>1, PositionInit, PositionStep, ReleaseInit, ReleaseStep, PTL DEF Spec

-----------------------------------------------------------------------------
(* The file tells what happened                                            *)

\* The call that was sent for a record.
Sent(k, i) == i \in DOMAIN calls /\ calls[i].leg = LegOf(k) /\ calls[i].id = k[2]

\* The cursors lie within the chains, or a fork has shortened one; behind them
\* everything is recorded but for what is in blocks replaced since.
ScanInv ==
  /\ head <= MaxHead /\ eth_cursor <= MaxHead /\ hk_cursor <= Len(burns)
  /\ \A b \in Nat : head < b /\ b <= eth_cursor => b \in replaced
  /\ \A e \in events : e.block <= eth_cursor => e.block \in replaced \/ disk[e.key].state # "none"
  /\ \A i \in 1..hk_cursor : burns[i].accepted => disk[BurnKey(i)].state # "none"
  /\ faults.reorg = 0 => orphans = {} /\ replaced = {}

\* What a record says was sent was; what it says is done is.
DoneInv ==
  /\ \A r \in receipts : r.ok => minted[r.key] > 0
  /\ pc = "sent" /\ cur[1] \in HkKinds => Sent(cur, txid)
  /\ \A k \in Keys : k[1] \in HkKinds /\ disk[k].state = "submitted" => Sent(k, disk[k].tx)
  /\ \A k \in Keys : disk[k].state = "confirmed" =>
       IF k[1] \in EthKinds THEN minted[k] > 0 ELSE k \in orphans \/ processed(k)

\* The states of a deposit's record and of a burn's.
StatesOf(k) == {"confirmed"} \cup (IF k[1] \in EthKinds THEN PendingDeposits ELSE PendingBurns)

\* What a step may write: never nothing, a new deposit as its event says,
\* "submitted" with the answer's id, "confirmed" on a receipt or on what the
\* contract shows; the amount stays.
Written(k) ==
  /\ \A j \in Keys \ {k} : disk'[j] = disk[j]
  /\ disk'[k].state # "none" /\ disk'[k].state \in StatesOf(k)
  /\ disk[k].state # "none" => disk'[k].amount = disk[k].amount
  /\ disk[k].state = "none" /\ k[1] \in EthKinds =>
       \E e \in events : e.key = k /\ e.amount = disk'[k].amount
  /\ disk'[k].state = "submitted" => pc = "sent" /\ cur = k /\ disk'[k].tx = txid
  /\ disk'[k].state = "confirmed" =>
       IF k[1] \in EthKinds THEN minted[k] > 0 \/ \E r \in receipts : r.key = k /\ r.ok
       ELSE processed(k) \/ (disk[k].state = "submitted" /\ calls[disk[k].tx].status = "ok")

\* The scans write new records.
LEMMA ScansWrite ==
  ASSUME Typed, ServiceInv,
         \/ \E e \in events : record_eth_event(e)
         \/ scan_eth \/ end_eth \/ record_hk_burn \/ scan_hk \/ read_vault \/ end_hk
  PROVE  UNCHANGED disk \/ \E k \in Keys : Written(k)
  <1>1. ASSUME NEW e \in events, record_eth_event(e) PROVE \E k \in Keys : Written(k)
    <2>1. e.key \in Keys /\ write(e.key, Record("seen", e.amount, e.block, 0))
      BY <1>1 DEF Typed, ChainTyped, Events, record_eth_event
    <2>2. Record("seen", e.amount, e.block, 0).state = "seen"
          /\ Record("seen", e.amount, e.block, 0).amount = e.amount
      BY DEF Record
    <2>3. disk[e.key].state = "none" /\ e.key[1] \in EthKinds
      BY <1>1 DEF record_eth_event, ServiceInv, has, Typed, ChainTyped, Events
    <2>4. disk'[e.key] = Record("seen", e.amount, e.block, 0)
          /\ \A j \in Keys \ {e.key} : disk'[j] = disk[j]
      BY <2>1 DEF write, Typed, BookTyped
    <2>5. Written(e.key)
      BY <2>2, <2>3, <2>4 DEF Written, StatesOf, PendingDeposits
    <2>6. QED
      BY <2>1, <2>5
  <1>2. CASE record_hk_burn
    <2> DEFINE i == hk_cursor + 1
               b == burns[i]
               s == IF receipt_class(b) = "unknown" THEN "needs_review"
                    ELSE IF b.bridgeable THEN "seen" ELSE "unbridgeable"
               r == Record(s, b.amount, i, 0)
               k == BurnKey(i)
    <2>1. i \in DOMAIN burns /\ write(k, r) /\ disk[k].state = "none"
      BY <1>2 DEF record_hk_burn, has, ServiceInv
    <2>2. b \in Burns /\ i \in 1..MaxBurns
      BY <2>1, SeqIsFunction, BoundsNat DEF Typed, HkTyped
    <2>3. k \in Keys /\ k[1] \notin EthKinds
      BY <2>2 DEF BurnKey, Keys, HkKind, HkKinds, EthKinds, Legs, Burns
    <2>4. r.state = s /\ s \in {"needs_review", "seen", "unbridgeable"}
      BY DEF Record
    <2> HIDE DEF r, k, s, b
    <2>5. disk'[k] = r /\ \A j \in Keys \ {k} : disk'[j] = disk[j]
      BY <2>1, <2>3 DEF write, Typed, BookTyped
    <2>6. Written(k)
      BY <2>1, <2>3, <2>4, <2>5 DEF Written, StatesOf, PendingBurns
    <2>7. QED
      BY <2>3, <2>6
  <1>3. QED
    BY <1>1, <1>2 DEF scan_eth, end_eth, scan_hk, read_vault, end_hk, book

\* The receipt of a record names it.
LEMMA ReceiptNames ==
  ASSUME NEW k, NEW r \in receipt_of(k)
  PROVE  r \in receipts /\ r.key = k
  BY DEF receipt_of

\* A pass writes what it sees.
LEMMA RecordsWrite ==
  ASSUME Typed, ServiceInv, NEW k \in todo,
         \/ recheck_mint(k) \/ hold_deposit(k) \/ begin_mint(k)
         \/ already_released(k) \/ recheck_release(k) \/ queue_burn(k) \/ begin_release(k)
  PROVE  UNCHANGED disk \/ Written(k)
  <1>1. k \in Keys /\ pc \in {"eth", "hk"} /\ mem = disk
    BY DEF Typed, StanceTyped, ServiceInv, recheck_mint, hold_deposit, begin_mint,
           already_released, recheck_release, queue_burn, begin_release
  <1>2. \A s \in States : write_state(k, s) =>
          disk'[k].state = s /\ disk'[k].amount = disk[k].amount /\ \A j \in Keys \ {k} : disk'[j] = disk[j]
    BY <1>1, RecordStep
  <1>3. disk[k].state # "none"
    BY <1>1 DEF ServiceInv, Mintable, Releasable, EthToDo, HkToDo
  <1>4. (pc = "eth" => k[1] \in EthKinds) /\ (pc = "hk" => k[1] \notin EthKinds)
    BY <1>1, KeyFacts DEF ServiceInv, Mintable, Releasable
  <1>5. ASSUME NEW s \in States, s \notin {"none", "submitted", "confirmed"}, s \in StatesOf(k),
               write_state(k, s)
        PROVE  Written(k)
    BY <1>2, <1>5, <1>3 DEF Written
  <1>6. /\ pc = "eth" => {"held_recipient", "needs_review", "submitting", "rejected", "confirmed"} \subseteq StatesOf(k)
        /\ pc = "hk" => {"submitting", "reverted", "queued_paused", "queued_cap", "confirmed"} \subseteq StatesOf(k)
    BY <1>4 DEF StatesOf, PendingDeposits, PendingBurns
  <1>7. CASE recheck_mint(k)
    <2>1. ASSUME NEW r \in receipt_of(k), r.ok, write_state(k, "confirmed") PROVE Written(k)
      <3>1. disk'[k].state = "confirmed" /\ disk'[k].amount = disk[k].amount
            /\ \A j \in Keys \ {k} : disk'[j] = disk[j]
        BY <1>2, <2>1, StatesNamed
      <3>2. k[1] \in EthKinds /\ "confirmed" \in StatesOf(k)
        BY <1>7, <1>4, <1>6 DEF recheck_mint
      <3>3. QED
        BY <1>3, <2>1, <3>1, <3>2, ReceiptNames DEF Written
    <2>2. pc = "eth"
      BY <1>7 DEF recheck_mint
    <2>3. QED
      BY <1>5, <1>7, <1>6, <2>1, <2>2, StatesNamed DEF recheck_mint, book
  <1>8. CASE already_released(k)
    <2>1. disk'[k].state = "confirmed" /\ disk'[k].amount = disk[k].amount
          /\ \A j \in Keys \ {k} : disk'[j] = disk[j]
      BY <1>2, <1>8, StatesNamed DEF already_released
    <2>2. k[1] \notin EthKinds /\ processed(k) /\ "confirmed" \in StatesOf(k)
      BY <1>8, <1>4, <1>6 DEF already_released
    <2>3. QED
      BY <1>3, <2>1, <2>2 DEF Written
  <1>9. CASE hold_deposit(k) \/ begin_mint(k)
    <2>1. pc = "eth"
      BY <1>9 DEF hold_deposit, begin_mint
    <2>2. QED
      BY <1>5, <1>9, <1>6, <2>1, StatesNamed DEF hold_deposit, begin_mint, book
  <1>10. CASE recheck_release(k) \/ queue_burn(k) \/ begin_release(k)
    <2>1. pc = "hk"
      BY <1>10 DEF recheck_release, queue_burn, begin_release
    <2>2. QED
      BY <1>5, <1>10, <1>6, <2>1, StatesNamed DEF recheck_release, queue_burn, begin_release, book
  <1>11. QED
    BY <1>7, <1>8, <1>9, <1>10

\* Sending and waiting write the answer and the receipt.
LEMMA InHandWrites ==
  ASSUME Typed, ServiceInv,
         hk_submit \/ submit_failed \/ submitted \/ hk_wait_receipt \/ send_call \/ wait_release
  PROVE  UNCHANGED disk \/ (cur \in Keys /\ Written(cur))
  <1>1. /\ cur \in Keys /\ mem = disk /\ pc # "down"
        /\ pc = "wait" => disk[cur].state = "submitted"
        /\ disk[cur].state # "none"
    BY DEF hk_submit, submit_failed, submitted, hk_wait_receipt, send_call, wait_release,
           InHand, ServiceInv
  <1>2. \A s \in States : write_state(cur, s) =>
          disk'[cur].state = s /\ disk'[cur].amount = disk[cur].amount
          /\ \A j \in Keys \ {cur} : disk'[j] = disk[j]
    BY <1>1, RecordStep
  <1>3. /\ {"seen", "submitted", "confirmed"} \subseteq StatesOf(cur)
        /\ cur[1] \in EthKinds => "rejected" \in StatesOf(cur)
        /\ cur[1] \notin EthKinds => "reverted" \in StatesOf(cur)
    BY DEF StatesOf, PendingDeposits, PendingBurns
  <1>4. ASSUME NEW s \in {"seen", "rejected", "reverted"}, s \in StatesOf(cur), write_state(cur, s)
        PROVE  Written(cur)
    BY <1>1, <1>2, <1>4, StatesNamed DEF Written
  <1>5. CASE submitted
    <2> DEFINE r == [mem[cur] EXCEPT !.state = "submitted", !.tx = txid]
    <2>1. r.state = "submitted" /\ r.tx = txid /\ r.amount = disk[cur].amount
      BY <1>1 DEF Typed, BookTyped, Records
    <2>2. write(cur, r) /\ pc = "sent"
      BY <1>5 DEF submitted
    <2> HIDE DEF r
    <2>3. disk'[cur] = r /\ \A j \in Keys \ {cur} : disk'[j] = disk[j]
      BY <1>1, <2>2 DEF write, Typed, BookTyped
    <2>4. QED
      BY <1>1, <1>3, <2>1, <2>2, <2>3 DEF Written
  <1>6. CASE hk_wait_receipt
    <2>1. ASSUME NEW r \in receipt_of(cur), r.ok, write_state(cur, "confirmed") PROVE Written(cur)
      <3>1. disk'[cur].state = "confirmed" /\ disk'[cur].amount = disk[cur].amount
            /\ \A j \in Keys \ {cur} : disk'[j] = disk[j]
        BY <1>2, <2>1, StatesNamed
      <3>2. cur[1] \in EthKinds
        BY <1>6 DEF hk_wait_receipt
      <3>3. QED
        BY <1>1, <1>3, <2>1, <3>1, <3>2, ReceiptNames DEF Written
    <2>2. QED
      BY <1>1, <1>4, <1>6, <1>3, <2>1 DEF hk_wait_receipt, book
  <1>7. CASE wait_release
    <2>1. ASSUME calls[mem[cur].tx].status = "ok", write_state(cur, "confirmed") PROVE Written(cur)
      <3>1. disk'[cur].state = "confirmed" /\ disk'[cur].amount = disk[cur].amount
            /\ \A j \in Keys \ {cur} : disk'[j] = disk[j]
        BY <1>2, <2>1, StatesNamed
      <3>2. cur[1] \notin EthKinds /\ disk[cur].state = "submitted"
        BY <1>1, <1>7, KeyFacts DEF wait_release
      <3>3. QED
        BY <1>1, <1>3, <2>1, <3>1, <3>2 DEF Written
    <2>2. cur[1] \notin EthKinds
      BY <1>1, <1>7, KeyFacts DEF wait_release
    <2>3. QED
      BY <1>1, <1>4, <1>7, <1>3, <2>1, <2>2 DEF wait_release, book
  <1>8. QED
    BY <1>1, <1>4, <1>3, <1>5, <1>6, <1>7 DEF hk_submit, submit_failed, send_call, book

\* The operator writes what the chains show.
LEMMA StopsWrite ==
  ASSUME Typed, tick_error \/ Crash \/ Restart \/ \E k \in Keys : resolve(k)
  PROVE  UNCHANGED disk \/ \E k \in Keys : Written(k)
  <1>1. ASSUME NEW k \in Keys, resolve(k) PROVE Written(k)
    <2>1. disk[k] \in Records /\ disk \in [Keys -> Records]
      BY DEF Typed, BookTyped
    <2>2. ASSUME NEW s \in {"seen", "confirmed"}, disk' = [disk EXCEPT ![k].state = s]
          PROVE  disk'[k].state = s /\ disk'[k].amount = disk[k].amount
                 /\ \A j \in Keys \ {k} : disk'[j] = disk[j]
      BY <2>1, <2>2 DEF Records
    <2>3. disk[k].state # "none" /\ {"seen", "confirmed"} \subseteq StatesOf(k)
      BY <1>1 DEF resolve, NeedsReview, StatesOf, PendingDeposits, PendingBurns
    <2>4. CASE disk' = [disk EXCEPT ![k].state = "seen"]
      BY <2>3, <2>2, <2>4 DEF Written
    <2>5. CASE /\ disk' = [disk EXCEPT ![k].state = "confirmed"]
               /\ IF k[1] \in EthKinds THEN minted[k] > 0 ELSE processed(k)
      BY <2>3, <2>2, <2>5 DEF Written
    <2>6. QED
      BY <1>1, <2>4, <2>5 DEF resolve
  <1>2. QED
    BY <1>1 DEF tick_error, Crash, Restart, book

\* The service touches neither chain, but for the call it sends.
LEMMA ServiceSpares ==
  ASSUME Typed, ServiceInv, Service \/ tick_error \/ Crash \/ Restart \/ \E k \in Keys : resolve(k)
  PROVE  /\ UNCHANGED <<head, events, contract, replaced, orphans, receipts, minted, burns>>
         /\ faults'.reorg = faults.reorg
         /\ \A i \in DOMAIN calls : i \in DOMAIN calls' /\ calls'[i] = calls[i]
  <1>1. CASE send_call
    <2>1. pc \in InHand /\ cur \in Keys /\ faults \in Faults /\ StanceTyped /\ Len(calls) + 1 \in Nat
      BY <1>1, SeqIsFunction DEF send_call, InHand, ServiceInv, Typed, ChainTyped
    <2>2. LET c == [leg |-> LegOf(cur), id |-> cur[2], amount |-> mem[cur].amount,
                      sigs |-> sigs, status |-> "pending", block |-> 0] IN
            \/ call_ok(c) /\ calls' = Append(calls, c) /\ answer(Len(calls) + 1)
            \/ ~call_ok(c) /\ goto("failed") /\ UNCHANGED <<calls, faults>>
            \/ goto("failed") /\ UNCHANGED calls /\ Spend("abort")
      BY <1>1 DEF send_call
    <2> DEFINE c == [leg |-> LegOf(cur), id |-> cur[2], amount |-> mem[cur].amount,
                     sigs |-> sigs, status |-> "pending", block |-> 0]
    <2>3. \/ calls' = Append(calls, c) /\ answer(Len(calls) + 1)
          \/ UNCHANGED <<calls, faults>>
          \/ UNCHANGED calls /\ Spend("abort")
      BY <2>2
    <2> HIDE DEF c
    <2>4. faults'.reorg = faults.reorg
      BY <2>1, <2>3, AnswerTyped, SpendTyped
    <2>5. \A i \in DOMAIN calls : i \in DOMAIN calls' /\ calls'[i] = calls[i]
      BY <2>3 DEF Typed, ChainTyped
    <2>6. QED
      BY <1>1, <2>4, <2>5 DEF send_call, hk
  <1>2. CASE hk_submit
    <2>1. pc \in InHand /\ cur \in Keys /\ faults \in Faults /\ StanceTyped /\ nonce \in Nat
      BY <1>2 DEF hk_submit, InHand, ServiceInv, Typed, HkTyped
    <2>2. faults'.reorg = faults.reorg
      BY <1>2, <2>1, AnswerTyped, SpendTyped DEF hk_submit
    <2>3. QED
      BY <1>2, <2>2 DEF hk_submit, chain
  <1>3. CASE tick_error \/ Crash
    BY <1>3, SpendTyped DEF tick_error, Crash, chain, hk, Typed
  <1>4. CASE Restart \/ \E k \in Keys : resolve(k)
    BY <1>4 DEF Restart, resolve, chain, hk
  <1>5. CASE Service
    BY <1>1, <1>2, <1>5 DEF Service, record_eth_event, recheck_mint, hold_deposit, begin_mint,
       already_released, recheck_release, queue_burn, begin_release, scan_eth,
       submit_failed, submitted, hk_wait_receipt, end_eth, record_hk_burn, scan_hk, read_vault,
       wait_release, end_hk, chain, hk
  <1>6. QED
    BY <1>3, <1>4, <1>5

\* Where the cursors go.
LEMMA CursorSteps ==
  ASSUME Typed, Service \/ tick_error \/ Crash \/ Restart \/ \E k \in Keys : resolve(k)
  PROVE  /\ \/ eth_cursor' = eth_cursor
            \/ scan_eth
         /\ \/ hk_cursor' = hk_cursor
            \/ scan_hk
  <1>1. CASE Service
    BY <1>1 DEF Service, record_eth_event, recheck_mint, hold_deposit, begin_mint,
       already_released, recheck_release, queue_burn, begin_release, hk_submit, send_call,
       submit_failed, submitted, hk_wait_receipt, end_eth, record_hk_burn, read_vault,
       wait_release, end_hk, book, write, write_state, scan_eth, scan_hk
  <1>2. QED
    BY <1>1 DEF tick_error, Crash, Restart, resolve, book

\* No record is ever unwritten.
LEMMA NothingUnwritten ==
  ASSUME UNCHANGED disk \/ \E k \in Keys : Written(k)
  PROVE  \A k \in Keys : disk[k].state # "none" => disk'[k].state # "none"
  BY DEF Written

\* What the service and its operator write, taken together.
LEMMA ServiceWrites ==
  ASSUME Typed, ServiceInv, Service \/ tick_error \/ Crash \/ Restart \/ \E k \in Keys : resolve(k)
  PROVE  UNCHANGED disk \/ \E k \in Keys : Written(k)
  <1>1. todo \subseteq Keys
    BY DEF Typed, StanceTyped
  <1>2. CASE Service
    BY <1>1, <1>2, ScansWrite, RecordsWrite, InHandWrites DEF Service
  <1>3. QED
    BY <1>2, StopsWrite

\* A burn's key.
LEMMA BurnKeyIs ==
  ASSUME Typed, NEW i \in DOMAIN burns
  PROVE  BurnKey(i) \in Keys /\ BurnKey(i)[1] \in HkKinds /\ BurnKey(i)[2] = i
         /\ LegOf(BurnKey(i)) = burns[i].leg
  <1>1. burns[i] \in Burns /\ i \in 1..MaxBurns
    BY SeqIsFunction, BoundsNat DEF Typed, HkTyped
  <1>2. QED
    BY <1>1 DEF BurnKey, Keys, HkKind, HkKinds, Legs, Burns, LegOf

\* The scans record before they move on.
LEMMA ScanService ==
  ASSUME Typed, ServiceInv, ScanInv,
         Service \/ tick_error \/ Crash \/ Restart \/ \E k \in Keys : resolve(k)
  PROVE  ScanInv'
  <1>1. /\ UNCHANGED <<head, events, burns, replaced, orphans>> /\ faults'.reorg = faults.reorg
        /\ \A k \in Keys : disk[k].state # "none" => disk'[k].state # "none"
    BY ServiceSpares, ServiceWrites, NothingUnwritten
  <1>2. /\ head \in Nat /\ eth_cursor \in Nat /\ hk_cursor \in Nat /\ Len(burns) \in Nat
        /\ DOMAIN burns = 1..Len(burns) /\ \A e \in events : e.block \in Nat /\ e.key \in Keys
    BY SeqIsFunction DEF Typed, ChainTyped, BookTyped, HkTyped, Events
  <1>3. \A i \in DOMAIN burns : BurnKey(i)' = BurnKey(i) /\ BurnKey(i) \in Keys
    BY <1>1, BurnKeyIs DEF BurnKey
  <1>4. CASE scan_eth
    <2>1. /\ eth_cursor' = (IF head > eth_cursor THEN head ELSE eth_cursor) /\ UNCHANGED <<disk, hk_cursor>>
          /\ \A e \in unscanned : has(e.key) /\ mem = disk
      BY <1>4 DEF scan_eth, ServiceInv
    <2>2. eth_cursor' <= MaxHead
      BY <1>2, <2>1 DEF ScanInv
    <2>3. ASSUME NEW e \in events, e.block <= eth_cursor'
          PROVE  e.block \in replaced \/ disk[e.key].state # "none"
      BY <1>2, <2>1, <2>3 DEF ScanInv, unscanned, has
    <2>4. ASSUME NEW b \in Nat, head < b, b <= eth_cursor' PROVE b \in replaced
      BY <1>2, <2>1, <2>4 DEF ScanInv
    <2>5. QED
      BY <1>1, <2>1, <2>2, <2>3, <2>4 DEF ScanInv, BurnKey
  <1>5. CASE scan_hk
    <2>1. /\ hk_cursor' = hk_cursor + 1 /\ hk_cursor + 1 \in DOMAIN burns /\ UNCHANGED <<disk, eth_cursor>>
          /\ mem = disk
          /\ has(BurnKey(hk_cursor + 1)) \/ receipt_class(burns[hk_cursor + 1]) = "rejected"
      BY <1>5 DEF scan_hk, ServiceInv
    <2>2. burns[hk_cursor + 1].accepted => disk[BurnKey(hk_cursor + 1)].state # "none"
      BY <2>1 DEF has, receipt_class
    <2>3. ASSUME NEW i \in 1..hk_cursor', burns[i].accepted PROVE disk[BurnKey(i)].state # "none"
      BY <1>2, <2>1, <2>2, <2>3 DEF ScanInv
    <2>4. hk_cursor' <= Len(burns)
      BY <1>2, <2>1
    <2>5. QED
      BY <1>1, <2>1, <2>3, <2>4 DEF ScanInv, BurnKey
  <1>6. CASE UNCHANGED <<eth_cursor, hk_cursor>>
    <2>1. \A i \in 1..hk_cursor : i \in DOMAIN burns
      BY <1>2 DEF ScanInv
    <2>2. (\A i \in 1..hk_cursor : burns[i].accepted => disk[BurnKey(i)].state # "none")'
      BY <1>1, <1>3, <1>6, <2>1 DEF ScanInv
    <2>3. (\A e \in events : e.block <= eth_cursor => e.block \in replaced \/ disk[e.key].state # "none")'
      BY <1>1, <1>2, <1>6 DEF ScanInv
    <2>4. QED
      BY <1>1, <1>6, <2>2, <2>3 DEF ScanInv
  <1>7. QED
    BY <1>4, <1>5, <1>6, CursorSteps DEF scan_eth, scan_hk

\* Blocks and burns come after the cursors; a fork is a fault of its own.
LEMMA ScanWorld ==
  ASSUME Typed, Typed', ScanInv, Users \/ Chains
  PROVE  ScanInv'
  <1>1. UNCHANGED <<disk, eth_cursor, hk_cursor>>
    BY WorldStep DEF book
  <1>2. /\ head \in Nat /\ eth_cursor \in Nat /\ hk_cursor \in Nat /\ Len(burns) \in Nat
        /\ DOMAIN burns = 1..Len(burns) /\ faults.reorg \in Nat /\ MaxHead \in Nat /\ Confirm \in Nat
    BY SeqIsFunction, BoundsNat DEF Typed, ChainTyped, BookTyped, HkTyped, Faults
  <1>3. \A i \in DOMAIN burns : i \in DOMAIN burns' /\ burns'[i].accepted = burns[i].accepted
                                /\ BurnKey(i)' = BurnKey(i)
    BY BurnsStay DEF BurnKey
  <1>4. Len(burns') \in Nat /\ DOMAIN burns' = 1..Len(burns')
    BY SeqIsFunction DEF Typed, HkTyped
  <1>5. Len(burns) <= Len(burns')
    <2>1. Len(burns) >= 1 => Len(burns) \in DOMAIN burns
      BY <1>2
    <2>2. QED
      BY <1>2, <1>3, <1>4, <2>1
  <1>6. (hk_cursor <= Len(burns))'
    BY <1>1, <1>2, <1>4, <1>5 DEF ScanInv
  <1>7. (\A i \in 1..hk_cursor : burns[i].accepted => disk[BurnKey(i)].state # "none")'
    <2>1. \A i \in 1..hk_cursor : i \in DOMAIN burns
      BY <1>2 DEF ScanInv
    <2>2. QED
      BY <1>1, <1>3, <2>1 DEF ScanInv
  <1>8. CASE UNCHANGED <<head, events, replaced, orphans>> /\ faults'.reorg = faults.reorg
    BY <1>1, <1>6, <1>7, <1>8 DEF ScanInv
  <1>9. ASSUME NEW l \in Legs, NEW a \in Amounts, Lock(l, a) PROVE ScanInv'
    <2>1. PICK k : events' = events \cup {[key |-> k, amount |-> a, block |-> head']}
      BY <1>9 DEF Lock
    <2>2. head' = head + 1 /\ head + 1 + Confirm <= MaxHead /\ UNCHANGED <<faults, replaced, orphans>>
      BY <1>9 DEF Lock
    <2>3. ASSUME NEW e \in events', e.block <= eth_cursor
          PROVE  e.block \in replaced \/ disk[e.key].state # "none"
      <3>1. CASE e \in events
        BY <2>3, <3>1 DEF ScanInv
      <3>2. CASE e.block = head + 1
        <4>1. head + 1 \in Nat /\ head < head + 1
          BY <1>2
        <4>2. QED
          BY <2>3, <3>2, <4>1 DEF ScanInv
      <3>3. QED
        BY <2>1, <2>2, <3>1, <3>2
    <2>4. head' <= MaxHead
      BY <1>2, <2>2 DEF ScanInv
    <2>5. \A b \in Nat : head' < b => head < b
      BY <1>2, <2>2
    <2>6. QED
      BY <1>1, <1>6, <1>7, <2>2, <2>3, <2>4, <2>5 DEF ScanInv
  <1>10. CASE EthBlock
    <2>1. head' = head + 1 /\ head < MaxHead /\ UNCHANGED <<events, faults, replaced, orphans>>
      BY <1>10 DEF EthBlock
    <2>2. head' <= MaxHead /\ \A b \in Nat : head' < b => head < b
      BY <1>2, <2>1 DEF ScanInv
    <2>3. QED
      BY <1>1, <1>6, <1>7, <2>1, <2>2 DEF ScanInv
  <1>11. CASE Reorg
    <2>1. /\ head > 0 /\ head' = head - 1 /\ faults'.reorg = faults.reorg + 1
          /\ events' \subseteq events /\ replaced' = replaced \cup {b \in {head} : b <= eth_cursor}
      BY <1>11, ReorgIs, SpendTyped DEF Typed
    <2>2. head' <= MaxHead /\ faults'.reorg # 0
      BY <1>2, <2>1 DEF ScanInv
    <2>3. ASSUME NEW b \in Nat, head' < b, b <= eth_cursor PROVE b \in replaced'
      <3>1. b = head \/ head < b
        BY <1>2, <2>1, <2>3
      <3>2. QED
        BY <2>1, <2>3, <3>1 DEF ScanInv
    <2>4. \A e \in events' : e.block <= eth_cursor => e.block \in replaced' \/ disk[e.key].state # "none"
      BY <2>1 DEF ScanInv
    <2>5. QED
      BY <1>1, <1>6, <1>7, <2>2, <2>3, <2>4 DEF ScanInv
  <1>12. CASE ForgetReceipts \/ (\E l \in Legs : Pause(l) \/ Unpause(l))
              \/ (\E m \in pending, ok \in BOOLEAN : CommitMint(m, ok))
    <2>1. faults'.reorg = faults.reorg
      BY <1>12, SpendTyped DEF ForgetReceipts, Pause, Unpause, CommitMint, Typed
    <2>2. QED
      BY <1>8, <1>12, <2>1 DEF ForgetReceipts, Pause, Unpause, CommitMint, chain
  <1>13. CASE NewDay \/ CreateAccount \/ (\E i \in DOMAIN calls : Include(i))
              \/ (\E l \in Legs, a \in Amounts, b, ok \in BOOLEAN : HkBurn(l, a, b, ok))
    BY <1>8, <1>13 DEF NewDay, CreateAccount, Include, HkBurn, chain
  <1>14. QED
    BY <1>9, <1>10, <1>11, <1>12, <1>13 DEF Users, Chains

\* What the service writes about a record is so.
LEMMA DoneService ==
  ASSUME Typed, ServiceInv, CallsInv, DoneInv,
         Service \/ tick_error \/ Crash \/ Restart \/ \E k \in Keys : resolve(k)
  PROVE  DoneInv'
  <1>1. /\ UNCHANGED <<contract, orphans, receipts, minted>>
        /\ \A i \in DOMAIN calls : i \in DOMAIN calls' /\ calls'[i] = calls[i]
    BY ServiceSpares
  <1>2. \A k, i : Sent(k, i) => Sent(k, i)'
    BY <1>1 DEF Sent
  <1>3. \A k \in Keys : processed(k)' <=> processed(k)
    BY <1>1 DEF processed
  <1>4. pc' = "sent" /\ cur'[1] \in HkKinds => Sent(cur, txid)'
    <2> SUFFICES ASSUME pc' = "sent", cur'[1] \in HkKinds PROVE Sent(cur, txid)'
      OBVIOUS
    <2>1. CASE UNCHANGED <<pc, cur, txid>>
      BY <1>2, <2>1 DEF DoneInv, Sent
    <2>2. CASE hk_submit
      <3>1. cur' = cur /\ cur[1] \in EthKinds
        BY <2>2 DEF hk_submit, answer, goto, ServiceInv
      <3>2. QED
        BY <3>1, KeyFacts
    <2>3. CASE send_call
      <3>1. LET c == [leg |-> LegOf(cur), id |-> cur[2], amount |-> mem[cur].amount,
                        sigs |-> sigs, status |-> "pending", block |-> 0] IN
              \/ call_ok(c) /\ calls' = Append(calls, c) /\ answer(Len(calls) + 1)
              \/ ~call_ok(c) /\ goto("failed") /\ UNCHANGED <<calls, faults>>
              \/ goto("failed") /\ UNCHANGED calls /\ Spend("abort")
        BY <2>3 DEF send_call
      <3> DEFINE c == [leg |-> LegOf(cur), id |-> cur[2], amount |-> mem[cur].amount,
                       sigs |-> sigs, status |-> "pending", block |-> 0]
      <3>2. calls' = Append(calls, c) /\ cur' = cur /\ txid' = Len(calls) + 1
        BY <2>3, <3>1 DEF answer, goto
      <3>3. c.leg = LegOf(cur) /\ c.id = cur[2]
        OBVIOUS
      <3> HIDE DEF c
      <3>4. Len(calls) + 1 \in DOMAIN calls' /\ calls'[Len(calls) + 1] = c
        BY <3>2 DEF Typed, ChainTyped
      <3>5. QED
        BY <3>2, <3>3, <3>4 DEF Sent
    <2>4. QED
      BY <2>1, <2>2, <2>3 DEF Service, record_eth_event, recheck_mint, hold_deposit, begin_mint,
         already_released, recheck_release, queue_burn, begin_release, scan_eth,
         submit_failed, submitted, hk_wait_receipt, end_eth, record_hk_burn, scan_hk, read_vault,
         wait_release, end_hk, tick_error, Crash, Restart, resolve, stance, goto, done, give_up, next_record
  <1>5. CASE UNCHANGED disk
    BY <1>1, <1>2, <1>3, <1>4, <1>5 DEF DoneInv
  <1>6. ASSUME NEW k \in Keys, Written(k) PROVE DoneInv'
    <2>1. k[1] \in HkKinds /\ disk'[k].state = "submitted" => Sent(k, disk'[k].tx)
      BY <1>6 DEF Written, DoneInv
    <2>2. disk'[k].state = "confirmed" =>
            IF k[1] \in EthKinds THEN minted[k] > 0 ELSE k \in orphans \/ processed(k)
      <3>1. CASE k[1] \in EthKinds
        BY <1>6, <3>1 DEF Written, DoneInv
      <3>2. CASE k[1] \notin EthKinds
        <4>1. k[1] \in HkKinds
          BY <3>2, KeyFacts
        <4>2. ASSUME disk[k].state = "submitted", calls[disk[k].tx].status = "ok" PROVE processed(k)
          <5>1. Sent(k, disk[k].tx)
            BY <4>1, <4>2 DEF DoneInv
          <5>2. QED
            BY <4>2, <5>1 DEF CallsInv, Sent, processed
        <4>3. QED
          BY <1>6, <3>2, <4>2 DEF Written
      <3>3. QED
        BY <3>1, <3>2
    <2>3. (\A j \in Keys : j[1] \in HkKinds /\ disk[j].state = "submitted" => Sent(j, disk[j].tx))'
      <3> SUFFICES ASSUME NEW j \in Keys, j[1] \in HkKinds, disk'[j].state = "submitted"
                   PROVE  \A i : i = disk'[j].tx => Sent(j, i)'
        BY DEF Sent
      <3>1. Sent(j, disk'[j].tx)
        BY <1>6, <2>1 DEF Written, DoneInv
      <3>2. QED
        BY <1>2, <3>1
    <2>4. (\A j \in Keys : disk[j].state = "confirmed" =>
             IF j[1] \in EthKinds THEN minted[j] > 0 ELSE j \in orphans \/ processed(j))'
      BY <1>1, <1>3, <1>6, <2>2 DEF Written, DoneInv
    <2>5. QED
      BY <1>1, <1>4, <2>3, <2>4 DEF DoneInv
  <1>7. QED
    BY <1>5, <1>6, ServiceWrites

\* What the inclusion of a call does: it succeeds, and the contract pays and
\* marks it, or it reverts.
LEMMA IncludeIs ==
  ASSUME Typed, NEW n \in DOMAIN calls, Include(n)
  PROVE  /\ DOMAIN calls' = DOMAIN calls /\ calls[n].status = "pending" /\ calls[n].leg \in Legs
         /\ \A i \in DOMAIN calls \ {n} : calls'[i] = calls[i]
         /\ calls'[n].leg = calls[n].leg /\ calls'[n].id = calls[n].id
         /\ calls'[n].amount = calls[n].amount /\ calls'[n].block = head
         /\ \/ /\ calls'[n].status = "ok" /\ call_ok(calls[n])
               /\ \A l \in Legs \ {calls[n].leg} : contract'[l] = contract[l]
               /\ contract'[calls[n].leg].processed = contract[calls[n].leg].processed \cup {calls[n].id}
               /\ contract'[calls[n].leg].tokens =
                    IF calls[n].leg = "usdc" THEN contract[calls[n].leg].tokens - calls[n].amount
                    ELSE contract[calls[n].leg].tokens + calls[n].amount
            \/ calls'[n].status = "reverted" /\ UNCHANGED contract
  <1> DEFINE c == calls[n]
             k == c.leg
  <1>1. DOMAIN calls = 1..Len(calls) /\ calls \in [1..Len(calls) -> Calls] /\ c \in Calls /\ k \in Legs
    BY CallsTyped
  <1>2. head \in Nat /\ c.status = "pending" /\ contract \in [Legs -> Contracts]
    BY DEF Typed, ChainTyped, Include
  <1>3. PICK s \in {"ok", "reverted"} :
           /\ calls' = [calls EXCEPT ![n].status = s, ![n].block = head]
           /\ s = "ok" => call_ok(c) /\ contract' = [contract EXCEPT
                 ![k].used = @ + c.amount,
                 ![k].processed = @ \cup {c.id},
                 ![k].tokens = IF k = "usdc" THEN @ - c.amount ELSE @ + c.amount]
           /\ s = "reverted" => UNCHANGED contract
    BY DEF Include
  <1>4. /\ DOMAIN calls' = DOMAIN calls
        /\ \A i \in DOMAIN calls \ {n} : calls'[i] = calls[i]
        /\ calls'[n] = [c EXCEPT !.status = s, !.block = head]
    BY <1>1, <1>3
  <1>5. calls'[n].status = s /\ calls'[n].leg = c.leg /\ calls'[n].id = c.id
        /\ calls'[n].amount = c.amount /\ calls'[n].block = head
    <2> HIDE DEF c
    <2>1. QED
      BY <1>1, <1>2, <1>4 DEF Calls
  <1>6. CASE s = "reverted"
    BY <1>1, <1>2, <1>3, <1>4, <1>5, <1>6
  <1>7. CASE s = "ok"
    <2> DEFINE r == contract[k]
               u == r.used + c.amount
               q == r.processed \cup {c.id}
               t == IF k = "usdc" THEN r.tokens - c.amount ELSE r.tokens + c.amount
    <2>1. contract' = [contract EXCEPT ![k] = [r EXCEPT !.used = u, !.processed = q, !.tokens = t]]
      BY <1>1, <1>2, <1>3, <1>7
    <2>2. r \in Contracts
      BY <1>1, <1>2
    <2> HIDE DEF u, q, t
    <2>3. /\ contract'[k].processed = q /\ contract'[k].tokens = t
          /\ \A l \in Legs \ {k} : contract'[l] = contract[l]
      BY <1>1, <1>2, <2>1, <2>2, ContractReads
    <2>4. call_ok(c)
      BY <1>3, <1>7
    <2>5. QED
      BY <1>1, <1>2, <1>4, <1>5, <1>7, <2>3, <2>4 DEF q, t
  <1>8. QED
    BY <1>6, <1>7

\* What a fork does to a call and to a contract.
LEMMA ReorgCalls ==
  ASSUME Typed, Reorg
  PROVE  /\ DOMAIN calls' = DOMAIN calls
         /\ \A i \in DOMAIN calls :
              /\ calls'[i].leg = calls[i].leg /\ calls'[i].id = calls[i].id
              /\ calls'[i].amount = calls[i].amount
              /\ calls[i].block = head => calls'[i].status = "pending"
              /\ calls[i].block # head => calls'[i] = calls[i]
         /\ \A l \in Legs : contract'[l].processed
              = contract[l].processed \ {calls[i].id : i \in undone_now(l)}
         /\ \A l \in Legs : contract'[l].tokens =
              IF l = "usdc" THEN contract[l].tokens - in_now(l) + out_now(l)
              ELSE contract[l].tokens + in_now(l) - out_now(l)
  <1>1. DOMAIN calls' = DOMAIN calls
    BY ReorgIs
  <1>2. ASSUME NEW i \in DOMAIN calls
        PROVE  /\ calls'[i].leg = calls[i].leg /\ calls'[i].id = calls[i].id
               /\ calls'[i].amount = calls[i].amount
               /\ calls[i].block = head => calls'[i].status = "pending"
               /\ calls[i].block # head => calls'[i] = calls[i]
    <2>1. CASE calls[i].block = head
      <3>1. calls'[i] = [calls[i] EXCEPT !.status = "pending", !.block = 0]
        BY <2>1, ReorgIs
      <3>2. calls[i] \in Calls /\ 0 \in Nat
        BY CallsTyped
      <3>3. QED
        BY <2>1, <3>1, <3>2 DEF Calls
    <2>2. CASE calls[i].block # head
      BY <2>2, ReorgIs
    <2>3. QED
      BY <2>1, <2>2
  <1>3. ASSUME NEW l \in Legs
        PROVE  contract'[l].processed = contract[l].processed \ {calls[i].id : i \in undone_now(l)}
               /\ contract'[l].tokens = IF l = "usdc" THEN contract[l].tokens - in_now(l) + out_now(l)
                                        ELSE contract[l].tokens + in_now(l) - out_now(l)
    <2> DEFINE r == contract[l]
               q == r.processed \ {calls[i].id : i \in undone_now(l)}
               u == IF r.used > out_now(l) THEN r.used - out_now(l) ELSE 0
               t == IF l = "usdc" THEN r.tokens - in_now(l) + out_now(l)
                    ELSE r.tokens + in_now(l) - out_now(l)
    <2>1. r \in Contracts
      BY DEF Typed, ChainTyped
    <2>2. contract'[l] = [r EXCEPT !.processed = q, !.used = u, !.tokens = t]
      BY ReorgIs
    <2> HIDE DEF r, q, u, t
    <2>3. contract'[l].tokens = t /\ contract'[l].processed = q
      BY <2>1, <2>2, ContractReads
    <2>4. QED
      BY <2>3 DEF t, r, q
  <1>4. QED
    BY <1>1, <1>2, <1>3

\* What was done stays done, unless a fork takes it back.
LEMMA DoneWorld ==
  ASSUME Typed, Typed', DoneInv, Users \/ Chains
  PROVE  DoneInv'
  <1>1. UNCHANGED <<disk, pc, cur, txid>>
    BY WorldStep DEF book, stance
  <1>2. ASSUME UNCHANGED <<receipts, minted>>,
               \A i \in DOMAIN calls : i \in DOMAIN calls' /\ calls'[i].leg = calls[i].leg
                                       /\ calls'[i].id = calls[i].id,
               orphans \subseteq orphans',
               \A k \in Keys : k[1] \in HkKinds /\ processed(k) => k \in orphans' \/ processed(k)'
        PROVE  DoneInv'
    <2>1. \A k, i : Sent(k, i) => Sent(k, i)'
      BY <1>2 DEF Sent
    <2>2. \A k \in Keys : k[1] \notin EthKinds => k[1] \in HkKinds
      BY KeyFacts
    <2>3. (\A k \in Keys : disk[k].state = "confirmed" =>
             IF k[1] \in EthKinds THEN minted[k] > 0 ELSE k \in orphans \/ processed(k))'
      BY <1>1, <1>2, <2>2 DEF DoneInv
    <2>4. QED
      BY <1>1, <1>2, <2>1, <2>3 DEF DoneInv
  <1>3. contract \in [Legs -> Contracts] /\ \A k \in Keys : LegOf(k) \in Legs
    BY KeyFacts DEF Typed, ChainTyped
  <1>4. ASSUME NEW l \in Legs, NEW a \in Amounts, Lock(l, a) PROVE DoneInv'
    <2>1. /\ contract' = [contract EXCEPT ![l].tokens = IF l = "usdc" THEN @ + a ELSE @ - a]
          /\ UNCHANGED <<calls, orphans, receipts, minted>>
      BY <1>4 DEF Lock, hk
    <2>2. \A j \in Legs : contract'[j].processed = contract[j].processed
      BY <1>3, <2>1 DEF Contracts
    <2>3. QED
      BY <1>2, <1>3, <2>1, <2>2 DEF processed
  <1>5. CASE NewDay \/ \E l \in Legs : Pause(l) \/ Unpause(l)
    <2>1. \A j \in Legs : contract'[j].processed = contract[j].processed
      BY <1>3, <1>5 DEF NewDay, Pause, Unpause, Contracts
    <2>2. UNCHANGED <<calls, orphans, receipts, minted>>
      BY <1>5 DEF NewDay, Pause, Unpause, hk
    <2>3. QED
      BY <1>2, <1>3, <2>1, <2>2 DEF processed
  <1>6. ASSUME NEW n \in DOMAIN calls, Include(n) PROVE DoneInv'
    <2>1. \A j \in Legs : contract[j].processed \subseteq contract'[j].processed
      BY <1>6, IncludeIs
    <2>2. UNCHANGED <<orphans, receipts, minted>>
      BY <1>6 DEF Include, hk
    <2>3. \A k \in Keys : processed(k) => processed(k)'
      BY <1>3, <2>1 DEF processed
    <2>4. \A i \in DOMAIN calls : i \in DOMAIN calls' /\ calls'[i].leg = calls[i].leg
                                  /\ calls'[i].id = calls[i].id
      BY <1>6, IncludeIs
    <2>5. QED
      BY <1>2, <2>2, <2>3, <2>4
  <1>7. CASE Reorg
    <2>1. UNCHANGED <<receipts, minted>> /\ orphans \subseteq orphans'
      BY <1>7, ReorgIs DEF hk
    <2>2. ASSUME NEW k \in Keys, k[1] \in HkKinds, processed(k), ~processed(k)'
          PROVE  k \in orphans'
      <3>1. LegOf(k) \in Legs /\ k = <<HkKind[LegOf(k)], k[2]>>
        BY <2>2, KeyFacts DEF LegOf, HkKind, HkKinds, Legs, Keys, EthKinds
      <3>2. PICK i \in undone_now(LegOf(k)) : calls[i].id = k[2]
        BY <1>7, <2>2, <3>1, ReorgCalls DEF processed
      <3> DEFINE T(l) == {<<HkKind[l], calls[j].id>> : j \in undone_now(l)}
      <3>3. k \in T(LegOf(k))
        BY <3>1, <3>2
      <3>4. UNION {T(l) : l \in Legs} \subseteq orphans'
        BY <1>7, ReorgIs
      <3> HIDE DEF T
      <3>5. QED
        BY <3>1, <3>3, <3>4
    <2>3. QED
      BY <1>2, <1>7, <2>1, <2>2, ReorgCalls
  <1>8. ASSUME NEW m \in pending, NEW ok \in BOOLEAN, CommitMint(m, ok) PROVE DoneInv'
    <2>1. /\ receipts' = receipts \cup {[key |-> m.key, nonce |-> m.nonce, amount |-> m.amount, ok |-> ok]}
          /\ minted' = [minted EXCEPT ![m.key] = IF ok THEN @ + 1 ELSE @]
          /\ UNCHANGED <<contract, calls, orphans>>
      BY <1>8 DEF CommitMint, chain
    <2>2. m.key \in Keys /\ minted \in [Keys -> Nat] /\ \A r \in receipts : r.key \in Keys
      BY DEF Typed, HkTyped, Mints
    <2>4. (\A k \in Keys : minted'[k] >= minted[k] /\ minted[k] \in Nat) /\ (ok => minted'[m.key] > 0)
      BY <2>1, <2>2
    <2>5. \A r \in receipts' : r.ok => minted'[r.key] > 0
      <3> SUFFICES ASSUME NEW r \in receipts', r.ok PROVE minted'[r.key] > 0
        OBVIOUS
      <3>1. CASE r \in receipts
        <4>1. r.key \in Keys /\ minted[r.key] > 0
          BY <2>2, <3>1 DEF DoneInv
        <4>2. minted'[r.key] >= minted[r.key] /\ minted[r.key] \in Nat /\ minted'[r.key] \in Nat
          BY <2>4, <4>1 DEF Typed, HkTyped
        <4>3. QED
          BY <4>1, <4>2
      <3>2. CASE r = [key |-> m.key, nonce |-> m.nonce, amount |-> m.amount, ok |-> ok]
        BY <2>4, <3>2
      <3>3. QED
        BY <2>1, <3>1, <3>2
    <2>6. \A k, i : Sent(k, i) => Sent(k, i)'
      BY <2>1 DEF Sent
    <2>7. \A k \in Keys : minted[k] > 0 => minted'[k] > 0
      <3> TAKE k \in Keys
      <3>1. minted'[k] >= minted[k] /\ minted[k] \in Nat /\ minted'[k] \in Nat
        BY <2>4 DEF Typed, HkTyped
      <3>2. QED
        BY <3>1
    <2>8. \A k \in Keys : processed(k)' <=> processed(k)
      BY <2>1 DEF processed
    <2>9. QED
      BY <1>1, <2>1, <2>5, <2>6, <2>7, <2>8 DEF DoneInv
  <1>9. CASE EthBlock \/ CreateAccount \/ ForgetReceipts
             \/ \E l \in Legs, a \in Amounts, b, ok \in BOOLEAN : HkBurn(l, a, b, ok)
    <2>1. UNCHANGED <<calls, contract, orphans, receipts, minted>>
      BY <1>9 DEF EthBlock, CreateAccount, ForgetReceipts, HkBurn, chain, hk
    <2>2. QED
      BY <1>2, <2>1 DEF processed
  <1>10. QED
    BY <1>4, <1>5, <1>6, <1>7, <1>8, <1>9 DEF Users, Chains

-----------------------------------------------------------------------------
(* What the contracts hold                                                 *)

\* What was locked or burned on Ethereum up to a block, and what was released.
Up(E, l, b) == {e \in E : LegOf(e.key) = l /\ e.block <= b}
Taken(E, l, b) == SumOf([e \in E |-> e.amount], Up(E, l, b))
Good(C, l, b) == {i \in DOMAIN C : C[i].leg = l /\ C[i].status = "ok" /\ C[i].block <= b}
Paid(C, l, b) == SumOf([i \in DOMAIN C |-> C[i].amount], Good(C, l, b))

Balance(E, C, l, b) == IF l = "usdc" THEN Taken(E, l, b) - Paid(C, l, b)
                       ELSE Paid(C, l, b) - Taken(E, l, b)

\* The vault holds what was locked and not released, the wrapped token's
\* supply is what was released and not burned; and so it was at every block,
\* which is what a fork can go back to.
TokensInv ==
  /\ \A e \in events : e.block <= head
  /\ \A i \in DOMAIN calls : calls[i].status = "ok" => calls[i].block <= head
  /\ \A l \in Legs : /\ contract[l].tokens = Balance(events, calls, l, head)
                     /\ \A b \in 0..head : Balance(events, calls, l, b) >= 0

\* The events taken into account determine the sum.
LEMMA TakenSame ==
  ASSUME NEW E \in SUBSET Events, IsFiniteSet(E), NEW F \in SUBSET Events, IsFiniteSet(F),
         NEW l, NEW b, NEW c, Up(E, l, b) = Up(F, l, c)
  PROVE  Taken(E, l, b) = Taken(F, l, c)
  <1> DEFINE f == [e \in E |-> e.amount]
             g == [e \in F |-> e.amount]
             S == Up(E, l, b)
  <1>1. IsFiniteSet(S) /\ S \subseteq E /\ S \subseteq F
    BY FS_Subset DEF Up
  <1>2. \A e \in S : f[e] = g[e]
    BY <1>1
  <1> HIDE DEF f, g, S
  <1>3. SumOf(f, S) = SumOf(g, S)
    BY <1>1, <1>2, SumCongruent
  <1>4. QED
    BY <1>3 DEF f, g, S, Taken

\* It is a natural number, and one event more adds its amount.
LEMMA TakenAdd ==
  ASSUME NEW E \in SUBSET Events, IsFiniteSet(E), NEW l, NEW b
  PROVE  /\ Taken(E, l, b) \in Nat
         /\ \A e \in Events \ E : LegOf(e.key) = l /\ e.block <= b =>
              Taken(E \cup {e}, l, b) = Taken(E, l, b) + e.amount
  <1> DEFINE f == [x \in E |-> x.amount]
             S == Up(E, l, b)
  <1>1. IsFiniteSet(S) /\ S \subseteq E
    BY FS_Subset DEF Up
  <1>2. \A x \in S : f[x] \in Nat
    BY <1>1 DEF Events
  <1>3. SumOf(f, S) \in Nat
    <2> HIDE DEF f, S
    <2>1. QED
      BY <1>1, <1>2, SumNat
  <1>4. ASSUME NEW e \in Events \ E, LegOf(e.key) = l, e.block <= b
        PROVE  Taken(E \cup {e}, l, b) = Taken(E, l, b) + e.amount
    <2> DEFINE g == [x \in E \cup {e} |-> x.amount]
    <2>1. Up(E \cup {e}, l, b) = S \cup {e} /\ e \notin S
      BY <1>1, <1>4 DEF Up
    <2>2. \A x \in S \cup {e} : g[x] \in Nat
      BY <1>1 DEF Events
    <2>3. (\A x \in S : g[x] = f[x]) /\ g[e] = e.amount
      BY <1>1
    <2> HIDE DEF f, g, S
    <2>4. SumOf(g, S \cup {e}) = SumOf(g, S) + g[e]
      BY <1>1, <2>1, <2>2, SumAdd
    <2>5. SumOf(g, S) = SumOf(f, S)
      BY <1>1, <2>3, SumCongruent
    <2>6. QED
      BY <2>1, <2>3, <2>4, <2>5 DEF Taken, f, g, S
  <1>5. QED
    BY <1>3, <1>4 DEF Taken

\* The same of the calls that succeeded.
LEMMA PaidSame ==
  ASSUME NEW C \in Seq(Calls), NEW D \in Seq(Calls), NEW l, NEW b, NEW c,
         Good(C, l, b) = Good(D, l, c), \A i \in Good(C, l, b) : C[i].amount = D[i].amount
  PROVE  Paid(C, l, b) = Paid(D, l, c)
  <1> DEFINE f == [i \in DOMAIN C |-> C[i].amount]
             g == [i \in DOMAIN D |-> D[i].amount]
             S == Good(C, l, b)
  <1>1. IsFiniteSet(S) /\ S \subseteq DOMAIN C /\ S \subseteq DOMAIN D
    BY FS_Subset, SeqIsFunction DEF Good
  <1>2. \A i \in S : f[i] = g[i]
    BY <1>1
  <1> HIDE DEF f, g, S
  <1>3. SumOf(f, S) = SumOf(g, S)
    BY <1>1, <1>2, SumCongruent
  <1>4. QED
    BY <1>3 DEF f, g, S, Paid

\* One call more that succeeds adds its amount.
LEMMA PaidAdd ==
  ASSUME NEW C \in Seq(Calls), NEW l, NEW b
  PROVE  /\ Paid(C, l, b) \in Nat
         /\ \A D \in Seq(Calls) : \A n \in DOMAIN D :
              /\ Good(D, l, b) = Good(C, l, b) \cup {n} /\ n \notin Good(C, l, b)
              /\ \A i \in Good(C, l, b) : D[i].amount = C[i].amount
              => Paid(D, l, b) = Paid(C, l, b) + D[n].amount
  <1> DEFINE f == [i \in DOMAIN C |-> C[i].amount]
             S == Good(C, l, b)
  <1>1. IsFiniteSet(S) /\ S \subseteq DOMAIN C /\ \A i \in DOMAIN C : C[i] \in Calls
    BY FS_Subset, SeqIsFunction DEF Good
  <1>2. \A i \in S : f[i] \in Nat
    BY <1>1 DEF Calls
  <1>3. SumOf(f, S) \in Nat
    <2> HIDE DEF f, S
    <2>1. QED
      BY <1>1, <1>2, SumNat
  <1>4. ASSUME NEW D \in Seq(Calls), NEW n \in DOMAIN D,
               Good(D, l, b) = Good(C, l, b) \cup {n}, n \notin Good(C, l, b),
               \A i \in Good(C, l, b) : D[i].amount = C[i].amount
        PROVE  Paid(D, l, b) = Paid(C, l, b) + D[n].amount
    <2> DEFINE g == [i \in DOMAIN D |-> D[i].amount]
    <2>1. Good(D, l, b) = S \cup {n} /\ n \notin S /\ S \cup {n} \subseteq DOMAIN D
      BY <1>4 DEF Good
    <2>2. \A i \in S \cup {n} : g[i] \in Nat
      <3>1. \A i \in DOMAIN D : D[i] \in Calls
        BY SeqIsFunction
      <3>2. QED
        BY <2>1, <3>1 DEF Calls
    <2>3. (\A i \in S : g[i] = f[i]) /\ g[n] = D[n].amount
      BY <1>1, <1>4, <2>1
    <2> HIDE DEF f, g, S
    <2>4. SumOf(g, S \cup {n}) = SumOf(g, S) + g[n]
      BY <1>1, <2>1, <2>2, SumAdd
    <2>5. SumOf(g, S) = SumOf(f, S)
      BY <1>1, <2>3, SumCongruent
    <2>6. QED
      BY <2>1, <2>3, <2>4, <2>5 DEF Paid, f, g, S
  <1>5. QED
    BY <1>3, <1>4 DEF Paid

\* What a fork takes back is what its block moved.
LEMMA LastBlock ==
  ASSUME Typed, TokensInv, NEW l \in Legs, head > 0
  PROVE  /\ Taken(events, l, head) = Taken(events, l, head - 1) + in_now(l)
         /\ Paid(calls, l, head) = Paid(calls, l, head - 1) + out_now(l)
         /\ Taken(events, l, head - 1) \in Nat /\ Paid(calls, l, head - 1) \in Nat
         /\ in_now(l) \in Nat /\ out_now(l) \in Nat
  <1>1. /\ head \in Nat /\ events \in SUBSET Events /\ IsFiniteSet(events) /\ calls \in Seq(Calls)
        /\ \A e \in events : e.block \in Nat
        /\ \A i \in DOMAIN calls : calls[i].block \in Nat /\ calls[i].amount \in Nat
    BY CallsTyped DEF Typed, ChainTyped, Events
  <1>2. Taken(events, l, head) = Taken(events, l, head - 1) + in_now(l)
    <2> DEFINE f == [e \in events |-> e.amount]
               S == Up(events, l, head)
               T == {e \in gone_now : LegOf(e.key) = l}
               U == Up(events, l, head - 1)
    <2>1. IsFiniteSet(S) /\ \A e \in S : f[e] \in Nat
      BY <1>1, FS_Subset DEF Up, Events
    <2>2. S = T \cup U /\ T \cap U = {}
      BY <1>1 DEF Up, gone_now, TokensInv
    <2> HIDE DEF f, S, T, U
    <2>3. SumOf(f, S) = SumOf(f, T) + SumOf(f, U)
      BY <2>1, <2>2, SumSplit
    <2>4. SumOf(f, S) = SumOf(f, T) + SumOf(f, Up(events, l, head - 1))
      BY <2>3 DEF U
    <2>5. SumOf(f, T) \in Nat /\ SumOf(f, Up(events, l, head - 1)) \in Nat
      BY <1>1, SumsNow, TakenAdd DEF f, T, Taken, in_now, Typed
    <2>6. SumOf(f, S) = SumOf(f, Up(events, l, head - 1)) + SumOf(f, T)
      BY <2>4, <2>5
    <2>7. QED
      BY <2>6 DEF f, S, T, Taken, in_now
  <1>3. Paid(calls, l, head) = Paid(calls, l, head - 1) + out_now(l)
    <2> DEFINE f == [i \in DOMAIN calls |-> calls[i].amount]
               S == Good(calls, l, head)
               T == undone_now(l)
               U == Good(calls, l, head - 1)
    <2>1. IsFiniteSet(S) /\ \A i \in S : f[i] \in Nat
      BY <1>1, FS_Subset, SeqIsFunction DEF Good
    <2>2. S = T \cup U /\ T \cap U = {}
      BY <1>1 DEF Good, undone_now, TokensInv
    <2> HIDE DEF f, S, T, U
    <2>3. SumOf(f, S) = SumOf(f, T) + SumOf(f, U)
      BY <2>1, <2>2, SumSplit
    <2>4. SumOf(f, S) = SumOf(f, T) + SumOf(f, Good(calls, l, head - 1))
      BY <2>3 DEF U
    <2>5. SumOf(f, T) \in Nat /\ SumOf(f, Good(calls, l, head - 1)) \in Nat
      BY <1>1, SumsNow, PaidAdd DEF f, T, Paid, out_now, Typed
    <2>6. SumOf(f, S) = SumOf(f, Good(calls, l, head - 1)) + SumOf(f, T)
      BY <2>4, <2>5
    <2>7. QED
      BY <2>6 DEF f, S, T, Paid, out_now
  <1>4. QED
    BY <1>1, <1>2, <1>3, SumsNow, TakenAdd, PaidAdd DEF Typed

\* The events and calls taken into account determine a balance.
LEMMA BalanceSame ==
  ASSUME Typed, Typed', NEW l \in Legs, NEW b, NEW c,
         Up(events', l, b) = Up(events, l, c), Good(calls', l, b) = Good(calls, l, c),
         \A i \in Good(calls, l, c) : calls'[i].amount = calls[i].amount
  PROVE  Balance(events', calls', l, b) = Balance(events, calls, l, c)
  <1>1. /\ events \in SUBSET Events /\ IsFiniteSet(events) /\ calls \in Seq(Calls)
        /\ events' \in SUBSET Events /\ IsFiniteSet(events') /\ calls' \in Seq(Calls)
    BY DEF Typed, ChainTyped
  <1>2. Taken(events', l, b) = Taken(events, l, c)
    BY <1>1, TakenSame
  <1>3. Paid(calls', l, b) = Paid(calls, l, c)
    BY <1>1, PaidSame
  <1>4. QED
    BY <1>2, <1>3 DEF Balance

\* The amounts a balance is made of.
LEMMA PartsNat ==
  ASSUME Typed
  PROVE  \A l \in Legs, b \in Nat : Taken(events, l, b) \in Nat /\ Paid(calls, l, b) \in Nat
                                   /\ Balance(events, calls, l, b) \in Int
  <1>1. events \in SUBSET Events /\ IsFiniteSet(events) /\ calls \in Seq(Calls)
    BY DEF Typed, ChainTyped
  <1>2. \A l, b : Taken(events, l, b) \in Nat /\ Paid(calls, l, b) \in Nat
    BY <1>1, TakenAdd, PaidAdd
  <1>3. QED
    BY <1>2 DEF Balance

\* What moves no token and no block.
LEMMA TokensKept ==
  ASSUME Typed, Typed', TokensInv, UNCHANGED <<head, events>>,
         \A l \in Legs : contract'[l].tokens = contract[l].tokens,
         \A i \in DOMAIN calls : i \in DOMAIN calls' /\ calls'[i] = calls[i],
         \A i \in DOMAIN calls' \ DOMAIN calls : calls'[i].status # "ok"
  PROVE  TokensInv'
  <1>1. \A l, b : Up(events', l, b) = Up(events, l, b) /\ Good(calls', l, b) = Good(calls, l, b)
                 /\ \A i \in Good(calls, l, b) : calls'[i].amount = calls[i].amount
    BY DEF Up, Good
  <1>2. \A l \in Legs : \A b : Balance(events', calls', l, b) = Balance(events, calls, l, b)
    BY <1>1, BalanceSame
  <1>3. \A i \in DOMAIN calls' : calls'[i].status = "ok" => calls'[i].block <= head
    BY DEF TokensInv
  <1>4. QED
    BY <1>2, <1>3 DEF TokensInv

\* A block with nothing in it.
LEMMA TokensBlock ==
  ASSUME Typed, Typed', TokensInv, EthBlock
  PROVE  TokensInv'
  <1>1. head' = head + 1 /\ head \in Nat /\ UNCHANGED <<events, contract, calls>>
    BY DEF EthBlock, Typed, ChainTyped
  <1>2. (\A e \in events : e.block \in Nat /\ e.block <= head)
        /\ \A i \in DOMAIN calls : calls[i].block \in Nat
                                   /\ (calls[i].status = "ok" => calls[i].block <= head)
    BY CallsTyped DEF Typed, ChainTyped, Events, TokensInv, Calls
  <1>3. \A l \in Legs : \A b : Balance(events', calls', l, b) = Balance(events, calls, l, b)
    BY <1>1
  <1>4. ASSUME NEW l \in Legs
        PROVE  Balance(events', calls', l, head') = Balance(events, calls, l, head)
    <2>1. Up(events', l, head') = Up(events, l, head) /\ Good(calls', l, head') = Good(calls, l, head)
      BY <1>1, <1>2 DEF Up, Good
    <2>2. QED
      BY <1>1, <2>1, BalanceSame
  <1>5. ASSUME NEW l \in Legs, NEW b \in 0..head' PROVE Balance(events', calls', l, b) >= 0
    <2>1. CASE b \in 0..head
      BY <1>3, <2>1 DEF TokensInv
    <2>2. CASE b = head'
      <3>1. head \in 0..head
        BY <1>1
      <3>2. Balance(events, calls, l, head) >= 0
        BY <3>1 DEF TokensInv
      <3>3. QED
        BY <1>4, <2>2, <3>2
    <2>3. QED
      BY <1>1, <2>1, <2>2
  <1>6. \A l \in Legs : contract'[l].tokens = Balance(events', calls', l, head')
    BY <1>1, <1>4 DEF TokensInv
  <1>7. (\A e \in events' : e.block <= head')
        /\ \A i \in DOMAIN calls' : calls'[i].status = "ok" => calls'[i].block <= head'
    BY <1>1, <1>2
  <1>8. QED
    BY <1>5, <1>6, <1>7 DEF TokensInv

\* A user locks or burns tokens: the new block moves them, the blocks before
\* are as they were.
LEMMA TokensLock ==
  ASSUME Typed, Typed', TokensInv, NEW l \in Legs, NEW a \in Amounts, Lock(l, a)
  PROVE  TokensInv'
  <1> DEFINE n == Cardinality({x \in events : x.key[1] = EthKind[l]}) + 1
             e == [key |-> <<EthKind[l], n>>, amount |-> a, block |-> head + 1]
  <1>1. /\ head' = head + 1 /\ events' = events \cup {e} /\ UNCHANGED calls
        /\ contract' = [contract EXCEPT ![l].tokens = IF l = "usdc" THEN @ + a ELSE @ - a]
        /\ l = "hkt" => contract[l].tokens >= a
    BY DEF Lock
  <1>2. e.amount = a /\ e.block = head + 1 /\ LegOf(e.key) = l
    BY DEF LegOf, EthKind, Legs
  <1> HIDE DEF e
  <1>3. head \in Nat /\ a \in Nat /\ contract \in [Legs -> Contracts] /\ contract[l].tokens \in Int
        /\ events \in SUBSET Events /\ IsFiniteSet(events) /\ events' \in SUBSET Events
    BY BoundsNat DEF Typed, ChainTyped, Contracts
  <1>4. (\A x \in events : x.block \in Nat /\ x.block <= head)
        /\ \A i \in DOMAIN calls : calls[i].block \in Nat
                                   /\ (calls[i].status = "ok" => calls[i].block <= head)
    BY CallsTyped DEF Typed, ChainTyped, Events, TokensInv, Calls
  <1>5. e \in Events \ events
    BY <1>1, <1>2, <1>3, <1>4
  <1>6. /\ \A j \in Legs \ {l} : contract'[j].tokens = contract[j].tokens
        /\ contract'[l].tokens = IF l = "usdc" THEN contract[l].tokens + a ELSE contract[l].tokens - a
    BY <1>1, <1>3 DEF Contracts
  <1>7. ASSUME NEW j \in Legs, NEW b \in 0..head
        PROVE  Balance(events', calls', j, b) = Balance(events, calls, j, b)
    <2>1. Up(events', j, b) = Up(events, j, b) /\ Good(calls', j, b) = Good(calls, j, b)
      BY <1>1, <1>2, <1>3 DEF Up, Good
    <2>2. QED
      BY <1>1, <2>1, BalanceSame
  <1>8. ASSUME NEW j \in Legs \ {l}
        PROVE  Balance(events', calls', j, head') = Balance(events, calls, j, head)
    <2>1. Up(events', j, head') = Up(events, j, head) /\ Good(calls', j, head') = Good(calls, j, head)
      BY <1>1, <1>2, <1>3, <1>4 DEF Up, Good
    <2>2. QED
      BY <1>1, <2>1, BalanceSame
  <1>9. /\ Taken(events', l, head') = Taken(events, l, head) + a
        /\ Paid(calls', l, head') = Paid(calls, l, head)
    <2>1. e.block <= head' /\ LegOf(e.key) = l
      BY <1>1, <1>2, <1>3
    <2>2. Taken(events', l, head') = Taken(events, l, head') + a
      BY <1>1, <1>2, <1>3, <1>5, <2>1, TakenAdd
    <2>3. Up(events, l, head') = Up(events, l, head) /\ Good(calls, l, head') = Good(calls, l, head)
      BY <1>1, <1>3, <1>4 DEF Up, Good
    <2>4. Taken(events, l, head') = Taken(events, l, head)
      BY <1>3, <2>3, TakenSame
    <2>5. Paid(calls', l, head') = Paid(calls, l, head)
      BY <1>1, <2>3, PaidSame DEF Typed, ChainTyped
    <2>6. QED
      BY <2>2, <2>4, <2>5
  <1>10. /\ contract'[l].tokens = Balance(events', calls', l, head')
         /\ Balance(events', calls', l, head') >= 0
    <2>1. Taken(events, l, head) \in Nat /\ Paid(calls, l, head) \in Nat /\ head \in 0..head
      BY <1>3, PartsNat
    <2>2. contract[l].tokens = Balance(events, calls, l, head) /\ Balance(events, calls, l, head) >= 0
      BY <2>1 DEF TokensInv
    <2>3. CASE l = "usdc"
      BY <1>3, <1>6, <1>9, <2>1, <2>2, <2>3 DEF Balance
    <2>4. CASE l = "hkt"
      BY <1>1, <1>3, <1>6, <1>9, <2>1, <2>2, <2>4 DEF Balance
    <2>5. QED
      BY <2>3, <2>4 DEF Legs
  <1>11. ASSUME NEW j \in Legs, NEW b \in 0..head' PROVE Balance(events', calls', j, b) >= 0
    <2>1. CASE b \in 0..head
      BY <1>7, <2>1 DEF TokensInv
    <2>2. CASE b = head' /\ j # l
      <3>1. head \in 0..head
        BY <1>3
      <3>2. Balance(events, calls, j, head) >= 0
        BY <3>1 DEF TokensInv
      <3>3. QED
        BY <1>8, <2>2, <3>2
    <2>3. QED
      BY <1>1, <1>3, <1>10, <2>1, <2>2
  <1>12. \A j \in Legs : contract'[j].tokens = Balance(events', calls', j, head')
    BY <1>6, <1>8, <1>10 DEF TokensInv
  <1>13. (\A x \in events' : x.block <= head')
         /\ \A i \in DOMAIN calls' : calls'[i].status = "ok" => calls'[i].block <= head'
    BY <1>1, <1>2, <1>3, <1>4
  <1>14. QED
    BY <1>11, <1>12, <1>13 DEF TokensInv

\* A call succeeds: its block pays it, out of what the contract holds.
LEMMA TokensInclude ==
  ASSUME Typed, Typed', TokensInv, NEW n \in DOMAIN calls, Include(n)
  PROVE  TokensInv'
  <1> DEFINE k == calls[n].leg
             a == calls[n].amount
  <1>1. UNCHANGED <<head, events>> /\ head \in Nat /\ calls[n].block \in Nat /\ a \in Nat
        /\ DOMAIN calls' = DOMAIN calls /\ calls[n].status = "pending" /\ k \in Legs
        /\ calls \in Seq(Calls) /\ calls' \in Seq(Calls)
    BY IncludeIs, CallsTyped DEF Include, Typed, ChainTyped
  <1>2. /\ \A i \in DOMAIN calls \ {n} : calls'[i] = calls[i]
        /\ calls'[n].leg = k /\ calls'[n].amount = a /\ calls'[n].block = head
    BY IncludeIs
  <1>3. (\A e \in events : e.block \in Nat /\ e.block <= head)
        /\ \A i \in DOMAIN calls : calls[i].block \in Nat
                                   /\ (calls[i].status = "ok" => calls[i].block <= head)
    BY CallsTyped DEF Typed, ChainTyped, Events, TokensInv, Calls
  <1>4. (\A e \in events' : e.block <= head')
        /\ \A i \in DOMAIN calls' : calls'[i].status = "ok" => calls'[i].block <= head'
    BY <1>1, <1>2, <1>3
  <1>5. ASSUME NEW l \in Legs, NEW b \in 0..head,
               calls'[n].status = "ok" => l # k \/ b # head
        PROVE  Balance(events', calls', l, b) = Balance(events, calls, l, b)
    <2>1. Up(events', l, b) = Up(events, l, b)
      BY <1>1
    <2>2. Good(calls', l, b) = Good(calls, l, b)
      <3>1. n \notin Good(calls, l, b)
        BY <1>1 DEF Good
      <3>2. n \notin Good(calls', l, b)
        BY <1>1, <1>2, <1>5 DEF Good
      <3>3. \A i \in DOMAIN calls \ {n} : i \in Good(calls', l, b) <=> i \in Good(calls, l, b)
        BY <1>1, <1>2 DEF Good
      <3>4. Good(calls, l, b) \subseteq DOMAIN calls /\ Good(calls', l, b) \subseteq DOMAIN calls
        BY <1>1 DEF Good
      <3>5. QED
        BY <3>1, <3>2, <3>3, <3>4
    <2>3. \A i \in Good(calls, l, b) : calls'[i].amount = calls[i].amount
      BY <1>2 DEF Good
    <2>4. QED
      BY <2>1, <2>2, <2>3, BalanceSame
  <1>6. CASE calls'[n].status = "reverted" /\ UNCHANGED contract
    <2>1. head \in 0..head
      BY <1>1
    <2>2. \A l \in Legs, b \in 0..head : Balance(events', calls', l, b) = Balance(events, calls, l, b)
      BY <1>5, <1>6
    <2>3. QED
      BY <1>1, <1>4, <1>6, <2>1, <2>2 DEF TokensInv
  <1>7. CASE /\ calls'[n].status = "ok" /\ call_ok(calls[n])
             /\ \A l \in Legs \ {k} : contract'[l] = contract[l]
             /\ contract'[k].tokens = IF k = "usdc" THEN contract[k].tokens - a
                                      ELSE contract[k].tokens + a
    <2>1. Good(calls', k, head) = Good(calls, k, head) \cup {n} /\ n \notin Good(calls, k, head)
          /\ \A i \in Good(calls, k, head) : calls'[i].amount = calls[i].amount
      <3>1. n \in Good(calls', k, head) /\ n \notin Good(calls, k, head)
        BY <1>1, <1>2, <1>7 DEF Good
      <3>2. \A i \in DOMAIN calls \ {n} : i \in Good(calls', k, head) <=> i \in Good(calls, k, head)
        BY <1>1, <1>2 DEF Good
      <3>3. Good(calls, k, head) \subseteq DOMAIN calls /\ Good(calls', k, head) \subseteq DOMAIN calls
        BY <1>1 DEF Good
      <3>4. \A i \in Good(calls, k, head) : calls'[i].amount = calls[i].amount
        BY <1>2, <3>1, <3>3
      <3>5. QED
        BY <3>1, <3>2, <3>3, <3>4
    <2>2. Paid(calls', k, head) = Paid(calls, k, head) + a
      BY <1>1, <1>2, <2>1, PaidAdd
    <2>3. Taken(events', k, head) = Taken(events, k, head)
      BY <1>1
    <2>4. Taken(events, k, head) \in Nat /\ Paid(calls, k, head) \in Nat /\ head \in 0..head
      <3>1. k \in Legs /\ head \in Nat /\ head \in 0..head
        BY <1>1
      <3> HIDE DEF k
      <3>2. QED
        BY <3>1, PartsNat
    <2>5. contract[k].tokens = Balance(events, calls, k, head) /\ Balance(events, calls, k, head) >= 0
      BY <1>1, <2>4 DEF TokensInv
    <2>6. k = "usdc" => a <= contract[k].tokens
      BY <1>7 DEF call_ok
    <2>7. contract'[k].tokens = Balance(events', calls', k, head)
          /\ Balance(events', calls', k, head) >= 0
      <3> HIDE DEF k, a
      <3>1. CASE k = "usdc"
        BY <1>1, <1>7, <2>2, <2>3, <2>4, <2>5, <2>6, <3>1 DEF Balance
      <3>2. CASE k = "hkt"
        BY <1>1, <1>7, <2>2, <2>3, <2>4, <2>5, <3>2 DEF Balance
      <3>3. QED
        BY <1>1, <3>1, <3>2 DEF Legs
    <2>8. \A l \in Legs, b \in 0..head : l # k \/ b # head =>
            Balance(events', calls', l, b) = Balance(events, calls, l, b)
      BY <1>5
    <2>9. \A l \in Legs, b \in 0..head : Balance(events', calls', l, b) >= 0
      BY <2>7, <2>8 DEF TokensInv
    <2>10. \A l \in Legs : contract'[l].tokens = Balance(events', calls', l, head)
      BY <1>7, <2>4, <2>7, <2>8 DEF TokensInv
    <2>11. QED
      BY <1>1, <1>4, <2>9, <2>10 DEF TokensInv
  <1>8. QED
    BY <1>6, <1>7, IncludeIs

\* A fork takes the newest block back, and the contracts are as the block
\* before left them.
LEMMA TokensReorg ==
  ASSUME Typed, Typed', TokensInv, Reorg
  PROVE  TokensInv'
  <1>1. head > 0 /\ head' = head - 1 /\ head \in Nat /\ events' = events \ gone_now
        /\ DOMAIN calls' = DOMAIN calls
    BY ReorgIs, ReorgCalls DEF Typed, ChainTyped
  <1>2. (\A e \in events : e.block \in Nat /\ e.block <= head)
        /\ \A i \in DOMAIN calls : calls[i].block \in Nat
                                   /\ (calls[i].status = "ok" => calls[i].block <= head)
    BY CallsTyped DEF Typed, ChainTyped, Events, TokensInv, Calls
  <1>3. \A i \in DOMAIN calls :
              /\ calls'[i].leg = calls[i].leg
              /\ calls'[i].amount = calls[i].amount
              /\ calls[i].block = head => calls'[i].status = "pending"
              /\ calls[i].block # head => calls'[i] = calls[i]
    BY ReorgCalls
  <1>4. (\A e \in events' : e.block <= head')
        /\ \A i \in DOMAIN calls' : calls'[i].status = "ok" => calls'[i].block <= head'
    <2>1. \A e \in events' : e.block <= head'
      BY <1>1, <1>2 DEF gone_now
    <2>2. ASSUME NEW i \in DOMAIN calls, calls'[i].status = "ok" PROVE calls'[i].block <= head'
      <3>1. calls[i].block # head /\ calls'[i] = calls[i]
        BY <1>3, <2>2
      <3>2. QED
        BY <1>1, <1>2, <2>2, <3>1
    <2>3. QED
      BY <1>1, <2>1, <2>2
  <1>5. ASSUME NEW l \in Legs, NEW b \in 0..head'
        PROVE  Balance(events', calls', l, b) = Balance(events, calls, l, b)
    <2>1. b \in Nat /\ b < head
      BY <1>1
    <2>2. Up(events', l, b) = Up(events, l, b)
      BY <1>1, <1>2, <2>1 DEF Up, gone_now
    <2>3. Good(calls', l, b) = Good(calls, l, b)
      <3>1. \A i \in DOMAIN calls : i \in Good(calls', l, b) <=> i \in Good(calls, l, b)
        <4> TAKE i \in DOMAIN calls
        <4>1. CASE calls[i].block = head
          BY <1>1, <1>2, <1>3, <2>1, <4>1 DEF Good
        <4>2. CASE calls[i].block # head
          BY <1>1, <1>3, <4>2 DEF Good
        <4>3. QED
          BY <4>1, <4>2
      <3>2. Good(calls, l, b) \subseteq DOMAIN calls /\ Good(calls', l, b) \subseteq DOMAIN calls
        BY <1>1 DEF Good
      <3>3. QED
        BY <3>1, <3>2
    <2>4. \A i \in Good(calls, l, b) : calls'[i].amount = calls[i].amount
      BY <1>3 DEF Good
    <2>5. QED
      BY <2>2, <2>3, <2>4, BalanceSame
  <1>6. \A l \in Legs, b \in 0..head' : Balance(events', calls', l, b) >= 0
    <2>1. \A b \in 0..head' : b \in 0..head
      BY <1>1
    <2>2. QED
      BY <1>5, <2>1 DEF TokensInv
  <1>7. ASSUME NEW l \in Legs PROVE contract'[l].tokens = Balance(events', calls', l, head')
    <2>1. /\ Taken(events, l, head) = Taken(events, l, head - 1) + in_now(l)
          /\ Paid(calls, l, head) = Paid(calls, l, head - 1) + out_now(l)
          /\ Taken(events, l, head - 1) \in Nat /\ Paid(calls, l, head - 1) \in Nat
          /\ in_now(l) \in Nat /\ out_now(l) \in Nat
      BY <1>1, LastBlock
    <2>2. contract[l].tokens = Balance(events, calls, l, head)
      BY DEF TokensInv
    <2>3. contract'[l].tokens = IF l = "usdc" THEN contract[l].tokens - in_now(l) + out_now(l)
                                ELSE contract[l].tokens + in_now(l) - out_now(l)
      BY ReorgCalls
    <2>4. contract'[l].tokens = Balance(events, calls, l, head - 1)
      <3>1. CASE l = "usdc"
        BY <2>1, <2>2, <2>3, <3>1 DEF Balance
      <3>2. CASE l # "usdc"
        BY <2>1, <2>2, <2>3, <3>2 DEF Balance
      <3>3. QED
        BY <3>1, <3>2
    <2>5. head' \in 0..head'
      BY <1>1
    <2>6. Balance(events', calls', l, head') = Balance(events, calls, l, head')
      BY <1>5, <2>5
    <2>7. QED
      BY <1>1, <2>4, <2>6
  <1>8. QED
    BY <1>4, <1>6, <1>7 DEF TokensInv

\* Every step keeps the contracts' books.
LEMMA TokensStep ==
  ASSUME Typed, Typed', TokensInv, [Next]_vars
  PROVE  TokensInv'
  <1>1. ASSUME UNCHANGED <<head, events, calls>>,
               \A l \in Legs : contract'[l].tokens = contract[l].tokens
        PROVE  TokensInv'
    BY <1>1, TokensKept
  <1>2. CASE UNCHANGED vars
    BY <1>1, <1>2 DEF vars, chain
  <1>3. CASE NewDay \/ \E l \in Legs : Pause(l) \/ Unpause(l)
    <2>0. contract \in [Legs -> Contracts]
      BY DEF Typed, ChainTyped
    <2>1. \A j \in Legs : contract'[j].tokens = contract[j].tokens
      <3>1. CASE NewDay
        BY <2>0, <3>1 DEF NewDay, Contracts
      <3>2. ASSUME NEW l \in Legs, Pause(l) \/ Unpause(l)
            PROVE  \A j \in Legs : contract'[j].tokens = contract[j].tokens
        BY <2>0, <3>2 DEF Pause, Unpause, Contracts
      <3>3. QED
        BY <1>3, <3>1, <3>2
    <2>2. QED
      BY <1>1, <1>3, <2>1 DEF NewDay, Pause, Unpause
  <1>4. CASE ForgetReceipts \/ CreateAccount \/ (\E m \in pending, ok \in BOOLEAN : CommitMint(m, ok))
             \/ (\E l \in Legs, a \in Amounts, b, ok \in BOOLEAN : HkBurn(l, a, b, ok))
    BY <1>1, <1>4 DEF ForgetReceipts, CreateAccount, CommitMint, HkBurn, chain
  <1>5. CASE Users \/ Chains
    BY <1>3, <1>4, <1>5, TokensLock, TokensBlock, TokensInclude, TokensReorg DEF Users, Chains
  <1>6. CASE send_call
    <2>1. LET c == [leg |-> LegOf(cur), id |-> cur[2], amount |-> mem[cur].amount,
                      sigs |-> sigs, status |-> "pending", block |-> 0] IN
            \/ call_ok(c) /\ calls' = Append(calls, c) /\ answer(Len(calls) + 1)
            \/ ~call_ok(c) /\ goto("failed") /\ UNCHANGED <<calls, faults>>
            \/ goto("failed") /\ UNCHANGED calls /\ Spend("abort")
      BY <1>6 DEF send_call
    <2>2. UNCHANGED <<head, events, contract>>
      BY <1>6 DEF send_call
    <2> DEFINE c == [leg |-> LegOf(cur), id |-> cur[2], amount |-> mem[cur].amount,
                     sigs |-> sigs, status |-> "pending", block |-> 0]
    <2>3. c.status = "pending" /\ (calls' = Append(calls, c) \/ UNCHANGED calls)
      BY <2>1
    <2> HIDE DEF c
    <2>4. CASE UNCHANGED calls
      BY <1>1, <2>2, <2>4
    <2>5. CASE calls' = Append(calls, c)
      <3>1. calls \in Seq(Calls) /\ Len(calls) \in Nat /\ DOMAIN calls = 1..Len(calls)
        BY SeqIsFunction DEF Typed, ChainTyped
      <3>2. /\ \A i \in DOMAIN calls : i \in DOMAIN calls' /\ calls'[i] = calls[i]
            /\ \A i \in DOMAIN calls' \ DOMAIN calls : calls'[i] = c
        BY <2>5, <3>1
      <3>3. \A i \in DOMAIN calls' \ DOMAIN calls : calls'[i].status # "ok"
        BY <2>3, <3>2
      <3>4. \A l \in Legs : contract'[l].tokens = contract[l].tokens
        BY <2>2
      <3>5. QED
        BY <2>2, <3>2, <3>3, <3>4, TokensKept
    <2>6. QED
      BY <2>3, <2>4, <2>5
  <1>7. CASE UNCHANGED chain
    BY <1>1, <1>7 DEF chain
  <1>8. QED
    BY <1>2, <1>5, <1>6, <1>7 DEF Next, Service, record_eth_event, recheck_mint, hold_deposit,
       begin_mint, already_released, recheck_release, queue_burn, begin_release, scan_eth, hk_submit,
       submit_failed, submitted, hk_wait_receipt, end_eth, record_hk_burn, scan_hk, read_vault,
       wait_release, end_hk, tick_error, Crash, Restart, resolve

-----------------------------------------------------------------------------
(* What circulates on HashKinetics                                         *)

\* burnt and minted_on, of any burns and receipts.
Taking(B, l) == {i \in DOMAIN B : B[i].leg = l /\ B[i].accepted}
Burnt(B, l) == SumOf([i \in DOMAIN B |-> B[i].amount], Taking(B, l))
Giving(R, l) == {r \in R : LegOf(r.key) = l /\ r.ok}
Issued(R, l) == SumOf([r \in R |-> r.amount], Giving(R, l))
Receipts == [key : Keys, nonce : Nat, amount : Nat, ok : BOOLEAN]

\* No more is burnt than was issued.
CirculatingInv == \A l \in Legs : circulating(l) \in Nat

\* The accepted burns determine what is burnt; one more adds its amount.
LEMMA BurntAdd ==
  ASSUME NEW B \in Seq(Burns), NEW C \in Seq(Burns), NEW l,
         \A i \in DOMAIN B : i \in DOMAIN C /\ C[i].leg = B[i].leg /\ C[i].amount = B[i].amount
                             /\ C[i].accepted = B[i].accepted
  PROVE  /\ Burnt(B, l) \in Nat
         /\ Taking(C, l) \subseteq DOMAIN B => Burnt(C, l) = Burnt(B, l)
         /\ \A n \in DOMAIN C \ DOMAIN B : Taking(C, l) = Taking(B, l) \cup {n} =>
              Burnt(C, l) = Burnt(B, l) + C[n].amount
  <1> DEFINE f == [i \in DOMAIN B |-> B[i].amount]
             g == [i \in DOMAIN C |-> C[i].amount]
             S == Taking(B, l)
  <1>1. /\ IsFiniteSet(S) /\ S \subseteq DOMAIN B /\ S \subseteq DOMAIN C
        /\ \A i \in DOMAIN B : B[i].amount \in Nat
        /\ \A i \in DOMAIN C : C[i].amount \in Nat
    <2>1. /\ IsFiniteSet(DOMAIN B)
          /\ (\A i \in DOMAIN B : B[i] \in Burns) /\ \A i \in DOMAIN C : C[i] \in Burns
      BY SeqIsFunction
    <2>2. S \subseteq DOMAIN B
      BY DEF Taking
    <2>3. QED
      BY <2>1, <2>2, FS_Subset DEF Burns
  <1>2. \A i \in S : f[i] \in Nat /\ g[i] = f[i]
    BY <1>1
  <1>3. \A i \in DOMAIN C : g[i] \in Nat /\ g[i] = C[i].amount
    BY <1>1
  <1>4. Taking(C, l) \subseteq DOMAIN B => Taking(C, l) = S
    BY DEF Taking
  <1>5. Burnt(B, l) = SumOf(f, S) /\ Burnt(C, l) = SumOf(g, Taking(C, l))
    BY DEF Burnt
  <1> HIDE DEF f, g, S
  <1>6. SumOf(f, S) \in Nat /\ SumOf(g, S) = SumOf(f, S)
    BY <1>1, <1>2, SumNat, SumCongruent
  <1>7. Taking(C, l) \subseteq DOMAIN B => Burnt(C, l) = Burnt(B, l)
    BY <1>4, <1>5, <1>6
  <1>8. ASSUME NEW n \in DOMAIN C \ DOMAIN B, Taking(C, l) = Taking(B, l) \cup {n}
        PROVE  Burnt(C, l) = Burnt(B, l) + C[n].amount
    <2>1. Taking(C, l) = S \cup {n} /\ n \notin S /\ \A x \in S \cup {n} : g[x] \in Nat
      BY <1>1, <1>3, <1>8 DEF S
    <2>2. SumOf(g, S \cup {n}) = SumOf(g, S) + g[n]
      BY <1>1, <2>1, SumAdd
    <2>3. QED
      BY <1>3, <1>5, <1>6, <2>1, <2>2
  <1>9. QED
    BY <1>5, <1>6, <1>7, <1>8

\* One receipt more never lowers what was issued.
LEMMA IssuedAdd ==
  ASSUME NEW R \in SUBSET Receipts, IsFiniteSet(R), NEW r \in Receipts, NEW l
  PROVE  Issued(R, l) \in Nat /\ Issued(R \cup {r}, l) \in Nat /\ Issued(R \cup {r}, l) >= Issued(R, l)
  <1> DEFINE f == [x \in R |-> x.amount]
             g == [x \in R \cup {r} |-> x.amount]
             S == Giving(R, l)
             T == Giving(R \cup {r}, l)
  <1>1. IsFiniteSet(S) /\ S \subseteq R /\ (T = S \/ T = S \cup {r})
    BY FS_Subset DEF Giving
  <1>2. (\A x \in S : f[x] \in Nat /\ g[x] = f[x]) /\ (\A x \in S \cup {r} : g[x] \in Nat)
    BY <1>1 DEF Receipts
  <1>3. Issued(R, l) = SumOf(f, S) /\ Issued(R \cup {r}, l) = SumOf(g, T)
    BY DEF Issued
  <1> HIDE DEF f, g, S, T
  <1>4. SumOf(f, S) \in Nat /\ SumOf(g, S) = SumOf(f, S)
    BY <1>1, <1>2, SumNat, SumCongruent
  <1>5. CASE T = S \/ r \in S
    <2>1. T = S
      BY <1>1, <1>5
    <2>2. QED
      BY <1>3, <1>4, <2>1
  <1>6. CASE T = S \cup {r} /\ r \notin S
    <2>1. SumOf(g, S \cup {r}) = SumOf(g, S) + g[r]
      BY <1>1, <1>2, <1>6, SumAdd
    <2>2. g[r] \in Nat
      BY <1>2
    <2>3. QED
      BY <1>3, <1>4, <1>6, <2>1, <2>2
  <1>7. QED
    BY <1>1, <1>5, <1>6

\* Every step keeps the issuer's books.
LEMMA CirculatingStep ==
  ASSUME Typed, Typed', CirculatingInv, [Next]_vars
  PROVE  CirculatingInv'
  <1> DEFINE base(l) == IF l = "hkt" THEN InitialHkt ELSE 0
  <1>1. \A l \in Legs : /\ circulating(l) = base(l) + Issued(receipts, l) - Burnt(burns, l)
                        /\ circulating(l)' = base(l) + Issued(receipts', l) - Burnt(burns', l)
                        /\ base(l) \in Nat
    BY BoundsNat DEF circulating, minted_on, burnt, Issued, Burnt, Giving, Taking
  <1> HIDE DEF base
  <1>2. /\ burns \in Seq(Burns) /\ burns' \in Seq(Burns) /\ receipts \in SUBSET Receipts
        /\ IsFiniteSet(receipts)
    BY DEF Typed, HkTyped, Receipts
  <1>3. \A l \in Legs : Burnt(burns, l) \in Nat /\ Issued(receipts, l) \in Nat
    <2> TAKE l \in Legs
    <2>1. Burnt(burns, l) \in Nat
      BY <1>2, BurntAdd
    <2>2. Issued(receipts, l) \in Nat
      <3> DEFINE f == [x \in receipts |-> x.amount]
                 S == Giving(receipts, l)
      <3>1. IsFiniteSet(S) /\ \A x \in S : f[x] \in Nat
        BY <1>2, FS_Subset DEF Giving, Receipts
      <3> HIDE DEF f, S
      <3>2. SumOf(f, S) \in Nat
        BY <3>1, SumNat
      <3>3. QED
        BY <3>2 DEF f, S, Issued
    <2>3. QED
      BY <2>1, <2>2
  <1>4. ASSUME \A l \in Legs : /\ Issued(receipts', l) \in Nat /\ Issued(receipts', l) >= Issued(receipts, l)
                               /\ Burnt(burns', l) = Burnt(burns, l)
        PROVE  CirculatingInv'
    <2>1. ASSUME NEW l \in Legs PROVE circulating(l)' \in Nat
      <3>1. circulating(l) \in Nat
        BY DEF CirculatingInv
      <3>2. QED
        BY <1>1, <1>3, <1>4, <3>1
    <2>2. QED
      BY <2>1 DEF CirculatingInv
  <1>5. CASE UNCHANGED <<receipts, burns>>
    BY <1>3, <1>4, <1>5
  <1>6. CASE ForgetReceipts
    <2>1. UNCHANGED receipts /\ burns' = [i \in DOMAIN burns |-> [burns[i] EXCEPT !.known = FALSE]]
      BY <1>6 DEF ForgetReceipts
    <2>2. \A i \in DOMAIN burns : burns[i] \in Burns
      BY <1>2, SeqIsFunction
    <2>3. DOMAIN burns' = DOMAIN burns
          /\ \A i \in DOMAIN burns : i \in DOMAIN burns' /\ burns'[i].leg = burns[i].leg
               /\ burns'[i].amount = burns[i].amount /\ burns'[i].accepted = burns[i].accepted
      BY <2>1, <2>2 DEF Burns
    <2>4. \A l \in Legs : Taking(burns', l) \subseteq DOMAIN burns
      BY <2>3 DEF Taking
    <2>5. \A l \in Legs : Burnt(burns', l) = Burnt(burns, l)
      BY <1>2, <2>3, <2>4, BurntAdd
    <2>6. QED
      BY <1>3, <1>4, <2>1, <2>5
  <1>7. ASSUME NEW m \in pending, NEW ok \in BOOLEAN, CommitMint(m, ok) PROVE CirculatingInv'
    <2> DEFINE r == [key |-> m.key, nonce |-> m.nonce, amount |-> m.amount, ok |-> ok]
    <2>1. receipts' = receipts \cup {r} /\ UNCHANGED burns
      BY <1>7 DEF CommitMint
    <2>2. r \in Receipts
      BY DEF Typed, HkTyped, Mints, Receipts
    <2> HIDE DEF r
    <2>3. \A l \in Legs : Issued(receipts', l) \in Nat /\ Issued(receipts', l) >= Issued(receipts, l)
      BY <1>2, <2>1, <2>2, IssuedAdd
    <2>4. QED
      BY <1>4, <2>1, <2>3
  <1>8. ASSUME NEW l \in Legs, NEW a \in Amounts, NEW b \in BOOLEAN, NEW ok \in BOOLEAN,
               HkBurn(l, a, b, ok)
        PROVE  CirculatingInv'
    <2> DEFINE r == [leg |-> l, amount |-> a, bridgeable |-> b, accepted |-> ok, known |-> TRUE]
               n == Len(burns) + 1
    <2>1. burns' = Append(burns, r) /\ UNCHANGED receipts /\ (ok => circulating(l) >= a)
      BY <1>8 DEF HkBurn
    <2>2. r.leg = l /\ r.amount = a /\ (r.accepted <=> ok) /\ a \in Nat
      BY BoundsNat
    <2> HIDE DEF r
    <2>3. /\ \A i \in DOMAIN burns : i \in DOMAIN burns' /\ burns'[i] = burns[i]
          /\ DOMAIN burns' = DOMAIN burns \cup {n} /\ n \notin DOMAIN burns /\ burns'[n] = r
      BY <1>2, <2>1, SeqIsFunction
    <2> HIDE DEF n
    <2>4. \A j \in Legs : /\ ~(j = l /\ ok) => Taking(burns', j) \subseteq DOMAIN burns
                          /\ j = l /\ ok => Taking(burns', j) = Taking(burns, j) \cup {n}
      BY <2>2, <2>3 DEF Taking
    <2>5. \A j \in Legs : /\ ~(j = l /\ ok) => Burnt(burns', j) = Burnt(burns, j)
                          /\ j = l /\ ok => Burnt(burns', j) = Burnt(burns, j) + a
      BY <1>2, <2>2, <2>3, <2>4, BurntAdd
    <2>6. CASE ~ok
      BY <1>3, <1>4, <2>1, <2>5, <2>6
    <2>7. CASE ok
      <3>1. ASSUME NEW j \in Legs PROVE circulating(j)' \in Nat
        <4>1. circulating(j) \in Nat
          BY DEF CirculatingInv
        <4>2. CASE j = l
          BY <1>1, <1>3, <2>1, <2>2, <2>5, <2>7, <4>1, <4>2
        <4>3. CASE j # l
          BY <1>1, <1>3, <2>1, <2>5, <4>1, <4>3
        <4>4. QED
          BY <4>2, <4>3
      <3>2. QED
        BY <3>1 DEF CirculatingInv
    <2>8. QED
      BY <2>6, <2>7
  <1>9. CASE Users \/ Chains
    BY <1>5, <1>6, <1>7, <1>8, <1>9 DEF Users, Chains, Lock, CreateAccount, EthBlock, NewDay, Reorg,
       Pause, Unpause, Include, hk
  <1>10. CASE UNCHANGED vars
    BY <1>5, <1>10 DEF vars, hk
  <1>11. CASE Service \/ tick_error \/ Crash \/ Restart \/ \E k \in Keys : resolve(k)
    BY <1>5, <1>11 DEF Service, record_eth_event, recheck_mint, hold_deposit,
       begin_mint, already_released, recheck_release, queue_burn, begin_release, scan_eth, hk_submit,
       submit_failed, submitted, hk_wait_receipt, end_eth, record_hk_burn, scan_hk, read_vault, send_call,
       wait_release, end_hk, tick_error, Crash, Restart, resolve, hk
  <1>12. QED
    BY <1>9, <1>10, <1>11 DEF Next

-----------------------------------------------------------------------------
(* The theorem                                                             *)

BooksInv == ScanInv /\ DoneInv /\ TokensInv /\ CirculatingInv

\* At the start nothing is recorded, sent or held.
LEMMA BooksInit == Init => BooksInv
  <1> SUFFICES ASSUME Init PROVE BooksInv
    OBVIOUS
  <1>1. ScanInv
    <2>1. Len(burns) = 0 /\ events = {} /\ 1..hk_cursor = {}
      BY DEF Init
    <2>2. QED
      BY <2>1, BoundsNat DEF Init, ScanInv
  <1>2. DoneInv
    BY DEF Init, DoneInv, Unrecorded, Record
  <1>3. TokensInv
    <2>1. \A l, b : Up(events, l, b) = {} /\ Good(calls, l, b) = {}
      BY DEF Init, Up, Good
    <2>2. \A l, b : Taken(events, l, b) = 0 /\ Paid(calls, l, b) = 0
      BY <2>1, SumEmpty DEF Taken, Paid
    <2>3. \A l, b : Balance(events, calls, l, b) = 0
      BY <2>2 DEF Balance
    <2>4. \A l \in Legs : contract[l].tokens = 0
      BY DEF Init
    <2>5. events = {} /\ DOMAIN calls = {}
      BY DEF Init
    <2>6. QED
      BY <2>3, <2>4, <2>5 DEF TokensInv
  <1>4. CirculatingInv
    <2>1. \A l : minted_on(l) = 0 /\ burnt(l) = 0
      <3>1. \A l : {r \in receipts : LegOf(r.key) = l /\ r.ok} = {}
                   /\ {i \in DOMAIN burns : burns[i].leg = l /\ burns[i].accepted} = {}
        BY DEF Init
      <3>2. QED
        BY <3>1, SumEmpty DEF minted_on, burnt
    <2>2. QED
      BY <2>1, BoundsNat DEF CirculatingInv, circulating
  <1>5. QED
    BY <1>1, <1>2, <1>3, <1>4 DEF BooksInv

\* Every step keeps the books.
LEMMA BooksStep ==
  Typed /\ Typed' /\ ServiceInv /\ CallsInv /\ BooksInv /\ [Next]_vars => BooksInv'
  <1> SUFFICES ASSUME Typed, Typed', ServiceInv, CallsInv, BooksInv, [Next]_vars PROVE BooksInv'
    OBVIOUS
  <1>1. ScanInv /\ DoneInv /\ TokensInv /\ CirculatingInv
    BY DEF BooksInv
  <1>2. TokensInv' /\ CirculatingInv'
    BY <1>1, TokensStep, CirculatingStep
  <1>3. CASE Users \/ Chains
    BY <1>1, <1>2, <1>3, ScanWorld, DoneWorld DEF BooksInv
  <1>4. CASE Service \/ tick_error \/ Crash \/ Restart \/ \E k \in Keys : resolve(k)
    BY <1>1, <1>2, <1>4, ScanService, DoneService DEF BooksInv
  <1>5. CASE UNCHANGED vars
    <2>1. ScanInv'
      BY <1>1, <1>5 DEF vars, chain, hk, book, ScanInv, BurnKey
    <2>2. DoneInv'
      BY <1>1, <1>5 DEF vars, chain, hk, book, stance, DoneInv, Sent, processed
    <2>3. QED
      BY <1>2, <2>1, <2>2 DEF BooksInv
  <1>6. QED
    BY <1>3, <1>4, <1>5 DEF Next

\* LedgerIsTrue: the attestation service's file misses nothing its cursors
\* passed and calls confirmed only what happened, whatever crashes, lost answers
\* and resolutions there are; a fork makes exactly two exceptions, the events it
\* puts into a block already scanned and the releases it takes back.  Neither
\* contract nor the issuer's asset is ever overdrawn, forks or not.
THEOREM BridgeLedgerIsTrue == Spec => []LedgerIsTrue
  <1>1. Typed /\ BooksInv => LedgerIsTrue
    <2> SUFFICES ASSUME Typed, BooksInv PROVE LedgerIsTrue
      OBVIOUS
    <2>1. ScanInv /\ DoneInv /\ TokensInv /\ CirculatingInv
      BY DEF BooksInv
    <2>2. \A k \in Keys : mem[k].state \in States /\ disk[k].state \in States
      BY DEF Typed, BookTyped, Records
    <2>3. eth_cursor \in 0..MaxHead /\ hk_cursor \in 0..Len(burns)
      BY <2>1, BoundsNat DEF ScanInv, Typed, BookTyped
    <2>4. \A l \in Legs : contract[l].tokens \in Nat /\ contract[l].used \in Nat
      <3> TAKE l \in Legs
      <3>1. contract[l].used \in Nat /\ contract[l].tokens \in Int /\ head \in Nat
        BY DEF Typed, ChainTyped, Contracts
      <3>2. head \in 0..head
        BY <3>1
      <3>3. contract[l].tokens >= 0
        BY <2>1, <3>2 DEF TokensInv
      <3>4. QED
        BY <3>1, <3>3
    <2>5. todo \subseteq Keys /\ nonce \in Nat
      BY DEF Typed, StanceTyped, HkTyped
    <2>6. BridgeTypeOK
      BY <2>1, <2>2, <2>3, <2>4, <2>5 DEF BridgeTypeOK, CirculatingInv
    <2>7. QED
      BY <2>1, <2>6 DEF LedgerIsTrue, ScanInv, DoneInv
  <1>2. QED
    BY <1>1, PositionInit, PositionStep, ReleaseInit, ReleaseStep, BooksInit, BooksStep, PTL DEF Spec

-----------------------------------------------------------------------------
(* The reconciliation is exact                                             *)

\* The logs of one kind.
Logged(K) == {e \in events : e.key[1] = K}

\* Without a fork the logs are numbered from 1, and every record of a deposit
\* has its log.
EventMatch ==
  faults.reorg = 0 =>
    /\ \A e, f \in events : e.key = f.key => e = f
    /\ \A e \in events : e.key[2] <= Cardinality(Logged(e.key[1]))
    /\ \A k \in Keys : k[1] \in EthKinds /\ disk[k].state # "none" =>
         \E e \in events : e.key = k /\ e.amount = disk[k].amount

\* A record is in a state of its kind.
RecordMatch == \A k \in Keys : disk[k].state # "none" => disk[k].state \in StatesOf(k)

\* A mint has its record's amount; what counts as minted has a receipt, and
\* two receipts count twice.
MintMatch ==
  /\ \A m \in pending \cup receipts : /\ m.key[1] \in EthKinds /\ disk[m.key].state # "none"
                                      /\ m.amount = disk[m.key].amount
  /\ \A k \in Keys : minted[k] > 0 => \E r \in receipts : r.ok /\ r.key = k
  /\ \A r, s \in receipts : r.ok /\ s.ok /\ r.key = s.key /\ r # s => minted[r.key] > 1

\* A processed id is that of a call that succeeded.
PaidMatch ==
  \A l \in Legs : \A n \in contract[l].processed :
     \E i \in DOMAIN calls : calls[i].status = "ok" /\ calls[i].leg = l /\ calls[i].id = n

\* A user's lock takes the next number.
LEMMA EventLock ==
  ASSUME Typed, EventMatch, NEW l \in Legs, NEW a \in Amounts, Lock(l, a)
  PROVE  EventMatch'
  <1> DEFINE K == EthKind[l]
             n == Cardinality(Logged(K)) + 1
             e == [key |-> <<K, n>>, amount |-> a, block |-> head + 1]
  <1>1. events' = events \cup {e} /\ UNCHANGED <<disk, faults>>
    BY DEF Lock, Logged, book
  <1>2. e.key[1] = K /\ e.key[2] = n
    OBVIOUS
  <1>3. IsFiniteSet(events) /\ \A f \in events : f.key \in Keys /\ f.key[2] \in Nat
    BY KeyFacts DEF Typed, ChainTyped, Events
  <1>4. \A J : IsFiniteSet(Logged(J)) /\ Cardinality(Logged(J)) \in Nat
    BY <1>3, FS_Subset, FS_CardinalityType DEF Logged
  <1> SUFFICES ASSUME faults.reorg = 0 PROVE EventMatch'
    BY <1>1 DEF EventMatch
  <1>5. \A f \in events : f.key # e.key
    <2> SUFFICES ASSUME NEW f \in events, f.key = e.key PROVE FALSE
      OBVIOUS
    <2>1. f.key[1] = K /\ f.key[2] = n
      BY <1>2
    <2>2. f.key[2] <= Cardinality(Logged(f.key[1]))
      BY DEF EventMatch
    <2>3. QED
      BY <1>4, <2>1, <2>2
  <1> HIDE DEF e
  <1>6. e \notin events
    BY <1>5
  <1>7. \A f, g \in events' : f.key = g.key => f = g
    BY <1>1, <1>5 DEF EventMatch
  <1>8. \A J : Logged(J)' = IF J = K THEN Logged(J) \cup {e} ELSE Logged(J)
    BY <1>1, <1>2 DEF Logged
  <1>9. \A J : Cardinality(Logged(J)') >= Cardinality(Logged(J)) /\ Cardinality(Logged(J)') \in Nat
               /\ (J = K => Cardinality(Logged(J)') = Cardinality(Logged(J)) + 1)
    <2> TAKE J
    <2>1. CASE J = K
      <3>1. e \notin Logged(J) /\ Logged(J)' = Logged(J) \cup {e}
        BY <1>6, <1>8, <2>1 DEF Logged
      <3>2. Cardinality(Logged(J) \cup {e}) = Cardinality(Logged(J)) + 1
        BY <1>4, <3>1, FS_AddElement
      <3>3. QED
        BY <1>4, <3>1, <3>2
    <2>2. CASE J # K
      BY <1>4, <1>8, <2>2
    <2>3. QED
      BY <2>1, <2>2
  <1>10. ASSUME NEW f \in events' PROVE f.key[2] <= Cardinality(Logged(f.key[1])')
    <2>1. CASE f \in events
      <3>1. f.key[2] <= Cardinality(Logged(f.key[1])) /\ f.key[2] \in Nat
        BY <1>3, <2>1 DEF EventMatch
      <3>2. QED
        BY <1>4, <1>9, <3>1
    <2>2. CASE f = e
      <3>1. f.key[2] = Cardinality(Logged(K)) + 1 /\ f.key[1] = K
        BY <1>2, <2>2
      <3>2. QED
        BY <1>4, <1>9, <3>1
    <2>3. QED
      BY <1>1, <2>1, <2>2
  <1>11. \A k \in Keys : k[1] \in EthKinds /\ disk'[k].state # "none" =>
           \E f \in events' : f.key = k /\ f.amount = disk'[k].amount
    BY <1>1 DEF EventMatch
  <1>12. (\A f \in events : f.key[2] <= Cardinality(Logged(f.key[1])))'
    BY <1>10 DEF Logged
  <1>13. QED
    BY <1>7, <1>11, <1>12 DEF EventMatch

\* Every step keeps the logs and the records matched.
LEMMA EventStep ==
  ASSUME Typed, ServiceInv, EventMatch, RecordMatch, [Next]_vars
  PROVE  EventMatch' /\ RecordMatch'
  <1>1. ASSUME UNCHANGED <<events, disk>>, faults'.reorg = faults.reorg PROVE EventMatch'
    <2>1. \A J : Logged(J)' = Logged(J)
      BY <1>1 DEF Logged
    <2>2. QED
      BY <1>1, <2>1 DEF EventMatch
  <1>2. UNCHANGED disk => RecordMatch'
    BY DEF RecordMatch
  <1>3. CASE Users \/ Chains
    <2>1. UNCHANGED disk
      BY <1>3, WorldStep DEF book
    <2>2. CASE Reorg
      <3>1. faults'.reorg = faults.reorg + 1 /\ faults.reorg \in Nat
        BY <2>2, ReorgIs, SpendTyped DEF Typed, Faults
      <3>2. faults'.reorg # 0
        BY <3>1
      <3>3. QED
        BY <1>2, <2>1, <3>2 DEF EventMatch
    <2>3. CASE UNCHANGED events /\ faults'.reorg = faults.reorg
      BY <1>1, <1>2, <2>1, <2>3
    <2>4. CASE ForgetReceipts \/ (\E l \in Legs : Pause(l) \/ Unpause(l))
               \/ (\E m \in pending, ok \in BOOLEAN : CommitMint(m, ok))
      <3>1. faults'.reorg = faults.reorg
        BY <2>4, SpendTyped DEF ForgetReceipts, Pause, Unpause, CommitMint, Typed
      <3>2. QED
        BY <2>3, <2>4, <3>1 DEF ForgetReceipts, Pause, Unpause, CommitMint, chain
    <2>5. CASE NewDay \/ EthBlock \/ CreateAccount \/ (\E i \in DOMAIN calls : Include(i))
               \/ (\E l \in Legs, a \in Amounts, b, ok \in BOOLEAN : HkBurn(l, a, b, ok))
      BY <2>3, <2>5 DEF NewDay, EthBlock, CreateAccount, Include, HkBurn, chain
    <2>6. QED
      BY <1>2, <1>3, <2>1, <2>2, <2>4, <2>5, EventLock DEF Users, Chains
  <1>4. CASE Service \/ tick_error \/ Crash \/ Restart \/ \E k \in Keys : resolve(k)
    <2>1. UNCHANGED events /\ faults'.reorg = faults.reorg
      BY <1>4, ServiceSpares
    <2>2. ASSUME NEW k \in Keys, Written(k) PROVE EventMatch' /\ RecordMatch'
      <3>1. RecordMatch'
        BY <2>2 DEF RecordMatch, Written
      <3>2. \A J : Logged(J)' = Logged(J)
        BY <2>1 DEF Logged
      <3>3. ASSUME faults.reorg = 0, NEW j \in Keys, j[1] \in EthKinds, disk'[j].state # "none"
            PROVE  \E e \in events : e.key = j /\ e.amount = disk'[j].amount
        <4>1. CASE j = k /\ disk[k].state = "none"
          BY <2>2, <3>3, <4>1 DEF Written
        <4>2. CASE j = k /\ disk[k].state # "none"
          BY <2>2, <3>3, <4>2 DEF Written, EventMatch
        <4>3. CASE j # k
          BY <2>2, <3>3, <4>3 DEF Written, EventMatch
        <4>4. QED
          BY <4>1, <4>2, <4>3
      <3>4. QED
        BY <2>1, <3>1, <3>2, <3>3 DEF EventMatch
    <2>3. QED
      BY <1>1, <1>2, <1>4, <2>1, <2>2, ServiceWrites
  <1>5. CASE UNCHANGED vars
    BY <1>1, <1>2, <1>5 DEF vars, chain, book
  <1>6. QED
    BY <1>3, <1>4, <1>5 DEF Next

\* The mint that is sent is that of the record in hand.
LEMMA MintSent ==
  ASSUME Typed, ServiceInv, hk_submit
  PROVE  /\ cur \in Keys /\ cur[1] \in EthKinds /\ disk[cur].state # "none" /\ UNCHANGED disk
         /\ \/ UNCHANGED pending
            \/ pending' = pending \cup {[key |-> cur, nonce |-> nonce, amount |-> disk[cur].amount]}
  <1>1. pc = "mint" /\ pc \in InHand /\ pc # "down" /\ UNCHANGED disk
    BY DEF hk_submit, InHand, book
  <1>2. cur \in Keys /\ cur[1] \in EthKinds /\ disk[cur].state = "submitting" /\ mem = disk
    BY <1>1 DEF ServiceInv
  <1>3. QED
    BY <1>1, <1>2 DEF hk_submit

\* Every step keeps mints, receipts and records matched.
LEMMA MintMatchStep ==
  ASSUME Typed, Typed', ServiceInv, DoneInv, MintMatch, [Next]_vars
  PROVE  MintMatch'
  <1>1. /\ \A m \in pending \cup receipts : m.key \in Keys
        /\ minted \in [Keys -> Nat]
    BY DEF Typed, HkTyped, Mints
  <1>2. ASSUME UNCHANGED <<receipts, minted>>,
               \A k \in Keys : disk[k].state # "none" =>
                  disk'[k].state # "none" /\ disk'[k].amount = disk[k].amount,
               \A m \in pending' : m \in pending \/ (m.key \in Keys /\ m.key[1] \in EthKinds
                  /\ disk[m.key].state # "none" /\ m.amount = disk[m.key].amount)
        PROVE  MintMatch'
    <2>1. ASSUME NEW m \in pending' \cup receipts'
          PROVE  m.key[1] \in EthKinds /\ disk'[m.key].state # "none" /\ m.amount = disk'[m.key].amount
      <3>1. m.key \in Keys /\ m.key[1] \in EthKinds /\ disk[m.key].state # "none"
            /\ m.amount = disk[m.key].amount
        BY <1>1, <1>2 DEF MintMatch
      <3>2. QED
        BY <1>2, <3>1
    <2>2. QED
      BY <1>2, <2>1 DEF MintMatch
  <1>3. UNCHANGED <<receipts, minted, pending, disk>> => MintMatch'
    BY <1>2
  <1>4. ASSUME NEW m \in pending, NEW ok \in BOOLEAN, CommitMint(m, ok) PROVE MintMatch'
    <2> DEFINE r == [key |-> m.key, nonce |-> m.nonce, amount |-> m.amount, ok |-> ok]
               k == m.key
    <2>1. /\ pending' = pending \ {m} /\ receipts' = receipts \cup {r} /\ UNCHANGED disk
          /\ minted' = [minted EXCEPT ![k] = IF ok THEN @ + 1 ELSE @]
      BY <1>4 DEF CommitMint, book
    <2>2. r.key = k /\ r.amount = m.amount /\ (r.ok <=> ok) /\ k \in Keys
      BY <1>1
    <2>3. \A x \in pending' \cup receipts' : /\ x.key[1] \in EthKinds /\ disk'[x.key].state # "none"
                                             /\ x.amount = disk'[x.key].amount
      <3> HIDE DEF r
      <3>1. QED
        BY <2>1, <2>2 DEF MintMatch
    <2> HIDE DEF r, k
    <2>4. /\ \A j \in Keys \ {k} : minted'[j] = minted[j]
          /\ minted'[k] = IF ok THEN minted[k] + 1 ELSE minted[k]
          /\ \A j \in Keys : minted[j] \in Nat
      BY <1>1, <2>1, <2>2
    <2>5. ASSUME NEW j \in Keys, minted'[j] > 0 PROVE \E s \in receipts' : s.ok /\ s.key = j
      <3>1. CASE j = k /\ ok
        BY <2>1, <2>2, <3>1
      <3>2. CASE ~(j = k /\ ok)
        BY <2>1, <2>4, <2>5, <3>2 DEF MintMatch
      <3>3. QED
        BY <3>1, <3>2
    <2>6. ASSUME NEW s \in receipts', NEW t \in receipts', s.ok, t.ok, s.key = t.key, s # t
          PROVE  minted'[s.key] > 1
      <3>1. CASE s \in receipts /\ t \in receipts
        <4>1. s.key \in Keys /\ minted[s.key] > 1
          BY <1>1, <2>6, <3>1 DEF MintMatch
        <4>2. QED
          BY <2>4, <4>1
      <3>2. ASSUME NEW u \in receipts, u.ok, u.key = k, ok PROVE minted'[k] > 1
        <4>1. minted[k] > 0
          BY <3>2 DEF DoneInv
        <4>2. QED
          BY <2>2, <2>4, <3>2, <4>1
      <3>3. CASE s = r /\ t \in receipts
        BY <2>2, <2>6, <3>2, <3>3
      <3>4. CASE t = r /\ s \in receipts
        BY <2>2, <2>6, <3>2, <3>4
      <3>5. QED
        BY <2>1, <2>6, <3>1, <3>3, <3>4
    <2>7. QED
      BY <2>3, <2>5, <2>6 DEF MintMatch
  <1>5. CASE Users \/ Chains
    <2>1. UNCHANGED disk
      BY <1>5, WorldStep DEF book
    <2>2. CASE Reorg
      BY <1>3, <2>1, <2>2, ReorgIs DEF hk
    <2>3. QED
      BY <1>3, <1>4, <1>5, <2>1, <2>2 DEF Users, Chains, Lock, HkBurn, CreateAccount, EthBlock, NewDay,
         ForgetReceipts, Pause, Unpause, Include, hk
  <1>6. CASE Service \/ tick_error \/ Crash \/ Restart \/ \E k \in Keys : resolve(k)
    <2>1. UNCHANGED <<receipts, minted>>
      BY <1>6, ServiceSpares
    <2>2. \A k \in Keys : disk[k].state # "none" =>
                  disk'[k].state # "none" /\ disk'[k].amount = disk[k].amount
      BY <1>6, ServiceWrites DEF Written
    <2>3. CASE hk_submit
      <3> DEFINE m == [key |-> cur, nonce |-> nonce, amount |-> disk[cur].amount]
      <3>1. m.key = cur /\ m.amount = disk[cur].amount
        OBVIOUS
      <3>2. UNCHANGED pending \/ pending' = pending \cup {m}
        BY <2>3, MintSent
      <3> HIDE DEF m
      <3>3. \A x \in pending' : x \in pending \/ (x.key \in Keys /\ x.key[1] \in EthKinds
                  /\ disk[x.key].state # "none" /\ x.amount = disk[x.key].amount)
        BY <2>3, <3>1, <3>2, MintSent
      <3>4. QED
        BY <1>2, <2>1, <2>2, <3>3
    <2>4. CASE UNCHANGED pending
      BY <1>2, <2>1, <2>2, <2>4
    <2>5. QED
      BY <1>6, <2>3, <2>4 DEF Service, record_eth_event, recheck_mint, hold_deposit,
       begin_mint, already_released, recheck_release, queue_burn, begin_release, scan_eth,
       submit_failed, submitted, hk_wait_receipt, end_eth, record_hk_burn, scan_hk, read_vault, send_call,
       wait_release, end_hk, tick_error, Crash, Restart, resolve, hk
  <1>7. CASE UNCHANGED vars
    BY <1>3, <1>7 DEF vars, hk, book
  <1>8. QED
    BY <1>5, <1>6, <1>7 DEF Next

\* A deposit's record is that of a lock on the chain, unless a fork took it back.
SourceInv ==
  \A k \in Keys : k[1] \in EthKinds /\ disk[k].state # "none" =>
    k \in orphans \/ \E e \in events : e.key = k /\ e.amount = disk[k].amount

LEMMA SourceStep ==
  ASSUME Typed, ServiceInv, SourceInv, [Next]_vars
  PROVE  SourceInv'
  <1>1. ASSUME UNCHANGED <<disk, orphans>>, events \subseteq events' PROVE SourceInv'
    BY <1>1 DEF SourceInv
  <1>2. CASE Reorg
    <2>1. UNCHANGED disk /\ events' = events \ gone_now /\ orphans \subseteq orphans'
      BY <1>2, ReorgIs DEF book
    <2>2. \A e \in gone_now : disk[e.key].state # "none" => e.key \in orphans'
      BY <1>2, ReorgIs
    <2>3. QED
      BY <2>1, <2>2 DEF SourceInv
  <1>3. CASE Users \/ Chains
    <2>1. UNCHANGED disk
      BY <1>3, WorldStep DEF book
    <2>2. QED
      BY <1>1, <1>2, <1>3, <2>1 DEF Users, Chains, Lock, HkBurn, CreateAccount, EthBlock, NewDay,
         ForgetReceipts, Pause, Unpause, Include, CommitMint, chain
  <1>4. CASE Service \/ tick_error \/ Crash \/ Restart \/ \E k \in Keys : resolve(k)
    <2>1. UNCHANGED <<events, orphans>>
      BY <1>4, ServiceSpares
    <2>2. ASSUME NEW k \in Keys, Written(k) PROVE SourceInv'
      <3> SUFFICES ASSUME NEW j \in Keys, j[1] \in EthKinds, disk'[j].state # "none"
                   PROVE  j \in orphans \/ \E e \in events : e.key = j /\ e.amount = disk'[j].amount
        BY <2>1 DEF SourceInv
      <3>1. CASE disk[j].state = "none"
        BY <2>2, <3>1 DEF Written
      <3>2. CASE disk[j].state # "none"
        <4>1. disk'[j].amount = disk[j].amount
          BY <2>2, <3>2 DEF Written
        <4>2. QED
          BY <3>2, <4>1 DEF SourceInv
      <3>3. QED
        BY <3>1, <3>2
    <2>3. QED
      BY <1>1, <1>4, <2>1, <2>2, ServiceWrites
  <1>5. CASE UNCHANGED vars
    BY <1>1, <1>5 DEF vars, chain, book
  <1>6. QED
    BY <1>3, <1>4, <1>5 DEF Next

\* MintsMatchLocks: what the issuer mints is a lock on the Ethereum chain with
\* its amount, through crashes, retries, lost answers and an operator's
\* resolutions; the exception is a lock that a fork took back after scan_eth
\* had recorded it, which the service mints all the same.
THEOREM BridgeMintsMatchLocks == Spec => []MintsMatchLocks
  <1> DEFINE Match == MintMatch /\ SourceInv
  <1>1. Init => Match
    BY DEF Init, MintMatch, SourceInv, Unrecorded, Record
  <1>2. Typed /\ Typed' /\ ServiceInv /\ BooksInv /\ Match /\ [Next]_vars => Match'
    BY MintMatchStep, SourceStep DEF BooksInv
  <1>3. Typed /\ Match => MintsMatchLocks
    <2> SUFFICES ASSUME Typed, Match, NEW r \in receipts, r.key \notin orphans
                 PROVE  \E e \in events : e.key = r.key /\ e.amount = r.amount
      BY DEF MintsMatchLocks
    <2>1. r.key \in Keys /\ r.key[1] \in EthKinds /\ disk[r.key].state # "none"
          /\ r.amount = disk[r.key].amount
      BY DEF MintMatch, Typed, HkTyped
    <2>2. QED
      BY <2>1 DEF SourceInv
  <1>4. QED
    BY <1>1, <1>2, <1>3, PositionInit, PositionStep, ReleaseInit, ReleaseStep, BooksInit, BooksStep,
       PTL DEF Spec

\* Every step keeps processed ids and successful calls matched.
LEMMA PaidMatchStep ==
  ASSUME Typed, Typed', ServiceInv, PaidMatch, [Next]_vars
  PROVE  PaidMatch'
  <1>1. ASSUME \A l \in Legs : contract'[l].processed = contract[l].processed,
               \A i \in DOMAIN calls : i \in DOMAIN calls' /\ calls'[i] = calls[i]
        PROVE  PaidMatch'
    BY <1>1 DEF PaidMatch
  <1>2. contract \in [Legs -> Contracts]
    BY DEF Typed, ChainTyped
  <1>3. ASSUME NEW l \in Legs, NEW a \in Amounts, Lock(l, a) PROVE PaidMatch'
    <2>1. /\ contract' = [contract EXCEPT ![l].tokens = IF l = "usdc" THEN @ + a ELSE @ - a]
          /\ UNCHANGED calls
      BY <1>3 DEF Lock
    <2>2. \A j \in Legs : contract'[j].processed = contract[j].processed
      BY <1>2, <2>1 DEF Contracts
    <2>3. QED
      BY <1>1, <2>1, <2>2
  <1>4. CASE NewDay \/ \E l \in Legs : Pause(l) \/ Unpause(l)
    <2>1. \A j \in Legs : contract'[j].processed = contract[j].processed
      <3>1. CASE NewDay
        BY <1>2, <3>1 DEF NewDay, Contracts
      <3>2. ASSUME NEW l \in Legs, Pause(l) \/ Unpause(l)
            PROVE  \A j \in Legs : contract'[j].processed = contract[j].processed
        BY <1>2, <3>2 DEF Pause, Unpause, Contracts
      <3>3. QED
        BY <1>4, <3>1, <3>2
    <2>2. QED
      BY <1>1, <1>4, <2>1 DEF NewDay, Pause, Unpause
  <1>5. ASSUME NEW n \in DOMAIN calls, Include(n) PROVE PaidMatch'
    <2>1. /\ DOMAIN calls' = DOMAIN calls /\ calls[n].status = "pending"
          /\ \A i \in DOMAIN calls \ {n} : calls'[i] = calls[i]
          /\ calls'[n].leg = calls[n].leg /\ calls'[n].id = calls[n].id
      BY <1>5, IncludeIs
    <2>2. \/ UNCHANGED contract
          \/ /\ calls'[n].status = "ok"
             /\ \A l \in Legs \ {calls[n].leg} : contract'[l] = contract[l]
             /\ contract'[calls[n].leg].processed = contract[calls[n].leg].processed \cup {calls[n].id}
      BY <1>5, IncludeIs
    <2>3. ASSUME NEW l \in Legs, NEW d \in contract'[l].processed
          PROVE  \E i \in DOMAIN calls' : calls'[i].status = "ok" /\ calls'[i].leg = l /\ calls'[i].id = d
      <3>1. CASE d \in contract[l].processed
        <4>1. PICK i \in DOMAIN calls : calls[i].status = "ok" /\ calls[i].leg = l /\ calls[i].id = d
          BY <3>1 DEF PaidMatch
        <4>2. i # n
          BY <2>1, <4>1
        <4>3. QED
          BY <2>1, <4>1, <4>2
      <3>2. CASE d \notin contract[l].processed
        <4>1. calls'[n].status = "ok" /\ l = calls[n].leg /\ d = calls[n].id
          BY <2>2, <2>3, <3>2
        <4>2. QED
          BY <2>1, <4>1
      <3>3. QED
        BY <3>1, <3>2
    <2>4. QED
      BY <2>3 DEF PaidMatch
  <1>6. CASE Reorg
    <2>1. /\ DOMAIN calls' = DOMAIN calls
          /\ \A i \in DOMAIN calls : calls[i].block # head => calls'[i] = calls[i]
          /\ \A l \in Legs : contract'[l].processed
               = contract[l].processed \ {calls[i].id : i \in undone_now(l)}
      BY <1>6, ReorgCalls
    <2>2. ASSUME NEW l \in Legs, NEW d \in contract'[l].processed
          PROVE  \E i \in DOMAIN calls' : calls'[i].status = "ok" /\ calls'[i].leg = l /\ calls'[i].id = d
      <3>1. d \in contract[l].processed
        BY <2>1
      <3>2. PICK i \in DOMAIN calls : calls[i].status = "ok" /\ calls[i].leg = l /\ calls[i].id = d
        BY <3>1 DEF PaidMatch
      <3>3. calls[i].block # head
        BY <2>1, <2>2, <3>2 DEF undone_now
      <3>4. QED
        BY <2>1, <3>2, <3>3
    <2>3. QED
      BY <2>2 DEF PaidMatch
  <1>7. CASE UNCHANGED chain
    BY <1>1, <1>7 DEF chain
  <1>8. CASE Users \/ Chains
    BY <1>1, <1>3, <1>4, <1>5, <1>6, <1>7, <1>8 DEF Users, Chains, HkBurn, CreateAccount, EthBlock, ForgetReceipts, CommitMint
  <1>9. CASE Service \/ tick_error \/ Crash \/ Restart \/ \E k \in Keys : resolve(k)
    BY <1>1, <1>9, ServiceSpares
  <1>10. QED
    BY <1>7, <1>8, <1>9 DEF Next, vars

\* The ledger has finitely many keys.
LEMMA KeysFinite == IsFiniteSet(Keys)
  <1>1. IsFiniteSet(1..MaxEvents) /\ IsFiniteSet(1..MaxBurns)
    BY BoundsNat, FS_Interval
  <1>2. IsFiniteSet(EthKinds) /\ IsFiniteSet(HkKinds)
    <2>1. EthKinds = {"deposit"} \cup {"wburn"} /\ HkKinds = {"burn"} \cup {"wlock"}
      BY DEF EthKinds, HkKinds
    <2>2. IsFiniteSet({"deposit"}) /\ IsFiniteSet({"burn"})
      BY FS_Singleton
    <2>3. QED
      BY <2>1, <2>2, FS_AddElement
  <1>3. IsFiniteSet(EthKinds \X (1..MaxEvents)) /\ IsFiniteSet(HkKinds \X (1..MaxBurns))
    BY <1>1, <1>2, FS_Product
  <1>4. QED
    BY <1>3, FS_Union DEF Keys

\* The records of a kind: under way, and confirmed.
UnderWay(K) == in_states({K}, IF K \in EthKinds THEN PendingDeposits ELSE PendingBurns)
Confirmed(K) == in_states({K}, {"confirmed"})

\* What the reconciliation finds at rest.
AtRest ==
  /\ Settled /\ faults.reorg = 0 /\ (\A k \in Keys : faults.lost[k] = 0)
  /\ Typed /\ BurnInv /\ CallsInv /\ BooksInv /\ OneMintPerDeposit
  /\ EventMatch /\ RecordMatch /\ MintMatch /\ PaidMatch

\* The records' amounts, and the sum of those of a kind.
Amount == [k \in Keys |-> mem[k].amount]

LEMMA KindSplits ==
  ASSUME Typed, NEW K \in EthKinds \cup HkKinds
  PROVE  /\ amount_of(UnderWay(K) \cup Confirmed(K)) = amount_of(UnderWay(K)) + amount_of(Confirmed(K))
         /\ amount_of(UnderWay(K)) \in Nat /\ amount_of(Confirmed(K)) \in Nat
  <1> DEFINE T == UnderWay(K)
             U == Confirmed(K)
             S == T \cup U
  <1>1. T \cap U = {} /\ S \subseteq Keys
    BY DEF UnderWay, Confirmed, in_states, PendingDeposits, PendingBurns
  <1>2. IsFiniteSet(T) /\ IsFiniteSet(U) /\ IsFiniteSet(S)
    BY <1>1, KeysFinite, FS_Subset
  <1>3. \A k \in Keys : Amount[k] \in Nat
    BY DEF Amount, Typed, BookTyped, Records
  <1>4. amount_of(S) = SumOf(Amount, S) /\ amount_of(T) = SumOf(Amount, T)
        /\ amount_of(U) = SumOf(Amount, U)
    BY DEF amount_of, Amount
  <1>5. S = T \cup U
    OBVIOUS
  <1> HIDE DEF S, T, U
  <1>6. \A k \in S : Amount[k] \in Nat
    BY <1>1, <1>3
  <1>7. SumOf(Amount, S) = SumOf(Amount, T) + SumOf(Amount, U)
    BY <1>1, <1>2, <1>5, <1>6, SumSplit
  <1>8. SumOf(Amount, T) \in Nat /\ SumOf(Amount, U) \in Nat
    BY <1>1, <1>2, <1>3, <1>5, SumNat
  <1>9. QED
    BY <1>4, <1>7, <1>8 DEF S, T, U

\* At rest a record that exists is under way or confirmed.
LEMMA RestRecords ==
  ASSUME AtRest
  PROVE  /\ mem = disk
         /\ \A K \in EthKinds \cup HkKinds : \A k \in Keys :
              /\ k \in UnderWay(K) \cup Confirmed(K) <=> k[1] = K /\ mem[k].state # "none"
              /\ k \in Confirmed(K) <=> k[1] = K /\ mem[k].state = "confirmed"
  <1>1. mem = disk
    BY DEF AtRest, Settled
  <1>2. ASSUME NEW K \in EthKinds \cup HkKinds, NEW k \in Keys, k[1] = K
        PROVE  mem[k].state # "none" <=> mem[k].state \in StatesOf(k)
    <2>1. mem[k].state # "none" => mem[k].state \in StatesOf(k)
      BY <1>1 DEF AtRest, RecordMatch
    <2>2. "none" \notin StatesOf(k)
      BY DEF StatesOf, PendingDeposits, PendingBurns
    <2>3. QED
      BY <2>1, <2>2
  <1>3. QED
    BY <1>1, <1>2 DEF UnderWay, Confirmed, in_states, StatesOf

\* What was locked is what the deposits' records say.
LEMMA RestTaken ==
  ASSUME AtRest
  PROVE  Taken(events, "usdc", head) = amount_of(UnderWay("deposit") \cup Confirmed("deposit"))
  <1> DEFINE S == Up(events, "usdc", head)
             g == [e \in events |-> e.key]
             d == [e \in events |-> e.amount]
             I == UnderWay("deposit") \cup Confirmed("deposit")
  <1>1. /\ IsFiniteSet(events) /\ events \subseteq Events /\ Typed /\ mem = disk
        /\ \A e \in events : e.block <= head
        /\ \A k \in Keys : k \in I <=> k[1] = "deposit" /\ mem[k].state # "none"
        /\ I \subseteq Keys
    BY RestRecords DEF AtRest, Typed, ChainTyped, BooksInv, TokensInv, EthKinds,
       UnderWay, Confirmed, in_states
  <1>2. \A e \in events : e.key \in Keys /\ e.key[1] \in EthKinds /\ e.amount \in Nat /\ e.block \in Nat
    BY <1>1 DEF Events
  <1>3. \A e \in events : disk[e.key].state # "none"
    <2> TAKE e \in events
    <2>1. ~(e.block > eth_cursor) /\ eth_cursor \in Nat
      BY DEF AtRest, Settled, unscanned, Typed, BookTyped
    <2>2. e.block <= eth_cursor
      BY <1>2, <2>1
    <2>3. QED
      BY <2>2 DEF AtRest, BooksInv, ScanInv
  <1>4. \A e \in events : mem[e.key].amount = e.amount
    <2> TAKE e \in events
    <2>1. PICK f \in events : f.key = e.key /\ f.amount = disk[e.key].amount
      BY <1>2, <1>3 DEF AtRest, EventMatch
    <2>2. f = e
      BY <2>1 DEF AtRest, EventMatch
    <2>3. QED
      BY <1>1, <2>1, <2>2
  <1>5. S \subseteq events /\ IsFiniteSet(S)
    BY <1>1, FS_Subset DEF Up
  <1>6. {g[e] : e \in S} = I
    <2>1. ASSUME NEW e \in S PROVE g[e] \in I
      <3>1. e \in events /\ LegOf(e.key) = "usdc"
        BY DEF Up
      <3>2. e.key[1] = "deposit"
        BY <1>2, <3>1 DEF LegOf, EthKinds
      <3>3. QED
        BY <1>1, <1>2, <1>3, <3>1, <3>2
    <2>2. ASSUME NEW k \in I PROVE \E e \in S : g[e] = k
      <3>1. k \in Keys /\ k[1] = "deposit" /\ disk[k].state # "none"
        BY <1>1
      <3>2. PICK e \in events : e.key = k
        BY <3>1 DEF AtRest, EventMatch, EthKinds
      <3>3. e \in S
        BY <1>1, <3>1, <3>2 DEF Up, LegOf
      <3>4. QED
        BY <3>2, <3>3
    <2>3. QED
      BY <2>1, <2>2
  <1>7. \A e \in S : d[e] \in Nat /\ Amount[g[e]] = d[e]
    BY <1>2, <1>4, <1>5 DEF Amount
  <1>8. \A e, f \in S : g[e] = g[f] => e = f
    BY <1>5 DEF AtRest, EventMatch
  <1> HIDE DEF S, g, d, I
  <1>9. SumOf(d, S) = SumOf(Amount, {g[e] : e \in S})
    BY <1>5, <1>7, <1>8, SumReindex
  <1>10. QED
    BY <1>6, <1>9 DEF S, d, I, Taken, amount_of, Amount

\* What was issued is what the deposits' confirmed records say.
LEMMA RestIssued ==
  ASSUME AtRest
  PROVE  Issued(receipts, "usdc") = amount_of(Confirmed("deposit"))
  <1> DEFINE S == Giving(receipts, "usdc")
             g == [r \in receipts |-> r.key]
             d == [r \in receipts |-> r.amount]
             I == Confirmed("deposit")
  <1>1. /\ IsFiniteSet(receipts) /\ receipts \subseteq Receipts /\ Typed /\ mem = disk
        /\ \A k \in Keys : k \in I <=> k[1] = "deposit" /\ mem[k].state = "confirmed"
        /\ I \subseteq Keys
    BY RestRecords DEF AtRest, Typed, HkTyped, Receipts, EthKinds, Confirmed, in_states
  <1>2. \A r \in receipts : /\ r.key \in Keys /\ r.key[1] \in EthKinds /\ r.amount \in Nat
                            /\ r.amount = mem[r.key].amount
    BY <1>1 DEF Receipts, AtRest, MintMatch
  <1>3. \A k \in Keys : minted[k] \in Nat /\ minted[k] <= 1
    BY <1>1 DEF AtRest, OneMintPerDeposit, Typed, HkTyped
  <1>4. S \subseteq receipts /\ IsFiniteSet(S) /\ \A r \in S : r.ok /\ LegOf(r.key) = "usdc"
    BY <1>1, FS_Subset DEF Giving
  <1>5. {g[r] : r \in S} = I
    <2>1. ASSUME NEW r \in S PROVE g[r] \in I
      <3>1. r \in receipts /\ r.ok /\ r.key[1] = "deposit"
        BY <1>2, <1>4 DEF LegOf, EthKinds
      <3>2. minted[r.key] > 0
        BY <3>1 DEF AtRest, BooksInv, DoneInv
      <3>3. mem[r.key].state = "confirmed"
        BY <1>2, <3>1, <3>2 DEF AtRest, Settled
      <3>4. QED
        BY <1>1, <1>2, <3>1, <3>3
    <2>2. ASSUME NEW k \in I PROVE \E r \in S : g[r] = k
      <3>1. k \in Keys /\ k[1] = "deposit" /\ disk[k].state = "confirmed"
        BY <1>1
      <3>2. minted[k] > 0
        BY <3>1 DEF AtRest, BooksInv, DoneInv, EthKinds
      <3>3. PICK r \in receipts : r.ok /\ r.key = k
        BY <3>1, <3>2 DEF AtRest, MintMatch
      <3>4. r \in S
        BY <3>1, <3>3 DEF Giving, LegOf
      <3>5. QED
        BY <3>3, <3>4
    <2>3. QED
      BY <2>1, <2>2
  <1>6. \A r \in S : d[r] \in Nat /\ Amount[g[r]] = d[r]
    BY <1>2, <1>4 DEF Amount
  <1>7. \A r, s \in S : g[r] = g[s] => r = s
    <2> SUFFICES ASSUME NEW r \in S, NEW s \in S, r.key = s.key, r # s PROVE FALSE
      BY <1>4
    <2>1. minted[r.key] > 1 /\ r.key \in Keys
      BY <1>2, <1>4 DEF AtRest, MintMatch
    <2>2. QED
      BY <1>3, <2>1
  <1> HIDE DEF S, g, d, I
  <1>8. SumOf(d, S) = SumOf(Amount, {g[r] : r \in S})
    BY <1>4, <1>6, <1>7, SumReindex
  <1>9. QED
    BY <1>5, <1>8 DEF S, d, I, Issued, amount_of, Amount

\* What was burnt is what the burns' records say.
LEMMA RestBurnt ==
  ASSUME AtRest
  PROVE  Burnt(burns, "usdc") = amount_of(UnderWay("burn") \cup Confirmed("burn"))
  <1> DEFINE S == Taking(burns, "usdc")
             g == [i \in DOMAIN burns |-> BurnKey(i)]
             d == [i \in DOMAIN burns |-> burns[i].amount]
             I == UnderWay("burn") \cup Confirmed("burn")
  <1>1. /\ burns \in Seq(Burns) /\ Typed /\ mem = disk
        /\ \A k \in Keys : k \in I <=> k[1] = "burn" /\ mem[k].state # "none"
        /\ I \subseteq Keys
    BY RestRecords DEF AtRest, Typed, HkTyped, HkKinds, UnderWay, Confirmed, in_states
  <1>2. IsFiniteSet(DOMAIN burns) /\ DOMAIN burns = 1..Len(burns) /\ hk_cursor = Len(burns)
        /\ \A i \in DOMAIN burns : burns[i].amount \in Nat /\ burns[i].leg \in Legs
    <2>1. IsFiniteSet(DOMAIN burns) /\ DOMAIN burns = 1..Len(burns)
          /\ \A i \in DOMAIN burns : burns[i] \in Burns
      BY <1>1, SeqIsFunction
    <2>2. \A i \in DOMAIN burns : burns[i].amount \in Nat /\ burns[i].leg \in Legs
      BY <2>1 DEF Burns
    <2>3. QED
      BY <2>1, <2>2 DEF AtRest, Settled
  <1>3. \A i \in DOMAIN burns : /\ BurnKey(i) \in Keys /\ BurnKey(i)[1] \in HkKinds
                                /\ BurnKey(i)[2] = i /\ LegOf(BurnKey(i)) = burns[i].leg
                                /\ BurnKey(i)[1] = HkKind[burns[i].leg]
    BY <1>1, BurnKeyIs DEF BurnKey
  <1>4. \A i \in DOMAIN burns : burns[i].accepted <=> mem[BurnKey(i)].state # "none"
    <2> TAKE i \in DOMAIN burns
    <2>1. burns[i].accepted => disk[BurnKey(i)].state # "none"
      BY <1>2 DEF AtRest, BooksInv, ScanInv
    <2>2. ~burns[i].accepted => ~has(BurnKey(i))
      BY <1>2 DEF AtRest, Settled
    <2>3. QED
      BY <1>1, <2>1, <2>2 DEF has
  <1>5. S \subseteq DOMAIN burns /\ IsFiniteSet(S) /\ \A i \in S : burns[i].accepted /\ burns[i].leg = "usdc"
    BY <1>2, FS_Subset DEF Taking
  <1>6. {g[i] : i \in S} = I
    <2>1. ASSUME NEW i \in S PROVE g[i] \in I
      <3>1. i \in DOMAIN burns /\ BurnKey(i)[1] = "burn" /\ mem[BurnKey(i)].state # "none"
        BY <1>3, <1>4, <1>5 DEF HkKind, Legs
      <3>2. QED
        BY <1>1, <1>3, <3>1
    <2>2. ASSUME NEW k \in I PROVE \E i \in S : g[i] = k
      <3>1. k \in Keys /\ k[1] = "burn" /\ disk[k].state # "none"
        BY <1>1
      <3>2. k[2] \in DOMAIN burns /\ burns[k[2]].leg = "usdc"
        BY <3>1 DEF AtRest, BurnInv, HkKinds, LegOf
      <3>3. BurnKey(k[2]) = k
        BY <3>1, <3>2, KeyFacts DEF BurnKey, HkKind, Legs
      <3>4. k[2] \in S
        BY <1>1, <1>4, <3>1, <3>2, <3>3 DEF Taking
      <3>5. QED
        BY <3>2, <3>3, <3>4
    <2>3. QED
      BY <2>1, <2>2
  <1>7. \A i \in S : d[i] \in Nat /\ Amount[g[i]] = d[i]
    <2> TAKE i \in S
    <2>1. i \in DOMAIN burns /\ BurnKey(i) \in Keys /\ BurnKey(i)[1] \in HkKinds /\ BurnKey(i)[2] = i
          /\ disk[BurnKey(i)].state # "none"
      BY <1>1, <1>3, <1>4, <1>5
    <2>2. burns[i].amount = disk[BurnKey(i)].amount
      BY <2>1 DEF AtRest, BurnInv
    <2>3. QED
      BY <1>1, <1>2, <2>1, <2>2 DEF Amount
  <1>8. \A i, j \in S : g[i] = g[j] => i = j
    <2> SUFFICES ASSUME NEW i \in S, NEW j \in S, BurnKey(i) = BurnKey(j) PROVE i = j
      BY <1>5
    <2>1. BurnKey(i)[2] = i /\ BurnKey(j)[2] = j
      BY <1>3, <1>5
    <2>2. QED
      BY <2>1
  <1> HIDE DEF S, g, d, I
  <1>9. SumOf(d, S) = SumOf(Amount, {g[i] : i \in S})
    BY <1>5, <1>7, <1>8, SumReindex
  <1>10. QED
    BY <1>6, <1>9 DEF S, d, I, Burnt, amount_of, Amount

\* What was released is what the burns' confirmed records say.
LEMMA RestPaid ==
  ASSUME AtRest
  PROVE  Paid(calls, "usdc", head) = amount_of(Confirmed("burn"))
  <1> DEFINE S == Good(calls, "usdc", head)
             g == [i \in DOMAIN calls |-> <<"burn", calls[i].id>>]
             d == [i \in DOMAIN calls |-> calls[i].amount]
             I == Confirmed("burn")
  <1>1. /\ Typed /\ mem = disk /\ burns \in Seq(Burns) /\ calls \in Seq(Calls)
        /\ \A k \in Keys : k \in I <=> k[1] = "burn" /\ mem[k].state = "confirmed"
        /\ I \subseteq Keys
    BY RestRecords DEF AtRest, Typed, HkTyped, ChainTyped, HkKinds, Confirmed, in_states
  <1>2. IsFiniteSet(DOMAIN calls) /\ \A i \in DOMAIN calls : calls[i].amount \in Nat
    <2>1. IsFiniteSet(DOMAIN calls) /\ \A i \in DOMAIN calls : calls[i] \in Calls
      BY <1>1, SeqIsFunction
    <2>2. QED
      BY <2>1 DEF Calls
  <1>3. S \subseteq DOMAIN calls /\ IsFiniteSet(S) /\ \A i \in S : calls[i].status = "ok" /\ calls[i].leg = "usdc"
    BY <1>2, FS_Subset DEF Good
  <1>4. ASSUME NEW i \in S
        PROVE  /\ g[i] \in Keys /\ g[i][1] = "burn" /\ g[i][2] = calls[i].id
               /\ calls[i].id \in DOMAIN burns /\ BurnKey(calls[i].id) = g[i]
               /\ burns[calls[i].id].amount = calls[i].amount
               /\ mem[g[i]].state = "confirmed"
    <2> DEFINE n == calls[i].id
    <2>1. g[i] = <<"burn", n>> /\ i \in DOMAIN calls
      BY <1>3
    <2>2. n \in DOMAIN burns /\ burns[n].leg = "usdc" /\ burns[n].amount = calls[i].amount
      BY <1>3 DEF AtRest, CallsInv, GoodBurn
    <2>3. BurnKey(n) = <<"burn", n>>
      BY <2>2 DEF BurnKey, HkKind, Legs
    <2>4. BurnKey(n) \in Keys
      BY <1>1, <2>2, BurnKeyIs
    <2>5. n \in contract["usdc"].processed
      BY <1>3 DEF AtRest, CallsInv
    <2>6. processed(<<"burn", n>>)
      BY <2>5 DEF processed, LegOf
    <2>7. mem[<<"burn", n>>].state = "confirmed"
      BY <2>3, <2>4, <2>6 DEF AtRest, Settled, EthKinds
    <2>8. QED
      BY <2>1, <2>2, <2>3, <2>4, <2>7
  <1>5. {g[i] : i \in S} = I
    <2>1. ASSUME NEW i \in S PROVE g[i] \in I
      BY <1>1, <1>4
    <2>2. ASSUME NEW k \in I PROVE \E i \in S : g[i] = k
      <3>1. k \in Keys /\ k[1] = "burn" /\ disk[k].state = "confirmed"
        BY <1>1
      <3>2. processed(k)
        <4>1. k[1] \notin EthKinds /\ faults.reorg = 0
          BY <3>1 DEF EthKinds, AtRest
        <4>2. (k \in orphans \/ processed(k)) /\ orphans = {}
          BY <3>1, <4>1 DEF AtRest, BooksInv, DoneInv, ScanInv
        <4>3. QED
          BY <4>1, <4>2
      <3>3. k[2] \in contract["usdc"].processed
        BY <3>1, <3>2 DEF processed, LegOf
      <3>4. PICK i \in DOMAIN calls : calls[i].status = "ok" /\ calls[i].leg = "usdc" /\ calls[i].id = k[2]
        BY <3>3 DEF AtRest, PaidMatch, Legs
      <3>5. i \in S
        BY <3>4 DEF Good, AtRest, BooksInv, TokensInv
      <3>6. g[i] = k
        BY <3>1, <3>4, KeyFacts
      <3>7. QED
        BY <3>5, <3>6
    <2>3. QED
      BY <2>1, <2>2
  <1>6. \A i \in S : d[i] \in Nat /\ Amount[g[i]] = d[i]
    <2> TAKE i \in S
    <2>1. g[i] \in Keys /\ g[i][1] \in HkKinds /\ g[i][2] = calls[i].id /\ disk[g[i]].state # "none"
      BY <1>1, <1>4 DEF HkKinds
    <2>2. burns[g[i][2]].amount = disk[g[i]].amount
      BY <2>1 DEF AtRest, BurnInv
    <2>3. disk[g[i]].amount = calls[i].amount
      BY <1>4, <2>1, <2>2
    <2>4. QED
      BY <1>1, <1>2, <1>3, <2>1, <2>3 DEF Amount
  <1>7. \A i, j \in S : g[i] = g[j] => i = j
    <2> SUFFICES ASSUME NEW i \in S, NEW j \in S, g[i] = g[j] PROVE i = j
      OBVIOUS
    <2>1. calls[i].id = calls[j].id
      BY <1>4
    <2>2. QED
      BY <1>3, <2>1 DEF AtRest, CallsInv, Same
  <1> HIDE DEF S, g, d, I
  <1>8. SumOf(d, S) = SumOf(Amount, {g[i] : i \in S})
    BY <1>3, <1>6, <1>7, SumReindex
  <1>9. QED
    BY <1>5, <1>8 DEF S, d, I, Paid, amount_of, Amount

\* ReconcileExact: at rest HKVault holds exactly what circulates and what is
\* under way, which is what reconcile compares, whatever crashes, refusals,
\* pauses and operator's resolutions went before, unless an answer was lost or
\* a block replaced.
THEOREM BridgeReconcileExact == Spec => []ReconcileExact
  <1> DEFINE Match == EventMatch /\ RecordMatch /\ MintMatch /\ PaidMatch
  <1>1. Init => Match
    BY DEF Init, EventMatch, RecordMatch, MintMatch, PaidMatch, Unrecorded, Record
  <1>2. Typed /\ Typed' /\ ServiceInv /\ BooksInv /\ Match /\ [Next]_vars => Match'
    BY EventStep, MintMatchStep, PaidMatchStep DEF BooksInv
  <1>3. Typed /\ BurnInv /\ CallsInv /\ BooksInv /\ OneMintPerDeposit /\ Match => ReconcileExact
    <2> SUFFICES ASSUME Typed, BurnInv, CallsInv, BooksInv, OneMintPerDeposit, Match,
                        Settled, faults.reorg = 0, \A k \in Keys : faults.lost[k] = 0
                 PROVE  reconciled_ok
      BY DEF ReconcileExact
    <2>1. AtRest
      BY DEF AtRest
    <2> DEFINE PD == amount_of(UnderWay("deposit"))
               CD == amount_of(Confirmed("deposit"))
               PB == amount_of(UnderWay("burn"))
               CB == amount_of(Confirmed("burn"))
    <2>2. /\ amount_of(UnderWay("deposit") \cup Confirmed("deposit")) = PD + CD
          /\ amount_of(UnderWay("burn") \cup Confirmed("burn")) = PB + CB
          /\ PD \in Nat /\ CD \in Nat /\ PB \in Nat /\ CB \in Nat
      BY KindSplits DEF EthKinds, HkKinds
    <2>3. contract["usdc"].tokens = Taken(events, "usdc", head) - Paid(calls, "usdc", head)
      BY DEF BooksInv, TokensInv, Balance, Legs
    <2>4. circulating("usdc") = 0 + Issued(receipts, "usdc") - Burnt(burns, "usdc")
      BY DEF circulating, minted_on, burnt, Issued, Burnt, Giving, Taking
    <2>5. Taken(events, "usdc", head) = PD + CD /\ Paid(calls, "usdc", head) = CB
      BY <2>1, <2>2, RestTaken, RestPaid
    <2>6. Issued(receipts, "usdc") = CD /\ Burnt(burns, "usdc") = PB + CB
      BY <2>1, <2>2, RestIssued, RestBurnt
    <2>7. /\ amount_of(in_states({"deposit"}, PendingDeposits)) = PD
          /\ amount_of(in_states({"burn"}, PendingBurns)) = PB
      BY DEF UnderWay, EthKinds
    <2> HIDE DEF PD, CD, PB, CB
    <2>8. contract["usdc"].tokens = circulating("usdc") + PD + PB
      BY <2>2, <2>3, <2>4, <2>5, <2>6
    <2>9. QED
      BY <2>7, <2>8 DEF reconciled_ok
  <1>4. QED
    BY <1>1, <1>2, <1>3, PositionInit, PositionStep, ReleaseInit, ReleaseStep, BooksInit, BooksStep,
       BridgeOneMintPerDeposit, PTL DEF Spec

=============================================================================
