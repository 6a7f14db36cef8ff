---------------------------- MODULE MempoolProofs ----------------------------
(***************************************************************************)
(* Proofs about Mempool.tla, for any transactions, caps, windows, number   *)
(* of RPC workers, crashes and torn writes, and blocks of any length; and  *)
(* about Faucet.tla, a client of that door, for any number of handlers,    *)
(* callers, requests, faults and restarts.                                 *)
(*                                                                         *)
(* The pool changes by loops over a sequence (the prune, the restore, the  *)
(* block).  The first part shows what such a loop does: it runs through    *)
(* states that follow from one another.  The last part is the faucet's.    *)
(***************************************************************************)
EXTENDS Mempool, FaucetState, FiniteSetTheorems, NaturalsInduction, TLAPS

-----------------------------------------------------------------------------
(* Loops                                                                   *)

\* The bodies of the loops, as data: what one turn with element t makes of x.
turn(op, x, t) ==
  CASE op[1] = "prune"   -> keep_or_drop(x, t, op[2])
    [] op[1] = "restore" -> insert_unchecked(x, t)
    [] op[1] = "replay"  -> IF try_admit(x, op[2], t) THEN index(x, t) ELSE x
    [] op[1] = "apply"   -> apply_tx_at(x, t, op[2])
    [] op[1] = "pick"    -> pick_or_hold(op[2], x, t)
    [] OTHER             -> x

\* g is the fold of the loop over the subsets of 1..n in D.
IsLoop(g, op, base, q, D) ==
  g = [s \in D |-> IF s = {} THEN base ELSE turn(op, g[s \ {Max(s)}], q[Max(s)])]

\* The states a loop runs through.
IsRun(r, op, base, q) ==
  /\ r[0] = base
  /\ \A i \in 1..Len(q) : r[i] = turn(op, r[i - 1], q[i])

\* A set of naturals that is not empty has a least element.
LEMMA Least ==
  ASSUME NEW S \in SUBSET Nat, S # {}
  PROVE  \E a \in S : \A b \in S : a <= b
  <1> DEFINE R == OpToRel(<, Nat)
  <1>1. PICK a \in S : \A b \in S : ~ (<<b, a>> \in R)
    BY NatLessThanWellFounded, WFMin
  <1>2. \A b \in Nat : b < a => <<b, a>> \in R
    BY DEF OpToRel
  <1> HIDE DEF R
  <1>3. ASSUME NEW b \in S PROVE a <= b
    <2>1. a \in Nat /\ b \in Nat /\ ~ (<<b, a>> \in R)
      BY <1>1
    <2>2. QED
      BY <1>2, <2>1
  <1>4. QED
    BY <1>3

\* The largest element of a finite set of naturals.
LEMMA MaxOf ==
  ASSUME NEW n \in Nat, NEW s \in SUBSET (1..n), s # {}
  PROVE  Max(s) \in s /\ \A x \in s : x <= Max(s)
  <1> DEFINE U == {u \in Nat : \A x \in s : x <= u}
  <1>1. U \in SUBSET Nat /\ U # {}
    <2>1. n \in U
      OBVIOUS
    <2>2. QED
      BY <2>1
  <1>2. PICK u \in U : \A v \in U : u <= v
    <2> HIDE DEF U
    <2>1. QED
      BY <1>1, Least
  <1>3. u \in s
    <2>1. SUFFICES ASSUME u \notin s PROVE FALSE
      OBVIOUS
    <2>2. PICK x \in s : TRUE
      OBVIOUS
    <2>3. u \in Nat /\ x <= u /\ x \in 1..n
      BY <2>2
    <2>4. u - 1 \in U
      BY <2>1, <2>3
    <2>5. QED
      BY <1>2, <2>3, <2>4
  <1>4. \E x \in s : \A y \in s : x >= y
    BY <1>3
  <1>5. Max(s) \in s /\ \A y \in s : Max(s) >= y
    BY <1>4 DEF Max
  <1>6. QED
    BY <1>5

\* What holds at the start of a count and passes on holds at its end.
LEMMA Climb ==
  ASSUME NEW n \in Nat, NEW G, 0 \in G, \A i \in 1..n : i - 1 \in G => i \in G
  PROVE  \A i \in 0..n : i \in G
  <1> DEFINE B == {i \in 0..n : i \notin G}
  <1>1. SUFFICES ASSUME B # {} PROVE FALSE
    OBVIOUS
  <1>2. PICK b \in B : \A v \in B : b <= v
    <2>1. B \in SUBSET Nat
      OBVIOUS
    <2> HIDE DEF B
    <2>2. QED
      BY <1>1, <2>1, Least
  <1>3. b \in 1..n /\ b \notin G
    OBVIOUS
  <1>4. b - 1 \in B
    BY <1>3
  <1>5. QED
    BY <1>2, <1>3, <1>4

\* The fold of a loop exists, whatever its body.
LEMMA LoopExtends ==
  ASSUME NEW op, NEW base, NEW q, NEW n \in Nat, NEW g, IsLoop(g, op, base, q, SUBSET (1..n))
  PROVE  \E h : IsLoop(h, op, base, q, SUBSET (1..(n + 1)))
  <1> DEFINE D == SUBSET (1..(n + 1))
             h == [s \in D |-> IF s = {} THEN base ELSE turn(op, g[s \ {Max(s)}], q[Max(s)])]
  <1>1. ASSUME NEW s \in D, s # {} PROVE s \ {Max(s)} \in SUBSET (1..n)
    <2>1. PICK k \in Nat : k = n + 1
      OBVIOUS
    <2>2. s \in SUBSET (1..k)
      BY <2>1
    <2>3. Max(s) \in s /\ \A x \in s : x <= Max(s)
      BY <1>1, <2>2, MaxOf
    <2>4. \A x \in s : x \in 1..(n + 1)
      OBVIOUS
    <2>5. ASSUME NEW x \in s, x # Max(s) PROVE x \in 1..n
      <3>1. x <= Max(s) /\ x \in 1..(n + 1) /\ Max(s) \in 1..(n + 1)
        BY <2>3, <2>4
      <3>2. QED
        BY <2>5, <3>1
    <2>6. QED
      BY <2>5
  <1>2. ASSUME NEW t \in SUBSET (1..n) PROVE t \in D /\ h[t] = g[t]
    <2>1. t \in D
      OBVIOUS
    <2>2. g[t] = IF t = {} THEN base ELSE turn(op, g[t \ {Max(t)}], q[Max(t)])
      BY DEF IsLoop
    <2>3. QED
      BY <2>1, <2>2
  <1>3. h = [s \in D |-> IF s = {} THEN base ELSE turn(op, h[s \ {Max(s)}], q[Max(s)])]
    BY <1>1, <1>2
  <1> HIDE DEF h
  <1>4. QED
    BY <1>3 DEF IsLoop

\* So there is one for every sequence.
LEMMA LoopExists ==
  ASSUME NEW op, NEW base, NEW q, NEW n \in Nat
  PROVE  \E g : IsLoop(g, op, base, q, SUBSET (1..n))
  <1> DEFINE G == {i \in Nat : \E g : IsLoop(g, op, base, q, SUBSET (1..i))}
  <1>1. 0 \in G
    <2>1. SUBSET (1..0) = {{}}
      OBVIOUS
    <2>2. IsLoop([s \in {{}} |-> base], op, base, q, SUBSET (1..0))
      BY <2>1 DEF IsLoop
    <2>3. QED
      BY <2>2
  <1>2. \A i \in 1..n : i - 1 \in G => i \in G
    <2>1. SUFFICES ASSUME NEW i \in 1..n, i - 1 \in G PROVE i \in G
      OBVIOUS
    <2>2. PICK g : IsLoop(g, op, base, q, SUBSET (1..(i - 1)))
      BY <2>1
    <2>3. \E h : IsLoop(h, op, base, q, SUBSET (1..((i - 1) + 1)))
      BY <2>1, <2>2, LoopExtends
    <2>4. (i - 1) + 1 = i
      OBVIOUS
    <2>5. QED
      BY <2>3, <2>4
  <1> HIDE DEF G
  <1>3. n \in G
    BY <1>1, <1>2, Climb
  <1>4. QED
    BY <1>3 DEF G

\* A fold over a sequence ends in the last state of a run of the loop.
LEMMA LoopRuns ==
  ASSUME NEW op, NEW base, NEW q, Len(q) \in Nat, NEW g,
         IsLoop(g, op, base, q, SUBSET (1..Len(q)))
  PROVE  \E r : IsRun(r, op, base, q) /\ r[Len(q)] = g[1..Len(q)]
  <1> DEFINE n == Len(q)
             r == [i \in 0..n |-> g[1..i]]
  <1>1. r[0] = base
    <2>1. 1..0 = {}
      OBVIOUS
    <2>2. QED
      BY <2>1 DEF IsLoop
  <1>2. ASSUME NEW i \in 1..n PROVE r[i] = turn(op, r[i - 1], q[i])
    <2>1. 1..i \in SUBSET (1..n) /\ 1..i # {}
      OBVIOUS
    <2>2. Max(1..i) = i
      <3>1. PICK s \in SUBSET (1..n) : s = 1..i /\ s # {}
        BY <2>1
      <3>2. Max(s) \in s /\ \A x \in s : x <= Max(s)
        BY <3>1, MaxOf
      <3>3. i \in s /\ \A x \in s : x \in Nat /\ x <= i
        BY <3>1
      <3>4. PICK m : m = Max(s)
        OBVIOUS
      <3>5. m \in Nat /\ m <= i /\ i <= m
        BY <3>2, <3>3, <3>4
      <3>6. m = i
        BY <3>5
      <3>7. QED
        BY <3>1, <3>4, <3>6
    <2>3. (1..i) \ {i} = 1..(i - 1)
      OBVIOUS
    <2>4. g[1..i] = turn(op, g[1..(i - 1)], q[i])
      BY <2>1, <2>2, <2>3 DEF IsLoop
    <2>5. QED
      BY <2>4
  <1>3. r[n] = g[1..n]
    OBVIOUS
  <1> HIDE DEF r
  <1>4. QED
    BY <1>1, <1>2, <1>3 DEF IsRun

\* The loop of remove_included.
LEMMA PruneRuns ==
  ASSUME NEW m, NEW inc, Len(m.q) \in Nat, DOMAIN m.q = 1..Len(m.q)
  PROVE  \E r : /\ IsRun(r, <<"prune", inc>>, [m EXCEPT !.q = <<>>], m.q)
                /\ r[Len(m.q)] = remove_included(m, inc)
  <1> DEFINE op == <<"prune", inc>>
             base == [m EXCEPT !.q = <<>>]
             D == SUBSET DOMAIN m.q
             h == CHOOSE g : g = [s \in D |-> IF s = {} THEN base
                        ELSE keep_or_drop(g[s \ {Max(s)}], m.q[Max(s)], inc)]
  <1>1. remove_included(m, inc) = h[DOMAIN m.q]
    BY DEF remove_included, FoldLeft, MapThenFoldSet
  <1>2. \A x, t : turn(op, x, t) = keep_or_drop(x, t, inc)
    BY DEF turn
  <1>3. PICK g : IsLoop(g, op, base, m.q, SUBSET (1..Len(m.q)))
    BY LoopExists
  <1>4. g = [s \in D |-> IF s = {} THEN base
                ELSE keep_or_drop(g[s \ {Max(s)}], m.q[Max(s)], inc)]
    BY <1>2, <1>3 DEF IsLoop
  <1>5. h = [s \in D |-> IF s = {} THEN base
                ELSE keep_or_drop(h[s \ {Max(s)}], m.q[Max(s)], inc)]
    BY <1>4
  <1> HIDE DEF h
  <1>6. IsLoop(h, op, base, m.q, SUBSET (1..Len(m.q)))
    BY <1>2, <1>5 DEF IsLoop
  <1>7. QED
    BY <1>1, <1>6, LoopRuns

\* The four folds of the model.
RestoreLoop(b, q) ==
  FoldLeft(insert_unchecked, b, q)
ReplayLoop(b, c, q) ==
  FoldLeft(LAMBDA m, t : IF try_admit(m, c, t) THEN index(m, t) ELSE m, b, q)
ApplyLoop(b, refused, q) ==
  FoldLeft(LAMBDA c, t : apply_tx_at(c, t, refused), b, q)
PickLoop(b, c, q) ==
  FoldLeft(LAMBDA s, t : pick_or_hold(c, s, t), b, q)

\* The loop that puts a snapshot's mempool back.
LEMMA RestoreRuns ==
  ASSUME NEW b, NEW q, Len(q) \in Nat, DOMAIN q = 1..Len(q)
  PROVE  \E r : /\ IsRun(r, <<"restore", 0>>, b, q)
                /\ r[Len(q)] = RestoreLoop(b, q)
  <1> DEFINE op == <<"restore", 0>>
             D == SUBSET DOMAIN q
             h == CHOOSE g : g = [s \in D |-> IF s = {} THEN b ELSE insert_unchecked(g[s \ {Max(s)}], q[Max(s)])]
  <1>1. RestoreLoop(b, q) = h[DOMAIN q]
    BY DEF RestoreLoop, FoldLeft, MapThenFoldSet
  <1>2. \A x, t : turn(op, x, t) = insert_unchecked(x, t)
    BY DEF turn
  <1>3. PICK g : IsLoop(g, op, b, q, SUBSET (1..Len(q)))
    BY LoopExists
  <1>4. g = [s \in D |-> IF s = {} THEN b ELSE insert_unchecked(g[s \ {Max(s)}], q[Max(s)])]
    BY <1>2, <1>3 DEF IsLoop
  <1>5. h = [s \in D |-> IF s = {} THEN b ELSE insert_unchecked(h[s \ {Max(s)}], q[Max(s)])]
    BY <1>4
  <1> HIDE DEF h
  <1>6. IsLoop(h, op, b, q, SUBSET (1..Len(q)))
    BY <1>2, <1>5 DEF IsLoop
  <1>7. QED
    BY <1>1, <1>6, LoopRuns

\* The loop that takes the WAL through the door.
LEMMA ReplayRuns ==
  ASSUME NEW b, NEW c, NEW q, Len(q) \in Nat, DOMAIN q = 1..Len(q)
  PROVE  \E r : /\ IsRun(r, <<"replay", c>>, b, q)
                /\ r[Len(q)] = ReplayLoop(b, c, q)
  <1> DEFINE op == <<"replay", c>>
             D == SUBSET DOMAIN q
             h == CHOOSE g : g = [s \in D |-> IF s = {} THEN b ELSE (IF try_admit(g[s \ {Max(s)}], c, q[Max(s)]) THEN index(g[s \ {Max(s)}], q[Max(s)]) ELSE g[s \ {Max(s)}])]
  <1>1. ReplayLoop(b, c, q) = h[DOMAIN q]
    BY DEF ReplayLoop, FoldLeft, MapThenFoldSet
  <1>2. \A x, t : turn(op, x, t) = (IF try_admit(x, c, t) THEN index(x, t) ELSE x)
    BY DEF turn
  <1>3. PICK g : IsLoop(g, op, b, q, SUBSET (1..Len(q)))
    BY LoopExists
  <1>4. g = [s \in D |-> IF s = {} THEN b ELSE (IF try_admit(g[s \ {Max(s)}], c, q[Max(s)]) THEN index(g[s \ {Max(s)}], q[Max(s)]) ELSE g[s \ {Max(s)}])]
    BY <1>2, <1>3 DEF IsLoop
  <1>5. h = [s \in D |-> IF s = {} THEN b ELSE (IF try_admit(h[s \ {Max(s)}], c, q[Max(s)]) THEN index(h[s \ {Max(s)}], q[Max(s)]) ELSE h[s \ {Max(s)}])]
    BY <1>4
  <1> HIDE DEF h
  <1>6. IsLoop(h, op, b, q, SUBSET (1..Len(q)))
    BY <1>2, <1>5 DEF IsLoop
  <1>7. QED
    BY <1>1, <1>6, LoopRuns

\* The loop over the transactions of a block.
LEMMA ApplyRuns ==
  ASSUME NEW b, NEW refused, NEW q, Len(q) \in Nat, DOMAIN q = 1..Len(q)
  PROVE  \E r : /\ IsRun(r, <<"apply", refused>>, b, q)
                /\ r[Len(q)] = ApplyLoop(b, refused, q)
  <1> DEFINE op == <<"apply", refused>>
             D == SUBSET DOMAIN q
             h == CHOOSE g : g = [s \in D |-> IF s = {} THEN b ELSE apply_tx_at(g[s \ {Max(s)}], q[Max(s)], refused)]
  <1>1. ApplyLoop(b, refused, q) = h[DOMAIN q]
    BY DEF ApplyLoop, FoldLeft, MapThenFoldSet
  <1>2. \A x, t : turn(op, x, t) = apply_tx_at(x, t, refused)
    BY DEF turn
  <1>3. PICK g : IsLoop(g, op, b, q, SUBSET (1..Len(q)))
    BY LoopExists
  <1>4. g = [s \in D |-> IF s = {} THEN b ELSE apply_tx_at(g[s \ {Max(s)}], q[Max(s)], refused)]
    BY <1>2, <1>3 DEF IsLoop
  <1>5. h = [s \in D |-> IF s = {} THEN b ELSE apply_tx_at(h[s \ {Max(s)}], q[Max(s)], refused)]
    BY <1>4
  <1> HIDE DEF h
  <1>6. IsLoop(h, op, b, q, SUBSET (1..Len(q)))
    BY <1>2, <1>5 DEF IsLoop
  <1>7. QED
    BY <1>1, <1>6, LoopRuns

\* The loop of select_batch_txs.
LEMMA PickRuns ==
  ASSUME NEW b, NEW c, NEW q, Len(q) \in Nat, DOMAIN q = 1..Len(q)
  PROVE  \E r : /\ IsRun(r, <<"pick", c>>, b, q)
                /\ r[Len(q)] = PickLoop(b, c, q)
  <1> DEFINE op == <<"pick", c>>
             D == SUBSET DOMAIN q
             h == CHOOSE g : g = [s \in D |-> IF s = {} THEN b ELSE pick_or_hold(c, g[s \ {Max(s)}], q[Max(s)])]
  <1>1. PickLoop(b, c, q) = h[DOMAIN q]
    BY DEF PickLoop, FoldLeft, MapThenFoldSet
  <1>2. \A x, t : turn(op, x, t) = pick_or_hold(c, x, t)
    BY DEF turn
  <1>3. PICK g : IsLoop(g, op, b, q, SUBSET (1..Len(q)))
    BY LoopExists
  <1>4. g = [s \in D |-> IF s = {} THEN b ELSE pick_or_hold(c, g[s \ {Max(s)}], q[Max(s)])]
    BY <1>2, <1>3 DEF IsLoop
  <1>5. h = [s \in D |-> IF s = {} THEN b ELSE pick_or_hold(c, h[s \ {Max(s)}], q[Max(s)])]
    BY <1>4
  <1> HIDE DEF h
  <1>6. IsLoop(h, op, b, q, SUBSET (1..Len(q)))
    BY <1>2, <1>5 DEF IsLoop
  <1>7. QED
    BY <1>1, <1>6, LoopRuns

-----------------------------------------------------------------------------
(* A pool and its queue                                                    *)

\* Different transactions are in different slots and reveal different
\* nullifiers.
Apart(S) ==
  \A t, u \in S : slot(t) = slot(u) \/ nullifiers_of(t) \cap nullifiers_of(u) # {} => t = u

IsQueue(q) ==
  /\ q \in Seq(Txs) /\ Len(q) <= cap
  /\ \A i, j \in 1..Len(q) : q[i] = q[j] => i = j
  /\ Apart(ToSet(q))

\* The indexes of m are those of the transactions in S.
Mirrors(m, S) ==
  /\ m.ids = S
  /\ DOMAIN m.keys = {slot(t) : t \in S}
  /\ \A t \in S : m.keys[slot(t)] = t.next_auth
  /\ m.nullifiers = UNION {nullifiers_of(t) : t \in S}

\* Made by the owner of the sending account.
Owned(S) == \A t \in S : t.sig /\ t.key \in OwnKeys[t.sender]

\* Not passed by the chain.
Ahead(S, c) == \A t \in S : t.nonce >= c.nonce[t.sender]

Pool(q, i, k, n) == [q |-> q, ids |-> i, keys |-> k, nullifiers |-> n]

PoolOK(m) ==
  /\ m = Pool(m.q, m.ids, m.keys, m.nullifiers)
  /\ m.keys = [x \in DOMAIN m.keys |-> m.keys[x]]
  /\ IsQueue(m.q) /\ Mirrors(m, ToSet(m.q)) /\ Owned(ToSet(m.q))

\* The members of a sequence with one more element.
LEMMA ToSetAppend ==
  ASSUME NEW S, NEW q \in Seq(S), NEW t \in S
  PROVE  ToSet(Append(q, t)) = ToSet(q) \cup {t}
  <1>1. Len(Append(q, t)) = Len(q) + 1 /\ DOMAIN Append(q, t) = 1..(Len(q) + 1)
        /\ DOMAIN q = 1..Len(q) /\ Len(q) \in Nat
    OBVIOUS
  <1>2. \A i \in 1..Len(q) : Append(q, t)[i] = q[i]
    OBVIOUS
  <1>3. Append(q, t)[Len(q) + 1] = t
    OBVIOUS
  <1>4. ASSUME NEW x \in ToSet(Append(q, t)) PROVE x \in ToSet(q) \cup {t}
    <2>1. PICK i \in 1..(Len(q) + 1) : x = Append(q, t)[i]
      BY <1>1 DEF ToSet
    <2>2. i \in 1..Len(q) \/ i = Len(q) + 1
      BY <1>1
    <2>3. QED
      BY <1>1, <1>2, <1>3, <2>1, <2>2 DEF ToSet
  <1>5. ASSUME NEW x \in ToSet(q) \cup {t} PROVE x \in ToSet(Append(q, t))
    <2>1. CASE x = t
      <3>1. Len(q) + 1 \in DOMAIN Append(q, t)
        BY <1>1
      <3>2. QED
        BY <1>3, <2>1, <3>1 DEF ToSet
    <2>2. CASE x \in ToSet(q)
      <3>1. PICK i \in 1..Len(q) : x = q[i]
        BY <1>1, <2>2 DEF ToSet
      <3>2. i \in DOMAIN Append(q, t) /\ Append(q, t)[i] = x
        BY <1>1, <1>2, <3>1
      <3>3. QED
        BY <3>2 DEF ToSet
    <2>3. QED
      BY <2>1, <2>2
  <1>6. QED
    BY <1>4, <1>5

\* The members of a sequence, by position.
LEMMA Members ==
  ASSUME NEW S, NEW q \in Seq(S)
  PROVE  /\ DOMAIN q = 1..Len(q) /\ Len(q) \in Nat
         /\ \A i \in 1..Len(q) : q[i] \in ToSet(q) /\ q[i] \in S
         /\ \A t \in ToSet(q) : t \in S /\ \E i \in 1..Len(q) : t = q[i]
  BY DEF ToSet

\* A queue takes a transaction in a free slot.
LEMMA QueueGrows ==
  ASSUME NEW q, IsQueue(q), NEW t \in Txs, Len(q) < cap,
         \A u \in ToSet(q) : slot(u) # slot(t) /\ nullifiers_of(u) \cap nullifiers_of(t) = {}
  PROVE  IsQueue(Append(q, t)) /\ ToSet(Append(q, t)) = ToSet(q) \cup {t}
  <1>1. q \in Seq(Txs) /\ Len(q) \in Nat /\ cap \in Nat
    BY MempoolAssumption DEF IsQueue
  <1>2. ToSet(Append(q, t)) = ToSet(q) \cup {t}
    BY <1>1, ToSetAppend
  <1>3. Append(q, t) \in Seq(Txs) /\ Len(Append(q, t)) = Len(q) + 1
    BY <1>1
  <1>4. t \notin ToSet(q)
    OBVIOUS
  <1>5. ASSUME NEW i \in 1..(Len(q) + 1), NEW j \in 1..(Len(q) + 1), Append(q, t)[i] = Append(q, t)[j]
        PROVE  i = j
    <2>1. \A k \in 1..Len(q) : Append(q, t)[k] = q[k] /\ q[k] # t
      BY <1>1, <1>4, Members
    <2>2. Append(q, t)[Len(q) + 1] = t
      BY <1>1
    <2>3. \A k, l \in 1..Len(q) : q[k] = q[l] => k = l
      BY DEF IsQueue
    <2>4. QED
      BY <1>1, <1>5, <2>1, <2>2, <2>3
  <1>6. Apart(ToSet(q) \cup {t})
    BY DEF Apart, IsQueue
  <1>7. QED
    BY <1>1, <1>2, <1>3, <1>5, <1>6 DEF IsQueue

\* index, for a transaction in a free slot that its owner made.
LEMMA IndexKeeps ==
  ASSUME NEW m, PoolOK(m), NEW t \in Txs, Len(m.q) < cap,
         slot(t) \notin DOMAIN m.keys, nullifiers_of(t) \cap m.nullifiers = {}, Owned({t})
  PROVE  PoolOK(index(m, t)) /\ index(m, t).q = Append(m.q, t)
         /\ ToSet(index(m, t).q) = ToSet(m.q) \cup {t}
  <1> DEFINE S == ToSet(m.q)
             T == ToSet(m.q) \cup {t}
             n == index(m, t)
  <1>1. IsQueue(m.q) /\ Mirrors(m, S) /\ Owned(S)
    BY DEF PoolOK
  <1>2. \A u \in S : slot(u) # slot(t) /\ nullifiers_of(u) \cap nullifiers_of(t) = {}
    <2>1. \A u \in S : slot(u) \in DOMAIN m.keys
      BY <1>1 DEF Mirrors
    <2>2. \A u \in S : nullifiers_of(u) \subseteq m.nullifiers
      BY <1>1 DEF Mirrors
    <2>3. QED
      BY <2>1, <2>2
  <1>3. /\ n.q = Append(m.q, t) /\ n.ids = m.ids \cup {t}
        /\ n.keys = [x \in DOMAIN m.keys \cup {slot(t)} |-> IF x = slot(t) THEN t.next_auth ELSE m.keys[x]]
        /\ n.nullifiers = m.nullifiers \cup nullifiers_of(t)
        /\ n = Pool(n.q, n.ids, n.keys, n.nullifiers)
    BY DEF index, Pool
  <1> HIDE DEF n
  <1>4. IsQueue(n.q) /\ ToSet(n.q) = T
    BY <1>1, <1>2, <1>3, QueueGrows
  <1>5. Mirrors(n, T)
    <2>1. n.ids = T
      BY <1>1, <1>3 DEF Mirrors
    <2>2. DOMAIN n.keys = {slot(u) : u \in T}
      BY <1>1, <1>3 DEF Mirrors
    <2>3. ASSUME NEW u \in T PROVE n.keys[slot(u)] = u.next_auth
      <3>1. CASE u = t
        BY <1>3, <3>1
      <3>2. CASE u \in S
        <4>1. slot(u) \in DOMAIN m.keys /\ slot(u) # slot(t) /\ m.keys[slot(u)] = u.next_auth
          BY <1>1, <1>2, <3>2 DEF Mirrors
        <4>2. QED
          BY <1>3, <4>1
      <3>3. QED
        BY <3>1, <3>2
    <2>4. n.nullifiers = UNION {nullifiers_of(u) : u \in T}
      <3>1. m.nullifiers = UNION {nullifiers_of(u) : u \in S}
        BY <1>1 DEF Mirrors
      <3>2. QED
        BY <1>3, <3>1
    <2>5. QED
      BY <2>1, <2>2, <2>3, <2>4 DEF Mirrors
  <1>6. Owned(T)
    BY <1>1 DEF Owned
  <1>7. n.keys = [x \in DOMAIN n.keys |-> n.keys[x]]
    BY <1>3
  <1>8. QED
    BY <1>3, <1>4, <1>5, <1>6, <1>7 DEF PoolOK, n

\* unindex takes one transaction out of the indexes and no other.
LEMMA UnindexMirrors ==
  ASSUME NEW m, NEW S, Mirrors(m, S), Apart(S), NEW t \in S
  PROVE  Mirrors(unindex(m, t), S \ {t})
  <1> DEFINE n == unindex(m, t)
  <1>1. /\ n.ids = m.ids \ {t}
        /\ n.keys = [x \in DOMAIN m.keys \ {slot(t)} |-> m.keys[x]]
        /\ n.nullifiers = m.nullifiers \ nullifiers_of(t)
    BY DEF unindex
  <1> HIDE DEF n
  <1>2. n.ids = S \ {t}
    BY <1>1 DEF Mirrors
  <1>3. \A u \in S \ {t} : slot(u) # slot(t) /\ nullifiers_of(u) \cap nullifiers_of(t) = {}
    BY DEF Apart
  <1>4. DOMAIN n.keys = {slot(u) : u \in S \ {t}}
    BY <1>1, <1>3 DEF Mirrors
  <1>5. \A u \in S \ {t} : n.keys[slot(u)] = u.next_auth
    BY <1>1, <1>3 DEF Mirrors
  <1>6. n.nullifiers = UNION {nullifiers_of(u) : u \in S \ {t}}
    <2>1. m.nullifiers = UNION {nullifiers_of(u) : u \in S}
      BY DEF Mirrors
    <2>2. QED
      BY <1>1, <1>3, <2>1
  <1>7. QED
    BY <1>2, <1>4, <1>5, <1>6 DEF Mirrors, n

-----------------------------------------------------------------------------
(* The prune                                                               *)

\* The first i transactions of a queue.
Seen(q, i) == {q[j] : j \in 1..i}

\* Halfway through the prune: the first i transactions have been looked at.
Pruned(n, q, inc, i) ==
  /\ n = Pool(n.q, n.ids, n.keys, n.nullifiers) /\ n.keys = [x \in DOMAIN n.keys |-> n.keys[x]]
  /\ IsQueue(n.q) /\ Len(n.q) <= i
  /\ ToSet(n.q) = {t \in Seen(q, i) : slot(t) \notin inc}
  /\ Mirrors(n, {t \in ToSet(q) : t \in Seen(q, i) => slot(t) \notin inc})

\* One turn of the prune.
LEMMA PruneTurn ==
  ASSUME NEW q, IsQueue(q), NEW inc, NEW i \in 1..Len(q), NEW n, Pruned(n, q, inc, i - 1)
  PROVE  Pruned(keep_or_drop(n, q[i], inc), q, inc, i)
  <1> DEFINE t == q[i]
             S == {u \in ToSet(q) : u \in Seen(q, i - 1) => slot(u) \notin inc}
             T == {u \in ToSet(q) : u \in Seen(q, i) => slot(u) \notin inc}
             m == keep_or_drop(n, t, inc)
  <1>1. q \in Seq(Txs) /\ Len(q) \in Nat /\ cap \in Nat /\ Len(q) <= cap /\ t \in Txs /\ t \in ToSet(q)
    BY MempoolAssumption, Members DEF IsQueue
  <1>2. Seen(q, i) = Seen(q, i - 1) \cup {t}
    <2>1. 1..i = (1..(i - 1)) \cup {i}
      BY <1>1
    <2>2. QED
      BY <2>1 DEF Seen
  <1>3. t \notin Seen(q, i - 1)
    BY <1>1 DEF Seen, IsQueue
  <1>4. Seen(q, i - 1) \subseteq ToSet(q)
    BY <1>1, Members DEF Seen
  <1>5. IsQueue(n.q) /\ Mirrors(n, S) /\ Len(n.q) <= i - 1
        /\ ToSet(n.q) = {u \in Seen(q, i - 1) : slot(u) \notin inc}
        /\ n = Pool(n.q, n.ids, n.keys, n.nullifiers) /\ n.keys = [x \in DOMAIN n.keys |-> n.keys[x]]
    BY DEF Pruned
  <1>6. Len(n.q) \in Nat
    BY <1>5 DEF IsQueue
  <1>7. CASE slot(t) \in inc
    <2>1. m = unindex(n, t)
      BY <1>7 DEF keep_or_drop
    <2>2. Apart(S) /\ t \in S
      BY <1>1, <1>3 DEF Apart, IsQueue
    <2>3. PICK R : R = S
      OBVIOUS
    <2>4. Mirrors(unindex(n, t), R \ {t})
      BY <1>5, <2>2, <2>3, UnindexMirrors
    <2>5. R \ {t} = T
      BY <1>2, <1>3, <1>7, <2>3
    <2>6. Mirrors(m, T)
      BY <2>1, <2>4, <2>5
    <2>7. m.q = n.q /\ m = Pool(m.q, m.ids, m.keys, m.nullifiers)
          /\ m.keys = [x \in DOMAIN m.keys |-> m.keys[x]]
      BY <2>1 DEF unindex, Pool
    <2> HIDE DEF m
    <2>8. ToSet(m.q) = {u \in Seen(q, i) : slot(u) \notin inc}
      BY <1>2, <1>5, <1>7, <2>7
    <2>9. Len(m.q) <= i
      BY <1>1, <1>5, <1>6, <2>7
    <2>10. IsQueue(m.q)
      BY <1>5, <2>7
    <2>11. Pruned(m, q, inc, i)
      BY <2>6, <2>7, <2>8, <2>9, <2>10 DEF Pruned
    <2>12. QED
      BY <2>11 DEF m
  <1>8. CASE slot(t) \notin inc
    <2>1. m = [n EXCEPT !.q = Append(n.q, t)]
      BY <1>8 DEF keep_or_drop
    <2>2. /\ m = Pool(m.q, m.ids, m.keys, m.nullifiers) /\ m.q = Append(n.q, t)
          /\ m.ids = n.ids /\ m.keys = n.keys /\ m.nullifiers = n.nullifiers
      BY <1>5, <2>1 DEF Pool
    <2> HIDE DEF m
    <2>3. \A u \in ToSet(n.q) : slot(u) # slot(t) /\ nullifiers_of(u) \cap nullifiers_of(t) = {}
      BY <1>1, <1>3, <1>4, <1>5 DEF Apart, IsQueue
    <2>4. Len(n.q) < cap
      BY <1>1, <1>5, <1>6
    <2>5. IsQueue(Append(n.q, t)) /\ ToSet(Append(n.q, t)) = ToSet(n.q) \cup {t}
      BY <1>1, <1>5, <2>3, <2>4, QueueGrows
    <2>6. ToSet(m.q) = {u \in Seen(q, i) : slot(u) \notin inc}
      BY <1>2, <1>5, <1>8, <2>2, <2>5
    <2>7. S = T
      BY <1>2, <1>8
    <2>8. Mirrors(m, T)
      BY <1>5, <2>2, <2>7 DEF Mirrors
    <2>9. n.q \in Seq(Txs) /\ Len(m.q) = Len(n.q) + 1
      BY <1>1, <1>5, <2>2 DEF IsQueue
    <2>10. Len(m.q) <= i
      BY <1>1, <1>5, <1>6, <2>9
    <2>11. m.keys = [x \in DOMAIN m.keys |-> m.keys[x]]
      BY <1>5, <2>2
    <2>12. Pruned(m, q, inc, i)
      BY <2>2, <2>5, <2>6, <2>8, <2>10, <2>11 DEF Pruned
    <2>13. QED
      BY <2>12 DEF m
  <1>9. QED
    BY <1>7, <1>8

\* remove_included takes out exactly the transactions in the slots it is given,
\* with their indexes and no others.
LEMMA PruneKeeps ==
  ASSUME NEW m, PoolOK(m), NEW inc
  PROVE  /\ PoolOK(remove_included(m, inc))
         /\ ToSet(remove_included(m, inc).q) = {t \in ToSet(m.q) : slot(t) \notin inc}
  <1> DEFINE q == m.q
             out == remove_included(m, inc)
  <1>1. q \in Seq(Txs) /\ IsQueue(q) /\ Len(q) \in Nat /\ DOMAIN q = 1..Len(q) /\ cap \in Nat
    BY MempoolAssumption, Members DEF PoolOK, IsQueue
  <1>2. PICK r : IsRun(r, <<"prune", inc>>, [m EXCEPT !.q = <<>>], q) /\ r[Len(q)] = out
    BY <1>1, PruneRuns
  <1> DEFINE G == {i \in 0..Len(q) : Pruned(r[i], q, inc, i)}
  <1>3. 0 \in G
    <2> DEFINE b == [m EXCEPT !.q = <<>>]
    <2>1. r[0] = b
      BY <1>2 DEF IsRun
    <2>2. /\ b = Pool(b.q, b.ids, b.keys, b.nullifiers) /\ b.q = <<>>
          /\ b.ids = m.ids /\ b.keys = m.keys /\ b.nullifiers = m.nullifiers
      BY DEF PoolOK, Pool
    <2> HIDE DEF b
    <2>3. Seen(q, 0) = {}
      BY DEF Seen
    <2>4. ToSet(<<>>) = {} /\ Len(<<>>) = 0 /\ <<>> \in Seq(Txs)
      BY DEF ToSet
    <2>5. IsQueue(<<>>)
      BY <1>1, <2>4 DEF IsQueue, Apart
    <2>6. {t \in ToSet(q) : t \in Seen(q, 0) => slot(t) \notin inc} = ToSet(q)
      BY <2>3
    <2>7. Mirrors(b, ToSet(q))
      BY <2>2 DEF PoolOK, Mirrors
    <2>8. b.keys = [x \in DOMAIN b.keys |-> b.keys[x]]
      BY <2>2 DEF PoolOK
    <2>9. ToSet(b.q) = {t \in Seen(q, 0) : slot(t) \notin inc}
      BY <2>2, <2>3, <2>4
    <2>10. Pruned(b, q, inc, 0)
      <3>1. IsQueue(b.q) /\ Len(b.q) <= 0
        BY <2>2, <2>4, <2>5
      <3>2. Mirrors(b, {t \in ToSet(q) : t \in Seen(q, 0) => slot(t) \notin inc})
        BY <2>6, <2>7
      <3>3. b = Pool(b.q, b.ids, b.keys, b.nullifiers)
        BY <2>2
      <3>4. QED
        BY <2>8, <2>9, <3>1, <3>2, <3>3 DEF Pruned
    <2>11. QED
      BY <1>1, <2>1, <2>10
  <1>4. \A i \in 1..Len(q) : i - 1 \in G => i \in G
    <2>1. SUFFICES ASSUME NEW i \in 1..Len(q), i - 1 \in G PROVE i \in G
      OBVIOUS
    <2>2. Pruned(r[i - 1], q, inc, i - 1)
      BY <2>1
    <2>3. r[i] = keep_or_drop(r[i - 1], q[i], inc)
      BY <1>2 DEF IsRun, turn
    <2>4. Pruned(r[i], q, inc, i)
      BY <1>1, <2>2, <2>3, PruneTurn
    <2>5. QED
      BY <1>1, <2>4
  <1>5. Pruned(out, q, inc, Len(q))
    <2> HIDE DEF G
    <2>1. Len(q) \in G
      <3>1. PICK k \in Nat : k = Len(q)
        BY <1>1
      <3>2. \A i \in 0..k : i \in G
        BY <1>3, <1>4, <3>1, Climb
      <3>3. QED
        BY <3>1, <3>2
    <2>2. QED
      BY <1>2, <2>1 DEF G
  <1>6. Seen(q, Len(q)) = ToSet(q)
    BY <1>1 DEF Seen, ToSet
  <1> HIDE DEF out
  <1>7. ToSet(out.q) = {t \in ToSet(q) : slot(t) \notin inc}
    BY <1>5, <1>6 DEF Pruned
  <1>8. ToSet(out.q) = {t \in ToSet(q) : t \in Seen(q, Len(q)) => slot(t) \notin inc}
    BY <1>6, <1>7
  <1>9. Mirrors(out, ToSet(out.q))
    BY <1>5, <1>8 DEF Pruned
  <1>10. Owned(ToSet(out.q))
    BY <1>7 DEF PoolOK, Owned
  <1>11. PoolOK(out)
    BY <1>5, <1>9, <1>10 DEF Pruned, PoolOK
  <1>12. QED
    BY <1>7, <1>11 DEF out

-----------------------------------------------------------------------------
(* The chain                                                               *)

ChainOK(c) ==
  /\ c = [height |-> c.height, nonce |-> c.nonce, auth |-> c.auth, spent |-> c.spent,
          anchors |-> c.anchors, channels |-> c.channels]
  /\ c.height \in 0..payword_cap_from
  /\ c.nonce \in [Senders -> Nat]
  /\ c.auth = [s \in Senders |-> c.auth[s]] /\ \A s \in Senders : c.auth[s] \in OwnKeys[s]
  /\ DOMAIN c.channels \subseteq Channels /\ c.anchors \subseteq Anchors

\* From c to d the nonces only moved past the given slots.
MovedPast(c, d, slots) ==
  \A s \in Senders : /\ c.nonce[s] <= d.nonce[s]
                     /\ \A k \in Nat : c.nonce[s] <= k /\ k < d.nonce[s] => <<s, k>> \in slots

\* What is known of a transaction that may be submitted.
LEMMA TxFields ==
  ASSUME NEW t \in Txs
  PROVE  t.sender \in Senders /\ t.nonce \in Nat /\ (t.kind = "open" => t.channel \in Channels)
  <1>1. t.sender \in Senders
    BY MempoolAssumption
  <1>2. t.nonce \in Nat
    BY MempoolAssumption
  <1>3. t.kind = "open" => t.channel \in Channels
    BY MempoolAssumption
  <1>4. QED
    BY <1>1, <1>2, <1>3

\* One transaction moves its sender's nonce past its own slot, or nothing.
LEMMA ApplyTurn ==
  ASSUME NEW c, ChainOK(c), NEW t \in Txs, NEW refused
  PROVE  /\ ChainOK(apply_tx_at(c, t, refused))
         /\ \A s \in Senders : \/ apply_tx_at(c, t, refused).nonce[s] = c.nonce[s]
                               \/ /\ apply_tx_at(c, t, refused).nonce[s] = c.nonce[s] + 1
                                  /\ slot(t) = <<s, c.nonce[s]>>
  <1> DEFINE d == apply_tx_at(c, t, refused)
  <1>1. CASE d = c
    BY <1>1
  <1>2. CASE d # c
    <2>1. /\ t.nonce = c.nonce[t.sender] /\ t.key = c.auth[t.sender] /\ t.sig
          /\ d = [c EXCEPT !.nonce[t.sender] = @ + 1, !.auth[t.sender] = t.next_auth,
                           !.spent = @ \cup nullifiers_of(t), !.channels = channels_after(c, t)]
      BY <1>2 DEF apply_tx_at
    <2>2. t.sender \in Senders /\ (t.kind = "open" => t.channel \in Channels)
      BY TxFields
    <2>3. /\ d.height = c.height /\ d.anchors = c.anchors /\ d.channels = channels_after(c, t)
          /\ d.nonce = [c.nonce EXCEPT ![t.sender] = @ + 1]
          /\ d.auth = [c.auth EXCEPT ![t.sender] = t.next_auth]
          /\ d = [height |-> d.height, nonce |-> d.nonce, auth |-> d.auth, spent |-> d.spent,
                  anchors |-> d.anchors, channels |-> d.channels]
      BY <2>1 DEF ChainOK
    <2> HIDE DEF d
    <2>4. d.nonce \in [Senders -> Nat]
          /\ \A s \in Senders : d.nonce[s] = IF s = t.sender THEN c.nonce[s] + 1 ELSE c.nonce[s]
      BY <2>2, <2>3 DEF ChainOK
    <2>5. t.next_auth \in OwnKeys[t.sender]
      BY <2>1, <2>2, OwnerAssumption DEF ChainOK
    <2>6. d.auth = [s \in Senders |-> d.auth[s]] /\ \A s \in Senders : d.auth[s] \in OwnKeys[s]
      BY <2>2, <2>3, <2>5 DEF ChainOK
    <2>7. DOMAIN channels_after(c, t) \subseteq Channels
      BY <2>2 DEF channels_after, ChainOK
    <2>8. ChainOK(d)
      BY <2>3, <2>4, <2>6, <2>7 DEF ChainOK
    <2>9. ASSUME NEW s \in Senders
          PROVE  \/ d.nonce[s] = c.nonce[s]
                 \/ d.nonce[s] = c.nonce[s] + 1 /\ slot(t) = <<s, c.nonce[s]>>
      BY <2>1, <2>4 DEF slot
    <2>10. QED
      BY <2>8, <2>9 DEF d
  <1>3. QED
    BY <1>1, <1>2

\* A block moves nonces past the slots of its own transactions only.
LEMMA ApplyKeeps ==
  ASSUME NEW c, ChainOK(c), NEW q \in Seq(Txs), NEW refused
  PROVE  /\ ChainOK(ApplyLoop(c, refused, q))
         /\ MovedPast(c, ApplyLoop(c, refused, q), included(q))
  <1> DEFINE out == ApplyLoop(c, refused, q)
             slots(i) == {slot(q[j]) : j \in 1..i}
  <1>1. Len(q) \in Nat /\ DOMAIN q = 1..Len(q) /\ \A i \in 1..Len(q) : q[i] \in Txs
    OBVIOUS
  <1>2. PICK r : IsRun(r, <<"apply", refused>>, c, q) /\ r[Len(q)] = out
    BY <1>1, ApplyRuns
  <1> DEFINE G == {i \in 0..Len(q) : ChainOK(r[i]) /\ MovedPast(c, r[i], slots(i))}
  <1>3. 0 \in G
    <2>1. r[0] = c
      BY <1>2 DEF IsRun
    <2>2. MovedPast(c, c, slots(0))
      <3>1. \A s \in Senders : c.nonce[s] \in Nat
        BY DEF ChainOK
      <3>2. QED
        BY <3>1 DEF MovedPast
    <2>3. QED
      BY <1>1, <2>1, <2>2
  <1>4. \A i \in 1..Len(q) : i - 1 \in G => i \in G
    <2>1. SUFFICES ASSUME NEW i \in 1..Len(q), i - 1 \in G PROVE i \in G
      OBVIOUS
    <2> DEFINE b == r[i - 1]
               d == r[i]
               t == q[i]
    <2>2. ChainOK(b) /\ MovedPast(c, b, slots(i - 1)) /\ t \in Txs
      BY <1>1, <2>1
    <2>3. d = apply_tx_at(b, t, refused)
      BY <1>2 DEF IsRun, turn
    <2>4. /\ ChainOK(d)
          /\ \A s \in Senders : d.nonce[s] = b.nonce[s]
                                  \/ (d.nonce[s] = b.nonce[s] + 1 /\ slot(t) = <<s, b.nonce[s]>>)
      BY <2>2, <2>3, ApplyTurn
    <2>5. slots(i - 1) \subseteq slots(i) /\ slot(t) \in slots(i)
      OBVIOUS
    <2> HIDE DEF b, d, t, slots
    <2>6. ASSUME NEW s \in Senders
          PROVE  /\ c.nonce[s] <= d.nonce[s]
                 /\ \A k \in Nat : c.nonce[s] <= k /\ k < d.nonce[s] => <<s, k>> \in slots(i)
      <3>1. c.nonce[s] \in Nat /\ b.nonce[s] \in Nat /\ c.nonce[s] <= b.nonce[s]
            /\ \A k \in Nat : c.nonce[s] <= k /\ k < b.nonce[s] => <<s, k>> \in slots(i - 1)
        BY <2>2 DEF ChainOK, MovedPast
      <3>2. CASE d.nonce[s] = b.nonce[s]
        BY <2>5, <3>1, <3>2
      <3>3. CASE d.nonce[s] = b.nonce[s] + 1 /\ slot(t) = <<s, b.nonce[s]>>
        <4>1. ASSUME NEW k \in Nat, c.nonce[s] <= k, k < d.nonce[s] PROVE <<s, k>> \in slots(i)
          <5>1. CASE k = b.nonce[s]
            BY <2>5, <3>3, <5>1
          <5>2. CASE k < b.nonce[s]
            BY <2>5, <3>1, <4>1, <5>2
          <5>3. QED
            BY <3>1, <3>3, <4>1, <5>1, <5>2
        <4>2. QED
          BY <3>1, <3>3, <4>1
      <3>4. QED
        BY <2>4, <3>2, <3>3
    <2>7. MovedPast(c, d, slots(i))
      BY <2>6 DEF MovedPast
    <2>8. QED
      BY <1>1, <2>4, <2>7 DEF d
  <1>5. ChainOK(out) /\ MovedPast(c, out, slots(Len(q)))
    <2> HIDE DEF G
    <2>1. PICK k \in Nat : k = Len(q)
      BY <1>1
    <2>2. \A i \in 0..k : i \in G
      BY <1>3, <1>4, <2>1, Climb
    <2>3. Len(q) \in G
      BY <2>1, <2>2
    <2>4. QED
      BY <1>2, <2>3 DEF G
  <1>6. slots(Len(q)) = included(q)
    BY <1>1 DEF included, ToSet
  <1>7. QED
    BY <1>5, <1>6

\* apply_block: the block counted, its transactions, and the anchors that stay.
LEMMA BlockKeeps ==
  ASSUME set \in Settings, NEW c, ChainOK(c), NEW q \in Seq(Txs), NEW refused, NEW kept
  PROVE  /\ ChainOK(apply_block(c, q, refused, kept))
         /\ MovedPast(c, apply_block(c, q, refused, kept), included(q))
  <1> DEFINE b == [c EXCEPT !.height = Lesser(c.height + 1, payword_cap_from)]
             l == ApplyLoop(b, refused, q)
             d == [l EXCEPT !.anchors = l.anchors \cap kept]
  <1>1. apply_block(c, q, refused, kept) = d
    BY DEF apply_block, ApplyLoop, FoldLeft, MapThenFoldSet
  <1>2. payword_cap_from \in Nat
    BY MempoolAssumption DEF payword_cap_from
  <1>3. /\ b.nonce = c.nonce /\ b.auth = c.auth /\ b.anchors = c.anchors /\ b.channels = c.channels
        /\ b.height = Lesser(c.height + 1, payword_cap_from)
        /\ b = [height |-> b.height, nonce |-> b.nonce, auth |-> b.auth, spent |-> b.spent,
                anchors |-> b.anchors, channels |-> b.channels]
    <2>1. c = [height |-> c.height, nonce |-> c.nonce, auth |-> c.auth, spent |-> c.spent,
               anchors |-> c.anchors, channels |-> c.channels]
      BY DEF ChainOK
    <2>2. PICK h : h = Lesser(c.height + 1, payword_cap_from)
      OBVIOUS
    <2>3. b = [height |-> h, nonce |-> c.nonce, auth |-> c.auth, spent |-> c.spent,
               anchors |-> c.anchors, channels |-> c.channels]
      BY <2>1, <2>2
    <2> HIDE DEF b
    <2>4. QED
      BY <2>2, <2>3
  <1> HIDE DEF b
  <1>4. ChainOK(b)
    BY <1>2, <1>3 DEF ChainOK, Lesser
  <1>5. ChainOK(l) /\ MovedPast(b, l, included(q))
    BY <1>4, ApplyKeeps
  <1> HIDE DEF l
  <1>6. /\ d.nonce = l.nonce /\ d.auth = l.auth /\ d.anchors = l.anchors \cap kept
        /\ d.channels = l.channels /\ d.height = l.height
        /\ d = [height |-> d.height, nonce |-> d.nonce, auth |-> d.auth, spent |-> d.spent,
                anchors |-> d.anchors, channels |-> d.channels]
    <2>1. l = [height |-> l.height, nonce |-> l.nonce, auth |-> l.auth, spent |-> l.spent,
               anchors |-> l.anchors, channels |-> l.channels]
      BY <1>5 DEF ChainOK
    <2>2. PICK a : a = l.anchors \cap kept
      OBVIOUS
    <2>3. d = [height |-> l.height, nonce |-> l.nonce, auth |-> l.auth, spent |-> l.spent,
               anchors |-> a, channels |-> l.channels]
      <3>1. d = [l EXCEPT !.anchors = a]
        BY <2>2
      <3> HIDE DEF d
      <3>2. QED
        BY <2>1, <3>1
    <2> HIDE DEF d
    <2>4. QED
      BY <2>2, <2>3
  <1> HIDE DEF d
  <1>7. ChainOK(d)
    BY <1>5, <1>6 DEF ChainOK
  <1>8. MovedPast(c, d, included(q))
    BY <1>3, <1>5, <1>6 DEF MovedPast
  <1>9. QED
    BY <1>1, <1>7, <1>8

\* The proposer takes transactions of the pool.
LEMMA PickKeeps ==
  ASSUME NEW c, NEW q \in Seq(Txs)
  PROVE  select_batch_txs(c, q) \in Seq(Txs)
  <1> DEFINE b == [picked |-> <<>>, links |-> 0, held |-> {}]
             out == PickLoop(b, c, q)
             ok(s) == /\ s = [picked |-> s.picked, links |-> s.links, held |-> s.held]
                      /\ s.picked \in Seq(Txs)
  <1>1. Len(q) \in Nat /\ DOMAIN q = 1..Len(q) /\ \A i \in 1..Len(q) : q[i] \in Txs
    OBVIOUS
  <1>2. PICK r : IsRun(r, <<"pick", c>>, b, q) /\ r[Len(q)] = out
    BY <1>1, PickRuns
  <1>3. select_batch_txs(c, q) = out.picked
    BY DEF select_batch_txs, PickLoop, FoldLeft, MapThenFoldSet
  <1> HIDE DEF out
  <1> DEFINE G == {i \in 0..Len(q) : ok(r[i])}
  <1>4. 0 \in G
    <2>1. ok(b)
      OBVIOUS
    <2>2. r[0] = b
      BY <1>2 DEF IsRun
    <2> HIDE DEF b, ok
    <2>3. QED
      BY <1>1, <2>1, <2>2
  <1>5. \A i \in 1..Len(q) : i - 1 \in G => i \in G
    <2>1. SUFFICES ASSUME NEW i \in 1..Len(q), i - 1 \in G PROVE i \in G
      OBVIOUS
    <2> DEFINE s == r[i - 1]
               t == q[i]
    <2>2. s = [picked |-> s.picked, links |-> s.links, held |-> s.held] /\ s.picked \in Seq(Txs) /\ t \in Txs
      BY <1>1, <2>1
    <2>3. r[i] = pick_or_hold(c, s, t)
      BY <1>2 DEF IsRun, turn
    <2> HIDE DEF s, t
    <2>4. \/ r[i] = s
          \/ r[i] = [s EXCEPT !.held = s.held \cup {t.sender}]
          \/ \E cost : r[i] = [s EXCEPT !.picked = Append(s.picked, t), !.links = s.links + cost]
      BY <2>3 DEF pick_or_hold
    <2>5. PICK z : z = r[i]
      OBVIOUS
    <2>6. z = s => ok(z)
      BY <2>2
    <2>7. ASSUME z = [s EXCEPT !.held = s.held \cup {t.sender}] PROVE ok(z)
      <3>1. z.picked = s.picked /\ z = [picked |-> z.picked, links |-> z.links, held |-> z.held]
        BY <2>2, <2>7
      <3>2. QED
        BY <2>2, <3>1
    <2>8. ASSUME \E cost : z = [s EXCEPT !.picked = Append(s.picked, t), !.links = s.links + cost]
          PROVE  ok(z)
      <3>1. /\ z.picked = Append(s.picked, t)
            /\ z = [picked |-> z.picked, links |-> z.links, held |-> z.held]
        BY <2>2, <2>8
      <3>2. Append(s.picked, t) \in Seq(Txs)
        BY <2>2
      <3>3. QED
        BY <3>1, <3>2
    <2> HIDE DEF ok
    <2>9. ok(r[i])
      BY <2>4, <2>5, <2>6, <2>7, <2>8
    <2>10. QED
      BY <1>1, <2>9
  <1>6. ok(r[Len(q)])
    <2> HIDE DEF G, ok
    <2>1. PICK k \in Nat : k = Len(q)
      BY <1>1
    <2>2. \A i \in 0..k : i \in G
      BY <1>4, <1>5, <2>1, Climb
    <2>3. Len(q) \in G
      BY <2>1, <2>2
    <2>4. QED
      BY <2>3 DEF G
  <1>7. QED
    BY <1>2, <1>3, <1>6

-----------------------------------------------------------------------------
(* The door and the restore                                                *)

\* What the door lets in keeps the pool whole, ahead of the chain and signed by
\* its owners.
LEMMA DoorKeeps ==
  ASSUME NEW m, PoolOK(m), NEW c, ChainOK(c), Ahead(ToSet(m.q), c), NEW t \in Txs,
         try_admit(m, c, t)
  PROVE  PoolOK(index(m, t)) /\ Ahead(ToSet(index(m, t).q), c)
  <1>1. t.sender \in Senders /\ t.nonce \in Nat
    BY TxFields
  <1>2. /\ Len(m.q) < cap /\ slot(t) \notin DOMAIN m.keys
        /\ c.nonce[t.sender] <= t.nonce /\ t.sig
        /\ nullifiers_of(t) \cap m.nullifiers = {}
    BY DEF try_admit, gate, admit_gated, nullifiers_of
  <1>3. t.key \in OwnKeys[t.sender]
    <2>1. CASE t.nonce = c.nonce[t.sender]
      <3>1. t.key = c.auth[t.sender]
        BY <2>1 DEF try_admit, admit_gated
      <3>2. QED
        BY <1>1, <3>1 DEF ChainOK
    <2>2. CASE t.nonce # c.nonce[t.sender]
      <3>1. <<t.sender, t.nonce - 1>> \in DOMAIN m.keys /\ t.key = m.keys[<<t.sender, t.nonce - 1>>]
        BY <2>2 DEF try_admit, admit_gated
      <3>2. PICK u \in ToSet(m.q) : slot(u) = <<t.sender, t.nonce - 1>>
        BY <3>1 DEF PoolOK, Mirrors
      <3>3. u \in Txs /\ u.sig /\ u.key \in OwnKeys[u.sender] /\ m.keys[slot(u)] = u.next_auth
        BY <3>2, Members DEF PoolOK, IsQueue, Owned, Mirrors
      <3>4. u.sender = t.sender
        BY <3>2 DEF slot
      <3>5. u.next_auth \in OwnKeys[u.sender]
        BY <3>3, OwnerAssumption
      <3>6. QED
        BY <3>1, <3>2, <3>3, <3>4, <3>5
    <2>3. QED
      BY <2>1, <2>2
  <1>4. Owned({t})
    BY <1>2, <1>3 DEF Owned
  <1>5. PoolOK(index(m, t)) /\ ToSet(index(m, t).q) = ToSet(m.q) \cup {t}
    BY <1>2, <1>4, IndexKeeps
  <1>6. Ahead(ToSet(m.q) \cup {t}, c)
    <2>1. c.nonce[t.sender] \in Nat
      BY <1>1 DEF ChainOK
    <2>2. QED
      BY <1>1, <1>2, <2>1 DEF Ahead
  <1>7. QED
    BY <1>5, <1>6

\* The replay of the WAL through the door.
LEMMA ReplayKeeps ==
  ASSUME NEW m, PoolOK(m), NEW c, ChainOK(c), Ahead(ToSet(m.q), c), NEW q \in Seq(Txs)
  PROVE  PoolOK(ReplayLoop(m, c, q)) /\ Ahead(ToSet(ReplayLoop(m, c, q).q), c)
  <1> DEFINE out == ReplayLoop(m, c, q)
  <1>1. Len(q) \in Nat /\ DOMAIN q = 1..Len(q) /\ \A i \in 1..Len(q) : q[i] \in Txs
    OBVIOUS
  <1>2. PICK r : IsRun(r, <<"replay", c>>, m, q) /\ r[Len(q)] = out
    BY <1>1, ReplayRuns
  <1> HIDE DEF out
  <1> DEFINE G == {i \in 0..Len(q) : PoolOK(r[i]) /\ Ahead(ToSet(r[i].q), c)}
  <1>3. 0 \in G
    <2>1. r[0] = m
      BY <1>2 DEF IsRun
    <2>2. QED
      BY <1>1, <2>1
  <1>4. \A i \in 1..Len(q) : i - 1 \in G => i \in G
    <2>1. SUFFICES ASSUME NEW i \in 1..Len(q), i - 1 \in G PROVE i \in G
      OBVIOUS
    <2>2. PoolOK(r[i - 1]) /\ Ahead(ToSet(r[i - 1].q), c) /\ q[i] \in Txs
      BY <1>1, <2>1
    <2>3. r[i] = IF try_admit(r[i - 1], c, q[i]) THEN index(r[i - 1], q[i]) ELSE r[i - 1]
      BY <1>2 DEF IsRun, turn
    <2>4. PoolOK(r[i]) /\ Ahead(ToSet(r[i].q), c)
      BY <2>2, <2>3, DoorKeeps
    <2>5. QED
      BY <1>1, <2>4
  <1>5. Len(q) \in G
    <2> HIDE DEF G
    <2>1. PICK k \in Nat : k = Len(q)
      BY <1>1
    <2>2. \A i \in 0..k : i \in G
      BY <1>3, <1>4, <2>1, Climb
    <2>3. QED
      BY <2>1, <2>2
  <1>6. QED
    BY <1>2, <1>5 DEF out

\* The empty pool is whole.
LEMMA EmptyOK == PoolOK(EmptyPool) /\ EmptyPool.q = <<>> /\ ToSet(EmptyPool.q) = {}
  <1>1. EmptyPool = Pool(<<>>, {}, [x \in {} |-> 0], {})
    BY DEF EmptyPool, Pool
  <1>2. /\ EmptyPool.q = <<>> /\ EmptyPool.ids = {} /\ EmptyPool.nullifiers = {}
        /\ EmptyPool.keys = [x \in {} |-> 0]
    BY DEF EmptyPool
  <1>3. ToSet(<<>>) = {} /\ Len(<<>>) = 0 /\ <<>> \in Seq(Txs) /\ cap \in Nat
    BY MempoolAssumption DEF ToSet
  <1>4. IsQueue(<<>>)
    BY <1>3 DEF IsQueue, Apart
  <1>5. EmptyPool = Pool(EmptyPool.q, EmptyPool.ids, EmptyPool.keys, EmptyPool.nullifiers)
    BY <1>1, <1>2
  <1>6. Mirrors(EmptyPool, {})
    BY <1>2 DEF Mirrors
  <1>7. EmptyPool.keys = [x \in DOMAIN EmptyPool.keys |-> EmptyPool.keys[x]]
    BY <1>2
  <1>8. QED
    BY <1>2, <1>3, <1>4, <1>5, <1>6, <1>7 DEF PoolOK, Owned

\* A snapshot's queue is put back as it was.
LEMMA RestoreKeeps ==
  ASSUME NEW q, IsQueue(q), Owned(ToSet(q))
  PROVE  PoolOK(RestoreLoop(EmptyPool, q)) /\ ToSet(RestoreLoop(EmptyPool, q).q) = ToSet(q)
  <1> DEFINE out == RestoreLoop(EmptyPool, q)
  <1>1. /\ q \in Seq(Txs) /\ Len(q) \in Nat /\ cap \in Nat /\ Len(q) <= cap
        /\ DOMAIN q = 1..Len(q) /\ \A i \in 1..Len(q) : q[i] \in Txs
    BY MempoolAssumption, Members DEF IsQueue
  <1>2. PICK r : IsRun(r, <<"restore", 0>>, EmptyPool, q) /\ r[Len(q)] = out
    BY <1>1, RestoreRuns
  <1> HIDE DEF out
  <1> DEFINE G == {i \in 0..Len(q) : /\ PoolOK(r[i]) /\ Len(r[i].q) = i
                                     /\ ToSet(r[i].q) = Seen(q, i)}
  <1>3. 0 \in G
    <2>1. r[0] = EmptyPool
      BY <1>2 DEF IsRun
    <2>2. Seen(q, 0) = {} /\ Len(<<>>) = 0
      BY DEF Seen
    <2>3. PoolOK(r[0]) /\ r[0].q = <<>> /\ ToSet(r[0].q) = {}
      BY <2>1, EmptyOK
    <2>4. Len(r[0].q) = 0
      BY <2>2, <2>3
    <2>5. 0 \in 0..Len(q)
      BY <1>1
    <2>6. ToSet(r[0].q) = Seen(q, 0)
      BY <2>2, <2>3
    <2>7. QED
      BY <2>3, <2>4, <2>5, <2>6
  <1>4. \A i \in 1..Len(q) : i - 1 \in G => i \in G
    <2>1. SUFFICES ASSUME NEW i \in 1..Len(q), i - 1 \in G PROVE i \in G
      OBVIOUS
    <2> DEFINE m == r[i - 1]
               t == q[i]
    <2>2. PoolOK(m) /\ Len(m.q) = i - 1 /\ ToSet(m.q) = Seen(q, i - 1) /\ t \in Txs /\ t \in ToSet(q)
      BY <1>1, <2>1, Members
    <2>3. r[i] = insert_unchecked(m, t)
      BY <1>2 DEF IsRun, turn
    <2>4. t \notin Seen(q, i - 1)
      BY <1>1 DEF Seen, IsQueue
    <2>5. Seen(q, i - 1) \subseteq ToSet(q)
      BY <1>1, Members DEF Seen
    <2>6. \A u \in ToSet(m.q) : slot(u) # slot(t) /\ nullifiers_of(u) \cap nullifiers_of(t) = {}
      BY <2>2, <2>4, <2>5 DEF Apart, IsQueue
    <2> HIDE DEF m, t
    <2>7. t \notin m.ids /\ slot(t) \notin DOMAIN m.keys /\ nullifiers_of(t) \cap m.nullifiers = {}
      <3>1. Mirrors(m, ToSet(m.q))
        BY <2>2 DEF PoolOK
      <3>2. t \notin m.ids
        BY <2>2, <2>4, <3>1 DEF Mirrors
      <3>3. slot(t) \notin DOMAIN m.keys
        BY <2>6, <3>1 DEF Mirrors
      <3>4. nullifiers_of(t) \cap m.nullifiers = {}
        BY <2>6, <3>1 DEF Mirrors
      <3>5. QED
        BY <3>2, <3>3, <3>4
    <2>8. Len(m.q) < cap
      BY <1>1, <2>2
    <2>9. r[i] = index(m, t)
      BY <1>1, <2>2, <2>3, <2>7, <2>8 DEF insert_unchecked
    <2>10. Owned({t})
      BY <2>2 DEF Owned
    <2>11. /\ PoolOK(index(m, t)) /\ index(m, t).q = Append(m.q, t)
           /\ ToSet(index(m, t).q) = ToSet(m.q) \cup {t}
      BY <2>2, <2>7, <2>8, <2>10, IndexKeeps
    <2>12. Len(r[i].q) = i
      <3>1. m.q \in Seq(Txs)
        BY <2>2 DEF PoolOK, IsQueue
      <3>2. QED
        BY <2>2, <2>9, <2>11, <3>1
    <2>13. Seen(q, i) = Seen(q, i - 1) \cup {t}
      <3>1. 1..i = (1..(i - 1)) \cup {i}
        BY <1>1
      <3>2. QED
        BY <3>1 DEF Seen, t
    <2>14. PoolOK(r[i]) /\ ToSet(r[i].q) = Seen(q, i)
      BY <2>2, <2>9, <2>11, <2>13
    <2>15. QED
      BY <1>1, <2>12, <2>14
  <1>5. Len(q) \in G
    <2> HIDE DEF G
    <2>1. PICK k \in Nat : k = Len(q)
      BY <1>1
    <2>2. \A i \in 0..k : i \in G
      BY <1>3, <1>4, <2>1, Climb
    <2>3. QED
      BY <2>1, <2>2
  <1>6. Seen(q, Len(q)) = ToSet(q)
    BY <1>1 DEF Seen, ToSet
  <1>7. QED
    BY <1>2, <1>5, <1>6 DEF out

-----------------------------------------------------------------------------
(* The invariant                                                           *)

Writes == [part : {"len", "body"}, tx : Txs]

\* The snapshot's mempool was a queue, and whatever of it the chain has passed
\* since is in a block that the restart replays.
SnapOK ==
  /\ IsQueue(snap) /\ Owned(ToSet(snap))
  /\ \A t \in ToSet(snap) : slot(t) \notin replay => t.nonce >= chain.nonce[t.sender]

Working(r) == r = [pc |-> r.pc, tx |-> r.tx] /\ r.tx \in Txs

WorkersOK ==
  /\ rpc = [w \in Workers |-> rpc[w]]
  /\ \A w \in Workers : rpc[w] = Idle \/ Working(rpc[w])

RestOK ==
  /\ set \in Settings /\ wal \in Seq(Writes)
  /\ app \in {"idle", "snapshot", "reset"} /\ up \in BOOLEAN /\ crashes \in 0..Crashes

MempoolInv ==
  /\ RestOK /\ ChainOK(chain)
  /\ PoolOK(mp) /\ Ahead(ToSet(mp.q), chain)
  /\ SnapOK /\ WorkersOK

\* The bounds, one by one.
LEMMA BoundsNat == Crashes \in Nat /\ cap \in Nat
  BY MempoolAssumption

\* What of a mempool the chain has not passed stays ahead of a longer chain.
LEMMA StaysAhead ==
  ASSUME NEW S \in SUBSET Txs, NEW c, ChainOK(c), NEW d, ChainOK(d), NEW inc, MovedPast(c, d, inc),
         NEW t \in S, t.nonce >= c.nonce[t.sender], slot(t) \notin inc
  PROVE  t.nonce >= d.nonce[t.sender]
  <1>1. t.sender \in Senders /\ t.nonce \in Nat
    BY TxFields
  <1>2. c.nonce[t.sender] \in Nat /\ d.nonce[t.sender] \in Nat
    BY <1>1 DEF ChainOK
  <1>3. t.nonce < d.nonce[t.sender] => <<t.sender, t.nonce>> \in inc
    BY <1>1, <1>2 DEF MovedPast
  <1>4. QED
    BY <1>1, <1>2, <1>3 DEF slot

\* commit, whatever the block, the refusals and the anchors that stay.
LEMMA CommitKeeps ==
  ASSUME MempoolInv, NEW q \in Seq(Txs), NEW refused, NEW kept, Commit(q, refused, kept)
  PROVE  MempoolInv'
  <1> DEFINE d == apply_block(chain, q, refused, kept)
             inc == included(q)
             n == remove_included(mp, inc)
  <1>1. /\ set \in Settings /\ ChainOK(chain) /\ PoolOK(mp) /\ Ahead(ToSet(mp.q), chain)
        /\ SnapOK /\ RestOK /\ WorkersOK
    BY DEF MempoolInv, RestOK
  <1>2. chain' = d /\ mp' = n /\ replay' = replay \cup inc
        /\ UNCHANGED <<set, rpc, wal, snap, up, crashes>> /\ app' \in {"idle", "snapshot"}
    BY DEF Commit
  <1>3. ChainOK(d) /\ MovedPast(chain, d, inc)
    BY <1>1, BlockKeeps
  <1>4. PoolOK(n) /\ ToSet(n.q) = {t \in ToSet(mp.q) : slot(t) \notin inc}
    BY <1>1, PruneKeeps
  <1> HIDE DEF d, n, inc
  <1>5. ChainOK(chain)'
    BY <1>2, <1>3 DEF ChainOK, payword_cap_from, Anchors
  <1>6. PoolOK(mp)'
    BY <1>2, <1>4 DEF PoolOK, IsQueue, Apart, Mirrors, Owned
  <1>7. ToSet(mp.q) \in SUBSET Txs /\ ToSet(snap) \in SUBSET Txs
    BY <1>1, Members DEF PoolOK, IsQueue, SnapOK
  <1>8. Ahead(ToSet(mp.q), chain)'
    <2>1. ASSUME NEW t \in ToSet(n.q) PROVE t.nonce >= d.nonce[t.sender]
      <3>1. t \in ToSet(mp.q) /\ slot(t) \notin inc /\ t.nonce >= chain.nonce[t.sender]
        BY <1>1, <1>4 DEF Ahead
      <3>2. QED
        BY <1>1, <1>3, <1>7, <3>1, StaysAhead
    <2>2. QED
      BY <1>2, <2>1 DEF Ahead
  <1>9. SnapOK'
    <2>1. ASSUME NEW t \in ToSet(snap), slot(t) \notin replay' PROVE t.nonce >= d.nonce[t.sender]
      <3>1. slot(t) \notin inc /\ t.nonce >= chain.nonce[t.sender]
        BY <1>1, <1>2, <2>1 DEF SnapOK
      <3>2. QED
        BY <1>1, <1>3, <1>7, <3>1, StaysAhead
    <2>2. QED
      BY <1>1, <1>2, <2>1 DEF SnapOK
  <1>10. RestOK' /\ WorkersOK'
    BY <1>1, <1>2 DEF RestOK, WorkersOK
  <1>11. QED
    BY <1>5, <1>6, <1>8, <1>9, <1>10 DEF MempoolInv

\* A step that leaves the chain, the pool and the snapshot alone.
LEMMA OthersKeep ==
  ASSUME MempoolInv, UNCHANGED <<set, chain, mp, snap, replay>>, RestOK', WorkersOK'
  PROVE  MempoolInv'
  <1>1. ChainOK(chain) /\ PoolOK(mp) /\ Ahead(ToSet(mp.q), chain) /\ SnapOK
    BY DEF MempoolInv
  <1>2. ChainOK(chain)'
    BY <1>1 DEF ChainOK, payword_cap_from, Anchors
  <1>3. PoolOK(mp)' /\ Ahead(ToSet(mp.q), chain)'
    BY <1>1 DEF PoolOK, IsQueue, Apart, Mirrors, Owned, Ahead
  <1>4. SnapOK'
    BY <1>1 DEF SnapOK
  <1>5. QED
    BY <1>2, <1>3, <1>4 DEF MempoolInv

\* save_snapshot: the queue of this moment.
LEMMA SaveSnapshotKeeps ==
  ASSUME MempoolInv, SaveSnapshot
  PROVE  MempoolInv'
  <1>1. /\ ChainOK(chain) /\ PoolOK(mp) /\ Ahead(ToSet(mp.q), chain) /\ RestOK /\ WorkersOK
        /\ snap' = mp.q /\ replay' = {} /\ app' = "reset"
        /\ UNCHANGED <<set, chain, mp, rpc, wal, up, crashes, owed>>
    BY DEF MempoolInv, SaveSnapshot
  <1>2. ChainOK(chain)'
    BY <1>1 DEF ChainOK, payword_cap_from, Anchors
  <1>3. PoolOK(mp)' /\ Ahead(ToSet(mp.q), chain)'
    BY <1>1 DEF PoolOK, IsQueue, Apart, Mirrors, Owned, Ahead
  <1>4. SnapOK'
    BY <1>1 DEF SnapOK, PoolOK, Ahead
  <1>5. RestOK' /\ WorkersOK'
    BY <1>1 DEF RestOK, WorkersOK
  <1>6. QED
    BY <1>2, <1>3, <1>4, <1>5 DEF MempoolInv

\* The frames of a queue are writes.
LEMMA FramesTyped ==
  ASSUME NEW q \in Seq(Txs)
  PROVE  Frames(q) \in Seq(Writes)
  <1>1. Len(q) \in Nat /\ 2 * Len(q) \in Nat
    OBVIOUS
  <1>2. ASSUME NEW i \in 1..(2 * Len(q))
        PROVE  [part |-> IF i % 2 = 1 THEN "len" ELSE "body", tx |-> q[(i + 1) \div 2]] \in Writes
    <2>1. (i + 1) \div 2 \in 1..Len(q)
      BY <1>1
    <2>2. q[(i + 1) \div 2] \in Txs
      BY <2>1
    <2>3. QED
      BY <2>2 DEF Writes
  <1>3. QED
    BY <1>1, <1>2 DEF Frames

\* wal_reset, and the appends that lose their file.
LEMMA WalResetKeeps ==
  ASSUME MempoolInv, WalReset
  PROVE  MempoolInv'
  <1>1. PICK late \in SUBSET MayBeOrphaned :
          rpc' = appended(late)
    BY DEF WalReset
  <1>2. /\ wal' = Frames(mp.q) /\ app' = "idle"
        /\ UNCHANGED <<set, chain, mp, snap, replay, up, crashes, owed>>
    BY DEF WalReset
  <1>3. WorkersOK /\ RestOK /\ mp.q \in Seq(Txs)
    BY DEF MempoolInv, PoolOK, IsQueue
  <1>4. RestOK'
    BY <1>2, <1>3, FramesTyped DEF RestOK
  <1>5. WorkersOK'
    <2>1. ASSUME NEW w \in Workers PROVE rpc'[w] = Idle \/ Working(rpc'[w])
      <3> DEFINE over == late \cup Orphaned \cup {v \in Workers : rpc[v].pc = "answer"}
      <3>1. CASE w \notin over
        <4>1. rpc'[w] = rpc[w]
          BY <1>1, <3>1 DEF appended
        <4>2. QED
          BY <1>3, <4>1 DEF WorkersOK
      <3>2. CASE w \in over
        <4>1. rpc[w].pc \in {"len", "body", "answer"}
          BY <1>1, <3>2 DEF Orphaned, MayBeOrphaned
        <4>2. rpc[w] # Idle
          BY <4>1 DEF Idle
        <4>3. Working(rpc[w])
          BY <1>3, <4>2 DEF WorkersOK
        <4>4. PICK to : rpc'[w] = [rpc[w] EXCEPT !.pc = to]
          BY <1>1, <3>2 DEF appended
        <4>5. QED
          BY <4>3, <4>4 DEF Working
      <3>3. QED
        BY <3>1, <3>2
    <2>2. rpc' = [w \in Workers |-> rpc'[w]]
      BY <1>1 DEF appended
    <2>3. QED
      BY <2>1, <2>2 DEF WorkersOK, Working, Idle
  <1>6. QED
    BY <1>2, <1>4, <1>5, OthersKeep

\* admit_one, under the locks.
LEMMA SubmitKeeps ==
  ASSUME MempoolInv, NEW w \in Workers, NEW t \in set.txs, Submit(w, t)
  PROVE  MempoolInv'
  <1>1. /\ ChainOK(chain) /\ PoolOK(mp) /\ Ahead(ToSet(mp.q), chain) /\ SnapOK
        /\ RestOK /\ WorkersOK
    BY DEF MempoolInv
  <1>2. t \in Txs
    BY <1>1 DEF RestOK, Txs
  <1>3. /\ try_admit(mp, chain, t) /\ mp' = index(mp, t)
        /\ \E c : rpc' = [rpc EXCEPT ![w] = [pc |-> c, tx |-> t]]
        /\ UNCHANGED <<set, chain, wal, snap, replay, app, up, crashes, owed>>
    BY DEF Submit
  <1>4. PoolOK(index(mp, t)) /\ Ahead(ToSet(index(mp, t).q), chain)
    BY <1>1, <1>2, <1>3, DoorKeeps
  <1>5. PoolOK(mp)' /\ Ahead(ToSet(mp.q), chain)'
    BY <1>3, <1>4 DEF PoolOK, IsQueue, Apart, Mirrors, Owned, Ahead
  <1>6. ChainOK(chain)'
    BY <1>1, <1>3 DEF ChainOK, payword_cap_from, Anchors
  <1>7. SnapOK'
    BY <1>1, <1>3 DEF SnapOK
  <1>8. RestOK'
    BY <1>1, <1>3 DEF RestOK
  <1>9. WorkersOK'
    BY <1>1, <1>2, <1>3 DEF WorkersOK, Working
  <1>10. QED
    BY <1>5, <1>6, <1>7, <1>8, <1>9 DEF MempoolInv

\* A worker's next step keeps what it works on.
LEMMA WorkerMoves ==
  ASSUME MempoolInv, NEW w \in Workers, rpc[w].pc \in {"len", "body", "answer", "failed"}, NEW c,
         rpc' = [rpc EXCEPT ![w].pc = c] \/ rpc' = [rpc EXCEPT ![w] = Idle]
  PROVE  WorkersOK' /\ rpc[w].tx \in Txs
  <1>1. WorkersOK
    BY DEF MempoolInv
  <1>2. rpc[w] # Idle
    BY DEF Idle
  <1>3. Working(rpc[w])
    BY <1>1, <1>2 DEF WorkersOK
  <1>4. CASE rpc' = [rpc EXCEPT ![w].pc = c]
    <2>1. rpc' = [v \in Workers |-> rpc'[v]]
          /\ \A v \in Workers : rpc'[v] = IF v = w THEN [rpc[w] EXCEPT !.pc = c] ELSE rpc[v]
      BY <1>1, <1>4 DEF WorkersOK
    <2>2. PICK x : x = [rpc[w] EXCEPT !.pc = c]
      OBVIOUS
    <2>3. Working(x)
      BY <1>3, <2>2 DEF Working
    <2>4. \A v \in Workers : rpc'[v] = Idle \/ Working(rpc'[v])
      BY <1>1, <2>1, <2>2, <2>3 DEF WorkersOK
    <2>5. QED
      BY <1>3, <2>1, <2>4 DEF WorkersOK, Working, Idle
  <1>5. CASE rpc' = [rpc EXCEPT ![w] = Idle]
    <2>1. rpc' = [v \in Workers |-> rpc'[v]]
          /\ \A v \in Workers : rpc'[v] = IF v = w THEN Idle ELSE rpc[v]
      BY <1>1, <1>5 DEF WorkersOK
    <2>2. \A v \in Workers : rpc'[v] = Idle \/ Working(rpc'[v])
      BY <1>1, <2>1 DEF WorkersOK
    <2>3. QED
      BY <1>3, <2>1, <2>2 DEF WorkersOK, Working, Idle
  <1>6. QED
    BY <1>4, <1>5

\* admit_one, after the locks: the two writes, their failure and the answer.
LEMMA WorkerKeeps ==
  ASSUME MempoolInv, NEW w \in Workers,
         WriteLen(w) \/ WriteBody(w) \/ AppendFails(w) \/ Answer(w)
  PROVE  MempoolInv'
  <1>1. RestOK
    BY DEF MempoolInv
  <1>2. CASE WriteLen(w)
    <2>1. /\ rpc[w].pc = "len" /\ wal' = Append(wal, [part |-> "len", tx |-> rpc[w].tx])
          /\ rpc' = [rpc EXCEPT ![w].pc = "body"]
          /\ UNCHANGED <<set, chain, mp, snap, replay, app, up, crashes, owed>>
      BY <1>2 DEF WriteLen
    <2>2. WorkersOK' /\ rpc[w].tx \in Txs
      BY <2>1, WorkerMoves
    <2>3. [part |-> "len", tx |-> rpc[w].tx] \in Writes
      BY <2>2 DEF Writes
    <2>4. RestOK'
      BY <1>1, <2>1, <2>3 DEF RestOK
    <2>5. QED
      BY <2>1, <2>2, <2>4, OthersKeep
  <1>3. CASE WriteBody(w)
    <2>1. /\ rpc[w].pc = "body" /\ wal' = Append(wal, [part |-> "body", tx |-> rpc[w].tx])
          /\ rpc' = [rpc EXCEPT ![w].pc = "answer"]
          /\ UNCHANGED <<set, chain, mp, snap, replay, app, up, crashes, owed>>
      BY <1>3 DEF WriteBody
    <2>2. WorkersOK' /\ rpc[w].tx \in Txs
      BY <2>1, WorkerMoves
    <2>3. [part |-> "body", tx |-> rpc[w].tx] \in Writes
      BY <2>2 DEF Writes
    <2>4. RestOK'
      BY <1>1, <2>1, <2>3 DEF RestOK
    <2>5. QED
      BY <2>1, <2>2, <2>4, OthersKeep
  <1>4. CASE AppendFails(w)
    <2>1. /\ rpc[w].pc \in {"len", "body"} /\ rpc' = [rpc EXCEPT ![w].pc = "failed"]
          /\ UNCHANGED <<set, chain, mp, wal, snap, replay, app, up, crashes, owed>>
      BY <1>4 DEF AppendFails
    <2>2. WorkersOK'
      BY <2>1, WorkerMoves
    <2>3. RestOK'
      BY <1>1, <2>1 DEF RestOK
    <2>4. QED
      BY <2>1, <2>2, <2>3, OthersKeep
  <1>5. CASE Answer(w)
    <2>1. /\ rpc[w].pc \in {"answer", "failed"} /\ rpc' = [rpc EXCEPT ![w] = Idle]
          /\ UNCHANGED <<set, chain, mp, wal, snap, replay, app, up, crashes>>
      BY <1>5 DEF Answer
    <2>2. WorkersOK'
      BY <2>1, WorkerMoves
    <2>3. RestOK'
      BY <1>1, <2>1 DEF RestOK
    <2>4. QED
      BY <2>1, <2>2, <2>3, OthersKeep
  <1>6. QED
    BY <1>2, <1>3, <1>4, <1>5

\* The process dies: what is on disk stays.
LEMMA CrashKeeps ==
  ASSUME MempoolInv, Crash
  PROVE  MempoolInv'
  <1>1. /\ ChainOK(chain) /\ SnapOK /\ RestOK
        /\ crashes < Crashes /\ up' = FALSE /\ crashes' = crashes + 1 /\ mp' = EmptyPool
        /\ rpc' = [w \in Workers |-> Idle] /\ app' = "idle"
        /\ UNCHANGED <<set, chain, wal, snap, replay, owed>>
    BY DEF MempoolInv, Crash
  <1>2. ChainOK(chain)'
    BY <1>1 DEF ChainOK, payword_cap_from, Anchors
  <1>3. PoolOK(EmptyPool) /\ ToSet(EmptyPool.q) = {}
    BY EmptyOK
  <1>4. PoolOK(mp)' /\ Ahead(ToSet(mp.q), chain)'
    BY <1>1, <1>3 DEF PoolOK, IsQueue, Apart, Mirrors, Owned, Ahead
  <1>5. SnapOK'
    BY <1>1 DEF SnapOK
  <1>6. RestOK'
    <2>1. crashes + 1 \in 0..Crashes
      BY <1>1, BoundsNat DEF RestOK
    <2>2. QED
      BY <1>1, <2>1 DEF RestOK
  <1>7. WorkersOK'
    BY <1>1 DEF WorkersOK
  <1>8. QED
    BY <1>2, <1>4, <1>5, <1>6, <1>7 DEF MempoolInv

Intact(k) == \A i \in 1..k : /\ wal[2*i - 1].part = "len" /\ wal[2*i].part = "body"
                             /\ wal[2*i - 1].tx = wal[2*i].tx

\* wal_load reads a whole number of intact frames.
LEMMA WalLoadShape ==
  ASSUME wal \in Seq(Writes)
  PROVE  \E n \in Nat : 2 * n <= Len(wal) /\ Intact(n) /\ wal_load = [i \in 1..n |-> wal[2*i].tx]
  <1> DEFINE N == Len(wal) \div 2
             n == CHOOSE k \in 0..N : Intact(k) /\ (k < N => ~Intact(k + 1))
  <1>1. Len(wal) \in Nat /\ N \in Nat /\ 2 * N <= Len(wal)
    OBVIOUS
  <1>2. wal_load = [i \in 1..n |-> wal[2*i].tx]
    BY DEF wal_load, Intact
  <1>3. \E k \in 0..N : Intact(k) /\ (k < N => ~Intact(k + 1))
    <2>1. SUFFICES ASSUME \A k \in 0..N : Intact(k) => k < N /\ Intact(k + 1) PROVE FALSE
      OBVIOUS
    <2> DEFINE G == {k \in 0..N : Intact(k)}
    <2>2. 0 \in G
      BY <1>1 DEF Intact
    <2>3. ASSUME NEW i \in 1..N, i - 1 \in G PROVE i \in G
      <3>1. i - 1 \in 0..N /\ Intact(i - 1)
        BY <2>3
      <3>2. Intact((i - 1) + 1) /\ (i - 1) + 1 = i
        BY <1>1, <2>1, <3>1
      <3>3. QED
        BY <1>1, <3>2
    <2> HIDE DEF G
    <2>4. PICK k \in Nat : k = N
      BY <1>1
    <2>5. \A i \in 0..k : i \in G
      BY <2>2, <2>3, <2>4, Climb
    <2>6. N \in G
      BY <2>4, <2>5
    <2>7. N \in 0..N /\ Intact(N)
      BY <2>6 DEF G
    <2>8. N < N
      BY <2>1, <2>7
    <2>9. QED
      BY <1>1, <2>8
  <1>4. n \in 0..N /\ Intact(n)
    BY <1>3
  <1> HIDE DEF n
  <1>5. n \in Nat /\ 2 * n <= Len(wal)
    BY <1>1, <1>4
  <1>6. QED
    BY <1>2, <1>4, <1>5

\* wal_load yields transactions that were submitted.
LEMMA WalLoadTyped ==
  ASSUME wal \in Seq(Writes)
  PROVE  wal_load \in Seq(Txs)
  <1>1. PICK n \in Nat : 2 * n <= Len(wal) /\ wal_load = [i \in 1..n |-> wal[2*i].tx]
    BY WalLoadShape
  <1>2. ASSUME NEW i \in 1..n PROVE wal[2*i].tx \in Txs
    <2>1. 2 * i \in 1..Len(wal)
      BY <1>1
    <2>2. wal[2 * i] \in Writes
      BY <2>1
    <2>3. QED
      BY <2>2 DEF Writes
  <1>3. [i \in 1..n |-> wal[2*i].tx] \in Seq(Txs)
    BY <1>2
  <1>4. QED
    BY <1>1, <1>3

\* restore_from_store: snapshot, block log, WAL.
LEMMA RestartKeeps ==
  ASSUME MempoolInv, Restart
  PROVE  MempoolInv'
  <1>1. /\ ChainOK(chain) /\ SnapOK /\ RestOK /\ WorkersOK
        /\ up' = TRUE /\ UNCHANGED <<set, chain, rpc, wal, snap, replay, app, crashes>>
    BY DEF MempoolInv, Restart
  <1> DEFINE s == RestoreLoop(EmptyPool, snap)
             m == remove_included(s, replay)
             n == ReplayLoop(m, chain, wal_load)
  <1>2. mp' = n
    BY DEF Restart, restored, RestoreLoop, ReplayLoop, FoldLeft, MapThenFoldSet
  <1>3. PoolOK(s) /\ ToSet(s.q) = ToSet(snap)
    BY <1>1, RestoreKeeps DEF SnapOK
  <1> HIDE DEF s
  <1>4. PoolOK(m) /\ ToSet(m.q) = {t \in ToSet(s.q) : slot(t) \notin replay}
    BY <1>3, PruneKeeps
  <1> HIDE DEF m
  <1>5. Ahead(ToSet(m.q), chain)
    BY <1>1, <1>3, <1>4 DEF SnapOK, Ahead
  <1>6. wal_load \in Seq(Txs)
    BY <1>1, WalLoadTyped DEF RestOK
  <1>7. PoolOK(n) /\ Ahead(ToSet(n.q), chain)
    BY <1>1, <1>4, <1>5, <1>6, ReplayKeeps
  <1> HIDE DEF n
  <1>8. PoolOK(mp)' /\ Ahead(ToSet(mp.q), chain)'
    BY <1>1, <1>2, <1>7 DEF PoolOK, IsQueue, Apart, Mirrors, Owned, Ahead
  <1>9. ChainOK(chain)'
    BY <1>1 DEF ChainOK, payword_cap_from, Anchors
  <1>10. SnapOK' /\ RestOK' /\ WorkersOK'
    BY <1>1 DEF SnapOK, RestOK, WorkersOK
  <1>11. QED
    BY <1>8, <1>9, <1>10 DEF MempoolInv

\* A new node.
LEMMA InvInit == Init => MempoolInv
  <1>1. SUFFICES ASSUME Init PROVE MempoolInv
    OBVIOUS
  <1>2. payword_cap_from \in Nat
    BY <1>1, MempoolAssumption DEF Init, payword_cap_from
  <1>3. ChainOK(chain)
    <2>1. chain = [height |-> 0, nonce |-> [s \in Senders |-> 0], auth |-> auth_commit,
                   spent |-> {}, anchors |-> Anchors, channels |-> [c \in {} |-> 0]]
      BY <1>1 DEF Init
    <2>2. /\ chain.height = 0 /\ chain.nonce = [s \in Senders |-> 0] /\ chain.auth = auth_commit
          /\ chain.spent = {} /\ chain.anchors = Anchors /\ chain.channels = [c \in {} |-> 0]
      BY <2>1
    <2>3. auth_commit = [s \in Senders |-> auth_commit[s]] /\ \A s \in Senders : auth_commit[s] \in OwnKeys[s]
      BY OwnerAssumption
    <2>4. chain = [height |-> chain.height, nonce |-> chain.nonce, auth |-> chain.auth,
                   spent |-> chain.spent, anchors |-> chain.anchors, channels |-> chain.channels]
      BY <2>1, <2>2
    <2>5. QED
      BY <1>2, <2>2, <2>3, <2>4 DEF ChainOK
  <1>4. PoolOK(mp) /\ mp.q = <<>> /\ ToSet(mp.q) = {} /\ snap = <<>>
    BY <1>1, EmptyOK DEF Init
  <1>5. Ahead(ToSet(mp.q), chain) /\ SnapOK
    BY <1>4 DEF Ahead, SnapOK, PoolOK, Owned
  <1>6. RestOK
    BY <1>1, BoundsNat DEF Init, RestOK
  <1>7. WorkersOK
    BY <1>1 DEF Init, WorkersOK
  <1>8. QED
    BY <1>3, <1>4, <1>5, <1>6, <1>7 DEF MempoolInv

\* Another proposer's block holds transactions.
LEMMA ForeignTyped ==
  ASSUME set \in Settings, ForeignBlock
  PROVE  \E block \in Seq(Txs) : \E refused, kept : Commit(block, refused, kept)
  <1>1. PICK block \in UNION {[1..n -> set.txs] : n \in 1..ForeignMax} :
           \E refused, kept : Commit(block, refused, kept)
    BY DEF ForeignBlock
  <1>2. PICK n \in 1..ForeignMax : block \in [1..n -> set.txs]
    BY <1>1
  <1>3. set.txs \subseteq Txs /\ n \in Nat
    BY MempoolAssumption DEF Txs
  <1>4. block \in Seq(Txs)
    BY <1>2, <1>3
  <1>5. QED
    BY <1>1, <1>4

\* Every step keeps the invariant.
LEMMA InvNext == MempoolInv /\ [Next]_vars => MempoolInv'
  <1>1. SUFFICES ASSUME MempoolInv, [Next]_vars PROVE MempoolInv'
    OBVIOUS
  <1>2. set \in Settings /\ mp.q \in Seq(Txs) /\ RestOK /\ WorkersOK
    BY <1>1 DEF MempoolInv, RestOK, PoolOK, IsQueue
  <1>3. CASE OwnBlock
    <2>1. select_batch_txs(chain, mp.q) \in Seq(Txs)
      BY <1>2, PickKeeps
    <2>2. PICK block, refused, kept : /\ block = select_batch_txs(chain, mp.q)
                                      /\ Commit(block, refused, kept)
      BY <1>3 DEF OwnBlock
    <2>3. QED
      BY <1>1, <2>1, <2>2, CommitKeeps
  <1>4. CASE ForeignBlock
    <2>1. PICK block \in Seq(Txs) : \E refused, kept : Commit(block, refused, kept)
      BY <1>2, <1>4, ForeignTyped
    <2>2. QED
      BY <1>1, <2>1, CommitKeeps
  <1>5. CASE UNCHANGED vars
    BY <1>1, <1>2, <1>5, OthersKeep DEF vars, RestOK, WorkersOK
  <1>6. QED
    BY <1>1, <1>3, <1>4, <1>5, SaveSnapshotKeeps, WalResetKeeps, SubmitKeeps, WorkerKeeps,
       CrashKeeps, RestartKeeps DEF Next

\* The mempool's invariant holds in every reachable state.
THEOREM MempoolInvariant == Spec => []MempoolInv
  BY InvInit, InvNext, PTL DEF Spec

-----------------------------------------------------------------------------
(* The theorems                                                            *)

\* A list without repetitions has as many members as positions.
LEMMA CountMembers ==
  ASSUME NEW q \in Seq(Txs), \A i, j \in 1..Len(q) : q[i] = q[j] => i = j
  PROVE  IsFiniteSet(ToSet(q)) /\ Cardinality(ToSet(q)) = Len(q)
  <1> DEFINE S == ToSet(q)
  <1>1. Len(q) \in Nat /\ DOMAIN q = 1..Len(q) /\ q = [i \in 1..Len(q) |-> q[i]]
    OBVIOUS
  <1>2. q \in Bijection(1..Len(q), S)
    BY <1>1 DEF Bijection, Injection, Surjection, IsInjective, ToSet
  <1>3. ExistsBijection(1..Len(q), S)
    BY <1>2 DEF ExistsBijection
  <1>4. QED
    BY <1>1, <1>3, FS_CountingElements, FS_NatBijection

\* A set of queued transactions has as many slots as members.
LEMMA CountSlots ==
  ASSUME NEW S, IsFiniteSet(S), Apart(S)
  PROVE  Cardinality({slot(t) : t \in S}) = Cardinality(S)
  <1> DEFINE T == {slot(t) : t \in S}
             f == [t \in S |-> slot(t)]
  <1>1. f \in Bijection(S, T)
    BY DEF Bijection, Injection, Surjection, IsInjective, Apart
  <1>2. ExistsBijection(S, T)
    BY <1>1 DEF ExistsBijection
  <1>3. QED
    BY <1>2, FS_Bijection

\* M-2: whatever is submitted, proposed by others, replayed from the WAL or put
\* back from a snapshot, a slot is only ever held by a transaction its own
\* account's owner signed.
THEOREM MempoolHeldByOwner == Spec => []HeldByOwner
  <1>1. MempoolInv => HeldByOwner
    BY DEF MempoolInv, PoolOK, Owned, HeldByOwner
  <1>2. QED
    BY <1>1, MempoolInvariant, PTL

\* The indexes mirror the queue, one transaction per slot, and nothing the chain
\* has passed stays queued, over any number of blocks, crashes and torn writes.
THEOREM MempoolIndexesMirrorQueue == Spec => []IndexesMirrorQueue
  <1>1. ASSUME MempoolInv PROVE IndexesMirrorQueue
    <2> DEFINE S == ToSet(mp.q)
    <2>1. /\ RestOK /\ ChainOK(chain) /\ PoolOK(mp) /\ Ahead(S, chain) /\ WorkersOK
          /\ IsQueue(mp.q) /\ Mirrors(mp, S)
      BY <1>1 DEF MempoolInv, PoolOK
    <2>2. mp.q \in Seq(Txs) /\ Len(mp.q) <= cap /\ S \subseteq Txs
      BY <2>1, Members DEF IsQueue
    <2>3. TypeOK
      <3>1. mp.ids \subseteq Txs /\ DOMAIN mp.keys \subseteq Slots
        BY <2>1, <2>2 DEF Mirrors, Slots
      <3>2. \A w \in Workers : rpc[w] = Idle \/ rpc[w].tx \in Txs
        BY <2>1 DEF WorkersOK, Working
      <3>3. QED
        BY <2>1, <2>2, <3>1, <3>2 DEF TypeOK, RestOK, ChainOK, Writes
    <2>4. \A t \in S : t.nonce >= chain.nonce[t.sender]
      BY <2>1 DEF Ahead
    <2>5. IsFiniteSet(S) /\ Len(mp.q) = Cardinality(S)
      BY <2>1, <2>2, CountMembers DEF IsQueue
    <2>6. mp.ids = S /\ mp.nullifiers = UNION {nullifiers_of(t) : t \in S}
          /\ DOMAIN mp.keys = {slot(t) : t \in S}
      BY <2>1 DEF Mirrors
    <2>7. Cardinality(DOMAIN mp.keys) = Cardinality(S)
      BY <2>1, <2>5, <2>6, CountSlots DEF IsQueue
    <2>8. mp.keys = [x \in {slot(t) : t \in S} |-> (CHOOSE t \in S : slot(t) = x).next_auth]
      <3>1. ASSUME NEW x \in {slot(t) : t \in S}
            PROVE  mp.keys[x] = (CHOOSE t \in S : slot(t) = x).next_auth
        <4>1. PICK t : t = CHOOSE u \in S : slot(u) = x
          OBVIOUS
        <4>2. t \in S /\ slot(t) = x
          BY <3>1, <4>1
        <4>3. mp.keys[x] = t.next_auth
          BY <2>1, <4>2 DEF Mirrors
        <4>4. QED
          BY <4>1, <4>3
      <3>2. mp.keys = [x \in DOMAIN mp.keys |-> mp.keys[x]]
        BY <2>1 DEF PoolOK
      <3>3. QED
        BY <2>6, <3>1, <3>2
    <2>9. QED
      BY <2>3, <2>4, <2>5, <2>6, <2>7, <2>8 DEF IndexesMirrorQueue
  <1>2. QED
    BY <1>1, MempoolInvariant, PTL

-----------------------------------------------------------------------------
(* What a settle may still cost                                            *)

ChannelsOK(c) ==
  \A x \in DOMAIN c.channels : c.channels[x] \in [max_steps : Nat, highest : Nat, refunded : BOOLEAN]

\* Channels are never closed, shrunk or paid back between c and d.
Grows(c, d) ==
  /\ DOMAIN c.channels \subseteq DOMAIN d.channels
  /\ \A x \in DOMAIN c.channels :
        /\ d.channels[x].max_steps = c.channels[x].max_steps
        /\ c.channels[x].highest <= d.channels[x].highest
        /\ c.channels[x].refunded => d.channels[x].refunded

\* What the door asked of t still holds as far as a block could need it.
Fits(c, t) ==
  /\ t.sig /\ channel_open_cap(t)
  /\ t.kind = "settle" =>
       /\ t.channel \notin DOMAIN c.channels => t.step <= MAX_SETTLE_DELTA
       /\ settle_delta(c, t.channel, t.step) > 0 =>
             /\ settle_delta(c, t.channel, t.step) <= MAX_SETTLE_DELTA
             /\ t.step <= MAX_SETTLE_LINKS_PER_BLOCK

\* The limits on settles.
LEMMA LimitsNat ==
  /\ MAX_SETTLE_DELTA \in Nat /\ MAX_SETTLE_LINKS_PER_BLOCK \in Nat
  /\ MAX_SETTLE_DELTA <= MAX_SETTLE_LINKS_PER_BLOCK
  <1>1. MAX_SETTLE_DELTA \in Nat
    BY MempoolAssumption
  <1>2. MAX_SETTLE_LINKS_PER_BLOCK \in Nat
    BY MempoolAssumption
  <1>3. MAX_SETTLE_DELTA <= MAX_SETTLE_LINKS_PER_BLOCK
    BY MempoolAssumption
  <1>4. QED
    BY <1>1, <1>2, <1>3

\* What fits one chain fits every longer one.
LEMMA FitsGrows ==
  ASSUME NEW c, ChannelsOK(c), NEW d, ChannelsOK(d), Grows(c, d), NEW t \in Txs, Fits(c, t)
  PROVE  Fits(d, t)
  <1>1. SUFFICES ASSUME t.kind = "settle"
                 PROVE  /\ t.channel \notin DOMAIN d.channels => t.step <= MAX_SETTLE_DELTA
                        /\ settle_delta(d, t.channel, t.step) > 0 =>
                              /\ settle_delta(d, t.channel, t.step) <= MAX_SETTLE_DELTA
                              /\ t.step <= MAX_SETTLE_LINKS_PER_BLOCK
    BY DEF Fits
  <1>2. t.step \in Nat
    BY <1>1, MempoolAssumption
  <1>3. /\ t.channel \notin DOMAIN c.channels => t.step <= MAX_SETTLE_DELTA
        /\ settle_delta(c, t.channel, t.step) > 0 =>
              /\ settle_delta(c, t.channel, t.step) <= MAX_SETTLE_DELTA
              /\ t.step <= MAX_SETTLE_LINKS_PER_BLOCK
    BY <1>1 DEF Fits
  <1>4. t.channel \notin DOMAIN d.channels => t.step <= MAX_SETTLE_DELTA
    BY <1>3 DEF Grows
  <1>5. ASSUME settle_delta(d, t.channel, t.step) > 0
        PROVE  settle_delta(d, t.channel, t.step) <= MAX_SETTLE_DELTA
               /\ t.step <= MAX_SETTLE_LINKS_PER_BLOCK
    <2>1. /\ t.channel \in DOMAIN d.channels /\ ~d.channels[t.channel].refunded
          /\ d.channels[t.channel].highest < t.step /\ t.step <= d.channels[t.channel].max_steps
          /\ settle_delta(d, t.channel, t.step) = t.step - d.channels[t.channel].highest
      BY <1>5 DEF settle_delta
    <2>2. d.channels[t.channel].highest \in Nat
      BY <2>1 DEF ChannelsOK
    <2>3. CASE t.channel \notin DOMAIN c.channels
      BY <1>2, <1>3, <2>1, <2>2, <2>3, LimitsNat
    <2>4. CASE t.channel \in DOMAIN c.channels
      <3>1. /\ c.channels[t.channel].highest \in Nat
            /\ c.channels[t.channel].highest <= d.channels[t.channel].highest
            /\ d.channels[t.channel].max_steps = c.channels[t.channel].max_steps
            /\ ~c.channels[t.channel].refunded
        BY <2>1, <2>4 DEF ChannelsOK, Grows
      <3>2. settle_delta(c, t.channel, t.step) = t.step - c.channels[t.channel].highest
        BY <1>2, <2>1, <2>2, <2>4, <3>1 DEF settle_delta
      <3>3. QED
        BY <1>2, <1>3, <2>1, <2>2, <3>1, <3>2, LimitsNat
    <2>5. QED
      BY <2>3, <2>4
  <1>6. QED
    BY <1>4, <1>5

\* A transaction opens, advances or refunds a channel.
LEMMA ChannelsTurn ==
  ASSUME NEW c, ChainOK(c), ChannelsOK(c), NEW t \in Txs, NEW refused
  PROVE  ChannelsOK(apply_tx_at(c, t, refused)) /\ Grows(c, apply_tx_at(c, t, refused))
  <1> DEFINE d == apply_tx_at(c, t, refused)
  <1>1. \A x \in DOMAIN c.channels : c.channels[x].highest \in Nat
    BY DEF ChannelsOK
  <1>2. CASE d = c
    BY <1>1, <1>2 DEF Grows
  <1>3. CASE d # c
    <2>1. /\ dispatch_ok(c, t)
          /\ d = [c EXCEPT !.nonce[t.sender] = @ + 1, !.auth[t.sender] = t.next_auth,
                           !.spent = @ \cup nullifiers_of(t), !.channels = channels_after(c, t)]
      BY <1>3 DEF apply_tx_at
    <2>2. d.channels = channels_after(c, t)
      BY <2>1 DEF ChainOK
    <2> HIDE DEF d
    <2>3. ASSUME t.kind = "open" PROVE ChannelsOK(d) /\ Grows(c, d)
      <3>1. t.channel \notin DOMAIN c.channels /\ t.max_steps \in Nat
        BY <2>1, <2>3, MempoolAssumption DEF dispatch_ok
      <3>2. d.channels = [x \in DOMAIN c.channels \cup {t.channel} |->
                            IF x = t.channel
                            THEN [max_steps |-> t.max_steps, highest |-> 0, refunded |-> FALSE]
                            ELSE c.channels[x]]
        BY <2>2, <2>3 DEF channels_after
      <3>3. QED
        BY <1>1, <3>1, <3>2 DEF ChannelsOK, Grows
    <2>4. ASSUME t.kind = "settle" PROVE ChannelsOK(d) /\ Grows(c, d)
      <3>1. settle_delta(c, t.channel, t.step) > 0 /\ t.step \in Nat
        BY <2>1, <2>4, MempoolAssumption DEF dispatch_ok
      <3>2. t.channel \in DOMAIN c.channels /\ c.channels[t.channel].highest < t.step
        BY <3>1 DEF settle_delta
      <3>3. d.channels = [c.channels EXCEPT ![t.channel].highest = t.step]
        BY <2>2, <2>4 DEF channels_after
      <3>4. QED
        BY <1>1, <3>1, <3>2, <3>3 DEF ChannelsOK, Grows
    <2>5. ASSUME t.kind = "refund" PROVE ChannelsOK(d) /\ Grows(c, d)
      <3>1. d.channels = [c.channels EXCEPT ![t.channel].refunded = TRUE]
        BY <2>2, <2>5 DEF channels_after
      <3>2. t.channel \in DOMAIN c.channels
        BY <2>1, <2>5 DEF dispatch_ok
      <3>3. PICK p : p = [c.channels[t.channel] EXCEPT !.refunded = TRUE]
        OBVIOUS
      <3>4. /\ p \in [max_steps : Nat, highest : Nat, refunded : BOOLEAN] /\ p.refunded
            /\ p.max_steps = c.channels[t.channel].max_steps
            /\ p.highest = c.channels[t.channel].highest
        BY <3>2, <3>3 DEF ChannelsOK
      <3>5. /\ DOMAIN d.channels = DOMAIN c.channels
            /\ \A x \in DOMAIN c.channels : d.channels[x] = IF x = t.channel THEN p ELSE c.channels[x]
        BY <3>1, <3>3
      <3>6. ChannelsOK(d)
        BY <3>4, <3>5 DEF ChannelsOK
      <3>7. Grows(c, d)
        BY <1>1, <3>4, <3>5 DEF Grows
      <3>8. QED
        BY <3>6, <3>7
    <2>6. ASSUME t.kind \notin {"open", "settle", "refund"} PROVE ChannelsOK(d) /\ Grows(c, d)
      <3>1. d.channels = c.channels
        BY <2>2, <2>6 DEF channels_after
      <3>2. QED
        BY <1>1, <3>1 DEF ChannelsOK, Grows
    <2>7. ChannelsOK(d) /\ Grows(c, d)
      BY <2>3, <2>4, <2>5, <2>6
    <2>8. QED
      BY <2>7 DEF d
  <1>4. QED
    BY <1>2, <1>3

\* So does a block.
LEMMA ChannelsApply ==
  ASSUME NEW c, ChainOK(c), ChannelsOK(c), NEW q \in Seq(Txs), NEW refused
  PROVE  ChannelsOK(ApplyLoop(c, refused, q)) /\ Grows(c, ApplyLoop(c, refused, q))
  <1> DEFINE out == ApplyLoop(c, refused, q)
  <1>1. Len(q) \in Nat /\ DOMAIN q = 1..Len(q) /\ \A i \in 1..Len(q) : q[i] \in Txs
    OBVIOUS
  <1>2. PICK r : IsRun(r, <<"apply", refused>>, c, q) /\ r[Len(q)] = out
    BY <1>1, ApplyRuns
  <1> HIDE DEF out
  <1> DEFINE G == {i \in 0..Len(q) : ChainOK(r[i]) /\ ChannelsOK(r[i]) /\ Grows(c, r[i])}
  <1>3. 0 \in G
    <2>1. r[0] = c
      BY <1>2 DEF IsRun
    <2>2. Grows(c, c)
      BY DEF Grows, ChannelsOK
    <2>3. QED
      BY <1>1, <2>1, <2>2
  <1>4. \A i \in 1..Len(q) : i - 1 \in G => i \in G
    <2>1. SUFFICES ASSUME NEW i \in 1..Len(q), i - 1 \in G PROVE i \in G
      OBVIOUS
    <2>2. PICK b, d, t : b = r[i - 1] /\ d = r[i] /\ t = q[i]
      OBVIOUS
    <2>3. ChainOK(b) /\ ChannelsOK(b) /\ Grows(c, b) /\ t \in Txs
      BY <1>1, <2>1, <2>2
    <2>4. d = apply_tx_at(b, t, refused)
      BY <1>2, <2>2 DEF IsRun, turn
    <2>5. ChainOK(d) /\ ChannelsOK(d) /\ Grows(b, d)
      BY <2>3, <2>4, ApplyTurn, ChannelsTurn
    <2>6. Grows(c, d)
      <3>1. DOMAIN c.channels \subseteq DOMAIN d.channels
        BY <2>3, <2>5 DEF Grows
      <3>2. ASSUME NEW x \in DOMAIN c.channels
            PROVE  /\ d.channels[x].max_steps = c.channels[x].max_steps
                   /\ c.channels[x].highest <= d.channels[x].highest
                   /\ c.channels[x].refunded => d.channels[x].refunded
        <4>1. /\ b.channels[x].max_steps = c.channels[x].max_steps
              /\ c.channels[x].highest <= b.channels[x].highest
              /\ c.channels[x].refunded => b.channels[x].refunded
              /\ x \in DOMAIN b.channels
          BY <2>3 DEF Grows
        <4>2. /\ d.channels[x].max_steps = b.channels[x].max_steps
              /\ b.channels[x].highest <= d.channels[x].highest
              /\ b.channels[x].refunded => d.channels[x].refunded
              /\ x \in DOMAIN d.channels
          BY <2>5, <4>1 DEF Grows
        <4>3. c.channels[x].highest \in Nat /\ b.channels[x].highest \in Nat /\ d.channels[x].highest \in Nat
          BY <2>3, <2>5, <4>1, <4>2 DEF ChannelsOK
        <4>4. QED
          BY <4>1, <4>2, <4>3
      <3>3. QED
        BY <3>1, <3>2 DEF Grows
    <2>7. QED
      BY <1>1, <2>2, <2>5, <2>6
  <1>5. Len(q) \in G
    <2> HIDE DEF G
    <2>1. PICK k \in Nat : k = Len(q)
      BY <1>1
    <2>2. \A i \in 0..k : i \in G
      BY <1>3, <1>4, <2>1, Climb
    <2>3. QED
      BY <2>1, <2>2
  <1>6. QED
    BY <1>2, <1>5 DEF out

\* And so does apply_block.
LEMMA ChannelsBlock ==
  ASSUME set \in Settings, NEW c, ChainOK(c), ChannelsOK(c), NEW q \in Seq(Txs), NEW refused, NEW kept
  PROVE  /\ ChannelsOK(apply_block(c, q, refused, kept))
         /\ Grows(c, apply_block(c, q, refused, kept))
  <1>1. PICK h : h = Lesser(c.height + 1, payword_cap_from)
    OBVIOUS
  <1>2. PICK b : b = [c EXCEPT !.height = h]
    OBVIOUS
  <1>3. c = [height |-> c.height, nonce |-> c.nonce, auth |-> c.auth, spent |-> c.spent,
             anchors |-> c.anchors, channels |-> c.channels]
    BY DEF ChainOK
  <1>4. b = [height |-> h, nonce |-> c.nonce, auth |-> c.auth, spent |-> c.spent,
             anchors |-> c.anchors, channels |-> c.channels]
    BY <1>2, <1>3
  <1>5. h \in 0..payword_cap_from
    <2>1. payword_cap_from \in Nat
      BY MempoolAssumption DEF payword_cap_from
    <2>2. QED
      BY <1>1, <2>1 DEF ChainOK, Lesser
  <1>6. ChainOK(b) /\ ChannelsOK(b) /\ b.channels = c.channels
    BY <1>4, <1>5 DEF ChainOK, ChannelsOK
  <1>7. PICK l : l = ApplyLoop(b, refused, q)
    OBVIOUS
  <1>8. ChainOK(l) /\ ChannelsOK(l) /\ Grows(b, l)
    BY <1>6, <1>7, ApplyKeeps, ChannelsApply
  <1>9. PICK a : a = l.anchors \cap kept
    OBVIOUS
  <1>10. apply_block(c, q, refused, kept) = [l EXCEPT !.anchors = a]
    BY <1>1, <1>2, <1>7, <1>9 DEF apply_block, ApplyLoop, FoldLeft, MapThenFoldSet
  <1>11. apply_block(c, q, refused, kept).channels = l.channels
    <2>1. l = [height |-> l.height, nonce |-> l.nonce, auth |-> l.auth, spent |-> l.spent,
               anchors |-> l.anchors, channels |-> l.channels]
      BY <1>8 DEF ChainOK
    <2>2. [l EXCEPT !.anchors = a].channels = l.channels
      BY <2>1
    <2>3. QED
      BY <1>10, <2>2
  <1>12. QED
    BY <1>6, <1>8, <1>11 DEF ChannelsOK, Grows

\* What the door lets in fits.
LEMMA DoorFits ==
  ASSUME NEW m, NEW c, ChannelsOK(c), NEW t \in Txs, try_admit(m, c, t)
  PROVE  Fits(c, t)
  <1>1. t.sig /\ channel_open_cap(t) /\ channel_settle_cap(c, t)
    BY DEF try_admit, admit_gated
  <1>2. ASSUME t.kind = "settle"
        PROVE  /\ t.channel \notin DOMAIN c.channels => t.step <= MAX_SETTLE_DELTA
               /\ settle_delta(c, t.channel, t.step) > 0 =>
                     /\ settle_delta(c, t.channel, t.step) <= MAX_SETTLE_DELTA
                     /\ t.step <= MAX_SETTLE_LINKS_PER_BLOCK
    <2>1. /\ settle_delta(c, t.channel, t.step) <= MAX_SETTLE_DELTA
          /\ t.channel \in DOMAIN c.channels \/ t.step <= MAX_SETTLE_DELTA
          /\ settle_cost(c, t.channel, t.step) <= MAX_SETTLE_LINKS_PER_BLOCK
      BY <1>1, <1>2 DEF channel_settle_cap
    <2>2. settle_delta(c, t.channel, t.step) > 0 => settle_cost(c, t.channel, t.step) = t.step
      BY DEF settle_cost
    <2>3. QED
      BY <2>1, <2>2
  <1>3. QED
    BY <1>1, <1>2 DEF Fits

\* The slot or the nullifier of t is taken, or the pool is full.
Held(m, t) ==
  \/ slot(t) \in DOMAIN m.keys
  \/ nullifiers_of(t) \cap m.nullifiers # {}
  \/ Len(m.q) = cap

\* What fits and could apply next is let in, unless that is so.
LEMMA NextIsLetIn ==
  ASSUME NEW m, PoolOK(m), NEW c, ChainOK(c), NEW t \in Txs, Fits(c, t), dispatch_ok(c, t),
         t.nonce = c.nonce[t.sender], t.key = c.auth[t.sender], ~Held(m, t)
  PROVE  try_admit(m, c, t)
  <1>1. slot(t) \notin DOMAIN m.keys /\ nullifiers_of(t) \cap m.nullifiers = {} /\ Len(m.q) # cap
    BY DEF Held
  <1>2. gate(m, t)
    <2>1. Len(m.q) < cap
      <3>1. m.q \in Seq(Txs) /\ Len(m.q) <= cap /\ cap \in Nat
        BY BoundsNat DEF PoolOK, IsQueue
      <3>2. QED
        BY <1>1, <3>1
    <2>2. t \notin m.ids
      BY <1>1 DEF PoolOK, Mirrors
    <2>3. QED
      BY <1>1, <2>1, <2>2 DEF gate
  <1>3. channel_settle_cap(c, t)
    <2>1. SUFFICES ASSUME t.kind = "settle"
                   PROVE  /\ settle_delta(c, t.channel, t.step) <= MAX_SETTLE_DELTA
                          /\ t.channel \in DOMAIN c.channels \/ t.step <= MAX_SETTLE_DELTA
                          /\ settle_cost(c, t.channel, t.step) <= MAX_SETTLE_LINKS_PER_BLOCK
      BY DEF channel_settle_cap
    <2>2. settle_delta(c, t.channel, t.step) > 0
      BY <2>1 DEF dispatch_ok
    <2>3. t.channel \in DOMAIN c.channels
      BY <2>2 DEF settle_delta
    <2>4. settle_cost(c, t.channel, t.step) = t.step
      BY <2>2 DEF settle_cost
    <2>5. QED
      BY <2>1, <2>2, <2>3, <2>4 DEF Fits
  <1>4. admit_gated(m, c, t)
    <2>1. t.sig /\ channel_open_cap(t)
      BY DEF Fits
    <2>2. c.nonce[t.sender] <= t.nonce /\ t.nonce < c.nonce[t.sender] + NONCE_WINDOW
      <3>1. NONCE_WINDOW \in Nat \ {0} /\ t.nonce \in Nat
        BY MempoolAssumption
      <3>2. QED
        BY <3>1
    <2>3. t.kind = "spend" => t.anchor \in c.anchors /\ t.nullifier \notin c.spent \cup m.nullifiers
      BY <1>1 DEF dispatch_ok, nullifiers_of
    <2>4. QED
      BY <2>1, <2>2, <2>3 DEF admit_gated
  <1>5. QED
    BY <1>2, <1>3, <1>4 DEF try_admit

\* Once held, held to the end of the replay.
LEMMA HeldStays ==
  ASSUME NEW m, PoolOK(m), NEW c, NEW t \in Txs, NEW u \in Txs, try_admit(m, c, u), Held(m, t)
  PROVE  Held(index(m, u), t)
  <1>1. Len(m.q) < cap
    BY DEF try_admit, gate
  <1>2. cap \in Nat /\ Len(m.q) \in Nat
    BY BoundsNat DEF PoolOK, IsQueue
  <1>3. DOMAIN m.keys \subseteq DOMAIN index(m, u).keys /\ m.nullifiers \subseteq index(m, u).nullifiers
    BY DEF index
  <1>4. QED
    BY <1>1, <1>2, <1>3 DEF Held

\* The replay keeps to what fits.
LEMMA ReplayFits ==
  ASSUME NEW m, PoolOK(m), NEW c, ChainOK(c), ChannelsOK(c), NEW q \in Seq(Txs),
         \A t \in ToSet(m.q) : Fits(c, t)
  PROVE  \A t \in ToSet(ReplayLoop(m, c, q).q) : Fits(c, t)
  <1> DEFINE out == ReplayLoop(m, c, q)
             ok(n) == n.q \in Seq(Txs) /\ \A t \in ToSet(n.q) : Fits(c, t)
  <1>1. Len(q) \in Nat /\ DOMAIN q = 1..Len(q) /\ \A i \in 1..Len(q) : q[i] \in Txs
    OBVIOUS
  <1>2. PICK r : IsRun(r, <<"replay", c>>, m, q) /\ r[Len(q)] = out
    BY <1>1, ReplayRuns
  <1> HIDE DEF out
  <1> DEFINE G == {i \in 0..Len(q) : ok(r[i])}
  <1>3. 0 \in G
    <2>1. r[0] = m
      BY <1>2 DEF IsRun
    <2>2. QED
      BY <1>1, <2>1 DEF PoolOK, IsQueue
  <1>4. \A i \in 1..Len(q) : i - 1 \in G => i \in G
    <2>1. SUFFICES ASSUME NEW i \in 1..Len(q), i - 1 \in G PROVE i \in G
      OBVIOUS
    <2>2. PICK n, t : n = r[i - 1] /\ t = q[i]
      OBVIOUS
    <2>3. n.q \in Seq(Txs) /\ (\A u \in ToSet(n.q) : Fits(c, u)) /\ t \in Txs
      BY <1>1, <2>1, <2>2
    <2>4. r[i] = IF try_admit(n, c, t) THEN index(n, t) ELSE n
      BY <1>2, <2>2 DEF IsRun, turn
    <2>5. CASE ~try_admit(n, c, t)
      <3>1. r[i] = n
        BY <2>4, <2>5
      <3>2. QED
        BY <1>1, <2>3, <3>1
    <2>6. CASE try_admit(n, c, t)
      <3>1. r[i].q = Append(n.q, t)
        BY <2>4, <2>6 DEF index
      <3>2. Fits(c, t)
        BY <2>3, <2>6, DoorFits
      <3>3. ToSet(Append(n.q, t)) = ToSet(n.q) \cup {t} /\ Append(n.q, t) \in Seq(Txs)
        BY <2>3, ToSetAppend
      <3>4. ok(r[i])
        BY <2>3, <3>1, <3>2, <3>3
      <3>5. QED
        BY <1>1, <3>4
    <2>7. QED
      BY <2>5, <2>6
  <1>5. Len(q) \in G
    <2> HIDE DEF G
    <2>1. PICK k \in Nat : k = Len(q)
      BY <1>1
    <2>2. \A i \in 0..k : i \in G
      BY <1>3, <1>4, <2>1, Climb
    <2>3. QED
      BY <2>1, <2>2
  <1>6. QED
    BY <1>2, <1>5 DEF out

\* Whatever fits and could apply next is held after a replay that meets it.
LEMMA ReplayHolds ==
  ASSUME NEW m, PoolOK(m), NEW c, ChainOK(c), Ahead(ToSet(m.q), c), NEW q \in Seq(Txs),
         NEW j \in 1..Len(q), NEW t \in Txs, t = q[j], Fits(c, t), dispatch_ok(c, t),
         t.nonce = c.nonce[t.sender], t.key = c.auth[t.sender]
  PROVE  Held(ReplayLoop(m, c, q), t)
  <1> DEFINE out == ReplayLoop(m, c, q)
  <1>1. Len(q) \in Nat /\ DOMAIN q = 1..Len(q) /\ \A i \in 1..Len(q) : q[i] \in Txs
    OBVIOUS
  <1>2. PICK r : IsRun(r, <<"replay", c>>, m, q) /\ r[Len(q)] = out
    BY <1>1, ReplayRuns
  <1> HIDE DEF out
  <1> DEFINE G == {i \in 0..Len(q) : /\ PoolOK(r[i]) /\ Ahead(ToSet(r[i].q), c)
                                     /\ j <= i => Held(r[i], t)}
  <1>3. 0 \in G
    <2>1. r[0] = m
      BY <1>2 DEF IsRun
    <2>2. ~(j <= 0) /\ 0 \in 0..Len(q)
      BY <1>1
    <2>3. QED
      BY <2>1, <2>2
  <1>4. \A i \in 1..Len(q) : i - 1 \in G => i \in G
    <2>1. SUFFICES ASSUME NEW i \in 1..Len(q), i - 1 \in G PROVE i \in G
      OBVIOUS
    <2>2. PICK n, u : n = r[i - 1] /\ u = q[i]
      OBVIOUS
    <2>3. PoolOK(n) /\ Ahead(ToSet(n.q), c) /\ (j <= i - 1 => Held(n, t)) /\ u \in Txs
      BY <1>1, <2>1, <2>2
    <2>4. r[i] = IF try_admit(n, c, u) THEN index(n, u) ELSE n
      BY <1>2, <2>2 DEF IsRun, turn
    <2>5. PoolOK(r[i]) /\ Ahead(ToSet(r[i].q), c)
      BY <2>3, <2>4, DoorKeeps
    <2>6. ASSUME j <= i PROVE Held(r[i], t)
      <3>1. CASE Held(n, t)
        BY <2>3, <2>4, <3>1, HeldStays
      <3>2. CASE ~Held(n, t)
        <4>1. j = i /\ u = t
          BY <1>1, <2>2, <2>3, <2>6, <3>2
        <4>2. try_admit(n, c, t)
          BY <2>3, <3>2, NextIsLetIn
        <4>3. r[i] = index(n, t)
          BY <2>4, <4>1, <4>2
        <4>4. slot(t) \in DOMAIN r[i].keys
          BY <4>3 DEF index
        <4>5. QED
          BY <4>4 DEF Held
      <3>3. QED
        BY <3>1, <3>2
    <2>7. QED
      BY <1>1, <2>5, <2>6
  <1>5. Len(q) \in G
    <2> HIDE DEF G
    <2>1. PICK k \in Nat : k = Len(q)
      BY <1>1
    <2>2. \A i \in 0..k : i \in G
      BY <1>3, <1>4, <2>1, Climb
    <2>3. QED
      BY <2>1, <2>2
  <1>6. j <= Len(q)
    BY <1>1
  <1>7. QED
    BY <1>2, <1>5, <1>6 DEF out

-----------------------------------------------------------------------------
(* Accepted transactions                                                   *)

\* The WAL has the frame of t.
Logged(t) == \E i \in 1..Len(wal) : wal[i] = [part |-> "body", tx |-> t]

\* A WAL that reads back whole gives back every frame.
LEMMA WalReadsBack ==
  ASSUME wal \in Seq(Writes), 2 * Len(wal_load) = Len(wal), NEW t, Logged(t)
  PROVE  \E j \in 1..Len(wal_load) : t = wal_load[j]
  <1>1. PICK n \in Nat : 2 * n <= Len(wal) /\ Intact(n) /\ wal_load = [i \in 1..n |-> wal[2*i].tx]
    BY WalLoadShape
  <1>2. Len(wal_load) = n /\ Len(wal) \in Nat /\ Len(wal) = 2 * n
    BY <1>1
  <1>3. PICK i \in 1..Len(wal) : wal[i] = [part |-> "body", tx |-> t]
    BY DEF Logged
  <1>4. wal[i].part = "body" /\ wal[i].tx = t
    BY <1>3
  <1>5. PICK j \in 1..n : i = 2 * j - 1 \/ i = 2 * j
    <2>1. (i + 1) \div 2 \in 1..n /\ (i = 2 * ((i + 1) \div 2) - 1 \/ i = 2 * ((i + 1) \div 2))
      BY <1>2
    <2>2. QED
      BY <2>1
  <1>6. i = 2 * j
    BY <1>1, <1>4, <1>5 DEF Intact
  <1>7. wal_load[j] = t
    BY <1>1, <1>4, <1>5, <1>6
  <1>8. QED
    BY <1>2, <1>5, <1>7

\* wal_reset writes the frame of every pending transaction.
LEMMA FramesLog ==
  ASSUME NEW q \in Seq(Txs), NEW t \in ToSet(q)
  PROVE  \E i \in 1..Len(Frames(q)) : Frames(q)[i] = [part |-> "body", tx |-> t]
  <1>1. PICK k \in 1..Len(q) : t = q[k]
    BY Members
  <1>2. PICK i : i = 2 * k
    OBVIOUS
  <1>3. Len(q) \in Nat /\ i \in 1..(2 * Len(q)) /\ i % 2 = 0 /\ (i + 1) \div 2 = k
    BY <1>2
  <1>4. Frames(q)[i] = [part |-> "body", tx |-> t] /\ Len(Frames(q)) = 2 * Len(q)
    BY <1>1, <1>3 DEF Frames
  <1>5. QED
    BY <1>3, <1>4

AllFit(S, c) == \A t \in S : Fits(c, t)

FitOK == /\ ChannelsOK(chain) /\ owed \subseteq Txs
         /\ AllFit(ToSet(mp.q), chain) /\ AllFit(ToSet(snap), chain) /\ AllFit(owed, chain)

\* With a store, what was answered or is about to be has its frame in the WAL.
LogOK == store => /\ \A t \in owed : Logged(t)
                  /\ \A w \in Workers : rpc[w].pc = "answer" => Logged(rpc[w].tx)

OwedOK == (~up => store) /\ (up => owed \subseteq mp.ids)

AcceptedInv == FitOK /\ LogOK /\ OwedOK

\* commit.
LEMMA CommitAccepted ==
  ASSUME MempoolInv, AcceptedInv, NEW q \in Seq(Txs), NEW refused, NEW kept, Commit(q, refused, kept)
  PROVE  AcceptedInv'
  <1>1. PICK d, inc : d = apply_block(chain, q, refused, kept) /\ inc = included(q)
    OBVIOUS
  <1>2. /\ set \in Settings /\ ChainOK(chain) /\ PoolOK(mp) /\ ChannelsOK(chain) /\ owed \subseteq Txs
        /\ FitOK /\ LogOK /\ OwedOK
    BY DEF MempoolInv, RestOK, AcceptedInv, FitOK
  <1>3. /\ chain' = d /\ mp' = remove_included(mp, inc) /\ up
        /\ owed' = {t \in owed : slot(t) \notin inc}
        /\ UNCHANGED <<set, rpc, wal, snap, up, crashes>>
    BY <1>1 DEF Commit
  <1>4. ChannelsOK(d) /\ Grows(chain, d)
    BY <1>1, <1>2, ChannelsBlock
  <1>5. PoolOK(remove_included(mp, inc))
        /\ ToSet(remove_included(mp, inc).q) = {t \in ToSet(mp.q) : slot(t) \notin inc}
    BY <1>2, PruneKeeps
  <1>6. PICK n : n = remove_included(mp, inc)
    OBVIOUS
  <1>7. ToSet(mp.q) \subseteq Txs /\ ToSet(snap) \subseteq Txs
    BY Members DEF MempoolInv, PoolOK, IsQueue, SnapOK
  <1>8. \A t \in Txs : Fits(chain, t) => Fits(d, t)
    BY <1>2, <1>4, FitsGrows
  <1>9. FitOK'
    <2>1. ChannelsOK(chain)' /\ (owed \subseteq Txs)'
      BY <1>2, <1>3, <1>4 DEF ChannelsOK
    <2>2. AllFit(owed', d)
      BY <1>2, <1>3, <1>8 DEF FitOK, AllFit
    <2>3. AllFit(ToSet(snap), d)
      BY <1>2, <1>7, <1>8 DEF FitOK, AllFit
    <2>4. AllFit(ToSet(n.q), d)
      BY <1>2, <1>5, <1>6, <1>7, <1>8 DEF FitOK, AllFit
    <2>5. QED
      BY <1>3, <1>6, <2>1, <2>2, <2>3, <2>4 DEF FitOK
  <1>10. LogOK'
    BY <1>2, <1>3 DEF LogOK, Logged, store
  <1>11. OwedOK'
    <2>1. n.ids = ToSet(n.q) /\ mp.ids = ToSet(mp.q)
      BY <1>2, <1>5, <1>6 DEF PoolOK, Mirrors
    <2>2. owed \subseteq ToSet(mp.q)
      BY <1>2, <1>3, <2>1 DEF OwedOK
    <2>3. owed' \subseteq n.ids
      BY <1>3, <1>5, <1>6, <2>1, <2>2
    <2>4. QED
      BY <1>3, <1>6, <2>3 DEF OwedOK, store
  <1>12. QED
    BY <1>9, <1>10, <1>11 DEF AcceptedInv

\* A step that leaves the chain, the pool and the debts alone.
LEMMA OthersAccepted ==
  ASSUME AcceptedInv, UNCHANGED <<set, chain, mp, up, owed>>, AllFit(ToSet(snap'), chain), LogOK'
  PROVE  AcceptedInv'
  <1>1. FitOK'
    BY DEF AcceptedInv, FitOK
  <1>2. OwedOK'
    BY DEF AcceptedInv, OwedOK, store
  <1>3. QED
    BY <1>1, <1>2 DEF AcceptedInv

\* save_snapshot.
LEMMA SaveSnapshotAccepted ==
  ASSUME AcceptedInv, SaveSnapshot
  PROVE  AcceptedInv'
  <1>1. /\ snap' = mp.q /\ UNCHANGED <<set, chain, mp, rpc, wal, up, crashes, owed>>
        /\ FitOK /\ LogOK
    BY DEF AcceptedInv, SaveSnapshot
  <1>2. AllFit(ToSet(snap'), chain)
    BY <1>1 DEF FitOK
  <1>3. LogOK'
    BY <1>1 DEF LogOK, Logged, store
  <1>4. QED
    BY <1>1, <1>2, <1>3, OthersAccepted

\* wal_reset: what is owed is pending, and what is pending is in the new WAL.
LEMMA WalResetAccepted ==
  ASSUME MempoolInv, AcceptedInv, WalReset
  PROVE  AcceptedInv'
  <1>1. PICK late \in SUBSET MayBeOrphaned : rpc' = appended(late)
    BY DEF WalReset
  <1>2. /\ wal' = Frames(mp.q) /\ up /\ UNCHANGED <<set, chain, mp, snap, up, owed>>
        /\ FitOK /\ LogOK /\ OwedOK /\ mp.q \in Seq(Txs) /\ mp.ids = ToSet(mp.q) /\ WorkersOK
    BY DEF WalReset, AcceptedInv, MempoolInv, PoolOK, IsQueue, Mirrors
  <1>3. \A t \in mp.ids : Logged(t)'
    BY <1>2, FramesLog DEF Logged
  <1>4. \A t \in owed' : Logged(t)'
    BY <1>2, <1>3 DEF OwedOK
  <1>5. ASSUME NEW w \in Workers, rpc'[w].pc = "answer" PROVE rpc'[w].tx \in mp.ids
    <2> DEFINE over == late \cup Orphaned \cup {v \in Workers : rpc[v].pc = "answer"}
    <2>1. rpc'[w] = IF w \in over
                    THEN [rpc[w] EXCEPT !.pc = IF rpc[w].tx \in mp.ids THEN "answer" ELSE "failed"]
                    ELSE rpc[w]
      BY <1>1 DEF appended
    <2>2. w \in over
      BY <1>5, <2>1
    <2>3. rpc[w].pc \in {"len", "body", "answer"}
      BY <1>1, <2>2 DEF Orphaned, MayBeOrphaned
    <2>4. Working(rpc[w])
      BY <1>2, <2>3 DEF WorkersOK, Idle
    <2>5. CASE rpc[w].tx \in mp.ids
      <3>1. rpc'[w].tx = rpc[w].tx
        BY <2>1, <2>2, <2>4, <2>5 DEF Working
      <3>2. QED
        BY <2>5, <3>1
    <2>6. CASE rpc[w].tx \notin mp.ids
      <3>1. rpc'[w].pc = "failed"
        BY <2>1, <2>2, <2>4, <2>6 DEF Working
      <3>2. QED
        BY <1>5, <3>1
    <2>7. QED
      BY <2>5, <2>6
  <1>6. LogOK'
    BY <1>3, <1>4, <1>5 DEF LogOK
  <1>7. AllFit(ToSet(snap'), chain)
    BY <1>2 DEF FitOK
  <1>8. QED
    BY <1>2, <1>6, <1>7, OthersAccepted

\* The door: what it lets in fits.
LEMMA SubmitAccepted ==
  ASSUME MempoolInv, AcceptedInv, NEW w \in Workers, NEW t \in set.txs, Submit(w, t)
  PROVE  AcceptedInv'
  <1>1. /\ try_admit(mp, chain, t) /\ mp' = index(mp, t) /\ up
        /\ rpc' = [rpc EXCEPT ![w] = [pc |-> IF store THEN "len" ELSE "answer", tx |-> t]]
        /\ UNCHANGED <<set, chain, wal, snap, replay, app, up, crashes, owed>>
        /\ FitOK /\ LogOK /\ OwedOK /\ WorkersOK /\ mp.q \in Seq(Txs) /\ set \in Settings
    BY DEF Submit, AcceptedInv, MempoolInv, PoolOK, IsQueue, RestOK
  <1>2. t \in Txs
    BY <1>1 DEF Txs
  <1>3. Fits(chain, t)
    BY <1>1, <1>2, DoorFits DEF FitOK
  <1>4. mp'.q = Append(mp.q, t) /\ mp'.ids = mp.ids \cup {t}
    BY <1>1 DEF index
  <1>5. ToSet(mp'.q) = ToSet(mp.q) \cup {t}
    BY <1>1, <1>2, <1>4, ToSetAppend
  <1>6. AllFit(ToSet(mp'.q), chain)
    BY <1>1, <1>3, <1>5 DEF FitOK, AllFit
  <1>7. FitOK'
    BY <1>1, <1>6 DEF FitOK
  <1>8. LogOK'
    <2>1. ASSUME store PROVE \A v \in Workers : rpc'[v].pc = "answer" => rpc'[v] = rpc[v]
      BY <1>1, <2>1 DEF WorkersOK
    <2>2. (store' = store) /\ \A u : Logged(u)' <=> Logged(u)
      BY <1>1 DEF store, Logged
    <2>3. QED
      BY <1>1, <2>1, <2>2 DEF LogOK
  <1>9. OwedOK'
    BY <1>1, <1>4 DEF OwedOK, store
  <1>10. QED
    BY <1>7, <1>8, <1>9 DEF AcceptedInv

\* A frame stays in a WAL that grows.
LEMMA LoggedStays ==
  ASSUME wal \in Seq(Writes), NEW x \in Writes, wal' = Append(wal, x)
  PROVE  /\ \A t : Logged(t) => Logged(t)'
         /\ \A t : x = [part |-> "body", tx |-> t] => Logged(t)'
  <1>1. Len(wal) \in Nat /\ Len(wal') = Len(wal) + 1 /\ wal'[Len(wal) + 1] = x
        /\ \A i \in 1..Len(wal) : wal'[i] = wal[i]
    OBVIOUS
  <1>2. ASSUME NEW t, Logged(t) PROVE Logged(t)'
    BY <1>1, <1>2 DEF Logged
  <1>3. ASSUME NEW t, x = [part |-> "body", tx |-> t] PROVE Logged(t)'
    BY <1>1, <1>3 DEF Logged
  <1>4. QED
    BY <1>2, <1>3

\* The worker's other steps: the frame is in the WAL before the answer.
LEMMA WorkerAccepted ==
  ASSUME MempoolInv, AcceptedInv, NEW w \in Workers,
         WriteLen(w) \/ WriteBody(w) \/ AppendFails(w) \/ Answer(w)
  PROVE  AcceptedInv'
  <1>1. FitOK /\ LogOK /\ OwedOK /\ WorkersOK /\ wal \in Seq(Writes) /\ AllFit(ToSet(snap), chain)
        /\ AllFit(ToSet(mp.q), chain) /\ mp.ids = ToSet(mp.q) /\ ToSet(mp.q) \subseteq Txs
    BY Members DEF AcceptedInv, MempoolInv, RestOK, FitOK, PoolOK, Mirrors, IsQueue
  <1>2. rpc[w].pc \in {"len", "body", "answer", "failed"}
    BY DEF WriteLen, WriteBody, AppendFails, Answer
  <1>3. Working(rpc[w])
    BY <1>1, <1>2 DEF WorkersOK, Idle
  <1>4. CASE WriteLen(w)
    <2>1. /\ wal' = Append(wal, [part |-> "len", tx |-> rpc[w].tx])
          /\ rpc' = [rpc EXCEPT ![w].pc = "body"]
          /\ UNCHANGED <<set, chain, mp, snap, replay, app, up, crashes, owed>>
      BY <1>4 DEF WriteLen
    <2>2. [part |-> "len", tx |-> rpc[w].tx] \in Writes
      BY <1>3 DEF Working, Writes
    <2>3. \A t : Logged(t) => Logged(t)'
      BY <1>1, <2>1, <2>2, LoggedStays
    <2>4. \A v \in Workers : rpc'[v].pc = "answer" => rpc'[v] = rpc[v]
      BY <1>1, <1>3, <2>1 DEF WorkersOK, Working
    <2>5. LogOK'
      BY <1>1, <2>1, <2>3, <2>4 DEF LogOK, store
    <2>6. QED
      BY <1>1, <2>1, <2>5, OthersAccepted
  <1>5. CASE WriteBody(w)
    <2>1. /\ wal' = Append(wal, [part |-> "body", tx |-> rpc[w].tx])
          /\ rpc' = [rpc EXCEPT ![w].pc = "answer"]
          /\ UNCHANGED <<set, chain, mp, snap, replay, app, up, crashes, owed>>
      BY <1>5 DEF WriteBody
    <2>2. [part |-> "body", tx |-> rpc[w].tx] \in Writes
      BY <1>3 DEF Working, Writes
    <2>3. (\A t : Logged(t) => Logged(t)') /\ (\A t : t = rpc[w].tx => Logged(t)')
      BY <1>1, <2>1, <2>2, LoggedStays
    <2>4. \A v \in Workers : v # w => rpc'[v] = rpc[v]
      BY <1>1, <2>1 DEF WorkersOK
    <2>5. rpc'[w].tx = rpc[w].tx
      BY <1>1, <1>3, <2>1 DEF WorkersOK, Working
    <2>6. LogOK'
      BY <1>1, <2>1, <2>3, <2>4, <2>5 DEF LogOK, store
    <2>7. QED
      BY <1>1, <2>1, <2>6, OthersAccepted
  <1>6. CASE AppendFails(w)
    <2>1. /\ rpc' = [rpc EXCEPT ![w].pc = "failed"]
          /\ UNCHANGED <<set, chain, mp, wal, snap, replay, app, up, crashes, owed>>
      BY <1>6 DEF AppendFails
    <2>2. \A v \in Workers : rpc'[v].pc = "answer" => rpc'[v] = rpc[v]
      BY <1>1, <1>3, <2>1 DEF WorkersOK, Working
    <2>3. LogOK'
      BY <1>1, <2>1, <2>2 DEF LogOK, Logged, store
    <2>4. QED
      BY <1>1, <2>1, <2>3, OthersAccepted
  <1>7. CASE Answer(w)
    <2>1. /\ rpc' = [rpc EXCEPT ![w] = Idle] /\ up
          /\ UNCHANGED <<set, chain, mp, wal, snap, replay, app, up, crashes>>
          /\ \/ owed' = owed
             \/ rpc[w].pc = "answer" /\ owed' = owed \cup ({rpc[w].tx} \cap mp.ids)
      BY <1>7 DEF Answer
    <2>2. \A t \in owed' : t \in owed \/ (t = rpc[w].tx /\ t \in mp.ids /\ rpc[w].pc = "answer")
      BY <2>1
    <2>3. owed' \subseteq Txs /\ AllFit(owed', chain)
      BY <1>1, <2>2 DEF FitOK, AllFit
    <2>4. FitOK'
      BY <1>1, <2>1, <2>3 DEF FitOK
    <2>5. \A v \in Workers : rpc'[v].pc = "answer" => rpc'[v] = rpc[v]
      BY <1>1, <2>1 DEF WorkersOK, Idle
    <2>6. LogOK'
      BY <1>1, <2>1, <2>2, <2>5 DEF LogOK, Logged, store
    <2>7. OwedOK'
      BY <1>1, <2>1, <2>2 DEF OwedOK, store
    <2>8. QED
      BY <2>4, <2>6, <2>7 DEF AcceptedInv
  <1>8. QED
    BY <1>4, <1>5, <1>6, <1>7

\* The process dies: the debts stay, and so does the WAL.
LEMMA CrashAccepted ==
  ASSUME AcceptedInv, Crash
  PROVE  AcceptedInv'
  <1>1. /\ store /\ up' = FALSE /\ mp' = EmptyPool /\ rpc' = [w \in Workers |-> Idle]
        /\ UNCHANGED <<set, chain, wal, snap, replay, owed>> /\ FitOK /\ LogOK
    BY DEF AcceptedInv, Crash
  <1>2. ToSet(EmptyPool.q) = {}
    BY EmptyOK
  <1>3. FitOK'
    BY <1>1, <1>2 DEF FitOK, AllFit
  <1>4. \A w \in Workers : rpc'[w].pc # "answer"
    BY <1>1 DEF Idle
  <1>5. LogOK'
    BY <1>1, <1>4 DEF LogOK, Logged, store
  <1>6. OwedOK'
    BY <1>1 DEF OwedOK, store
  <1>7. QED
    BY <1>3, <1>5, <1>6 DEF AcceptedInv

\* restore_from_store, as the replay of the WAL over the restored snapshot.
LEMMA RestartShape ==
  ASSUME MempoolInv, AcceptedInv, Restart
  PROVE  \E m : /\ PoolOK(m) /\ Ahead(ToSet(m.q), chain) /\ AllFit(ToSet(m.q), chain)
                /\ mp' = ReplayLoop(m, chain, wal_load)
  <1>1. ChainOK(chain) /\ SnapOK /\ AllFit(ToSet(snap), chain)
    BY DEF MempoolInv, AcceptedInv, FitOK
  <1> DEFINE s == RestoreLoop(EmptyPool, snap)
             m == remove_included(s, replay)
  <1>2. mp' = ReplayLoop(m, chain, wal_load)
    BY DEF Restart, restored, RestoreLoop, ReplayLoop, FoldLeft, MapThenFoldSet
  <1>3. PoolOK(s) /\ ToSet(s.q) = ToSet(snap)
    BY <1>1, RestoreKeeps DEF SnapOK
  <1> HIDE DEF s
  <1>4. PoolOK(m) /\ ToSet(m.q) = {t \in ToSet(s.q) : slot(t) \notin replay}
    BY <1>3, PruneKeeps
  <1> HIDE DEF m
  <1>5. Ahead(ToSet(m.q), chain)
    BY <1>1, <1>3, <1>4 DEF SnapOK, Ahead
  <1>6. AllFit(ToSet(m.q), chain)
    BY <1>1, <1>3, <1>4 DEF AllFit
  <1>7. QED
    BY <1>2, <1>4, <1>5, <1>6

\* The restart.
LEMMA RestartAccepted ==
  ASSUME MempoolInv, AcceptedInv, Restart
  PROVE  AcceptedInv'
  <1>1. PICK m : /\ PoolOK(m) /\ Ahead(ToSet(m.q), chain) /\ AllFit(ToSet(m.q), chain)
                 /\ mp' = ReplayLoop(m, chain, wal_load)
    BY RestartShape
  <1>2. /\ up' /\ owed' = owed \cap mp'.ids /\ UNCHANGED <<set, chain, rpc, wal, snap, replay, app, crashes>>
        /\ FitOK /\ LogOK /\ ChainOK(chain) /\ wal_load \in Seq(Txs)
    BY WalLoadTyped DEF Restart, AcceptedInv, MempoolInv, RestOK
  <1>3. AllFit(ToSet(mp'.q), chain)
    BY <1>1, <1>2, ReplayFits DEF AllFit, FitOK
  <1>4. FitOK'
    <2>1. ChannelsOK(chain)' /\ AllFit(ToSet(snap), chain)'
      BY <1>2 DEF FitOK, ChannelsOK
    <2>2. owed' \subseteq Txs /\ AllFit(owed', chain)
      BY <1>2 DEF FitOK, AllFit
    <2>3. QED
      BY <1>2, <1>3, <2>1, <2>2 DEF FitOK
  <1>5. LogOK'
    BY <1>2 DEF LogOK, Logged, store
  <1>6. OwedOK'
    BY <1>2 DEF OwedOK
  <1>7. QED
    BY <1>4, <1>5, <1>6 DEF AcceptedInv

\* Nothing is owed at the start.
LEMMA AcceptedInit == Init => AcceptedInv
  <1>1. SUFFICES ASSUME Init PROVE AcceptedInv
    OBVIOUS
  <1>2. chain.channels = [c \in {} |-> 0] /\ owed = {} /\ up /\ ToSet(mp.q) = {} /\ snap = <<>>
    BY <1>1, EmptyOK DEF Init
  <1>3. ToSet(snap) = {} /\ \A w \in Workers : rpc[w].pc # "answer"
    BY <1>1, <1>2 DEF ToSet, Init, Idle
  <1>4. QED
    BY <1>2, <1>3 DEF AcceptedInv, FitOK, LogOK, OwedOK, AllFit, ChannelsOK

\* Every step keeps what accepted transactions need.
LEMMA AcceptedNext == MempoolInv /\ AcceptedInv /\ [Next]_vars => AcceptedInv'
  <1>1. SUFFICES ASSUME MempoolInv, AcceptedInv, [Next]_vars PROVE AcceptedInv'
    OBVIOUS
  <1>2. set \in Settings /\ mp.q \in Seq(Txs)
    BY <1>1 DEF MempoolInv, RestOK, PoolOK, IsQueue
  <1>3. CASE OwnBlock
    <2>1. select_batch_txs(chain, mp.q) \in Seq(Txs)
      BY <1>2, PickKeeps
    <2>2. PICK block, refused, kept : /\ block = select_batch_txs(chain, mp.q)
                                      /\ Commit(block, refused, kept)
      BY <1>3 DEF OwnBlock
    <2>3. QED
      BY <1>1, <2>1, <2>2, CommitAccepted
  <1>4. CASE ForeignBlock
    <2>1. PICK block \in Seq(Txs) : \E refused, kept : Commit(block, refused, kept)
      BY <1>2, <1>4, ForeignTyped
    <2>2. QED
      BY <1>1, <2>1, CommitAccepted
  <1>5. CASE UNCHANGED vars
    <2>1. LogOK' /\ AllFit(ToSet(snap'), chain) /\ UNCHANGED <<set, chain, mp, up, owed>>
      BY <1>1, <1>5 DEF vars, AcceptedInv, FitOK, LogOK, Logged, store
    <2>2. QED
      BY <1>1, <2>1, OthersAccepted
  <1>6. QED
    BY <1>1, <1>3, <1>4, <1>5, SaveSnapshotAccepted, WalResetAccepted, SubmitAccepted,
       WorkerAccepted, CrashAccepted, RestartAccepted DEF Next

\* What accepted transactions need holds in every reachable state.
THEOREM MempoolAccepted == Spec => []AcceptedInv
  <1>1. Init /\ [][Next]_vars /\ []MempoolInv => []AcceptedInv
    BY AcceptedInit, AcceptedNext, PTL
  <1>2. QED
    BY <1>1, MempoolInvariant, PTL DEF Spec

\* An accepted transaction that could apply next has its slot again after every
\* restart from a WAL that reads back whole, however many crashes, blocks,
\* snapshots and WAL resets came in between; unless an older spend took its
\* nullifier or the pool is full.
THEOREM MempoolAcceptedHoldsSlot == Spec => AcceptedHoldsSlot
  <1>1. ASSUME MempoolInv, AcceptedInv, [Next]_vars, up', ~up, 2 * Len(wal_load) = Len(wal),
               NEW t \in NextInLine
        PROVE  Held(mp', t)
    <2>1. Restart
      BY <1>1 DEF Next, vars, OwnBlock, ForeignBlock, Commit, SaveSnapshot, WalReset, Submit,
                  WriteLen, WriteBody, AppendFails, Answer, Crash
    <2>2. PICK m : /\ PoolOK(m) /\ Ahead(ToSet(m.q), chain) /\ AllFit(ToSet(m.q), chain)
                   /\ mp' = ReplayLoop(m, chain, wal_load)
      BY <1>1, <2>1, RestartShape
    <2>3. /\ t \in owed /\ t.nonce = chain.nonce[t.sender] /\ t.key = chain.auth[t.sender]
          /\ dispatch_ok(chain, t)
      BY <1>1 DEF NextInLine
    <2>4. t \in Txs /\ Fits(chain, t) /\ Logged(t)
      BY <1>1, <2>3 DEF AcceptedInv, FitOK, AllFit, OwedOK, LogOK
    <2>5. wal \in Seq(Writes) /\ wal_load \in Seq(Txs) /\ ChainOK(chain)
      BY <1>1, WalLoadTyped DEF MempoolInv, RestOK
    <2>6. PICK j \in 1..Len(wal_load) : t = wal_load[j]
      BY <1>1, <2>4, <2>5, WalReadsBack
    <2>7. QED
      BY <2>2, <2>3, <2>4, <2>5, <2>6, ReplayHolds
  <1>2. MempoolInv /\ AcceptedInv /\ [Next]_vars
          => [up' /\ ~up /\ 2 * Len(wal_load) = Len(wal) =>
                \A t \in NextInLine : \/ slot(t) \in DOMAIN mp'.keys
                                      \/ nullifiers_of(t) \cap mp'.nullifiers # {}
                                      \/ Len(mp'.q) = cap]_vars
    BY <1>1 DEF Held
  <1>3. QED
    BY <1>2, MempoolInvariant, MempoolAccepted, PTL DEF Spec, AcceptedHoldsSlot

-----------------------------------------------------------------------------
(* The faucet                                                              *)

F == INSTANCE Faucet

Stages == {"idle", "parse", "floor", "sign", "submit", "poll"}
Kinds == {"Transfer", "AccountCreate"}
Asked == [ip : Ips, asset : Assets, name : F!Names, at : Nat]
Drafts == [kind : Kinds, asset : Assets]
Signed == [nonce : Nat, kind : Kinds, asset : Assets]
Waiting == [tx : Signed, key : CoolKeys, at : Nat]
Served == [key : CoolKeys, at : Nat, nonce : Nat]

\* Handlers whose transaction the ratchet has moved for.
Busy == {t \in Threads : pc[t] \in {"submit", "poll"}}

\* Handlers that have yet to learn that their drip was refused.
Unseen == {t \in Threads : pc[t] = "poll" /\ FALSE \in receipt(tx[t]) /\ mine(t) = {}}

\* Transactions whose last receipt is an acceptance, or a refusal.
Good == {r.tx : r \in {q \in receipts : q.ok = TRUE}}
Bad == {r.tx : r \in {q \in receipts : q.ok = FALSE}}

\* Transaction n is, or was, a drip to the caller and of the asset of k, made
\* with the stamp a.
Drip(k, a, n) ==
  \/ \E p \in pending : p.key = k /\ p.at = a /\ p.tx.nonce = n
  \/ \E d \in served : d.key = k /\ d.at = a /\ d.nonce = n

FaucetTyped ==
  /\ now \in Nat /\ nonce \in Nat /\ balance \in Nat /\ float \in Nat
  /\ slips \in Nat /\ next_nonce \in Nat
  /\ daily[1] \in Nat /\ daily[2] \in 0..DailyCap
  /\ pc \in [Threads -> Stages] /\ DOMAIN req = Threads /\ DOMAIN tx = Threads
  /\ \A p \in pending : p \in Waiting /\ p.at <= now
  /\ \A r \in receipts : r.ok \in BOOLEAN /\ r.tx \in Signed
  /\ \A d \in served : d \in Served /\ d.at <= now
  /\ IsFiniteSet(pending)

\* The stamps: memory and file agree but on what is unsaved, and on a stamp that
\* a restart forgot because it was old.
StampInv ==
  /\ DOMAIN last_drip = CoolKeys /\ DOMAIN saved = CoolKeys
  /\ \A k \in CoolKeys : last_drip[k] \in {None} \cup 0..now /\ saved[k] \in {None} \cup 0..now
  /\ \A k \in CoolKeys : \/ k \in unsaved \/ last_drip[k] = saved[k]
                         \/ last_drip[k] = None /\ now - saved[k] >= Day

\* The stamps are saved, or that fails after a change of k's.
Saves(k) ==
  \/ saved' = last_drip' /\ unsaved' = {}
  \/ saved' = saved /\ unsaved' = unsaved \cup {k}

\* A handler under way holds the stamp of its caller, so no two have one caller.
FlightInv ==
  /\ \A t \in Threads : pc[t] # "idle" =>
        /\ req[t] \in Asked /\ req[t].at <= now /\ now - req[t].at <= 1
        /\ last_drip[key(req[t])] = req[t].at
  /\ \A t, u \in Threads :
        pc[t] # "idle" /\ pc[u] # "idle" /\ key(req[t]) = key(req[u]) => t = u

\* What it carries, and who holds the lock.
LockInv ==
  /\ \A t \in Threads : pc[t] \in {"floor", "sign"} => tx[t] \in Drafts
  /\ \A t \in Threads : pc[t] \in {"submit", "poll"} => tx[t] \in Signed
  /\ lock \subseteq Threads
  /\ \A t \in Threads : t \in lock <=> pc[t] = "submit"
  /\ \A t, u \in lock : t = u
  /\ \A t \in lock : tx[t].nonce = next_nonce - 1
  /\ next_nonce >= Cardinality(Busy)

\* The node: one pending transaction per nonce, none that the chain has passed;
\* what left the pool has a receipt.
DoorInv ==
  /\ \A p, q \in pending : p.tx.nonce = q.tx.nonce => p = q
  /\ \A p \in pending : p.tx.nonce >= nonce
  /\ \A x \in Good : x.nonce < nonce /\ x \notin Bad
  /\ \A d \in served : d.nonce < nonce
  /\ \A t \in Threads : pc[t] = "poll" /\ mine(t) = {} => tx[t] \in Good \cup Bad

\* The ratchet; what was refused was before all that is pending.
RatchetInv ==
  slips = 0 =>
    /\ next_nonce = nonce + Cardinality(pending) + Cardinality(lock) + Cardinality(Unseen)
    /\ \A t \in Unseen, p \in pending : tx[t].nonce < p.tx.nonce

\* A drip in its cooldown keeps its stamp, and a handler that may take the stamp
\* back has no drip yet, unless it waits for the receipt of that very drip.
DripInv ==
  /\ \A k \in CoolKeys, a \in Nat, n \in Nat :
        Drip(k, a, n) /\ k \notin lost => now - a >= Day \/ last_drip[k] = a
  /\ \A t \in Threads, k \in CoolKeys, a \in Nat, n \in Nat :
        pc[t] # "idle" /\ k = key(req[t]) /\ k \notin lost /\ Drip(k, a, n) /\ a # req[t].at
           => req[t].at - a >= Day
  /\ \A t \in Threads, k \in CoolKeys, a \in Nat, n \in Nat :
        pc[t] # "idle" /\ k = key(req[t]) /\ k \notin lost /\ Drip(k, a, n) /\ a = req[t].at
           => pc[t] = "poll" /\ n = tx[t].nonce /\ (mine(t) # {} \/ tx[t] \in Good)
  /\ \A k \in CoolKeys, a \in Nat, b \in Nat, n \in Nat, m \in Nat :
        Drip(k, a, n) /\ Drip(k, b, m) /\ n # m /\ k \notin lost => a - b >= Day \/ b - a >= Day

FaucetInv ==
  FaucetTyped /\ StampInv /\ FlightInv /\ LockInv /\ DoorInv /\ RatchetInv /\ DripInv

\* A caller has a cooldown key.
LEMMA KeyOf == ASSUME NEW r \in Asked PROVE key(r) \in CoolKeys
  BY DEF Asked, key, CoolKeys

\* Receipts by their verdict.
LEMMA BadReceipt == \A x : FALSE \in receipt(x) <=> x \in Bad
  BY DEF receipt, Bad

LEMMA FaucetInit == F!Init => FaucetInv
  <1> SUFFICES ASSUME F!Init PROVE FaucetInv
    OBVIOUS
  <1>1. /\ now = 0 /\ balance = Balance /\ float = Float /\ nonce = 0 /\ pending = {} /\ receipts = {}
        /\ next_nonce = 0 /\ lock = {} /\ slips = 0 /\ served = {} /\ daily = <<0, 0>>
        /\ last_drip = [k \in CoolKeys |-> None] /\ saved = last_drip /\ unsaved = {}
        /\ pc = [t \in Threads |-> "idle"]
        /\ req = [t \in Threads |-> <<>>] /\ tx = [t \in Threads |-> <<>>]
    BY DEF F!Init, F!CoolKeys, CoolKeys, F!None, None, F!Assets, Assets
  <1>2. FaucetTyped
    BY <1>1, FaucetAssumption, FS_EmptySet DEF FaucetTyped, Stages
  <1>3. StampInv
    BY <1>1 DEF StampInv, None
  <1>4. FlightInv
    BY <1>1 DEF FlightInv
  <1>5. Busy = {} /\ Unseen = {}
    BY <1>1 DEF Busy, Unseen
  <1>6. LockInv
    BY <1>1, <1>5, FS_EmptySet DEF LockInv
  <1>7. Good = {}
    BY <1>1 DEF Good
  <1>8. DoorInv
    BY <1>1, <1>7 DEF DoorInv
  <1>9. RatchetInv
    BY <1>1, <1>5, FS_EmptySet DEF RatchetInv
  <1>10. DripInv
    BY <1>1 DEF DripInv, Drip
  <1>11. QED
    BY <1>2, <1>3, <1>4, <1>6, <1>8, <1>9, <1>10 DEF FaucetInv

\* What is read off the node's state stays while that does.
LEMMA SameNode ==
  ASSUME UNCHANGED <<pending, receipts, served>>
  PROVE  /\ Good' = Good /\ Bad' = Bad
         /\ \A k, a, n : Drip(k, a, n)' <=> Drip(k, a, n)
  <1>1. pending' = pending /\ receipts' = receipts /\ served' = served
    OBVIOUS
  <1>2. Good' = Good /\ Bad' = Bad
    BY <1>1 DEF Good, Bad
  <1>3. ASSUME NEW k, NEW a, NEW n PROVE Drip(k, a, n)' <=> Drip(k, a, n)
    BY <1>1 DEF Drip
  <1>4. QED
    BY <1>2, <1>3

\* So do the transactions of a handler that another one's step leaves alone.
LEMMA SameMine ==
  ASSUME NEW u, UNCHANGED pending, tx'[u] = tx[u], req'[u] = req[u]
  PROVE  mine(u)' = mine(u)
  BY DEF mine

\* A step of handler t that stays short of the signature.
Local(t, l) ==
  /\ pc[t] \notin {"submit", "poll"} /\ l \in {"idle", "parse", "floor", "sign"}
  /\ pc' = [pc EXCEPT ![t] = l]
  /\ DOMAIN req' = Threads /\ DOMAIN tx' = Threads
  /\ \A u \in Threads : u # t => req'[u] = req[u] /\ tx'[u] = tx[u]
  /\ l \in {"floor", "sign"} => tx'[t] \in Drafts
  /\ daily'[1] \in Nat /\ daily'[2] \in 0..DailyCap
  /\ UNCHANGED <<now, nonce, balance, float, pending, receipts, served, next_nonce, lock, lost, slips>>

\* It changes nothing for the node, the ratchet and the lock.
LEMMA LocalStep ==
  ASSUME FaucetInv, NEW t \in Threads, NEW l, Local(t, l)
  PROVE  /\ FaucetTyped' /\ LockInv' /\ DoorInv' /\ RatchetInv'
         /\ \A u \in Threads : u # t => mine(u)' = mine(u)
         /\ \A u \in Threads : u # t => pc'[u] = pc[u]
         /\ pc'[t] = l
  <1>1. /\ pc[t] \notin {"submit", "poll"} /\ l \in {"idle", "parse", "floor", "sign"}
        /\ pc' = [pc EXCEPT ![t] = l] /\ DOMAIN req' = Threads /\ DOMAIN tx' = Threads
        /\ \A u \in Threads : u # t => req'[u] = req[u] /\ tx'[u] = tx[u]
        /\ l \in {"floor", "sign"} => tx'[t] \in Drafts
        /\ daily'[1] \in Nat /\ daily'[2] \in 0..DailyCap
        /\ now' = now /\ nonce' = nonce /\ balance' = balance /\ float' = float /\ pending' = pending
        /\ receipts' = receipts /\ served' = served /\ next_nonce' = next_nonce /\ lock' = lock
        /\ lost' = lost /\ slips' = slips
    BY DEF Local
  <1>2. FaucetTyped /\ LockInv /\ DoorInv /\ RatchetInv
    BY DEF FaucetInv
  <1>3. pc' \in [Threads -> Stages] /\ pc'[t] = l /\ \A u \in Threads : u # t => pc'[u] = pc[u]
    BY <1>1, <1>2 DEF FaucetTyped, Stages
  <1>4. FaucetTyped'
    BY <1>1, <1>2, <1>3 DEF FaucetTyped
  <1>5. /\ Good' = Good /\ Bad' = Bad
    BY <1>1, SameNode
  <1>6. \A u \in Threads : u # t => mine(u)' = mine(u)
    BY <1>1, SameMine
  <1>7. Busy' = Busy
    BY <1>1, <1>3 DEF Busy
  <1>8. Unseen' = Unseen
    <2>1. \A x : (FALSE \in receipt(x)) <=> x \in Bad
      BY BadReceipt
    <2>2. \A x : (FALSE \in receipt(x))' <=> x \in Bad'
      BY <1>1 DEF receipt, Bad
    <2>3. \A u \in Threads : u # t => (FALSE \in receipt(tx[u]))' = (FALSE \in receipt(tx[u]))
      BY <1>1 DEF receipt
    <2>4. QED
      BY <1>1, <1>3, <1>6, <2>3 DEF Unseen
  <1>9. LockInv'
    <2>1. \A u \in Threads : pc'[u] \in {"floor", "sign"} => tx'[u] \in Drafts
      BY <1>1, <1>2, <1>3 DEF LockInv
    <2>2. \A u \in Threads : pc'[u] \in {"submit", "poll"} => tx'[u] \in Signed
      BY <1>1, <1>2, <1>3 DEF LockInv
    <2>3. \A u \in Threads : u \in lock <=> pc'[u] = "submit"
      BY <1>1, <1>2, <1>3 DEF LockInv
    <2>4. \A u \in lock : tx'[u].nonce = next_nonce - 1
      BY <1>1, <1>2 DEF LockInv
    <2>5. QED
      BY <1>1, <1>2, <1>7, <2>1, <2>2, <2>3, <2>4 DEF LockInv
  <1>10. DoorInv'
    <2>1. \A u \in Threads : pc'[u] = "poll" /\ mine(u)' = {} => tx'[u] \in Good \cup Bad
      BY <1>1, <1>2, <1>3, <1>6 DEF DoorInv
    <2>2. QED
      BY <1>1, <1>2, <1>5, <2>1 DEF DoorInv
  <1>11. RatchetInv'
    <2>1. \A u \in Unseen : tx'[u] = tx[u]
      BY <1>1 DEF Unseen
    <2>2. QED
      BY <1>1, <1>2, <1>8, <2>1 DEF RatchetInv
  <1>12. QED
    BY <1>3, <1>4, <1>6, <1>9, <1>10, <1>11

\* Handler t gives up and takes its stamp back; the pool may have gained what
\* counts as lost, and nobody's transaction has left it.
TakesBack(t) ==
  /\ pc[t] # "idle" /\ pc' = [pc EXCEPT ![t] = "idle"]
  /\ last_drip' = [last_drip EXCEPT ![key(req[t])] = None] /\ Saves(key(req[t]))
  /\ \A u \in Threads : u # t => req'[u] = req[u] /\ tx'[u] = tx[u]
  /\ now' = now /\ Good' = Good
  /\ \A k \in lost : k \in lost'
  /\ \A k, a, n : Drip(k, a, n)' /\ k \notin lost' => Drip(k, a, n)
  /\ \A u \in Threads : u # t /\ mine(u) # {} => mine(u)' # {}

\* It may, if none of its caller's drips has that stamp.
LEMMA TakeBack ==
  ASSUME FaucetInv, NEW t \in Threads, TakesBack(t),
         \A n \in Nat : key(req[t]) \notin lost' => ~Drip(key(req[t]), req[t].at, n)
  PROVE  StampInv' /\ FlightInv' /\ DripInv'
  <1>1. /\ pc[t] # "idle" /\ pc' = [pc EXCEPT ![t] = "idle"]
        /\ last_drip' = [last_drip EXCEPT ![key(req[t])] = None] /\ Saves(key(req[t]))
        /\ \A u \in Threads : u # t => req'[u] = req[u] /\ tx'[u] = tx[u]
        /\ now' = now /\ Good' = Good
        /\ \A k \in lost : k \in lost'
        /\ \A k, a, n : Drip(k, a, n)' /\ k \notin lost' => Drip(k, a, n)
        /\ \A u \in Threads : u # t /\ mine(u) # {} => mine(u)' # {}
    BY DEF TakesBack
  <1>2. FaucetTyped /\ StampInv /\ FlightInv /\ DripInv
    BY DEF FaucetInv
  <1>3. PICK k0 \in CoolKeys : k0 = key(req[t])
    BY <1>1, <1>2, KeyOf DEF FlightInv
  <1>4. /\ DOMAIN last_drip' = CoolKeys /\ last_drip'[k0] = None
        /\ \A k \in CoolKeys : k # k0 => last_drip'[k] = last_drip[k]
    BY <1>1, <1>2, <1>3 DEF StampInv
  <1>5. StampInv'
    BY <1>1, <1>2, <1>3, <1>4 DEF StampInv, Saves
  <1>6. pc'[t] = "idle" /\ \A u \in Threads : u # t => pc'[u] = pc[u]
    BY <1>1, <1>2 DEF FaucetTyped
  <1>7. ASSUME NEW u \in Threads, pc'[u] # "idle"
        PROVE  /\ u # t /\ pc[u] # "idle" /\ pc'[u] = pc[u] /\ req'[u] = req[u] /\ tx'[u] = tx[u]
               /\ key(req[u]) \in CoolKeys /\ key(req[u]) # k0
    <2>1. u # t /\ pc[u] # "idle" /\ pc'[u] = pc[u] /\ req'[u] = req[u] /\ tx'[u] = tx[u]
      BY <1>1, <1>6, <1>7
    <2>2. key(req[u]) \in CoolKeys
      BY <1>2, <2>1, KeyOf DEF FlightInv
    <2>3. key(req[u]) # k0
      BY <1>1, <1>2, <1>3, <2>1 DEF FlightInv
    <2>4. QED
      BY <2>1, <2>2, <2>3
  <1>8. FlightInv'
    <2>1. ASSUME NEW u \in Threads, pc'[u] # "idle"
          PROVE  /\ req'[u] \in Asked /\ req'[u].at <= now /\ now - req'[u].at <= 1
                 /\ last_drip'[key(req'[u])] = req'[u].at
      BY <1>2, <1>4, <1>7, <2>1 DEF FlightInv
    <2>2. ASSUME NEW u \in Threads, NEW v \in Threads, pc'[u] # "idle", pc'[v] # "idle",
                 key(req'[u]) = key(req'[v])
          PROVE  u = v
      <3>1. pc[u] # "idle" /\ pc[v] # "idle" /\ req'[u] = req[u] /\ req'[v] = req[v]
        BY <1>7, <2>2
      <3>2. QED
        BY <1>2, <2>2, <3>1 DEF FlightInv
    <2>3. QED
      BY <1>1, <2>1, <2>2 DEF FlightInv, key
  <1>9. ASSUME NEW k \in CoolKeys, NEW a \in Nat, NEW n \in Nat, Drip(k, a, n)', k \notin lost'
        PROVE  now' - a >= Day \/ last_drip'[k] = a
    <2>1. Drip(k, a, n) /\ k \notin lost
      BY <1>1, <1>9
    <2>2. now - a >= Day \/ last_drip[k] = a
      BY <1>2, <2>1 DEF DripInv
    <2>3. CASE k # k0
      BY <1>1, <1>4, <2>2, <2>3
    <2>4. CASE k = k0
      <3>1. last_drip[k] = req[t].at
        BY <1>1, <1>2, <1>3, <2>4 DEF FlightInv
      <3>2. last_drip[k] # a
        BY <1>3, <1>9, <2>1, <2>4, <3>1
      <3>3. QED
        BY <1>1, <2>2, <3>2
    <2>5. QED
      BY <2>3, <2>4
  <1>10. ASSUME NEW u \in Threads, NEW k \in CoolKeys, NEW a \in Nat, NEW n \in Nat, pc'[u] # "idle",
                k = key(req'[u]), k \notin lost', Drip(k, a, n)', a # req'[u].at
         PROVE  req'[u].at - a >= Day
    <2>1. req'[u] = req[u] /\ pc[u] # "idle"
      BY <1>7, <1>10
    <2>2. Drip(k, a, n) /\ k \notin lost
      BY <1>1, <1>10
    <2>3. QED
      BY <1>2, <1>10, <2>1, <2>2 DEF DripInv
  <1>11. ASSUME NEW u \in Threads, NEW k \in CoolKeys, NEW a \in Nat, NEW n \in Nat, pc'[u] # "idle",
                k = key(req'[u]), k \notin lost', Drip(k, a, n)', a = req'[u].at
         PROVE  pc'[u] = "poll" /\ n = tx'[u].nonce /\ (mine(u)' # {} \/ tx'[u] \in Good')
    <2>1. req'[u] = req[u] /\ pc[u] # "idle" /\ tx'[u] = tx[u] /\ pc'[u] = pc[u] /\ u # t
      BY <1>7, <1>11
    <2>2. Drip(k, a, n) /\ k \notin lost
      BY <1>1, <1>11
    <2>3. pc[u] = "poll" /\ n = tx[u].nonce /\ (mine(u) # {} \/ tx[u] \in Good)
      BY <1>2, <1>11, <2>1, <2>2 DEF DripInv
    <2>4. QED
      BY <1>1, <2>1, <2>3
  <1>12. ASSUME NEW k \in CoolKeys, NEW a \in Nat, NEW b \in Nat, NEW n \in Nat, NEW m \in Nat,
                Drip(k, a, n)', Drip(k, b, m)', n # m, k \notin lost'
         PROVE  a - b >= Day \/ b - a >= Day
    <2>1. Drip(k, a, n) /\ Drip(k, b, m) /\ k \notin lost
      BY <1>1, <1>12
    <2>2. QED
      BY <1>2, <1>12, <2>1 DEF DripInv
  <1>13. DripInv'
    BY <1>9, <1>10, <1>11, <1>12 DEF DripInv
  <1>14. QED
    BY <1>5, <1>8, <1>13

\* The day's count stays within the cap.
LEMMA Counted ==
  ASSUME FaucetTyped
  PROVE  F!today \in Nat /\ F!counted \in 0..DailyCap
  <1>1. F!Day = 2 /\ now \in Nat /\ daily[2] \in 0..DailyCap /\ DailyCap \in Nat
    BY FaucetAssumption DEF F!Day, FaucetTyped
  <1>2. now \div 2 \in Nat
    BY <1>1
  <1>3. QED
    BY <1>1, <1>2 DEF F!today, F!counted

\* The state's parts that the steps of the clock and the account leave alone.
LEMMA FaucetIdle ==
  ASSUME FaucetInv, balance' \in Nat, float' \in Nat, daily'[1] \in Nat, daily'[2] \in 0..DailyCap,
         UNCHANGED <<now, nonce, pending, receipts, served, next_nonce, lock, lost, slips,
                     last_drip, saved, unsaved, pc, req, tx>>
  PROVE  FaucetInv'
  <1>1. /\ now' = now /\ nonce' = nonce /\ pending' = pending /\ receipts' = receipts /\ served' = served
        /\ next_nonce' = next_nonce /\ lock' = lock /\ lost' = lost /\ slips' = slips
        /\ last_drip' = last_drip /\ saved' = saved /\ unsaved' = unsaved /\ pc' = pc /\ req' = req /\ tx' = tx
    OBVIOUS
  <1>2. /\ Good' = Good /\ Bad' = Bad
        /\ \A k, a, n : Drip(k, a, n)' <=> Drip(k, a, n)
    BY <1>1, SameNode
  <1>3. \A u \in Threads : mine(u)' = mine(u)
    BY <1>1, SameMine
  <1>4. Busy' = Busy
    BY <1>1 DEF Busy
  <1>5. Unseen' = Unseen
    BY <1>1 DEF Unseen, receipt, mine, key
  <1>6. FaucetTyped'
    BY <1>1 DEF FaucetInv, FaucetTyped
  <1>7. StampInv' /\ FlightInv'
    BY <1>1 DEF FaucetInv, StampInv, FlightInv, key
  <1>8. LockInv'
    BY <1>1, <1>4 DEF FaucetInv, LockInv
  <1>9. DoorInv'
    BY <1>1, <1>2, <1>3 DEF FaucetInv, DoorInv
  <1>10. RatchetInv'
    BY <1>1, <1>5 DEF FaucetInv, RatchetInv
  <1>11. DripInv'
    BY <1>1, <1>2, <1>3 DEF FaucetInv, DripInv, key
  <1>12. QED
    BY <1>6, <1>7, <1>8, <1>9, <1>10, <1>11 DEF FaucetInv

\* A handler goes on, short of the signature.
LEMMA Onward ==
  ASSUME FaucetInv, NEW t \in Threads, pc[t] # "idle", NEW l \in {"floor", "sign"}, Local(t, l),
         UNCHANGED <<last_drip, saved, unsaved, req>>
  PROVE  FaucetInv'
  <1>1. /\ FaucetTyped' /\ LockInv' /\ DoorInv' /\ RatchetInv'
        /\ \A u \in Threads : u # t => mine(u)' = mine(u)
        /\ \A u \in Threads : u # t => pc'[u] = pc[u]
        /\ pc'[t] = l
    BY LocalStep
  <1>2. /\ now' = now /\ pending' = pending /\ receipts' = receipts /\ served' = served /\ lost' = lost
        /\ \A u \in Threads : u # t => tx'[u] = tx[u]
        /\ pc[t] # "poll" /\ l \in {"floor", "sign"}
    BY DEF Local
  <1>3. Good' = Good /\ \A k, a, n : Drip(k, a, n)' <=> Drip(k, a, n)
    BY <1>2, SameNode
  <1>4. StampInv'
    BY <1>2 DEF FaucetInv, StampInv
  <1>5. \A u \in Threads : pc'[u] # "idle" => pc[u] # "idle"
    BY <1>1
  <1>6. FlightInv'
    BY <1>2, <1>5 DEF FaucetInv, FlightInv, key
  <1>7. \A u \in Threads, k \in CoolKeys, a \in Nat, n \in Nat :
           pc'[u] # "idle" /\ k = key(req[u]) /\ k \notin lost /\ Drip(k, a, n) /\ a = req[u].at
             => pc'[u] = "poll" /\ n = tx'[u].nonce /\ (mine(u)' # {} \/ tx'[u] \in Good')
    <2> SUFFICES ASSUME NEW u \in Threads, NEW k \in CoolKeys, NEW a \in Nat, NEW n \in Nat,
                        pc'[u] # "idle", k = key(req[u]), k \notin lost, Drip(k, a, n), a = req[u].at
                 PROVE  pc'[u] = "poll" /\ n = tx'[u].nonce /\ (mine(u)' # {} \/ tx'[u] \in Good')
      OBVIOUS
    <2>1. pc[u] = "poll" /\ n = tx[u].nonce /\ (mine(u) # {} \/ tx[u] \in Good)
      BY <1>5 DEF FaucetInv, DripInv
    <2>2. u # t
      BY <1>2, <2>1
    <2>3. QED
      BY <1>1, <1>2, <1>3, <2>1, <2>2
  <1>8. DripInv'
    <2>1. \A u \in Threads, k \in CoolKeys, a \in Nat, n \in Nat :
            pc'[u] # "idle" /\ k = key(req[u]) /\ k \notin lost /\ Drip(k, a, n) /\ a # req[u].at
              => req[u].at - a >= Day
      BY <1>5 DEF FaucetInv, DripInv
    <2>2. \A u \in Threads : key(req[u])' = key(req[u])
      BY DEF key
    <2>3. QED
      BY <1>2, <1>3, <1>7, <2>1, <2>2 DEF FaucetInv, DripInv
  <1>9. QED
    BY <1>1, <1>4, <1>6, <1>8 DEF FaucetInv

\* undo_stamp and the end of the handler, in terms of the above.
LEMMA Undone ==
  ASSUME FaucetInv, NEW t \in Threads, NEW o, F!undo_stamp(t, o), F!finish(t)
  PROVE  /\ last_drip' = [last_drip EXCEPT ![key(req[t])] = None] /\ Saves(key(req[t]))
         /\ daily'[1] \in Nat /\ daily'[2] \in 0..DailyCap
         /\ pc' = [pc EXCEPT ![t] = "idle"]
         /\ DOMAIN req' = Threads /\ DOMAIN tx' = Threads
         /\ \A u \in Threads : u # t => req'[u] = req[u] /\ tx'[u] = tx[u]
  <1>1. last_drip' = [last_drip EXCEPT ![key(req[t])] = None] /\ Saves(key(req[t]))
    BY DEF F!undo_stamp, F!save_cooldowns, Saves, F!key, key, F!None, None
  <1>2. daily' = <<daily[1], IF daily[2] = 0 THEN 0 ELSE daily[2] - 1>>
    BY DEF F!undo_stamp
  <1>3. daily'[1] \in Nat /\ daily'[2] \in 0..DailyCap
    BY <1>2, FaucetAssumption DEF FaucetInv, FaucetTyped
  <1>4. pc' = [pc EXCEPT ![t] = "idle"] /\ req' = [req EXCEPT ![t] = <<>>] /\ tx' = [tx EXCEPT ![t] = <<>>]
    BY DEF F!finish, F!goto
  <1>5. /\ DOMAIN req' = Threads /\ DOMAIN tx' = Threads
        /\ \A u \in Threads : u # t => req'[u] = req[u] /\ tx'[u] = tx[u]
    BY <1>4 DEF FaucetInv, FaucetTyped
  <1>6. QED
    BY <1>1, <1>3, <1>4, <1>5

\* A handler gives up before it has signed.
LEMMA GivesUp ==
  ASSUME FaucetInv, NEW t \in Threads, pc[t] \in {"parse", "floor", "sign"},
         NEW o, F!undo_stamp(t, o), F!finish(t),
         UNCHANGED <<now, nonce, balance, float, pending, receipts, served, next_nonce, lock, lost, slips>>
  PROVE  FaucetInv'
  <1>0. PICK l : l = "idle"
    OBVIOUS
  <1>1. Local(t, l)
    BY <1>0, Undone DEF Local
  <1>2. /\ FaucetTyped' /\ LockInv' /\ DoorInv' /\ RatchetInv'
        /\ \A u \in Threads : u # t => mine(u)' = mine(u)
    BY <1>1, LocalStep
  <1>3. Good' = Good /\ \A k, a, n : Drip(k, a, n)' <=> Drip(k, a, n)
    BY SameNode
  <1>4. TakesBack(t)
    BY <1>2, <1>3, Undone DEF TakesBack
  <1>5. \A n \in Nat : key(req[t]) \notin lost => ~Drip(key(req[t]), req[t].at, n)
    <2>1. PICK k, a : k = key(req[t]) /\ a = req[t].at
      OBVIOUS
    <2>2. k \in CoolKeys /\ a \in Nat
      BY <2>1, KeyOf DEF FaucetInv, FlightInv, Asked
    <2>3. \A n \in Nat : k \notin lost => ~Drip(k, a, n)
      BY <2>1, <2>2 DEF FaucetInv, DripInv
    <2>4. QED
      BY <2>1, <2>3
  <1>6. StampInv' /\ FlightInv' /\ DripInv'
    BY <1>4, <1>5, TakeBack
  <1>7. QED
    BY <1>2, <1>6 DEF FaucetInv

\* A request is turned away, or stamped.
LEMMA AskInv ==
  ASSUME FaucetInv, NEW t \in Threads, NEW r \in F!Requests, F!rate_limit(t, r)
  PROVE  FaucetInv'
  <1>1. FaucetTyped /\ StampInv /\ FlightInv /\ DripInv
    BY DEF FaucetInv
  <1>2. /\ pc[t] = "idle"
        /\ now' = now /\ nonce' = nonce /\ balance' = balance /\ float' = float /\ pending' = pending
        /\ receipts' = receipts /\ served' = served /\ next_nonce' = next_nonce /\ lock' = lock
        /\ lost' = lost /\ slips' = slips /\ tx' = tx
    BY DEF F!rate_limit, F!chainv, F!node, F!hist
  <1>3. F!today \in Nat /\ F!counted \in 0..DailyCap
    BY <1>1, Counted
  <1>4. CASE F!over_cap \/ now - last_drip[F!key(r)] < F!Day
    <2>1. daily' = <<F!today, F!counted>> /\ last_drip' = last_drip /\ saved' = saved /\ unsaved' = unsaved /\ pc' = pc /\ req' = req
      BY <1>4 DEF F!rate_limit
    <2>2. daily'[1] \in Nat /\ daily'[2] \in 0..DailyCap /\ balance' \in Nat /\ float' \in Nat
      BY <1>1, <1>2, <1>3, <2>1 DEF FaucetTyped
    <2>3. QED
      BY <1>2, <2>1, <2>2, FaucetIdle
  <1>5. CASE ~(F!over_cap \/ now - last_drip[F!key(r)] < F!Day)
    <2>0. /\ last_drip' = [last_drip EXCEPT ![key(r)] = now] /\ Saves(key(r))
          /\ daily' = <<F!today, F!counted + 1>>
          /\ pc' = [pc EXCEPT ![t] = "parse"] /\ req' = [req EXCEPT ![t] = r]
      BY <1>5 DEF F!rate_limit, F!stamp, F!save_cooldowns, Saves, F!key, key
    <2>1. r \in Asked /\ r.at = now
      BY <1>1 DEF F!Requests, Asked, F!Assets, Assets, FaucetTyped
    <2>2. PICK k0 \in CoolKeys : k0 = key(r)
      BY <2>1, KeyOf
    <2>3. now - last_drip[k0] >= Day
      <3>1. ~(now - last_drip[k0] < Day)
        BY <1>5, <2>2 DEF F!Day, Day, F!key, key
      <3>2. last_drip[k0] \in Int /\ now \in Int
        BY <1>1 DEF StampInv, FaucetTyped, None
      <3>3. QED
        BY <3>1, <3>2 DEF Day
    <2>4. F!counted < DailyCap
      BY <1>3, <1>5, FaucetAssumption DEF F!over_cap
    <2>5. daily'[1] \in Nat /\ daily'[2] \in 0..DailyCap
      BY <1>3, <2>0, <2>4, FaucetAssumption
    <2>6. PICK l : l = "parse"
      OBVIOUS
    <2>7. /\ DOMAIN req' = Threads /\ DOMAIN tx' = Threads /\ req'[t] = r
          /\ \A u \in Threads : u # t => req'[u] = req[u] /\ tx'[u] = tx[u]
      BY <1>1, <1>2, <2>0 DEF FaucetTyped
    <2>8. Local(t, l)
      BY <1>2, <2>0, <2>5, <2>6, <2>7 DEF Local
    <2>9. /\ FaucetTyped' /\ LockInv' /\ DoorInv' /\ RatchetInv'
          /\ \A u \in Threads : u # t => mine(u)' = mine(u)
          /\ \A u \in Threads : u # t => pc'[u] = pc[u]
          /\ pc'[t] = "parse"
      BY <2>6, <2>8, LocalStep
    <2>10. Good' = Good /\ \A k, a, n : Drip(k, a, n)' <=> Drip(k, a, n)
      BY <1>2, SameNode
    <2>11. /\ DOMAIN last_drip' = CoolKeys /\ last_drip'[k0] = now
           /\ \A k \in CoolKeys : k # k0 => last_drip'[k] = last_drip[k]
      BY <1>1, <2>0, <2>2 DEF StampInv
    <2>12. StampInv'
      BY <1>1, <1>2, <2>0, <2>2, <2>11 DEF StampInv, Saves, FaucetTyped
    <2>13. ASSUME NEW u \in Threads, pc[u] # "idle" PROVE key(req[u]) \in CoolKeys /\ key(req[u]) # k0
      <3>1. key(req[u]) \in CoolKeys
        BY <1>1, <2>13, KeyOf DEF FlightInv
      <3>2. last_drip[key(req[u])] = req[u].at /\ now - req[u].at <= 1 /\ req[u].at \in Nat
        BY <1>1, <2>13 DEF FlightInv, Asked
      <3>3. QED
        BY <1>1, <2>3, <3>1, <3>2 DEF Day, FaucetTyped
    <2>14. FlightInv'
      <3>1. ASSUME NEW u \in Threads, pc'[u] # "idle"
            PROVE  /\ req'[u] \in Asked /\ req'[u].at <= now /\ now - req'[u].at <= 1
                   /\ last_drip'[key(req'[u])] = req'[u].at
        <4>1. CASE u = t
          BY <1>1, <2>1, <2>2, <2>7, <2>11, <4>1 DEF FaucetTyped
        <4>2. CASE u # t
          <5>1. pc[u] # "idle" /\ req'[u] = req[u]
            BY <2>7, <2>9, <3>1, <4>2
          <5>2. last_drip'[key(req[u])] = last_drip[key(req[u])]
            BY <2>11, <2>13, <5>1
          <5>3. QED
            BY <1>1, <5>1, <5>2 DEF FlightInv
        <4>3. QED
          BY <4>1, <4>2
      <3>2. ASSUME NEW u \in Threads, NEW v \in Threads, pc'[u] # "idle", pc'[v] # "idle",
                   key(req'[u]) = key(req'[v])
            PROVE  u = v
        <4>1. \A w \in Threads : w # t /\ pc'[w] # "idle" =>
                 pc[w] # "idle" /\ req'[w] = req[w] /\ key(req'[w]) # k0
          BY <2>7, <2>9, <2>13
        <4>2. key(req'[t]) = k0
          BY <2>2, <2>7
        <4>3. CASE u = t \/ v = t
          BY <3>2, <4>1, <4>2, <4>3
        <4>4. CASE u # t /\ v # t
          BY <1>1, <3>2, <4>1, <4>4 DEF FlightInv
        <4>5. QED
          BY <4>3, <4>4
      <3>3. QED
        BY <1>2, <3>1, <3>2 DEF FlightInv, key
    <2>15. \A a \in Nat, n \in Nat : Drip(k0, a, n) /\ k0 \notin lost => now - a >= Day
      BY <1>1, <2>3 DEF DripInv
    <2>16. \A k \in CoolKeys, a \in Nat, n \in Nat :
              Drip(k, a, n) /\ k \notin lost => now - a >= Day \/ last_drip'[k] = a
      BY <1>1, <2>11, <2>15 DEF DripInv
    <2>17. ASSUME NEW u \in Threads, NEW k \in CoolKeys, NEW a \in Nat, NEW n \in Nat, pc'[u] # "idle",
                  k = key(req'[u]), k \notin lost, Drip(k, a, n), a # req'[u].at
           PROVE  req'[u].at - a >= Day
      <3>1. CASE u = t
        BY <2>1, <2>2, <2>7, <2>15, <2>17, <3>1
      <3>2. CASE u # t
        <4>1. pc[u] # "idle" /\ req'[u] = req[u]
          BY <2>7, <2>9, <2>17, <3>2
        <4>2. QED
          BY <1>1, <2>17, <4>1 DEF DripInv
      <3>3. QED
        BY <3>1, <3>2
    <2>18. ASSUME NEW u \in Threads, NEW k \in CoolKeys, NEW a \in Nat, NEW n \in Nat, pc'[u] # "idle",
                  k = key(req'[u]), k \notin lost, Drip(k, a, n), a = req'[u].at
           PROVE  pc'[u] = "poll" /\ n = tx'[u].nonce /\ (mine(u)' # {} \/ tx'[u] \in Good')
      <3>1. CASE u = t
        BY <2>1, <2>2, <2>7, <2>15, <2>18, <3>1 DEF Day
      <3>2. CASE u # t
        <4>1. pc[u] # "idle" /\ req'[u] = req[u] /\ pc'[u] = pc[u] /\ mine(u)' = mine(u) /\ tx'[u] = tx[u]
          BY <2>7, <2>9, <2>18, <3>2
        <4>2. pc[u] = "poll" /\ n = tx[u].nonce /\ (mine(u) # {} \/ tx[u] \in Good)
          BY <1>1, <2>18, <4>1 DEF DripInv
        <4>3. QED
          BY <2>10, <4>1, <4>2
      <3>3. QED
        BY <3>1, <3>2
    <2>19. \A k \in CoolKeys, a \in Nat, b \in Nat, n \in Nat, m \in Nat :
              Drip(k, a, n) /\ Drip(k, b, m) /\ n # m /\ k \notin lost => a - b >= Day \/ b - a >= Day
      BY <1>1 DEF DripInv
    <2>20. \A u : key(req[u])' = key(req'[u])
      BY DEF key
    <2>21. DripInv'
      BY <1>2, <2>10, <2>16, <2>17, <2>18, <2>19, <2>20 DEF DripInv
    <2>22. QED
      BY <2>9, <2>12, <2>14, <2>21 DEF FaucetInv
  <1>6. QED
    BY <1>4, <1>5

\* The target is looked at: a draft, or the end.
LEMMA ParseInv ==
  ASSUME FaucetInv, NEW t \in Threads, F!parse_target(t)
  PROVE  FaucetInv'
  <1>1. /\ pc[t] = "parse"
        /\ now' = now /\ nonce' = nonce /\ balance' = balance /\ float' = float /\ pending' = pending
        /\ receipts' = receipts /\ served' = served /\ next_nonce' = next_nonce /\ lock' = lock
        /\ lost' = lost /\ slips' = slips
    BY DEF F!parse_target, F!chainv, F!node, F!hist
  <1>2. CASE \E o : F!undo_stamp(t, o) /\ F!finish(t)
    BY <1>1, <1>2, GivesUp
  <1>3. CASE /\ F!goto(t, "floor") /\ UNCHANGED <<F!stamps, req, faults>>
             /\ tx' = [tx EXCEPT ![t] = [kind |-> IF exists THEN "Transfer" ELSE "AccountCreate",
                                         asset |-> req[t].asset]]
    <2>0. PICK l \in {"floor", "sign"} : l = "floor"
      OBVIOUS
    <2>1. /\ pc' = [pc EXCEPT ![t] = "floor"] /\ last_drip' = last_drip /\ saved' = saved /\ unsaved' = unsaved
          /\ daily' = daily /\ req' = req
      BY <1>3 DEF F!goto, F!stamps
    <2>2. req[t].asset \in Assets
      BY <1>1 DEF FaucetInv, FlightInv, Asked
    <2>3. /\ DOMAIN tx' = Threads /\ DOMAIN req' = Threads /\ tx'[t] \in Drafts
          /\ \A u \in Threads : u # t => req'[u] = req[u] /\ tx'[u] = tx[u]
      BY <1>3, <2>1, <2>2 DEF FaucetInv, FaucetTyped, Drafts, Kinds
    <2>4. daily'[1] \in Nat /\ daily'[2] \in 0..DailyCap
      BY <2>1 DEF FaucetInv, FaucetTyped
    <2>5. Local(t, l)
      BY <1>1, <2>0, <2>1, <2>3, <2>4 DEF Local
    <2>6. QED
      BY <1>1, <2>1, <2>5, Onward
  <1>4. QED
    BY <1>2, <1>3 DEF F!parse_target

\* The reserve floor.
LEMMA FloorInv ==
  ASSUME FaucetInv, NEW t \in Threads, F!reserve_floor(t)
  PROVE  FaucetInv'
  <1>1. /\ pc[t] = "floor"
        /\ now' = now /\ nonce' = nonce /\ balance' = balance /\ float' = float /\ pending' = pending
        /\ receipts' = receipts /\ served' = served /\ next_nonce' = next_nonce /\ lock' = lock
        /\ lost' = lost /\ slips' = slips
    BY DEF F!reserve_floor, F!chainv, F!node, F!hist
  <1>2. CASE \E o : F!undo_stamp(t, o) /\ F!finish(t)
    BY <1>1, <1>2, GivesUp
  <1>3. CASE F!goto(t, "sign") /\ UNCHANGED <<F!stamps, req, tx, faults>>
    <2>0. PICK l \in {"floor", "sign"} : l = "sign"
      OBVIOUS
    <2>1. /\ pc' = [pc EXCEPT ![t] = "sign"] /\ last_drip' = last_drip /\ saved' = saved /\ unsaved' = unsaved
          /\ daily' = daily /\ req' = req /\ tx' = tx
      BY <1>3 DEF F!goto, F!stamps
    <2>2. DOMAIN tx' = Threads /\ DOMAIN req' = Threads /\ tx'[t] \in Drafts
      BY <1>1, <2>1 DEF FaucetInv, FaucetTyped, LockInv
    <2>3. daily'[1] \in Nat /\ daily'[2] \in 0..DailyCap
      BY <2>1 DEF FaucetInv, FaucetTyped
    <2>4. Local(t, l)
      BY <1>1, <2>0, <2>1, <2>2, <2>3 DEF Local
    <2>5. QED
      BY <1>1, <2>1, <2>4, Onward
  <1>4. QED
    BY <1>2, <1>3 DEF F!reserve_floor

\* The handlers are finitely many, and so are the refusals they wait for.
LEMMA FewHandlers ==
  /\ IsFiniteSet(Busy) /\ IsFiniteSet(Unseen)
  /\ Cardinality(Busy) \in Nat /\ Cardinality(Unseen) \in Nat
  <1>1. Busy \subseteq Threads /\ Unseen \subseteq Threads /\ IsFiniteSet(Threads)
    BY FaucetAssumption DEF Busy, Unseen
  <1>2. IsFiniteSet(Busy) /\ IsFiniteSet(Unseen)
    BY <1>1, FS_Subset
  <1>3. QED
    BY <1>2, FS_CardinalityType

\* The signature is made: the ratchet moves, and the lock is held.
LEMMA SignedInv ==
  ASSUME FaucetInv, NEW t \in Threads, pc[t] = "sign", lock = {}, lock' = {t},
         next_nonce' = next_nonce + 1, pc' = [pc EXCEPT ![t] = "submit"], DOMAIN tx' = Threads,
         tx'[t] \in Signed, tx'[t].nonce = next_nonce, \A u \in Threads : u # t => tx'[u] = tx[u],
         UNCHANGED <<now, nonce, balance, float, pending, receipts, served, lost, slips,
                     last_drip, saved, unsaved, daily, req>>
  PROVE  FaucetInv'
  <1>1. FaucetTyped /\ StampInv /\ FlightInv /\ LockInv /\ DoorInv /\ RatchetInv /\ DripInv
    BY DEF FaucetInv
  <1>2. /\ now' = now /\ nonce' = nonce /\ balance' = balance /\ float' = float /\ pending' = pending
        /\ receipts' = receipts /\ served' = served /\ lost' = lost /\ slips' = slips
        /\ last_drip' = last_drip /\ saved' = saved /\ unsaved' = unsaved /\ daily' = daily /\ req' = req
    OBVIOUS
  <1>3. pc' \in [Threads -> Stages] /\ pc'[t] = "submit" /\ \A u \in Threads : u # t => pc'[u] = pc[u]
    BY <1>1 DEF FaucetTyped, Stages
  <1>4. FaucetTyped'
    BY <1>1, <1>2, <1>3 DEF FaucetTyped
  <1>5. StampInv' /\ FlightInv'
    <2>1. \A u \in Threads : pc'[u] # "idle" => pc[u] # "idle"
      BY <1>3
    <2>2. QED
      BY <1>1, <1>2, <2>1 DEF StampInv, FlightInv, key
  <1>6. /\ Good' = Good /\ Bad' = Bad /\ \A k, a, n : Drip(k, a, n)' <=> Drip(k, a, n)
    BY <1>2, SameNode
  <1>7. \A u \in Threads : u # t => mine(u)' = mine(u)
    BY <1>2, SameMine
  <1>8. Cardinality(Busy') = Cardinality(Busy) + 1
    <2>1. Busy' = Busy \cup {t} /\ t \notin Busy
      BY <1>3 DEF Busy
    <2>2. QED
      BY <2>1, FewHandlers, FS_AddElement
  <1>9. Unseen' = Unseen /\ \A u \in Unseen : tx'[u] = tx[u]
    <2>1. \A u \in Threads : u # t => (FALSE \in receipt(tx[u]))' = (FALSE \in receipt(tx[u]))
      BY <1>2 DEF receipt
    <2>2. QED
      BY <1>3, <1>7, <2>1 DEF Unseen
  <1>10. LockInv'
    <2>1. \A u \in Threads : pc'[u] \in {"floor", "sign"} => tx'[u] \in Drafts
      BY <1>1, <1>3 DEF LockInv
    <2>2. \A u \in Threads : pc'[u] \in {"submit", "poll"} => tx'[u] \in Signed
      BY <1>1, <1>3 DEF LockInv
    <2>3. \A u \in Threads : u \in lock' <=> pc'[u] = "submit"
      BY <1>1, <1>3 DEF LockInv
    <2>4. \A u \in lock' : tx'[u].nonce = next_nonce' - 1
      BY <1>1 DEF FaucetTyped
    <2>5. next_nonce' >= Cardinality(Busy')
      BY <1>1, <1>8, FewHandlers DEF LockInv, FaucetTyped
    <2>6. QED
      BY <2>1, <2>2, <2>3, <2>4, <2>5 DEF LockInv
  <1>11. DoorInv'
    <2>1. \A u \in Threads : pc'[u] = "poll" /\ mine(u)' = {} => tx'[u] \in Good \cup Bad
      BY <1>1, <1>3, <1>7 DEF DoorInv
    <2>2. QED
      BY <1>1, <1>2, <1>6, <2>1 DEF DoorInv
  <1>12. RatchetInv'
    <2>1. Cardinality(lock) = 0 /\ Cardinality(lock') = 1
      BY FS_EmptySet, FS_Singleton
    <2>2. Cardinality(pending) \in Nat
      BY <1>1, FS_CardinalityType DEF FaucetTyped
    <2>3. QED
      BY <1>1, <1>2, <1>9, <2>1, <2>2, FewHandlers DEF RatchetInv, FaucetTyped
  <1>13. ASSUME NEW u \in Threads, NEW k \in CoolKeys, NEW a \in Nat, NEW n \in Nat, pc'[u] # "idle",
                k = key(req[u]), k \notin lost, Drip(k, a, n), a = req[u].at
         PROVE  pc'[u] = "poll" /\ n = tx'[u].nonce /\ (mine(u)' # {} \/ tx'[u] \in Good')
    <2>1. pc[u] # "idle"
      BY <1>3, <1>13
    <2>2. pc[u] = "poll" /\ n = tx[u].nonce /\ (mine(u) # {} \/ tx[u] \in Good)
      BY <1>1, <1>13, <2>1 DEF DripInv
    <2>3. QED
      BY <1>3, <1>6, <1>7, <2>2
  <1>14. DripInv'
    <2>1. \A u \in Threads, k \in CoolKeys, a \in Nat, n \in Nat :
            pc'[u] # "idle" /\ k = key(req[u]) /\ k \notin lost /\ Drip(k, a, n) /\ a # req[u].at
              => req[u].at - a >= Day
      BY <1>1, <1>3 DEF DripInv
    <2>2. \A u : key(req[u])' = key(req[u])
      BY <1>2 DEF key
    <2>3. QED
      BY <1>1, <1>2, <1>6, <1>13, <2>1, <2>2 DEF DripInv
  <1>15. QED
    BY <1>4, <1>5, <1>10, <1>11, <1>12, <1>14 DEF FaucetInv

LEMMA SignInv ==
  ASSUME FaucetInv, NEW t \in Threads, F!sign(t)
  PROVE  FaucetInv'
  <1>1. /\ pc[t] = "sign" /\ lock = {}
        /\ now' = now /\ nonce' = nonce /\ balance' = balance /\ float' = float /\ pending' = pending
        /\ receipts' = receipts /\ served' = served /\ lost' = lost /\ slips' = slips
    BY DEF F!sign, F!chainv, F!node, F!hist
  <1>2. CASE /\ lock' = {t} /\ next_nonce' = next_nonce + 1
             /\ tx' = [tx EXCEPT ![t] = [nonce |-> next_nonce, kind |-> tx[t].kind, asset |-> tx[t].asset]]
             /\ F!goto(t, "submit") /\ UNCHANGED <<F!stamps, req, faults>>
    <2>1. /\ pc' = [pc EXCEPT ![t] = "submit"] /\ last_drip' = last_drip /\ saved' = saved /\ unsaved' = unsaved
          /\ daily' = daily /\ req' = req
      BY <1>2 DEF F!goto, F!stamps
    <2>2. tx[t] \in Drafts /\ next_nonce \in Nat /\ DOMAIN tx = Threads
      BY <1>1 DEF FaucetInv, FaucetTyped, LockInv
    <2>3. tx'[t] = [nonce |-> next_nonce, kind |-> tx[t].kind, asset |-> tx[t].asset]
      BY <1>2, <2>2
    <2>4. tx'[t] \in Signed /\ tx'[t].nonce = next_nonce
      BY <2>2, <2>3 DEF Signed, Drafts
    <2>5. DOMAIN tx' = Threads /\ \A u \in Threads : u # t => tx'[u] = tx[u]
      BY <1>2, <2>2
    <2>6. QED
      BY <1>1, <1>2, <2>1, <2>4, <2>5, SignedInv
  <1>3. CASE \E o : F!undo_stamp(t, o) /\ F!finish(t) /\ UNCHANGED <<lock, next_nonce>>
    BY <1>1, <1>3, GivesUp
  <1>4. QED
    BY <1>2, <1>3 DEF F!sign

\* A handler that signed ends, and the ratchet goes back one step or stays.
Ends(t) ==
  /\ pc[t] \in {"submit", "poll"} /\ pc' = [pc EXCEPT ![t] = "idle"]
  /\ DOMAIN req' = Threads /\ DOMAIN tx' = Threads
  /\ \A u \in Threads : u # t => req'[u] = req[u] /\ tx'[u] = tx[u]
  /\ \/ lock \subseteq {t} /\ lock' = {} /\ next_nonce' = next_nonce - 1
     \/ t \notin lock /\ lock' = lock /\ next_nonce' = next_nonce

LEMMA EndLock ==
  ASSUME FaucetInv, NEW t \in Threads, Ends(t)
  PROVE  /\ LockInv' /\ next_nonce' \in Nat /\ pc' \in [Threads -> Stages]
         /\ pc'[t] = "idle" /\ \A u \in Threads : u # t => pc'[u] = pc[u]
  <1>1. /\ pc[t] \in {"submit", "poll"} /\ pc' = [pc EXCEPT ![t] = "idle"]
        /\ \A u \in Threads : u # t => req'[u] = req[u] /\ tx'[u] = tx[u]
        /\ \/ lock \subseteq {t} /\ lock' = {} /\ next_nonce' = next_nonce - 1
           \/ t \notin lock /\ lock' = lock /\ next_nonce' = next_nonce
    BY DEF Ends
  <1>2. FaucetTyped /\ LockInv
    BY DEF FaucetInv
  <1>3. pc' \in [Threads -> Stages] /\ pc'[t] = "idle" /\ \A u \in Threads : u # t => pc'[u] = pc[u]
    BY <1>1, <1>2 DEF FaucetTyped, Stages
  <1>4. Cardinality(Busy') = Cardinality(Busy) - 1 /\ Cardinality(Busy') \in Nat
    <2>1. Busy' = Busy \ {t} /\ t \in Busy
      BY <1>1, <1>3 DEF Busy
    <2>2. IsFiniteSet(Busy')
      BY <2>1, FewHandlers, FS_Subset
    <2>3. QED
      BY <2>1, <2>2, FewHandlers, FS_RemoveElement, FS_CardinalityType
  <1>5. next_nonce' \in Nat /\ next_nonce' >= Cardinality(Busy')
    BY <1>1, <1>2, <1>4, FewHandlers DEF LockInv, FaucetTyped
  <1>6. \A u \in Threads : pc'[u] \in {"floor", "sign"} => tx'[u] \in Drafts
    BY <1>1, <1>2, <1>3 DEF LockInv
  <1>7. \A u \in Threads : pc'[u] \in {"submit", "poll"} => tx'[u] \in Signed
    BY <1>1, <1>2, <1>3 DEF LockInv
  <1>8. \A u \in Threads : u \in lock' <=> pc'[u] = "submit"
    BY <1>1, <1>2, <1>3 DEF LockInv
  <1>9. \A u \in lock' : tx'[u].nonce = next_nonce' - 1
    BY <1>1, <1>2 DEF LockInv
  <1>10. lock' \subseteq Threads /\ \A u, v \in lock' : u = v
    BY <1>1, <1>2 DEF LockInv
  <1>11. LockInv'
    BY <1>5, <1>6, <1>7, <1>8, <1>9, <1>10 DEF LockInv
  <1>12. QED
    BY <1>3, <1>5, <1>11

\* What handler t submits is p, and the door takes it.
Admits(t, p) ==
  /\ pc[t] = "submit" /\ p.tx = tx[t] /\ p.key = key(req[t]) /\ p.at = req[t].at /\ p \in Waiting
  /\ p \notin pending /\ \A q \in pending : q.tx.nonce # tx[t].nonce
  /\ tx[t].nonce = nonce \/ \E q \in pending : q.tx.nonce = tx[t].nonce - 1
  /\ tx[t].nonce >= nonce
  /\ pending' = pending \cup {p} /\ receipts' = receipts /\ served' = served
  /\ nonce' = nonce /\ now' = now
  /\ \A u \in Threads : u # t => req'[u] = req[u] /\ tx'[u] = tx[u] /\ pc'[u] = pc[u]

\* The pool after it.
LEMMA PoolGrows ==
  ASSUME FaucetInv, NEW t \in Threads, NEW p, Admits(t, p)
  PROVE  /\ \A q \in pending' : q \in Waiting /\ q.at <= now'
         /\ IsFiniteSet(pending') /\ Cardinality(pending') = Cardinality(pending) + 1
         /\ Good' = Good /\ Bad' = Bad
         /\ \A u \in Threads : u # t /\ pc[u] # "idle" => mine(u)' = mine(u)
         /\ \A k, a, n : Drip(k, a, n)' => Drip(k, a, n) \/ (k = p.key /\ a = p.at /\ n = p.tx.nonce)
         /\ \A q, r \in pending' : q.tx.nonce = r.tx.nonce => q = r
         /\ \A q \in pending' : q.tx.nonce >= nonce'
  <1>1. /\ pc[t] = "submit" /\ p.tx = tx[t] /\ p.key = key(req[t]) /\ p.at = req[t].at /\ p \in Waiting
        /\ p \notin pending /\ \A q \in pending : q.tx.nonce # tx[t].nonce
        /\ tx[t].nonce >= nonce
        /\ pending' = pending \cup {p} /\ receipts' = receipts /\ served' = served
        /\ nonce' = nonce /\ now' = now
        /\ \A u \in Threads : u # t => req'[u] = req[u] /\ tx'[u] = tx[u]
    BY DEF Admits
  <1>2. FaucetTyped /\ FlightInv /\ DoorInv
    BY DEF FaucetInv
  <1>3. p.at <= now
    BY <1>1, <1>2 DEF FlightInv
  <1>4. \A q \in pending' : q \in Waiting /\ q.at <= now'
    BY <1>1, <1>2, <1>3 DEF FaucetTyped
  <1>5. IsFiniteSet(pending') /\ Cardinality(pending') = Cardinality(pending) + 1
    BY <1>1, <1>2, FS_AddElement DEF FaucetTyped
  <1>6. Good' = Good /\ Bad' = Bad
    BY <1>1 DEF Good, Bad
  <1>7. ASSUME NEW u \in Threads, u # t, pc[u] # "idle" PROVE mine(u)' = mine(u)
    <2>1. key(req[u]) # key(req[t])
      BY <1>1, <1>2, <1>7 DEF FlightInv
    <2>2. mine(u)' = {q \in pending' : q.tx = tx[u] /\ q.at = req[u].at /\ q.key = key(req[u])}
      BY <1>1, <1>7 DEF mine, key
    <2>3. QED
      BY <1>1, <2>1, <2>2 DEF mine
  <1>8. ASSUME NEW k, NEW a, NEW n, Drip(k, a, n)'
        PROVE  Drip(k, a, n) \/ (k = p.key /\ a = p.at /\ n = p.tx.nonce)
    BY <1>1, <1>8 DEF Drip
  <1>9. \A q, r \in pending' : q.tx.nonce = r.tx.nonce => q = r
    BY <1>1, <1>2 DEF DoorInv
  <1>10. \A q \in pending' : q.tx.nonce >= nonce'
    BY <1>1, <1>2 DEF DoorInv
  <1>11. QED
    BY <1>4, <1>5, <1>6, <1>7, <1>8, <1>9, <1>10

\* Before the drip is in the pool, its caller has none with that stamp.
LEMMA NoneYet ==
  ASSUME FaucetInv, NEW t \in Threads, pc[t] \notin {"idle", "poll"},
         NEW k, k = key(req[t]), k \notin lost, NEW n \in Nat
  PROVE  ~Drip(k, req[t].at, n)
  <1>1. PICK a : a = req[t].at
    OBVIOUS
  <1>2. k \in CoolKeys /\ a \in Nat
    BY <1>1, KeyOf DEF FaucetInv, FlightInv, Asked
  <1>3. ~Drip(k, a, n)
    BY <1>1, <1>2 DEF FaucetInv, DripInv
  <1>4. QED
    BY <1>1, <1>3

\* The drip is taken, and its handler waits.
LEMMA TakenInv ==
  ASSUME FaucetInv, NEW t \in Threads, NEW p, Admits(t, p), lock' = {},
         pc' = [pc EXCEPT ![t] = "poll"],
         UNCHANGED <<balance, float, next_nonce, lost, slips, last_drip, saved, unsaved, daily, req, tx>>
  PROVE  FaucetInv'
  <1>1. /\ pc[t] = "submit" /\ p.tx = tx[t] /\ p.key = key(req[t]) /\ p.at = req[t].at /\ p \in Waiting
        /\ tx[t].nonce = nonce \/ \E q \in pending : q.tx.nonce = tx[t].nonce - 1
        /\ pending' = pending \cup {p} /\ receipts' = receipts /\ served' = served
        /\ nonce' = nonce /\ now' = now
    BY DEF Admits
  <1>2. /\ balance' = balance /\ float' = float /\ next_nonce' = next_nonce /\ lost' = lost
        /\ slips' = slips /\ last_drip' = last_drip /\ saved' = saved /\ unsaved' = unsaved /\ daily' = daily
        /\ req' = req /\ tx' = tx
    OBVIOUS
  <1>3. FaucetTyped /\ StampInv /\ FlightInv /\ LockInv /\ DoorInv /\ RatchetInv /\ DripInv
    BY DEF FaucetInv
  <1>4. pc' \in [Threads -> Stages] /\ pc'[t] = "poll" /\ \A u \in Threads : u # t => pc'[u] = pc[u]
    BY <1>3 DEF FaucetTyped, Stages
  <1>5. /\ \A q \in pending' : q \in Waiting /\ q.at <= now'
        /\ IsFiniteSet(pending') /\ Cardinality(pending') = Cardinality(pending) + 1
        /\ Good' = Good /\ Bad' = Bad
        /\ \A u \in Threads : u # t /\ pc[u] # "idle" => mine(u)' = mine(u)
        /\ \A k, a, n : Drip(k, a, n)' => Drip(k, a, n) \/ (k = p.key /\ a = p.at /\ n = p.tx.nonce)
        /\ \A q, r \in pending' : q.tx.nonce = r.tx.nonce => q = r
        /\ \A q \in pending' : q.tx.nonce >= nonce'
    BY PoolGrows
  <1>6. FaucetTyped'
    BY <1>1, <1>2, <1>3, <1>4, <1>5 DEF FaucetTyped
  <1>7. \A u \in Threads : pc'[u] # "idle" => pc[u] # "idle"
    BY <1>1, <1>4
  <1>8. StampInv' /\ FlightInv'
    BY <1>1, <1>2, <1>3, <1>7 DEF StampInv, FlightInv, key
  <1>9. mine(t)' # {}
    BY <1>1, <1>2 DEF mine, key
  <1>10. lock = {t} /\ tx[t].nonce = next_nonce - 1 /\ tx[t] \in Signed
    BY <1>1, <1>3 DEF LockInv
  <1>11. LockInv'
    <2>1. Busy' = Busy
      BY <1>1, <1>4 DEF Busy
    <2>2. \A u \in Threads : pc'[u] \in {"floor", "sign"} => tx'[u] \in Drafts
      BY <1>2, <1>3, <1>4 DEF LockInv
    <2>3. \A u \in Threads : pc'[u] \in {"submit", "poll"} => tx'[u] \in Signed
      BY <1>2, <1>3, <1>4, <1>10 DEF LockInv
    <2>4. \A u \in Threads : pc'[u] # "submit"
      BY <1>3, <1>4, <1>10 DEF LockInv
    <2>5. QED
      BY <1>2, <1>3, <2>1, <2>2, <2>3, <2>4 DEF LockInv
  <1>12. DoorInv'
    <2>1. \A u \in Threads : pc'[u] = "poll" /\ mine(u)' = {} => tx'[u] \in Good \cup Bad
      BY <1>2, <1>3, <1>4, <1>5, <1>9 DEF DoorInv
    <2>2. QED
      BY <1>1, <1>3, <1>5, <2>1 DEF DoorInv
  <1>13. Unseen' = Unseen
    <2>1. \A u \in Threads : (FALSE \in receipt(tx[u]))' = (FALSE \in receipt(tx[u]))
      BY <1>1, <1>2 DEF receipt
    <2>2. QED
      BY <1>1, <1>4, <1>5, <1>9, <2>1 DEF Unseen
  <1>14. ASSUME slips = 0
         PROVE  /\ next_nonce = nonce + Cardinality(pending') + Cardinality(lock') + Cardinality(Unseen)
                /\ \A u \in Unseen, q \in pending' : tx[u].nonce < q.tx.nonce
    <2>1. Cardinality(lock) = 1 /\ Cardinality(lock') = 0
      BY <1>10, FS_EmptySet, FS_Singleton
    <2>2. Cardinality(pending) \in Nat /\ nonce \in Nat /\ next_nonce \in Nat
      BY <1>3, FS_CardinalityType DEF FaucetTyped
    <2>3. next_nonce = nonce + Cardinality(pending) + 1 + Cardinality(Unseen)
      BY <1>3, <1>14, <2>1 DEF RatchetInv
    <2>4. next_nonce = nonce + Cardinality(pending') + Cardinality(lock') + Cardinality(Unseen)
      BY <1>5, <2>1, <2>2, <2>3, FewHandlers
    <2>5. tx[t].nonce = nonce + Cardinality(pending) + Cardinality(Unseen)
      BY <1>10, <2>2, <2>3, FewHandlers
    <2>6. ASSUME NEW u \in Unseen PROVE tx[u].nonce < tx[t].nonce
      <3>1. CASE tx[t].nonce = nonce
        <4>1. Cardinality(Unseen) = 0
          BY <2>2, <2>5, <3>1, FewHandlers
        <4>2. Unseen = {}
          BY <4>1, FewHandlers, FS_EmptySet
        <4>3. QED
          BY <2>6, <4>2
      <3>2. ASSUME NEW q \in pending, q.tx.nonce = tx[t].nonce - 1 PROVE tx[u].nonce < tx[t].nonce
        <4>1. tx[u].nonce < tx[t].nonce - 1
          BY <1>3, <1>14, <2>6, <3>2 DEF RatchetInv
        <4>2. tx[u].nonce \in Nat /\ tx[t].nonce \in Nat
          BY <1>3, <1>10, <2>6 DEF LockInv, Unseen, Signed
        <4>3. QED
          BY <4>1, <4>2
      <3>3. QED
        BY <1>1, <3>1, <3>2
    <2>7. \A u \in Unseen, q \in pending : tx[u].nonce < q.tx.nonce
      BY <1>3, <1>14 DEF RatchetInv
    <2>8. \A u \in Unseen, q \in pending' : tx[u].nonce < q.tx.nonce
      BY <1>1, <2>6, <2>7
    <2>9. QED
      BY <2>4, <2>8
  <1>15. RatchetInv'
    BY <1>1, <1>2, <1>13, <1>14 DEF RatchetInv
  <1>16. PICK k0 \in CoolKeys, a0 \in Nat, n0 \in Nat : k0 = p.key /\ a0 = p.at /\ n0 = p.tx.nonce
    BY <1>1 DEF Waiting, Signed
  <1>17. \A n \in Nat : k0 \notin lost => ~Drip(k0, a0, n)
    BY <1>1, <1>16, NoneYet
  <1>18. \A k, a, n : Drip(k, a, n)' => Drip(k, a, n) \/ (k = k0 /\ a = a0 /\ n = n0)
    BY <1>5, <1>16
  <1>19. ASSUME NEW k \in CoolKeys, NEW a \in Nat, NEW n \in Nat, Drip(k, a, n)', k \notin lost
         PROVE  now - a >= Day \/ last_drip[k] = a
    <2>1. CASE Drip(k, a, n)
      BY <1>3, <1>19, <2>1 DEF DripInv
    <2>2. CASE k = k0 /\ a = a0 /\ n = n0
      BY <1>1, <1>3, <1>16, <2>2 DEF FlightInv
    <2>3. QED
      BY <1>18, <1>19, <2>1, <2>2
  <1>20. ASSUME NEW u \in Threads, NEW k \in CoolKeys, NEW a \in Nat, NEW n \in Nat, pc'[u] # "idle",
                k = key(req[u]), k \notin lost, Drip(k, a, n)', a # req[u].at
         PROVE  req[u].at - a >= Day
    <2>1. pc[u] # "idle"
      BY <1>7, <1>20
    <2>2. CASE Drip(k, a, n)
      BY <1>3, <1>20, <2>1, <2>2 DEF DripInv
    <2>3. CASE k = k0 /\ a = a0 /\ n = n0
      <3>1. u = t
        BY <1>1, <1>3, <1>16, <1>20, <2>1, <2>3 DEF FlightInv
      <3>2. QED
        BY <1>1, <1>16, <1>20, <2>3, <3>1
    <2>4. QED
      BY <1>18, <1>20, <2>2, <2>3
  <1>21. ASSUME NEW u \in Threads, NEW k \in CoolKeys, NEW a \in Nat, NEW n \in Nat, pc'[u] # "idle",
                k = key(req[u]), k \notin lost, Drip(k, a, n)', a = req[u].at
         PROVE  pc'[u] = "poll" /\ n = tx[u].nonce /\ (mine(u)' # {} \/ tx[u] \in Good')
    <2>1. pc[u] # "idle"
      BY <1>7, <1>21
    <2>2. CASE u = t
      <3>1. k = k0 /\ a = a0
        BY <1>1, <1>16, <1>21, <2>2
      <3>2. n = n0
        BY <1>17, <1>18, <1>21, <3>1
      <3>3. QED
        BY <1>1, <1>4, <1>9, <1>16, <2>2, <3>2
    <2>3. CASE u # t
      <3>1. k # k0
        BY <1>1, <1>3, <1>16, <1>21, <2>1, <2>3 DEF FlightInv
      <3>2. Drip(k, a, n)
        BY <1>18, <1>21, <3>1
      <3>3. pc[u] = "poll" /\ n = tx[u].nonce /\ (mine(u) # {} \/ tx[u] \in Good)
        BY <1>3, <1>21, <2>1, <3>2 DEF DripInv
      <3>4. QED
        BY <1>4, <1>5, <2>1, <2>3, <3>3
    <2>4. QED
      BY <2>2, <2>3
  <1>22. ASSUME NEW a \in Nat, NEW n \in Nat, Drip(k0, a, n), k0 \notin lost
         PROVE  a0 - a >= Day
    <2>1. a # a0
      BY <1>17, <1>22
    <2>2. QED
      BY <1>1, <1>3, <1>16, <1>22, <2>1 DEF DripInv
  <1>23. ASSUME NEW k \in CoolKeys, NEW a \in Nat, NEW b \in Nat, NEW n \in Nat, NEW m \in Nat,
                Drip(k, a, n)', Drip(k, b, m)', n # m, k \notin lost
         PROVE  a - b >= Day \/ b - a >= Day
    <2>1. CASE Drip(k, a, n) /\ Drip(k, b, m)
      BY <1>3, <1>23, <2>1 DEF DripInv
    <2>2. CASE k = k0 /\ a = a0 /\ n = n0
      BY <1>18, <1>22, <1>23, <2>2
    <2>3. CASE k = k0 /\ b = a0 /\ m = n0
      BY <1>18, <1>22, <1>23, <2>3
    <2>4. QED
      BY <1>18, <1>23, <2>1, <2>2, <2>3
  <1>24. DripInv'
    <2>1. \A u : key(req[u])' = key(req[u])
      BY <1>2 DEF key
    <2>2. QED
      BY <1>1, <1>2, <1>19, <1>20, <1>21, <1>23, <2>1 DEF DripInv
  <1>25. QED
    BY <1>6, <1>8, <1>11, <1>12, <1>15, <1>24 DEF FaucetInv

\* A handler that signed ends, and the node does not change.
LEMMA Ended ==
  ASSUME FaucetInv, NEW t \in Threads, Ends(t), daily'[1] \in Nat, daily'[2] \in 0..DailyCap, slips' \in Nat,
         UNCHANGED <<now, nonce, balance, float, pending, receipts, served>>
  PROVE  /\ FaucetTyped' /\ LockInv' /\ DoorInv' /\ Unseen' = Unseen \ {t}
         /\ \A u \in Threads : u # t => mine(u)' = mine(u)
         /\ Good' = Good /\ \A k, a, n : Drip(k, a, n)' <=> Drip(k, a, n)
  <1>1. /\ now' = now /\ nonce' = nonce /\ balance' = balance /\ float' = float /\ pending' = pending
        /\ receipts' = receipts /\ served' = served
        /\ DOMAIN req' = Threads /\ DOMAIN tx' = Threads
        /\ \A u \in Threads : u # t => req'[u] = req[u] /\ tx'[u] = tx[u]
    BY DEF Ends
  <1>2. /\ LockInv' /\ next_nonce' \in Nat /\ pc' \in [Threads -> Stages]
        /\ pc'[t] = "idle" /\ \A u \in Threads : u # t => pc'[u] = pc[u]
    BY EndLock
  <1>3. FaucetTyped'
    BY <1>1, <1>2 DEF FaucetInv, FaucetTyped
  <1>4. Good' = Good /\ Bad' = Bad /\ \A k, a, n : Drip(k, a, n)' <=> Drip(k, a, n)
    BY <1>1, SameNode
  <1>5. \A u \in Threads : u # t => mine(u)' = mine(u)
    BY <1>1, SameMine
  <1>6. DoorInv'
    <2>1. \A u \in Threads : pc'[u] = "poll" /\ mine(u)' = {} => tx'[u] \in Good \cup Bad
      BY <1>1, <1>2, <1>5 DEF FaucetInv, DoorInv
    <2>2. QED
      BY <1>1, <1>4, <2>1 DEF FaucetInv, DoorInv
  <1>7. Unseen' = Unseen \ {t}
    <2>1. \A u \in Threads : u # t => (FALSE \in receipt(tx[u]))' = (FALSE \in receipt(tx[u]))
      BY <1>1 DEF receipt
    <2>2. QED
      BY <1>2, <1>5, <2>1 DEF Unseen
  <1>8. QED
    BY <1>2, <1>3, <1>4, <1>5, <1>6, <1>7

\* The account of the ratchet when t ends.
LEMMA EndRatchet ==
  ASSUME FaucetInv, NEW t \in Threads, Ends(t), UNCHANGED <<nonce, pending>>, slips' \in Nat,
         Unseen' = Unseen \ {t},
         slips' = 0 => /\ slips = 0
                       /\ \/ t \notin Unseen /\ lock = {t} /\ lock' = {} /\ next_nonce' = next_nonce - 1
                          \/ t \in Unseen /\ lock = {} /\ lock' = {} /\ next_nonce' = next_nonce - 1
                          \/ t \notin Unseen /\ lock' = lock /\ next_nonce' = next_nonce
  PROVE  RatchetInv'
  <1> SUFFICES ASSUME slips' = 0
               PROVE  /\ next_nonce' = nonce' + Cardinality(pending') + Cardinality(lock') + Cardinality(Unseen')
                      /\ \A u \in Unseen', p \in pending' : tx'[u].nonce < p.tx.nonce
    BY DEF RatchetInv
  <1>1. slips = 0
    OBVIOUS
  <1>2. /\ next_nonce = nonce + Cardinality(pending) + Cardinality(lock) + Cardinality(Unseen)
        /\ \A u \in Unseen, p \in pending : tx[u].nonce < p.tx.nonce
    BY <1>1 DEF FaucetInv, RatchetInv
  <1>3. \A u \in Unseen' : u \in Unseen /\ tx'[u] = tx[u]
    BY DEF Ends, Unseen
  <1>4. /\ Cardinality(pending) \in Nat /\ nonce \in Nat /\ next_nonce \in Nat
        /\ Cardinality({}) = 0 /\ Cardinality({t}) = 1
    BY FS_CardinalityType, FS_EmptySet, FS_Singleton DEF FaucetInv, FaucetTyped
  <1>5. Cardinality(Unseen') = IF t \in Unseen THEN Cardinality(Unseen) - 1 ELSE Cardinality(Unseen)
    BY FewHandlers, FS_RemoveElement
  <1>6. CASE t \notin Unseen /\ lock = {t} /\ lock' = {} /\ next_nonce' = next_nonce - 1
    BY <1>2, <1>3, <1>4, <1>5, <1>6, FewHandlers
  <1>7. CASE t \in Unseen /\ lock = {} /\ lock' = {} /\ next_nonce' = next_nonce - 1
    BY <1>2, <1>3, <1>4, <1>5, <1>7, FewHandlers
  <1>8. CASE t \notin Unseen /\ lock' = lock /\ next_nonce' = next_nonce
    BY <1>2, <1>3, <1>5, <1>8
  <1>9. QED
    BY <1>6, <1>7, <1>8

\* The door refuses: the signature is taken back.
LEMMA TurnedBackInv ==
  ASSUME FaucetInv, NEW t \in Threads, pc[t] = "submit", lock' = {}, next_nonce' = next_nonce - 1,
         NEW o, F!undo_stamp(t, o), F!finish(t),
         UNCHANGED <<now, nonce, balance, float, pending, receipts, served, lost, slips>>
  PROVE  FaucetInv'
  <1>1. lock = {t}
    BY DEF FaucetInv, LockInv
  <1>2. /\ last_drip' = [last_drip EXCEPT ![key(req[t])] = None] /\ Saves(key(req[t]))
        /\ daily'[1] \in Nat /\ daily'[2] \in 0..DailyCap
        /\ pc' = [pc EXCEPT ![t] = "idle"]
        /\ DOMAIN req' = Threads /\ DOMAIN tx' = Threads
        /\ \A u \in Threads : u # t => req'[u] = req[u] /\ tx'[u] = tx[u]
    BY Undone
  <1>3. Ends(t)
    BY <1>1, <1>2 DEF Ends
  <1>4. slips' \in Nat
    BY DEF FaucetInv, FaucetTyped
  <1>5. /\ FaucetTyped' /\ LockInv' /\ DoorInv' /\ Unseen' = Unseen \ {t}
        /\ \A u \in Threads : u # t => mine(u)' = mine(u)
        /\ Good' = Good /\ \A k, a, n : Drip(k, a, n)' <=> Drip(k, a, n)
    BY <1>2, <1>3, <1>4, Ended
  <1>6. RatchetInv'
    <2>1. t \notin Unseen
      BY DEF Unseen
    <2>2. QED
      BY <1>1, <1>3, <1>4, <1>5, <2>1, EndRatchet
  <1>7. TakesBack(t)
    BY <1>2, <1>5 DEF TakesBack
  <1>8. \A n \in Nat : key(req[t]) \notin lost' => ~Drip(key(req[t]), req[t].at, n)
    <2>1. PICK k : k = key(req[t])
      OBVIOUS
    <2>2. \A n \in Nat : k \notin lost => ~Drip(k, req[t].at, n)
      BY <2>1, NoneYet
    <2>3. QED
      BY <2>1, <2>2
  <1>9. StampInv' /\ FlightInv' /\ DripInv'
    BY <1>7, <1>8, TakeBack
  <1>10. QED
    BY <1>5, <1>6, <1>9 DEF FaucetInv

\* The drip is taken and the answer is lost.
LEMMA LostInv ==
  ASSUME FaucetInv, NEW t \in Threads, NEW p, Admits(t, p), lock' = {}, next_nonce' = next_nonce - 1,
         NEW o, F!undo_stamp(t, o), F!finish(t), lost' = lost \cup {p.key}, slips' = slips + 1,
         UNCHANGED <<balance, float>>
  PROVE  FaucetInv'
  <1>1. /\ pc[t] = "submit" /\ p.tx = tx[t] /\ p.key = key(req[t]) /\ p.at = req[t].at
        /\ receipts' = receipts /\ served' = served /\ nonce' = nonce /\ now' = now
    BY DEF Admits
  <1>2. lock = {t}
    BY <1>1 DEF FaucetInv, LockInv
  <1>3. /\ last_drip' = [last_drip EXCEPT ![key(req[t])] = None] /\ Saves(key(req[t]))
        /\ daily'[1] \in Nat /\ daily'[2] \in 0..DailyCap
        /\ pc' = [pc EXCEPT ![t] = "idle"]
        /\ DOMAIN req' = Threads /\ DOMAIN tx' = Threads
        /\ \A u \in Threads : u # t => req'[u] = req[u] /\ tx'[u] = tx[u]
    BY Undone
  <1>4. Ends(t)
    BY <1>1, <1>2, <1>3 DEF Ends
  <1>5. /\ LockInv' /\ next_nonce' \in Nat /\ pc' \in [Threads -> Stages]
        /\ pc'[t] = "idle" /\ \A u \in Threads : u # t => pc'[u] = pc[u]
    BY <1>4, EndLock
  <1>6. /\ \A q \in pending' : q \in Waiting /\ q.at <= now'
        /\ IsFiniteSet(pending')
        /\ Good' = Good /\ Bad' = Bad
        /\ \A u \in Threads : u # t /\ pc[u] # "idle" => mine(u)' = mine(u)
        /\ \A k, a, n : Drip(k, a, n)' => Drip(k, a, n) \/ (k = p.key /\ a = p.at /\ n = p.tx.nonce)
        /\ \A q, r \in pending' : q.tx.nonce = r.tx.nonce => q = r
        /\ \A q \in pending' : q.tx.nonce >= nonce'
    BY PoolGrows
  <1>7. slips \in Nat /\ slips' # 0 /\ slips' \in Nat
    BY DEF FaucetInv, FaucetTyped
  <1>8. FaucetTyped'
    BY <1>1, <1>3, <1>5, <1>6, <1>7 DEF FaucetInv, FaucetTyped
  <1>9. DoorInv'
    <2>1. \A u \in Threads : pc'[u] = "poll" /\ mine(u)' = {} => tx'[u] \in Good \cup Bad
      BY <1>3, <1>5, <1>6 DEF FaucetInv, DoorInv
    <2>2. QED
      BY <1>1, <1>6, <2>1 DEF FaucetInv, DoorInv
  <1>10. RatchetInv'
    BY <1>7 DEF RatchetInv
  <1>11. \A u \in Threads : u # t /\ mine(u) # {} => mine(u)' # {}
    <2> SUFFICES ASSUME NEW u \in Threads, u # t, mine(u) # {} PROVE mine(u)' # {}
      OBVIOUS
    <2>1. \A q \in pending : q \in pending'
      BY DEF Admits
    <2>2. mine(u)' = {q \in pending' : q.tx = tx[u] /\ q.at = req[u].at /\ q.key = key(req[u])}
      BY <1>3 DEF mine, key
    <2>3. QED
      BY <2>1, <2>2 DEF mine
  <1>12. TakesBack(t)
    BY <1>1, <1>3, <1>6, <1>11 DEF TakesBack
  <1>13. key(req[t]) \in lost'
    BY <1>1
  <1>14. StampInv' /\ FlightInv' /\ DripInv'
    BY <1>12, <1>13, TakeBack
  <1>15. QED
    BY <1>5, <1>8, <1>9, <1>10, <1>14 DEF FaucetInv

\* The instance counts as this module does.
LEMMA SameCount == ASSUME NEW S PROVE F!Cardinality(S) = Cardinality(S)
  BY DEF F!Cardinality, Cardinality

LEMMA SubmitInv ==
  ASSUME FaucetInv, NEW t \in Threads, F!submit(t)
  PROVE  FaucetInv'
  <1>0. PICK p : p = [tx |-> tx[t], key |-> key(req[t]), at |-> req[t].at]
    OBVIOUS
  <1>1. /\ pc[t] = "submit" /\ lock' = {}
        /\ now' = now /\ nonce' = nonce /\ balance' = balance /\ float' = float
        /\ receipts' = receipts /\ served' = served
    BY DEF F!submit, F!chainv
  <1>2. tx[t] \in Signed /\ req[t] \in Asked
    BY <1>1 DEF FaucetInv, LockInv, FlightInv
  <1>3. p.tx = tx[t] /\ p.key = key(req[t]) /\ p.at = req[t].at /\ p \in Waiting
    BY <1>0, <1>2, KeyOf DEF Waiting, Asked
  <1>4. F!door(tx[t]) =>
          /\ p \notin pending /\ \A q \in pending : q.tx.nonce # tx[t].nonce
          /\ tx[t].nonce = nonce \/ \E q \in pending : q.tx.nonce = tx[t].nonce - 1
          /\ tx[t].nonce >= nonce
    BY <1>3 DEF F!door
  <1>5. CASE /\ F!door(tx[t]) /\ pending' = pending \cup {p} /\ F!goto(t, "poll")
             /\ UNCHANGED <<next_nonce, F!stamps, req, tx, faults, lost, slips>>
    <2>1. /\ pc' = [pc EXCEPT ![t] = "poll"] /\ last_drip' = last_drip /\ saved' = saved /\ unsaved' = unsaved /\ daily' = daily
          /\ next_nonce' = next_nonce /\ req' = req /\ tx' = tx /\ lost' = lost /\ slips' = slips
      BY <1>5 DEF F!goto, F!stamps
    <2>2. \A u \in Threads : u # t => pc'[u] = pc[u]
      BY <2>1 DEF FaucetInv, FaucetTyped
    <2>3. Admits(t, p)
      BY <1>1, <1>3, <1>4, <1>5, <2>1, <2>2 DEF Admits
    <2>4. QED
      BY <1>1, <2>1, <2>3, TakenInv
  <1>6. CASE \E o :
             /\ F!door(tx[t]) /\ pending' = pending \cup {p}
             /\ next_nonce' = next_nonce - 1 /\ F!undo_stamp(t, o) /\ F!finish(t)
             /\ lost' = lost \cup {p.key} /\ slips' = slips + 1
    <2>1. /\ pc' = [pc EXCEPT ![t] = "idle"]
          /\ \A u \in Threads : u # t => req'[u] = req[u] /\ tx'[u] = tx[u]
      BY <1>6, Undone
    <2>2. \A u \in Threads : u # t => pc'[u] = pc[u]
      BY <2>1 DEF FaucetInv, FaucetTyped
    <2>3. Admits(t, p)
      BY <1>1, <1>3, <1>4, <1>6, <2>1, <2>2 DEF Admits
    <2>4. QED
      BY <1>1, <1>6, <2>3, LostInv
  <1>7. CASE \E o :
             /\ next_nonce' = next_nonce - 1 /\ F!undo_stamp(t, o) /\ F!finish(t)
             /\ UNCHANGED <<pending, lost, slips>>
    BY <1>1, <1>7, TurnedBackInv
  <1>8. QED
    <2>1. \/ /\ F!door(tx[t]) /\ pending' = pending \cup {p} /\ F!goto(t, "poll")
             /\ UNCHANGED <<next_nonce, F!stamps, req, tx, faults, lost, slips>>
          \/ \E o :
             /\ F!door(tx[t]) /\ pending' = pending \cup {p}
             /\ next_nonce' = next_nonce - 1 /\ F!undo_stamp(t, o) /\ F!finish(t)
             /\ lost' = lost \cup {p.key} /\ slips' = slips + 1
          \/ \E o :
             /\ next_nonce' = next_nonce - 1 /\ F!undo_stamp(t, o) /\ F!finish(t)
             /\ UNCHANGED <<pending, lost, slips>>
      BY <1>0 DEF F!submit, F!key, key
    <2>2. QED
      BY <2>1, <1>5, <1>6, <1>7

\* A refusal is seen.
LEMMA RejectedInv ==
  ASSUME FaucetInv, NEW t \in Threads, F!poll_rejected(t)
  PROVE  FaucetInv'
  <1>0. PICK z : z = 0
    OBVIOUS
  <1>1. /\ pc[t] = "poll" /\ lock = {} /\ next_nonce' = next_nonce - 1
        /\ F!undo_stamp(t, z) /\ F!finish(t)
        /\ now' = now /\ nonce' = nonce /\ balance' = balance /\ float' = float /\ pending' = pending
        /\ receipts' = receipts /\ lock' = lock /\ served' = served
    BY <1>0 DEF F!poll_rejected, F!chainv, F!node
  <1>2. tx[t] \in Bad
    <2>1. FALSE \in receipt(tx[t])
      BY DEF F!poll_rejected, F!receipt, receipt
    <2>2. QED
      BY <2>1, BadReceipt
  <1>3. F!mine(t) = mine(t)
    BY DEF F!mine, mine, F!key, key
  <1>4. /\ lost' = (IF mine(t) = {} THEN lost ELSE lost \cup {key(req[t])})
        /\ slips' = slips + Cardinality(mine(t))
    <2>1. /\ lost' = (IF F!mine(t) = {} THEN lost ELSE lost \cup {F!key(req[t])})
          /\ slips' = slips + F!Cardinality(F!mine(t))
      BY DEF F!poll_rejected
    <2>2. F!key(req[t]) = key(req[t])
      BY DEF F!key, key
    <2>3. QED
      BY <1>3, <2>1, <2>2, SameCount
  <1>5. IsFiniteSet(mine(t)) /\ Cardinality(mine(t)) \in Nat /\ slips \in Nat
    <2>1. mine(t) \subseteq pending /\ IsFiniteSet(pending) /\ slips \in Nat
      BY DEF mine, FaucetInv, FaucetTyped
    <2>2. QED
      BY <2>1, FS_Subset, FS_CardinalityType
  <1>6. slips' \in Nat
    BY <1>4, <1>5
  <1>7. /\ last_drip' = [last_drip EXCEPT ![key(req[t])] = None] /\ Saves(key(req[t]))
        /\ daily'[1] \in Nat /\ daily'[2] \in 0..DailyCap
        /\ pc' = [pc EXCEPT ![t] = "idle"]
        /\ DOMAIN req' = Threads /\ DOMAIN tx' = Threads
        /\ \A u \in Threads : u # t => req'[u] = req[u] /\ tx'[u] = tx[u]
    BY <1>1, Undone
  <1>8. Ends(t)
    BY <1>1, <1>7 DEF Ends
  <1>9. /\ FaucetTyped' /\ LockInv' /\ DoorInv' /\ Unseen' = Unseen \ {t}
        /\ \A u \in Threads : u # t => mine(u)' = mine(u)
        /\ Good' = Good /\ \A k, a, n : Drip(k, a, n)' <=> Drip(k, a, n)
    BY <1>1, <1>6, <1>7, <1>8, Ended
  <1>10. RatchetInv'
    <2>1. ASSUME slips' = 0 PROVE slips = 0 /\ t \in Unseen
      <3>1. slips = 0 /\ Cardinality(mine(t)) = 0
        BY <1>4, <1>5, <2>1
      <3>2. mine(t) = {}
        BY <1>5, <3>1, FS_EmptySet
      <3>3. QED
        BY <1>1, <1>2, <3>1, <3>2, BadReceipt DEF Unseen
    <2>2. QED
      BY <1>1, <1>6, <1>8, <1>9, <2>1, EndRatchet
  <1>11. TakesBack(t)
    BY <1>1, <1>4, <1>7, <1>9 DEF TakesBack
  <1>12. \A n \in Nat : key(req[t]) \notin lost' => ~Drip(key(req[t]), req[t].at, n)
    <2>1. PICK k, a : k = key(req[t]) /\ a = req[t].at
      OBVIOUS
    <2>2. k \in CoolKeys /\ a \in Nat
      BY <1>1, <2>1, KeyOf DEF FaucetInv, FlightInv, Asked
    <2>3. tx[t] \notin Good
      BY <1>2 DEF FaucetInv, DoorInv
    <2>4. k \notin lost' => k \notin lost /\ mine(t) = {}
      BY <1>4, <2>1
    <2>5. \A n \in Nat : k \notin lost' => ~Drip(k, a, n)
      BY <1>1, <2>1, <2>2, <2>3, <2>4 DEF FaucetInv, DripInv
    <2>6. QED
      BY <2>1, <2>5
  <1>13. StampInv' /\ FlightInv' /\ DripInv'
    BY <1>11, <1>12, TakeBack
  <1>14. QED
    BY <1>9, <1>10, <1>13 DEF FaucetInv

\* An acceptance is seen, or the wait is over.
LEMMA DoneInv ==
  ASSUME FaucetInv, NEW t \in Threads, F!poll_done(t)
  PROVE  FaucetInv'
  <1>1. /\ pc[t] = "poll"
        /\ now' = now /\ nonce' = nonce /\ balance' = balance /\ float' = float /\ pending' = pending
        /\ receipts' = receipts /\ served' = served /\ next_nonce' = next_nonce /\ lock' = lock
        /\ last_drip' = last_drip /\ saved' = saved /\ unsaved' = unsaved /\ daily' = daily /\ lost' = lost /\ slips' = slips
    BY DEF F!poll_done, F!chainv, F!node, F!stamps, F!hist
  <1>2. t \notin Unseen
    BY DEF F!poll_done, F!receipt, receipt, Unseen
  <1>3. /\ pc' = [pc EXCEPT ![t] = "idle"] /\ req' = [req EXCEPT ![t] = <<>>] /\ tx' = [tx EXCEPT ![t] = <<>>]
    BY DEF F!poll_done, F!finish, F!goto
  <1>4. FaucetTyped /\ StampInv /\ FlightInv /\ LockInv /\ DripInv
    BY DEF FaucetInv
  <1>5. /\ DOMAIN req' = Threads /\ DOMAIN tx' = Threads
        /\ \A u \in Threads : u # t => req'[u] = req[u] /\ tx'[u] = tx[u]
    BY <1>3, <1>4 DEF FaucetTyped
  <1>6. pc'[t] = "idle" /\ \A u \in Threads : u # t => pc'[u] = pc[u]
    BY <1>3, <1>4 DEF FaucetTyped
  <1>7. t \notin lock
    BY <1>1, <1>4 DEF LockInv
  <1>8. Ends(t)
    BY <1>1, <1>3, <1>5, <1>7 DEF Ends
  <1>9. daily'[1] \in Nat /\ daily'[2] \in 0..DailyCap /\ slips' \in Nat
    BY <1>1, <1>4 DEF FaucetTyped
  <1>10. /\ FaucetTyped' /\ LockInv' /\ DoorInv' /\ Unseen' = Unseen \ {t}
         /\ \A u \in Threads : u # t => mine(u)' = mine(u)
         /\ Good' = Good /\ \A k, a, n : Drip(k, a, n)' <=> Drip(k, a, n)
    BY <1>1, <1>8, <1>9, Ended
  <1>11. RatchetInv'
    BY <1>1, <1>2, <1>8, <1>9, <1>10, EndRatchet
  <1>12. StampInv'
    BY <1>1, <1>4 DEF StampInv
  <1>13. \A u \in Threads : pc'[u] # "idle" =>
            pc[u] # "idle" /\ u # t /\ pc'[u] = pc[u] /\ req'[u] = req[u] /\ tx'[u] = tx[u]
    BY <1>5, <1>6
  <1>14. FlightInv'
    BY <1>1, <1>4, <1>13 DEF FlightInv, key
  <1>15. ASSUME NEW u \in Threads, NEW k \in CoolKeys, NEW a \in Nat, NEW n \in Nat, pc'[u] # "idle",
                k = key(req'[u]), k \notin lost, Drip(k, a, n), a # req'[u].at
         PROVE  req'[u].at - a >= Day
    <2>1. pc[u] # "idle" /\ req'[u] = req[u]
      BY <1>13, <1>15
    <2>2. QED
      BY <1>4, <1>15, <2>1 DEF DripInv
  <1>16. ASSUME NEW u \in Threads, NEW k \in CoolKeys, NEW a \in Nat, NEW n \in Nat, pc'[u] # "idle",
                k = key(req'[u]), k \notin lost, Drip(k, a, n), a = req'[u].at
         PROVE  pc'[u] = "poll" /\ n = tx'[u].nonce /\ (mine(u)' # {} \/ tx'[u] \in Good')
    <2>1. pc[u] # "idle" /\ u # t /\ pc'[u] = pc[u] /\ req'[u] = req[u] /\ tx'[u] = tx[u]
      BY <1>13, <1>16
    <2>2. pc[u] = "poll" /\ n = tx[u].nonce /\ (mine(u) # {} \/ tx[u] \in Good)
      BY <1>4, <1>16, <2>1 DEF DripInv
    <2>3. QED
      BY <1>10, <2>1, <2>2
  <1>17. DripInv'
    <2>1. \A u : key(req[u])' = key(req'[u])
      BY DEF key
    <2>2. QED
      BY <1>1, <1>4, <1>10, <1>15, <1>16, <2>1 DEF DripInv
  <1>18. QED
    BY <1>10, <1>11, <1>12, <1>14, <1>17 DEF FaucetInv

LEMMA RefillInv ==
  ASSUME FaucetInv, F!Refill
  PROVE  FaucetInv'
  <1>1. /\ balance' = balance + 1 + Fee
        /\ float' = float /\ daily' = daily /\ now' = now /\ nonce' = nonce /\ pending' = pending
        /\ receipts' = receipts /\ served' = served /\ next_nonce' = next_nonce /\ lock' = lock
        /\ lost' = lost /\ slips' = slips /\ last_drip' = last_drip /\ saved' = saved /\ unsaved' = unsaved
        /\ pc' = pc /\ req' = req /\ tx' = tx
    BY DEF F!Refill, F!node, F!stamps, F!hist
  <1>2. balance' \in Nat /\ float' \in Nat /\ daily'[1] \in Nat /\ daily'[2] \in 0..DailyCap
    BY <1>1, FaucetAssumption DEF FaucetInv, FaucetTyped
  <1>3. QED
    BY <1>1, <1>2, FaucetIdle

\* The clock: a handler ends within a tick.
LEMMA TickInv ==
  ASSUME FaucetInv, F!Tick
  PROVE  FaucetInv'
  <1>1. /\ now' = now + 1 /\ \A t \in Threads : pc[t] # "idle" => req[t].at = now
        /\ nonce' = nonce /\ balance' = balance /\ float' = float /\ pending' = pending
        /\ receipts' = receipts /\ served' = served /\ next_nonce' = next_nonce /\ lock' = lock
        /\ last_drip' = last_drip /\ saved' = saved /\ unsaved' = unsaved /\ daily' = daily /\ lost' = lost /\ slips' = slips
        /\ pc' = pc /\ req' = req /\ tx' = tx
    BY DEF F!Tick, F!chainv, F!node, F!stamps, F!hist
  <1>2. FaucetTyped /\ StampInv /\ FlightInv /\ LockInv /\ DoorInv /\ RatchetInv /\ DripInv
    BY DEF FaucetInv
  <1>3. Good' = Good /\ Bad' = Bad /\ \A k, a, n : Drip(k, a, n)' <=> Drip(k, a, n)
    BY <1>1, SameNode
  <1>4. \A u \in Threads : mine(u)' = mine(u)
    BY <1>1, SameMine
  <1>5. Busy' = Busy /\ Unseen' = Unseen
    BY <1>1 DEF Busy, Unseen, receipt, mine, key
  <1>6. FaucetTyped'
    <2>1. now \in Nat /\ now' \in Nat
      BY <1>1, <1>2 DEF FaucetTyped
    <2>2. \A p \in pending : p \in Waiting /\ p.at <= now'
      BY <1>1, <1>2, <2>1 DEF FaucetTyped, Waiting
    <2>3. \A d \in served : d \in Served /\ d.at <= now'
      BY <1>1, <1>2, <2>1 DEF FaucetTyped, Served
    <2>4. QED
      BY <1>1, <1>2, <2>1, <2>2, <2>3 DEF FaucetTyped
  <1>7. StampInv'
    BY <1>1, <1>2 DEF StampInv, FaucetTyped, None, Day
  <1>8. FlightInv'
    <2>1. \A t \in Threads : pc[t] # "idle" =>
            /\ req[t] \in Asked /\ req[t].at <= now' /\ now' - req[t].at <= 1
            /\ last_drip[key(req[t])] = req[t].at
      BY <1>1, <1>2 DEF FlightInv, FaucetTyped
    <2>2. QED
      BY <1>1, <1>2, <2>1 DEF FlightInv, key
  <1>9. LockInv'
    BY <1>1, <1>2, <1>5 DEF LockInv
  <1>10. DoorInv'
    BY <1>1, <1>2, <1>3, <1>4 DEF DoorInv
  <1>11. RatchetInv'
    BY <1>1, <1>2, <1>5 DEF RatchetInv
  <1>12. DripInv'
    <2>1. \A k \in CoolKeys, a \in Nat, n \in Nat :
             Drip(k, a, n) /\ k \notin lost => now' - a >= Day \/ last_drip[k] = a
      BY <1>1, <1>2 DEF DripInv, FaucetTyped, Day
    <2>2. QED
      BY <1>1, <1>2, <1>3, <1>4, <2>1 DEF DripInv, key
  <1>13. QED
    BY <1>6, <1>7, <1>8, <1>9, <1>10, <1>11, <1>12 DEF FaucetInv

\* The process starts again: every handler is gone, and the stamps come from
\* the file.
LEMMA RestartInv ==
  ASSUME FaucetInv, NEW readable \in BOOLEAN, F!Restart(readable)
  PROVE  FaucetInv'
  <1>1. /\ next_nonce' = nonce /\ lock' = {} /\ daily' = <<0, 0>>
        /\ pc' = [t \in Threads |-> "idle"]
        /\ req' = [t \in Threads |-> <<>>] /\ tx' = [t \in Threads |-> <<>>]
        /\ slips' = slips + Cardinality(pending)
        /\ now' = now /\ nonce' = nonce /\ balance' = balance /\ float' = float /\ pending' = pending
        /\ receipts' = receipts /\ served' = served /\ unsaved' = {}
    <2>1. next_nonce' = nonce /\ lock' = {} /\ daily' = <<0, 0>>
      BY DEF F!Restart
    <2>2. pc' = [t \in Threads |-> "idle"]
      BY DEF F!Restart
    <2>3. req' = [t \in Threads |-> <<>>] /\ tx' = [t \in Threads |-> <<>>]
      BY DEF F!Restart
    <2>4. /\ slips' = slips + F!Cardinality(pending)
          /\ now' = now /\ nonce' = nonce /\ balance' = balance /\ float' = float /\ pending' = pending
          /\ receipts' = receipts /\ served' = served /\ unsaved' = {}
      BY DEF F!Restart, F!chainv, F!node
    <2>5. QED
      BY <2>1, <2>2, <2>3, <2>4, SameCount
  <1>2. PICK file : /\ file = [k \in CoolKeys |-> IF readable THEN saved[k] ELSE None]
                    /\ last_drip' = [k \in CoolKeys |-> IF now - file[k] < Day THEN file[k] ELSE None]
                    /\ saved' = file
                    /\ lost' = lost \cup unsaved \cup {k \in CoolKeys : saved[k] # file[k]}
    BY DEF F!Restart, F!CoolKeys, CoolKeys, F!Assets, Assets, F!Day, Day, F!None, None
  <1>3. FaucetTyped /\ StampInv /\ DoorInv /\ DripInv
    BY DEF FaucetInv
  <1>4. Good' = Good /\ Bad' = Bad /\ \A k, a, n : Drip(k, a, n)' <=> Drip(k, a, n)
    BY <1>1, SameNode
  <1>5. Cardinality(pending) \in Nat
    BY <1>3, FS_CardinalityType DEF FaucetTyped
  <1>6. FaucetTyped'
    <2>1. pc' \in [Threads -> Stages]
      BY <1>1 DEF Stages
    <2>2. daily'[1] \in Nat /\ daily'[2] \in 0..DailyCap
      BY <1>1, FaucetAssumption
    <2>3. slips' \in Nat /\ next_nonce' \in Nat
      BY <1>1, <1>3, <1>5 DEF FaucetTyped
    <2>4. QED
      BY <1>1, <1>3, <2>1, <2>2, <2>3 DEF FaucetTyped
  <1>7. \A k \in CoolKeys : file[k] \in {None} \cup 0..now /\ file[k] \in Int /\ now \in Nat
    BY <1>2, <1>3 DEF StampInv, FaucetTyped, None
  <1>8. StampInv'
    BY <1>1, <1>2, <1>7, <1>3 DEF StampInv, Day
  <1>9. FlightInv'
    BY <1>1 DEF FlightInv
  <1>10. Busy' = {} /\ Unseen' = {}
    BY <1>1 DEF Busy, Unseen
  <1>11. LockInv'
    BY <1>1, <1>6, <1>10, FS_EmptySet DEF LockInv, FaucetTyped
  <1>12. DoorInv'
    BY <1>1, <1>3, <1>4 DEF DoorInv
  <1>13. RatchetInv'
    <2>1. ASSUME slips' = 0 PROVE pending = {}
      <3>1. Cardinality(pending) = 0
        BY <1>1, <1>3, <1>5, <2>1 DEF FaucetTyped
      <3>2. QED
        BY <1>3, <3>1, FS_EmptySet DEF FaucetTyped
    <2>2. QED
      BY <1>1, <1>3, <1>10, <2>1, FS_EmptySet DEF RatchetInv, FaucetTyped
  <1>14. \A k \in CoolKeys, a \in Nat, n \in Nat :
            Drip(k, a, n) /\ k \notin lost' => now - a >= Day \/ last_drip'[k] = a
    <2> SUFFICES ASSUME NEW k \in CoolKeys, NEW a \in Nat, NEW n \in Nat, Drip(k, a, n), k \notin lost'
                 PROVE  now - a >= Day \/ last_drip'[k] = a
      OBVIOUS
    <2>1. k \notin lost /\ k \notin unsaved /\ saved[k] = file[k]
      BY <1>2
    <2>2. now - a >= Day \/ last_drip[k] = a
      BY <1>3, <2>1 DEF DripInv
    <2>3. last_drip[k] = file[k] \/ last_drip[k] = None
      BY <1>3, <2>1 DEF StampInv
    <2>4. last_drip'[k] = IF now - file[k] < Day THEN file[k] ELSE None
      BY <1>2
    <2>5. QED
      BY <1>7, <2>2, <2>3, <2>4 DEF None, Day
  <1>15. DripInv'
    BY <1>1, <1>2, <1>3, <1>4, <1>14 DEF DripInv
  <1>16. QED
    BY <1>6, <1>8, <1>9, <1>11, <1>12, <1>13, <1>15 DEF FaucetInv

\* A block takes p, the first of the pending drips; the faucet has not moved.
Takes(p) ==
  /\ p \in pending /\ \A q \in pending : p.tx.nonce <= q.tx.nonce
  /\ pending' = pending \ {p}
  /\ UNCHANGED <<now, next_nonce, lock, last_drip, saved, unsaved, daily, pc, req, tx, lost>>

LEMMA TakesFirst ==
  ASSUME FaucetInv, NEW p, Takes(p)
  PROVE  /\ StampInv' /\ FlightInv' /\ LockInv'
         /\ IsFiniteSet(pending') /\ Cardinality(pending') = Cardinality(pending) - 1
         /\ \A q \in pending' : q \in pending /\ q # p /\ p.tx.nonce < q.tx.nonce
         /\ \A u \in Threads : mine(u)' = mine(u) \ {p}
         /\ \A u \in Threads : p \in mine(u) => tx[u] = p.tx
         /\ \A u \in Threads : \A q : q \in mine(u) /\ tx[u] = p.tx => q = p
         /\ p \in Waiting /\ p.at <= now /\ p.tx \in Signed /\ p.tx.nonce \in Nat /\ p.tx.nonce >= nonce
  <1>1. /\ p \in pending /\ \A q \in pending : p.tx.nonce <= q.tx.nonce
        /\ pending' = pending \ {p} /\ now' = now /\ next_nonce' = next_nonce /\ lock' = lock
        /\ last_drip' = last_drip /\ saved' = saved /\ unsaved' = unsaved /\ pc' = pc /\ req' = req /\ tx' = tx
    BY DEF Takes
  <1>2. FaucetTyped /\ StampInv /\ FlightInv /\ LockInv /\ DoorInv
    BY DEF FaucetInv
  <1>3. StampInv' /\ FlightInv'
    BY <1>1, <1>2 DEF StampInv, FlightInv, key
  <1>4. Busy' = Busy
    BY <1>1 DEF Busy
  <1>5. LockInv'
    BY <1>1, <1>2, <1>4 DEF LockInv
  <1>6. IsFiniteSet(pending') /\ Cardinality(pending') = Cardinality(pending) - 1
    <2>1. IsFiniteSet(pending)
      BY <1>2 DEF FaucetTyped
    <2>2. IsFiniteSet(pending')
      BY <1>1, <2>1, FS_Subset
    <2>3. QED
      BY <1>1, <2>1, <2>2, FS_RemoveElement
  <1>7. p \in Waiting /\ p.at <= now /\ p.tx \in Signed /\ p.tx.nonce \in Nat /\ p.tx.nonce >= nonce
    BY <1>1, <1>2 DEF FaucetTyped, DoorInv, Waiting, Signed
  <1>8. ASSUME NEW q \in pending' PROVE q \in pending /\ q # p /\ p.tx.nonce < q.tx.nonce
    <2>1. q \in pending /\ q # p
      BY <1>1
    <2>2. q.tx.nonce \in Nat /\ q.tx.nonce # p.tx.nonce /\ p.tx.nonce <= q.tx.nonce
      BY <1>1, <1>2, <2>1 DEF FaucetTyped, DoorInv, Waiting, Signed
    <2>3. QED
      BY <1>7, <2>1, <2>2
  <1>9. \A u \in Threads : mine(u)' = mine(u) \ {p}
    BY <1>1 DEF mine, key
  <1>10. \A u \in Threads : p \in mine(u) => tx[u] = p.tx
    BY DEF mine
  <1>11. \A u \in Threads : \A q : q \in mine(u) /\ tx[u] = p.tx => q = p
    BY <1>1, <1>2 DEF mine, DoorInv
  <1>12. QED
    BY <1>3, <1>5, <1>6, <1>7, <1>8, <1>9, <1>10, <1>11

\* The drip is paid out.
LEMMA PaidInv ==
  ASSUME FaucetInv, NEW p, Takes(p), p.tx.nonce = nonce, nonce' = nonce + 1,
         balance' \in Nat, float' \in Nat, slips' = slips,
         receipts' = {r \in receipts : r.tx # p.tx} \cup {[tx |-> p.tx, ok |-> TRUE]},
         served' = served \cup {[key |-> p.key, at |-> p.at, nonce |-> p.tx.nonce]}
  PROVE  FaucetInv'
  <1>0. PICK z : z.tx = p.tx /\ z.ok = TRUE /\ receipts' = {r \in receipts : r.tx # p.tx} \cup {z}
    BY Zenon
  <1>1. /\ p \in pending /\ pending' = pending \ {p} /\ now' = now /\ next_nonce' = next_nonce
        /\ lock' = lock /\ last_drip' = last_drip /\ daily' = daily
        /\ pc' = pc /\ req' = req /\ tx' = tx /\ lost' = lost
    BY DEF Takes
  <1>2. FaucetTyped /\ LockInv /\ DoorInv /\ RatchetInv /\ DripInv
    BY DEF FaucetInv
  <1>3. /\ StampInv' /\ FlightInv' /\ LockInv'
        /\ IsFiniteSet(pending') /\ Cardinality(pending') = Cardinality(pending) - 1
        /\ \A q \in pending' : q \in pending /\ q # p /\ p.tx.nonce < q.tx.nonce
        /\ \A u \in Threads : mine(u)' = mine(u) \ {p}
        /\ \A u \in Threads : p \in mine(u) => tx[u] = p.tx
        /\ p \in Waiting /\ p.at <= now /\ p.tx \in Signed /\ p.tx.nonce \in Nat
    BY TakesFirst
  <1>4. Good' = Good \cup {p.tx}
    BY <1>0 DEF Good
  <1>5. Bad' = Bad \ {p.tx}
    BY <1>0 DEF Bad
  <1>6. FaucetTyped'
    <2>1. \A r \in receipts' : r.ok \in BOOLEAN /\ r.tx \in Signed
      BY <1>0, <1>2, <1>3 DEF FaucetTyped
    <2>2. \A d \in served' : d \in Served /\ d.at <= now
      BY <1>2, <1>3 DEF FaucetTyped, Served, Waiting
    <2>3. QED
      BY <1>1, <1>2, <1>3, <2>1, <2>2 DEF FaucetTyped
  <1>7. DoorInv'
    <2>1. \A q, r \in pending' : q.tx.nonce = r.tx.nonce => q = r
      BY <1>2, <1>3 DEF DoorInv
    <2>2. \A q \in pending' : q.tx.nonce >= nonce'
      <3>1. \A q \in pending' : q.tx.nonce \in Nat
        BY <1>2, <1>3 DEF FaucetTyped, Waiting, Signed
      <3>2. QED
        BY <1>3, <3>1
    <2>3. \A x \in Good' : x.nonce < nonce' /\ x \notin Bad'
      <3>1. \A x \in Good : x.nonce \in Nat
        BY <1>2 DEF FaucetTyped, Good, Signed
      <3>2. QED
        BY <1>2, <1>3, <1>4, <1>5, <3>1 DEF DoorInv, FaucetTyped
    <2>4. \A d \in served' : d.nonce < nonce'
      <3>1. \A d \in served : d.nonce \in Nat
        BY <1>2 DEF FaucetTyped, Served
      <3>2. QED
        BY <1>2, <1>3, <3>1 DEF DoorInv, FaucetTyped
    <2>5. \A u \in Threads : pc[u] = "poll" /\ mine(u)' = {} => tx[u] \in Good' \cup Bad'
      BY <1>2, <1>3, <1>4, <1>5 DEF DoorInv
    <2>6. QED
      BY <1>1, <2>1, <2>2, <2>3, <2>4, <2>5 DEF DoorInv
  <1>8. RatchetInv'
    <2> SUFFICES ASSUME slips = 0
                 PROVE  /\ next_nonce = nonce' + Cardinality(pending') + Cardinality(lock) + Cardinality(Unseen')
                        /\ \A u \in Unseen', q \in pending' : tx[u].nonce < q.tx.nonce
      BY <1>1 DEF RatchetInv
    <2>1. /\ next_nonce = nonce + Cardinality(pending) + Cardinality(lock) + Cardinality(Unseen)
          /\ \A u \in Unseen, q \in pending : tx[u].nonce < q.tx.nonce
      BY <1>2 DEF RatchetInv
    <2>2. \A u \in Unseen : tx[u] # p.tx
      BY <1>1, <1>3, <2>1
    <2>3. \A x : (FALSE \in receipt(x)) <=> x \in Bad
      BY BadReceipt
    <2>4. \A u : (FALSE \in receipt(tx[u]))' <=> tx[u] \in Bad'
      BY <1>1 DEF receipt, Bad
    <2>5. Unseen' = {u \in Threads : pc[u] = "poll" /\ tx[u] \in Bad' /\ mine(u)' = {}}
      BY <1>1, <2>4 DEF Unseen
    <2>6. Unseen = {u \in Threads : pc[u] = "poll" /\ tx[u] \in Bad /\ mine(u) = {}}
      BY <2>3 DEF Unseen
    <2>7. Unseen' = Unseen
      BY <1>3, <1>5, <2>2, <2>5, <2>6
    <2>8. Cardinality(pending) \in Nat /\ Cardinality(lock) \in Nat /\ nonce \in Nat /\ next_nonce \in Nat
      <3>1. IsFiniteSet(lock)
        BY <1>2, FS_Subset, FaucetAssumption DEF LockInv
      <3>2. QED
        BY <1>2, <3>1, FS_CardinalityType DEF FaucetTyped
    <2>9. next_nonce = nonce' + Cardinality(pending') + Cardinality(lock) + Cardinality(Unseen')
      BY <1>3, <2>1, <2>7, <2>8, FewHandlers
    <2>10. QED
      BY <1>3, <2>1, <2>7, <2>9
  <1>9. \A k, a, n : Drip(k, a, n)' => Drip(k, a, n)
    <2> SUFFICES ASSUME NEW k, NEW a, NEW n, Drip(k, a, n)' PROVE Drip(k, a, n)
      OBVIOUS
    <2>1. CASE \E q \in pending' : q.key = k /\ q.at = a /\ q.tx.nonce = n
      BY <1>3, <2>1 DEF Drip
    <2>2. CASE \E d \in served' : d.key = k /\ d.at = a /\ d.nonce = n
      <3>1. PICK d \in served' : d.key = k /\ d.at = a /\ d.nonce = n
        BY <2>2
      <3>2. CASE d \in served
        BY <3>1, <3>2 DEF Drip
      <3>3. CASE d \notin served
        <4>1. d = [key |-> p.key, at |-> p.at, nonce |-> p.tx.nonce]
          BY <3>3
        <4>2. k = p.key /\ a = p.at /\ n = p.tx.nonce
          BY <3>1, <4>1
        <4>3. QED
          BY <1>1, <4>2 DEF Drip
      <3>4. QED
        BY <3>2, <3>3
    <2>3. QED
      BY <2>1, <2>2 DEF Drip
  <1>10. ASSUME NEW u \in Threads, NEW k \in CoolKeys, NEW a \in Nat, NEW n \in Nat, pc[u] # "idle",
                k = key(req[u]), k \notin lost, Drip(k, a, n)', a = req[u].at
         PROVE  pc[u] = "poll" /\ n = tx[u].nonce /\ (mine(u)' # {} \/ tx[u] \in Good')
    <2>1. Drip(k, a, n)
      BY <1>9, <1>10
    <2>2. pc[u] = "poll" /\ n = tx[u].nonce /\ (mine(u) # {} \/ tx[u] \in Good)
      BY <1>2, <1>10, <2>1 DEF DripInv
    <2>3. QED
      BY <1>3, <1>4, <2>2
  <1>11. DripInv'
    <2>1. \A u : key(req[u])' = key(req[u])
      BY <1>1 DEF key
    <2>2. \A k \in CoolKeys, a \in Nat, n \in Nat :
             Drip(k, a, n)' /\ k \notin lost => now - a >= Day \/ last_drip[k] = a
      BY <1>2, <1>9 DEF DripInv
    <2>3. \A u \in Threads, k \in CoolKeys, a \in Nat, n \in Nat :
             pc[u] # "idle" /\ k = key(req[u]) /\ k \notin lost /\ Drip(k, a, n)' /\ a # req[u].at
               => req[u].at - a >= Day
      BY <1>2, <1>9 DEF DripInv
    <2>4. \A k \in CoolKeys, a \in Nat, b \in Nat, n \in Nat, m \in Nat :
             Drip(k, a, n)' /\ Drip(k, b, m)' /\ n # m /\ k \notin lost => a - b >= Day \/ b - a >= Day
      BY <1>2, <1>9 DEF DripInv
    <2>5. QED
      BY <1>1, <1>10, <2>1, <2>2, <2>3, <2>4 DEF DripInv
  <1>12. QED
    BY <1>3, <1>6, <1>7, <1>8, <1>11 DEF FaucetInv

\* The drip is refused, and gets a receipt that says so.
LEMMA ReceiptInv ==
  ASSUME FaucetInv, NEW p, Takes(p), nonce' = nonce, balance' = balance, float' = float, served' = served,
         receipts' = {r \in receipts : r.tx # p.tx} \cup {[tx |-> p.tx, ok |-> FALSE]},
         slips' = slips + (IF \E t \in Threads : pc[t] = "poll" /\ tx[t] = p.tx THEN 0 ELSE 1)
  PROVE  FaucetInv'
  <1>0. PICK z : z.tx = p.tx /\ z.ok = FALSE /\ receipts' = {r \in receipts : r.tx # p.tx} \cup {z}
    BY Zenon
  <1>1. /\ p \in pending /\ pending' = pending \ {p} /\ now' = now /\ next_nonce' = next_nonce
        /\ lock' = lock /\ last_drip' = last_drip /\ daily' = daily
        /\ pc' = pc /\ req' = req /\ tx' = tx /\ lost' = lost
    BY DEF Takes
  <1>2. FaucetTyped /\ FlightInv /\ LockInv /\ DoorInv /\ RatchetInv /\ DripInv
    BY DEF FaucetInv
  <1>3. /\ StampInv' /\ FlightInv' /\ LockInv'
        /\ IsFiniteSet(pending') /\ Cardinality(pending') = Cardinality(pending) - 1
        /\ \A q \in pending' : q \in pending /\ q # p /\ p.tx.nonce < q.tx.nonce
        /\ \A u \in Threads : mine(u)' = mine(u) \ {p}
        /\ \A u \in Threads : p \in mine(u) => tx[u] = p.tx
        /\ \A u \in Threads : \A q : q \in mine(u) /\ tx[u] = p.tx => q = p
        /\ p \in Waiting /\ p.tx \in Signed /\ p.tx.nonce \in Nat /\ p.tx.nonce >= nonce
    BY TakesFirst
  <1>4. p.tx \notin Good
    BY <1>2, <1>3 DEF DoorInv, FaucetTyped
  <1>5. Good' = Good
    BY <1>0, <1>4 DEF Good
  <1>6. Bad' = Bad \cup {p.tx}
    BY <1>0 DEF Bad
  <1>7. slips \in Nat /\ slips' \in Nat
    BY <1>2 DEF FaucetTyped
  <1>8. FaucetTyped'
    <2>1. \A r \in receipts' : r.ok \in BOOLEAN /\ r.tx \in Signed
      BY <1>0, <1>2, <1>3 DEF FaucetTyped
    <2>2. QED
      BY <1>1, <1>2, <1>3, <1>7, <2>1 DEF FaucetTyped
  <1>9. DoorInv'
    <2>1. \A q, r \in pending' : q.tx.nonce = r.tx.nonce => q = r
      BY <1>2, <1>3 DEF DoorInv
    <2>2. \A q \in pending' : q.tx.nonce >= nonce
      BY <1>2, <1>3 DEF DoorInv
    <2>3. \A x \in Good : x.nonce < nonce /\ x \notin Bad'
      BY <1>2, <1>4, <1>6 DEF DoorInv
    <2>4. \A u \in Threads : pc[u] = "poll" /\ mine(u)' = {} => tx[u] \in Good \cup Bad'
      BY <1>2, <1>3, <1>6 DEF DoorInv
    <2>5. \A d \in served' : d.nonce < nonce
      BY <1>2 DEF DoorInv
    <2>6. QED
      BY <1>1, <1>5, <2>1, <2>2, <2>3, <2>4, <2>5 DEF DoorInv
  <1>10. RatchetInv'
    <2> SUFFICES ASSUME slips' = 0
                 PROVE  /\ next_nonce = nonce + Cardinality(pending') + Cardinality(lock) + Cardinality(Unseen')
                        /\ \A u \in Unseen', q \in pending' : tx[u].nonce < q.tx.nonce
      BY <1>1 DEF RatchetInv
    <2>1. slips = 0 /\ \E t \in Threads : pc[t] = "poll" /\ tx[t] = p.tx
      BY <1>7
    <2>2. PICK t \in Threads : pc[t] = "poll" /\ tx[t] = p.tx
      BY <2>1
    <2>3. /\ next_nonce = nonce + Cardinality(pending) + Cardinality(lock) + Cardinality(Unseen)
          /\ \A u \in Unseen, q \in pending : tx[u].nonce < q.tx.nonce
      BY <1>2, <2>1 DEF RatchetInv
    <2>4. \A u \in Unseen : tx[u] # p.tx
      BY <1>1, <1>3, <2>3
    <2>5. Unseen = {u \in Threads : pc[u] = "poll" /\ tx[u] \in Bad /\ mine(u) = {}}
      BY BadReceipt DEF Unseen
    <2>6. Unseen' = {u \in Threads : pc[u] = "poll" /\ tx[u] \in Bad' /\ mine(u)' = {}}
      <3>1. \A u : (FALSE \in receipt(tx[u]))' <=> tx[u] \in Bad'
        BY <1>1 DEF receipt, Bad
      <3>2. QED
        BY <1>1, <3>1 DEF Unseen
    <2>7. ASSUME NEW u \in Threads, pc[u] = "poll", tx[u] = p.tx PROVE p \in mine(u)
      <3>1. CASE mine(u) = {}
        <4>1. tx[u] \in Bad
          BY <1>2, <1>4, <2>7, <3>1 DEF DoorInv
        <4>2. QED
          BY <2>4, <2>5, <2>7, <3>1, <4>1
      <3>2. CASE mine(u) # {}
        BY <1>3, <2>7, <3>2
      <3>3. QED
        BY <3>1, <3>2
    <2>8. \A u \in Threads : pc[u] = "poll" /\ tx[u] = p.tx => u = t
      <3> SUFFICES ASSUME NEW u \in Threads, pc[u] = "poll", tx[u] = p.tx PROVE u = t
        OBVIOUS
      <3>1. p \in mine(u) /\ p \in mine(t)
        BY <2>2, <2>7
      <3>2. key(req[u]) = key(req[t])
        BY <3>1 DEF mine
      <3>3. QED
        BY <1>2, <2>2, <3>2 DEF FlightInv
    <2>9. mine(t)' = {}
      BY <1>3, <2>2
    <2>10. Unseen' = Unseen \cup {t} /\ t \notin Unseen
      <3>1. t \notin Unseen
        BY <2>2, <2>4
      <3>2. \A u \in Unseen : u \in Unseen'
        BY <1>3, <1>6, <2>5, <2>6
      <3>3. t \in Unseen'
        BY <1>6, <2>2, <2>6, <2>9
      <3>4. ASSUME NEW u \in Unseen' PROVE u \in Unseen \/ u = t
        <4>1. u \in Threads /\ pc[u] = "poll" /\ tx[u] \in Bad' /\ mine(u)' = {}
          BY <2>6
        <4>2. CASE tx[u] = p.tx
          BY <2>8, <4>1, <4>2
        <4>3. CASE tx[u] # p.tx
          <5>1. tx[u] \in Bad
            BY <1>6, <4>1, <4>3
          <5>2. p \notin mine(u)
            BY <1>3, <4>1, <4>3
          <5>3. mine(u) = {}
            BY <1>3, <4>1, <5>2
          <5>4. QED
            BY <2>5, <4>1, <5>1, <5>3
        <4>4. QED
          BY <4>2, <4>3
      <3>5. QED
        BY <3>1, <3>2, <3>3, <3>4
    <2>11. Cardinality(Unseen') = Cardinality(Unseen) + 1
      BY <2>10, FewHandlers, FS_AddElement
    <2>12. Cardinality(pending) \in Nat /\ Cardinality(lock) \in Nat /\ nonce \in Nat /\ next_nonce \in Nat
      <3>1. IsFiniteSet(lock)
        BY <1>2, FS_Subset, FaucetAssumption DEF LockInv
      <3>2. QED
        BY <1>2, <3>1, FS_CardinalityType DEF FaucetTyped
    <2>13. next_nonce = nonce + Cardinality(pending') + Cardinality(lock) + Cardinality(Unseen')
      BY <1>3, <2>3, <2>11, <2>12, FewHandlers
    <2>14. \A u \in Unseen', q \in pending' : tx[u].nonce < q.tx.nonce
      BY <1>3, <2>2, <2>3, <2>10
    <2>15. QED
      BY <2>13, <2>14
  <1>11. \A k, a, n : Drip(k, a, n)' => Drip(k, a, n)
    BY <1>3 DEF Drip
  <1>12. \A k, a, n : Drip(k, a, n)' => n # p.tx.nonce
    <2> SUFFICES ASSUME NEW k, NEW a, NEW n, Drip(k, a, n)' PROVE n # p.tx.nonce
      OBVIOUS
    <2>1. CASE \E q \in pending' : q.key = k /\ q.at = a /\ q.tx.nonce = n
      BY <1>1, <1>2, <1>3, <2>1 DEF DoorInv
    <2>2. CASE \E d \in served : d.key = k /\ d.at = a /\ d.nonce = n
      <3>1. \A d \in served : d.nonce < nonce /\ d.nonce \in Nat /\ nonce \in Nat
        BY <1>2 DEF DoorInv, FaucetTyped, Served
      <3>2. QED
        BY <1>3, <2>2, <3>1
    <2>3. QED
      BY <2>1, <2>2 DEF Drip
  <1>13. ASSUME NEW u \in Threads, NEW k \in CoolKeys, NEW a \in Nat, NEW n \in Nat, pc[u] # "idle",
                k = key(req[u]), k \notin lost, Drip(k, a, n)', a = req[u].at
         PROVE  pc[u] = "poll" /\ n = tx[u].nonce /\ (mine(u)' # {} \/ tx[u] \in Good)
    <2>1. Drip(k, a, n) /\ n # p.tx.nonce
      BY <1>11, <1>12, <1>13
    <2>2. pc[u] = "poll" /\ n = tx[u].nonce /\ (mine(u) # {} \/ tx[u] \in Good)
      BY <1>2, <1>13, <2>1 DEF DripInv
    <2>3. p \notin mine(u)
      BY <1>3, <2>1, <2>2
    <2>4. QED
      BY <1>3, <2>2, <2>3
  <1>14. DripInv'
    <2>1. \A u : key(req[u])' = key(req[u])
      BY <1>1 DEF key
    <2>2. \A k \in CoolKeys, a \in Nat, n \in Nat :
             Drip(k, a, n)' /\ k \notin lost => now - a >= Day \/ last_drip[k] = a
      BY <1>2, <1>11 DEF DripInv
    <2>3. \A u \in Threads, k \in CoolKeys, a \in Nat, n \in Nat :
             pc[u] # "idle" /\ k = key(req[u]) /\ k \notin lost /\ Drip(k, a, n)' /\ a # req[u].at
               => req[u].at - a >= Day
      BY <1>2, <1>11 DEF DripInv
    <2>4. \A k \in CoolKeys, a \in Nat, b \in Nat, n \in Nat, m \in Nat :
             Drip(k, a, n)' /\ Drip(k, b, m)' /\ n # m /\ k \notin lost => a - b >= Day \/ b - a >= Day
      BY <1>2, <1>11 DEF DripInv
    <2>5. QED
      BY <1>1, <1>5, <1>13, <2>1, <2>2, <2>3, <2>4 DEF DripInv
  <1>15. QED
    BY <1>3, <1>8, <1>9, <1>10, <1>14 DEF FaucetInv

LEMMA CommitInv ==
  ASSUME FaucetInv, F!Commit
  PROVE  FaucetInv'
  <1>1. PICK p \in pending :
          /\ \A q \in pending : p.tx.nonce <= q.tx.nonce
          /\ pending' = pending \ {p}
          /\ receipts' = {r \in receipts : r.tx # p.tx} \cup {[tx |-> p.tx, ok |-> F!can_apply(p.tx)]}
          /\ IF F!can_apply(p.tx)
             THEN /\ nonce' = nonce + 1 /\ exists' = TRUE
                  /\ balance' = balance - Fee - (IF p.tx.asset = "native" THEN 1 ELSE 0)
                  /\ float' = float - (IF p.tx.asset = "issued" THEN 1 ELSE 0)
                  /\ served' = served \cup {[key |-> p.key, at |-> p.at, nonce |-> p.tx.nonce]}
                  /\ UNCHANGED slips
             ELSE /\ UNCHANGED <<F!chainv, served>>
                  /\ slips' = slips + (IF \E t \in Threads : pc[t] = "poll" /\ tx[t] = p.tx THEN 0 ELSE 1)
          /\ UNCHANGED <<now, requests, next_nonce, lock, F!stamps, pc, req, tx, faults, lost>>
    BY Zenon DEF F!Commit
  <1>2. Takes(p)
    BY <1>1 DEF Takes, F!stamps
  <1>3. CASE F!can_apply(p.tx)
    <2>1. /\ p.tx.nonce = nonce
          /\ balance >= Fee + (IF p.tx.asset = "native" THEN 1 ELSE 0)
          /\ p.tx.asset = "issued" => float >= 1
      BY <1>3 DEF F!can_apply
    <2>2. balance' \in Nat /\ float' \in Nat
      BY <1>1, <1>3, <2>1, FaucetAssumption DEF FaucetInv, FaucetTyped
    <2>3. F!can_apply(p.tx) = TRUE
      BY <1>3 DEF F!can_apply
    <2>4. receipts' = {r \in receipts : r.tx # p.tx} \cup {[tx |-> p.tx, ok |-> TRUE]}
      BY <1>1, <2>3, Zenon
    <2>5. /\ nonce' = nonce + 1 /\ slips' = slips
          /\ served' = served \cup {[key |-> p.key, at |-> p.at, nonce |-> p.tx.nonce]}
      BY <1>1, <1>3, Zenon
    <2>6. QED
      BY <1>2, <2>1, <2>2, <2>4, <2>5, PaidInv, Zenon
  <1>4. CASE ~F!can_apply(p.tx)
    <2>1. F!can_apply(p.tx) = FALSE
      BY <1>4 DEF F!can_apply
    <2>2. receipts' = {r \in receipts : r.tx # p.tx} \cup {[tx |-> p.tx, ok |-> FALSE]}
      BY <1>1, <2>1, Zenon
    <2>3. UNCHANGED <<F!chainv, served>>
      BY <1>1, <1>4, Zenon
    <2>4. slips' = slips + (IF \E t \in Threads : pc[t] = "poll" /\ tx[t] = p.tx THEN 0 ELSE 1)
      BY <1>1, <1>4, Zenon
    <2>5. nonce' = nonce /\ balance' = balance /\ float' = float /\ served' = served
      BY <2>3 DEF F!chainv
    <2>6. QED
      BY <1>2, <2>2, <2>4, <2>5, ReceiptInv, Zenon
  <1>5. QED
    BY <1>3, <1>4

LEMMA FaucetStep == FaucetInv /\ [F!Next]_F!vars => FaucetInv'
  <1> SUFFICES ASSUME FaucetInv, [F!Next]_F!vars PROVE FaucetInv'
    OBVIOUS
  <1>1. ASSUME NEW t \in Threads, F!Handler(t) PROVE FaucetInv'
    <2>1. CASE \E r \in F!Requests : F!rate_limit(t, r)
      BY <2>1, AskInv
    <2>2. CASE F!parse_target(t)
      BY <2>2, ParseInv
    <2>3. CASE F!reserve_floor(t)
      BY <2>3, FloorInv
    <2>4. CASE F!sign(t)
      BY <2>4, SignInv
    <2>5. CASE F!submit(t)
      BY <2>5, SubmitInv
    <2>6. CASE F!poll_rejected(t)
      BY <2>6, RejectedInv
    <2>7. CASE F!poll_done(t)
      BY <2>7, DoneInv
    <2>8. QED
      BY <1>1, <2>1, <2>2, <2>3, <2>4, <2>5, <2>6, <2>7 DEF F!Handler
  <1>2. CASE F!Commit
    BY <1>2, CommitInv
  <1>3. CASE F!Tick
    BY <1>3, TickInv
  <1>4. CASE F!Refill
    BY <1>4, RefillInv
  <1>5. CASE \E readable \in BOOLEAN : F!Restart(readable)
    BY <1>5, RestartInv
  <1>6. CASE UNCHANGED F!vars
    <2>1. /\ balance' = balance /\ float' = float /\ daily' = daily
          /\ UNCHANGED <<now, nonce, pending, receipts, served, next_nonce, lock, lost, slips,
                         last_drip, saved, unsaved, pc, req, tx>>
      BY <1>6 DEF F!vars, F!chainv, F!node, F!stamps, F!hist
    <2>2. balance' \in Nat /\ float' \in Nat /\ daily'[1] \in Nat /\ daily'[2] \in 0..DailyCap
      BY <2>1 DEF FaucetInv, FaucetTyped
    <2>3. QED
      BY <2>1, <2>2, FaucetIdle
  <1>7. QED
    BY <1>1, <1>2, <1>3, <1>4, <1>5, <1>6 DEF F!Next

\* The faucet keeps its stamps, its signer's lock, its ratchet and its callers'
\* drips in the relation that the handlers count on, whatever they interleave.
THEOREM FaucetInvariant == F!Spec => []FaucetInv
  <1>1. QED
    BY FaucetInit, FaucetStep, PTL DEF F!Spec

\* The ratchet is ahead of the chain by exactly what is under way.
THEOREM FaucetRatchetInStep == F!Spec => []RatchetInStep
  <1>1. FaucetInv => RatchetInStep
    <2> SUFFICES ASSUME FaucetInv PROVE RatchetInStep
      OBVIOUS
    <2>1. FaucetTypeOK
      <3>1. \A t \in Threads : pc[t] \in Stages
        BY DEF FaucetInv, FaucetTyped
      <3>2. QED
        BY <3>1 DEF FaucetInv, FaucetTyped, StampInv, LockInv, FaucetTypeOK, Stages
    <2>2. slips = 0 =>
            next_nonce = nonce + Cardinality(pending) + Cardinality(lock) + Cardinality(Unseen)
      BY DEF FaucetInv, RatchetInv
    <2>3. QED
      BY <2>1, <2>2 DEF RatchetInStep, Unseen
  <1>2. QED
    BY <1>1, FaucetInvariant, PTL

\* A caller has one drip of an asset in a cooldown.
THEOREM FaucetOneDripPerWindow == F!Spec => []OneDripPerWindow
  <1>1. FaucetInv => OneDripPerWindow
    <2> SUFFICES ASSUME FaucetInv, NEW a \in served, NEW b \in served, a.nonce # b.nonce, a.key = b.key,
                        a.at <= b.at, b.at - a.at < Day, a.key \notin lost
                 PROVE  FALSE
      BY DEF OneDripPerWindow
    <2>1. PICK k \in CoolKeys, i \in Nat, j \in Nat, n \in Nat, m \in Nat :
             k = a.key /\ i = a.at /\ j = b.at /\ n = a.nonce /\ m = b.nonce
      BY DEF FaucetInv, FaucetTyped, Served
    <2>2. Drip(k, i, n) /\ Drip(k, j, m)
      BY <2>1 DEF Drip
    <2>3. i - j >= Day \/ j - i >= Day
      BY <2>1, <2>2 DEF FaucetInv, DripInv
    <2>4. QED
      BY <2>1, <2>3 DEF Day
  <1>2. QED
    BY <1>1, FaucetInvariant, PTL

=============================================================================
