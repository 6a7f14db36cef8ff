--------------------------- MODULE ValidatorProofs ---------------------------
(***************************************************************************)
(* Proofs about a validator's keys.  Of ValidatorSet.tla, for every        *)
(* genesis, certificate, block and crash: the set is one the engine can    *)
(* run on, and the node holds what the decided blocks give, with a history *)
(* that answers every height with the set that signs it and a live signer  *)
(* on the tree its seat has.  Of Rotation.tla, for every interleaving of   *)
(* issues, queues, proposals and restarts: what a proposal carries is      *)
(* applied, and the signer follows the seat.  Of HashSigner.tla (last      *)
(* part), for every number of epochs, capacity and floors: no leaf of any  *)
(* tree signs twice.                                                       *)
(*                                                                         *)
(* A block is a loop over its certificates and a restart a loop over       *)
(* blocks.  The first part shows that a loop runs through states that      *)
(* follow from one another.                                                *)
(***************************************************************************)
EXTENDS ValidatorSet, RotationState, LeafUse, SequenceTheorems, FiniteSetTheorems, NaturalsInduction, TLAPS

-----------------------------------------------------------------------------
(* Loops                                                                   *)

RT == INSTANCE Rotation

\* The bodies of the loops, as data: what one turn with element t makes of x.
turn(op, x, t) ==
  CASE op[1] = "rotate"  -> rotate(x, t, op[2])
    [] op[1] = "change"  -> set_change(x, t)
    [] op[1] = "block"   -> apply_block(x, t, op[2])
    [] op[1] = "rotated" -> RT!rotated(x, t)
    [] op[1] = "changed" -> RT!changed(x, t)
    [] op[1] = "retire"  -> RT!retired(x, t)
    [] op[1] = "follow"  -> RT!rotate(x, t)
    [] op[1] = "retain"  -> IF t \in op[2] THEN Append(x, t) ELSE x
    [] OTHER             -> x

\* g is the fold of the loop over the subsets of 1..n in D.
IsLoop(g, op, base, q, D) ==
  g = [s \in D |-> IF s = {} THEN base ELSE turn(op, g[s \ {Max(s)}], q[Max(s)])]

\* The states a loop runs through.
IsRun(r, op, base, q) ==
  /\ r[0] = base
  /\ \A i \in 1..Len(q) : r[i] = turn(op, r[i - 1], q[i])

\* A set of naturals that is not empty has a least element.
LEMMA Least ==
  ASSUME NEW S \in SUBSET Nat, S # {}
  PROVE  \E a \in S : \A b \in S : a <= b
  <1> DEFINE R == OpToRel(<, Nat)
  <1>1. PICK a \in S : \A b \in S : ~ (<<b, a>> \in R)
    BY NatLessThanWellFounded, WFMin
  <1>2. \A b \in Nat : b < a => <<b, a>> \in R
    BY DEF OpToRel
  <1> HIDE DEF R
  <1>3. ASSUME NEW b \in S PROVE a <= b
    <2>1. a \in Nat /\ b \in Nat /\ ~ (<<b, a>> \in R)
      BY <1>1
    <2>2. QED
      BY <1>2, <2>1
  <1>4. QED
    BY <1>3

\* The largest element of a finite set of naturals.
LEMMA MaxOf ==
  ASSUME NEW n \in Nat, NEW s \in SUBSET (1..n), s # {}
  PROVE  Max(s) \in s /\ \A x \in s : x <= Max(s)
  <1> DEFINE U == {u \in Nat : \A x \in s : x <= u}
  <1>1. U \in SUBSET Nat /\ U # {}
    <2>1. n \in U
      OBVIOUS
    <2>2. QED
      BY <2>1
  <1>2. PICK u \in U : \A v \in U : u <= v
    <2> HIDE DEF U
    <2>1. QED
      BY <1>1, Least
  <1>3. u \in s
    <2>1. SUFFICES ASSUME u \notin s PROVE FALSE
      OBVIOUS
    <2>2. PICK x \in s : TRUE
      OBVIOUS
    <2>3. u \in Nat /\ x <= u /\ x \in 1..n
      BY <2>2
    <2>4. u - 1 \in U
      BY <2>1, <2>3
    <2>5. QED
      BY <1>2, <2>3, <2>4
  <1>4. \E x \in s : \A y \in s : x >= y
    BY <1>3
  <1>5. Max(s) \in s /\ \A y \in s : Max(s) >= y
    BY <1>4 DEF Max
  <1>6. QED
    BY <1>5

\* What holds at the start of a count and passes on holds at its end.
LEMMA Climb ==
  ASSUME NEW n \in Nat, NEW G, 0 \in G, \A i \in 1..n : i - 1 \in G => i \in G
  PROVE  \A i \in 0..n : i \in G
  <1> DEFINE B == {i \in 0..n : i \notin G}
  <1>1. SUFFICES ASSUME B # {} PROVE FALSE
    OBVIOUS
  <1>2. PICK b \in B : \A v \in B : b <= v
    <2>1. B \in SUBSET Nat
      OBVIOUS
    <2> HIDE DEF B
    <2>2. QED
      BY <1>1, <2>1, Least
  <1>3. b \in 1..n /\ b \notin G
    OBVIOUS
  <1>4. b - 1 \in B
    BY <1>3
  <1>5. QED
    BY <1>2, <1>3, <1>4

\* The fold of a loop exists, whatever its body.
LEMMA LoopExtends ==
  ASSUME NEW op, NEW base, NEW q, NEW n \in Nat, NEW g, IsLoop(g, op, base, q, SUBSET (1..n))
  PROVE  \E h : IsLoop(h, op, base, q, SUBSET (1..(n + 1)))
  <1> DEFINE D == SUBSET (1..(n + 1))
             h == [s \in D |-> IF s = {} THEN base ELSE turn(op, g[s \ {Max(s)}], q[Max(s)])]
  <1>1. ASSUME NEW s \in D, s # {} PROVE s \ {Max(s)} \in SUBSET (1..n)
    <2>1. PICK k \in Nat : k = n + 1
      OBVIOUS
    <2>2. s \in SUBSET (1..k)
      BY <2>1
    <2>3. Max(s) \in s /\ \A x \in s : x <= Max(s)
      BY <1>1, <2>2, MaxOf
    <2>4. \A x \in s : x \in 1..(n + 1)
      OBVIOUS
    <2>5. ASSUME NEW x \in s, x # Max(s) PROVE x \in 1..n
      <3>1. x <= Max(s) /\ x \in 1..(n + 1) /\ Max(s) \in 1..(n + 1)
        BY <2>3, <2>4
      <3>2. QED
        BY <2>5, <3>1
    <2>6. QED
      BY <2>5
  <1>2. ASSUME NEW t \in SUBSET (1..n) PROVE t \in D /\ h[t] = g[t]
    <2>1. t \in D
      OBVIOUS
    <2>2. g[t] = IF t = {} THEN base ELSE turn(op, g[t \ {Max(t)}], q[Max(t)])
      BY DEF IsLoop
    <2>3. QED
      BY <2>1, <2>2
  <1>3. h = [s \in D |-> IF s = {} THEN base ELSE turn(op, h[s \ {Max(s)}], q[Max(s)])]
    BY <1>1, <1>2
  <1> HIDE DEF h
  <1>4. QED
    BY <1>3 DEF IsLoop

\* So there is one for every sequence.
LEMMA LoopExists ==
  ASSUME NEW op, NEW base, NEW q, NEW n \in Nat
  PROVE  \E g : IsLoop(g, op, base, q, SUBSET (1..n))
  <1> DEFINE G == {i \in Nat : \E g : IsLoop(g, op, base, q, SUBSET (1..i))}
  <1>1. 0 \in G
    <2>1. SUBSET (1..0) = {{}}
      OBVIOUS
    <2>2. IsLoop([s \in {{}} |-> base], op, base, q, SUBSET (1..0))
      BY <2>1 DEF IsLoop
    <2>3. QED
      BY <2>2
  <1>2. \A i \in 1..n : i - 1 \in G => i \in G
    <2>1. SUFFICES ASSUME NEW i \in 1..n, i - 1 \in G PROVE i \in G
      OBVIOUS
    <2>2. PICK g : IsLoop(g, op, base, q, SUBSET (1..(i - 1)))
      BY <2>1
    <2>3. \E h : IsLoop(h, op, base, q, SUBSET (1..((i - 1) + 1)))
      BY <2>1, <2>2, LoopExtends
    <2>4. (i - 1) + 1 = i
      OBVIOUS
    <2>5. QED
      BY <2>3, <2>4
  <1> HIDE DEF G
  <1>3. n \in G
    BY <1>1, <1>2, Climb
  <1>4. QED
    BY <1>3 DEF G

\* A fold over a sequence ends in the last state of a run of the loop.
LEMMA LoopRuns ==
  ASSUME NEW op, NEW base, NEW q, Len(q) \in Nat, NEW g,
         IsLoop(g, op, base, q, SUBSET (1..Len(q)))
  PROVE  \E r : IsRun(r, op, base, q) /\ r[Len(q)] = g[1..Len(q)]
  <1> DEFINE n == Len(q)
             r == [i \in 0..n |-> g[1..i]]
  <1>1. r[0] = base
    <2>1. 1..0 = {}
      OBVIOUS
    <2>2. QED
      BY <2>1 DEF IsLoop
  <1>2. ASSUME NEW i \in 1..n PROVE r[i] = turn(op, r[i - 1], q[i])
    <2>1. 1..i \in SUBSET (1..n) /\ 1..i # {}
      OBVIOUS
    <2>2. Max(1..i) = i
      <3>1. PICK s \in SUBSET (1..n) : s = 1..i /\ s # {}
        BY <2>1
      <3>2. Max(s) \in s /\ \A x \in s : x <= Max(s)
        BY <3>1, MaxOf
      <3>3. i \in s /\ \A x \in s : x \in Nat /\ x <= i
        BY <3>1
      <3>4. PICK m : m = Max(s)
        OBVIOUS
      <3>5. m \in Nat /\ m <= i /\ i <= m
        BY <3>2, <3>3, <3>4
      <3>6. m = i
        BY <3>5
      <3>7. QED
        BY <3>1, <3>4, <3>6
    <2>3. (1..i) \ {i} = 1..(i - 1)
      OBVIOUS
    <2>4. g[1..i] = turn(op, g[1..(i - 1)], q[i])
      BY <2>1, <2>2, <2>3 DEF IsLoop
    <2>5. QED
      BY <2>4
  <1>3. r[n] = g[1..n]
    OBVIOUS
  <1> HIDE DEF r
  <1>4. QED
    BY <1>1, <1>2, <1>3 DEF IsRun

\* The three folds of the model.
RotateLoop(n, replay, q) == FoldLeft(LAMBDA m, c : rotate(m, c, replay), n, q)
ChangeLoop(n, q) == FoldLeft(set_change, n, q)
BlockLoop(n, replay, q) == FoldLeft(LAMBDA m, b : apply_block(m, b, replay), n, q)

\* The loop over the rotations of a block.
LEMMA RotateRuns ==
  ASSUME NEW n, NEW replay, NEW q, Len(q) \in Nat, DOMAIN q = 1..Len(q)
  PROVE  \E r : IsRun(r, <<"rotate", replay>>, n, q) /\ r[Len(q)] = RotateLoop(n, replay, q)
  <1> DEFINE op == <<"rotate", replay>>
             D == SUBSET DOMAIN q
             h == CHOOSE g : g = [s \in D |-> IF s = {} THEN n ELSE rotate(g[s \ {Max(s)}], q[Max(s)], replay)]
  <1>1. RotateLoop(n, replay, q) = h[DOMAIN q]
    BY DEF RotateLoop, FoldLeft, MapThenFoldSet
  <1>2. \A x, t : turn(op, x, t) = rotate(x, t, replay)
    BY DEF turn
  <1>3. PICK g : IsLoop(g, op, n, q, SUBSET (1..Len(q)))
    BY LoopExists
  <1>4. g = [s \in D |-> IF s = {} THEN n ELSE rotate(g[s \ {Max(s)}], q[Max(s)], replay)]
    BY <1>2, <1>3 DEF IsLoop
  <1>5. h = [s \in D |-> IF s = {} THEN n ELSE rotate(h[s \ {Max(s)}], q[Max(s)], replay)]
    BY <1>4
  <1> HIDE DEF h
  <1>6. IsLoop(h, op, n, q, SUBSET (1..Len(q)))
    BY <1>2, <1>5 DEF IsLoop
  <1>7. QED
    BY <1>1, <1>6, LoopRuns

\* The loop over the set changes of a block.
LEMMA ChangeRuns ==
  ASSUME NEW n, NEW q, Len(q) \in Nat, DOMAIN q = 1..Len(q)
  PROVE  \E r : IsRun(r, <<"change", 0>>, n, q) /\ r[Len(q)] = ChangeLoop(n, q)
  <1> DEFINE op == <<"change", 0>>
             D == SUBSET DOMAIN q
             h == CHOOSE g : g = [s \in D |-> IF s = {} THEN n ELSE set_change(g[s \ {Max(s)}], q[Max(s)])]
  <1>1. ChangeLoop(n, q) = h[DOMAIN q]
    BY DEF ChangeLoop, FoldLeft, MapThenFoldSet
  <1>2. \A x, t : turn(op, x, t) = set_change(x, t)
    BY DEF turn
  <1>3. PICK g : IsLoop(g, op, n, q, SUBSET (1..Len(q)))
    BY LoopExists
  <1>4. g = [s \in D |-> IF s = {} THEN n ELSE set_change(g[s \ {Max(s)}], q[Max(s)])]
    BY <1>2, <1>3 DEF IsLoop
  <1>5. h = [s \in D |-> IF s = {} THEN n ELSE set_change(h[s \ {Max(s)}], q[Max(s)])]
    BY <1>4
  <1> HIDE DEF h
  <1>6. IsLoop(h, op, n, q, SUBSET (1..Len(q)))
    BY <1>2, <1>5 DEF IsLoop
  <1>7. QED
    BY <1>1, <1>6, LoopRuns

\* The loop over the blocks of a replay.
LEMMA BlockRuns ==
  ASSUME NEW n, NEW replay, NEW q, Len(q) \in Nat, DOMAIN q = 1..Len(q)
  PROVE  \E r : IsRun(r, <<"block", replay>>, n, q) /\ r[Len(q)] = BlockLoop(n, replay, q)
  <1> DEFINE op == <<"block", replay>>
             D == SUBSET DOMAIN q
             h == CHOOSE g : g = [s \in D |-> IF s = {} THEN n ELSE apply_block(g[s \ {Max(s)}], q[Max(s)], replay)]
  <1>1. BlockLoop(n, replay, q) = h[DOMAIN q]
    BY DEF BlockLoop, FoldLeft, MapThenFoldSet
  <1>2. \A x, t : turn(op, x, t) = apply_block(x, t, replay)
    BY DEF turn
  <1>3. PICK g : IsLoop(g, op, n, q, SUBSET (1..Len(q)))
    BY LoopExists
  <1>4. g = [s \in D |-> IF s = {} THEN n ELSE apply_block(g[s \ {Max(s)}], q[Max(s)], replay)]
    BY <1>2, <1>3 DEF IsLoop
  <1>5. h = [s \in D |-> IF s = {} THEN n ELSE apply_block(h[s \ {Max(s)}], q[Max(s)], replay)]
    BY <1>4
  <1> HIDE DEF h
  <1>6. IsLoop(h, op, n, q, SUBSET (1..Len(q)))
    BY <1>2, <1>5 DEF IsLoop
  <1>7. QED
    BY <1>1, <1>6, LoopRuns

\* Two runs of one loop, over sequences that agree up to n.
TwoRuns(r, s, op, base, p, q, n) ==
  /\ n \in Nat /\ Len(p) \in Nat /\ Len(q) \in Nat /\ n <= Len(p) /\ n <= Len(q)
  /\ IsRun(r, op, base, p) /\ IsRun(s, op, base, q)
  /\ \A i \in 1..n : p[i] = q[i]

\* They have reached the same state there.
LEMMA RunsAgree ==
  ASSUME NEW op, NEW base, NEW p, NEW q, NEW r, NEW s, NEW n,
         TwoRuns(r, s, op, base, p, q, n)
  PROVE  r[n] = s[n]
  <1>0. /\ n \in Nat /\ Len(p) \in Nat /\ Len(q) \in Nat /\ n <= Len(p) /\ n <= Len(q)
        /\ IsRun(r, op, base, p) /\ IsRun(s, op, base, q)
        /\ \A i \in 1..n : p[i] = q[i]
    BY DEF TwoRuns
  <1> DEFINE G == {i \in Nat : r[i] = s[i]}
  <1>1. 0 \in G
    BY <1>0 DEF IsRun
  <1>2. ASSUME NEW i \in 1..n, i - 1 \in G PROVE i \in G
    <2>1. r[i - 1] = s[i - 1] /\ i \in 1..Len(p) /\ i \in 1..Len(q) /\ p[i] = q[i]
      BY <1>0, <1>2
    <2>2. r[i] = turn(op, r[i - 1], p[i]) /\ s[i] = turn(op, s[i - 1], q[i])
      BY <1>0, <2>1 DEF IsRun
    <2>3. QED
      BY <2>1, <2>2
  <1>3. n \in G
    <2> HIDE DEF G
    <2>1. \A i \in 0..n : i \in G
      BY <1>0, <1>1, <1>2, Climb
    <2>2. QED
      BY <1>0, <2>1
  <1>4. QED
    BY <1>3

-----------------------------------------------------------------------------
(* One certificate                                                         *)

\* What a seat is.
Seats == [address : Keys, public_key : Keys, epoch : Nat, voting_power : 1..MAX_VOTING_POWER]

\* What a validator set is: a seat for some of the roots.
Sets == UNION {[S -> Seats] : S \in SUBSET Roots}

\* A set that the engine can run on.
Runnable(v) ==
  /\ v \in Sets
  /\ DOMAIN v # {}
  /\ \A r, s \in DOMAIN v : v[r].address = v[s].address => r = s

\* A rotated seat of this node has the key of the tree of its epoch.
OwnKey(v) ==
  Me \in DOMAIN v => v[Me].epoch = 0 \/ v[Me].public_key = op_key[v[Me].epoch]

\* So has a seat that was never admitted by certificate.
GenesisKey(v) == Me \in DOMAIN v => v[Me].public_key = op_key[v[Me].epoch]

\* What the set history and the applied certificates hold.
Entries == [from : Nat, set : Sets]
Certs == RotationCerts \cup SetChangeCerts

\* What a node is.
Nodes == [height : Nat, validators : Sets, set_history : Seq(Entries),
          current_epoch : Nat, signer : Keys, applied : Seq(Certs)]

\* A good node: its set is runnable and its own seat, once rotated, has its key.
NodeOK(n) == n \in Nodes /\ Runnable(n.validators) /\ OwnKey(n.validators)

\* The live signer and the epoch are those of the seat.
SignerOK(n) ==
  Me \in DOMAIN n.validators =>
    n.current_epoch = n.validators[Me].epoch /\ n.signer = n.validators[Me].public_key

\* A set of seats, by its roots and its seats.
LEMMA InSets == \A v : v \in Sets <=> (DOMAIN v \subseteq Roots /\ v \in [DOMAIN v -> Seats])
  BY DEF Sets

\* A set of seats over some roots.
LEMMA SetOver == ASSUME NEW S \in SUBSET Roots, NEW v \in [S -> Seats] PROVE v \in Sets
  BY DEF Sets

\* A seat of a runnable set, field by field.
LEMMA SeatFields ==
  ASSUME NEW v, Runnable(v), NEW r \in DOMAIN v
  PROVE  /\ r \in Roots /\ v[r] \in Seats
         /\ v[r] = [address |-> v[r].address, public_key |-> v[r].public_key,
                    epoch |-> v[r].epoch, voting_power |-> v[r].voting_power]
         /\ v[r].address \in Keys /\ v[r].public_key \in Keys /\ v[r].epoch \in Nat
         /\ v[r].voting_power \in 1..MAX_VOTING_POWER
  <1>1. r \in Roots /\ v[r] \in Seats
    BY InSets DEF Runnable
  <1>2. QED
    BY <1>1 DEF Seats

\* Replacing by address replaces the seat of the certificate's root and no other.
LEMMA RotationTouchesOne ==
  ASSUME NEW v, Runnable(v), NEW c \in RotationCerts, c.root_pk \in DOMAIN v,
         NEW w, w = apply_rotation(v, c)
  PROVE  /\ DOMAIN w = DOMAIN v
         /\ \A r \in DOMAIN v : r # c.root_pk => w[r] = v[r]
         /\ w[c.root_pk] = [address |-> v[c.root_pk].address, public_key |-> c.new_op_pk,
                            epoch |-> c.epoch, voting_power |-> v[c.root_pk].voting_power]
  <1> DEFINE k == c.root_pk
  <1>1. DOMAIN w = DOMAIN v
    BY DEF apply_rotation
  <1>2. ASSUME NEW r \in DOMAIN v, r # k PROVE w[r] = v[r]
    <2>1. v[r].address # v[k].address
      BY <1>2 DEF Runnable
    <2>2. QED
      BY <2>1 DEF apply_rotation
  <1>3. w[k] = [v[k] EXCEPT !.public_key = c.new_op_pk, !.epoch = c.epoch]
    BY DEF apply_rotation
  <1>4. v[k] \in Seats
    BY SeatFields
  <1>5. w[k] = [address |-> v[k].address, public_key |-> c.new_op_pk,
                epoch |-> c.epoch, voting_power |-> v[k].voting_power]
    BY <1>3, <1>4 DEF Seats
  <1>6. QED
    BY <1>1, <1>2, <1>5

\* apply_rotation keeps a set runnable.
LEMMA RotatedRunnable ==
  ASSUME NEW v, Runnable(v), NEW c \in RotationCerts, c.root_pk \in DOMAIN v,
         NEW w, w = apply_rotation(v, c)
  PROVE  Runnable(w)
  <1> DEFINE k == c.root_pk
  <1>1. /\ DOMAIN w = DOMAIN v
        /\ \A r \in DOMAIN v : r # k => w[r] = v[r]
        /\ w[k] = [address |-> v[k].address, public_key |-> c.new_op_pk,
                   epoch |-> c.epoch, voting_power |-> v[k].voting_power]
    BY RotationTouchesOne
  <1>2. w[k] \in Seats
    BY <1>1, SeatFields, ValidatorSetAssumption DEF Seats
  <1>3. \A r \in DOMAIN v : w[r] \in Seats /\ w[r].address = v[r].address
    BY <1>1, <1>2, SeatFields
  <1>4. w = [r \in DOMAIN v |-> w[r]]
    BY DEF apply_rotation
  <1>5. w \in [DOMAIN v -> Seats] /\ DOMAIN v \in SUBSET Roots
    BY <1>3, <1>4, SeatFields
  <1>6. w \in Sets
    BY <1>5, SetOver
  <1>7. QED
    BY <1>1, <1>3, <1>6 DEF Runnable

\* It keeps the keys of this node's seat those of its trees.
LEMMA RotatedKey ==
  ASSUME NEW v, Runnable(v), NEW c \in RotationCerts, c.root_pk \in DOMAIN v,
         NEW w, w = apply_rotation(v, c)
  PROVE  /\ OwnKey(v) => OwnKey(w)
         /\ GenesisKey(v) => GenesisKey(w)
         /\ c.root_pk = Me => w[Me].public_key = op_key[c.epoch] /\ w[Me].epoch = c.epoch
  <1> DEFINE k == c.root_pk
  <1>1. /\ DOMAIN w = DOMAIN v
        /\ \A r \in DOMAIN v : r # k => w[r] = v[r]
        /\ w[k] = [address |-> v[k].address, public_key |-> c.new_op_pk,
                   epoch |-> c.epoch, voting_power |-> v[k].voting_power]
    BY RotationTouchesOne
  <1>2. w[k].public_key = c.new_op_pk /\ w[k].epoch = c.epoch
    BY <1>1
  <1>3. k = Me => w[Me].public_key = op_key[c.epoch] /\ w[Me].epoch = c.epoch
    BY <1>2, ValidatorSetAssumption
  <1>4. QED
    BY <1>1, <1>3 DEF OwnKey, GenesisKey

\* A node, field by field.
LEMMA NodeFields ==
  ASSUME NEW n \in Nodes
  PROVE  /\ n = [height |-> n.height, validators |-> n.validators, set_history |-> n.set_history,
                 current_epoch |-> n.current_epoch, signer |-> n.signer, applied |-> n.applied]
         /\ n.height \in Nat /\ n.validators \in Sets /\ n.set_history \in Seq(Entries)
         /\ n.current_epoch \in Nat /\ n.signer \in Keys /\ n.applied \in Seq(Certs)
  BY DEF Nodes

\* What rotate does with a certificate that verifies.
Rotated(n, c, replay) ==
  LET mine == c.root_pk = Me /\ c.epoch > n.current_epoch IN
  [n EXCEPT !.validators = apply_rotation(n.validators, c),
            !.current_epoch = IF mine THEN c.epoch ELSE @,
            !.signer = IF mine /\ ~replay THEN op_key[c.epoch] ELSE @,
            !.applied = Append(@, c)]

\* A node after a rotation, field by field.
LEMMA RotatedFields ==
  ASSUME NEW n \in Nodes, NEW c, NEW replay, NEW m, m = Rotated(n, c, replay)
  PROVE  /\ m = [height |-> n.height, validators |-> apply_rotation(n.validators, c),
                 set_history |-> n.set_history,
                 current_epoch |-> IF c.root_pk = Me /\ c.epoch > n.current_epoch
                                   THEN c.epoch ELSE n.current_epoch,
                 signer |-> IF c.root_pk = Me /\ c.epoch > n.current_epoch /\ ~replay
                            THEN op_key[c.epoch] ELSE n.signer,
                 applied |-> Append(n.applied, c)]
  BY NodeFields DEF Rotated, Nodes

\* One rotation keeps a node sound and where it is.
LEMMA RotateKeeps ==
  ASSUME NEW n, NodeOK(n), NEW c \in RotationCerts, NEW replay \in BOOLEAN,
         NEW m, m = rotate(n, c, replay)
  PROVE  /\ NodeOK(m) /\ m.height = n.height /\ m.set_history = n.set_history
         /\ replay => m.signer = n.signer
         /\ GenesisKey(n.validators) => GenesisKey(m.validators)
  <1>1. CASE ~rotation_ok(n.validators, c, n.height)
    BY <1>1 DEF rotate
  <1>2. CASE rotation_ok(n.validators, c, n.height)
    <2>1. m = Rotated(n, c, replay)
      BY <1>2 DEF rotate, Rotated
    <2>2. n \in Nodes /\ Runnable(n.validators) /\ OwnKey(n.validators) /\ c.root_pk \in DOMAIN n.validators
      BY <1>2 DEF NodeOK, rotation_ok
    <2>3. PICK w : w = apply_rotation(n.validators, c)
      OBVIOUS
    <2>4. Runnable(w)
      BY <2>2, <2>3, RotatedRunnable
    <2>5. OwnKey(w) /\ (GenesisKey(n.validators) => GenesisKey(w))
      BY <2>2, <2>3, RotatedKey
    <2>6. m = [height |-> n.height, validators |-> w, set_history |-> n.set_history,
               current_epoch |-> IF c.root_pk = Me /\ c.epoch > n.current_epoch
                                   THEN c.epoch ELSE n.current_epoch,
               signer |-> IF c.root_pk = Me /\ c.epoch > n.current_epoch /\ ~replay
                            THEN op_key[c.epoch] ELSE n.signer,
               applied |-> Append(n.applied, c)]
      BY <2>1, <2>2, <2>3, RotatedFields
    <2>7. /\ m.height = n.height /\ m.validators = w /\ m.set_history = n.set_history
          /\ m.applied = Append(n.applied, c) /\ (replay => m.signer = n.signer)
      BY <2>6
    <2>8. m.current_epoch \in Nat /\ m.signer \in Keys
      BY <2>2, <2>6, NodeFields, ValidatorSetAssumption
    <2>9. m \in Nodes
      <3>1. w \in Sets
        BY <2>4 DEF Runnable
      <3>2. Append(n.applied, c) \in Seq(Certs)
        BY <2>2, NodeFields DEF Certs
      <3>3. QED
        BY <2>2, <2>6, <2>7, <2>8, <3>1, <3>2, NodeFields DEF Nodes
    <2>10. QED
      BY <2>4, <2>5, <2>7, <2>9 DEF NodeOK
  <1>3. QED
    BY <1>1, <1>2

\* A node that runs follows a rotation of its seat with its signer.
LEMMA RotateSigner ==
  ASSUME NEW n, NodeOK(n), SignerOK(n), NEW c \in RotationCerts,
         NEW live \in BOOLEAN, live = FALSE, NEW m, m = rotate(n, c, live)
  PROVE  SignerOK(m)
  <1>1. CASE ~rotation_ok(n.validators, c, n.height)
    BY <1>1 DEF rotate
  <1>2. CASE rotation_ok(n.validators, c, n.height)
    <2>1. m = Rotated(n, c, live)
      BY <1>2 DEF rotate, Rotated
    <2>2. /\ n \in Nodes /\ Runnable(n.validators) /\ c.root_pk \in DOMAIN n.validators
          /\ c.epoch > n.validators[c.root_pk].epoch
      BY <1>2 DEF NodeOK, rotation_ok
    <2>3. PICK w : w = apply_rotation(n.validators, c)
      OBVIOUS
    <2>4. /\ m.validators = w
          /\ m.current_epoch = IF c.root_pk = Me /\ c.epoch > n.current_epoch
                                   THEN c.epoch ELSE n.current_epoch
          /\ m.signer = IF c.root_pk = Me /\ c.epoch > n.current_epoch
                            THEN op_key[c.epoch] ELSE n.signer
      <3>1. m = [height |-> n.height, validators |-> apply_rotation(n.validators, c),
                 set_history |-> n.set_history,
                 current_epoch |-> IF c.root_pk = Me /\ c.epoch > n.current_epoch
                                   THEN c.epoch ELSE n.current_epoch,
                 signer |-> IF c.root_pk = Me /\ c.epoch > n.current_epoch /\ ~live
                            THEN op_key[c.epoch] ELSE n.signer,
                 applied |-> Append(n.applied, c)]
        BY <2>1, <2>2, RotatedFields
      <3>2. m.validators = w
        BY <2>3, <3>1
      <3>3. m.current_epoch = IF c.root_pk = Me /\ c.epoch > n.current_epoch
                              THEN c.epoch ELSE n.current_epoch
        BY <3>1
      <3>4. m.signer = IF c.root_pk = Me /\ c.epoch > n.current_epoch
                       THEN op_key[c.epoch] ELSE n.signer
        BY <3>1
      <3>5. QED
        BY <3>2, <3>3, <3>4
    <2>5. /\ DOMAIN w = DOMAIN n.validators
          /\ \A r \in DOMAIN w : r # c.root_pk => w[r] = n.validators[r]
      <3>1. /\ DOMAIN w = DOMAIN n.validators
            /\ \A r \in DOMAIN n.validators : r # c.root_pk => w[r] = n.validators[r]
            /\ w[c.root_pk] = [address |-> n.validators[c.root_pk].address, public_key |-> c.new_op_pk,
                            epoch |-> c.epoch, voting_power |-> n.validators[c.root_pk].voting_power]
        <4> PICK v : v = n.validators
          OBVIOUS
        <4> QED
          BY <2>2, <2>3, RotationTouchesOne
      <3>2. QED
        BY <3>1
    <2>6. c.root_pk = Me => w[Me].public_key = op_key[c.epoch] /\ w[Me].epoch = c.epoch
      BY <2>2, <2>3, RotatedKey
    <2>7. CASE c.root_pk = Me
      BY <2>2, <2>4, <2>6, <2>7 DEF SignerOK
    <2>8. CASE c.root_pk # Me
      BY <2>4, <2>5, <2>8 DEF SignerOK
    <2>9. QED
      BY <2>7, <2>8
  <1>3. QED
    BY <1>1, <1>2

\* What it does to the set depends on the set and the height alone.
LEMMA RotateSame ==
  ASSUME NEW n \in Nodes, NEW m \in Nodes, n.validators = m.validators, n.height = m.height,
         NEW c, NEW e, NEW f
  PROVE  rotate(n, c, e).validators = rotate(m, c, f).validators
  <1>1. Rotated(n, c, e).validators = apply_rotation(n.validators, c)
    BY RotatedFields
  <1>2. Rotated(m, c, f).validators = apply_rotation(m.validators, c)
    BY RotatedFields
  <1>3. /\ rotate(n, c, e) = IF ~rotation_ok(n.validators, c, n.height) THEN n ELSE Rotated(n, c, e)
        /\ rotate(m, c, f) = IF ~rotation_ok(m.validators, c, m.height) THEN m ELSE Rotated(m, c, f)
    BY DEF rotate, Rotated
  <1>4. QED
    BY <1>1, <1>2, <1>3

\* No certificate admits this node's root.
NotReadmitted == \A c \in SetChangeCerts : c.kind = "admit" => c.root_pk # Me

\* The seats that a change leaves keep their address, key and epoch, unless the
\* change admits them.
LEMMA ChangeShape ==
  ASSUME NEW v, Runnable(v), NEW c \in SetChangeCerts, NEW h, set_change_ok(v, c, h),
         NEW w, w = changed(v, c)
  PROVE  /\ w \in Sets /\ DOMAIN w # {}
         /\ \A r \in DOMAIN w : \/ /\ r \in DOMAIN v /\ w[r].address = v[r].address
                                   /\ w[r].public_key = v[r].public_key /\ w[r].epoch = v[r].epoch
                                \/ /\ c.kind = "admit" /\ r = c.root_pk /\ w[r].epoch = 0
                                   /\ \A s \in DOMAIN v : v[s].address # w[r].address
  <1> DEFINE k == c.root_pk
  <1>1. /\ k \in Roots /\ c.public_key \in Keys
        /\ c.kind \in {"admit", "remove", "set_power"}
    BY ValidatorSetAssumption
  <1>2. changes(v, c) /\ (c.kind # "remove" => c.voting_power \in 1..MAX_VOTING_POWER)
    BY DEF set_change_ok, verify_against, check_shape
  <1>3. DOMAIN v \in SUBSET Roots /\ v \in [DOMAIN v -> Seats] /\ DOMAIN v # {}
    BY InSets DEF Runnable
  <1>4. CASE c.kind = "admit"
    <2>1. PICK s : s = new_seat(c.public_key, c.voting_power)
      OBVIOUS
    <2>2. w = with_seat(v, k, s) /\ k \notin DOMAIN v /\ \A r \in DOMAIN v : v[r].address # c.public_key
      BY <1>2, <1>4, <2>1 DEF changed, changes
    <2>3. s \in Seats /\ s.address = c.public_key /\ s.epoch = 0
      BY <1>1, <1>2, <1>4, <2>1 DEF new_seat, Seats
    <2>4. w = [x \in DOMAIN v \cup {k} |-> IF x = k THEN s ELSE v[x]]
      BY <2>2 DEF with_seat
    <2>5. DOMAIN w = DOMAIN v \cup {k} /\ w[k] = s /\ \A r \in DOMAIN v : w[r] = v[r]
      BY <2>2, <2>4
    <2>6. \A r \in DOMAIN w : w[r] \in Seats
      BY <1>3, <2>3, <2>5
    <2>7. PICK S \in SUBSET Roots : S = DOMAIN v \cup {k}
      BY <1>1, <1>3
    <2>8. w \in [S -> Seats]
      BY <2>4, <2>5, <2>6, <2>7
    <2>9. w \in Sets
      BY <2>8, SetOver
    <2>10. QED
      BY <1>3, <1>4, <2>2, <2>3, <2>5, <2>9
  <1>5. CASE c.kind = "remove"
    <2>1. w = [r \in DOMAIN v \ {k} |-> v[r]] /\ k \in DOMAIN v /\ DOMAIN v # {k}
      BY <1>2, <1>5 DEF changed, changes
    <2>2. PICK S \in SUBSET Roots : S = DOMAIN v \ {k}
      BY <1>3
    <2>3. DOMAIN w = S /\ S # {} /\ (\A r \in S : r \in DOMAIN v /\ w[r] = v[r]) /\ w \in [S -> Seats]
      BY <1>3, <2>1, <2>2
    <2>4. w \in Sets
      BY <2>3, SetOver
    <2>5. QED
      BY <2>3, <2>4
  <1>6. CASE c.kind = "set_power"
    <2>1. w = [v EXCEPT ![k].voting_power = c.voting_power] /\ k \in DOMAIN v
      BY <1>2, <1>6 DEF changed, changes
    <2>2. DOMAIN w = DOMAIN v /\ \A r \in DOMAIN v : r # k => w[r] = v[r]
      BY <1>3, <2>1
    <2>3. w[k] = [v[k] EXCEPT !.voting_power = c.voting_power]
      BY <1>3, <2>1
    <2>4. v[k] \in Seats
      BY <1>3, <2>1
    <2>5. /\ w[k] \in Seats /\ w[k].address = v[k].address
          /\ w[k].public_key = v[k].public_key /\ w[k].epoch = v[k].epoch
      BY <1>2, <1>6, <2>3, <2>4 DEF Seats
    <2>6. w \in [DOMAIN v -> Seats]
      BY <1>3, <2>1, <2>2, <2>5
    <2>7. w \in Sets
      BY <1>3, <2>6, SetOver
    <2>8. QED
      BY <1>3, <2>2, <2>5, <2>7
  <1>7. QED
    BY <1>1, <1>4, <1>5, <1>6

\* A set change that verifies keeps the set runnable: it neither empties it nor
\* seats an address twice.
LEMMA ChangedRunnable ==
  ASSUME NEW v, Runnable(v), NEW c \in SetChangeCerts, NEW h, set_change_ok(v, c, h),
         NEW w, w = changed(v, c)
  PROVE  Runnable(w)
  <1>1. /\ w \in Sets /\ DOMAIN w # {}
        /\ \A r \in DOMAIN w : \/ /\ r \in DOMAIN v /\ w[r].address = v[r].address
                                  /\ w[r].public_key = v[r].public_key /\ w[r].epoch = v[r].epoch
                               \/ /\ c.kind = "admit" /\ r = c.root_pk /\ w[r].epoch = 0
                                  /\ \A s \in DOMAIN v : v[s].address # w[r].address
    BY ChangeShape
  <1>2. ASSUME NEW r \in DOMAIN w, NEW s \in DOMAIN w, w[r].address = w[s].address PROVE r = s
    BY <1>1, <1>2 DEF Runnable
  <1>3. QED
    BY <1>1, <1>2 DEF Runnable

\* A set change moves this node's seat off its key only by admitting its root.
LEMMA ChangedKey ==
  ASSUME NEW v, Runnable(v), NEW c \in SetChangeCerts, NEW h, set_change_ok(v, c, h),
         NEW w, w = changed(v, c)
  PROVE  /\ OwnKey(v) => OwnKey(w)
         /\ NotReadmitted /\ Me \in DOMAIN w =>
              Me \in DOMAIN v /\ w[Me].public_key = v[Me].public_key /\ w[Me].epoch = v[Me].epoch
  <1>1. /\ w \in Sets /\ DOMAIN w # {}
        /\ \A r \in DOMAIN w : \/ /\ r \in DOMAIN v /\ w[r].address = v[r].address
                                  /\ w[r].public_key = v[r].public_key /\ w[r].epoch = v[r].epoch
                               \/ /\ c.kind = "admit" /\ r = c.root_pk /\ w[r].epoch = 0
                                  /\ \A s \in DOMAIN v : v[s].address # w[r].address
    BY ChangeShape
  <1>2. QED
    BY <1>1 DEF OwnKey, NotReadmitted

\* One set change keeps a node sound, where it is and on its signer.
LEMMA ChangeKeeps ==
  ASSUME NEW n, NodeOK(n), NEW c \in SetChangeCerts, NEW m, m = set_change(n, c)
  PROVE  /\ NodeOK(m) /\ m.height = n.height /\ m.set_history = n.set_history
         /\ m.signer = n.signer
         /\ NotReadmitted /\ GenesisKey(n.validators) => GenesisKey(m.validators)
         /\ NotReadmitted /\ SignerOK(n) => SignerOK(m)
  <1>1. CASE ~set_change_ok(n.validators, c, n.height)
    BY <1>1 DEF set_change
  <1>2. CASE set_change_ok(n.validators, c, n.height)
    <2>1. PICK w : w = changed(n.validators, c)
      OBVIOUS
    <2>2. m = [n EXCEPT !.validators = w, !.applied = Append(@, c)]
      BY <1>2, <2>1 DEF set_change
    <2>3. n \in Nodes /\ Runnable(n.validators) /\ OwnKey(n.validators)
      BY DEF NodeOK
    <2>4. m = [height |-> n.height, validators |-> w, set_history |-> n.set_history,
               current_epoch |-> n.current_epoch, signer |-> n.signer,
               applied |-> Append(n.applied, c)]
      BY <2>2, <2>3 DEF Nodes
    <2>5. Runnable(w)
      BY <1>2, <2>1, <2>3, ChangedRunnable
    <2>6. /\ OwnKey(n.validators) => OwnKey(w)
          /\ NotReadmitted /\ Me \in DOMAIN w =>
              /\ Me \in DOMAIN n.validators /\ w[Me].public_key = n.validators[Me].public_key
              /\ w[Me].epoch = n.validators[Me].epoch
      <3>1. PICK v : v = n.validators
        OBVIOUS
      <3>2. /\ OwnKey(v) => OwnKey(w)
            /\ NotReadmitted /\ Me \in DOMAIN w =>
                 Me \in DOMAIN v /\ w[Me].public_key = v[Me].public_key /\ w[Me].epoch = v[Me].epoch
        BY <1>2, <2>1, <2>3, <3>1, ChangedKey
      <3>3. QED
        BY <3>1, <3>2
    <2>7. /\ m.height = n.height /\ m.validators = w /\ m.set_history = n.set_history
          /\ m.current_epoch = n.current_epoch /\ m.signer = n.signer
      BY <2>4
    <2>8. m \in Nodes
      <3>1. w \in Sets
        BY <2>5 DEF Runnable
      <3>2. Append(n.applied, c) \in Seq(Certs)
        BY <2>3, NodeFields DEF Certs
      <3>3. QED
        BY <2>3, <2>4, <3>1, <3>2, NodeFields DEF Nodes
    <2>9. NotReadmitted /\ GenesisKey(n.validators) => GenesisKey(m.validators)
      BY <2>6, <2>7 DEF GenesisKey
    <2>10. NotReadmitted /\ SignerOK(n) => SignerOK(m)
      BY <2>6, <2>7 DEF SignerOK
    <2>11. QED
      BY <2>3, <2>5, <2>6, <2>7, <2>8, <2>9, <2>10 DEF NodeOK
  <1>3. QED
    BY <1>1, <1>2

\* A set change depends on the set and the height alone.
LEMMA ChangeSame ==
  ASSUME NEW n \in Nodes, NEW m \in Nodes, n.validators = m.validators, n.height = m.height, NEW c
  PROVE  set_change(n, c).validators = set_change(m, c).validators
  BY DEF set_change, Nodes

\* The bootstrap re-weight keeps a set runnable, and its seats.
LEMMA ReweightKeeps ==
  ASSUME NEW v, Runnable(v), NEW w, w = reweight_roots(v)
  PROVE  /\ Runnable(w) /\ DOMAIN w = DOMAIN v
         /\ \A r \in DOMAIN v : w[r].public_key = v[r].public_key /\ w[r].epoch = v[r].epoch
  <1>1. w = [r \in DOMAIN v |-> IF r \in DOMAIN genesis
                               THEN [v[r] EXCEPT !.voting_power = founding_power] ELSE v[r]]
    BY DEF reweight_roots
  <1>2. DOMAIN w = DOMAIN v
    BY <1>1
  <1>3. ASSUME NEW r \in DOMAIN v
        PROVE  /\ w[r] \in Seats /\ w[r].address = v[r].address
               /\ w[r].public_key = v[r].public_key /\ w[r].epoch = v[r].epoch
    <2>1. v[r] \in Seats
      BY SeatFields
    <2>2. founding_power \in 1..MAX_VOTING_POWER
      BY ValidatorSetAssumption
    <2>3. w[r] = [v[r] EXCEPT !.voting_power = founding_power] \/ w[r] = v[r]
      BY <1>1
    <2>4. QED
      BY <2>1, <2>2, <2>3 DEF Seats
  <1>4. w \in [DOMAIN v -> Seats] /\ DOMAIN v \in SUBSET Roots
    BY <1>1, <1>2, <1>3, SeatFields
  <1>5. w \in Sets
    BY <1>4, SetOver
  <1>6. QED
    BY <1>2, <1>3, <1>5 DEF Runnable

-----------------------------------------------------------------------------
(* One block                                                               *)

\* What a node keeps through the certificates of a block.
Kept(n, m, replay) ==
  /\ NodeOK(m) /\ m.height = n.height /\ m.set_history = n.set_history
  /\ replay => m.signer = n.signer
  /\ NotReadmitted /\ GenesisKey(n.validators) => GenesisKey(m.validators)
  /\ NotReadmitted /\ replay = FALSE /\ SignerOK(n) => SignerOK(m)

\* What each of two steps keeps, both keep.
LEMMA KeptTrans ==
  ASSUME NEW n, NEW m, NEW k, NEW replay \in BOOLEAN, Kept(n, m, replay), Kept(m, k, replay)
  PROVE  Kept(n, k, replay)
  BY DEF Kept

\* The rotations of a block, one after the other.
LEMMA RotationsKeep ==
  ASSUME NEW n, NodeOK(n), NEW replay \in BOOLEAN, NEW q \in Seq(RotationCerts)
  PROVE  Kept(n, RotateLoop(n, replay, q), replay)
  <1>1. Len(q) \in Nat /\ DOMAIN q = 1..Len(q) /\ \A i \in 1..Len(q) : q[i] \in RotationCerts
    OBVIOUS
  <1>2. PICK r : IsRun(r, <<"rotate", replay>>, n, q) /\ r[Len(q)] = RotateLoop(n, replay, q)
    BY <1>1, RotateRuns
  <1> DEFINE G == {i \in Nat : Kept(n, r[i], replay)}
  <1>3. 0 \in G
    BY <1>2 DEF IsRun, Kept
  <1>4. ASSUME NEW i \in 1..Len(q), i - 1 \in G PROVE i \in G
    <2>1. Kept(n, r[i - 1], replay) /\ NodeOK(r[i - 1])
      BY <1>4 DEF Kept
    <2>2. r[i] = turn(<<"rotate", replay>>, r[i - 1], q[i]) /\ q[i] \in RotationCerts
      BY <1>1, <1>2 DEF IsRun
    <2>3. r[i] = rotate(r[i - 1], q[i], replay)
      BY <2>2 DEF turn
    <2>4. PICK a, b : a = r[i - 1] /\ b = r[i]
      OBVIOUS
    <2>5. NodeOK(a) /\ b = rotate(a, q[i], replay)
      BY <2>1, <2>3, <2>4
    <2>6. /\ NodeOK(b) /\ b.height = a.height /\ b.set_history = a.set_history
          /\ replay => b.signer = a.signer
          /\ GenesisKey(a.validators) => GenesisKey(b.validators)
      BY <2>2, <2>5, RotateKeeps
    <2>7. replay = FALSE /\ SignerOK(a) => SignerOK(b)
      BY <2>2, <2>5, RotateSigner
    <2>8. Kept(a, b, replay)
      BY <2>6, <2>7 DEF Kept
    <2>9. Kept(n, b, replay)
      BY <2>1, <2>4, <2>8, KeptTrans
    <2>10. QED
      BY <2>4, <2>9
  <1>5. Len(q) \in G
    <2> HIDE DEF G
    <2>1. \A i \in 0..Len(q) : i \in G
      BY <1>1, <1>3, <1>4, Climb
    <2>2. QED
      BY <1>1, <2>1
  <1>6. QED
    BY <1>2, <1>5

\* The set changes of a block, one after the other.
LEMMA ChangesKeep ==
  ASSUME NEW n, NodeOK(n), NEW replay \in BOOLEAN, NEW q \in Seq(SetChangeCerts)
  PROVE  Kept(n, ChangeLoop(n, q), replay)
  <1>1. Len(q) \in Nat /\ DOMAIN q = 1..Len(q) /\ \A i \in 1..Len(q) : q[i] \in SetChangeCerts
    OBVIOUS
  <1>2. PICK r : IsRun(r, <<"change", 0>>, n, q) /\ r[Len(q)] = ChangeLoop(n, q)
    BY <1>1, ChangeRuns
  <1> DEFINE G == {i \in Nat : Kept(n, r[i], replay)}
  <1>3. 0 \in G
    BY <1>2 DEF IsRun, Kept
  <1>4. ASSUME NEW i \in 1..Len(q), i - 1 \in G PROVE i \in G
    <2>1. Kept(n, r[i - 1], replay) /\ NodeOK(r[i - 1])
      BY <1>4 DEF Kept
    <2>2. r[i] = turn(<<"change", 0>>, r[i - 1], q[i]) /\ q[i] \in SetChangeCerts
      BY <1>1, <1>2 DEF IsRun
    <2>3. r[i] = set_change(r[i - 1], q[i])
      BY <2>2 DEF turn
    <2>4. PICK a, b : a = r[i - 1] /\ b = r[i]
      OBVIOUS
    <2>5. NodeOK(a) /\ b = set_change(a, q[i])
      BY <2>1, <2>3, <2>4
    <2>6. /\ NodeOK(b) /\ b.height = a.height /\ b.set_history = a.set_history
          /\ b.signer = a.signer
          /\ NotReadmitted /\ GenesisKey(a.validators) => GenesisKey(b.validators)
          /\ NotReadmitted /\ SignerOK(a) => SignerOK(b)
      BY <2>2, <2>5, ChangeKeeps
    <2>8. Kept(a, b, replay)
      BY <2>6 DEF Kept
    <2>9. Kept(n, b, replay)
      BY <2>1, <2>4, <2>8, KeptTrans
    <2>10. QED
      BY <2>4, <2>9
  <1>5. Len(q) \in G
    <2> HIDE DEF G
    <2>1. \A i \in 0..Len(q) : i \in G
      BY <1>1, <1>3, <1>4, Climb
    <2>2. QED
      BY <1>1, <2>1
  <1>6. QED
    BY <1>2, <1>5

\* What two nodes must share for a block to leave them with one set.
Same(n, m) == /\ NodeOK(n) /\ NodeOK(m) /\ n.validators = m.validators /\ n.height = m.height

\* Two nodes with one set have one set after the same rotations, whether one of
\* them replays or not.
LEMMA RotationsSame ==
  ASSUME NEW n, NEW m, Same(n, m), NEW e \in BOOLEAN, NEW f \in BOOLEAN, NEW q \in Seq(RotationCerts)
  PROVE  Same(RotateLoop(n, e, q), RotateLoop(m, f, q))
  <1>1. Len(q) \in Nat /\ DOMAIN q = 1..Len(q) /\ \A i \in 1..Len(q) : q[i] \in RotationCerts
    OBVIOUS
  <1>2. PICK r : IsRun(r, <<"rotate", e>>, n, q) /\ r[Len(q)] = RotateLoop(n, e, q)
    BY <1>1, RotateRuns
  <1>3. PICK s : IsRun(s, <<"rotate", f>>, m, q) /\ s[Len(q)] = RotateLoop(m, f, q)
    BY <1>1, RotateRuns
  <1> DEFINE G == {i \in Nat : Same(r[i], s[i])}
  <1>4. 0 \in G
    BY <1>2, <1>3 DEF IsRun
  <1>5. ASSUME NEW i \in 1..Len(q), i - 1 \in G PROVE i \in G
    <2>1. Same(r[i - 1], s[i - 1])
      BY <1>5
    <2>2. r[i] = turn(<<"rotate", e>>, r[i - 1], q[i]) /\ q[i] \in RotationCerts
      BY <1>1, <1>2 DEF IsRun
    <2>3. s[i] = turn(<<"rotate", f>>, s[i - 1], q[i])
      BY <1>1, <1>3 DEF IsRun
    <2>4. r[i] = rotate(r[i - 1], q[i], e) /\ s[i] = rotate(s[i - 1], q[i], f)
      BY <2>2, <2>3 DEF turn
    <2>5. PICK a, b, c, d : a = r[i - 1] /\ b = r[i] /\ c = s[i - 1] /\ d = s[i]
      OBVIOUS
    <2>6. Same(a, c) /\ b = rotate(a, q[i], e) /\ d = rotate(c, q[i], f)
      BY <2>1, <2>4, <2>5
    <2>6a. NodeOK(a) /\ NodeOK(c) /\ a \in Nodes /\ c \in Nodes
      BY <2>6 DEF Same, NodeOK
    <2>7. NodeOK(b) /\ b.height = a.height
      BY <2>2, <2>6, <2>6a, RotateKeeps
    <2>8. NodeOK(d) /\ d.height = c.height
      BY <2>2, <2>6, <2>6a, RotateKeeps
    <2>9. rotate(a, q[i], e).validators = rotate(c, q[i], f).validators
      BY <2>6, <2>6a, RotateSame DEF Same
    <2>10. Same(b, d)
      BY <2>6, <2>7, <2>8, <2>9 DEF Same
    <2>11. QED
      BY <2>5, <2>10
  <1>6. Len(q) \in G
    <2> HIDE DEF G
    <2>1. \A i \in 0..Len(q) : i \in G
      BY <1>1, <1>4, <1>5, Climb
    <2>2. QED
      BY <1>1, <2>1
  <1>7. QED
    BY <1>2, <1>3, <1>6

\* Two nodes with one set have one set after the same set changes.
LEMMA ChangesSame ==
  ASSUME NEW n, NEW m, Same(n, m), NEW q \in Seq(SetChangeCerts)
  PROVE  Same(ChangeLoop(n, q), ChangeLoop(m, q))
  <1>1. Len(q) \in Nat /\ DOMAIN q = 1..Len(q) /\ \A i \in 1..Len(q) : q[i] \in SetChangeCerts
    OBVIOUS
  <1>2. PICK r : IsRun(r, <<"change", 0>>, n, q) /\ r[Len(q)] = ChangeLoop(n, q)
    BY <1>1, ChangeRuns
  <1>3. PICK s : IsRun(s, <<"change", 0>>, m, q) /\ s[Len(q)] = ChangeLoop(m, q)
    BY <1>1, ChangeRuns
  <1> DEFINE G == {i \in Nat : Same(r[i], s[i])}
  <1>4. 0 \in G
    BY <1>2, <1>3 DEF IsRun
  <1>5. ASSUME NEW i \in 1..Len(q), i - 1 \in G PROVE i \in G
    <2>1. Same(r[i - 1], s[i - 1])
      BY <1>5
    <2>2. r[i] = turn(<<"change", 0>>, r[i - 1], q[i]) /\ q[i] \in SetChangeCerts
      BY <1>1, <1>2 DEF IsRun
    <2>3. s[i] = turn(<<"change", 0>>, s[i - 1], q[i])
      BY <1>1, <1>3 DEF IsRun
    <2>4. r[i] = set_change(r[i - 1], q[i]) /\ s[i] = set_change(s[i - 1], q[i])
      BY <2>2, <2>3 DEF turn
    <2>5. PICK a, b, c, d : a = r[i - 1] /\ b = r[i] /\ c = s[i - 1] /\ d = s[i]
      OBVIOUS
    <2>6. Same(a, c) /\ b = set_change(a, q[i]) /\ d = set_change(c, q[i])
      BY <2>1, <2>4, <2>5
    <2>6a. NodeOK(a) /\ NodeOK(c) /\ a \in Nodes /\ c \in Nodes
      BY <2>6 DEF Same, NodeOK
    <2>7. NodeOK(b) /\ b.height = a.height
      BY <2>2, <2>6, <2>6a, ChangeKeeps
    <2>8. NodeOK(d) /\ d.height = c.height
      BY <2>2, <2>6, <2>6a, ChangeKeeps
    <2>9. set_change(a, q[i]).validators = set_change(c, q[i]).validators
      BY <2>6, <2>6a, ChangeSame DEF Same
    <2>10. Same(b, d)
      BY <2>6, <2>7, <2>8, <2>9 DEF Same
    <2>11. QED
      BY <2>5, <2>10
  <1>6. Len(q) \in G
    <2> HIDE DEF G
    <2>1. \A i \in 0..Len(q) : i \in G
      BY <1>1, <1>4, <1>5, Climb
    <2>2. QED
      BY <1>1, <2>1
  <1>7. QED
    BY <1>2, <1>3, <1>6

\* The history's last entry is the set in force.
LastIs(s, v) == Len(s) >= 1 /\ s[Len(s)].set = v

\* t is s with entries for height h and later ones behind it.
Continues(s, t, h) ==
  /\ Len(s) <= Len(t)
  /\ \A i \in 1..Len(s) : t[i] = s[i]
  /\ \A i \in (Len(s) + 1)..Len(t) : t[i].from = h

\* What a block, or a half of it, leaves of a node.
Passed(n, k, replay) ==
  /\ NodeOK(k) /\ k.height = n.height
  /\ Continues(n.set_history, k.set_history, n.height + 1)
  /\ LastIs(n.set_history, n.validators) => LastIs(k.set_history, k.validators)
  /\ replay => k.signer = n.signer
  /\ NotReadmitted /\ GenesisKey(n.validators) => GenesisKey(k.validators)
  /\ NotReadmitted /\ replay = FALSE /\ SignerOK(n) => SignerOK(k)

\* A history that continues a continuation continues the first.
LEMMA ContinuesTrans ==
  ASSUME NEW s \in Seq(Entries), NEW t \in Seq(Entries), NEW u \in Seq(Entries), NEW h,
         Continues(s, t, h), Continues(t, u, h)
  PROVE  Continues(s, u, h)
  <1>1. Len(s) \in Nat /\ Len(t) \in Nat /\ Len(u) \in Nat
    OBVIOUS
  <1>2. Len(s) <= Len(t) /\ Len(t) <= Len(u)
    BY DEF Continues
  <1>3. ASSUME NEW i \in 1..Len(s) PROVE u[i] = s[i]
    BY <1>1, <1>2 DEF Continues
  <1>4. ASSUME NEW i \in (Len(s) + 1)..Len(u) PROVE u[i].from = h
    <2>1. CASE i <= Len(t)
      <3>1. i \in (Len(s) + 1)..Len(t) /\ i \in 1..Len(t)
        BY <1>1, <2>1
      <3>2. QED
        BY <3>1 DEF Continues
    <2>2. CASE ~(i <= Len(t))
      <3>1. i \in (Len(t) + 1)..Len(u)
        BY <1>1, <2>2
      <3>2. QED
        BY <3>1 DEF Continues
    <2>3. QED
      BY <2>1, <2>2
  <1>5. QED
    BY <1>1, <1>2, <1>3, <1>4 DEF Continues

\* What two parts of a block establish, the block does.
LEMMA PassedTrans ==
  ASSUME NEW n, NEW m, NEW k, NEW replay \in BOOLEAN, NodeOK(n),
         Passed(n, m, replay), Passed(m, k, replay)
  PROVE  Passed(n, k, replay)
  <1>1. NodeOK(m) /\ NodeOK(k) /\ m.height = n.height /\ k.height = n.height
    BY DEF Passed
  <1>2. PICK s \in Seq(Entries), t \in Seq(Entries), u \in Seq(Entries) :
          s = n.set_history /\ t = m.set_history /\ u = k.set_history
    BY <1>1, NodeFields DEF NodeOK
  <1>3. PICK h : h = n.height + 1
    OBVIOUS
  <1>4. Continues(s, t, h) /\ Continues(t, u, h)
    BY <1>1, <1>2, <1>3 DEF Passed
  <1>5. Continues(s, u, h)
    BY <1>4, ContinuesTrans
  <1>6. Continues(n.set_history, k.set_history, n.height + 1)
    BY <1>2, <1>3, <1>5
  <1>7. LastIs(n.set_history, n.validators) => LastIs(k.set_history, k.validators)
    BY DEF Passed
  <1>8. replay => k.signer = n.signer
    BY DEF Passed
  <1>9. NotReadmitted /\ GenesisKey(n.validators) => GenesisKey(k.validators)
    BY DEF Passed
  <1>10. NotReadmitted /\ replay = FALSE /\ SignerOK(n) => SignerOK(k)
    BY DEF Passed
  <1>11. QED
    BY <1>1, <1>6, <1>7, <1>8, <1>9, <1>10 DEF Passed

\* Recording after the certificates (HK-R6).
LEMMA RecordedPasses ==
  ASSUME NEW n, NodeOK(n), NEW m, NEW replay \in BOOLEAN, Kept(n, m, replay),
         NEW k, k = recorded(m, n)
  PROVE  Passed(n, k, replay) /\ k.validators = m.validators
  <1>1. n \in Nodes /\ NodeOK(m) /\ m \in Nodes /\ m.height = n.height /\ m.set_history = n.set_history
    BY DEF Kept, NodeOK
  <1>2. PICK s \in Seq(Entries) : s = n.set_history
    BY <1>1, NodeFields
  <1>3. CASE m.applied = n.applied /\ m.validators = n.validators
    <2>1. k = m
      BY <1>3 DEF recorded
    <2>2. Continues(s, s, n.height + 1)
      BY DEF Continues
    <2>3. LastIs(n.set_history, n.validators) => LastIs(k.set_history, k.validators)
      BY <1>1, <1>3, <2>1
    <2>4. QED
      BY <1>1, <1>2, <2>1, <2>2, <2>3 DEF Passed, Kept
  <1>4. CASE ~(m.applied = n.applied /\ m.validators = n.validators)
    <2>1. PICK e : e = [from |-> n.height + 1, set |-> m.validators]
      OBVIOUS
    <2>2. k = [m EXCEPT !.set_history = Append(@, e)]
      BY <1>1, <1>4, <2>1 DEF recorded
    <2>3. k = [height |-> m.height, validators |-> m.validators, set_history |-> Append(s, e),
               current_epoch |-> m.current_epoch, signer |-> m.signer, applied |-> m.applied]
      BY <1>1, <1>2, <2>2 DEF Nodes
    <2>4. e \in Entries
      BY <1>1, <2>1, NodeFields DEF Entries
    <2>5. PICK t : t = Append(s, e)
      OBVIOUS
    <2>6. /\ t \in Seq(Entries) /\ Len(t) = Len(s) + 1 /\ Len(s) \in Nat
          /\ t[Len(s) + 1] = e /\ \A i \in 1..Len(s) : t[i] = s[i]
      BY <2>4, <2>5
    <2>7. Continues(s, t, n.height + 1)
      <3>1. ASSUME NEW i \in (Len(s) + 1)..Len(t) PROVE t[i].from = n.height + 1
        <4>1. i = Len(s) + 1
          BY <2>6
        <4>2. QED
          BY <2>1, <2>6, <4>1
      <3>2. QED
        BY <2>6, <3>1 DEF Continues
    <2>8. LastIs(t, m.validators)
      BY <2>1, <2>6 DEF LastIs
    <2>9. /\ k.height = m.height /\ k.validators = m.validators /\ k.set_history = t
          /\ k.signer = m.signer /\ k.current_epoch = m.current_epoch
      BY <2>3, <2>5
    <2>10. k \in Nodes
      BY <1>1, <2>3, <2>5, <2>6, NodeFields DEF Nodes
    <2>11. NodeOK(k)
      BY <1>1, <2>9, <2>10 DEF NodeOK
    <2>12. SignerOK(m) => SignerOK(k)
      BY <2>9 DEF SignerOK
    <2>13. QED
      BY <1>1, <1>2, <2>7, <2>8, <2>9, <2>11, <2>12 DEF Passed, Kept
  <1>5. QED
    BY <1>3, <1>4

\* apply_rotations, with the history entry it ends with.
LEMMA RotationsPass ==
  ASSUME NEW n, NodeOK(n), NEW replay \in BOOLEAN, NEW b \in Blocks
  PROVE  Passed(n, apply_rotations(n, b, replay), replay)
  <1>1. b.rotations \in Seq(RotationCerts)
    BY ValidatorSetAssumption
  <1>2. PICK m : m = RotateLoop(n, replay, b.rotations)
    OBVIOUS
  <1>3. Kept(n, m, replay)
    BY <1>1, <1>2, RotationsKeep
  <1>4. apply_rotations(n, b, replay) = recorded(m, n)
    BY <1>2 DEF apply_rotations, RotateLoop
  <1>5. PICK k : k = recorded(m, n)
    OBVIOUS
  <1>6. Passed(n, k, replay)
    BY <1>3, <1>5, RecordedPasses
  <1>7. QED
    BY <1>4, <1>5, <1>6

\* The set after the changes of a block and the bootstrap re-weight.
Reweighted(m) ==
  IF m.height = bootstrap_height THEN [m EXCEPT !.validators = reweight_roots(m.validators)] ELSE m

\* The bootstrap re-weight keeps a node good.
LEMMA ReweightedKeeps ==
  ASSUME NEW n, NodeOK(n), NEW replay \in BOOLEAN, NEW m, m = Reweighted(n)
  PROVE  Kept(n, m, replay)
  <1>1. CASE n.height # bootstrap_height
    BY <1>1 DEF Reweighted, Kept
  <1>2. CASE n.height = bootstrap_height
    <2>1. PICK v, w : v = n.validators /\ w = reweight_roots(v)
      OBVIOUS
    <2>2. n \in Nodes /\ Runnable(v) /\ OwnKey(v)
      BY <2>1 DEF NodeOK
    <2>3. m = [height |-> n.height, validators |-> w, set_history |-> n.set_history,
               current_epoch |-> n.current_epoch, signer |-> n.signer, applied |-> n.applied]
      BY <1>2, <2>1, <2>2 DEF Reweighted, Nodes
    <2>4. /\ Runnable(w) /\ DOMAIN w = DOMAIN v
          /\ \A r \in DOMAIN v : w[r].public_key = v[r].public_key /\ w[r].epoch = v[r].epoch
      BY <2>1, <2>2, ReweightKeeps
    <2>5. /\ m.height = n.height /\ m.validators = w /\ m.set_history = n.set_history
          /\ m.signer = n.signer /\ m.current_epoch = n.current_epoch
      BY <2>3
    <2>6. w \in Sets
      BY <2>4 DEF Runnable
    <2>7. m \in Nodes
      BY <2>2, <2>3, <2>6, NodeFields DEF Nodes
    <2>8. OwnKey(w) /\ (GenesisKey(v) => GenesisKey(w))
      BY <2>2, <2>4 DEF OwnKey, GenesisKey
    <2>9. SignerOK(n) => SignerOK(m)
      BY <2>1, <2>4, <2>5 DEF SignerOK
    <2>10. QED
      BY <2>1, <2>4, <2>5, <2>7, <2>8, <2>9 DEF Kept, NodeOK
  <1>3. QED
    BY <1>1, <1>2

\* apply_set_changes, with the history entry it ends with.
LEMMA ChangesPass ==
  ASSUME NEW n, NodeOK(n), NEW replay \in BOOLEAN, NEW b \in Blocks
  PROVE  /\ Passed(n, apply_set_changes(n, b), replay)
         /\ apply_set_changes(n, b).validators = Reweighted(ChangeLoop(n, b.set_changes)).validators
  <1>1. b.set_changes \in Seq(SetChangeCerts)
    BY ValidatorSetAssumption
  <1>2. PICK m : m = ChangeLoop(n, b.set_changes)
    OBVIOUS
  <1>3. Kept(n, m, replay)
    BY <1>1, <1>2, ChangesKeep
  <1>4. m.height = n.height /\ NodeOK(m)
    BY <1>3 DEF Kept
  <1>5. PICK w : w = Reweighted(m)
    OBVIOUS
  <1>6. Kept(m, w, replay)
    BY <1>4, <1>5, ReweightedKeeps
  <1>7. Kept(n, w, replay)
    BY <1>3, <1>6, KeptTrans
  <1>8. apply_set_changes(n, b) = recorded(w, n)
    BY <1>2, <1>4, <1>5 DEF apply_set_changes, ChangeLoop, Reweighted
  <1>9. PICK k : k = recorded(w, n)
    OBVIOUS
  <1>10. Passed(n, k, replay) /\ k.validators = w.validators
    BY <1>7, <1>9, RecordedPasses
  <1>11. QED
    BY <1>2, <1>5, <1>8, <1>9, <1>10

\* The sets the two halves of a block leave.
LEMMA RotationsSet ==
  ASSUME NEW n, NodeOK(n), NEW replay \in BOOLEAN, NEW b \in Blocks
  PROVE  apply_rotations(n, b, replay).validators = RotateLoop(n, replay, b.rotations).validators
  <1>1. b.rotations \in Seq(RotationCerts)
    BY ValidatorSetAssumption
  <1>2. PICK m : m = RotateLoop(n, replay, b.rotations)
    OBVIOUS
  <1>3. Kept(n, m, replay)
    BY <1>1, <1>2, RotationsKeep
  <1>4. apply_rotations(n, b, replay) = recorded(m, n)
    BY <1>2 DEF apply_rotations, RotateLoop
  <1>5. PICK k : k = recorded(m, n)
    OBVIOUS
  <1>6. k.validators = m.validators
    BY <1>3, <1>5, RecordedPasses
  <1>7. QED
    BY <1>2, <1>4, <1>5, <1>6

\* The node one height up, before the block's certificates.
Higher(n) == [n EXCEPT !.height = @ + 1]

\* Counting the height changes nothing else.
LEMMA HigherKeeps ==
  ASSUME NEW n, NodeOK(n), NEW u, u = Higher(n)
  PROVE  /\ NodeOK(u) /\ u.height = n.height + 1 /\ u.validators = n.validators
         /\ u.set_history = n.set_history /\ u.signer = n.signer
         /\ SignerOK(n) => SignerOK(u)
  <1>1. n \in Nodes /\ Runnable(n.validators) /\ OwnKey(n.validators)
    BY DEF NodeOK
  <1>2. u = [height |-> n.height + 1, validators |-> n.validators, set_history |-> n.set_history,
             current_epoch |-> n.current_epoch, signer |-> n.signer, applied |-> n.applied]
    BY <1>1 DEF Higher, Nodes
  <1>3. u \in Nodes
    BY <1>1, <1>2, NodeFields DEF Nodes
  <1>4. /\ u.height = n.height + 1 /\ u.validators = n.validators /\ u.signer = n.signer
        /\ u.set_history = n.set_history /\ u.current_epoch = n.current_epoch
    BY <1>2
  <1>5. QED
    BY <1>1, <1>3, <1>4 DEF NodeOK, SignerOK

\* A block is its rotations and then its set changes, one height up.
LEMMA BlockSteps ==
  ASSUME NEW n, NEW b, NEW replay \in BOOLEAN
  PROVE  apply_block(n, b, replay) = apply_set_changes(apply_rotations(Higher(n), b, replay), b)
  BY DEF apply_block, Higher

\* One block.
LEMMA BlockPasses ==
  ASSUME NEW n, NodeOK(n), NEW replay \in BOOLEAN, NEW b \in Blocks,
         NEW k, k = apply_block(n, b, replay)
  PROVE  Passed(Higher(n), k, replay)
  <1>1. PICK u : u = Higher(n)
    OBVIOUS
  <1>2. NodeOK(u)
    BY <1>1, HigherKeeps
  <1>3. PICK m : m = apply_rotations(u, b, replay)
    OBVIOUS
  <1>4. Passed(u, m, replay)
    BY <1>2, <1>3, RotationsPass
  <1>5. NodeOK(m)
    BY <1>4 DEF Passed
  <1>6. k = apply_set_changes(m, b)
    BY <1>1, <1>3, BlockSteps
  <1>7. Passed(m, k, replay)
    BY <1>5, <1>6, ChangesPass
  <1>8. Passed(u, k, replay)
    BY <1>2, <1>4, <1>7, PassedTrans
  <1>9. QED
    BY <1>1, <1>8

\* The set it leaves depends on set and height alone, live or replayed.
LEMMA BlockSame ==
  ASSUME NEW n, NEW m, Same(n, m), NEW e \in BOOLEAN, NEW f \in BOOLEAN, NEW b \in Blocks
  PROVE  apply_block(n, b, e).validators = apply_block(m, b, f).validators
  <1>0. b.rotations \in Seq(RotationCerts) /\ b.set_changes \in Seq(SetChangeCerts)
    BY ValidatorSetAssumption
  <1>1. PICK nu, mu : nu = Higher(n) /\ mu = Higher(m)
    OBVIOUS
  <1>2. NodeOK(nu) /\ nu.height = n.height + 1 /\ nu.validators = n.validators
    BY <1>1, HigherKeeps DEF Same
  <1>3. NodeOK(mu) /\ mu.height = m.height + 1 /\ mu.validators = m.validators
    BY <1>1, HigherKeeps DEF Same
  <1>4. Same(nu, mu)
    BY <1>2, <1>3 DEF Same
  <1>5. PICK nr, mr : nr = apply_rotations(nu, b, e) /\ mr = apply_rotations(mu, b, f)
    OBVIOUS
  <1>6. Same(RotateLoop(nu, e, b.rotations), RotateLoop(mu, f, b.rotations))
    BY <1>0, <1>4, RotationsSame
  <1>7. nr.validators = mr.validators
    BY <1>2, <1>3, <1>5, <1>6, RotationsSet DEF Same
  <1>8. Passed(nu, nr, e) /\ Passed(mu, mr, f)
    BY <1>2, <1>3, <1>5, RotationsPass
  <1>9. Same(nr, mr)
    BY <1>4, <1>7, <1>8 DEF Same, Passed
  <1>10. PICK nc, mc : nc = ChangeLoop(nr, b.set_changes) /\ mc = ChangeLoop(mr, b.set_changes)
    OBVIOUS
  <1>11. Same(nc, mc)
    BY <1>0, <1>9, <1>10, ChangesSame
  <1>12. Reweighted(nc).validators = Reweighted(mc).validators
    <2>1. nc \in Nodes /\ mc \in Nodes /\ nc.height = mc.height /\ nc.validators = mc.validators
      BY <1>11 DEF Same, NodeOK
    <2>2. QED
      BY <2>1 DEF Reweighted, Nodes
  <1>13. NodeOK(nr) /\ NodeOK(mr)
    BY <1>9 DEF Same
  <1>14. apply_set_changes(nr, b).validators = Reweighted(nc).validators
    BY <1>10, <1>13, ChangesPass
  <1>15. apply_set_changes(mr, b).validators = Reweighted(mc).validators
    BY <1>10, <1>13, ChangesPass
  <1>16. apply_block(n, b, e) = apply_set_changes(nr, b) /\ apply_block(m, b, f) = apply_set_changes(mr, b)
    BY <1>1, <1>5, BlockSteps
  <1>17. QED
    BY <1>12, <1>14, <1>15, <1>16

-----------------------------------------------------------------------------
(* The chain                                                               *)

\* A node that never stopped, at height h.
After(d, h) == BlockLoop(fresh, FALSE, SubSeq(d, 1, h))

\* A new node on the genesis tree is good and its signer is on its seat's tree.
LEMMA FreshOK ==
  /\ NodeOK(fresh) /\ fresh.height = 0 /\ fresh.validators = genesis_set
  /\ fresh.set_history = <<[from |-> 1, set |-> genesis_set]>>
  /\ fresh.signer = op_key[0] /\ GenesisKey(genesis_set) /\ SignerOK(fresh)
  <1>1. genesis_set = [r \in DOMAIN genesis |->
            [address |-> genesis[r].public_key, public_key |-> genesis[r].public_key,
             epoch |-> 0, voting_power |-> genesis[r].voting_power]]
    BY DEF genesis_set, new_seat
  <1>2. DOMAIN genesis_set = DOMAIN genesis
    BY <1>1
  <1>3. ASSUME NEW r \in DOMAIN genesis
        PROVE  /\ genesis_set[r] \in Seats /\ genesis_set[r].address = genesis[r].public_key
               /\ genesis_set[r].public_key = genesis[r].public_key /\ genesis_set[r].epoch = 0
    BY <1>1, ValidatorSetAssumption DEF Seats
  <1>4. genesis_set \in [DOMAIN genesis -> Seats] /\ DOMAIN genesis \in SUBSET Roots
    BY <1>1, <1>3, ValidatorSetAssumption
  <1>5. genesis_set \in Sets
    BY <1>4, SetOver
  <1>6. Runnable(genesis_set)
    BY <1>2, <1>3, <1>5, ValidatorSetAssumption DEF Runnable
  <1>7. OwnKey(genesis_set) /\ GenesisKey(genesis_set)
    BY <1>2, <1>3, ValidatorSetAssumption DEF OwnKey, GenesisKey
  <1>8. /\ fresh.height = 0 /\ fresh.validators = genesis_set
        /\ fresh.set_history = <<[from |-> 1, set |-> genesis_set]>>
        /\ fresh.signer = op_key[0] /\ fresh.current_epoch = 0
    BY DEF fresh
  <1>9. [from |-> 1, set |-> genesis_set] \in Entries
    BY <1>5 DEF Entries
  <1>9a. <<[from |-> 1, set |-> genesis_set]>> \in Seq(Entries)
    BY <1>9
  <1>10. fresh \in Nodes
    BY <1>5, <1>9a, ValidatorSetAssumption DEF fresh, Nodes
  <1>11. SignerOK(fresh)
    BY <1>2, <1>3, <1>8, ValidatorSetAssumption DEF SignerOK
  <1>12. QED
    BY <1>6, <1>7, <1>8, <1>10, <1>11 DEF NodeOK

\* It goes on block by block.
LEMMA AfterSteps ==
  ASSUME NEW d \in Seq(Blocks), NEW live \in BOOLEAN, live = FALSE
  PROVE  /\ After(d, 0) = fresh
         /\ \A h \in 1..Len(d) : After(d, h) = apply_block(After(d, h - 1), d[h], live)
  <1>1. ASSUME NEW h \in 0..Len(d)
        PROVE  \E r : IsRun(r, <<"block", live>>, fresh, SubSeq(d, 1, h)) /\ r[h] = After(d, h)
    <2>1. PICK q : q = SubSeq(d, 1, h)
      OBVIOUS
    <2>2. q \in Seq(Blocks) /\ Len(q) = h /\ DOMAIN q = 1..h /\ h \in Nat
      BY <2>1
    <2>3. \E r : IsRun(r, <<"block", live>>, fresh, q) /\ r[Len(q)] = BlockLoop(fresh, live, q)
      BY <2>2, BlockRuns
    <2>4. BlockLoop(fresh, live, q) = After(d, h)
      BY <2>1 DEF After
    <2>5. QED
      BY <2>1, <2>2, <2>3, <2>4
  <1>2. After(d, 0) = fresh
    BY <1>1 DEF IsRun
  <1>3. ASSUME NEW h \in 1..Len(d) PROVE After(d, h) = apply_block(After(d, h - 1), d[h], live)
    <2>1. PICK r : IsRun(r, <<"block", live>>, fresh, SubSeq(d, 1, h)) /\ r[h] = After(d, h)
      BY <1>1
    <2>2. PICK s : IsRun(s, <<"block", live>>, fresh, SubSeq(d, 1, h - 1)) /\ s[h - 1] = After(d, h - 1)
      BY <1>1
    <2>3. PICK p, q : p = SubSeq(d, 1, h) /\ q = SubSeq(d, 1, h - 1)
      OBVIOUS
    <2>4. /\ Len(p) = h /\ Len(q) = h - 1 /\ h - 1 \in Nat /\ h \in Nat
          /\ p[h] = d[h] /\ \A i \in 1..(h - 1) : p[i] = q[i]
      BY <2>3
    <2>5. PICK g \in Nat : g = h - 1
      BY <2>4
    <2>6. r[g] = s[g]
      <3>1. /\ IsRun(r, <<"block", live>>, fresh, p) /\ IsRun(s, <<"block", live>>, fresh, q)
            /\ Len(p) \in Nat /\ Len(q) \in Nat /\ g <= Len(p) /\ g <= Len(q)
            /\ \A i \in 1..g : p[i] = q[i]
        BY <2>1, <2>2, <2>3, <2>4, <2>5
      <3>2. TwoRuns(r, s, <<"block", live>>, fresh, p, q, g)
        BY <3>1 DEF TwoRuns
      <3>3. QED
        BY <3>2, RunsAgree
    <2>7. r[h] = turn(<<"block", live>>, r[h - 1], p[h])
      <3>1. h \in 1..Len(p) /\ IsRun(r, <<"block", live>>, fresh, p)
        BY <2>1, <2>3, <2>4
      <3>2. QED
        BY <3>1 DEF IsRun
    <2>8. r[h] = apply_block(r[h - 1], d[h], live)
      BY <2>4, <2>7 DEF turn
    <2>9. QED
      BY <2>1, <2>2, <2>5, <2>6, <2>8
  <1>4. QED
    BY <1>2, <1>3

\* A node that never stopped is good at every height of the chain.
LEMMA AfterOK ==
  ASSUME NEW d \in Seq(Blocks)
  PROVE  \A h \in 0..Len(d) : NodeOK(After(d, h)) /\ After(d, h).height = h
  <1> DEFINE G == {h \in Nat : NodeOK(After(d, h)) /\ After(d, h).height = h}
  <1>0. PICK live \in BOOLEAN : live = FALSE
    OBVIOUS
  <1>1. /\ After(d, 0) = fresh
        /\ \A h \in 1..Len(d) : After(d, h) = apply_block(After(d, h - 1), d[h], live)
    BY <1>0, AfterSteps
  <1>2. 0 \in G
    BY <1>1, FreshOK
  <1>3. ASSUME NEW h \in 1..Len(d), h - 1 \in G PROVE h \in G
    <2>1. PICK n, k : n = After(d, h - 1) /\ k = After(d, h)
      OBVIOUS
    <2>2. NodeOK(n) /\ n.height = h - 1 /\ k = apply_block(n, d[h], live) /\ d[h] \in Blocks
      BY <1>1, <1>3, <2>1
    <2>3. Passed(Higher(n), k, live)
      BY <2>2, BlockPasses
    <2>4. PICK u : u = Higher(n)
      OBVIOUS
    <2>5. u.height = n.height + 1
      BY <2>2, <2>4, HigherKeeps
    <2>6. NodeOK(k) /\ k.height = h
      BY <2>2, <2>3, <2>4, <2>5 DEF Passed
    <2>7. QED
      BY <2>1, <2>6
  <1>4. \A h \in 0..Len(d) : h \in G
    <2>1. Len(d) \in Nat
      OBVIOUS
    <2> HIDE DEF G
    <2>2. QED
      BY <1>2, <1>3, <2>1, Climb
  <1>5. QED
    BY <1>4

\* An answer for a height below the new entries does not change.
LEMMA OldAnswers ==
  ASSUME NEW s \in Seq(Entries), NEW t \in Seq(Entries), NEW h \in Nat, NEW g \in Nat,
         Continues(s, t, g), h < g
  PROVE  validator_set_at(t, h) = validator_set_at(s, h)
  <1>1. Len(s) \in Nat /\ Len(t) \in Nat /\ DOMAIN s = 1..Len(s) /\ DOMAIN t = 1..Len(t) /\ Len(s) <= Len(t)
    BY DEF Continues
  <1>2. \A i \in 1..Len(s) : t[i] = s[i]
    BY DEF Continues
  <1>3. \A i \in 1..Len(t) : i \notin 1..Len(s) => t[i].from = g
    BY <1>1 DEF Continues
  <1>4. {i \in DOMAIN t : t[i].from <= h} = {i \in DOMAIN s : s[i].from <= h}
    <2>1. ASSUME NEW i \in DOMAIN t, t[i].from <= h PROVE i \in DOMAIN s /\ s[i].from <= h
      <3>1. i \in 1..Len(s)
        BY <1>1, <1>3, <2>1
      <3>2. QED
        BY <1>1, <1>2, <2>1, <3>1
    <2>2. ASSUME NEW i \in DOMAIN s, s[i].from <= h PROVE i \in DOMAIN t /\ t[i].from <= h
      BY <1>1, <1>2, <2>2
    <2>3. QED
      BY <2>1, <2>2
  <1>5. PICK S : S = {i \in DOMAIN s : s[i].from <= h}
    OBVIOUS
  <1>6. S \in SUBSET (1..Len(s))
    BY <1>1, <1>5
  <1>7. S # {} => Max(S) \in S
    BY <1>1, <1>6, MaxOf
  <1>8. S # {} => t[Max(S)] = s[Max(S)]
    BY <1>2, <1>6, <1>7
  <1>9. validator_set_at(t, h) = IF S = {} THEN None ELSE t[Max(S)].set
    BY <1>4, <1>5 DEF validator_set_at
  <1>10. validator_set_at(s, h) = IF S = {} THEN None ELSE s[Max(S)].set
    BY <1>5 DEF validator_set_at
  <1>11. QED
    BY <1>8, <1>9, <1>10

\* When all entries are in force the last one answers.
LEMMA LastAnswers ==
  ASSUME NEW s \in Seq(Entries), NEW h \in Nat, Len(s) >= 1, \A i \in 1..Len(s) : s[i].from <= h
  PROVE  validator_set_at(s, h) = s[Len(s)].set
  <1>1. Len(s) \in Nat /\ DOMAIN s = 1..Len(s)
    OBVIOUS
  <1>2. PICK S : S = {i \in DOMAIN s : s[i].from <= h}
    OBVIOUS
  <1>3. S = 1..Len(s)
    BY <1>1, <1>2
  <1>4. S \in SUBSET (1..Len(s)) /\ S # {} /\ Len(s) \in S
    BY <1>1, <1>3
  <1>5. Max(S) \in S /\ \A x \in S : x <= Max(S)
    BY <1>1, <1>4, MaxOf
  <1>6. PICK m : m = Max(S)
    OBVIOUS
  <1>7. m \in 1..Len(s) /\ Len(s) <= m
    BY <1>3, <1>4, <1>5, <1>6
  <1>8. m = Len(s)
    <2>1. PICK l \in Nat : l = Len(s)
      BY <1>1
    <2>2. m \in 1..l /\ l <= m
      BY <1>7, <2>1
    <2>3. m = l
      BY <2>2
    <2>4. QED
      BY <2>1, <2>3
  <1>9. validator_set_at(s, h) = IF S = {} THEN None ELSE s[Max(S)].set
    BY <1>2 DEF validator_set_at
  <1>10. QED
    BY <1>4, <1>6, <1>8, <1>9

\* Before the first entry nobody answers.
LEMMA NoAnswer ==
  ASSUME NEW s \in Seq(Entries), NEW h \in Nat, \A i \in 1..Len(s) : h < s[i].from
  PROVE  validator_set_at(s, h) = None
  <1>1. DOMAIN s = 1..Len(s) /\ \A i \in 1..Len(s) : s[i].from \in Nat
    <2>1. DOMAIN s = 1..Len(s) /\ \A i \in 1..Len(s) : s[i] \in Entries
      OBVIOUS
    <2>2. \A e \in Entries : e.from \in Nat
      BY DEF Entries
    <2>3. QED
      BY <2>1, <2>2
  <1>2. {i \in DOMAIN s : s[i].from <= h} = {}
    BY <1>1
  <1>3. QED
    BY <1>2 DEF validator_set_at

\* A history that answers for every height from its first entry on, up to the next.
HistOK(n, d) ==
  /\ LastIs(n.set_history, n.validators)
  /\ n.set_history[1].from \in 1..(n.height + 1)
  /\ \A i \in 1..Len(n.set_history) :
        n.set_history[1].from <= n.set_history[i].from /\ n.set_history[i].from <= n.height + 1
  /\ \A h \in (n.set_history[1].from)..(n.height + 1) :
        validator_set_at(n.set_history, h) = After(d, h - 1).validators

\* A sound node that holds what the decided blocks give.
OnChain(n, d) ==
  /\ NodeOK(n) /\ n.height <= Len(d)
  /\ n.validators = After(d, n.height).validators
  /\ HistOK(n, d)

\* One block further.
Moved(n, k, d, replay) ==
  /\ OnChain(k, d) /\ k.height = n.height + 1 /\ k.set_history[1] = n.set_history[1]
  /\ replay => k.signer = n.signer
  /\ NotReadmitted /\ GenesisKey(n.validators) => GenesisKey(k.validators)
  /\ NotReadmitted /\ replay = FALSE /\ SignerOK(n) => SignerOK(k)

\* A block keeps it there.
LEMMA BlockOnChain ==
  ASSUME NEW d \in Seq(Blocks), NEW n, OnChain(n, d), n.height < Len(d), NEW replay \in BOOLEAN,
         NEW k, k = apply_block(n, d[n.height + 1], replay)
  PROVE  Moved(n, k, d, replay)
  <1>1. NodeOK(n) /\ n.height \in Nat /\ Len(d) \in Nat
    BY NodeFields DEF OnChain, NodeOK
  <1>2. PICK h \in 1..Len(d) : h = n.height + 1
    BY <1>1
  <1>3. d[h] \in Blocks /\ k = apply_block(n, d[h], replay)
    BY <1>2
  <1>4. PICK u : u = Higher(n)
    OBVIOUS
  <1>5. /\ NodeOK(u) /\ u.height = n.height + 1 /\ u.validators = n.validators
        /\ u.set_history = n.set_history /\ u.signer = n.signer
        /\ SignerOK(n) => SignerOK(u)
    BY <1>1, <1>4, HigherKeeps
  <1>6. Passed(u, k, replay)
    BY <1>1, <1>3, <1>4, BlockPasses
  <1>7. NodeOK(k) /\ k.height = h
    BY <1>2, <1>5, <1>6 DEF Passed
  <1>8. PICK live \in BOOLEAN : live = FALSE
    OBVIOUS
  <1>9. k.validators = After(d, h).validators
    <2>1. After(d, h) = apply_block(After(d, h - 1), d[h], live)
      BY <1>8, AfterSteps
    <2>2. PICK a : a = After(d, h - 1)
      OBVIOUS
    <2>3. h - 1 = n.height /\ h - 1 \in 0..Len(d)
      BY <1>1, <1>2
    <2>4. NodeOK(a) /\ a.height = h - 1
      BY <2>2, <2>3, AfterOK
    <2>5. Same(n, a)
      BY <1>1, <2>2, <2>3, <2>4 DEF Same, OnChain
    <2>6. apply_block(n, d[h], replay).validators = apply_block(a, d[h], live).validators
      BY <1>3, <2>5, BlockSame
    <2>7. QED
      BY <1>3, <2>1, <2>2, <2>6
  <1>10. PICK s \in Seq(Entries), t \in Seq(Entries) : s = n.set_history /\ t = k.set_history
    BY <1>1, <1>7, NodeFields DEF NodeOK
  <1>11. Continues(s, t, h + 1)
    BY <1>2, <1>5, <1>6, <1>10 DEF Passed
  <1>12. LastIs(s, n.validators) /\ LastIs(t, k.validators)
    BY <1>5, <1>6, <1>10 DEF Passed, OnChain, HistOK
  <1>13. Len(s) \in Nat /\ Len(t) \in Nat /\ Len(s) >= 1 /\ Len(t) >= Len(s) /\ t[1] = s[1]
    BY <1>11, <1>12 DEF LastIs, Continues
  <1>14. /\ s[1].from \in 1..h
         /\ \A i \in 1..Len(s) : s[1].from <= s[i].from /\ s[i].from <= h
         /\ \A g \in (s[1].from)..h : validator_set_at(s, g) = After(d, g - 1).validators
    BY <1>2, <1>10 DEF OnChain, HistOK
  <1>15. ASSUME NEW i \in 1..Len(t) PROVE t[1].from <= t[i].from /\ t[i].from <= h + 1
    <2>1. CASE i \in 1..Len(s)
      <3>1. t[i] = s[i] /\ s[i] \in Entries
        BY <1>11, <2>1 DEF Continues
      <3>2. QED
        BY <1>13, <1>14, <2>1, <3>1 DEF Entries
    <2>2. CASE i \notin 1..Len(s)
      <3>1. i \in (Len(s) + 1)..Len(t)
        BY <1>13, <2>2
      <3>2. t[i].from = h + 1
        BY <1>11, <3>1 DEF Continues
      <3>3. QED
        BY <1>13, <1>14, <3>2
    <2>3. QED
      BY <2>1, <2>2
  <1>16. ASSUME NEW g \in (t[1].from)..(h + 1)
         PROVE  validator_set_at(t, g) = After(d, g - 1).validators
    <2>0. g \in Nat /\ h + 1 \in Nat
      BY <1>13, <1>14, <1>16
    <2>1. CASE g = h + 1
      <3>1. validator_set_at(t, g) = t[Len(t)].set
        <4>1. Len(t) >= 1 /\ \A i \in 1..Len(t) : t[i].from <= g
          BY <1>13, <1>15, <2>1
        <4>2. QED
          BY <2>0, <4>1, LastAnswers
      <3>2. g - 1 = h
        BY <2>1
      <3>3. QED
        BY <1>9, <1>12, <3>1, <3>2 DEF LastIs
    <2>2. CASE g # h + 1
      <3>1. g < h + 1 /\ g \in (s[1].from)..h
        BY <1>13, <1>14, <2>0, <2>2
      <3>2. PICK f \in Nat : f = h + 1
        BY <2>0
      <3>3. Continues(s, t, f) /\ g < f
        BY <1>11, <3>1, <3>2
      <3>4. validator_set_at(t, g) = validator_set_at(s, g)
        BY <2>0, <3>3, OldAnswers
      <3>5. QED
        BY <1>14, <3>1, <3>4
    <2>3. QED
      BY <2>1, <2>2
  <1>17. HistOK(k, d)
    <2>1. t[1].from \in 1..(h + 1)
      BY <1>13, <1>14
    <2>2. QED
      BY <1>7, <1>10, <1>12, <1>15, <1>16, <2>1 DEF HistOK
  <1>18. OnChain(k, d)
    BY <1>7, <1>9, <1>17 DEF OnChain
  <1>19. /\ replay => k.signer = n.signer
         /\ NotReadmitted /\ GenesisKey(n.validators) => GenesisKey(k.validators)
         /\ NotReadmitted /\ replay = FALSE /\ SignerOK(n) => SignerOK(k)
    BY <1>5, <1>6 DEF Passed
  <1>20. k.height = n.height + 1 /\ k.set_history[1] = n.set_history[1]
    BY <1>2, <1>7, <1>10, <1>13
  <1>21. QED
    BY <1>18, <1>19, <1>20 DEF Moved

\* What a node on the chain is.
LEMMA OnChainFields ==
  ASSUME NEW n, NEW d, OnChain(n, d)
  PROVE  n \in Nodes /\ NodeOK(n) /\ n.height \in Nat /\ n.height <= Len(d)
  BY NodeFields DEF OnChain, NodeOK

-----------------------------------------------------------------------------
(* The steps                                                               *)

\* The network's next block changes nothing below it.
LEMMA AfterAppend ==
  ASSUME NEW d \in Seq(Blocks), NEW b \in Blocks, NEW h \in 0..Len(d)
  PROVE  After(Append(d, b), h) = After(d, h)
  <1>1. PICK e : e = Append(d, b)
    OBVIOUS
  <1>2. e \in Seq(Blocks) /\ Len(e) = Len(d) + 1 /\ \A i \in 1..Len(d) : e[i] = d[i]
    BY <1>1
  <1>3. PICK p, q : p = SubSeq(e, 1, h) /\ q = SubSeq(d, 1, h)
    OBVIOUS
  <1>4. /\ p \in Seq(Blocks) /\ q \in Seq(Blocks) /\ Len(p) = h /\ Len(q) = h
        /\ \A i \in 1..h : p[i] = e[i] /\ q[i] = d[i]
    BY <1>2, <1>3
  <1>5. \A i \in 1..h : p[i] = q[i]
    BY <1>2, <1>4
  <1>6. p = q
    BY <1>4, <1>5
  <1>7. QED
    BY <1>1, <1>3, <1>6 DEF After

\* A node on the chain stays on it when the network decides one more block.
LEMMA OnLongerChain ==
  ASSUME NEW d \in Seq(Blocks), NEW b \in Blocks, NEW n, OnChain(n, d)
  PROVE  OnChain(n, Append(d, b))
  <1>1. PICK e : e = Append(d, b)
    OBVIOUS
  <1>2. Len(e) = Len(d) + 1 /\ Len(d) \in Nat
    BY <1>1
  <1>3. \A h \in 0..Len(d) : After(e, h) = After(d, h)
    BY <1>1, AfterAppend
  <1>4. NodeOK(n) /\ n.height \in Nat /\ n.height <= Len(d)
    BY OnChainFields
  <1>5. n.validators = After(e, n.height).validators
    BY <1>3, <1>4 DEF OnChain
  <1>6. HistOK(n, e)
    <2>1. n.set_history[1].from \in 1..(n.height + 1)
      BY DEF OnChain, HistOK
    <2>2. ASSUME NEW h \in (n.set_history[1].from)..(n.height + 1)
          PROVE  validator_set_at(n.set_history, h) = After(e, h - 1).validators
      <3>1. h - 1 \in 0..Len(d)
        BY <1>2, <1>4, <2>1, <2>2
      <3>2. validator_set_at(n.set_history, h) = After(d, h - 1).validators
        BY <2>2 DEF OnChain, HistOK
      <3>3. QED
        BY <1>3, <3>1, <3>2
    <2>3. QED
      BY <2>2 DEF OnChain, HistOK
  <1>7. QED
    BY <1>1, <1>2, <1>4, <1>5, <1>6 DEF OnChain

\* The block files reach to a first gap.
LEMMA ReachExists ==
  ASSUME NEW s \in Nat, NEW L \in Nat, NEW M \in Nat, NEW D, s <= L, L <= M,
         \A x \in D : x \in 1..L
  PROVE  /\ \E h \in s..M : (s + 1)..h \subseteq D /\ h + 1 \notin D
         /\ \A h \in s..M : (s + 1)..h \subseteq D => h <= L
  <1> DEFINE B == {x \in Nat : x > s /\ x \notin D}
  <1>1. L + 1 \in B /\ B \in SUBSET Nat
    OBVIOUS
  <1>2. PICK m \in B : \A x \in B : m <= x
    <2> HIDE DEF B
    <2>1. QED
      BY <1>1, Least
  <1>3. m \in Nat /\ m > s /\ m \notin D /\ m <= L + 1
    BY <1>1, <1>2
  <1>4. PICK h \in s..M : h = m - 1
    BY <1>3
  <1>5. h + 1 \notin D
    BY <1>3, <1>4
  <1>6. ASSUME NEW x \in (s + 1)..h PROVE x \in D
    <2>1. x \in Nat /\ x > s /\ x < m
      BY <1>3, <1>4
    <2>2. QED
      BY <1>2, <2>1
  <1>7. ASSUME NEW g \in s..M, (s + 1)..g \subseteq D PROVE g <= L
    <2>1. CASE g = s
      BY <2>1
    <2>2. CASE g # s
      <3>1. g \in (s + 1)..g
        BY <2>2
      <3>2. QED
        BY <1>7, <3>1
    <2>3. QED
      BY <2>1, <2>2
  <1>8. QED
    BY <1>5, <1>6, <1>7

\* The state of the node, up or down.
SetInv ==
  /\ decided \in Seq(Blocks) /\ Len(decided) <= MaxHeight /\ up \in BOOLEAN
  /\ \A x \in disk : x \in 1..Len(decided)
  /\ OnChain(node, decided)
  /\ NodeOK(snap) /\ snap.height <= node.height
  /\ snap.validators = After(decided, snap.height).validators
  /\ node.set_history[1].from <= snap.height + 1
  /\ NotReadmitted => /\ GenesisKey(node.validators) /\ GenesisKey(snap.validators)
                      /\ up => SignerOK(node)

\* A process that starts on an image: the history is that image's set.
LEMMA FirstEntry ==
  ASSUME NEW d \in Seq(Blocks), NEW n, NodeOK(n), n.height <= Len(d),
         n.validators = After(d, n.height).validators,
         n.set_history = <<[from |-> n.height + 1, set |-> n.validators]>>
  PROVE  OnChain(n, d) /\ n.set_history[1].from = n.height + 1
  <1>1. PICK s \in Seq(Entries) : s = n.set_history
    BY NodeFields DEF NodeOK
  <1>2. PICK o \in Nat : o = n.height + 1
    BY NodeFields DEF NodeOK
  <1>3. Len(s) = 1 /\ s[1] = [from |-> o, set |-> n.validators]
    BY <1>1, <1>2
  <1>4. s[1].from = o /\ s[1].set = n.validators
    BY <1>3
  <1>5. validator_set_at(s, o) = n.validators
    <2>1. Len(s) >= 1 /\ \A i \in 1..Len(s) : s[i].from <= o
      BY <1>3, <1>4
    <2>2. validator_set_at(s, o) = s[Len(s)].set
      BY <2>1, LastAnswers
    <2>3. QED
      BY <1>3, <1>4, <2>2
  <1>6. HistOK(n, d)
    <2>1. LastIs(s, n.validators)
      BY <1>3, <1>4 DEF LastIs
    <2>2. ASSUME NEW h \in o..o PROVE validator_set_at(s, h) = After(d, h - 1).validators
      <3>1. h = o /\ h - 1 = n.height
        BY <1>2, NodeFields DEF NodeOK
      <3>2. QED
        BY <1>5, <3>1
    <2>3. o \in 1..o
      BY <1>2, NodeFields DEF NodeOK
    <2>4. \A i \in 1..Len(s) : s[1].from <= s[i].from /\ s[i].from <= o
      BY <1>3, <1>4
    <2>5. QED
      BY <1>1, <1>2, <1>4, <2>1, <2>2, <2>3, <2>4 DEF HistOK
  <1>7. QED
    BY <1>1, <1>2, <1>4, <1>6 DEF OnChain

\* A new node is on every chain.
LEMMA FreshOnChain ==
  ASSUME NEW d \in Seq(Blocks)
  PROVE  OnChain(fresh, d) /\ fresh.set_history[1].from = 1
  <1>1. PICK n : n = fresh
    OBVIOUS
  <1>2. PICK live \in BOOLEAN : live = FALSE
    OBVIOUS
  <1>3. After(d, 0) = n
    BY <1>1, <1>2, AfterSteps
  <1>4. /\ NodeOK(n) /\ n.height = 0 /\ n.validators = genesis_set
        /\ n.set_history = <<[from |-> 1, set |-> genesis_set]>>
    BY <1>1, FreshOK
  <1>5. 0 + 1 = 1 /\ 0 <= Len(d)
    OBVIOUS
  <1>6. n.set_history = <<[from |-> n.height + 1, set |-> n.validators]>> /\ n.height <= Len(d)
    BY <1>4, <1>5
  <1>7. OnChain(n, d) /\ n.set_history[1].from = n.height + 1
    BY <1>3, <1>4, <1>6, FirstEntry
  <1>8. QED
    BY <1>1, <1>4, <1>5, <1>7

\* A new node satisfies the invariant.
LEMMA SetInit == Init => SetInv
  <1> SUFFICES ASSUME Init PROVE SetInv
    OBVIOUS
  <1>1. decided = <<>> /\ node = fresh /\ snap = fresh /\ disk = {} /\ up = TRUE
    BY DEF Init
  <1>2. decided \in Seq(Blocks) /\ Len(decided) = 0
    BY <1>1
  <1>3. OnChain(node, decided) /\ node.set_history[1].from = 1
    BY <1>1, <1>2, FreshOnChain
  <1>4. NodeOK(snap) /\ snap.height = 0 /\ node.height = 0 /\ SignerOK(node)
    BY <1>1, FreshOK
  <1>5. GenesisKey(node.validators)
    BY <1>1, FreshOK
  <1>6. snap.validators = After(decided, snap.height).validators
    BY <1>1, <1>3 DEF OnChain
  <1>7. QED
    BY <1>1, <1>2, <1>3, <1>4, <1>5, <1>6, ValidatorSetAssumption DEF SetInv

\* A block the network decides keeps it.
LEMMA DecideInv ==
  ASSUME SetInv, NEW b \in Blocks, Decide(b)
  PROVE  SetInv'
  <1>1. /\ decided' = Append(decided, b) /\ Len(decided) < MaxHeight
        /\ node' = node /\ disk' = disk /\ snap' = snap /\ up' = up
    BY DEF Decide
  <1>2. PICK d \in Seq(Blocks) : d = decided
    BY DEF SetInv
  <1>3. PICK e : e = decided'
    OBVIOUS
  <1>4. e = Append(d, b) /\ e \in Seq(Blocks) /\ Len(e) = Len(d) + 1 /\ Len(e) <= MaxHeight
    BY <1>1, <1>2, <1>3, ValidatorSetAssumption
  <1>5. OnChain(node, e)
    BY <1>2, <1>4, OnLongerChain DEF SetInv
  <1>6. snap.height \in 0..Len(d)
    <2>1. snap.height \in Nat /\ node.height \in Nat /\ node.height <= Len(d) /\ snap.height <= node.height
      BY <1>2, NodeFields DEF SetInv, OnChain, NodeOK
    <2>2. QED
      BY <2>1
  <1>7. After(e, snap.height) = After(d, snap.height)
    BY <1>4, <1>6, AfterAppend
  <1>8. \A x \in disk : x \in 1..Len(e)
    BY <1>2, <1>4 DEF SetInv
  <1>9. QED
    BY <1>1, <1>2, <1>3, <1>4, <1>5, <1>7, <1>8 DEF SetInv

\* Committing the next block keeps it, whether the block and the snapshot reach
\* the disk or not.
LEMMA CommitInv ==
  ASSUME SetInv, Commit
  PROVE  SetInv'
  <1>0. PICK live \in BOOLEAN : live = FALSE
    OBVIOUS
  <1>1. PICK k : k = apply_block(node, decided[node.height + 1], live)
    OBVIOUS
  <1>2. /\ up /\ node.height < Len(decided) /\ node' = k
        /\ disk' \in {disk, disk \cup {k.height}} /\ snap' \in {snap, k}
        /\ decided' = decided /\ up' = up
    BY <1>0, <1>1 DEF Commit
  <1>3. decided \in Seq(Blocks) /\ OnChain(node, decided)
    BY DEF SetInv
  <1>4. /\ OnChain(k, decided) /\ k.height = node.height + 1 /\ k.set_history[1] = node.set_history[1]
        /\ live => k.signer = node.signer
        /\ NotReadmitted /\ GenesisKey(node.validators) => GenesisKey(k.validators)
        /\ NotReadmitted /\ live = FALSE /\ SignerOK(node) => SignerOK(k)
    <2>1. PICK n, d : n = node /\ d = decided
      OBVIOUS
    <2>2. d \in Seq(Blocks) /\ OnChain(n, d) /\ n.height < Len(d) /\ k = apply_block(n, d[n.height + 1], live)
      BY <1>1, <1>2, <1>3, <2>1
    <2>3. Moved(n, k, d, live)
      BY <2>2, BlockOnChain
    <2>4. QED
      BY <2>1, <2>3 DEF Moved
  <1>5. node.height \in Nat /\ k.height \in Nat /\ k.height <= Len(decided) /\ snap.height \in Nat /\ NodeOK(k)
    BY <1>3, <1>4, OnChainFields, NodeFields DEF SetInv, NodeOK
  <1>6. \A x \in disk' : x \in 1..Len(decided)
    BY <1>2, <1>4, <1>5 DEF SetInv
  <1>7. node.set_history[1].from \in Int /\ node.set_history[1].from <= snap.height + 1 /\ snap.height <= node.height
    BY DEF SetInv, OnChain, HistOK
  <1>8. NotReadmitted => GenesisKey(k.validators) /\ SignerOK(k)
    BY <1>0, <1>2, <1>4 DEF SetInv
  <1>9. k.validators = After(decided, k.height).validators
    BY <1>4 DEF OnChain
  <1>10. CASE snap' = snap
    BY <1>2, <1>3, <1>4, <1>5, <1>6, <1>7, <1>8, <1>10 DEF SetInv
  <1>11. CASE snap' = k
    BY <1>2, <1>3, <1>4, <1>5, <1>6, <1>7, <1>8, <1>9, <1>11 DEF SetInv
  <1>12. QED
    BY <1>2, <1>10, <1>11

\* What a restart begins with.
LEMMA RestoredOK ==
  ASSUME SetInv
  PROVE  /\ OnChain(restored, decided) /\ restored.height = snap.height
         /\ restored.set_history[1].from = snap.height + 1
         /\ restored.signer = op_key[0]
         /\ NotReadmitted => GenesisKey(restored.validators)
  <1>1. decided \in Seq(Blocks)
    BY DEF SetInv
  <1>2. CASE snap.height = 0
    <2>1. restored = fresh
      BY <1>2 DEF restored
    <2>2. OnChain(fresh, decided) /\ fresh.set_history[1].from = 1
      BY <1>1, FreshOnChain
    <2>3. QED
      BY <1>2, <2>1, <2>2, FreshOK
  <1>3. CASE snap.height # 0
    <2>1. PICK n, s : n = restored /\ s = <<[from |-> snap.height + 1, set |-> snap.validators]>>
      OBVIOUS
    <2>2. n = [snap EXCEPT !.set_history = s, !.signer = op_key[0]]
      BY <1>3, <2>1 DEF restored
    <2>3. /\ snap \in Nodes /\ Runnable(snap.validators) /\ OwnKey(snap.validators)
          /\ snap.height \in Nat /\ snap.validators \in Sets
      BY NodeFields DEF SetInv, NodeOK
    <2>4. n = [height |-> snap.height, validators |-> snap.validators, set_history |-> s,
               current_epoch |-> snap.current_epoch, signer |-> op_key[0], applied |-> snap.applied]
      BY <2>2, <2>3 DEF Nodes
    <2>5. [from |-> snap.height + 1, set |-> snap.validators] \in Entries
      BY <2>3 DEF Entries
    <2>6. s \in Seq(Entries)
      BY <2>1, <2>5
    <2>7. n \in Nodes
      BY <2>3, <2>4, <2>6, NodeFields, ValidatorSetAssumption DEF Nodes
    <2>8. /\ n.height = snap.height /\ n.validators = snap.validators /\ n.set_history = s
          /\ n.signer = op_key[0]
      BY <2>4
    <2>9. NodeOK(n)
      BY <2>3, <2>7, <2>8 DEF NodeOK
    <2>10. n.height <= Len(decided) /\ n.validators = After(decided, n.height).validators
      <3>1. node.height \in Nat /\ node.height <= Len(decided) /\ Len(decided) \in Nat
        BY <1>1, OnChainFields DEF SetInv
      <3>2. QED
        BY <2>3, <2>8, <3>1 DEF SetInv
    <2>11. n.set_history = <<[from |-> n.height + 1, set |-> n.validators]>>
      BY <2>1, <2>8
    <2>12. OnChain(n, decided) /\ n.set_history[1].from = n.height + 1
      BY <1>1, <2>9, <2>10, <2>11, FirstEntry
    <2>13. QED
      BY <2>1, <2>8, <2>12 DEF SetInv
  <1>4. QED
    BY <1>2, <1>3

\* Along a replay.
Replayed(n, m, d, i) ==
  /\ OnChain(m, d) /\ m.height = n.height + i
  /\ m.set_history[1] = n.set_history[1] /\ m.signer = n.signer
  /\ NotReadmitted /\ GenesisKey(n.validators) => GenesisKey(m.validators)

\* The replay of the blocks behind an image.
LEMMA ReplayOnChain ==
  ASSUME NEW d \in Seq(Blocks), NEW n, OnChain(n, d), NEW q \in Seq(Blocks), NEW on \in BOOLEAN, on = TRUE,
         n.height + Len(q) <= Len(d), \A i \in 1..Len(q) : q[i] = d[n.height + i]
  PROVE  Replayed(n, BlockLoop(n, on, q), d, Len(q))
  <1>1. Len(q) \in Nat /\ DOMAIN q = 1..Len(q) /\ n.height \in Nat /\ Len(d) \in Nat
    BY OnChainFields
  <1>2. PICK r : IsRun(r, <<"block", on>>, n, q) /\ r[Len(q)] = BlockLoop(n, on, q)
    BY <1>1, BlockRuns
  <1> DEFINE G == {i \in Nat : Replayed(n, r[i], d, i)}
  <1>3. 0 \in G
    <2>1. r[0] = n /\ n.height = n.height + 0
      BY <1>1, <1>2 DEF IsRun
    <2>2. QED
      BY <2>1 DEF Replayed
  <1>4. ASSUME NEW i \in 1..Len(q), i - 1 \in G PROVE i \in G
    <2>1. PICK a, b : a = r[i - 1] /\ b = r[i]
      OBVIOUS
    <2>2. Replayed(n, a, d, i - 1)
      BY <1>4, <2>1
    <2>3. OnChain(a, d) /\ a.height = n.height + (i - 1)
      BY <2>2 DEF Replayed
    <2>4. r[i] = turn(<<"block", on>>, r[i - 1], q[i])
      BY <1>2 DEF IsRun
    <2>5. b = apply_block(a, q[i], on)
      BY <2>1, <2>4 DEF turn
    <2>6. n.height + i = a.height + 1 /\ a.height < Len(d)
      BY <1>1, <2>3
    <2>7. b = apply_block(a, d[a.height + 1], on)
      BY <2>5, <2>6
    <2>8. Moved(a, b, d, on)
      BY <2>3, <2>6, <2>7, BlockOnChain
    <2>9. /\ OnChain(b, d) /\ b.height = n.height + i /\ b.set_history[1] = a.set_history[1]
          /\ b.signer = a.signer
          /\ NotReadmitted /\ GenesisKey(a.validators) => GenesisKey(b.validators)
      BY <2>6, <2>8 DEF Moved
    <2>10. Replayed(n, b, d, i)
      BY <2>2, <2>9 DEF Replayed
    <2>11. QED
      BY <2>1, <2>10
  <1>5. Len(q) \in G
    <2> HIDE DEF G
    <2>1. \A i \in 0..Len(q) : i \in G
      BY <1>1, <1>3, <1>4, Climb
    <2>2. QED
      BY <1>1, <2>1
  <1>6. QED
    BY <1>2, <1>5

\* The blocks behind height a.
LEMMA BlocksBehind ==
  ASSUME NEW d \in Seq(Blocks), NEW a \in Nat, NEW r \in Nat, a <= r, r <= Len(d)
  PROVE  /\ SubSeq(d, a + 1, r) \in Seq(Blocks) /\ Len(SubSeq(d, a + 1, r)) = r - a
         /\ \A i \in 1..(r - a) : SubSeq(d, a + 1, r)[i] = d[a + i]
  <1>1. PICK c \in Int : c = a + 1
    OBVIOUS
  <1>2. r \in Int /\ Len(d) \in Nat /\ \A i \in c..r : d[i] \in Blocks
    BY <1>1
  <1>3. /\ SubSeq(d, c, r) \in Seq(Blocks)
        /\ Len(SubSeq(d, c, r)) = IF c <= r THEN r - c + 1 ELSE 0
        /\ \A i \in 1..r - c + 1 : SubSeq(d, c, r)[i] = d[c + i - 1]
    BY <1>2, SubSeqProperties
  <1>4. r - c + 1 = r - a /\ (~(c <= r) => r - a = 0) /\ \A i \in Int : c + i - 1 = a + i
    BY <1>1
  <1>5. QED
    BY <1>1, <1>3, <1>4

\* The blocks a restart replays are the decided ones behind the snapshot.
LEMMA ReplayableBlocks ==
  ASSUME SetInv
  PROVE  /\ replayable \in Seq(Blocks) /\ snap.height + Len(replayable) <= Len(decided)
         /\ \A i \in 1..Len(replayable) : replayable[i] = decided[snap.height + i]
  <1> DEFINE s == snap.height
             P(h) == (s + 1)..h \subseteq disk /\ h + 1 \notin disk
             reach == CHOOSE h \in s..MaxHeight : P(h)
  <1>1. /\ s \in Nat /\ decided \in Seq(Blocks) /\ Len(decided) \in Nat /\ s <= Len(decided)
        /\ MaxHeight \in Nat /\ Len(decided) <= MaxHeight
    <2>1. s \in Nat /\ node.height \in Nat /\ node.height <= Len(decided) /\ s <= node.height
      BY OnChainFields, NodeFields DEF SetInv, NodeOK
    <2>2. QED
      BY <2>1, ValidatorSetAssumption DEF SetInv
  <1>2. \A x \in disk : x \in 1..Len(decided)
    BY DEF SetInv
  <1>3. /\ \E h \in s..MaxHeight : (s + 1)..h \subseteq disk /\ h + 1 \notin disk
        /\ \A h \in s..MaxHeight : (s + 1)..h \subseteq disk => h <= Len(decided)
    <2>1. PICK a \in Nat, L \in Nat, M \in Nat : a = s /\ L = Len(decided) /\ M = MaxHeight
      BY <1>1
    <2>1a. PICK D : D = disk
      OBVIOUS
    <2>2. a <= L /\ L <= M /\ \A x \in D : x \in 1..L
      BY <1>1, <1>2, <2>1, <2>1a
    <2>3. /\ \E h \in a..M : (a + 1)..h \subseteq D /\ h + 1 \notin D
          /\ \A h \in a..M : (a + 1)..h \subseteq D => h <= L
      BY <2>2, ReachExists
    <2>4. QED
      BY <2>1, <2>1a, <2>3
  <1>4. reach \in s..MaxHeight /\ P(reach)
    BY <1>3
  <1>5. PICK r \in Nat : r = reach /\ s <= r /\ r <= Len(decided)
    BY <1>1, <1>3, <1>4
  <1>6. replayable = SubSeq(decided, s + 1, r)
    BY <1>5 DEF replayable
  <1> HIDE DEF reach
  <1>7. /\ replayable \in Seq(Blocks) /\ Len(replayable) = r - s
        /\ \A i \in 1..(r - s) : replayable[i] = decided[s + i]
    <2>1. PICK d \in Seq(Blocks), a \in Nat : d = decided /\ a = s
      BY <1>1
    <2>2. a <= r /\ r <= Len(d)
      BY <1>5, <2>1
    <2>3. /\ SubSeq(d, a + 1, r) \in Seq(Blocks) /\ Len(SubSeq(d, a + 1, r)) = r - a
          /\ \A i \in 1..(r - a) : SubSeq(d, a + 1, r)[i] = d[a + i]
      BY <2>2, BlocksBehind
    <2>4. QED
      BY <1>6, <2>1, <2>3
  <1>8. QED
    BY <1>1, <1>5, <1>7

\* The signer of a node that comes back.
LEMMA AdoptKeeps ==
  ASSUME NEW n, NodeOK(n), NEW k, k = adopt_epoch_signer(n)
  PROVE  /\ NodeOK(k) /\ k.height = n.height /\ k.validators = n.validators
         /\ k.set_history = n.set_history
         /\ n.signer = op_key[0] /\ GenesisKey(n.validators) => SignerOK(k)
  <1>1. n \in Nodes /\ Runnable(n.validators) /\ OwnKey(n.validators)
    BY DEF NodeOK
  <1>2. CASE Me \notin DOMAIN n.validators
    BY <1>2 DEF adopt_epoch_signer, SignerOK
  <1>3. CASE Me \in DOMAIN n.validators
    <2>1. PICK e, p : e = n.validators[Me].epoch /\ p = n.validators[Me].public_key
      OBVIOUS
    <2>2. e \in Nat /\ p \in Keys /\ op_key[e] \in Keys
      BY <1>1, <1>3, <2>1, SeatFields, ValidatorSetAssumption DEF OwnKey
    <2>3. CASE p = op_key[0]
      <3>1. k = [n EXCEPT !.current_epoch = e]
        BY <1>3, <2>1, <2>3 DEF adopt_epoch_signer
      <3>2. k = [height |-> n.height, validators |-> n.validators, set_history |-> n.set_history,
                 current_epoch |-> e, signer |-> n.signer, applied |-> n.applied]
        BY <1>1, <3>1 DEF Nodes
      <3>3. k \in Nodes
        BY <1>1, <2>2, <3>2, NodeFields DEF Nodes
      <3>4. /\ k.height = n.height /\ k.validators = n.validators /\ k.set_history = n.set_history
            /\ k.current_epoch = e /\ k.signer = n.signer
        BY <3>2
      <3>5. QED
        BY <1>1, <2>1, <2>3, <3>3, <3>4 DEF NodeOK, SignerOK
    <2>4. CASE p # op_key[0]
      <3>0. PICK x \in Nat : x = IF op_key[e] = p THEN e ELSE n.current_epoch
        BY <1>1, <2>2, NodeFields
      <3>1. k = [n EXCEPT !.signer = op_key[e], !.current_epoch = x]
        BY <1>1, <1>3, <2>1, <2>4, <3>0 DEF adopt_epoch_signer, Nodes
      <3>2. k = [height |-> n.height, validators |-> n.validators, set_history |-> n.set_history,
                 current_epoch |-> x, signer |-> op_key[e], applied |-> n.applied]
        BY <1>1, <3>1 DEF Nodes
      <3>3. k \in Nodes
        BY <1>1, <2>2, <3>2, NodeFields DEF Nodes
      <3>4. /\ k.height = n.height /\ k.validators = n.validators /\ k.set_history = n.set_history
            /\ k.current_epoch = x /\ k.signer = op_key[e]
        BY <3>2
      <3>5. GenesisKey(n.validators) => SignerOK(k)
        BY <1>3, <2>1, <3>0, <3>4 DEF SignerOK, GenesisKey
      <3>6. QED
        BY <1>1, <3>3, <3>4, <3>5 DEF NodeOK
    <2>5. QED
      BY <2>3, <2>4
  <1>4. QED
    BY <1>2, <1>3

\* A restart from any snapshot and any hole in the block log keeps it.
LEMMA RestartInv ==
  ASSUME SetInv, Restart
  PROVE  SetInv'
  <1>0. PICK on \in BOOLEAN : on = TRUE
    OBVIOUS
  <1>1. PICK n, d, q : n = restored /\ d = decided /\ q = replayable
    OBVIOUS
  <1>2. PICK m : m = BlockLoop(n, on, q)
    OBVIOUS
  <1>3. PICK k : k = adopt_epoch_signer(m)
    OBVIOUS
  <1>4. node' = k /\ up' = TRUE /\ decided' = decided /\ disk' = disk /\ snap' = snap
    <2>1. node' = adopt_epoch_signer(BlockLoop(restored, TRUE, replayable))
      BY DEF Restart, BlockLoop
    <2>2. BlockLoop(restored, TRUE, replayable) = m
      BY <1>0, <1>1, <1>2
    <2>3. up' = TRUE /\ decided' = decided /\ disk' = disk /\ snap' = snap
      BY DEF Restart
    <2>4. QED
      BY <1>3, <2>1, <2>2, <2>3
  <1>5. /\ OnChain(n, d) /\ n.height = snap.height /\ n.set_history[1].from = snap.height + 1
        /\ n.signer = op_key[0] /\ (NotReadmitted => GenesisKey(n.validators)) /\ d \in Seq(Blocks)
    BY <1>1, RestoredOK DEF SetInv
  <1>6. /\ q \in Seq(Blocks) /\ n.height + Len(q) <= Len(d)
        /\ \A i \in 1..Len(q) : q[i] = d[n.height + i]
    BY <1>1, <1>5, ReplayableBlocks
  <1>7. Replayed(n, m, d, Len(q))
    BY <1>0, <1>2, <1>5, <1>6, ReplayOnChain
  <1>8. OnChain(m, d) /\ NodeOK(m) /\ m.signer = op_key[0]
    BY <1>5, <1>7 DEF Replayed, OnChain
  <1>9. /\ NodeOK(k) /\ k.height = m.height /\ k.validators = m.validators
        /\ k.set_history = m.set_history
        /\ m.signer = op_key[0] /\ GenesisKey(m.validators) => SignerOK(k)
    BY <1>3, <1>8, AdoptKeeps
  <1>10. OnChain(k, d)
    BY <1>8, <1>9 DEF OnChain, HistOK
  <1>11. snap.height <= k.height /\ k.set_history[1].from <= snap.height + 1
    <2>1. snap.height \in Nat /\ Len(q) \in Nat
      BY <1>6, NodeFields DEF SetInv, NodeOK
    <2>2. m.height = snap.height + Len(q) /\ m.set_history[1].from = snap.height + 1
      BY <1>5, <1>7 DEF Replayed
    <2>3. QED
      BY <1>9, <2>1, <2>2
  <1>12. NotReadmitted => GenesisKey(k.validators) /\ SignerOK(k)
    BY <1>5, <1>7, <1>8, <1>9 DEF Replayed
  <1>13. QED
    BY <1>1, <1>4, <1>10, <1>11, <1>12 DEF SetInv

\* A crash keeps it.
LEMMA CrashInv ==
  ASSUME SetInv, Crash
  PROVE  SetInv'
  BY DEF SetInv, Crash

\* Every step keeps it.
LEMMA SetStep == SetInv /\ [Next]_vars => SetInv'
  <1> SUFFICES ASSUME SetInv, [Next]_vars PROVE SetInv'
    OBVIOUS
  <1>1. CASE UNCHANGED vars
    BY <1>1 DEF SetInv, vars
  <1>2. CASE Next
    BY <1>2, DecideInv, CommitInv, CrashInv, RestartInv DEF Next
  <1>3. QED
    BY <1>1, <1>2

\* The inductive invariant.
THEOREM SetInvariant == Spec => []SetInv
  BY SetInit, SetStep, PTL DEF Spec

\* setchange.rs apply_to, rotation.rs apply_rotation, state.rs
\* apply_set_changes: whatever certificates the blocks carry, in any order and
\* any number of them in one block, the set the node holds has a seat, no seat's
\* power exceeds MAX_VOTING_POWER, and no two seats share an address.
THEOREM ValidatorSetIsRunnable == Spec => []SetIsRunnable
  <1>1. SetInv => SetIsRunnable
    <2> SUFFICES ASSUME SetInv PROVE SetIsRunnable
      OBVIOUS
    <2>1. /\ node.height \in 0..Len(decided) /\ snap.height \in 0..node.height
      <3>1. /\ node.height \in Nat /\ snap.height \in Nat /\ node.height <= Len(decided)
            /\ snap.height <= node.height /\ Len(decided) \in Nat
        BY OnChainFields, NodeFields DEF SetInv, NodeOK
      <3>2. QED
        BY <3>1
    <2>2. Runnable(node.validators) /\ node.signer \in Keys
      BY OnChainFields, NodeFields DEF SetInv, NodeOK
    <2>3. DOMAIN node.validators \subseteq Roots /\ \A r \in DOMAIN node.validators : node.validators[r] \in Seats
      BY <2>2, InSets DEF Runnable
    <2>4. disk \subseteq 1..Len(decided)
      BY DEF SetInv
    <2>5. TypeOK
      BY <2>1, <2>2, <2>3, <2>4 DEF SetInv, TypeOK, Seats
    <2>6. QED
      BY <2>2, <2>5 DEF SetIsRunnable, Runnable
  <1>2. QED
    BY <1>1, SetInvariant, PTL

\* The part of FollowsBlocks that is about the set and its history.
SetsFollowBlocks ==
  /\ node.validators = SetAfter(node.height)
  /\ \A h \in 1..(node.height + 1) :
        LET answer == validator_set_at(node.set_history, h) IN
        answer = SetAfter(h - 1) \/ (answer = None /\ h <= snap.height)

\* state.rs restore_from_store and context.rs validator_set_at: for every
\* certificate, snapshot and hole in the block log, the node holds the set that
\* the decided blocks give, and its history answers each height with the set
\* that signs it or, where a snapshot covers it, not at all.
THEOREM ValidatorSetOnChain == Spec => []SetsFollowBlocks
  <1>1. SetInv => SetsFollowBlocks
    <2> SUFFICES ASSUME SetInv PROVE SetsFollowBlocks
      OBVIOUS
    <2>1. \A h : SetAfter(h) = After(decided, h).validators
      BY DEF SetAfter, After, BlockLoop
    <2>2. PICK s \in Seq(Entries) : s = node.set_history
      BY OnChainFields, NodeFields DEF SetInv
    <2>3. /\ node.height \in Nat /\ snap.height \in Nat
          /\ s[1].from \in 1..(node.height + 1) /\ s[1].from <= snap.height + 1
      BY <2>2, OnChainFields, NodeFields DEF SetInv, NodeOK, OnChain, HistOK
    <2>4. ASSUME NEW h \in 1..(node.height + 1)
          PROVE  \/ validator_set_at(s, h) = SetAfter(h - 1)
                 \/ validator_set_at(s, h) = None /\ h <= snap.height
      <3>1. CASE h >= s[1].from
        <4>1. h \in (s[1].from)..(node.height + 1)
          BY <2>3, <3>1
        <4>2. QED
          BY <2>1, <2>2, <4>1 DEF SetInv, OnChain, HistOK
      <3>2. CASE ~(h >= s[1].from)
        <4>1. h < s[1].from /\ h \in Nat /\ h <= snap.height
          BY <2>3, <3>2
        <4>2. \A i \in 1..Len(s) : s[1].from <= s[i].from /\ s[i].from \in Nat
          <5>1. \A e \in Entries : e.from \in Nat
            BY DEF Entries
          <5>2. \A i \in 1..Len(s) : s[i] \in Entries
            OBVIOUS
          <5>3. QED
            BY <2>2, <5>1, <5>2 DEF SetInv, OnChain, HistOK
        <4>3. \A i \in 1..Len(s) : h < s[i].from
          BY <2>3, <4>1, <4>2
        <4>4. validator_set_at(s, h) = None
          BY <4>1, <4>3, NoAnswer
        <4>5. QED
          BY <4>1, <4>4
      <3>3. QED
        BY <3>1, <3>2
    <2>5. node.validators = SetAfter(node.height)
      BY <2>1 DEF SetInv, OnChain
    <2>6. QED
      BY <2>2, <2>4, <2>5 DEF SetsFollowBlocks
  <1>2. QED
    BY <1>1, SetInvariant, PTL

\* state.rs apply_rotations, restore_from_store and adopt_epoch_signer: live,
\* synced or replayed, a node holds the set and the history the decided blocks
\* give, and its live signer is on the tree its seat names, provided no
\* certificate admits its root again: a removed seat comes back at epoch 0
\* while a running node's signer stays on its later tree.
THEOREM ValidatorSetFollowsBlocks ==
  ASSUME NotReadmitted
  PROVE  Spec => []FollowsBlocks
  <1>1. SetInv /\ SetsFollowBlocks => FollowsBlocks
    <2> SUFFICES ASSUME SetInv, SetsFollowBlocks PROVE FollowsBlocks
      OBVIOUS
    <2>1. up => SignerOK(node)
      BY DEF SetInv
    <2>2. QED
      BY <2>1 DEF FollowsBlocks, SetsFollowBlocks, SignerOK
  <1>2. QED
    BY <1>1, SetInvariant, ValidatorSetOnChain, PTL

-----------------------------------------------------------------------------
(* Rotation                                                                *)

\* A state that the loop's turns do not leave is where it ends.
Closed(G, op, q) == \A x \in G : \A i \in 1..Len(q) : turn(op, x, q[i]) \in G

\* A loop ends among the states that its turns do not leave.
LEMMA RunEndsIn ==
  ASSUME NEW r, NEW op, NEW base, NEW q, IsRun(r, op, base, q), Len(q) \in Nat,
         NEW G, base \in G, Closed(G, op, q)
  PROVE  r[Len(q)] \in G
  <1> DEFINE I == {i \in Nat : r[i] \in G}
  <1>1. 0 \in I
    BY DEF IsRun
  <1>2. \A i \in 1..Len(q) : i - 1 \in I => i \in I
    BY DEF IsRun, Closed
  <1>3. PICK m \in Nat : m = Len(q)
    OBVIOUS
  <1>4. m \in I
    <2> HIDE DEF I
    <2>1. \A i \in 1..m : i - 1 \in I => i \in I
      BY <1>2, <1>3
    <2>2. \A i \in 0..m : i \in I
      BY <1>1, <2>1, Climb
    <2>3. QED
      BY <2>2
  <1>5. QED
    BY <1>3, <1>4

\* The largest element is what the instance takes for it.
LEMMA SameMax == \A s : RT!Max(s) = Max(s)
  BY DEF RT!Max, Max

\* The fold that keeps some members of a sequence.
LEMMA RetainRuns ==
  ASSUME NEW q, NEW K, Len(q) \in Nat, DOMAIN q = 1..Len(q)
  PROVE  \E r : IsRun(r, <<"retain", K>>, <<>>, q) /\ r[Len(q)] = RT!retain(q, K)
  <1> DEFINE op == <<"retain", K>>
             D == SUBSET DOMAIN q
             h == CHOOSE g : g = [s \in D |-> IF s = {} THEN <<>>
                        ELSE IF q[RT!Max(s)] \in K THEN Append(g[s \ {RT!Max(s)}], q[RT!Max(s)])
                                                   ELSE g[s \ {RT!Max(s)}]]
  <1>1. RT!retain(q, K) = h[DOMAIN q]
    BY DEF RT!retain, RT!FoldLeft, RT!MapThenFoldSet
  <1>2. \A x, t : turn(op, x, t) = IF t \in K THEN Append(x, t) ELSE x
    BY DEF turn
  <1>3. PICK g : IsLoop(g, op, <<>>, q, SUBSET (1..Len(q)))
    BY LoopExists
  <1>4. g = [s \in D |-> IF s = {} THEN <<>>
                ELSE IF q[RT!Max(s)] \in K THEN Append(g[s \ {RT!Max(s)}], q[RT!Max(s)])
                                           ELSE g[s \ {RT!Max(s)}]]
    BY <1>2, <1>3, SameMax DEF IsLoop
  <1>5. h = [s \in D |-> IF s = {} THEN <<>>
                ELSE IF q[RT!Max(s)] \in K THEN Append(h[s \ {RT!Max(s)}], q[RT!Max(s)])
                                           ELSE h[s \ {RT!Max(s)}]]
    BY <1>4
  <1> HIDE DEF h
  <1>6. IsLoop(h, op, <<>>, q, SUBSET (1..Len(q)))
    BY <1>2, <1>5, SameMax DEF IsLoop
  <1>7. QED
    BY <1>1, <1>6, LoopRuns

\* The certificates of a block, one after the other, on the seat.
LEMMA SeatRotates ==
  ASSUME NEW s, NEW q, Len(q) \in Nat, DOMAIN q = 1..Len(q)
  PROVE  \E r : IsRun(r, <<"rotated", 0>>, s, q) /\ r[Len(q)] = RT!rotate_all(s, q)
  <1> DEFINE op == <<"rotated", 0>>
             D == SUBSET DOMAIN q
             h == CHOOSE g : g = [x \in D |-> IF x = {} THEN s
                                              ELSE RT!rotated(g[x \ {RT!Max(x)}], q[RT!Max(x)])]
  <1>1. RT!rotate_all(s, q) = h[DOMAIN q]
    BY DEF RT!rotate_all, RT!FoldLeft, RT!MapThenFoldSet
  <1>2. \A x, t : turn(op, x, t) = RT!rotated(x, t)
    BY DEF turn
  <1>3. PICK g : IsLoop(g, op, s, q, SUBSET (1..Len(q)))
    BY LoopExists
  <1>4. g = [x \in D |-> IF x = {} THEN s ELSE RT!rotated(g[x \ {RT!Max(x)}], q[RT!Max(x)])]
    BY <1>2, <1>3, SameMax DEF IsLoop
  <1>5. h = [x \in D |-> IF x = {} THEN s ELSE RT!rotated(h[x \ {RT!Max(x)}], q[RT!Max(x)])]
    BY <1>4
  <1> HIDE DEF h
  <1>6. IsLoop(h, op, s, q, SUBSET (1..Len(q)))
    BY <1>2, <1>5, SameMax DEF IsLoop
  <1>7. QED
    BY <1>1, <1>6, LoopRuns

\* The set changes of a block, one after the other, on the seat.
LEMMA SeatChanges ==
  ASSUME NEW s, NEW q, Len(q) \in Nat, DOMAIN q = 1..Len(q)
  PROVE  \E r : IsRun(r, <<"changed", 0>>, s, q) /\ r[Len(q)] = RT!change_all(s, q)
  <1> DEFINE op == <<"changed", 0>>
             D == SUBSET DOMAIN q
             h == CHOOSE g : g = [x \in D |-> IF x = {} THEN s
                                              ELSE RT!changed(g[x \ {RT!Max(x)}], q[RT!Max(x)])]
  <1>1. RT!change_all(s, q) = h[DOMAIN q]
    BY DEF RT!change_all, RT!FoldLeft, RT!MapThenFoldSet
  <1>2. \A x, t : turn(op, x, t) = RT!changed(x, t)
    BY DEF turn
  <1>3. PICK g : IsLoop(g, op, s, q, SUBSET (1..Len(q)))
    BY LoopExists
  <1>4. g = [x \in D |-> IF x = {} THEN s ELSE RT!changed(g[x \ {RT!Max(x)}], q[RT!Max(x)])]
    BY <1>2, <1>3, SameMax DEF IsLoop
  <1>5. h = [x \in D |-> IF x = {} THEN s ELSE RT!changed(h[x \ {RT!Max(x)}], q[RT!Max(x)])]
    BY <1>4
  <1> HIDE DEF h
  <1>6. IsLoop(h, op, s, q, SUBSET (1..Len(q)))
    BY <1>2, <1>5, SameMax DEF IsLoop
  <1>7. QED
    BY <1>1, <1>6, LoopRuns

\* The certificates of a block, one after the other, on a queue.
LEMMA RetireRuns ==
  ASSUME NEW s, NEW p, NEW base, base = <<s, p>>, NEW q, Len(q) \in Nat, DOMAIN q = 1..Len(q)
  PROVE  \E r : IsRun(r, <<"retire", 0>>, base, q) /\ r[Len(q)] = RT!retire_all(p, s, q)
  <1> DEFINE op == <<"retire", 0>>
             D == SUBSET DOMAIN q
             h == CHOOSE g : g = [x \in D |-> IF x = {} THEN base
                                              ELSE RT!retired(g[x \ {RT!Max(x)}], q[RT!Max(x)])]
  <1>1. RT!retire_all(p, s, q) = h[DOMAIN q]
    BY DEF RT!retire_all, RT!FoldLeft, RT!MapThenFoldSet
  <1>2. \A x, t : turn(op, x, t) = RT!retired(x, t)
    BY DEF turn
  <1>3. PICK g : IsLoop(g, op, base, q, SUBSET (1..Len(q)))
    BY LoopExists
  <1>4. g = [x \in D |-> IF x = {} THEN base ELSE RT!retired(g[x \ {RT!Max(x)}], q[RT!Max(x)])]
    BY <1>2, <1>3, SameMax DEF IsLoop
  <1>5. h = [x \in D |-> IF x = {} THEN base ELSE RT!retired(h[x \ {RT!Max(x)}], q[RT!Max(x)])]
    BY <1>4
  <1> HIDE DEF h
  <1>6. IsLoop(h, op, base, q, SUBSET (1..Len(q)))
    BY <1>2, <1>5, SameMax DEF IsLoop
  <1>7. QED
    BY <1>1, <1>6, LoopRuns

\* The certificates of a block, one after the other, on this node.
LEMMA FollowRuns ==
  ASSUME NEW m, NEW q, Len(q) \in Nat, DOMAIN q = 1..Len(q)
  PROVE  \E r : IsRun(r, <<"follow", 0>>, m, q) /\ r[Len(q)] = RT!follow_all(m, q)
  <1> DEFINE op == <<"follow", 0>>
             D == SUBSET DOMAIN q
             h == CHOOSE g : g = [x \in D |-> IF x = {} THEN m
                                              ELSE RT!rotate(g[x \ {RT!Max(x)}], q[RT!Max(x)])]
  <1>1. RT!follow_all(m, q) = h[DOMAIN q]
    BY DEF RT!follow_all, RT!FoldLeft, RT!MapThenFoldSet
  <1>2. \A x, t : turn(op, x, t) = RT!rotate(x, t)
    BY DEF turn
  <1>3. PICK g : IsLoop(g, op, m, q, SUBSET (1..Len(q)))
    BY LoopExists
  <1>4. g = [x \in D |-> IF x = {} THEN m ELSE RT!rotate(g[x \ {RT!Max(x)}], q[RT!Max(x)])]
    BY <1>2, <1>3, SameMax DEF IsLoop
  <1>5. h = [x \in D |-> IF x = {} THEN m ELSE RT!rotate(h[x \ {RT!Max(x)}], q[RT!Max(x)])]
    BY <1>4
  <1> HIDE DEF h
  <1>6. IsLoop(h, op, m, q, SUBSET (1..Len(q)))
    BY <1>2, <1>5, SameMax DEF IsLoop
  <1>7. QED
    BY <1>1, <1>6, LoopRuns

\* What retain leaves is typed, no longer, in K, and nothing where K has nothing.
LEMMA Retained ==
  ASSUME NEW S, NEW q \in Seq(S), NEW K, NEW y, y = RT!retain(q, K)
  PROVE  /\ y \in Seq(S) /\ Len(y) <= Len(q) /\ \A i \in DOMAIN y : y[i] \in K
         /\ (\A i \in DOMAIN q : q[i] \notin K) => y = <<>>
  <1>1. Len(q) \in Nat /\ DOMAIN q = 1..Len(q)
    OBVIOUS
  <1>2. PICK r : IsRun(r, <<"retain", K>>, <<>>, q) /\ r[Len(q)] = y
    BY <1>1, RetainRuns
  <1>3. r[0] = <<>> /\ \A i \in 1..Len(q) : r[i] = IF q[i] \in K THEN Append(r[i - 1], q[i]) ELSE r[i - 1]
    BY <1>2 DEF IsRun, turn
  <1> DEFINE I == {i \in Nat : r[i] \in Seq(S) /\ Len(r[i]) <= i /\ \A j \in DOMAIN r[i] : r[i][j] \in K}
             J == {i \in Nat : r[i] = <<>>}
  <1>4. 0 \in I
    <2>1. PICK a : a = r[0] /\ a = <<>>
      BY <1>3
    <2>2. a \in Seq(S) /\ Len(a) <= 0 /\ DOMAIN a = {}
      BY <2>1
    <2>3. QED
      BY <2>1, <2>2
  <1>5. \A i \in 1..Len(q) : i - 1 \in I => i \in I
    <2> SUFFICES ASSUME NEW i \in 1..Len(q), i - 1 \in I PROVE i \in I
      OBVIOUS
    <2>1. PICK a, b, x : a = r[i - 1] /\ b = r[i] /\ x = q[i]
      OBVIOUS
    <2>2. a \in Seq(S) /\ Len(a) <= i - 1 /\ (\A j \in DOMAIN a : a[j] \in K) /\ x \in S
      BY <2>1
    <2>3. b = IF x \in K THEN Append(a, x) ELSE a
      BY <1>3, <2>1
    <2>4. b \in Seq(S) /\ Len(b) <= i
      BY <2>2, <2>3
    <2>5. \A j \in DOMAIN b : b[j] \in K
      BY <2>2, <2>3
    <2>6. QED
      BY <2>1, <2>4, <2>5
  <1>6. ASSUME \A i \in DOMAIN q : q[i] \notin K
        PROVE  \A i \in 1..Len(q) : i - 1 \in J => i \in J
    BY <1>1, <1>3, <1>6
  <1>7. 0 \in J
    BY <1>3
  <1>8. PICK m \in Nat : m = Len(q)
    BY <1>1
  <1> HIDE DEF I, J
  <1>9. m \in I
    <2>1. \A i \in 1..m : i - 1 \in I => i \in I
      BY <1>5, <1>8
    <2>2. \A i \in 0..m : i \in I
      BY <1>4, <2>1, Climb
    <2>3. QED
      BY <2>2
  <1>10. ASSUME \A i \in DOMAIN q : q[i] \notin K PROVE m \in J
    <2>1. \A i \in 1..m : i - 1 \in J => i \in J
      BY <1>6, <1>8, <1>10
    <2>2. \A i \in 0..m : i \in J
      BY <1>7, <2>1, Climb
    <2>3. QED
      BY <2>2
  <1>11. y \in Seq(S) /\ Len(y) <= Len(q) /\ \A i \in DOMAIN y : y[i] \in K
    BY <1>2, <1>8, <1>9 DEF I
  <1>12. QED
    BY <1>2, <1>8, <1>10, <1>11 DEF J

\* A queue of one certificate at most, of an epoch up to e.
Short(e) == {q \in Seq(Issued) : Len(q) <= 1 /\ \A i \in DOMAIN q : q[i].epoch <= e}

\* The bounds are numbers.
LEMMA RotationBounds ==
  /\ MaxEpoch \in Nat /\ Horizon \in Nat /\ Slots \in Nat /\ PerTree \in Nat /\ MaxLag \in Nat
  /\ Changes \subseteq {"remove", "admit"} /\ Out = -1
  BY RotationAssumption DEF Out

\* A certificate, field by field.
LEMMA EpochsAreNumbers ==
  /\ \A c \in Issued : c.epoch \in 1..MaxEpoch /\ c.epoch \in Int /\ c.age \in 0..Horizon + 1
  /\ \A q \in Seq(Issued) : \A i \in DOMAIN q : q[i] \in Issued /\ q[i].epoch \in Int
  <1>1. \A c \in Issued : c.epoch \in 1..MaxEpoch /\ c.epoch \in Int /\ c.age \in 0..Horizon + 1
    BY RotationBounds DEF Issued
  <1>2. ASSUME NEW q \in Seq(Issued), NEW i \in DOMAIN q PROVE q[i] \in Issued
    OBVIOUS
  <1>3. QED
    BY <1>1, <1>2

\* What a cut of a short queue leaves.
LEMMA ShortRetained ==
  ASSUME NEW e, NEW q \in Short(e), NEW K, K \subseteq RT!Range(q)
  PROVE  RT!retain(q, K) \in Short(e)
  <1>1. PICK y : y = RT!retain(q, K)
    OBVIOUS
  <1>2. q \in Seq(Issued) /\ Len(q) <= 1 /\ \A i \in DOMAIN q : q[i].epoch <= e
    BY DEF Short
  <1>3. y \in Seq(Issued) /\ Len(y) <= Len(q) /\ \A i \in DOMAIN y : y[i] \in K
    BY <1>1, <1>2, Retained
  <1>4. \A x \in K : \E i \in DOMAIN q : x = q[i]
    BY DEF RT!Range
  <1>5. \A i \in DOMAIN y : y[i].epoch <= e
    BY <1>2, <1>3, <1>4
  <1>6. Len(y) <= 1
    BY <1>2, <1>3
  <1>7. QED
    BY <1>1, <1>3, <1>5, <1>6 DEF Short

\* Certificates that are not newer are dropped.
LEMMA ShortNewer ==
  ASSUME NEW e \in Int, NEW q \in Short(e), NEW d \in Int
  PROVE  RT!newer(q, d) \in Short(e) /\ (d >= e => RT!newer(q, d) = <<>>)
  <1>1. PICK K : K = {x \in RT!Range(q) : x.epoch > d}
    OBVIOUS
  <1>2. RT!newer(q, d) = RT!retain(q, K)
    BY <1>1 DEF RT!newer
  <1>3. RT!retain(q, K) \in Short(e)
    BY <1>1, ShortRetained
  <1>4. ASSUME d >= e PROVE RT!retain(q, K) = <<>>
    <2>1. q \in Seq(Issued) /\ \A i \in DOMAIN q : q[i].epoch <= e
      BY DEF Short
    <2>2. \A i \in DOMAIN q : q[i].epoch \in Int
      BY <2>1, EpochsAreNumbers
    <2>3. \A i \in DOMAIN q : q[i] \notin K
      BY <1>1, <1>4, <2>1, <2>2
    <2>4. QED
      BY <2>1, <2>3, Retained
  <1>5. QED
    BY <1>2, <1>3, <1>4

\* One more certificate after an empty queue.
LEMMA ShortAppend ==
  ASSUME NEW e, NEW c \in Issued, c.epoch <= e
  PROVE  Append(<<>>, c) \in Short(e) /\ <<>> \in Short(e)
  BY DEF Short

\* A longer reach.
LEMMA ShortMore == ASSUME NEW e \in Int, NEW d \in Int, d <= e PROVE \A q \in Short(d) : q \in Short(e)
  <1>1. ASSUME NEW q \in Short(d) PROVE q \in Short(e)
    <2>1. q \in Seq(Issued) /\ Len(q) <= 1 /\ \A i \in DOMAIN q : q[i].epoch <= d
      BY DEF Short
    <2>2. \A i \in DOMAIN q : q[i].epoch \in Int
      BY <2>1, EpochsAreNumbers
    <2>3. \A i \in DOMAIN q : q[i].epoch <= e
      BY <2>1, <2>2
    <2>4. QED
      BY <2>1, <2>3 DEF Short
  <1>2. QED
    BY <1>1

\* A height later.
LEMMA ShortOlder ==
  ASSUME NEW e, NEW q \in Short(e)
  PROVE  RT!olderSeq(q) \in Short(e)
  <1>1. ASSUME NEW c \in Issued PROVE RT!older(c) \in Issued /\ RT!older(c).epoch = c.epoch
    BY <1>1, RotationBounds DEF RT!older, Issued
  <1>2. q \in Seq(Issued) /\ Len(q) <= 1 /\ \A i \in DOMAIN q : q[i].epoch <= e
    BY DEF Short
  <1>3. PICK y : y = RT!olderSeq(q)
    OBVIOUS
  <1>4. y = [i \in 1..Len(q) |-> RT!older(q[i])] /\ Len(q) \in Nat
    BY <1>2, <1>3 DEF RT!olderSeq
  <1>5. y \in Seq(Issued) /\ Len(y) = Len(q)
    BY <1>1, <1>2, <1>4
  <1>6. \A i \in DOMAIN y : y[i].epoch <= e
    BY <1>1, <1>2, <1>4
  <1>7. QED
    BY <1>2, <1>3, <1>5, <1>6 DEF Short

\* The epochs a seat may be at.
Held == Out..MaxEpoch

\* A rotation keeps a seat that is there, and below every bound of its epochs.
LEMMA SeatBelow ==
  ASSUME NEW e \in Int, NEW s \in 0..e - 1, NEW q \in Seq(Issued), \A i \in DOMAIN q : q[i].epoch < e
  PROVE  RT!rotate_all(s, q) \in 0..e - 1
  <1>1. Len(q) \in Nat /\ DOMAIN q = 1..Len(q)
    OBVIOUS
  <1>2. PICK r, op : op = <<"rotated", 0>> /\ IsRun(r, op, s, q) /\ r[Len(q)] = RT!rotate_all(s, q)
    BY <1>1, SeatRotates
  <1>3. Closed(0..e - 1, op, q)
    <2>1. ASSUME NEW x \in 0..e - 1, NEW c \in Issued, c.epoch < e PROVE turn(op, x, c) \in 0..e - 1
      <3>1. turn(op, x, c) = RT!rotated(x, c)
        BY <1>2 DEF turn
      <3>2. c.epoch \in 0..e - 1
        BY <2>1, RotationBounds DEF Issued
      <3>3. QED
        BY <3>1, <3>2 DEF RT!rotated
    <2>2. QED
      BY <1>1, <2>1 DEF Closed
  <1>4. QED
    BY <1>1, <1>2, <1>3, RunEndsIn

\* A rotation leaves a seat that is there, or none.
LEMMA SeatStays ==
  ASSUME NEW s \in Held, NEW q \in Seq(Issued)
  PROVE  RT!rotate_all(s, q) \in Held
  <1>1. Len(q) \in Nat /\ DOMAIN q = 1..Len(q)
    OBVIOUS
  <1>2. PICK r, op : op = <<"rotated", 0>> /\ IsRun(r, op, s, q) /\ r[Len(q)] = RT!rotate_all(s, q)
    BY <1>1, SeatRotates
  <1>3. Closed(Held, op, q)
    <2>1. ASSUME NEW x \in Held, NEW c \in Issued PROVE turn(op, x, c) \in Held
      <3>1. turn(op, x, c) = RT!rotated(x, c)
        BY <1>2 DEF turn
      <3>2. c.epoch \in Held
        BY RotationBounds DEF Issued, Held
      <3>3. QED
        BY <3>1, <3>2 DEF RT!rotated
    <2>2. QED
      BY <1>1, <2>1 DEF Closed
  <1>4. QED
    BY <1>1, <1>2, <1>3, RunEndsIn

\* Set changes leave the seat, take it away or give it anew, at epoch 0.
LEMMA SeatChanged ==
  ASSUME NEW s, NEW q \in Seq({"remove", "admit"})
  PROVE  /\ RT!change_all(s, q) \in {s, Out, 0}
         /\ (\A i \in DOMAIN q : q[i] # "admit") => RT!change_all(s, q) \in {s, Out}
  <1>1. Len(q) \in Nat /\ DOMAIN q = 1..Len(q)
    OBVIOUS
  <1>2. PICK r, op : op = <<"changed", 0>> /\ IsRun(r, op, s, q) /\ r[Len(q)] = RT!change_all(s, q)
    BY <1>1, SeatChanges
  <1>3. \A x, c : turn(op, x, c) = RT!changed(x, c)
    BY <1>2 DEF turn
  <1>4. Closed({s, Out, 0}, op, q)
    <2>1. ASSUME NEW x \in {s, Out, 0}, NEW c PROVE turn(op, x, c) \in {s, Out, 0}
      <3>1. RT!changed(x, c) \in {x, Out, 0}
        BY DEF RT!changed, RT!Out, Out
      <3>2. QED
        BY <1>3, <3>1
    <2>2. QED
      BY <2>1 DEF Closed
  <1>5. ASSUME \A i \in DOMAIN q : q[i] # "admit" PROVE Closed({s, Out}, op, q)
    <2>1. ASSUME NEW x \in {s, Out}, NEW c, c # "admit" PROVE turn(op, x, c) \in {s, Out}
      <3>1. RT!changed(x, c) \in {x, Out}
        BY <2>1 DEF RT!changed, RT!Out, Out
      <3>2. QED
        BY <1>3, <3>1
    <2>2. QED
      BY <1>1, <1>5, <2>1 DEF Closed
  <1>6. RT!change_all(s, q) \in {s, Out, 0}
    BY <1>1, <1>2, <1>4, RunEndsIn
  <1>7. ASSUME \A i \in DOMAIN q : q[i] # "admit" PROVE RT!change_all(s, q) \in {s, Out}
    BY <1>1, <1>2, <1>5, <1>7, RunEndsIn
  <1>8. QED
    BY <1>6, <1>7

\* A block leaves of a short queue a short queue.
LEMMA ShortRetired ==
  ASSUME NEW e \in Int, NEW p \in Short(e), NEW s \in Held, NEW q \in Seq(Issued)
  PROVE  RT!retire_all(p, s, q)[2] \in Short(e)
  <1>1. Len(q) \in Nat /\ DOMAIN q = 1..Len(q)
    OBVIOUS
  <1>2. PICK base : base = <<s, p>>
    OBVIOUS
  <1>3. PICK r, op : op = <<"retire", 0>> /\ IsRun(r, op, base, q) /\ r[Len(q)] = RT!retire_all(p, s, q)
    BY <1>1, <1>2, RetireRuns
  <1> DEFINE G == Held \X Short(e)
  <1>4. base \in G
    BY <1>2
  <1>5. Closed(G, op, q)
    <2>1. ASSUME NEW x \in G, NEW c \in Issued PROVE turn(op, x, c) \in G
      <3>1. turn(op, x, c) = RT!retired(x, c)
        BY <1>3 DEF turn
      <3>2. PICK d \in Held, y \in Short(e) : d = x[1] /\ y = x[2] /\ x = <<d, y>>
        OBVIOUS
      <3>3. c.epoch \in Held /\ c.epoch \in Int
        BY RotationBounds DEF Issued, Held
      <3>4. RT!newer(y, c.epoch) \in Short(e)
        BY <3>3, ShortNewer
      <3>5. turn(op, x, c) = x \/ turn(op, x, c) = <<c.epoch, RT!newer(y, c.epoch)>>
        BY <3>1, <3>2 DEF RT!retired
      <3>6. QED
        BY <3>3, <3>4, <3>5
    <2>2. QED
      BY <1>1, <2>1 DEF Closed
  <1> HIDE DEF G
  <1>6. RT!retire_all(p, s, q) \in G
    BY <1>1, <1>3, <1>4, <1>5, RunEndsIn
  <1>7. QED
    BY <1>6 DEF G

\* What this node is: its fields.
Apps == [seat : Held, epoch : 0..MaxEpoch, highest : Nat, last : {"none", "fresh", "stale"},
         pending : Seq(Issued), signer : 0..MaxEpoch]

\* A node that is at epoch e at least; what it issued is for the next epoch at most.
Runs(e) == {n \in Apps : n.signer <= n.epoch /\ e <= n.epoch /\ n.pending \in Short(n.epoch + 1)}

\* The signer, current_epoch and the seat are of one epoch.
InStep(n) == n.seat # Out => n.signer = n.seat /\ n.epoch = n.seat

\* What a block, a queued set change and a request hold.
Batches == [rotations : Seq(Issued), set_changes : Seq({"remove", "admit"})]
Queued == [kind : {"remove", "admit"}, window : {"early", "open", "closed"}]
Requests == {r \in [kind : {"rotation", "remove", "admit"}, cert : Issued \cup {RT!NoCert},
                    stage : {"sent", "verifying"}, from : {"tick", "operator", "again"}] :
               r.kind = "rotation" => r.cert \in Issued}

\* A queue has one certificate at most: this node's own is for the next epoch at
\* most, by what the tick can see.
QueuesInv ==
  /\ DOMAIN foreign = Parties
  /\ foreign["peer"] \in Short(MaxEpoch) /\ foreign["me"] \in Short(gauge[1] + 1)
\* What the tick sees is not ahead of this node.
GaugeInv == gauge[1] \in 0..MaxEpoch /\ gauge[1] <= me.epoch
\* Requests are finitely many, and verified within the slots.
RpcInv == rpc \subseteq Requests /\ IsFiniteSet(rpc) /\ Cardinality(verifying) <= Slots
\* Signer and seat are of one epoch, but for a seat admitted anew.
StepInv == readmitted \/ InStep(me)

\* The inductive strengthening of CarriedAreApplied and SignerFollowsSeat.
RotInv ==
  /\ seat \in Held /\ behind \in Seq(Batches) /\ me \in Runs(0)
  /\ leaves \in [0..MaxEpoch -> 0..PerTree] /\ pending_set_changes \in Seq(Queued)
  /\ GaugeInv /\ QueuesInv /\ RpcInv /\ StepInv /\ ~refused

\* The invariant gives the properties.
LEMMA RotInvGives == RotInv => CarriedAreApplied /\ SignerFollowsSeat
  <1> SUFFICES ASSUME RotInv PROVE CarriedAreApplied /\ SignerFollowsSeat
    OBVIOUS
  <1>1. me.seat \in Out..MaxEpoch /\ me.signer \in 0..MaxEpoch /\ me.pending \in Seq(Issued)
        /\ Len(me.pending) <= 1
    BY DEF RotInv, Runs, Apps, Short, Held
  <1>2. seat \in Out..MaxEpoch /\ Cardinality(verifying) <= Slots /\ ~refused
    BY DEF RotInv, Held, RpcInv
  <1>3. \A n \in Parties : foreign[n] \in Seq(Issued) /\ Len(foreign[n]) <= 1
    BY DEF RotInv, QueuesInv, Short, Parties
  <1>4. \A e \in 0..MaxEpoch : leaves[e] \in 0..PerTree
    BY DEF RotInv
  <1>5. SignerFollowsSeat
    BY DEF RotInv, StepInv, InStep, SignerFollowsSeat
  <1>6. QED
    BY <1>1, <1>2, <1>3, <1>4, <1>5 DEF CarriedAreApplied, RotationTypeOK

\* A certificate moves this node forward, and its signer with its seat.
LEMMA CertificateMoves ==
  ASSUME NEW e \in Int, NEW n \in Runs(e), NEW c \in Issued
  PROVE  RT!rotate(n, c) \in Runs(e) /\ (InStep(n) => InStep(RT!rotate(n, c)))
  <1>1. CASE ~RT!rotation_ok(n.seat, c)
    BY <1>1 DEF RT!rotate
  <1>2. CASE RT!rotation_ok(n.seat, c)
    <2>1. PICK p, d, g : p = RT!newer(n.pending, c.epoch) /\ d = RT!Max2(n.epoch, c.epoch)
                         /\ g = IF c.epoch > n.epoch THEN c.epoch ELSE n.signer
      OBVIOUS
    <2>2. PICK y : y = [n EXCEPT !.seat = c.epoch, !.epoch = d, !.signer = g, !.pending = p]
      OBVIOUS
    <2>3. RT!rotate(n, c) = y
      BY <1>2, <2>1, <2>2 DEF RT!rotate
    <2>4. n \in Apps /\ n.signer <= n.epoch /\ e <= n.epoch /\ n.pending \in Short(n.epoch + 1)
      BY DEF Runs
    <2>5. n.seat \in Held /\ n.epoch \in 0..MaxEpoch /\ n.signer \in 0..MaxEpoch
      BY <2>4 DEF Apps
    <2>6. c.epoch \in 1..MaxEpoch /\ c.epoch \in Int /\ MaxEpoch \in Nat
      BY EpochsAreNumbers, RotationBounds
    <2>7. d \in 0..MaxEpoch /\ n.epoch <= d /\ g \in 0..MaxEpoch /\ g <= d /\ e <= d
      BY <2>1, <2>4, <2>5, <2>6 DEF RT!Max2
    <2>8. p \in Short(d + 1)
      <3>1. PICK a \in Int, b \in Int : a = n.epoch + 1 /\ b = d + 1 /\ a <= b
        BY <2>5, <2>7
      <3>2. n.pending \in Short(a)
        BY <2>4, <3>1
      <3>3. p \in Short(a)
        BY <2>1, <2>6, <3>2, ShortNewer
      <3>4. p \in Short(b)
        BY <3>1, <3>3, ShortMore
      <3>5. QED
        BY <3>1, <3>4
    <2>9. p \in Seq(Issued) /\ c.epoch \in Held
      BY <2>6, <2>8 DEF Short, Held, Out
    <2>10. y \in Apps
      BY <2>2, <2>4, <2>7, <2>9 DEF Apps
    <2>11. y.seat = c.epoch /\ y.epoch = d /\ y.signer = g /\ y.pending = p
      BY <2>2, <2>4 DEF Apps
    <2>12. y \in Runs(e)
      BY <2>7, <2>8, <2>10, <2>11 DEF Runs
    <2>13. ASSUME InStep(n) PROVE InStep(y)
      <3>1. n.seat # Out /\ c.epoch > n.seat
        BY <1>2 DEF RT!rotation_ok, RT!Out, Out
      <3>2. n.epoch = n.seat
        BY <2>13, <3>1 DEF InStep
      <3>3. g = c.epoch /\ d = c.epoch
        BY <2>1, <2>5, <2>6, <3>1, <3>2 DEF RT!Max2
      <3>4. QED
        BY <2>11, <3>3 DEF InStep
    <2>14. QED
      BY <2>3, <2>12, <2>13
  <1>3. QED
    BY <1>1, <1>2

\* So do all the certificates of a block.
LEMMA CertificatesMove ==
  ASSUME NEW e \in Int, NEW n \in Runs(e), NEW q \in Seq(Issued)
  PROVE  RT!follow_all(n, q) \in Runs(e) /\ (InStep(n) => InStep(RT!follow_all(n, q)))
  <1>1. Len(q) \in Nat /\ DOMAIN q = 1..Len(q)
    OBVIOUS
  <1>2. PICK r, op : op = <<"follow", 0>> /\ IsRun(r, op, n, q) /\ r[Len(q)] = RT!follow_all(n, q)
    BY <1>1, FollowRuns
  <1> DEFINE G == {x \in Runs(e) : InStep(n) => InStep(x)}
  <1>3. n \in G
    OBVIOUS
  <1>4. Closed(G, op, q)
    <2>1. ASSUME NEW x \in G, NEW c \in Issued PROVE turn(op, x, c) \in G
      <3>1. turn(op, x, c) = RT!rotate(x, c)
        BY <1>2 DEF turn
      <3>2. x \in Runs(e) /\ (InStep(n) => InStep(x))
        OBVIOUS
      <3>3. RT!rotate(x, c) \in Runs(e) /\ (InStep(x) => InStep(RT!rotate(x, c)))
        BY <3>2, CertificateMoves
      <3>4. QED
        BY <3>1, <3>2, <3>3
    <2> HIDE DEF G
    <2>2. QED
      BY <1>1, <2>1 DEF Closed
  <1> HIDE DEF G
  <1>5. RT!follow_all(n, q) \in G
    BY <1>1, <1>2, <1>3, <1>4, RunEndsIn
  <1>6. QED
    BY <1>5 DEF G

\* A block moves this node forward; only a seat given anew to a node of a later
\* epoch takes the two apart.
LEMMA BlockMoves ==
  ASSUME NEW e \in Int, NEW n \in Runs(e), NEW b \in Batches, NEW m, m = RT!follow(n, b)
  PROVE  /\ m \in Runs(e)
         /\ InStep(n) => InStep(m) \/ ("admit" \in RT!Range(b.set_changes) /\ m.epoch # 0)
  <1>1. PICK q, cs : q = b.rotations /\ cs = b.set_changes
    OBVIOUS
  <1>2. q \in Seq(Issued) /\ cs \in Seq({"remove", "admit"})
    BY <1>1 DEF Batches
  <1>3. PICK x : x = RT!follow_all(n, q)
    OBVIOUS
  <1>4. x \in Runs(e) /\ (InStep(n) => InStep(x))
    BY <1>2, <1>3, CertificatesMove
  <1>5. PICK s : s = RT!change_all(x.seat, cs)
    OBVIOUS
  <1>6. m = [x EXCEPT !.seat = s]
    BY <1>1, <1>3, <1>5 DEF RT!follow
  <1>7. x \in Apps /\ x.signer <= x.epoch /\ e <= x.epoch /\ x.pending \in Short(x.epoch + 1)
    BY <1>4 DEF Runs
  <1>8. PICK t : t = x.seat
    OBVIOUS
  <1>9. /\ s \in {t, Out, 0}
        /\ (\A i \in DOMAIN cs : cs[i] # "admit") => s \in {t, Out}
    BY <1>2, <1>5, <1>8, SeatChanged
  <1>10. t \in Held /\ Out \in Held /\ 0 \in Held
    BY <1>7, <1>8, RotationBounds DEF Apps, Held
  <1>11. m \in Apps
    BY <1>6, <1>7, <1>9, <1>10 DEF Apps
  <1>12. m.seat = s /\ m.epoch = x.epoch /\ m.signer = x.signer /\ m.pending = x.pending
    BY <1>6, <1>7 DEF Apps
  <1>13. m \in Runs(e)
    BY <1>7, <1>11, <1>12 DEF Runs
  <1>14. ASSUME InStep(n), ~InStep(m) PROVE "admit" \in RT!Range(cs) /\ m.epoch # 0
    <2>1. InStep(x) /\ (t # Out => x.signer = t /\ x.epoch = t)
      BY <1>4, <1>8, <1>14 DEF InStep
    <2>2. m.seat # Out /\ ~(m.signer = m.seat /\ m.epoch = m.seat)
      BY <1>14 DEF InStep
    <2>3. s # t
      BY <1>12, <2>1, <2>2
    <2>4. s = 0
      BY <1>9, <1>12, <2>2, <2>3
    <2>5. x.epoch # 0
      <3>1. SUFFICES ASSUME x.epoch = 0 PROVE FALSE
        OBVIOUS
      <3>2. x.signer = 0
        BY <1>7, <3>1, RotationBounds DEF Apps
      <3>3. QED
        BY <1>12, <2>2, <2>4, <3>1, <3>2
    <2>6. "admit" \in RT!Range(cs)
      <3>1. PICK i \in DOMAIN cs : cs[i] = "admit"
        BY <1>9, <1>12, <2>2, <2>3
      <3>2. QED
        BY <3>1 DEF RT!Range
    <2>7. QED
      BY <1>12, <2>5, <2>6
  <1>15. QED
    BY <1>1, <1>13, <1>14

\* What is issued is a certificate of its epoch.
LEMMA IssueTyped ==
  ASSUME NEW e \in 1..MaxEpoch, NEW lag \in Nat
  PROVE  RT!Issue(e, lag) \in Issued /\ RT!Issue(e, lag).epoch = e
  BY RotationBounds DEF RT!Issue, Issued

\* A certificate after what is older, where nothing is newer.
LEMMA ShortRenewed ==
  ASSUME NEW e \in Int, NEW q \in Short(e), NEW d \in Int, e <= d, NEW c \in Issued,
         NEW f \in Int, c.epoch <= f
  PROVE  Append(RT!newer(q, d), c) \in Short(f)
  <1>1. RT!newer(q, d) = <<>>
    BY ShortNewer
  <1>2. Append(<<>>, c) \in Short(f)
    BY ShortAppend
  <1>3. QED
    BY <1>1, <1>2

\* The trigger at the end of commit leaves the epochs alone.
LEMMA IssueKeeps ==
  ASSUME NEW e \in Int, NEW m \in Runs(e), NEW lag \in Nat, NEW x, x = RT!issue_on_commit(m, lag)
  PROVE  x \in Runs(e) /\ x.seat = m.seat /\ x.epoch = m.epoch /\ x.signer = m.signer
  <1>1. PICK next : next = m.epoch + 1
    OBVIOUS
  <1>2. m \in Apps /\ m.signer <= m.epoch /\ e <= m.epoch /\ m.pending \in Short(m.epoch + 1)
    BY DEF Runs
  <1>3. m.epoch \in 0..MaxEpoch /\ m.highest \in Nat /\ next \in Nat /\ next \in Int
    BY <1>1, <1>2, RotationBounds DEF Apps
  <1>4. CASE x = m
    BY <1>4
  <1>5. CASE x # m
    <2>1. PICK p, h : p = Append(RT!newer(m.pending, next), RT!Issue(next, lag)) /\ h = RT!Max2(m.highest, next)
      OBVIOUS
    <2>2. next <= MaxEpoch /\ x = [m EXCEPT !.highest = h, !.last = "fresh", !.pending = p]
      BY <1>1, <1>5, <2>1 DEF RT!issue_on_commit
    <2>3. next \in 1..MaxEpoch
      BY <1>1, <1>3, <2>2, RotationBounds
    <2>4. PICK c \in Issued : c = RT!Issue(next, lag) /\ c.epoch = next
      BY <2>3, IssueTyped
    <2>5. m.pending \in Short(next)
      BY <1>1, <1>2
    <2>6. p \in Short(next)
      BY <1>3, <2>1, <2>4, <2>5, ShortRenewed
    <2>7. p \in Seq(Issued) /\ h \in Nat
      BY <1>3, <2>1, <2>6 DEF Short, RT!Max2
    <2>8. x \in Apps /\ x.seat = m.seat /\ x.epoch = m.epoch /\ x.signer = m.signer /\ x.pending = p
      BY <1>2, <2>2, <2>7 DEF Apps
    <2>9. QED
      BY <1>1, <1>2, <2>6, <2>8 DEF Runs
  <1>6. QED
    BY <1>4, <1>5

\* A network at genesis satisfies the invariant.
LEMMA RotationInit == RT!Init => RotInv
  <1> SUFFICES ASSUME RT!Init PROVE RotInv
    OBVIOUS
  <1>1. seat = 0 /\ behind = <<>> /\ ~refused
    BY Zenon DEF RT!Init
  <1>2. me = [seat |-> 0, epoch |-> 0, highest |-> 0, last |-> "none", pending |-> <<>>, signer |-> 0]
    BY DEF RT!Init
  <1>3. leaves = [e \in 0..MaxEpoch |-> PerTree] /\ gauge[1] = 0 /\ pending_set_changes = <<>> /\ rpc = {}
    BY DEF RT!Init
  <1>4. DOMAIN foreign = Parties /\ foreign["me"] = <<>> /\ foreign["peer"] = <<>>
    BY DEF RT!Init, RT!Parties, Parties
  <1>5. \A e : <<>> \in Short(e)
    BY DEF Short
  <1>6. me \in Apps /\ me.signer = 0 /\ me.epoch = 0 /\ me.pending = <<>> /\ me.seat = 0
    BY <1>2, RotationBounds DEF Apps, Held
  <1>7. me \in Runs(0)
    BY <1>5, <1>6 DEF Runs
  <1>8. QueuesInv
    BY <1>4, <1>5 DEF QueuesInv
  <1>9. GaugeInv /\ StepInv
    BY <1>3, <1>6, RotationBounds DEF GaugeInv, StepInv, InStep
  <1>10. RpcInv
    <2>1. verifying = {}
      BY <1>3 DEF verifying
    <2>2. QED
      BY <1>3, <2>1, FS_EmptySet, RotationBounds DEF RpcInv
  <1>11. seat \in Held /\ behind \in Seq(Batches) /\ leaves \in [0..MaxEpoch -> 0..PerTree]
    BY <1>1, <1>3, RotationBounds DEF Held
  <1>12. pending_set_changes \in Seq(Queued)
    BY <1>3
  <1>13. QED
    BY <1>1, <1>7, <1>8, <1>9, <1>10, <1>11, <1>12 DEF RotInv

\* A block that this node commits keeps it: its queues lose what is not newer, and
\* its signer moves with its seat.
LEMMA RotationCommit == RotInv /\ RT!Commit => RotInv'
  <1> SUFFICES ASSUME RotInv, RT!Commit PROVE RotInv'
    OBVIOUS
  <1>1. PICK b, m : /\ b = Head(behind) /\ m = RT!follow(me, b)
                    /\ me' = RT!issue_on_commit(m, Len(behind) - 1)
                    /\ gauge' = <<m.epoch, leaves[m.signer]>>
                    /\ foreign' = [foreign EXCEPT !["me"] = RT!retire(@, me.seat, b)]
                    /\ readmitted' = (readmitted \/ ("admit" \in RT!Range(b.set_changes) /\ m.epoch # 0))
    BY DEF RT!Commit
  <1>2. behind # <<>> /\ behind' = Tail(behind)
        /\ UNCHANGED <<seat, tick, leaves, pending_set_changes, rpc, faults, refused>>
    BY DEF RT!Commit
  <1>3. behind \in Seq(Batches) /\ Len(behind) \in Nat /\ Len(behind) > 0
    BY <1>2 DEF RotInv
  <1>4. b \in Batches /\ behind' \in Seq(Batches) /\ Len(behind) - 1 \in Nat
    BY <1>1, <1>2, <1>3
  <1>5. gauge[1] \in 0..MaxEpoch /\ gauge[1] \in Int /\ gauge[1] <= me.epoch
    BY RotationBounds DEF RotInv, GaugeInv
  <1>6. PICK g \in Int : g = gauge[1]
    BY <1>5
  <1>7. me \in Runs(g)
    BY <1>5, <1>6 DEF RotInv, Runs
  <1>8. m \in Runs(g) /\ (InStep(me) => InStep(m) \/ ("admit" \in RT!Range(b.set_changes) /\ m.epoch # 0))
    BY <1>1, <1>4, <1>7, BlockMoves
  <1>9. me' \in Runs(g) /\ me'.seat = m.seat /\ me'.epoch = m.epoch /\ me'.signer = m.signer
    <2>1. PICK k, y : k \in Nat /\ k = Len(behind) - 1 /\ y = RT!issue_on_commit(m, k)
      BY <1>4
    <2>2. y \in Runs(g) /\ y.seat = m.seat /\ y.epoch = m.epoch /\ y.signer = m.signer
      BY <1>8, <2>1, IssueKeeps
    <2>3. me' = y
      BY <1>1, <2>1
    <2>4. QED
      BY <2>2, <2>3
  <1>10. m.epoch \in 0..MaxEpoch /\ m.epoch \in Int /\ g <= m.epoch
    BY <1>8, RotationBounds DEF Runs, Apps
  <1>11. me' \in Runs(0)
    BY <1>9, <1>10 DEF Runs
  <1>12. GaugeInv'
    BY <1>1, <1>9, <1>10 DEF GaugeInv
  <1>13. StepInv'
    BY <1>1, <1>8, <1>9 DEF RotInv, StepInv, InStep
  <1>14. QueuesInv'
    <2>1. PICK y, p, s : y = RT!retire(p, s, b) /\ p = foreign["me"] /\ s = me.seat
      OBVIOUS
    <2>2. p \in Short(g + 1) /\ s \in Held /\ b.rotations \in Seq(Issued)
      BY <1>4, <1>6, <2>1 DEF RotInv, QueuesInv, Runs, Apps, Batches
    <2>3. PICK k \in Int, l \in Int : k = g + 1 /\ l = m.epoch + 1 /\ k <= l
      BY <1>10
    <2>4. y \in Short(k)
      BY <2>1, <2>2, <2>3, ShortRetired DEF RT!retire
    <2>5. y \in Short(l)
      BY <2>3, <2>4, ShortMore
    <2>6. DOMAIN foreign = Parties /\ foreign["peer"] \in Short(MaxEpoch)
      BY DEF RotInv, QueuesInv
    <2>7. DOMAIN foreign' = Parties /\ foreign'["peer"] = foreign["peer"] /\ foreign'["me"] = y
      BY <1>1, <2>1, <2>6 DEF Parties
    <2>8. gauge'[1] + 1 = l
      BY <1>1, <2>3
    <2>9. QED
      BY <2>5, <2>6, <2>7, <2>8 DEF QueuesInv
  <1>15. RpcInv'
    BY <1>2 DEF RotInv, RpcInv, verifying
  <1>16. QED
    BY <1>2, <1>4, <1>11, <1>12, <1>13, <1>14, <1>15 DEF RotInv

\* A request that was sent is not being verified.
LEMMA RequestSent ==
  ASSUME RpcInv, NEW r \in Requests, r.stage = "sent", rpc' = rpc \cup {r}
  PROVE  RpcInv'
  <1>1. rpc' \subseteq Requests /\ IsFiniteSet(rpc')
    BY FS_AddElement DEF RpcInv
  <1>2. verifying' = verifying
    BY DEF verifying
  <1>3. QED
    BY <1>1, <1>2 DEF RpcInv

\* What is sent to the peer.
LEMMA RequestTyped ==
  /\ \A c \in Issued : \A f \in {"tick", "operator"} : RT!request("rotation", c, f) \in Requests
  /\ \A k \in {"remove", "admit"} : RT!request(k, RT!NoCert, "operator") \in Requests
  /\ \A k, c, f : RT!request(k, c, f).stage = "sent"
  BY DEF RT!request, Requests

\* The rotation tick keeps it: nothing queued here is newer than what it issues.
LEMMA RotationTick == ASSUME RotInv, NEW d \in BOOLEAN, RT!TickIssue(d) PROVE RotInv'
  <1>1. PICK next, c : next = gauge[1] + 1 /\ c = RT!Issue(next, Len(behind))
    OBVIOUS
  <1>2. /\ next <= MaxEpoch
        /\ foreign' = [foreign EXCEPT !["me"] = Append(RT!newer(@, next), c)]
        /\ rpc' = rpc \cup {RT!request("rotation", c, "tick")} \/ rpc' = rpc
        /\ UNCHANGED <<seat, behind, me, gauge, leaves, pending_set_changes, faults, refused, readmitted>>
    BY <1>1 DEF RT!TickIssue
  <1>3. next \in 1..MaxEpoch /\ next \in Int /\ Len(behind) \in Nat
    BY <1>1, <1>2, RotationBounds DEF RotInv, GaugeInv
  <1>4. c \in Issued /\ c.epoch = next
    BY <1>1, <1>3, IssueTyped
  <1>5. QueuesInv'
    <2>1. PICK p : p = foreign["me"]
      OBVIOUS
    <2>2. p \in Short(next) /\ DOMAIN foreign = Parties /\ foreign["peer"] \in Short(MaxEpoch)
      BY <1>1, <2>1 DEF RotInv, QueuesInv
    <2>3. Append(RT!newer(p, next), c) \in Short(next)
      BY <1>3, <1>4, <2>2, ShortRenewed
    <2>4. foreign'["me"] = Append(RT!newer(p, next), c) /\ foreign'["peer"] = foreign["peer"]
          /\ DOMAIN foreign' = Parties
      BY <1>2, <2>1, <2>2 DEF Parties
    <2>5. gauge'[1] + 1 = next
      BY <1>1, <1>2
    <2>6. QED
      BY <2>2, <2>3, <2>4, <2>5 DEF QueuesInv
  <1>6. RpcInv'
    <2>1. CASE rpc' = rpc
      BY <2>1 DEF RotInv, RpcInv, verifying
    <2>2. CASE rpc' = rpc \cup {RT!request("rotation", c, "tick")}
      <3>1. PICK r \in Requests : r = RT!request("rotation", c, "tick") /\ r.stage = "sent"
        BY <1>4, RequestTyped
      <3>2. RpcInv /\ rpc' = rpc \cup {r}
        BY <2>2, <3>1 DEF RotInv
      <3>3. QED
        BY <3>1, <3>2, RequestSent
    <2>3. QED
      BY <1>2, <2>1, <2>2
  <1>7. GaugeInv' /\ StepInv'
    BY <1>2 DEF RotInv, GaugeInv, StepInv, InStep
  <1>8. QED
    BY <1>2, <1>5, <1>6, <1>7 DEF RotInv

\* Time keeps it.
LEMMA RotationStale == RotInv /\ RT!Stale => RotInv'
  <1> SUFFICES ASSUME RotInv, RT!Stale PROVE RotInv'
    OBVIOUS
  <1>1. me' = [me EXCEPT !.last = IF @ = "fresh" THEN "stale" ELSE @]
        /\ UNCHANGED <<seat, behind, gauge, leaves, foreign, pending_set_changes, rpc, faults, refused, readmitted>>
    BY DEF RT!Stale
  <1>2. me \in Apps /\ me \in Runs(0)
    BY DEF RotInv, Runs
  <1>3. me' \in Apps /\ me'.seat = me.seat /\ me'.epoch = me.epoch /\ me'.signer = me.signer
        /\ me'.pending = me.pending
    BY <1>1, <1>2 DEF Apps
  <1>4. me' \in Runs(0)
    BY <1>2, <1>3 DEF Runs
  <1>5. GaugeInv' /\ StepInv'
    BY <1>1, <1>3 DEF RotInv, GaugeInv, StepInv, InStep
  <1>6. QueuesInv' /\ RpcInv'
    BY <1>1 DEF RotInv, QueuesInv, RpcInv, verifying
  <1>7. QED
    BY <1>1, <1>4, <1>5, <1>6 DEF RotInv

\* A vote keeps it.
LEMMA RotationVote == RotInv /\ RT!Vote => RotInv'
  <1> SUFFICES ASSUME RotInv, RT!Vote PROVE RotInv'
    OBVIOUS
  <1>1. leaves[me.signer] > 0 /\ leaves' = [leaves EXCEPT ![me.signer] = @ - 1]
        /\ UNCHANGED <<seat, behind, me, tick, gauge, foreign, pending_set_changes, rpc, faults, refused, readmitted>>
    BY DEF RT!Vote
  <1>2. PICK s \in 0..MaxEpoch : s = me.signer
    BY DEF RotInv, Runs, Apps
  <1>3. leaves \in [0..MaxEpoch -> 0..PerTree] /\ leaves[s] > 0 /\ leaves' = [leaves EXCEPT ![s] = @ - 1]
    BY <1>1, <1>2 DEF RotInv
  <1>4. leaves' \in [0..MaxEpoch -> 0..PerTree]
    BY <1>3, RotationBounds
  <1>5. GaugeInv' /\ StepInv' /\ QueuesInv' /\ RpcInv'
    BY <1>1 DEF RotInv, GaugeInv, StepInv, InStep, QueuesInv, RpcInv, verifying
  <1>6. QED
    BY <1>1, <1>4, <1>5 DEF RotInv

\* So does what an operator sends.
LEMMA RotationOperator ==
  ASSUME RotInv, NEW r \in Requests, r.stage = "sent", RT!Operator(r)
  PROVE  RotInv'
  <1>1. rpc' = rpc \cup {r}
        /\ UNCHANGED <<seat, behind, me, tick, gauge, leaves, foreign, pending_set_changes, refused, readmitted>>
    BY DEF RT!Operator
  <1>2. RpcInv'
    BY <1>1, RequestSent DEF RotInv
  <1>3. GaugeInv' /\ StepInv' /\ QueuesInv'
    BY <1>1 DEF RotInv, GaugeInv, StepInv, InStep, QueuesInv
  <1>4. QED
    BY <1>1, <1>2, <1>3 DEF RotInv

\* A request that arrives keeps it: its slot is free, whoever else is verified.
LEMMA RotationReceive == ASSUME RotInv, NEW r \in rpc, RT!Receive(r) PROVE RotInv'
  <1>1. r.stage = "sent"
        /\ UNCHANGED <<seat, behind, me, tick, gauge, leaves, foreign, pending_set_changes, refused, readmitted>>
    BY DEF RT!Receive
  <1>2. PICK v, a : v = [r EXCEPT !.stage = "verifying"] /\ a = [r EXCEPT !.from = "again"]
    OBVIOUS
  <1>3. PICK more : /\ more = {} \/ (more = {v} /\ Cardinality(verifying) < Slots)
                    /\ rpc' = (rpc \ {r}) \cup more \/ rpc' = (rpc \ {r}) \cup more \cup {a}
    <2> DEFINE go == /\ RT!preflight(r) /\ (r.kind = "rotation" => r.cert.age < Horizon)
                     /\ Cardinality(verifying) < Slots
    <2>0. RT!Cardinality(RT!verifying) = Cardinality(verifying)
      <3>1. RT!verifying = verifying
        BY DEF RT!verifying, verifying
      <3>2. RT!Cardinality(verifying) = Cardinality(verifying)
        BY DEF RT!Cardinality, Cardinality
      <3>3. QED
        BY <3>1, <3>2
    <2>1. PICK more : more = IF /\ RT!preflight(r) /\ (r.kind = "rotation" => r.cert.age < Horizon)
                                /\ Cardinality(verifying) < Slots
                             THEN {v} ELSE {}
      OBVIOUS
    <2>2. rpc' = (rpc \ {r}) \cup more \/ rpc' = (rpc \ {r}) \cup more \cup {a}
      <3>1. CASE go
        BY <1>2, <2>0, <2>1, <3>1 DEF RT!Receive
      <3>2. CASE ~go
        BY <1>2, <2>0, <2>1, <3>2 DEF RT!Receive
      <3>3. QED
        BY <3>1, <3>2
    <2>3. more = {} \/ (more = {v} /\ Cardinality(verifying) < Slots)
      BY <2>1
    <2>4. QED
      BY <2>2, <2>3
  <1>4. rpc \subseteq Requests /\ IsFiniteSet(rpc) /\ Cardinality(verifying) <= Slots
    BY DEF RotInv, RpcInv
  <1>5. v \in Requests /\ a \in Requests /\ a.stage = "sent"
    BY <1>1, <1>2, <1>4 DEF Requests
  <1>6. rpc' \subseteq Requests
    BY <1>3, <1>4, <1>5
  <1>7. IsFiniteSet(rpc')
    <2>1. IsFiniteSet(rpc \cup {v}) /\ IsFiniteSet((rpc \cup {v}) \cup {a})
      BY <1>4, FS_AddElement
    <2>2. rpc' \subseteq (rpc \cup {v}) \cup {a}
      BY <1>3
    <2>3. QED
      BY <2>1, <2>2, FS_Subset
  <1>8. IsFiniteSet(verifying) /\ Cardinality(verifying) \in Nat
    <2>1. verifying \subseteq rpc
      BY DEF verifying
    <2>2. QED
      BY <1>4, <2>1, FS_Subset, FS_CardinalityType
  <1>9. Cardinality(verifying') <= Slots
    <2>1. CASE more = {}
      <3>1. verifying' \subseteq verifying
        BY <1>3, <1>5, <2>1 DEF verifying
      <3>2. Cardinality(verifying') <= Cardinality(verifying) /\ Cardinality(verifying') \in Nat
        BY <1>8, <3>1, FS_Subset, FS_CardinalityType
      <3>3. QED
        BY <1>4, <1>8, <3>2, RotationBounds
    <2>2. CASE more = {v} /\ Cardinality(verifying) < Slots
      <3>1. verifying' \subseteq verifying \cup {v}
        BY <1>3, <1>5, <2>2 DEF verifying
      <3>2. IsFiniteSet(verifying \cup {v}) /\ Cardinality(verifying \cup {v}) <= Cardinality(verifying) + 1
            /\ Cardinality(verifying \cup {v}) \in Nat
        <4>1. IsFiniteSet(verifying \cup {v})
              /\ Cardinality(verifying \cup {v})
                 = IF v \in verifying THEN Cardinality(verifying) ELSE Cardinality(verifying) + 1
          BY <1>8, FS_AddElement
        <4>2. QED
          BY <1>8, <4>1
      <3>3. Cardinality(verifying') <= Cardinality(verifying \cup {v}) /\ Cardinality(verifying') \in Nat
        BY <3>1, <3>2, FS_Subset, FS_CardinalityType
      <3>4. QED
        BY <1>8, <2>2, <3>2, <3>3, RotationBounds
    <2>3. QED
      BY <1>3, <2>1, <2>2
  <1>10. RpcInv'
    BY <1>6, <1>7, <1>9 DEF RpcInv
  <1>11. GaugeInv' /\ StepInv' /\ QueuesInv'
    BY <1>1 DEF RotInv, GaugeInv, StepInv, InStep, QueuesInv
  <1>12. QED
    BY <1>1, <1>10, <1>11 DEF RotInv

\* A verified request keeps it: the free checks are made again, so nothing of its
\* epoch or a later one is queued beside it.
LEMMA RotationQueue == ASSUME RotInv, NEW r \in rpc, RT!Queue(r) PROVE RotInv'
  <1>1. rpc' = rpc \ {r} /\ UNCHANGED <<seat, behind, me, tick, gauge, leaves, faults, refused, readmitted>>
    BY DEF RT!Queue
  <1>2. rpc \subseteq Requests /\ IsFiniteSet(rpc) /\ Cardinality(verifying) <= Slots
    BY DEF RotInv, RpcInv
  <1>3. RpcInv'
    <2>1. rpc' \subseteq rpc /\ verifying \subseteq rpc /\ verifying' \subseteq verifying
      BY <1>1 DEF verifying
    <2>2. IsFiniteSet(rpc') /\ IsFiniteSet(verifying)
      BY <1>2, <2>1, FS_Subset
    <2>3. Cardinality(verifying') <= Cardinality(verifying) /\ Cardinality(verifying') \in Nat
          /\ Cardinality(verifying) \in Nat
      BY <2>1, <2>2, FS_Subset, FS_CardinalityType
    <2>4. Cardinality(verifying') <= Slots
      BY <1>2, <2>3, RotationBounds
    <2>5. QED
      BY <1>2, <2>1, <2>2, <2>4 DEF RpcInv
  <1>4. GaugeInv' /\ StepInv'
    BY <1>1 DEF RotInv, GaugeInv, StepInv, InStep
  <1>5. QueuesInv' /\ pending_set_changes' \in Seq(Queued)
    <2>1. DOMAIN foreign = Parties /\ foreign["peer"] \in Short(MaxEpoch) /\ foreign["me"] \in Short(gauge[1] + 1)
          /\ pending_set_changes \in Seq(Queued)
      BY DEF RotInv, QueuesInv
    <2>2. CASE UNCHANGED <<foreign, pending_set_changes>>
      BY <1>1, <2>1, <2>2 DEF QueuesInv
    <2>3. CASE /\ RT!preflight(r) /\ r.kind = "rotation" /\ UNCHANGED pending_set_changes
               /\ foreign' = [foreign EXCEPT !["peer"] = Append(RT!newer(@, r.cert.epoch - 1), r.cert)]
      <3>1. PICK c \in Issued : c = r.cert
        BY <1>2, <2>3 DEF Requests
      <3>2. PICK p, d : p = foreign["peer"] /\ d = c.epoch - 1
        OBVIOUS
      <3>3. d \in Int /\ c.epoch \in 1..MaxEpoch /\ c.epoch \in Int /\ MaxEpoch \in Int
        BY <3>2, EpochsAreNumbers, RotationBounds
      <3>4. p \in Seq(Issued) /\ Len(p) <= 1
        BY <2>1, <3>2 DEF Short
      <3>5. \A i \in DOMAIN p : p[i].epoch < c.epoch
        BY <2>3, <3>1, <3>2 DEF RT!preflight, RT!rotation_preflight
      <3>6. \A i \in DOMAIN p : p[i].epoch <= d
        <4>1. \A i \in DOMAIN p : p[i].epoch \in Int
          BY <3>4, EpochsAreNumbers
        <4>2. QED
          BY <3>2, <3>3, <3>5, <4>1
      <3>7. p \in Short(d)
        BY <3>4, <3>6 DEF Short
      <3>8. Append(RT!newer(p, d), c) \in Short(MaxEpoch)
        BY <3>2, <3>3, <3>7, ShortRenewed
      <3>9. foreign'["peer"] = Append(RT!newer(p, d), c) /\ foreign'["me"] = foreign["me"]
            /\ DOMAIN foreign' = Parties
        BY <2>1, <2>3, <3>1, <3>2 DEF Parties
      <3>10. QED
        BY <1>1, <2>1, <2>3, <3>8, <3>9 DEF QueuesInv
    <2>4. CASE /\ r.kind # "rotation" /\ UNCHANGED foreign
               /\ \E w \in {"early", "open"} :
                    pending_set_changes' = Append(pending_set_changes, [kind |-> r.kind, window |-> w])
      <3>1. PICK x : x \in Queued /\ pending_set_changes' = Append(pending_set_changes, x)
        BY <1>2, <2>4 DEF Requests, Queued
      <3>2. QED
        BY <1>1, <2>1, <2>4, <3>1 DEF QueuesInv
    <2>5. QED
      BY <2>2, <2>3, <2>4 DEF RT!Queue
  <1>6. QED
    BY <1>1, <1>3, <1>4, <1>5 DEF RotInv

\* The window of a set change keeps it.
LEMMA RotationWindow ==
  ASSUME RotInv, NEW i \in DOMAIN pending_set_changes, RT!Window(i) PROVE RotInv'
  <1>1. /\ pending_set_changes' =
             [pending_set_changes EXCEPT ![i].window = IF @ = "early" THEN "open" ELSE "closed"]
        /\ UNCHANGED <<seat, behind, me, tick, gauge, leaves, foreign, rpc, faults, refused, readmitted>>
    BY DEF RT!Window
  <1>2. pending_set_changes \in Seq(Queued)
    BY DEF RotInv
  <1>3. PICK x : x = [pending_set_changes[i] EXCEPT !.window = IF @ = "early" THEN "open" ELSE "closed"]
    OBVIOUS
  <1>4. x \in Queued
    <2>1. pending_set_changes[i] \in Queued
      BY <1>2
    <2>2. QED
      BY <1>3, <2>1 DEF Queued
  <1>5. pending_set_changes' = [pending_set_changes EXCEPT ![i] = x]
    BY <1>1, <1>3
  <1>6. pending_set_changes' \in Seq(Queued)
    BY <1>2, <1>4, <1>5
  <1>7. GaugeInv' /\ StepInv' /\ QueuesInv' /\ RpcInv'
    BY <1>1 DEF RotInv, GaugeInv, StepInv, InStep, QueuesInv, RpcInv, verifying
  <1>8. QED
    BY <1>1, <1>6, <1>7 DEF RotInv

\* What a proposer keeps of its queues.
LEMMA CarriedShort ==
  ASSUME NEW e, NEW n, foreign[n] \in Short(e)
  PROVE  /\ RT!carried(n) \in Short(e)
         /\ \A i \in DOMAIN RT!carried(n) : RT!rotation_ok(seat, RT!carried(n)[i])
  <1>1. PICK q, K : q = foreign[n] /\ K = {c \in RT!Range(q) : RT!rotation_ok(seat, c)}
    OBVIOUS
  <1>2. PICK y : y = RT!retain(q, K)
    OBVIOUS
  <1>3. RT!carried(n) = y
    BY <1>1, <1>2 DEF RT!carried
  <1>4. q \in Short(e) /\ q \in Seq(Issued)
    BY <1>1 DEF Short
  <1>5. y \in Short(e)
    BY <1>1, <1>2, <1>4, ShortRetained
  <1>6. \A i \in DOMAIN y : y[i] \in K
    BY <1>2, <1>4, Retained
  <1>7. QED
    BY <1>1, <1>3, <1>5, <1>6

\* The set changes that a proposer keeps.
LEMMA KeptTyped ==
  ASSUME pending_set_changes \in Seq(Queued), NEW n PROVE RT!kept_changes(n) \in Seq(Queued)
  <1>1. PICK q, K : q = pending_set_changes /\ K = {c \in RT!Range(pending_set_changes) : RT!keep_change(c)}
    OBVIOUS
  <1>2. RT!retain(q, K) \in Seq(Queued)
    BY <1>1, Retained
  <1>3. QED
    BY <1>1, <1>2 DEF RT!kept_changes

\* A lost round keeps it.
LEMMA RotationLostRound == ASSUME RotInv, NEW n \in Parties, RT!LostRound(n) PROVE RotInv'
  <1>1. PICK q, g : q = RT!carried(n) /\ g = gauge[1] + 1
    OBVIOUS
  <1>2. /\ foreign' = [foreign EXCEPT ![n] = q] /\ pending_set_changes' = RT!kept_changes(n)
        /\ UNCHANGED <<seat, behind, me, tick, gauge, leaves, rpc, faults, refused, readmitted>>
    BY <1>1 DEF RT!LostRound
  <1>3. DOMAIN foreign = Parties /\ foreign["peer"] \in Short(MaxEpoch) /\ foreign["me"] \in Short(g)
    BY <1>1 DEF RotInv, QueuesInv
  <1>4. (n = "peer" => q \in Short(MaxEpoch)) /\ (n = "me" => q \in Short(g))
    BY <1>1, <1>3, CarriedShort
  <1>5. n \in {"me", "peer"} /\ DOMAIN foreign' = Parties
    BY <1>2, <1>3 DEF Parties
  <1>6. foreign'["peer"] \in Short(MaxEpoch) /\ foreign'["me"] \in Short(g)
    <2>1. CASE n = "peer"
      BY <1>2, <1>3, <1>4, <2>1 DEF Parties
    <2>2. CASE n = "me"
      BY <1>2, <1>3, <1>4, <2>2 DEF Parties
    <2>3. QED
      BY <1>5, <2>1, <2>2
  <1>7. QueuesInv'
    BY <1>1, <1>2, <1>5, <1>6 DEF QueuesInv
  <1>8. pending_set_changes' \in Seq(Queued)
    BY <1>2, KeptTyped DEF RotInv
  <1>9. GaugeInv' /\ StepInv' /\ RpcInv'
    BY <1>2 DEF RotInv, GaugeInv, StepInv, InStep, RpcInv, verifying
  <1>10. QED
    BY <1>2, <1>7, <1>8, <1>9 DEF RotInv

\* The block of a proposer.
LEMMA BatchTyped ==
  ASSUME RotInv, NEW n, NEW q \in Seq(Issued), NEW b, b = RT!build_batch(n, q)
  PROVE  b \in Batches
  <1>1. PICK own : own = IF n = "me" THEN me.pending ELSE <<>>
    OBVIOUS
  <1>2. PICK K : K = RT!Range(q) \ {c \in RT!Range(q) : \E i \in DOMAIN own : own[i].epoch >= c.epoch}
    OBVIOUS
  <1>3. PICK p, L : p = pending_set_changes /\ L = {c \in RT!Range(pending_set_changes) : RT!due_change(c)}
    OBVIOUS
  <1>4. PICK z, y, x : z = RT!retain(q, K) /\ y = RT!retain(p, L) /\ x = RT!kinds(y)
    OBVIOUS
  <1>5. b = [rotations |-> own \o z, set_changes |-> IF n = "me" THEN <<>> ELSE x]
    BY <1>1, <1>2, <1>3, <1>4 DEF RT!build_batch
  <1>6. own \in Seq(Issued)
    BY <1>1 DEF RotInv, Runs, Apps
  <1>7. z \in Seq(Issued)
    BY <1>4, Retained
  <1>8. p \in Seq(Queued)
    BY <1>3 DEF RotInv
  <1>9. y \in Seq(Queued)
    BY <1>4, <1>8, Retained
  <1>10. x \in Seq({"remove", "admit"})
    <2>1. x = [i \in 1..Len(y) |-> y[i].kind] /\ Len(y) \in Nat
      BY <1>4, <1>9 DEF RT!kinds
    <2>2. \A i \in 1..Len(y) : y[i].kind \in {"remove", "admit"}
      <3>1. \A i \in 1..Len(y) : y[i] \in Queued
        BY <1>9
      <3>2. \A c \in Queued : c.kind \in {"remove", "admit"}
        BY DEF Queued
      <3>3. QED
        BY <3>1, <3>2
    <2>3. QED
      BY <2>1, <2>2
  <1>11. own \o z \in Seq(Issued)
    BY <1>6, <1>7
  <1>12. QED
    BY <1>5, <1>10, <1>11 DEF Batches

\* A carried certificate holds after the ones of lower epochs.
LEMMA CarriedHolds ==
  ASSUME NEW s \in Held, NEW c \in Issued, NEW q \in Seq(Issued), RT!rotation_ok(s, c)
  PROVE  RT!applied(s, q, c)
  <1>1. PICK K, e : K = {x \in RT!Range(q) : x.epoch < c.epoch} /\ e = c.epoch
    OBVIOUS
  <1>2. PICK y : y = RT!retain(q, K)
    OBVIOUS
  <1>3. y \in Seq(Issued) /\ \A i \in DOMAIN y : y[i] \in K
    BY <1>2, Retained
  <1>4. e \in Int /\ \A i \in DOMAIN y : y[i].epoch < e
    BY <1>1, <1>3, EpochsAreNumbers
  <1>5. s \in 0..e - 1 /\ c.age < Horizon
    BY <1>1, <1>4 DEF RT!rotation_ok, RT!Out, Held, Out
  <1>6. RT!rotate_all(s, y) \in 0..e - 1
    BY <1>3, <1>4, <1>5, SeatBelow
  <1>7. RT!rotation_ok(RT!rotate_all(s, y), c)
    BY <1>1, <1>4, <1>5, <1>6 DEF RT!rotation_ok, RT!Out
  <1>8. QED
    BY <1>1, <1>2, <1>7 DEF RT!applied

\* Every request is a height older; no more are being verified.
LEMMA RequestsOlder ==
  ASSUME RpcInv, rpc' = {IF r.kind = "rotation" THEN [r EXCEPT !.cert = RT!older(@)] ELSE r : r \in rpc}
  PROVE  RpcInv'
  <1> DEFINE F(r) == IF r.kind = "rotation" THEN [r EXCEPT !.cert = RT!older(@)] ELSE r
  <1>1. rpc \subseteq Requests /\ IsFiniteSet(rpc) /\ Cardinality(verifying) <= Slots
    BY DEF RpcInv
  <1>2. ASSUME NEW c \in Issued PROVE RT!older(c) \in Issued
    BY RotationBounds DEF RT!older, Issued
  <1>3. ASSUME NEW r \in Requests PROVE F(r) \in Requests /\ F(r).stage = r.stage
    <2>1. CASE r.kind # "rotation"
      BY <2>1
    <2>2. CASE r.kind = "rotation"
      <3>1. r.cert \in Issued
        BY <2>2 DEF Requests
      <3>2. PICK d : d = RT!older(r.cert) /\ d \in Issued
        BY <1>2, <3>1
      <3>3. F(r) = [r EXCEPT !.cert = d]
        BY <2>2, <3>2
      <3>4. [r EXCEPT !.cert = d] \in Requests /\ [r EXCEPT !.cert = d].stage = r.stage
        BY <3>2 DEF Requests
      <3>5. QED
        BY <3>3, <3>4
    <2>3. QED
      BY <2>1, <2>2
  <1>4. rpc' = {F(r) : r \in rpc}
    OBVIOUS
  <1> HIDE DEF F
  <1>5. verifying' = {F(r) : r \in verifying}
    <2>1. verifying' = {x \in rpc' : x.stage = "verifying"}
      BY DEF verifying
    <2>2. verifying = {x \in rpc : x.stage = "verifying"}
      BY DEF verifying
    <2>3. QED
      BY <1>1, <1>3, <1>4, <2>1, <2>2
  <1>6. rpc' \subseteq Requests
    BY <1>1, <1>3, <1>4
  <1> DEFINE g == [r \in rpc |-> F(r)]
             h == [r \in verifying |-> F(r)]
  <1>7. g \in Surjection(rpc, rpc')
    BY <1>4 DEF Surjection
  <1>8. h \in Surjection(verifying, verifying')
    BY <1>5 DEF Surjection
  <1>9. verifying \subseteq rpc
    BY DEF verifying
  <1> HIDE DEF g, h
  <1>10. IsFiniteSet(verifying) /\ Cardinality(verifying) \in Nat
    BY <1>1, <1>9, FS_Subset, FS_CardinalityType
  <1>11. IsFiniteSet(rpc')
    BY <1>1, <1>7, FS_Surjection
  <1>12. IsFiniteSet(verifying') /\ Cardinality(verifying') <= Cardinality(verifying)
    BY <1>8, <1>10, FS_Surjection
  <1>13. Cardinality(verifying') \in Nat
    BY <1>12, FS_CardinalityType
  <1>14. Cardinality(verifying') <= Slots
    BY <1>1, <1>10, <1>12, <1>13, RotationBounds
  <1>15. QED
    BY <1>6, <1>11, <1>14 DEF RpcInv

\* A decided block keeps it, and applies what it carries.
LEMMA RotationDecide == ASSUME RotInv, NEW n \in Parties, RT!Decide(n) PROVE RotInv'
  <1>1. PICK q, b : q = RT!carried(n) /\ b = RT!build_batch(n, q)
    OBVIOUS
  <1>2. /\ seat' = RT!seat_after(seat, b) /\ behind' = Append(behind, b)
        /\ pending_set_changes' = RT!uncommitted(RT!kept_changes(n), b)
        /\ me' = [me EXCEPT !.pending = RT!olderSeq(@)]
        /\ UNCHANGED <<tick, gauge, leaves, faults, readmitted>>
    BY <1>1 DEF RT!Decide
  <1>3. refused' = (refused \/ \E c \in RT!Range(q) \cap RT!Range(b.rotations) : ~RT!applied(seat, b.rotations, c))
    BY <1>1 DEF RT!Decide
  <1>4. foreign' = [foreign EXCEPT
                      !["peer"] = RT!olderSeq(RT!retire(IF n = "peer" THEN q ELSE @, seat, b)),
                      !["me"] = RT!olderSeq(IF n = "me" THEN q ELSE @)]
    BY <1>1 DEF RT!Decide
  <1>5. rpc' = {IF r.kind = "rotation" THEN [r EXCEPT !.cert = RT!older(@)] ELSE r : r \in rpc}
    BY DEF RT!Decide
  <1>6. PICK g : g = gauge[1] + 1
    OBVIOUS
  <1>7. DOMAIN foreign = Parties /\ foreign["peer"] \in Short(MaxEpoch) /\ foreign["me"] \in Short(g)
    BY <1>6 DEF RotInv, QueuesInv
  <1>8. n \in {"me", "peer"}
    BY DEF Parties
  <1>9. /\ n = "peer" => q \in Short(MaxEpoch)
        /\ n = "me" => q \in Short(g)
        /\ \A i \in DOMAIN q : RT!rotation_ok(seat, q[i])
    BY <1>1, <1>7, <1>8, CarriedShort
  <1>10. q \in Seq(Issued)
    BY <1>8, <1>9 DEF Short
  <1>11. b \in Batches
    BY <1>1, <1>10, BatchTyped
  <1>12. PICK rs, cs : rs = b.rotations /\ cs = b.set_changes /\ rs \in Seq(Issued) /\ cs \in Seq({"remove", "admit"})
    BY <1>11 DEF Batches
  <1>13. seat \in Held /\ behind \in Seq(Batches) /\ me \in Runs(0) /\ RpcInv
    BY DEF RotInv
  <1>14. seat' \in Held
    <2>1. PICK s : s = RT!rotate_all(seat, rs)
      OBVIOUS
    <2>2. s \in Held
      BY <1>12, <1>13, <2>1, SeatStays
    <2>3. RT!change_all(s, cs) \in {s, Out, 0}
      BY <1>12, SeatChanged
    <2>4. seat' = RT!change_all(s, cs)
      BY <1>2, <1>12, <2>1 DEF RT!seat_after
    <2>5. Out \in Held /\ 0 \in Held
      BY RotationBounds DEF Held
    <2>6. QED
      BY <2>2, <2>3, <2>4, <2>5
  <1>15. behind' \in Seq(Batches)
    BY <1>2, <1>11, <1>13
  <1>16. ~refused'
    <2>1. ASSUME NEW c \in RT!Range(q) PROVE RT!applied(seat, rs, c)
      <3>1. PICK i \in DOMAIN q : c = q[i]
        BY <2>1 DEF RT!Range
      <3>2. c \in Issued /\ RT!rotation_ok(seat, c)
        BY <1>9, <1>10, <3>1
      <3>3. PICK s \in Held : s = seat
        BY <1>13
      <3>4. RT!rotation_ok(s, c)
        BY <3>2, <3>3
      <3>5. RT!applied(s, rs, c)
        BY <1>12, <3>2, <3>4, CarriedHolds
      <3>6. QED
        BY <3>3, <3>5
    <2>2. ~refused
      BY DEF RotInv
    <2>3. ~ \E c \in RT!Range(q) \cap RT!Range(rs) : ~RT!applied(seat, rs, c)
      BY <2>1
    <2>4. QED
      BY <1>3, <1>12, <2>2, <2>3, Zenon
  <1>17. QueuesInv'
    <2>1. PICK p, m, o, t : /\ p = IF n = "peer" THEN q ELSE foreign["peer"]
                            /\ m = IF n = "me" THEN q ELSE foreign["me"]
                            /\ t = RT!retire(p, seat, b) /\ o = RT!olderSeq(t)
      OBVIOUS
    <2>2. p \in Short(MaxEpoch) /\ m \in Short(g)
      BY <1>7, <1>9, <2>1
    <2>3. t \in Short(MaxEpoch)
      <3>1. PICK s \in Held, e \in Int : s = seat /\ e = MaxEpoch
        BY <1>13, RotationBounds
      <3>2. p \in Short(e)
        BY <2>2, <3>1
      <3>3. RT!retire_all(p, s, rs)[2] \in Short(e)
        BY <1>12, <3>2, ShortRetired
      <3>4. QED
        BY <1>12, <2>1, <3>1, <3>3 DEF RT!retire
    <2>4. o \in Short(MaxEpoch) /\ RT!olderSeq(m) \in Short(g)
      BY <2>1, <2>2, <2>3, ShortOlder
    <2>5. foreign'["peer"] = o /\ foreign'["me"] = RT!olderSeq(m) /\ DOMAIN foreign' = Parties
      BY <1>4, <1>7, <2>1 DEF Parties
    <2>6. gauge'[1] + 1 = g
      BY <1>2, <1>6
    <2>7. QED
      BY <2>4, <2>5, <2>6 DEF QueuesInv
  <1>18. me' \in Runs(0) /\ me'.seat = me.seat /\ me'.epoch = me.epoch /\ me'.signer = me.signer
    <2>1. PICK p, d : p = RT!olderSeq(me.pending) /\ d = me.epoch + 1
      OBVIOUS
    <2>2. me \in Apps /\ me.signer <= me.epoch /\ 0 <= me.epoch /\ me.pending \in Short(d)
      BY <1>13, <2>1 DEF Runs
    <2>3. p \in Short(d) /\ p \in Seq(Issued)
      BY <2>1, <2>2, ShortOlder DEF Short
    <2>4. me' = [me EXCEPT !.pending = p]
      BY <1>2, <2>1
    <2>5. me' \in Apps /\ me'.pending = p /\ me'.seat = me.seat /\ me'.epoch = me.epoch /\ me'.signer = me.signer
      BY <2>2, <2>3, <2>4 DEF Apps
    <2>6. QED
      BY <2>1, <2>2, <2>3, <2>5 DEF Runs
  <1>19. GaugeInv' /\ StepInv'
    BY <1>2, <1>18 DEF RotInv, GaugeInv, StepInv, InStep
  <1>20. RpcInv'
    BY <1>5, <1>13, RequestsOlder
  <1>21. pending_set_changes' \in Seq(Queued)
    <2>1. PICK p, K : p = RT!kept_changes(n) /\ K = {c \in RT!Range(p) : c.kind \notin RT!Range(b.set_changes)}
      OBVIOUS
    <2>2. p \in Seq(Queued)
      BY <2>1, KeptTyped DEF RotInv
    <2>3. RT!retain(p, K) \in Seq(Queued)
      BY <2>2, Retained
    <2>4. QED
      BY <1>2, <2>1, <2>3 DEF RT!uncommitted
  <1>22. leaves' \in [0..MaxEpoch -> 0..PerTree]
    BY <1>2 DEF RotInv
  <1>23. QED
    BY <1>14, <1>15, <1>16, <1>17, <1>18, <1>19, <1>20, <1>21, <1>22 DEF RotInv

\* A restart keeps it, and brings the signer back to the seat.
LEMMA RotationRestart == RotInv /\ RT!Restart => RotInv'
  <1> SUFFICES ASSUME RotInv, RT!Restart PROVE RotInv'
    OBVIOUS
  <1>1. PICK e, s : e = (IF me.seat = Out THEN me.epoch ELSE me.seat) /\ s = RT!Max2(me.seat, 0)
    OBVIOUS
  <1>2. PICK h : /\ h \in {me.highest, s}
                 /\ me' = [me EXCEPT !.epoch = e, !.highest = RT!Max2(h, s), !.last = "none",
                                     !.pending = <<>>, !.signer = s]
    BY <1>1 DEF RT!Restart, RT!Out, Out
  <1>3. /\ gauge' = <<s, leaves[s]>> /\ foreign' = [foreign EXCEPT !["me"] = <<>>]
        /\ UNCHANGED <<seat, behind, leaves, pending_set_changes, rpc, refused>>
    BY <1>1 DEF RT!Restart
  <1>4. me \in Apps /\ me.seat \in Held /\ me.epoch \in 0..MaxEpoch /\ me.highest \in Nat
    BY DEF RotInv, Runs, Apps
  <1>5. /\ s \in 0..MaxEpoch /\ e \in 0..MaxEpoch /\ s <= e
        /\ me.seat # Out => s = me.seat /\ e = me.seat
    BY <1>1, <1>4, RotationBounds DEF Held, RT!Max2
  <1>6. PICK x : x = RT!Max2(h, s) /\ x \in Nat
    BY <1>2, <1>4, <1>5 DEF RT!Max2
  <1>7. me' \in Apps /\ me'.seat = me.seat /\ me'.epoch = e /\ me'.signer = s /\ me'.pending = <<>>
    <2>0. <<>> \in Seq(Issued)
      OBVIOUS
    <2>1. PICK p : p = <<>> /\ p \in Seq(Issued)
      BY <2>0, Zenon
    <2>2. me' = [me EXCEPT !.epoch = e, !.highest = x, !.last = "none", !.pending = p, !.signer = s]
      BY <1>2, <1>6, <2>1
    <2>3. me' \in Apps
      BY <1>4, <1>5, <1>6, <2>1, <2>2 DEF Apps
    <2>4. me'.seat = me.seat /\ me'.epoch = e /\ me'.signer = s /\ me'.pending = p
      BY <1>4, <2>2 DEF Apps
    <2>5. QED
      BY <2>1, <2>3, <2>4
  <1>8. \A d : <<>> \in Short(d)
    BY DEF Short
  <1>9. me' \in Runs(0)
    BY <1>5, <1>7, <1>8 DEF Runs
  <1>10. StepInv'
    BY <1>5, <1>7 DEF StepInv, InStep
  <1>11. GaugeInv'
    BY <1>3, <1>5, <1>7 DEF GaugeInv
  <1>12. QueuesInv'
    <2>1. DOMAIN foreign = Parties /\ foreign["peer"] \in Short(MaxEpoch)
      BY DEF RotInv, QueuesInv
    <2>2. DOMAIN foreign' = Parties /\ foreign'["peer"] = foreign["peer"] /\ foreign'["me"] = <<>>
      BY <1>3, <2>1 DEF Parties
    <2>3. QED
      BY <1>8, <2>1, <2>2 DEF QueuesInv
  <1>13. RpcInv'
    BY <1>3 DEF RotInv, RpcInv, verifying
  <1>14. QED
    BY <1>3, <1>9, <1>10, <1>11, <1>12, <1>13 DEF RotInv

\* Every step keeps it.
LEMMA RotationStep == RotInv /\ [RT!Next]_RT!vars => RotInv'
  <1> SUFFICES ASSUME RotInv, [RT!Next]_RT!vars PROVE RotInv'
    OBVIOUS
  <1>1. CASE RT!Commit \/ RT!Stale \/ RT!Vote \/ RT!Restart
    BY <1>1, RotationCommit, RotationStale, RotationVote, RotationRestart
  <1>2. CASE \E d \in BOOLEAN : RT!TickIssue(d)
    BY <1>2, RotationTick
  <1>3. CASE \E e \in {seat + 1, seat + 2} \cap (1..MaxEpoch) :
               RT!Operator(RT!request("rotation", RT!Issue(e, 0), "operator"))
    <2>1. PICK e \in 1..MaxEpoch : RT!Operator(RT!request("rotation", RT!Issue(e, 0), "operator"))
      BY <1>3
    <2>2. PICK r : r = RT!request("rotation", RT!Issue(e, 0), "operator")
      OBVIOUS
    <2>3. r \in Requests /\ r.stage = "sent"
      BY <2>2, IssueTyped, RequestTyped
    <2>4. QED
      BY <2>1, <2>2, <2>3, RotationOperator
  <1>4. CASE \E c \in Changes : RT!Operator(RT!request(c, RT!NoCert, "operator"))
    <2>1. PICK c \in Changes : RT!Operator(RT!request(c, RT!NoCert, "operator"))
      BY <1>4
    <2>2. PICK r : r = RT!request(c, RT!NoCert, "operator")
      OBVIOUS
    <2>3. r \in Requests /\ r.stage = "sent"
      BY <2>2, RequestTyped, RotationBounds
    <2>4. QED
      BY <2>1, <2>2, <2>3, RotationOperator
  <1>5. CASE \E i \in DOMAIN pending_set_changes : RT!Window(i)
    BY <1>5, RotationWindow
  <1>6. CASE \E r \in rpc : RT!Receive(r) \/ RT!Queue(r)
    BY <1>6, RotationReceive, RotationQueue
  <1>7. CASE \E n \in Parties : RT!LostRound(n) \/ RT!Decide(n)
    BY <1>7, RotationLostRound, RotationDecide
  <1>8. CASE UNCHANGED RT!vars
    BY <1>8 DEF RT!vars, RotInv, GaugeInv, StepInv, InStep, QueuesInv, RpcInv, verifying
  <1>9. QED
    BY <1>1, <1>2, <1>3, <1>4, <1>5, <1>6, <1>7, <1>8 DEF RT!Next, RT!Parties, Parties

\* The invariant holds always, for every number of leaves, thresholds, slots,
\* faults and blocks behind.
THEOREM RotationInvariant == RT!Spec => []RotInv
  <1>1. RT!Spec => RT!Init /\ [][RT!Next]_RT!vars
    BY DEF RT!Spec
  <1>2. QED
    BY <1>1, RotationInit, RotationStep, PTL

\* A certificate that a proposal carries is never refused by its block, and no
\* queue holds two certificates of the root (R9), whatever was decided, queued or
\* lost between the check at the RPC and the block.
THEOREM RotationCarriedAreApplied == RT!Spec => []CarriedAreApplied
  BY RotationInvariant, RotInvGives, PTL

\* The live signer is the tree the set verifies this node's votes with, across
\* rotations, removals and restarts, unless the seat was admitted anew to a node
\* that remembers a later epoch.
THEOREM RotationSignerFollowsSeat == RT!Spec => []SignerFollowsSeat
  BY RotationInvariant, RotInvGives, PTL

-----------------------------------------------------------------------------
(* The signer                                                              *)

CONSTANTS Floors

VARIABLES running, epoch, used, count, pc, file

HS == INSTANCE HashSigner WITH up <- running

\* What HashSigner.tla assumes of its floors.
NaturalFloors == Floors \subseteq Nat

\* The disk never shows a later record than the OS does.
DiskBehindFile == \A e \in Epochs : durable[e].count <= file[e].count

\* The live signer stands past every leaf its tree released, and its file is
\* at most the one reservation ahead that a failed directory sync leaves.
LivePosition ==
    running => /\ file[epoch].count <= count + 1
               /\ \A l \in Leaves : signed[epoch][l] > 0 => l < count

\* What each point of sign() has established.
SignProgress ==
    /\ pc # "idle" => running /\ count < Capacity
    /\ pc = "fsync" => file[epoch].count = count + 1
    /\ pc = "release" => file[epoch].count = count + 1 /\ durable[epoch].count = count + 1

\* The inductive strengthening of NoLeafReuse.
SignerInv ==
    /\ HS!TypeOK
    /\ NoLeafReuse
    /\ ReleasedIsDurable
    /\ HS!HeaderMirrorsKey
    /\ DiskBehindFile
    /\ LivePosition
    /\ SignProgress

\* A fresh signer, or one at its floors, satisfies the invariant.
LEMMA SignerInit == HS!Init => SignerInv
  <1> SUFFICES ASSUME HS!Init PROVE SignerInv
    OBVIOUS
  <1>1. HS!NoFile \in HS!Record /\ HS!NoFile.used = 0 /\ HS!NoFile.count = 0
    BY DEF HS!NoFile, HS!Record
  <1>2. /\ \A e \in Epochs : file[e] = HS!NoFile /\ durable[e] = HS!NoFile
        /\ \A e \in Epochs, l \in Leaves : signed[e][l] = 0
    BY DEF HS!Init, Leaves, HS!Leaves
  <1>3. HS!TypeOK
    BY <1>1, EpochsAssumption DEF HS!Init, HS!TypeOK, Leaves, HS!Leaves
  <1>4. NoLeafReuse /\ ReleasedIsDurable
    BY <1>2 DEF NoLeafReuse, ReleasedIsDurable
  <1>4a. HS!HeaderMirrorsKey /\ DiskBehindFile
    BY <1>1, <1>2 DEF HS!Init, HS!HeaderMirrorsKey, DiskBehindFile
  <1>5. LivePosition /\ SignProgress
    BY DEF HS!Init, LivePosition, SignProgress
  <1>6. QED
    BY <1>3, <1>4, <1>4a, <1>5 DEF SignerInv

\* Attaching tree e at the resume position keeps every clause about the
\* live signer: the visible file is at or past the durable one.
LEMMA SignerAttach ==
  ASSUME NaturalFloors, SignerInv, NEW e \in Epochs, NEW f \in Floors, HS!Attach(e, f),
         running' = TRUE, pc = "idle", UNCHANGED <<pc, file, durable, signed>>
  PROVE  SignerInv'
  <1>1. /\ epoch' = e /\ used' = HS!Resume(e, f) /\ count' = HS!Resume(e, f)
        /\ HS!Resume(e, f) \in Nat /\ HS!Resume(e, f) >= file[e].count
    BY DEF NaturalFloors, HS!Attach, HS!Resume, HS!Larger, SignerInv, HS!TypeOK, HS!Record
  <1>2. \A l \in Leaves : signed[e][l] > 0 => l < HS!Resume(e, f)
    BY <1>1, CapacityAssumption
    DEF SignerInv, HS!TypeOK, ReleasedIsDurable, DiskBehindFile, HS!Record, Leaves, HS!Leaves
  <1>3. HS!TypeOK' /\ HS!HeaderMirrorsKey'
    BY <1>1 DEF SignerInv, HS!TypeOK, HS!HeaderMirrorsKey
  <1>4. NoLeafReuse' /\ ReleasedIsDurable' /\ DiskBehindFile'
    BY DEF SignerInv, NoLeafReuse, ReleasedIsDurable, DiskBehindFile
  <1>5. LivePosition' /\ SignProgress'
    BY <1>1, <1>2 DEF SignerInv, HS!TypeOK, LivePosition, SignProgress, HS!Record
  <1>6. QED
    BY <1>3, <1>4, <1>5 DEF SignerInv

\* Every step of the signer, the disk and the power keeps it.
LEMMA SignerStep == NaturalFloors /\ SignerInv /\ [HS!Next]_(HS!vars) => SignerInv'
  <1> SUFFICES ASSUME NaturalFloors, SignerInv, [HS!Next]_(HS!vars)
               PROVE  SignerInv'
    OBVIOUS
  <1> USE EpochsAssumption, CapacityAssumption DEF NaturalFloors
  <1>1. ASSUME NEW f \in Floors, HS!Start(f)
        PROVE  SignerInv'
    <2>1. pc = "idle"
      BY <1>1 DEF HS!Start, SignerInv, SignProgress
    <2>2. QED
      BY <1>1, <2>1, SignerAttach DEF HS!Start
  <1>2. ASSUME NEW e \in Epochs, NEW f \in Floors, HS!RotateTo(e, f)
        PROVE  SignerInv'
    BY <1>2, SignerAttach DEF HS!RotateTo, SignerInv, HS!TypeOK
  <1>3. CASE HS!BeginSign \/ HS!WriteTmp \/ HS!WriteFails
    <2>1. pc' # "idle" => running /\ count < Capacity
      BY <1>3 DEF HS!BeginSign, HS!WriteTmp, HS!WriteFails, HS!remaining, SignerInv, HS!TypeOK,
                  HS!HeaderMirrorsKey, SignProgress
    <2>2. pc' \in {"idle", "write", "rename"}
      BY <1>3 DEF HS!BeginSign, HS!WriteTmp, HS!WriteFails
    <2>3. UNCHANGED <<running, epoch, used, count, file, durable, signed>>
      BY <1>3 DEF HS!BeginSign, HS!WriteTmp, HS!WriteFails
    <2>4. QED
      BY <2>1, <2>2, <2>3
      DEF SignerInv, HS!TypeOK, NoLeafReuse, ReleasedIsDurable, HS!HeaderMirrorsKey,
          DiskBehindFile, LivePosition, SignProgress
  <1>4. CASE HS!Rename
    <2>1. /\ file' = [file EXCEPT ![epoch] = [used |-> used + 1, count |-> count + 1]]
          /\ running /\ used = count /\ count < Capacity /\ pc' = "fsync"
          /\ UNCHANGED <<running, epoch, used, count, durable, signed>>
      BY <1>4 DEF HS!Rename, SignerInv, SignProgress, HS!HeaderMirrorsKey
    <2>2. HS!TypeOK' /\ HS!HeaderMirrorsKey'
      BY <2>1 DEF SignerInv, HS!TypeOK, HS!HeaderMirrorsKey, HS!Record
    <2>3. NoLeafReuse' /\ ReleasedIsDurable'
      BY <2>1 DEF SignerInv, NoLeafReuse, ReleasedIsDurable
    <2>4. DiskBehindFile'
      BY <2>1 DEF SignerInv, HS!TypeOK, DiskBehindFile, LivePosition, HS!Record
    <2>5. LivePosition' /\ SignProgress'
      BY <2>1 DEF SignerInv, HS!TypeOK, LivePosition, SignProgress, HS!Record
    <2>6. QED
      BY <2>2, <2>3, <2>4, <2>5 DEF SignerInv
  <1>5. CASE HS!SyncDir
    <2>1. /\ durable' = [durable EXCEPT ![epoch] = file[epoch]]
          /\ pc = "fsync" /\ pc' = "release" /\ running /\ count < Capacity
          /\ UNCHANGED <<running, epoch, used, count, file, signed>>
      BY <1>5 DEF HS!SyncDir, SignerInv, SignProgress
    <2>2. HS!TypeOK' /\ HS!HeaderMirrorsKey' /\ NoLeafReuse' /\ LivePosition'
      BY <2>1 DEF SignerInv, HS!TypeOK, HS!HeaderMirrorsKey, NoLeafReuse, LivePosition
    <2>3. DiskBehindFile' /\ SignProgress'
      BY <2>1 DEF SignerInv, HS!TypeOK, DiskBehindFile, SignProgress, HS!Record
    <2>4. ReleasedIsDurable'
      <3> SUFFICES ASSUME NEW d \in Epochs, NEW l \in Leaves, signed[d][l] > 0
                   PROVE  l < durable'[d].used /\ l < durable'[d].count
        BY <2>1 DEF ReleasedIsDurable
      <3>0. l \in Int
        BY DEF Leaves, HS!Leaves
      <3>1. l < durable[d].count /\ l < durable[d].used
        BY DEF SignerInv, ReleasedIsDurable
      <3>2. /\ durable[d].count <= file[d].count /\ file[d].used = file[d].count
            /\ durable[d].count \in Nat /\ file[d].count \in Nat
        BY DEF SignerInv, HS!TypeOK, DiskBehindFile, HS!HeaderMirrorsKey, HS!Record
      <3>3. durable'[d] = durable[d] \/ durable'[d] = file[d]
        BY <2>1 DEF SignerInv, HS!TypeOK
      <3>4. QED
        BY <3>0, <3>1, <3>2, <3>3
    <2>5. QED
      BY <2>2, <2>3, <2>4 DEF SignerInv
  <1>6. CASE HS!Release
    <2>1. /\ signed' = [signed EXCEPT ![epoch][count] = @ + 1]
          /\ used' = used + 1 /\ count' = count + 1 /\ pc' = "idle"
          /\ running /\ used = count /\ count < Capacity
          /\ file[epoch].count = count + 1 /\ durable[epoch].count = count + 1
          /\ UNCHANGED <<running, epoch, file, durable>>
      BY <1>6 DEF HS!Release, SignerInv, SignProgress, HS!HeaderMirrorsKey
    <2>2. count \in Leaves /\ signed[epoch][count] = 0
      BY <2>1 DEF SignerInv, HS!TypeOK, LivePosition, Leaves, HS!Leaves
    <2>3. /\ signed'[epoch][count] = 1
          /\ \A e \in Epochs, l \in Leaves :
                (e # epoch \/ l # count) => signed'[e][l] = signed[e][l]
      BY <2>1, <2>2 DEF SignerInv, HS!TypeOK, HS!Leaves, Leaves
    <2>4. HS!TypeOK' /\ HS!HeaderMirrorsKey'
      BY <2>1, <2>2 DEF SignerInv, HS!TypeOK, HS!HeaderMirrorsKey, HS!Leaves, Leaves
    <2>5. NoLeafReuse'
      BY <2>1, <2>3 DEF SignerInv, HS!TypeOK, NoLeafReuse
    <2>6. ReleasedIsDurable'
      BY <2>1, <2>2, <2>3 DEF SignerInv, HS!TypeOK, ReleasedIsDurable, HS!HeaderMirrorsKey, HS!Record
    <2>7. DiskBehindFile' /\ SignProgress'
      BY <2>1 DEF SignerInv, DiskBehindFile, SignProgress
    <2>8. LivePosition'
      <3>1. \A l \in Leaves : l \in Int /\ (signed'[epoch][l] > 0 => l < count + 1)
        BY <2>1, <2>3 DEF SignerInv, HS!TypeOK, LivePosition, Leaves, HS!Leaves
      <3>2. QED
        BY <2>1, <3>1 DEF SignerInv, HS!TypeOK, LivePosition
    <2>9. QED
      BY <2>4, <2>5, <2>6, <2>7, <2>8 DEF SignerInv
  <1>7. ASSUME NEW e \in Epochs, HS!JournalCommit(e)
        PROVE  SignerInv'
    <2>1. /\ durable' = [durable EXCEPT ![e] = file[e]]
          /\ UNCHANGED <<running, epoch, used, count, pc, file, signed>>
      BY <1>7 DEF HS!JournalCommit
    <2>2. HS!TypeOK' /\ HS!HeaderMirrorsKey' /\ NoLeafReuse' /\ LivePosition'
      BY <2>1 DEF SignerInv, HS!TypeOK, HS!HeaderMirrorsKey, NoLeafReuse, LivePosition
    <2>3. DiskBehindFile' /\ SignProgress'
      BY <2>1 DEF SignerInv, HS!TypeOK, DiskBehindFile, SignProgress, HS!Record
    <2>4. ReleasedIsDurable'
      <3> SUFFICES ASSUME NEW d \in Epochs, NEW l \in Leaves, signed[d][l] > 0
                   PROVE  l < durable'[d].used /\ l < durable'[d].count
        BY <2>1 DEF ReleasedIsDurable
      <3>0. l \in Int
        BY DEF Leaves, HS!Leaves
      <3>1. l < durable[d].count /\ l < durable[d].used
        BY DEF SignerInv, ReleasedIsDurable
      <3>2. /\ durable[d].count <= file[d].count /\ file[d].used = file[d].count
            /\ durable[d].count \in Nat /\ file[d].count \in Nat
        BY DEF SignerInv, HS!TypeOK, DiskBehindFile, HS!HeaderMirrorsKey, HS!Record
      <3>3. durable'[d] = durable[d] \/ durable'[d] = file[d]
        BY <2>1 DEF SignerInv, HS!TypeOK
      <3>4. QED
        BY <3>0, <3>1, <3>2, <3>3
    <2>5. QED
      BY <2>2, <2>3, <2>4 DEF SignerInv
  <1>8. CASE HS!ProcessCrash
    BY <1>8 DEF HS!ProcessCrash, SignerInv, HS!TypeOK, NoLeafReuse, ReleasedIsDurable,
                HS!HeaderMirrorsKey, DiskBehindFile, LivePosition, SignProgress
  <1>9. CASE HS!PowerLoss
    <2>1. /\ running' = FALSE /\ pc' = "idle" /\ file' = durable
          /\ UNCHANGED <<epoch, used, count, durable, signed>>
      BY <1>9 DEF HS!PowerLoss
    <2>2. DiskBehindFile'
      BY <2>1 DEF SignerInv, HS!TypeOK, DiskBehindFile, HS!Record
    <2>3. QED
      BY <2>1, <2>2 DEF SignerInv, HS!TypeOK, NoLeafReuse, ReleasedIsDurable,
                        HS!HeaderMirrorsKey, LivePosition, SignProgress
  <1>10. CASE UNCHANGED HS!vars
    BY <1>10 DEF HS!vars, SignerInv, HS!TypeOK, NoLeafReuse, ReleasedIsDurable,
                 HS!HeaderMirrorsKey, DiskBehindFile, LivePosition, SignProgress
  <1>11. QED
    BY <1>1, <1>2, <1>3, <1>4, <1>5, <1>6, <1>7, <1>8, <1>9, <1>10 DEF HS!Next

\* The inductive invariant holds in every reachable state.
THEOREM SignerInvariant ==
  ASSUME NaturalFloors
  PROVE  HS!Spec => []SignerInv
  BY SignerInit, SignerStep, PTL DEF HS!Spec

\* The signer's state keeps its type (hashsig.rs HashSigner, fsutil.rs).
THEOREM SignerTypeOK ==
  ASSUME NaturalFloors
  PROVE  HS!Spec => []HS!TypeOK
  <1>1. SignerInv => HS!TypeOK
    BY DEF SignerInv
  <1>2. QED
    BY <1>1, SignerInvariant, PTL

\* hashsig.rs sign with fsutil.rs write_atomic: no leaf of any tree ever
\* signs twice, for every capacity and every number of epochs.
THEOREM SignerNoLeafReuse ==
  ASSUME NaturalFloors
  PROVE  HS!Spec => []NoLeafReuse
  <1>1. SignerInv => NoLeafReuse
    BY DEF SignerInv
  <1>2. QED
    BY <1>1, SignerInvariant, PTL

\* Every released leaf is behind what a power loss would leave on disk.
THEOREM SignerReleasedIsDurable ==
  ASSUME NaturalFloors
  PROVE  HS!Spec => []ReleasedIsDurable
  <1>1. SignerInv => ReleasedIsDurable
    BY DEF SignerInv
  <1>2. QED
    BY <1>1, SignerInvariant, PTL

\* The durable position of a tree never moves back and never passes the file.
THEOREM SignerPositionMonotone ==
  ASSUME NaturalFloors
  PROVE  HS!Spec => HS!PositionMonotone
  <1> DEFINE A == \A e \in Epochs :
                     durable'[e].count >= durable[e].count /\ durable'[e].count <= file'[e].count
  <1>1. SignerInv /\ SignerInv' /\ [HS!Next]_(HS!vars) => [A]_(HS!vars)
    <2> SUFFICES ASSUME SignerInv, SignerInv', HS!Next
                 PROVE  A
      BY DEF HS!vars
    <2>1. \A e \in Epochs : durable'[e].count <= file'[e].count
      BY DEF SignerInv, DiskBehindFile
    <2>2. \A e \in Epochs : durable'[e] = durable[e] \/ durable'[e] = file[e]
      BY DEF SignerInv, HS!TypeOK, HS!Next, HS!Start, HS!RotateTo, HS!BeginSign, HS!WriteTmp, HS!Rename, HS!SyncDir,
             HS!Release, HS!WriteFails, HS!JournalCommit, HS!ProcessCrash, HS!PowerLoss
    <2>3. \A e \in Epochs : durable[e].count \in Nat /\ durable[e].count <= file[e].count
      BY DEF SignerInv, HS!TypeOK, DiskBehindFile, HS!Record
    <2>4. QED
      BY <2>1, <2>2, <2>3
  <1>2. QED
    BY <1>1, SignerStep, SignerInvariant, PTL DEF HS!Spec, HS!PositionMonotone

=============================================================================
