------------------------- MODULE MandateTreeProofs --------------------------
(***************************************************************************)
(* Proofs about MandateTree.tla for every set of mandate ids and requests: *)
(* the envelope and window bounds of each node, attenuation along whole    *)
(* chains, and that every ancestor pays for every spend below it.          *)
(***************************************************************************)
EXTENDS MandateTree, WellFoundedInduction, TLAPS

-----------------------------------------------------------------------------
(* Chains                                                                  *)

\* A set that holds the leaf and is closed under parents holds its chain:
\* what chain_of's walk can reach.
LEMMA ChainInside ==
  ASSUME NEW t, NEW leaf, NEW S \in SUBSET DOMAIN t, leaf \in S, UpClosed(t, S)
  PROVE  chain_of(t, leaf) \subseteq S
  BY DEF chain_of

\* chain_of starts with the leaf it is asked about.
LEMMA LeafInChain ==
  ASSUME NEW t, NEW leaf \in DOMAIN t
  PROVE  leaf \in chain_of(t, leaf)
  BY DEF chain_of

\* The chain of an ancestor is part of the chain: the walk never branches.
LEMMA ChainOfAncestor ==
  ASSUME NEW t, NEW leaf, NEW m \in chain_of(t, leaf)
  PROVE  chain_of(t, m) \subseteq chain_of(t, leaf)
  BY DEF chain_of

\* Every parent on the chain is a node.
Linked(t) == \A m \in DOMAIN t : t[m].parent # NoParent => t[m].parent \in DOMAIN t

\* The chain contains the parents of its members.
LEMMA ChainClosed ==
  ASSUME NEW t, Linked(t), NEW leaf
  PROVE  UpClosed(t, chain_of(t, leaf))
  BY DEF Linked, UpClosed, chain_of

\* The chain depends on the parents only.
LEMMA SameParentsSameChain ==
  ASSUME NEW t, NEW u, DOMAIN t = DOMAIN u, \A m \in DOMAIN t : t[m].parent = u[m].parent,
         NEW leaf
  PROVE  chain_of(t, leaf) = chain_of(u, leaf)
  <1>1. \A S \in SUBSET DOMAIN t : UpClosed(t, S) <=> UpClosed(u, S)
    BY DEF UpClosed
  <1>2. QED
    BY <1>1 DEF chain_of

\* A new node lengthens no chain but its own.
LEMMA ChainBelowNew ==
  ASSUME NEW t, NEW u, NEW id, id \notin DOMAIN t, DOMAIN u = DOMAIN t \cup {id}, Linked(t),
         \A m \in DOMAIN t : u[m] = t[m], NEW leaf \in DOMAIN t
  PROVE  chain_of(u, leaf) = chain_of(t, leaf)
  <1> DEFINE C == chain_of(t, leaf)
  <1>1. C \subseteq DOMAIN t /\ UpClosed(t, C) /\ leaf \in C
    BY ChainClosed, LeafInChain DEF chain_of
  <1>2. UpClosed(u, C) /\ C \in SUBSET DOMAIN u
    BY <1>1 DEF UpClosed
  <1>3. chain_of(u, leaf) \subseteq C
    <2> HIDE DEF C
    <2> QED
      BY <1>1, <1>2, ChainInside
  <1>4. ASSUME NEW x \in C, NEW S \in SUBSET DOMAIN u, leaf \in S, UpClosed(u, S)
        PROVE  x \in S
    <2>1. UpClosed(t, S \cap DOMAIN t)
      BY <1>4 DEF UpClosed, Linked
    <2>2. QED
      BY <1>4, <2>1 DEF chain_of
  <1>5. C \subseteq chain_of(u, leaf)
    BY <1>1, <1>4 DEF chain_of
  <1>6. QED
    BY <1>3, <1>5

\* The chain of a new node is the node and its parent's chain.
LEMMA ChainOfNew ==
  ASSUME NEW t, NEW u, NEW id, id \notin DOMAIN t, DOMAIN u = DOMAIN t \cup {id}, Linked(t),
         \A m \in DOMAIN t : u[m] = t[m],
         u[id].parent # NoParent => u[id].parent \in DOMAIN t
  PROVE  chain_of(u, id) = {id} \cup (IF u[id].parent = NoParent THEN {}
                                      ELSE chain_of(t, u[id].parent))
  <1> DEFINE p == u[id].parent
             C == IF p = NoParent THEN {} ELSE chain_of(t, p)
  <1>1. Linked(u)
    BY DEF Linked
  <1>2. C \subseteq DOMAIN t /\ UpClosed(t, C)
    BY ChainClosed DEF chain_of, UpClosed
  <1>3. p # NoParent => p \in C
    BY LeafInChain
  <1>4. UpClosed(u, {id} \cup C) /\ {id} \cup C \in SUBSET DOMAIN u
    BY <1>2, <1>3 DEF UpClosed
  <1>5. chain_of(u, id) \subseteq {id} \cup C
    <2> HIDE DEF C
    <2>1. id \in {id} \cup C
      OBVIOUS
    <2>2. QED
      BY <1>4, <2>1, ChainInside
  <1>6. id \in chain_of(u, id)
    BY LeafInChain
  <1>7. ASSUME p # NoParent PROVE chain_of(t, p) \subseteq chain_of(u, id)
    <2>1. p \in chain_of(u, id)
      BY <1>1, <1>6, <1>7, ChainClosed DEF UpClosed
    <2>2. chain_of(u, p) \subseteq chain_of(u, id)
      BY <2>1, ChainOfAncestor
    <2>3. chain_of(u, p) = chain_of(t, p)
      BY <1>7, ChainBelowNew
    <2>4. QED
      BY <2>2, <2>3
  <1>8. QED
    BY <1>5, <1>6, <1>7

-----------------------------------------------------------------------------
(* One node's buffer                                                       *)

AnyNode == Nodes(Accounts, Assets)

\* What accrues over two spans is what accrues over both together.
LEMMA RateDistributes ==
  ASSUME NEW r \in Nat, NEW x \in Nat, NEW y \in Nat
  PROVE  r * (x + y) = r * x + r * y /\ r * x \in Nat /\ r * 0 = 0
  OBVIOUS

\* The projected buffer is a natural number within the cap and the drip.
LEMMA ProjectedBounds ==
  ASSUME NEW n \in AnyNode, NEW u \in Nat, n.last_accrual <= u
  PROVE  /\ projected(n, u) \in Nat
         /\ projected(n, u) <= n.buffer_max
         /\ projected(n, u) <= n.buffer + n.rate_per_sec * (u - n.last_accrual)
  <1>1. u - n.last_accrual \in Nat /\ n.rate_per_sec \in Nat
    BY DEF AnyNode, Nodes
  <1>2. n.rate_per_sec * (u - n.last_accrual) \in Nat
    BY <1>1, RateDistributes
  <1>3. QED
    BY <1>2 DEF projected, Lesser, AnyNode, Nodes

\* Time adds at most its drip to the projected buffer.
LEMMA ProjectedDrip ==
  ASSUME NEW n \in AnyNode, NEW u \in Nat, NEW w \in Nat, n.last_accrual <= u, u <= w
  PROVE  projected(n, w) <= projected(n, u) + n.rate_per_sec * (w - u)
  <1> DEFINE r == n.rate_per_sec
             x == u - n.last_accrual
             y == w - u
  <1>1. x \in Nat /\ y \in Nat /\ r \in Nat /\ w - n.last_accrual = x + y
    BY DEF AnyNode, Nodes
  <1>2. r * (x + y) = r * x + r * y /\ r * x \in Nat /\ r * y \in Nat
    BY <1>1, RateDistributes
  <1>3. projected(n, w) = Lesser(n.buffer + (r * x + r * y), n.buffer_max)
    BY <1>1, <1>2 DEF projected
  <1>4. projected(n, u) = Lesser(n.buffer + r * x, n.buffer_max)
    BY DEF projected
  <1>5. n.buffer \in Nat /\ n.buffer_max \in Nat
    BY DEF AnyNode, Nodes
  <1> HIDE DEF r, x, y
  <1>6. Lesser(n.buffer + (r * x + r * y), n.buffer_max)
           <= Lesser(n.buffer + r * x, n.buffer_max) + r * y
    BY <1>2, <1>5 DEF Lesser
  <1>7. QED
    BY <1>3, <1>4, <1>6 DEF r, y

\* A node that pays an amount it holds keeps its terms, and its buffer is the
\* projected one less the amount.
LEMMA PayEffect ==
  ASSUME NEW n \in AnyNode, NEW u \in Nat, NEW a \in Nat,
         n.last_accrual <= u, n.buffer <= n.buffer_max, a <= projected(n, u)
  PROVE  LET k == pay(n, a, u) IN
         /\ k \in AnyNode
         /\ k.buffer = projected(n, u) - a
         /\ k.last_accrual = u
         /\ projected(k, u) = projected(n, u) - a
         /\ k.parent = n.parent /\ k.expiry = n.expiry /\ k.per_tx_max = n.per_tx_max
         /\ k.rate_per_sec = n.rate_per_sec /\ k.buffer_max = n.buffer_max
  <1> DEFINE k == pay(n, a, u)
             p == projected(n, u)
  <1>1. p \in Nat /\ p <= n.buffer_max /\ p - a \in Nat
    BY ProjectedBounds
  <1>2. ASSUME u = n.last_accrual PROVE p = n.buffer
    <2>1. n.rate_per_sec * (u - n.last_accrual) = 0
      BY <1>2, RateDistributes DEF AnyNode, Nodes
    <2>2. n.buffer + 0 = n.buffer /\ n.buffer \in Nat /\ n.buffer_max \in Nat
      BY DEF AnyNode, Nodes
    <2>3. QED
      BY <2>1, <2>2 DEF projected, Lesser
  <1> HIDE DEF p
  <1>3. /\ k \in AnyNode /\ k.buffer = p - a /\ k.last_accrual = u
        /\ k.parent = n.parent /\ k.expiry = n.expiry /\ k.per_tx_max = n.per_tx_max
        /\ k.rate_per_sec = n.rate_per_sec /\ k.buffer_max = n.buffer_max
    <2>1. CASE u > n.last_accrual
      <3>1. k = [[n EXCEPT !.buffer = p, !.last_accrual = u] EXCEPT !.buffer = @ - a]
        BY <2>1 DEF pay, accrue, p
      <3>2. QED
        BY <1>1, <3>1 DEF AnyNode, Nodes
    <2>2. CASE u = n.last_accrual
      <3>1. k = [n EXCEPT !.buffer = @ - a]
        BY <2>2 DEF pay, accrue
      <3>2. QED
        BY <1>1, <1>2, <2>2, <3>1 DEF AnyNode, Nodes
    <2>3. QED
      BY <2>1, <2>2 DEF AnyNode, Nodes
  <1> HIDE DEF k
  <1>4. projected(k, u) = p - a
    <2>1. k.rate_per_sec * (u - k.last_accrual) = 0
      BY <1>3, RateDistributes DEF AnyNode, Nodes
    <2>2. projected(k, u) = Lesser(k.buffer + 0, k.buffer_max)
      BY <2>1 DEF projected
    <2>3. k.buffer + 0 = p - a /\ p - a <= k.buffer_max /\ k.buffer_max \in Nat
      BY <1>1, <1>3 DEF p, AnyNode, Nodes
    <2>4. QED
      BY <1>1, <2>2, <2>3 DEF Lesser
  <1>5. QED
    BY <1>3, <1>4 DEF k, p

-----------------------------------------------------------------------------
(* The inductive invariant                                                 *)

\* One node n, of which d was drawn since birth record b, md of it before the
\* instant mt, seen at time u: both bounds, in the form a step preserves.
NodeInv(n, d, b, md, mt, u) ==
    /\ n.buffer <= n.buffer_max
    /\ b.time <= n.last_accrual /\ n.last_accrual <= u
    /\ d + n.buffer <= b.buffer + n.rate_per_sec * (n.last_accrual - b.time)
    /\ (d - md) + projected(n, u) <= n.buffer_max + n.rate_per_sec * (u - mt)

Births == [time : Nat, buffer : Nat]

\* A node that pays no more than its projected buffer keeps its account.
LEMMA NodePays ==
  ASSUME NEW n \in AnyNode, NEW d \in Nat, NEW b \in Births, NEW md \in Nat, NEW mt \in Nat,
         NEW u \in Nat, NEW a \in Nat, mt <= u,
         NodeInv(n, d, b, md, mt, u), a <= projected(n, u)
  PROVE  NodeInv(pay(n, a, u), d + a, b, md, mt, u)
  <1> DEFINE k == pay(n, a, u)
             p == projected(n, u)
             r == n.rate_per_sec
             x == n.last_accrual - b.time
             y == u - n.last_accrual
             z == u - mt
  <1>1. /\ n.buffer <= n.buffer_max /\ b.time <= n.last_accrual /\ n.last_accrual <= u
        /\ d + n.buffer <= b.buffer + r * x
        /\ (d - md) + p <= n.buffer_max + r * z
    BY DEF NodeInv
  <1>2. /\ k.buffer = p - a /\ k.last_accrual = u /\ projected(k, u) = p - a
        /\ k.rate_per_sec = r /\ k.buffer_max = n.buffer_max
    BY <1>1, PayEffect
  <1>3. p \in Nat /\ p <= n.buffer_max /\ p <= n.buffer + r * y
    BY <1>1, ProjectedBounds
  <1>4. x \in Nat /\ y \in Nat /\ z \in Nat /\ r \in Nat /\ u - b.time = x + y
    BY <1>1 DEF AnyNode, Nodes, Births
  <1>5. r * (x + y) = r * x + r * y /\ r * x \in Nat /\ r * y \in Nat /\ r * z \in Nat
    BY <1>4, RateDistributes
  <1>6. n.buffer \in Nat /\ n.buffer_max \in Nat /\ b.buffer \in Nat /\ b.time <= u
    BY <1>1 DEF AnyNode, Nodes, Births
  <1> HIDE DEF k, p, r, x, y, z
  <1>7. (d + a) + k.buffer <= b.buffer + r * (x + y)
    BY <1>1, <1>2, <1>3, <1>5, <1>6
  <1>8. ((d + a) - md) + projected(k, u) <= n.buffer_max + r * z
    BY <1>1, <1>2, <1>3, <1>5, <1>6
  <1>9. QED
    BY <1>2, <1>3, <1>4, <1>6, <1>7, <1>8 DEF NodeInv, k, z

\* Waiting only adds what the rate allows.
LEMMA NodeWaits ==
  ASSUME NEW n \in AnyNode, NEW d \in Nat, NEW b \in Births, NEW md \in Nat, NEW mt \in Nat,
         NEW u \in Nat, NEW w \in Nat, mt <= u, u <= w, NodeInv(n, d, b, md, mt, u)
  PROVE  NodeInv(n, d, b, md, mt, w)
  <1> DEFINE r == n.rate_per_sec
             x == u - mt
             y == w - u
  <1>1. n.last_accrual <= u /\ (d - md) + projected(n, u) <= n.buffer_max + r * x
    BY DEF NodeInv
  <1>2. x \in Nat /\ y \in Nat /\ r \in Nat /\ w - mt = x + y
    BY DEF AnyNode, Nodes
  <1>3. r * (x + y) = r * x + r * y /\ r * x \in Nat /\ r * y \in Nat
    BY <1>2, RateDistributes
  <1>4. projected(n, w) <= projected(n, u) + r * y
    BY <1>1, ProjectedDrip
  <1>5. projected(n, u) \in Nat /\ projected(n, w) \in Nat
    BY <1>1, ProjectedBounds DEF AnyNode, Nodes
  <1>6. n.buffer_max \in Nat /\ n.last_accrual \in Nat
    BY DEF AnyNode, Nodes
  <1> HIDE DEF r, x, y
  <1>7. (d - md) + projected(n, w) <= n.buffer_max + r * (x + y)
    BY <1>1, <1>3, <1>4, <1>5, <1>6
  <1>8. QED
    BY <1>1, <1>2, <1>6, <1>7 DEF NodeInv, r

\* The account balances from whatever instant it is watched.
LEMMA NodeWatched ==
  ASSUME NEW n \in AnyNode, NEW d \in Nat, NEW b \in Births, NEW md \in Nat, NEW mt \in Nat,
         NEW u \in Nat, NodeInv(n, d, b, md, mt, u)
  PROVE  NodeInv(n, d, b, d, u, u)
  <1>1. n.last_accrual <= u /\ n.rate_per_sec \in Nat /\ n.rate_per_sec * 0 = 0 /\ u - u = 0
    BY RateDistributes DEF NodeInv, AnyNode, Nodes
  <1>2. projected(n, u) \in Nat /\ projected(n, u) <= n.buffer_max
    BY <1>1, ProjectedBounds
  <1>3. QED
    BY <1>1, <1>2 DEF NodeInv, AnyNode, Nodes

\* A new node has paid nothing and starts from its opening buffer.
LEMMA NodeBorn ==
  ASSUME NEW q \in RequestRecords, NEW mt \in Nat, NEW u \in Nat, mt <= u
  PROVE  LET n == new_node(q, u) IN
         n \in AnyNode /\ NodeInv(n, 0, [time |-> u, buffer |-> n.buffer], 0, mt, u)
  <1> DEFINE n == new_node(q, u)
             r == n.rate_per_sec
  <1>1. n \in AnyNode /\ n.last_accrual = u /\ n.buffer <= n.buffer_max
    BY DEF new_node, Lesser, AnyNode, Nodes, RequestRecords
  <1>2. u - mt \in Nat /\ r \in Nat /\ r * (u - mt) \in Nat /\ r * 0 = 0 /\ u - u = 0
    BY <1>1, RateDistributes DEF AnyNode, Nodes
  <1>3. projected(n, u) \in Nat /\ projected(n, u) <= n.buffer_max
    BY <1>1, ProjectedBounds
  <1>4. n.buffer \in Nat /\ n.buffer_max \in Nat
    BY <1>1 DEF AnyNode, Nodes
  <1> HIDE DEF n
  <1>5. NodeInv(n, 0, [time |-> u, buffer |-> n.buffer], 0, mt, u)
    BY <1>1, <1>2, <1>3, <1>4 DEF NodeInv
  <1>6. QED
    BY <1>1, <1>5 DEF n

\* What insert establishes link by link.
ParentsNarrow ==
    \A m \in DOMAIN nodes : nodes[m].parent # NoParent =>
        /\ nodes[m].parent \in DOMAIN nodes
        /\ nodes[m].expiry <= nodes[nodes[m].parent].expiry
        /\ nodes[m].per_tx_max <= nodes[nodes[m].parent].per_tx_max

\* Every node meets its own bounds.
Accounted ==
    /\ mark.time <= now
    /\ \A m \in DOMAIN nodes :
           NodeInv(nodes[m], drawn[m], born[m], mark.drawn[m], mark.time, now)

\* Nothing is drawn through an id before it exists.
Unborn == \A m \in MandateIds \ DOMAIN nodes : drawn[m] = 0 /\ mark.drawn[m] = 0

\* The inductive strengthening of the envelope, window and attenuation bounds.
TreeInv == TypeOK /\ ParentsNarrow /\ Accounted /\ Unborn

\* The empty tree satisfies the invariant.
LEMMA InitTree == Init => TreeInv
  <1> SUFFICES ASSUME Init PROVE TreeInv
    OBVIOUS
  <1>1. DOMAIN nodes = {}
    BY DEF Init
  <1>2. TypeOK
    BY <1>1 DEF Init, TypeOK, Tree
  <1>3. ParentsNarrow /\ Accounted /\ Unborn
    BY <1>1 DEF Init, ParentsNarrow, Accounted, Unborn
  <1>4. QED
    BY <1>2, <1>3 DEF TreeInv

\* insert adds one node that narrows its parent.
LEMMA InsertTree ==
  ASSUME TreeInv, NEW q \in Requests, Insert(q)
  PROVE  TreeInv'
  <1> DEFINE n == new_node(q, now)
             b == [time |-> now, buffer |-> n.buffer]
  <1> USE DEF TreeInv
  <1>1. /\ q \in RequestRecords /\ q.id \in MandateIds /\ q.id \notin DOMAIN nodes
        /\ now \in Nat /\ mark.time \in Nat /\ mark.time <= now
    BY RequestsAssumption DEF RequestRecords, Insert, TypeOK, Accounted
  <1>2. n \in AnyNode /\ NodeInv(n, 0, b, 0, mark.time, now)
    BY <1>1, NodeBorn
  <1>3. /\ DOMAIN nodes' = DOMAIN nodes \cup {q.id} /\ nodes'[q.id] = n
        /\ \A m \in DOMAIN nodes : nodes'[m] = nodes[m]
    BY <1>1 DEF Insert, with_node
  <1>4. born' = [born EXCEPT ![q.id] = b] /\ UNCHANGED <<now, drawn, mark>>
    BY DEF Insert
  <1>5. insert_ok(nodes, n)
    BY DEF Insert
  <1>6. n.buffer \in Nat
    BY <1>2 DEF AnyNode, Nodes
  <1> HIDE DEF n
  <1>7. TypeOK'
    BY <1>1, <1>2, <1>3, <1>4, <1>6 DEF TypeOK, Tree, AnyNode
  <1>8. ParentsNarrow'
    BY <1>1, <1>3, <1>5 DEF ParentsNarrow, insert_ok
  <1>9. Accounted'
    <2>1. drawn[q.id] = 0 /\ mark.drawn[q.id] = 0
      BY <1>1 DEF Unborn
    <2>2. born'[q.id] = b /\ \A m \in DOMAIN nodes : born'[m] = born[m]
      BY <1>1, <1>4 DEF TypeOK, Tree
    <2> HIDE DEF b
    <2>3. QED
      BY <1>1, <1>2, <1>3, <1>4, <2>1, <2>2 DEF Accounted
  <1>10. Unborn'
    BY <1>3, <1>4 DEF Unborn
  <1>11. QED
    BY <1>7, <1>8, <1>9, <1>10

\* revoke touches one flag, which no bound reads.
LEMMA RevokeTree ==
  ASSUME TreeInv, NEW id \in MandateIds, Revoke(id)
  PROVE  TreeInv'
  <1> USE DEF TreeInv
  <1>1. /\ DOMAIN nodes' = DOMAIN nodes /\ UNCHANGED <<now, drawn, born, mark>>
        /\ \A m \in DOMAIN nodes :
              nodes'[m] = IF m = id THEN [nodes[m] EXCEPT !.revoked = TRUE] ELSE nodes[m]
    BY DEF Revoke, with_revoked
  <1>2. \A m \in DOMAIN nodes : nodes[m] \in AnyNode
    BY DEF TypeOK, Tree, AnyNode
  <1>3. \A m \in DOMAIN nodes :
          /\ nodes'[m] \in AnyNode
          /\ nodes'[m].parent = nodes[m].parent /\ nodes'[m].expiry = nodes[m].expiry
          /\ nodes'[m].per_tx_max = nodes[m].per_tx_max
          /\ nodes'[m].rate_per_sec = nodes[m].rate_per_sec
          /\ nodes'[m].buffer_max = nodes[m].buffer_max /\ nodes'[m].buffer = nodes[m].buffer
          /\ nodes'[m].last_accrual = nodes[m].last_accrual
    <2>1. ASSUME NEW n \in AnyNode
          PROVE  LET k == [n EXCEPT !.revoked = TRUE] IN
                 /\ k \in AnyNode
                 /\ k.parent = n.parent /\ k.expiry = n.expiry /\ k.per_tx_max = n.per_tx_max
                 /\ k.rate_per_sec = n.rate_per_sec /\ k.buffer_max = n.buffer_max
                 /\ k.buffer = n.buffer /\ k.last_accrual = n.last_accrual
      BY DEF AnyNode, Nodes
    <2> SUFFICES ASSUME NEW m \in DOMAIN nodes
                 PROVE  /\ nodes'[m] \in AnyNode
                        /\ nodes'[m].parent = nodes[m].parent
                        /\ nodes'[m].expiry = nodes[m].expiry
                        /\ nodes'[m].per_tx_max = nodes[m].per_tx_max
                        /\ nodes'[m].rate_per_sec = nodes[m].rate_per_sec
                        /\ nodes'[m].buffer_max = nodes[m].buffer_max
                        /\ nodes'[m].buffer = nodes[m].buffer
                        /\ nodes'[m].last_accrual = nodes[m].last_accrual
      OBVIOUS
    <2>2. nodes[m] \in AnyNode
      BY <1>2
    <2>3. CASE m = id
      <3>1. nodes'[m] = [nodes[m] EXCEPT !.revoked = TRUE]
        BY <1>1, <2>3
      <3>2. QED
        BY <2>1, <2>2, <3>1
    <2>4. CASE m # id
      BY <1>1, <2>2, <2>4
    <2>5. QED
      BY <2>3, <2>4
  <1>4. TypeOK'
    BY <1>1, <1>3 DEF TypeOK, Tree, AnyNode
  <1>5. ParentsNarrow'
    BY <1>1, <1>3 DEF ParentsNarrow
  <1>6. Accounted'
    BY <1>1, <1>3 DEF Accounted, NodeInv, projected
  <1>7. Unborn'
    BY <1>1 DEF Unborn
  <1>8. QED
    BY <1>4, <1>5, <1>6, <1>7

\* spend: each node of the chain pays what check saw in its buffer.
LEMMA SpendTree ==
  ASSUME TreeInv, NEW leaf \in MandateIds, NEW a \in Amounts, Spend(leaf, a)
  PROVE  TreeInv'
  <1> DEFINE C == chain_of(nodes, leaf)
  <1> USE DEF TreeInv
  <1>1. /\ a \in Nat /\ C \subseteq DOMAIN nodes /\ DOMAIN nodes \subseteq MandateIds
        /\ now \in Nat /\ mark.time \in Nat /\ mark.time <= now
    BY AmountsAssumption DEF TypeOK, Tree, Accounted, chain_of
  <1>2. /\ DOMAIN nodes' = DOMAIN nodes /\ UNCHANGED <<now, born, mark>>
        /\ \A m \in DOMAIN nodes :
              nodes'[m] = IF m \in C THEN pay(nodes[m], a, now) ELSE nodes[m]
        /\ drawn' = [m \in MandateIds |-> IF m \in C THEN drawn[m] + a ELSE drawn[m]]
    BY DEF Spend, spend
  <1>3. \A m \in C : a <= projected(nodes[m], now)
    BY DEF Spend, check
  <1>4. \A m \in DOMAIN nodes :
          /\ nodes[m] \in AnyNode /\ drawn[m] \in Nat /\ born[m] \in Births
          /\ mark.drawn[m] \in Nat
          /\ NodeInv(nodes[m], drawn[m], born[m], mark.drawn[m], mark.time, now)
    BY <1>1 DEF TypeOK, Tree, Accounted, AnyNode, Births
  <1> HIDE DEF C
  <1>5. \A m \in C : LET k == pay(nodes[m], a, now) IN
          /\ k \in AnyNode /\ k.parent = nodes[m].parent
          /\ k.expiry = nodes[m].expiry /\ k.per_tx_max = nodes[m].per_tx_max
    BY <1>1, <1>3, <1>4, PayEffect DEF NodeInv
  <1>6. \A m \in DOMAIN nodes :
          /\ nodes'[m] \in AnyNode /\ nodes'[m].parent = nodes[m].parent
          /\ nodes'[m].expiry = nodes[m].expiry
          /\ nodes'[m].per_tx_max = nodes[m].per_tx_max
    BY <1>2, <1>4, <1>5
  <1>7. \A m \in MandateIds : drawn[m] \in Nat
    BY DEF TypeOK
  <1>8. TypeOK'
    BY <1>1, <1>2, <1>6, <1>7 DEF TypeOK, Tree, AnyNode
  <1>9. ParentsNarrow'
    BY <1>2, <1>6 DEF ParentsNarrow
  <1>10. Accounted'
    <2>1. ASSUME NEW m \in DOMAIN nodes
          PROVE  NodeInv(nodes'[m], drawn'[m], born[m], mark.drawn[m], mark.time, now)
      <3>1. CASE m \in C
        <4>1. drawn'[m] = drawn[m] + a /\ nodes'[m] = pay(nodes[m], a, now)
          BY <1>1, <1>2, <3>1
        <4>2. QED
          BY <1>1, <1>3, <1>4, <3>1, <4>1, NodePays
      <3>2. CASE m \notin C
        BY <1>1, <1>2, <1>4, <3>2
      <3>3. QED
        BY <3>1, <3>2
    <2>2. QED
      BY <1>1, <1>2, <2>1 DEF Accounted
  <1>11. Unborn'
    BY <1>1, <1>2 DEF Unborn
  <1>12. QED
    BY <1>8, <1>9, <1>10, <1>11

\* Waiting adds at most the drip; watching restarts the window.
LEMMA TickTree ==
  ASSUME TreeInv, NEW dt \in 1..MaxTime, Tick(dt)
  PROVE  TreeInv'
  <1> USE DEF TreeInv
  <1>1. /\ now \in Nat /\ now' \in Nat /\ now <= now' /\ mark.time \in Nat /\ mark.time <= now
        /\ UNCHANGED <<nodes, drawn, born, mark>>
    BY TimeAssumption DEF Tick, TypeOK, Accounted
  <1>2. \A m \in DOMAIN nodes :
          /\ nodes[m] \in AnyNode /\ drawn[m] \in Nat /\ born[m] \in Births
          /\ mark.drawn[m] \in Nat
          /\ NodeInv(nodes[m], drawn[m], born[m], mark.drawn[m], mark.time, now)
    BY DEF TypeOK, Tree, Accounted, AnyNode, Births
  <1>3. \A m \in DOMAIN nodes :
          NodeInv(nodes[m], drawn[m], born[m], mark.drawn[m], mark.time, now')
    BY <1>1, <1>2, NodeWaits
  <1>4. Accounted'
    BY <1>1, <1>3 DEF Accounted
  <1>5. TypeOK' /\ ParentsNarrow' /\ Unborn'
    BY <1>1 DEF TypeOK, Tree, ParentsNarrow, Unborn
  <1>6. QED
    BY <1>4, <1>5

\* Choosing the instant to watch from changes no node.
LEMMA ObserveTree ==
  ASSUME TreeInv, Observe
  PROVE  TreeInv'
  <1> USE DEF TreeInv
  <1>1. /\ now \in Nat /\ mark.time \in Nat /\ mark' = [time |-> now, drawn |-> drawn]
        /\ UNCHANGED <<nodes, now, drawn, born>>
    BY DEF Observe, TypeOK
  <1>2. \A m \in DOMAIN nodes :
          /\ nodes[m] \in AnyNode /\ drawn[m] \in Nat /\ born[m] \in Births
          /\ mark.drawn[m] \in Nat
          /\ NodeInv(nodes[m], drawn[m], born[m], mark.drawn[m], mark.time, now)
    BY DEF TypeOK, Tree, Accounted, AnyNode, Births
  <1>3. \A m \in DOMAIN nodes : NodeInv(nodes[m], drawn[m], born[m], drawn[m], now, now)
    BY <1>1, <1>2, NodeWatched
  <1>4. Accounted'
    BY <1>1, <1>3 DEF Accounted
  <1>5. TypeOK' /\ ParentsNarrow' /\ Unborn'
    BY <1>1 DEF TypeOK, Tree, ParentsNarrow, Unborn
  <1>6. QED
    BY <1>4, <1>5

\* Every operation of the tree keeps it.
LEMMA StepTree == TreeInv /\ [Next]_vars => TreeInv'
  <1> SUFFICES ASSUME TreeInv, [Next]_vars PROVE TreeInv'
    OBVIOUS
  <1>1. CASE UNCHANGED vars
    BY <1>1 DEF vars, TreeInv, TypeOK, Tree, ParentsNarrow, Accounted, Unborn
  <1>2. CASE Next
    BY <1>2, InsertTree, RevokeTree, SpendTree, TickTree, ObserveTree DEF Next
  <1>3. QED
    BY <1>1, <1>2

\* The inductive invariant holds in every reachable state of the tree.
THEOREM TreeInvariant == Spec => []TreeInv
  BY InitTree, StepTree, PTL DEF Spec

-----------------------------------------------------------------------------
(* What the state machine relies on                                        *)

\* The tree always holds well-formed nodes: in particular no buffer goes
\* below zero, which is the `n.buffer -= amount' of spend not underflowing.
THEOREM TreeTypeOK == Spec => []TypeOK
  BY TreeInvariant, PTL DEF TreeInv

\* Drip, not reset: a node and its subtree never draw more than the opening
\* buffer plus the drip since it was created (accrue, check and spend).
THEOREM TreeEnvelopeBound == Spec => []EnvelopeBound
  <1>1. TreeInv => EnvelopeBound
    <2> SUFFICES ASSUME TreeInv, NEW m \in DOMAIN nodes
                 PROVE  drawn[m] + projected(nodes[m], now)
                           <= born[m].buffer + nodes[m].rate_per_sec * (now - born[m].time)
      BY DEF EnvelopeBound
    <2> DEFINE n == nodes[m]
               r == n.rate_per_sec
               x == n.last_accrual - born[m].time
               y == now - n.last_accrual
    <2>1. n \in AnyNode /\ now \in Nat /\ drawn[m] \in Nat /\ born[m] \in Births
      BY DEF TreeInv, TypeOK, Tree, AnyNode, Births
    <2>2. /\ born[m].time <= n.last_accrual /\ n.last_accrual <= now
          /\ drawn[m] + n.buffer <= born[m].buffer + r * x
      BY DEF TreeInv, Accounted, NodeInv
    <2>3. projected(n, now) \in Nat /\ projected(n, now) <= n.buffer + r * y
      BY <2>1, <2>2, ProjectedBounds
    <2>4. x \in Nat /\ y \in Nat /\ r \in Nat /\ now - born[m].time = x + y
      BY <2>1, <2>2 DEF AnyNode, Nodes, Births
    <2>5. r * (x + y) = r * x + r * y /\ r * x \in Nat /\ r * y \in Nat
      BY <2>4, RateDistributes
    <2>6. n.buffer \in Nat /\ born[m].buffer \in Nat
      BY <2>1 DEF AnyNode, Nodes, Births
    <2> HIDE DEF n, r, x, y
    <2>7. drawn[m] + projected(n, now) <= born[m].buffer + r * (x + y)
      BY <2>1, <2>2, <2>3, <2>5, <2>6
    <2>8. QED
      BY <2>4, <2>7 DEF n, r
  <1>2. QED
    BY <1>1, TreeInvariant, PTL

\* Token bucket: from any instant on, a node and its subtree draw at most one
\* full buffer plus the drip since then (accrue, check and spend).
THEOREM TreeWindowBound == Spec => []WindowBound
  <1>1. TreeInv => WindowBound
    <2> SUFFICES ASSUME TreeInv, NEW m \in DOMAIN nodes
                 PROVE  drawn[m] - mark.drawn[m]
                           <= nodes[m].buffer_max + nodes[m].rate_per_sec * (now - mark.time)
      BY DEF WindowBound
    <2>1. /\ nodes[m] \in AnyNode /\ now \in Nat /\ drawn[m] \in Nat
          /\ mark.drawn[m] \in Nat /\ mark.time \in Nat
      BY DEF TreeInv, TypeOK, Tree, AnyNode
    <2>2. /\ mark.time <= now /\ nodes[m].last_accrual <= now
          /\ (drawn[m] - mark.drawn[m]) + projected(nodes[m], now)
                <= nodes[m].buffer_max + nodes[m].rate_per_sec * (now - mark.time)
      BY DEF TreeInv, Accounted, NodeInv
    <2>3. projected(nodes[m], now) \in Nat
      BY <2>1, <2>2, ProjectedBounds
    <2>4. nodes[m].rate_per_sec * (now - mark.time) \in Nat /\ nodes[m].buffer_max \in Nat
      <3>1. nodes[m].rate_per_sec \in Nat /\ now - mark.time \in Nat
        BY <2>1, <2>2 DEF AnyNode, Nodes
      <3>2. QED
        BY <2>1, <3>1, RateDistributes DEF AnyNode, Nodes
    <2>5. QED
      BY <2>1, <2>2, <2>3, <2>4
  <1>2. QED
    BY <1>1, TreeInvariant, PTL

\* Attenuation over whole chains: insert compares a child with its parent
\* only, and the nodes that are at least as permissive as the leaf form a
\* parent-closed set, which therefore holds the chain.
THEOREM TreeAttenuated == Spec => []Attenuated
  <1>1. TreeInv => Attenuated
    <2> SUFFICES ASSUME TreeInv, NEW m \in DOMAIN nodes
                 PROVE  \A a \in chain_of(nodes, m) :
                           /\ nodes[m].expiry <= nodes[a].expiry
                           /\ nodes[m].per_tx_max <= nodes[a].per_tx_max
      BY DEF Attenuated
    <2> DEFINE S == {a \in DOMAIN nodes : /\ nodes[m].expiry <= nodes[a].expiry
                                          /\ nodes[m].per_tx_max <= nodes[a].per_tx_max}
    <2>1. \A a \in DOMAIN nodes : nodes[a].expiry \in Nat /\ nodes[a].per_tx_max \in Nat
      BY DEF TreeInv, TypeOK, Tree, Nodes
    <2>2. m \in S /\ S \in SUBSET DOMAIN nodes
      BY <2>1
    <2>3. UpClosed(nodes, S)
      BY <2>1 DEF UpClosed, TreeInv, ParentsNarrow
    <2>4. chain_of(nodes, m) \subseteq S
      BY <2>2, <2>3, ChainInside
    <2>5. QED
      BY <2>4
  <1>2. QED
    BY <1>1, TreeInvariant, PTL

\* Cascade: every ancestor of a node that is drawn on is live, allows the
\* amount and pays it in the same step (check and spend walk one chain).
THEOREM TreeWholeChainPays == Spec => WholeChainPays
  <1> DEFINE Pays ==
        \A m \in DOMAIN nodes : drawn'[m] > drawn[m] =>
          \A a \in chain_of(nodes, m) :
              /\ ~nodes[a].revoked /\ now < nodes[a].expiry
              /\ drawn'[a] - drawn[a] = drawn'[m] - drawn[m]
              /\ drawn'[m] - drawn[m] <= nodes[a].per_tx_max
  <1>1. TreeInv /\ [Next]_vars => [Pays]_vars
    <2> SUFFICES ASSUME TreeInv, [Next]_vars PROVE Pays \/ UNCHANGED vars
      OBVIOUS
    <2>1. \A m \in DOMAIN nodes : m \in MandateIds /\ drawn[m] \in Nat
      BY DEF TreeInv, TypeOK, Tree
    <2>2. CASE drawn' = drawn
      BY <2>1, <2>2
    <2>3. ASSUME NEW leaf \in MandateIds, NEW x \in Amounts, Spend(leaf, x) PROVE Pays
      <3> DEFINE C == chain_of(nodes, leaf)
      <3>1. /\ x \in Nat /\ C \subseteq DOMAIN nodes
            /\ drawn' = [m \in MandateIds |-> IF m \in C THEN drawn[m] + x ELSE drawn[m]]
            /\ \A a \in C : ~nodes[a].revoked /\ now < nodes[a].expiry /\ x <= nodes[a].per_tx_max
        BY <2>3, AmountsAssumption DEF Spend, check, chain_of
      <3> SUFFICES ASSUME NEW m \in DOMAIN nodes, drawn'[m] > drawn[m],
                          NEW a \in chain_of(nodes, m)
                   PROVE  /\ ~nodes[a].revoked /\ now < nodes[a].expiry
                          /\ drawn'[a] - drawn[a] = drawn'[m] - drawn[m]
                          /\ drawn'[m] - drawn[m] <= nodes[a].per_tx_max
        OBVIOUS
      <3> HIDE DEF C
      <3>2. m \in C /\ drawn'[m] = drawn[m] + x
        BY <2>1, <3>1
      <3>3. a \in C
        BY <3>2, ChainOfAncestor DEF C
      <3>4. a \in DOMAIN nodes /\ drawn'[a] = drawn[a] + x
        BY <2>1, <3>1, <3>3
      <3>5. drawn'[a] - drawn[a] = x /\ drawn'[m] - drawn[m] = x
        BY <2>1, <3>1, <3>2, <3>4
      <3>6. QED
        BY <3>1, <3>3, <3>5
    <2>4. QED
      BY <2>2, <2>3 DEF Next, vars, Insert, Revoke, Tick, Observe
  <1>2. QED
    BY <1>1, TreeInvariant, PTL DEF Spec, WholeChainPays

-----------------------------------------------------------------------------
(* Roots                                                                   *)

\* r is the one root on the chain of m.
IsRootOf(t, m, r) ==
    /\ r \in chain_of(t, m) /\ t[r].parent = NoParent
    /\ \A x \in chain_of(t, m) : t[x].parent = NoParent => x = r

\* The walk from any node ends in exactly one root: whoever is asked to pay
\* for a spend is well defined.
OneRoot == \A m \in DOMAIN nodes : \E r \in DOMAIN nodes : IsRootOf(nodes, m, r)

\* A new node takes its parent's root, or is one.
LEMMA InsertKeepsRoots ==
  ASSUME TreeInv, OneRoot, NEW q \in Requests, Insert(q)
  PROVE  OneRoot'
  <1> DEFINE n == new_node(q, now)
  <1>1. /\ q.id \notin DOMAIN nodes /\ DOMAIN nodes' = DOMAIN nodes \cup {q.id}
        /\ nodes'[q.id] = n /\ \A m \in DOMAIN nodes : nodes'[m] = nodes[m]
    BY DEF Insert, with_node
  <1>2. insert_ok(nodes, n)
    BY DEF Insert
  <1> HIDE DEF n
  <1>3. Linked(nodes) /\ (n.parent # NoParent => n.parent \in DOMAIN nodes)
    BY <1>2 DEF TreeInv, ParentsNarrow, Linked, insert_ok
  <1>4. ASSUME NEW m \in DOMAIN nodes
        PROVE  chain_of(nodes', m) = chain_of(nodes, m)
    BY <1>1, <1>3, ChainBelowNew
  <1>5. chain_of(nodes', q.id) = {q.id} \cup (IF n.parent = NoParent THEN {}
                                              ELSE chain_of(nodes, n.parent))
    BY <1>1, <1>3, ChainOfNew
  <1>6. \A m \in DOMAIN nodes : chain_of(nodes, m) \subseteq DOMAIN nodes
    BY DEF chain_of
  <1>7. ASSUME NEW m \in DOMAIN nodes PROVE \E r \in DOMAIN nodes : IsRootOf(nodes', m, r)
    <2>1. PICK r \in DOMAIN nodes : IsRootOf(nodes, m, r)
      BY DEF OneRoot
    <2>2. IsRootOf(nodes', m, r)
      BY <1>1, <1>4, <1>6, <2>1 DEF IsRootOf
    <2>3. QED
      BY <2>2
  <1>8. \E r \in DOMAIN nodes' : IsRootOf(nodes', q.id, r)
    <2>1. CASE n.parent = NoParent
      <3>1. IsRootOf(nodes', q.id, q.id)
        BY <1>1, <1>5, <2>1 DEF IsRootOf
      <3>2. QED
        BY <1>1, <3>1
    <2>2. CASE n.parent # NoParent
      <3>1. PICK r \in DOMAIN nodes : IsRootOf(nodes, n.parent, r)
        BY <1>3, <2>2 DEF OneRoot
      <3>2. IsRootOf(nodes', q.id, r)
        BY <1>1, <1>3, <1>5, <1>6, <2>2, <3>1 DEF IsRootOf
      <3>3. QED
        BY <1>1, <3>2
    <2>3. QED
      BY <2>1, <2>2
  <1>9. QED
    BY <1>1, <1>7, <1>8 DEF OneRoot

\* Payment and revocation change no parent, so no root.
LEMMA SameParentsKeepRoots ==
  ASSUME OneRoot, DOMAIN nodes' = DOMAIN nodes,
         \A m \in DOMAIN nodes : nodes'[m].parent = nodes[m].parent
  PROVE  OneRoot'
  <1>1. \A m : chain_of(nodes', m) = chain_of(nodes, m)
    BY SameParentsSameChain
  <1>2. \A m, r : IsRootOf(nodes, m, r) => IsRootOf(nodes', m, r)
    BY <1>1 DEF IsRootOf, chain_of
  <1>3. QED
    BY <1>2 DEF OneRoot

\* Every spend has exactly one root to be funded by (chain_of and root_of in
\* the state machine): no insertion merges, cuts or closes a chain.
THEOREM TreeOneRoot == Spec => []OneRoot
  <1>1. Init => OneRoot
    BY DEF Init, OneRoot
  <1>2. TreeInv /\ OneRoot /\ [Next]_vars => OneRoot'
    <2> SUFFICES ASSUME TreeInv, OneRoot, [Next]_vars PROVE OneRoot'
      OBVIOUS
    <2>1. CASE UNCHANGED nodes
      BY <2>1, SameParentsKeepRoots
    <2>2. ASSUME NEW id \in MandateIds, Revoke(id) PROVE OneRoot'
      <3>1. /\ DOMAIN nodes' = DOMAIN nodes
            /\ \A m \in DOMAIN nodes :
                  nodes'[m] = IF m = id THEN [nodes[m] EXCEPT !.revoked = TRUE] ELSE nodes[m]
        BY <2>2 DEF Revoke, with_revoked
      <3>2. \A m \in DOMAIN nodes : nodes[m] \in Nodes(Accounts, Assets)
        BY DEF TreeInv, TypeOK, Tree
      <3>3. \A m \in DOMAIN nodes : nodes'[m].parent = nodes[m].parent
        BY <3>1, <3>2 DEF Nodes
      <3>4. QED
        BY <3>1, <3>3, SameParentsKeepRoots
    <2>3. ASSUME NEW leaf \in MandateIds, NEW a \in Amounts, Spend(leaf, a) PROVE OneRoot'
      <3> DEFINE C == chain_of(nodes, leaf)
      <3>1. /\ DOMAIN nodes' = DOMAIN nodes
            /\ \A m \in DOMAIN nodes :
                  nodes'[m] = IF m \in C THEN pay(nodes[m], a, now) ELSE nodes[m]
        BY <2>3 DEF Spend, spend
      <3>2. \A m \in DOMAIN nodes : nodes[m] \in AnyNode
        BY DEF TreeInv, TypeOK, Tree, AnyNode
      <3>3. \A k \in AnyNode : pay(k, a, now).parent = k.parent
        BY DEF pay, accrue, AnyNode, Nodes
      <3> HIDE DEF C
      <3>4. \A m \in DOMAIN nodes : nodes'[m].parent = nodes[m].parent
        BY <3>1, <3>2, <3>3
      <3>5. QED
        BY <3>1, <3>4, SameParentsKeepRoots
    <2>4. QED
      BY <2>1, <2>2, <2>3, InsertKeepsRoots DEF Next, vars, Tick, Observe
  <1>3. QED
    BY <1>1, <1>2, TreeInvariant, PTL DEF Spec

-----------------------------------------------------------------------------
(* Authority only narrows                                                  *)

\* Every node keeps its chain and its terms; it can only become revoked.
KeepsTerms ==
    \A m \in DOMAIN nodes :
        /\ m \in DOMAIN nodes' /\ chain_of(nodes', m) = chain_of(nodes, m)
        /\ nodes'[m].expiry = nodes[m].expiry /\ nodes'[m].per_tx_max = nodes[m].per_tx_max
        /\ nodes[m].revoked => nodes'[m].revoked

\* A step that keeps ids, parents and terms.
LEMMA SameTerms ==
  ASSUME DOMAIN nodes' = DOMAIN nodes,
         \A m \in DOMAIN nodes :
            /\ nodes'[m].parent = nodes[m].parent /\ nodes'[m].expiry = nodes[m].expiry
            /\ nodes'[m].per_tx_max = nodes[m].per_tx_max
            /\ nodes[m].revoked => nodes'[m].revoked
  PROVE  KeepsTerms
  <1>1. \A m : chain_of(nodes', m) = chain_of(nodes, m)
    BY SameParentsSameChain
  <1>2. QED
    BY <1>1 DEF KeepsTerms

\* Inserting, revoking and paying all keep them.
LEMMA StepKeepsTerms == TreeInv /\ [Next]_vars => KeepsTerms /\ now' >= now /\ now' \in Nat
  <1> SUFFICES ASSUME TreeInv, [Next]_vars PROVE KeepsTerms /\ now' >= now /\ now' \in Nat
    OBVIOUS
  <1>1. now' >= now /\ now' \in Nat
    <2>1. now' = now \/ \E dt \in 1..MaxTime : Tick(dt)
      BY DEF Next, vars, Insert, Revoke, Spend, Observe
    <2>2. now \in Nat
      BY DEF TreeInv, TypeOK
    <2>3. QED
      BY <2>1, <2>2, TimeAssumption DEF Tick
  <1>2. CASE UNCHANGED nodes
    BY <1>1, <1>2, SameTerms
  <1>3. ASSUME NEW q \in Requests, Insert(q) PROVE KeepsTerms
    <2>1. /\ q.id \notin DOMAIN nodes /\ DOMAIN nodes' = DOMAIN nodes \cup {q.id}
          /\ \A m \in DOMAIN nodes : nodes'[m] = nodes[m]
      BY <1>3 DEF Insert, with_node
    <2>2. Linked(nodes)
      BY DEF TreeInv, ParentsNarrow, Linked
    <2>3. ASSUME NEW m \in DOMAIN nodes PROVE chain_of(nodes', m) = chain_of(nodes, m)
      BY <2>1, <2>2, ChainBelowNew
    <2>4. QED
      BY <2>1, <2>3 DEF KeepsTerms
  <1>4. ASSUME NEW id \in MandateIds, Revoke(id) PROVE KeepsTerms
    <2>1. /\ DOMAIN nodes' = DOMAIN nodes
          /\ \A m \in DOMAIN nodes :
                nodes'[m] = IF m = id THEN [nodes[m] EXCEPT !.revoked = TRUE] ELSE nodes[m]
      BY <1>4 DEF Revoke, with_revoked
    <2>2. \A m \in DOMAIN nodes : nodes[m] \in Nodes(Accounts, Assets)
      BY DEF TreeInv, TypeOK, Tree
    <2>3. ASSUME NEW m \in DOMAIN nodes
          PROVE  /\ nodes'[m].parent = nodes[m].parent /\ nodes'[m].expiry = nodes[m].expiry
                 /\ nodes'[m].per_tx_max = nodes[m].per_tx_max
                 /\ nodes[m].revoked => nodes'[m].revoked
      BY <2>1, <2>2 DEF Nodes
    <2>4. QED
      BY <2>1, <2>3, SameTerms
  <1>5. ASSUME NEW leaf \in MandateIds, NEW a \in Amounts, Spend(leaf, a) PROVE KeepsTerms
    <2> DEFINE C == chain_of(nodes, leaf)
    <2>1. /\ DOMAIN nodes' = DOMAIN nodes
          /\ \A m \in DOMAIN nodes :
                nodes'[m] = IF m \in C THEN pay(nodes[m], a, now) ELSE nodes[m]
      BY <1>5 DEF Spend, spend
    <2>2. \A m \in DOMAIN nodes : nodes[m] \in AnyNode
      BY DEF TreeInv, TypeOK, Tree, AnyNode
    <2>3. \A k \in AnyNode : LET n == pay(k, a, now) IN
             /\ n.parent = k.parent /\ n.expiry = k.expiry /\ n.per_tx_max = k.per_tx_max
             /\ n.revoked = k.revoked
      BY DEF pay, accrue, AnyNode, Nodes
    <2> HIDE DEF C
    <2>4. ASSUME NEW m \in DOMAIN nodes
          PROVE  /\ nodes'[m].parent = nodes[m].parent /\ nodes'[m].expiry = nodes[m].expiry
                 /\ nodes'[m].per_tx_max = nodes[m].per_tx_max
                 /\ nodes[m].revoked => nodes'[m].revoked
      BY <2>1, <2>2, <2>3
    <2>5. QED
      BY <2>1, <2>4, SameTerms
  <1>6. QED
    BY <1>1, <1>2, <1>3, <1>4, <1>5 DEF Next, vars, Tick, Observe

\* No sequence of calls revives a dead mandate or lifts a cap of its chain
\* (insert refuses a taken id; revoke is one-way; spend touches buffers only).
THEOREM TreeNeverWidened == Spec => NeverWidened
  <1> DEFINE Narrow ==
        \A m \in DOMAIN nodes :
          /\ ~available_ok(nodes, m, now) => ~available_ok(nodes', m, now')
          /\ \A x \in Amounts :
                (\E a \in chain_of(nodes, m) : nodes[a].per_tx_max < x)
                   => \E a \in chain_of(nodes', m) : nodes'[a].per_tx_max < x
  <1>1. TreeInv /\ [Next]_vars => [Narrow]_vars
    <2> SUFFICES ASSUME TreeInv, [Next]_vars, NEW m \in DOMAIN nodes
                 PROVE  /\ available_ok(nodes', m, now') => available_ok(nodes, m, now)
                        /\ \A x \in Amounts :
                              (\E a \in chain_of(nodes, m) : nodes[a].per_tx_max < x)
                                 => \E a \in chain_of(nodes', m) : nodes'[a].per_tx_max < x
      OBVIOUS
    <2>1. KeepsTerms /\ now' >= now /\ now \in Nat /\ now' \in Nat
      BY StepKeepsTerms DEF TreeInv, TypeOK
    <2>2. chain_of(nodes', m) = chain_of(nodes, m) /\ chain_of(nodes, m) \subseteq DOMAIN nodes
      BY <2>1 DEF KeepsTerms, chain_of
    <2>3. \A a \in DOMAIN nodes : nodes[a].expiry \in Nat
      BY DEF TreeInv, TypeOK, Tree, Nodes
    <2>4. ASSUME available_ok(nodes', m, now') PROVE available_ok(nodes, m, now)
      <3>1. chain_ok(nodes, m)
        BY <2>2, <2>4 DEF available_ok, chain_ok
      <3>2. \A a \in chain_of(nodes, m) : ~nodes'[a].revoked /\ now' < nodes'[a].expiry
        BY <2>2, <2>4 DEF available_ok
      <3>3. \A a \in chain_of(nodes, m) : ~nodes[a].revoked /\ now < nodes[a].expiry
        BY <2>1, <2>2, <2>3, <3>2 DEF KeepsTerms
      <3>4. QED
        BY <3>1, <3>3 DEF available_ok
    <2>5. QED
      BY <2>1, <2>2, <2>4 DEF KeepsTerms
  <1>2. QED
    BY <1>1, TreeInvariant, PTL DEF Spec, NeverWidened

-----------------------------------------------------------------------------
(* What a wallet is told                                                   *)

\* A set of naturals that is not empty has a least element.
LEMMA LeastNatural ==
  ASSUME NEW S \in SUBSET Nat, S # {}
  PROVE  \E a \in S : \A b \in S : a <= b
  <1> DEFINE R == OpToRel(<, Nat)
  <1>1. PICK a \in S : \A b \in S : ~ (<<b, a>> \in R)
    BY NatLessThanWellFounded, WFMin
  <1>2. \A b \in Nat : b < a => <<b, a>> \in R
    BY DEF OpToRel
  <1> HIDE DEF R
  <1>3. ASSUME NEW b \in S PROVE a <= b
    <2>1. a \in Nat /\ b \in Nat /\ ~ (<<b, a>> \in R)
      BY <1>1
    <2>2. ~ (b < a)
      BY <1>2, <2>1
    <2>3. QED
      BY <2>1, <2>2
  <1>4. QED
    BY <1>3

\* available() is exact: an amount passes check() if and only if available()
\* does not fail and is at least that amount, however deep the chain is.
THEOREM TreeAvailableIsExact == Spec => []AvailableIsExact
  <1>1. TreeInv => AvailableIsExact
    <2> SUFFICES ASSUME TreeInv, NEW m \in DOMAIN nodes, NEW a \in Amounts
                 PROVE  check(nodes, m, a, now) <=>
                           available_ok(nodes, m, now) /\ a <= available(nodes, m, now)
      BY DEF AvailableIsExact
    <2> DEFINE C == chain_of(nodes, m)
               L == UNION {{projected(nodes[x], now), nodes[x].per_tx_max} : x \in C}
    <2>1. m \in C /\ C \subseteq DOMAIN nodes /\ a \in Nat
      BY LeafInChain, AmountsAssumption DEF chain_of
    <2>2. \A x \in C : projected(nodes[x], now) \in Nat /\ nodes[x].per_tx_max \in Nat
      <3>1. \A x \in C : nodes[x] \in AnyNode /\ now \in Nat /\ nodes[x].last_accrual <= now
        BY <2>1 DEF TreeInv, TypeOK, Tree, Accounted, NodeInv, AnyNode
      <3>2. \A n \in AnyNode : n.per_tx_max \in Nat
        BY DEF AnyNode, Nodes
      <3> HIDE DEF C
      <3>3. QED
        BY <3>1, <3>2, ProjectedBounds
    <2>3. \A x \in C : projected(nodes[x], now) \in L /\ nodes[x].per_tx_max \in L
      OBVIOUS
    <2>4. \A b \in L : \E x \in C : b \in {projected(nodes[x], now), nodes[x].per_tx_max}
      OBVIOUS
    <2> HIDE DEF C
    <2>5. available(nodes, m, now) = CHOOSE b \in L : \A c \in L : b <= c
      BY DEF available, C
    <2> HIDE DEF L
    <2>6. L \in SUBSET Nat /\ L # {}
      BY <2>1, <2>2, <2>3, <2>4
    <2>7. /\ available(nodes, m, now) \in L
          /\ \A c \in L : available(nodes, m, now) <= c
      BY <2>5, <2>6, LeastNatural
    <2>8. (\A x \in C : a <= nodes[x].per_tx_max /\ a <= projected(nodes[x], now))
             <=> a <= available(nodes, m, now)
      <3>1. available(nodes, m, now) \in Nat
        BY <2>6, <2>7
      <3>2. ASSUME a <= available(nodes, m, now), NEW x \in C
            PROVE  a <= nodes[x].per_tx_max /\ a <= projected(nodes[x], now)
        BY <2>1, <2>2, <2>3, <2>7, <3>1, <3>2
      <3>3. ASSUME \A x \in C : a <= nodes[x].per_tx_max /\ a <= projected(nodes[x], now)
            PROVE  a <= available(nodes, m, now)
        BY <2>4, <2>7, <3>3
      <3>4. QED
        BY <3>2, <3>3
    <2>9. QED
      BY <2>8 DEF check, available_ok, C
  <1>2. QED
    BY <1>1, TreeInvariant, PTL

=============================================================================
