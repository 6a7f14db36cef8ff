----------------------------- MODULE SumProofs ------------------------------
(***************************************************************************)
(* What SumOf (Sums.tla) computes, for every finite set: the sum is taken  *)
(* one element at a time, in any order.  The induction goes by a smallest  *)
(* counterexample among the subsets of a finite set, which needs no        *)
(* operator parameter.                                                     *)
(***************************************************************************)
EXTENDS Sums, FiniteSetTheorems, TLAPS

\* Among the subsets of a finite set, any nonempty collection has a minimal
\* member: the induction principle of this module.
LEMMA MinimalSubset ==
  ASSUME NEW S, IsFiniteSet(S), NEW W \in SUBSET (SUBSET S), W # {}
  PROVE  \E m \in W : \A t \in W : t \subseteq m => t = m
  <1>1. IsWellFoundedOn(StrictSubsetOrdering(S), SUBSET S)
    BY FS_StrictSubsetOrderingWellFounded, FS_FiniteSubsetsOfFinite
  <1>2. \E x \in W : \A y \in W : ~ (<<y, x>> \in StrictSubsetOrdering(S))
    BY <1>1, WFMin
  <1>3. QED
    BY <1>2 DEF StrictSubsetOrdering

-----------------------------------------------------------------------------
(* The recursive function behind SumOf                                     *)

\* The element the fold takes next.
pick(s) == CHOOSE x \in s : TRUE

\* g is the fold of f on the sets in D.
IsFoldOf(g, f, D) == g = [s \in D |-> IF s = {} THEN 0 ELSE f[pick(s)] + g[s \ {pick(s)}]]

\* The subsets of S with at most n elements.
UpTo(S, n) == {s \in SUBSET S : Cardinality(s) <= n}

\* The fold that defines the sum, on the subsets of its set.
LEMMA SumUnfolds ==
  ASSUME NEW f, NEW S
  PROVE  SumOf(f, S) = (CHOOSE g : IsFoldOf(g, f, SUBSET S))[S]
  BY DEF SumOf, MapThenSumSet, MapThenFoldSet, IsFoldOf, pick

\* The element the fold takes next belongs to the set.
LEMMA PickInSet ==
  ASSUME NEW s, s # {}
  PROVE  pick(s) \in s
  BY DEF pick

\* The fold of small sets extends to sets with one element more.
LEMMA FoldExtends ==
  ASSUME NEW f, NEW S, IsFiniteSet(S), NEW n \in Nat, NEW g, IsFoldOf(g, f, UpTo(S, n))
  PROVE  \E h : IsFoldOf(h, f, UpTo(S, n + 1))
  <1> DEFINE h == [s \in UpTo(S, n + 1) |->
                      IF s = {} THEN 0 ELSE f[pick(s)] + g[s \ {pick(s)}]]
  <1>1. ASSUME NEW s \in UpTo(S, n + 1), s # {}
        PROVE  s \ {pick(s)} \in UpTo(S, n)
    <2>1. IsFiniteSet(s) /\ s \in SUBSET S /\ Cardinality(s) <= n + 1
      BY FS_Subset DEF UpTo
    <2>2. pick(s) \in s
      BY <1>1, PickInSet
    <2>3. Cardinality(s) \in Nat /\ Cardinality(s \ {pick(s)}) = Cardinality(s) - 1
      BY <2>1, <2>2, FS_RemoveElement, FS_CardinalityType
    <2>4. QED
      BY <2>1, <2>3 DEF UpTo
  <1>2. UpTo(S, n) \subseteq UpTo(S, n + 1)
    <2>1. \A s \in SUBSET S : Cardinality(s) \in Nat
      BY FS_Subset, FS_CardinalityType
    <2>2. QED
      BY <2>1 DEF UpTo
  <1>3. \A t \in UpTo(S, n) : h[t] = g[t]
    BY <1>2 DEF IsFoldOf
  <1>4. h = [s \in UpTo(S, n + 1) |->
                IF s = {} THEN 0 ELSE f[pick(s)] + h[s \ {pick(s)}]]
    BY <1>1, <1>3
  <1> HIDE DEF h
  <1>5. QED
    BY <1>4 DEF IsFoldOf

\* So it exists on all subsets of a finite set.
LEMMA FoldExists ==
  ASSUME NEW f, NEW S, IsFiniteSet(S)
  PROVE  \E g : IsFoldOf(g, f, SUBSET S)
  <1> DEFINE W == {s \in SUBSET S : ~ \E g : IsFoldOf(g, f, UpTo(S, Cardinality(s)))}
  <1>1. \A s \in SUBSET S :
           IsFiniteSet(s) /\ Cardinality(s) \in Nat /\ Cardinality(s) <= Cardinality(S)
    BY FS_Subset, FS_CardinalityType
  <1>2. UpTo(S, Cardinality(S)) = SUBSET S
    BY <1>1 DEF UpTo
  <1>3. SUFFICES W = {}
    <2>1. ASSUME W = {} PROVE \E g : IsFoldOf(g, f, SUBSET S)
      <3>1. S \in SUBSET S /\ S \notin W
        BY <2>1
      <3>2. \E g : IsFoldOf(g, f, UpTo(S, Cardinality(S)))
        BY <3>1
      <3>3. QED
        BY <1>2, <3>2
    <2>2. QED
      BY <2>1
  <1>4. SUFFICES ASSUME W # {} PROVE FALSE
    OBVIOUS
  <1>5. PICK m \in W : \A t \in W : t \subseteq m => t = m
    <2>1. W \in SUBSET (SUBSET S)
      OBVIOUS
    <2> HIDE DEF W
    <2>2. QED
      BY <1>4, <2>1, MinimalSubset
  <1>6. m \in SUBSET S /\ ~ \E g : IsFoldOf(g, f, UpTo(S, Cardinality(m)))
    BY <1>5
  <1>7. CASE m = {}
    <2>1. Cardinality(m) = 0
      BY <1>7, FS_EmptySet
    <2>2. UpTo(S, 0) = {{}}
      BY <1>1, FS_EmptySet DEF UpTo
    <2>3. IsFoldOf([s \in {{}} |-> 0], f, UpTo(S, 0))
      BY <2>2 DEF IsFoldOf
    <2>4. QED
      BY <1>6, <2>1, <2>3
  <1>8. CASE m # {}
    <2> DEFINE t == m \ {pick(m)}
    <2>1. pick(m) \in m
      BY <1>8, PickInSet
    <2>2. t \in SUBSET S /\ t \subseteq m /\ t # m
      BY <1>6, <2>1
    <2>3. Cardinality(m) = Cardinality(t) + 1 /\ Cardinality(t) \in Nat
      BY <1>1, <1>6, <2>1, <2>2, FS_RemoveElement
    <2> HIDE DEF t
    <2>4. \E g : IsFoldOf(g, f, UpTo(S, Cardinality(t)))
      BY <1>5, <2>2
    <2>5. QED
      BY <1>6, <2>3, <2>4, FoldExtends
  <1>9. QED
    BY <1>7, <1>8

\* Two folds of functions that agree are equal wherever both are defined.
LEMMA FoldsAgree ==
  ASSUME NEW f, NEW e, NEW S, NEW T, IsFiniteSet(S), IsFiniteSet(T), NEW g, NEW h,
         IsFoldOf(g, f, SUBSET S), IsFoldOf(h, e, SUBSET T), S \subseteq T,
         \A x \in S : f[x] = e[x]
  PROVE  \A s \in SUBSET S : g[s] = h[s]
  <1> DEFINE W == {s \in SUBSET S : g[s] # h[s]}
  <1>1. SUFFICES ASSUME W # {} PROVE FALSE
    OBVIOUS
  <1>2. PICK m \in W : \A t \in W : t \subseteq m => t = m
    <2>1. W \in SUBSET (SUBSET S)
      OBVIOUS
    <2> HIDE DEF W
    <2>2. QED
      BY <1>1, <2>1, MinimalSubset
  <1>3. m \in SUBSET S /\ m \in SUBSET T /\ g[m] # h[m]
    BY <1>2
  <1>4. /\ g[m] = IF m = {} THEN 0 ELSE f[pick(m)] + g[m \ {pick(m)}]
        /\ h[m] = IF m = {} THEN 0 ELSE e[pick(m)] + h[m \ {pick(m)}]
    BY <1>3 DEF IsFoldOf
  <1>5. m # {} /\ pick(m) \in m
    BY <1>3, <1>4, PickInSet
  <1>6. m \ {pick(m)} \notin W
    BY <1>2, <1>5
  <1>7. g[m \ {pick(m)}] = h[m \ {pick(m)}]
    BY <1>3, <1>6
  <1>8. QED
    BY <1>3, <1>4, <1>5, <1>7

-----------------------------------------------------------------------------
(* SumOf                                                                   *)

\* The empty sum, and the first element the fold takes.
LEMMA SumStep ==
  ASSUME NEW f, NEW S, IsFiniteSet(S)
  PROVE  SumOf(f, S) = IF S = {} THEN 0 ELSE f[pick(S)] + SumOf(f, S \ {pick(S)})
  <1> DEFINE R == S \ {pick(S)}
             g == CHOOSE k : IsFoldOf(k, f, SUBSET S)
             h == CHOOSE k : IsFoldOf(k, f, SUBSET R)
  <1>1. IsFiniteSet(R)
    BY FS_Subset
  <1>2. IsFoldOf(g, f, SUBSET S) /\ IsFoldOf(h, f, SUBSET R)
    BY <1>1, FoldExists
  <1>3. SumOf(f, S) = g[S] /\ SumOf(f, R) = h[R]
    BY SumUnfolds
  <1> HIDE DEF g, h
  <1>4. g[S] = IF S = {} THEN 0 ELSE f[pick(S)] + g[R]
    BY <1>2 DEF IsFoldOf
  <1>5. h[R] = g[R]
    <2>1. R \subseteq S
      OBVIOUS
    <2> HIDE DEF R
    <2>2. QED
      BY <1>1, <1>2, <2>1, FoldsAgree
  <1>6. QED
    BY <1>3, <1>4, <1>5

\* The sum over nothing is zero.
LEMMA SumEmpty == \A f : SumOf(f, {}) = 0
  BY SumStep, FS_EmptySet

\* A sum of naturals is a natural number.
LEMMA SumNat ==
  ASSUME NEW f, NEW S, IsFiniteSet(S), \A x \in S : f[x] \in Nat
  PROVE  SumOf(f, S) \in Nat
  <1> DEFINE W == {s \in SUBSET S : SumOf(f, s) \notin Nat}
  <1>1. SUFFICES ASSUME W # {} PROVE FALSE
    OBVIOUS
  <1>2. PICK m \in W : \A t \in W : t \subseteq m => t = m
    <2>1. W \in SUBSET (SUBSET S)
      OBVIOUS
    <2> HIDE DEF W
    <2>2. QED
      BY <1>1, <2>1, MinimalSubset
  <1>3. m \in SUBSET S /\ SumOf(f, m) \notin Nat /\ IsFiniteSet(m)
    BY <1>2, FS_Subset
  <1>4. SumOf(f, m) = IF m = {} THEN 0 ELSE f[pick(m)] + SumOf(f, m \ {pick(m)})
    BY <1>3, SumStep
  <1>5. m # {} /\ pick(m) \in m
    BY <1>3, <1>4, PickInSet
  <1>6. SumOf(f, m \ {pick(m)}) \in Nat
    BY <1>2, <1>3, <1>5
  <1>7. QED
    BY <1>3, <1>4, <1>5, <1>6

\* Any element may be taken out first.
LEMMA SumRemove ==
  ASSUME NEW f, NEW S, IsFiniteSet(S), \A x \in S : f[x] \in Nat
  PROVE  \A x \in S : SumOf(f, S) = f[x] + SumOf(f, S \ {x})
  <1> DEFINE W == {s \in SUBSET S : \E x \in s : SumOf(f, s) # f[x] + SumOf(f, s \ {x})}
  <1>1. SUFFICES ASSUME W # {} PROVE FALSE
    OBVIOUS
  <1>2. PICK m \in W : \A t \in W : t \subseteq m => t = m
    <2>1. W \in SUBSET (SUBSET S)
      OBVIOUS
    <2> HIDE DEF W
    <2>2. QED
      BY <1>1, <2>1, MinimalSubset
  <1>3. PICK x \in m : SumOf(f, m) # f[x] + SumOf(f, m \ {x})
    BY <1>2
  <1> DEFINE y == pick(m)
  <1>4. m \in SUBSET S /\ y \in m
    BY <1>2, <1>3, PickInSet
  <1>5. IsFiniteSet(m)
    BY <1>4, FS_Subset
  <1>6. SumOf(f, m) = f[y] + SumOf(f, m \ {y})
    BY <1>3, <1>5, SumStep
  <1>7. y # x
    BY <1>3, <1>6
  <1> HIDE DEF y
  <1>8. \A t \in SUBSET m : t # m => \A z \in t : SumOf(f, t) = f[z] + SumOf(f, t \ {z})
    BY <1>2, <1>4
  <1>9. /\ SumOf(f, m \ {y}) = f[x] + SumOf(f, (m \ {y}) \ {x})
        /\ SumOf(f, m \ {x}) = f[y] + SumOf(f, (m \ {x}) \ {y})
    BY <1>3, <1>4, <1>7, <1>8
  <1>10. (m \ {x}) \ {y} = (m \ {y}) \ {x} /\ SumOf(f, (m \ {y}) \ {x}) \in Nat
    <2>1. IsFiniteSet((m \ {y}) \ {x}) /\ (m \ {y}) \ {x} \subseteq S
      BY <1>4, <1>5, FS_Subset
    <2>2. QED
      BY <2>1, SumNat
  <1>11. f[x] \in Nat /\ f[y] \in Nat
    BY <1>3, <1>4
  <1>12. QED
    BY <1>3, <1>6, <1>9, <1>10, <1>11

\* The sum depends only on the values at the elements summed.
LEMMA SumCongruent ==
  ASSUME NEW f, NEW e, NEW S, IsFiniteSet(S), \A x \in S : f[x] = e[x]
  PROVE  SumOf(f, S) = SumOf(e, S)
  <1> DEFINE g == CHOOSE k : IsFoldOf(k, f, SUBSET S)
             h == CHOOSE k : IsFoldOf(k, e, SUBSET S)
  <1>1. IsFoldOf(g, f, SUBSET S) /\ IsFoldOf(h, e, SUBSET S)
    BY FoldExists
  <1>2. SumOf(f, S) = g[S] /\ SumOf(e, S) = h[S]
    BY SumUnfolds
  <1> HIDE DEF g, h
  <1>3. \A s \in SUBSET S : g[s] = h[s]
    BY <1>1, FoldsAgree
  <1>4. QED
    BY <1>2, <1>3

\* Adding an element adds its value.
LEMMA SumAdd ==
  ASSUME NEW f, NEW S, IsFiniteSet(S), NEW z, z \notin S,
         \A x \in S \cup {z} : f[x] \in Nat
  PROVE  SumOf(f, S \cup {z}) = SumOf(f, S) + f[z]
  <1>1. IsFiniteSet(S \cup {z}) /\ (S \cup {z}) \ {z} = S
    BY FS_AddElement
  <1>2. SumOf(f, S \cup {z}) = f[z] + SumOf(f, S)
    BY <1>1, SumRemove
  <1>3. QED
    BY <1>2, SumNat

\* What changing one value does to a sum.
LEMMA SumChange ==
  ASSUME NEW f, NEW e, NEW S, IsFiniteSet(S), NEW z \in S,
         \A x \in S : f[x] \in Nat /\ e[x] \in Nat,
         \A x \in S \ {z} : e[x] = f[x]
  PROVE  SumOf(e, S) = SumOf(f, S) + (e[z] - f[z])
  <1>1. IsFiniteSet(S \ {z})
    BY FS_Subset
  <1>2. SumOf(f, S \ {z}) = SumOf(e, S \ {z}) /\ SumOf(f, S \ {z}) \in Nat
    BY <1>1, SumCongruent, SumNat
  <1>3. SumOf(f, S) = f[z] + SumOf(f, S \ {z}) /\ SumOf(e, S) = e[z] + SumOf(e, S \ {z})
    BY SumRemove
  <1>4. QED
    BY <1>2, <1>3

\* A sum is at least each of its terms.
LEMMA SumAbove ==
  ASSUME NEW f, NEW S, IsFiniteSet(S), \A x \in S : f[x] \in Nat, NEW z \in S
  PROVE  f[z] <= SumOf(f, S)
  <1>1. SumOf(f, S \ {z}) \in Nat
    BY SumNat, FS_Subset
  <1>2. QED
    BY <1>1, SumRemove

\* A sum of zeros is zero.
LEMMA SumZero ==
  ASSUME NEW f, NEW S, IsFiniteSet(S), \A x \in S : f[x] = 0
  PROVE  SumOf(f, S) = 0
  <1> DEFINE W == {s \in SUBSET S : SumOf(f, s) # 0}
  <1>1. SUFFICES ASSUME W # {} PROVE FALSE
    OBVIOUS
  <1>2. PICK m \in W : \A t \in W : t \subseteq m => t = m
    <2>1. W \in SUBSET (SUBSET S)
      OBVIOUS
    <2> HIDE DEF W
    <2>2. QED
      BY <1>1, <2>1, MinimalSubset
  <1>3. m \in SUBSET S /\ SumOf(f, m) # 0 /\ IsFiniteSet(m)
    BY <1>2, FS_Subset
  <1>4. SumOf(f, m) = IF m = {} THEN 0 ELSE f[pick(m)] + SumOf(f, m \ {pick(m)})
    BY <1>3, SumStep
  <1>5. m # {} /\ pick(m) \in m
    BY <1>3, <1>4, PickInSet
  <1>6. SumOf(f, m \ {pick(m)}) = 0
    BY <1>2, <1>3, <1>5
  <1>7. QED
    BY <1>3, <1>4, <1>5, <1>6

\* A sum splits along a subset.
LEMMA SumSplit ==
  ASSUME NEW f, NEW S, NEW T, NEW U, IsFiniteSet(S), \A x \in S : f[x] \in Nat,
         S = T \cup U, T \cap U = {}
  PROVE  SumOf(f, S) = SumOf(f, T) + SumOf(f, U)
  <1> DEFINE W == {s \in SUBSET S : SumOf(f, s) # SumOf(f, s \cap T) + SumOf(f, s \ T)}
  <1>1. SUFFICES ASSUME W # {} PROVE FALSE
    <2>1. S \cap T = T /\ S \ T = U
      OBVIOUS
    <2>2. W = {} => SumOf(f, S) = SumOf(f, S \cap T) + SumOf(f, S \ T)
      OBVIOUS
    <2>3. QED
      BY <2>1, <2>2
  <1>2. PICK m \in W : \A t \in W : t \subseteq m => t = m
    <2>1. W \in SUBSET (SUBSET S)
      OBVIOUS
    <2> HIDE DEF W
    <2>2. QED
      BY <1>1, <2>1, MinimalSubset
  <1>3. m \in SUBSET S /\ SumOf(f, m) # SumOf(f, m \cap T) + SumOf(f, m \ T)
    BY <1>2
  <1>4. \A t \in SUBSET m : t # m => SumOf(f, t) = SumOf(f, t \cap T) + SumOf(f, t \ T)
    BY <1>2, <1>3
  <1> HIDE DEF W
  <1>5. IsFiniteSet(m) /\ IsFiniteSet(m \cap T) /\ IsFiniteSet(m \ T)
    BY <1>3, FS_Subset
  <1>6. PICK z : z \in m
    <2>1. CASE m = {}
      <3>1. m \cap T = {} /\ m \ T = {}
        BY <2>1
      <3>2. QED
        BY <1>3, <2>1, <3>1, SumEmpty
    <2>2. QED
      BY <2>1
  <1> DEFINE t == m \ {z}
  <1>7. SumOf(f, m) = f[z] + SumOf(f, t) /\ SumOf(f, t) = SumOf(f, t \cap T) + SumOf(f, t \ T)
    BY <1>3, <1>4, <1>5, <1>6, SumRemove
  <1>8. f[z] \in Nat /\ SumOf(f, t \cap T) \in Nat /\ SumOf(f, t \ T) \in Nat
    BY <1>3, <1>6, FS_Subset, <1>5, SumNat
  <1>9. CASE z \in T
    <2>1. SumOf(f, m \cap T) = f[z] + SumOf(f, (m \cap T) \ {z})
      BY <1>3, <1>5, <1>6, <1>9, SumRemove
    <2>2. (m \cap T) \ {z} = t \cap T /\ m \ T = t \ T
      BY <1>9
    <2>3. SumOf(f, m \cap T) = f[z] + SumOf(f, t \cap T) /\ SumOf(f, m \ T) = SumOf(f, t \ T)
      BY <2>1, <2>2
    <2> HIDE DEF t
    <2>4. QED
      BY <1>3, <1>7, <1>8, <2>3
  <1>10. CASE z \notin T
    <2>1. SumOf(f, m \ T) = f[z] + SumOf(f, (m \ T) \ {z})
      BY <1>3, <1>5, <1>6, <1>10, SumRemove
    <2>2. (m \ T) \ {z} = t \ T /\ m \cap T = t \cap T
      BY <1>10
    <2>3. SumOf(f, m \ T) = f[z] + SumOf(f, t \ T) /\ SumOf(f, m \cap T) = SumOf(f, t \cap T)
      BY <2>1, <2>2
    <2> HIDE DEF t
    <2>4. QED
      BY <1>3, <1>7, <1>8, <2>3
  <1>11. QED
    BY <1>9, <1>10

\* A sum may be taken over other names for the same things.
LEMMA SumReindex ==
  ASSUME NEW f, NEW e, NEW g, NEW S, IsFiniteSet(S),
         \A x \in S : e[x] \in Nat /\ f[g[x]] = e[x],
         \A x, y \in S : g[x] = g[y] => x = y
  PROVE  SumOf(e, S) = SumOf(f, {g[x] : x \in S})
  <1> DEFINE I(s) == {g[x] : x \in s}
             W == {s \in SUBSET S : SumOf(e, s) # SumOf(f, I(s))}
  <1>1. SUFFICES ASSUME W # {} PROVE FALSE
    OBVIOUS
  <1>2. PICK m \in W : \A t \in W : t \subseteq m => t = m
    <2>1. W \in SUBSET (SUBSET S)
      OBVIOUS
    <2> HIDE DEF W
    <2>2. QED
      BY <1>1, <2>1, MinimalSubset
  <1>3. m \in SUBSET S /\ SumOf(e, m) # SumOf(f, I(m))
    BY <1>2
  <1>4. \A t \in SUBSET m : t # m => SumOf(e, t) = SumOf(f, I(t))
    BY <1>2, <1>3
  <1> HIDE DEF W
  <1>5. IsFiniteSet(m) /\ IsFiniteSet(I(m))
    <2> DEFINE h == [x \in m |-> g[x]]
    <2>1. IsFiniteSet(m)
      BY <1>3, FS_Subset
    <2>2. h \in Surjection(m, I(m))
      BY DEF Surjection
    <2>3. QED
      BY <2>1, <2>2, FS_Surjection
  <1>6. PICK z : z \in m
    <2>1. CASE m = {}
      <3>1. I(m) = {}
        BY <2>1
      <3>2. QED
        BY <1>3, <2>1, <3>1, SumEmpty
    <2>2. QED
      BY <2>1
  <1>7. SumOf(e, m) = e[z] + SumOf(e, m \ {z})
    BY <1>3, <1>5, <1>6, SumRemove
  <1>8. SumOf(e, m \ {z}) = SumOf(f, I(m \ {z}))
    BY <1>4, <1>6
  <1>9. SumOf(f, I(m)) = f[g[z]] + SumOf(f, I(m) \ {g[z]})
    <2>1. g[z] \in I(m) /\ \A y \in I(m) : f[y] \in Nat
      BY <1>3, <1>6
    <2> HIDE DEF I
    <2>2. QED
      BY <1>5, <2>1, SumRemove
  <1>10. I(m) \ {g[z]} = I(m \ {z})
    BY <1>3, <1>6
  <1>11. f[g[z]] = e[z]
    BY <1>3, <1>6
  <1>12. QED
    BY <1>3, <1>7, <1>8, <1>9, <1>10, <1>11

=============================================================================
