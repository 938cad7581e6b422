---------------------------------- MODULE Sums ----------------------------------
(***************************************************************************)
(* Sums over finite sets, as the models of settlements and tournaments     *)
(* compute them with the folds of the community modules: what proofs about *)
(* those models use of them.                                               *)
(*                                                                         *)
(* The fold is a recursive function on the subsets of its set.  The        *)
(* library's theorems on induction take the property as an operator, which *)
(* the provers cannot instantiate; FiniteInduction takes it as a set.      *)
(***************************************************************************)
EXTENDS Integers, FiniteSets, Functions, FiniteSetTheorems, WellFoundedInduction, TLAPS

SumOver(f, set) == FoldFunctionOnSet(+, 0, f, set)

-------------------------------------------------------------------------------
(* Induction                                                                  *)

\* A non-empty set of natural numbers has a least one.
LEMMA LeastNumber ==
    ASSUME NEW N, N \subseteq Nat, N # {}
    PROVE  \E n \in N : \A m \in N : n <= m
<1> DEFINE Below == {p \in Nat \X Nat : p[1] < p[2]}
<1>1. IsWellFoundedOn(Below, Nat)
  BY NatLessThanWellFounded DEF OpToRel
<1> HIDE DEF Below
<1>2. PICK n \in N : \A m \in N : ~ (<<m, n>> \in Below)
  BY <1>1, WFMin
<1>3. ASSUME NEW m \in N PROVE n <= m
  <2>1. ~ (<<m, n>> \in Below) /\ n \in Nat /\ m \in Nat
    BY <1>2
  <2>2. ~ (m < n)
    BY <2>1 DEF Below
  <2> QED BY <2>1, <2>2
<1> QED BY <1>3

\* What holds of a set whenever it holds of all its proper subsets holds of every
\* finite set.
LEMMA SubsetInduction ==
    ASSUME NEW D, IsFiniteSet(D), NEW P,
           \A s \in SUBSET D : (\A r \in SUBSET s : r # s => r \in P) => s \in P
    PROVE  \A s \in SUBSET D : s \in P
<1> SUFFICES ASSUME NEW d \in SUBSET D, d \notin P PROVE FALSE
  OBVIOUS
<1>1. ASSUME NEW s \in SUBSET D PROVE IsFiniteSet(s) /\ Cardinality(s) \in Nat
  BY <1>1, FS_Subset, FS_CardinalityType
<1> DEFINE N == {n \in Nat : \E s \in SUBSET D : s \notin P /\ Cardinality(s) = n}
<1>2. N # {} /\ N \subseteq Nat
  BY <1>1
<1>3. PICK n \in N : \A m \in N : n <= m
  BY <1>2, LeastNumber
<1>4. PICK s \in SUBSET D : s \notin P /\ Cardinality(s) = n
  OBVIOUS
<1>5. ASSUME NEW r \in SUBSET s, r # s PROVE r \in P
  <2>1. IsFiniteSet(s) /\ Cardinality(r) \in Nat /\ Cardinality(r) < Cardinality(s)
    BY <1>1, <1>5, FS_Subset
  <2>2. Cardinality(r) \notin N
    BY <1>2, <1>3, <1>4, <2>1
  <2> QED BY <2>1, <2>2
<1> QED BY <1>4, <1>5

\* What holds of the empty set, and of a set with one more element when it holds of
\* the set, holds of every finite set.
LEMMA FiniteInduction ==
    ASSUME NEW D, IsFiniteSet(D), NEW P,
           {} \in P,
           \A s \in SUBSET D : \A x \in D \ s : s \in P => s \union {x} \in P
    PROVE  \A s \in SUBSET D : s \in P
<1>1. ASSUME NEW s \in SUBSET D, \A r \in SUBSET s : r # s => r \in P PROVE s \in P
  <2>1. CASE s = {}
    BY <2>1
  <2>2. CASE s # {}
    <3>1. PICK x \in s : TRUE
      BY <2>2
    <3>2. s \ {x} \in P /\ (s \ {x}) \union {x} = s
      BY <1>1, <3>1
    <3>3. s \ {x} \in SUBSET D /\ x \in D \ (s \ {x})
      BY <3>1
    <3> QED BY <3>2, <3>3
  <2> QED BY <2>1, <2>2
<1> QED BY <1>1, SubsetInduction

-------------------------------------------------------------------------------
(* The fold                                                                   *)

\* What the fold takes from a set, and what is left.
Taken(set) == CHOOSE x \in set : TRUE
Others(set) == set \ {Taken(set)}

Adds(g, f, D) ==
    g = [s \in SUBSET D |-> IF s = {} THEN 0 ELSE f[Taken(s)] + g[Others(s)]]

FoldOf(f, D) == CHOOSE g : Adds(g, f, D)

LEMMA SumIsFold ==
    ASSUME NEW f, NEW D
    PROVE  SumOver(f, D) = FoldOf(f, D)[D]
BY DEF SumOver, FoldFunctionOnSet, MapThenFoldSet, FoldOf, Adds, Others, Taken

\* Two folds agree where both are defined.
LEMMA FoldUnique ==
    ASSUME NEW f, NEW D, IsFiniteSet(D), NEW E, NEW g, NEW h, Adds(g, f, D), Adds(h, f, E)
    PROVE  \A s \in SUBSET D : s \in SUBSET E => g[s] = h[s]
<1> DEFINE P == {s \in SUBSET D : s \in SUBSET E => g[s] = h[s]}
<1>1. ASSUME NEW s \in SUBSET D, \A r \in SUBSET s : r # s => r \in P PROVE s \in P
  <2> SUFFICES ASSUME s \in SUBSET E PROVE g[s] = h[s]
    OBVIOUS
  <2>1. CASE s = {}
    BY <2>1 DEF Adds
  <2>2. CASE s # {}
    <3>1. Taken(s) \in s
      BY <2>2 DEF Taken
    <3>2. /\ g[s] = f[Taken(s)] + g[Others(s)] /\ h[s] = f[Taken(s)] + h[Others(s)]
      BY <2>2 DEF Adds
    <3>3. Others(s) \in SUBSET s /\ Others(s) # s /\ Others(s) \in SUBSET E
      BY <3>1 DEF Others
    <3> QED BY <1>1, <3>2, <3>3
  <2> QED BY <2>1, <2>2
<1> HIDE DEF P
<1>2. \A s \in SUBSET D : s \in P
  BY <1>1, SubsetInduction
<1> QED BY <1>2 DEF P

\* The fold is defined on every finite set.
LEMMA FoldDefined ==
    ASSUME NEW f, NEW D, IsFiniteSet(D)
    PROVE  Adds(FoldOf(f, D), f, D)
<1> DEFINE P == {s \in SUBSET D : Adds(FoldOf(f, s), f, s)}
<1>1. ASSUME NEW s \in SUBSET D, \A r \in SUBSET s : r # s => r \in P PROVE s \in P
  <2> DEFINE Below(r) == FoldOf(f, Others(r))[Others(r)]
             g == [r \in SUBSET s |-> IF r = {} THEN 0 ELSE f[Taken(r)] + Below(r)]
  <2>1. ASSUME NEW r \in SUBSET s, r # {}
        PROVE  Others(r) \in SUBSET s /\ Others(r) # s /\ Others(r) \in SUBSET r
               /\ IsFiniteSet(Others(r))
    <3>1. Taken(r) \in r
      BY <2>1 DEF Taken
    <3> QED BY <2>1, <3>1, FS_Subset DEF Others
  <2>2. ASSUME NEW r \in SUBSET s, r # {} PROVE g[Others(r)] = Below(r)
    <3> DEFINE t == Others(r)
    <3>1. t \in SUBSET s /\ t # s /\ IsFiniteSet(t)
      BY <2>1, <2>2
    <3>2. Adds(FoldOf(f, t), f, t)
      BY <1>1, <3>1
    <3>3. CASE t = {}
      BY <3>1, <3>2, <3>3 DEF Adds
    <3>4. CASE t # {}
      <4>1. Others(t) \in SUBSET s /\ Others(t) # s /\ Others(t) \in SUBSET t
            /\ IsFiniteSet(Others(t))
        BY <2>1, <3>1, <3>4
      <4>2. Adds(FoldOf(f, Others(t)), f, Others(t))
        BY <1>1, <4>1
      <4>3. FoldOf(f, t)[Others(t)] = FoldOf(f, Others(t))[Others(t)]
        <5> HIDE DEF t
        <5>1. PICK g1, g2, E : g1 = FoldOf(f, Others(t)) /\ g2 = FoldOf(f, t) /\ E = Others(t)
          OBVIOUS
        <5>2. \A q \in SUBSET E : q \in SUBSET t => g1[q] = g2[q]
          BY <3>2, <4>1, <4>2, <5>1, FoldUnique
        <5> QED BY <4>1, <5>1, <5>2
      <4>4. FoldOf(f, t)[t] = f[Taken(t)] + FoldOf(f, t)[Others(t)]
        BY <3>2, <3>4 DEF Adds
      <4>5. g[t] = f[Taken(t)] + Below(t)
        BY <3>1, <3>4
      <4> QED BY <4>3, <4>4, <4>5
    <3> QED BY <3>3, <3>4
  <2>3. Adds(g, f, s)
    BY <2>2, Zenon DEF Adds
  <2>4. Adds(FoldOf(f, s), f, s)
    BY <2>3 DEF FoldOf
  <2> QED BY <2>4
<1> HIDE DEF P
<1>2. \A s \in SUBSET D : s \in P
  BY <1>1, SubsetInduction
<1> QED BY <1>2 DEF P

-------------------------------------------------------------------------------
(* Sums                                                                       *)

LEMMA SumEmpty ==
    ASSUME NEW f
    PROVE  SumOver(f, {}) = 0
<1>1. Adds(FoldOf(f, {}), f, {})
  BY FS_EmptySet, FoldDefined
<1> QED BY <1>1, SumIsFold DEF Adds

\* The fold takes one element and adds it to the sum over the others.
LEMMA SumTakes ==
    ASSUME NEW f, NEW D, IsFiniteSet(D), D # {}
    PROVE  /\ Taken(D) \in D /\ IsFiniteSet(Others(D))
           /\ SumOver(f, D) = f[Taken(D)] + SumOver(f, Others(D))
<1>1. Taken(D) \in D /\ Others(D) \in SUBSET D
  BY DEF Taken, Others
<1>2. PICK E : E = Others(D)
  OBVIOUS
<1>3. IsFiniteSet(E) /\ E \in SUBSET D
  BY <1>1, <1>2, FS_Subset
<1>4. PICK g, h : g = FoldOf(f, D) /\ h = FoldOf(f, E)
  OBVIOUS
<1>5. Adds(g, f, D) /\ Adds(h, f, E)
  BY <1>3, <1>4, FoldDefined
<1>6. h[E] = g[E]
  BY <1>3, <1>5, FoldUnique
<1>7. g[D] = f[Taken(D)] + g[Others(D)]
  BY <1>5 DEF Adds
<1> QED BY <1>1, <1>2, <1>3, <1>4, <1>6, <1>7, SumIsFold

LEMMA SumType ==
    ASSUME NEW f, NEW D, IsFiniteSet(D), \A x \in D : f[x] \in Int
    PROVE  SumOver(f, D) \in Int
<1> DEFINE P == {s \in SUBSET D : SumOver(f, s) \in Int}
<1>1. ASSUME NEW s \in SUBSET D, \A r \in SUBSET s : r # s => r \in P PROVE s \in P
  <2>1. CASE s = {}
    BY <2>1, SumEmpty
  <2>2. CASE s # {}
    <3>1. IsFiniteSet(s)
      BY FS_Subset
    <3>2. Taken(s) \in s /\ SumOver(f, s) = f[Taken(s)] + SumOver(f, Others(s))
      BY <2>2, <3>1, SumTakes
    <3>3. Others(s) \in P
      BY <1>1, <3>2 DEF Others
    <3> QED BY <3>2, <3>3
  <2> QED BY <2>1, <2>2
<1> HIDE DEF P
<1>2. \A s \in SUBSET D : s \in P
  BY <1>1, SubsetInduction
<1> QED BY <1>2 DEF P

\* Any element may be taken out first.
LEMMA SumRemove ==
    ASSUME NEW f, NEW D, IsFiniteSet(D), \A x \in D : f[x] \in Int, NEW y \in D
    PROVE  SumOver(f, D) = f[y] + SumOver(f, D \ {y})
<1> DEFINE P == {s \in SUBSET D : \A x \in s : SumOver(f, s) = f[x] + SumOver(f, s \ {x})}
<1>1. ASSUME NEW s \in SUBSET D, \A r \in SUBSET s : r # s => r \in P PROVE s \in P
  <2> SUFFICES ASSUME NEW x \in s PROVE SumOver(f, s) = f[x] + SumOver(f, s \ {x})
    OBVIOUS
  <2>1. IsFiniteSet(s) /\ IsFiniteSet(s \ {x})
    BY FS_Subset
  <2>2. PICK c : c = Taken(s)
    OBVIOUS
  <2>3. c \in s /\ SumOver(f, s) = f[c] + SumOver(f, s \ {c})
    BY <2>1, <2>2, SumTakes DEF Others
  <2>4. CASE x = c
    BY <2>3, <2>4
  <2>5. CASE x # c
    <3>1. PICK q : q = (s \ {c}) \ {x} /\ q = (s \ {x}) \ {c}
      OBVIOUS
    <3>2. SumOver(f, s \ {c}) = f[x] + SumOver(f, q)
      BY <1>1, <2>3, <2>5, <3>1
    <3>3. SumOver(f, s \ {x}) = f[c] + SumOver(f, q)
      BY <1>1, <2>3, <2>5, <3>1
    <3>4. SumOver(f, q) \in Int
      <4>1. IsFiniteSet(q) /\ q \subseteq D
        BY <2>1, <3>1, FS_Subset
      <4> QED BY <4>1, SumType
    <3>5. f[x] \in Int /\ f[c] \in Int
      BY <2>3
    <3>6. \A i, j, k \in Int : i + (j + k) = j + (i + k)
      OBVIOUS
    <3>7. SumOver(f, s) = f[c] + (f[x] + SumOver(f, q))
      BY <2>3, <3>2, Zenon
    <3>8. f[c] + (f[x] + SumOver(f, q)) = f[x] + (f[c] + SumOver(f, q))
      BY <3>4, <3>5, <3>6, Zenon
    <3> QED BY <3>3, <3>7, <3>8, Zenon
  <2> QED BY <2>4, <2>5
<1> HIDE DEF P
<1>2. \A s \in SUBSET D : s \in P
  BY <1>1, SubsetInduction
<1> QED BY <1>2 DEF P

LEMMA SumAdd ==
    ASSUME NEW f, NEW D, IsFiniteSet(D), NEW y, y \notin D, f[y] \in Int,
           \A x \in D : f[x] \in Int
    PROVE  SumOver(f, D \union {y}) = f[y] + SumOver(f, D)
<1>1. IsFiniteSet(D \union {y}) /\ (D \union {y}) \ {y} = D
  BY FS_AddElement
<1>2. PICK E : E = D \union {y}
  OBVIOUS
<1>3. SumOver(f, E) = f[y] + SumOver(f, E \ {y})
  BY <1>1, <1>2, SumRemove
<1> QED BY <1>1, <1>2, <1>3

LEMMA SumSame ==
    ASSUME NEW f, NEW g, NEW D, IsFiniteSet(D), \A x \in D : f[x] = g[x]
    PROVE  SumOver(f, D) = SumOver(g, D)
<1> DEFINE P == {s \in SUBSET D : SumOver(f, s) = SumOver(g, s)}
<1>1. ASSUME NEW s \in SUBSET D, \A r \in SUBSET s : r # s => r \in P PROVE s \in P
  <2>1. CASE s = {}
    BY <2>1, SumEmpty
  <2>2. CASE s # {}
    <3>1. IsFiniteSet(s)
      BY FS_Subset
    <3>2. /\ Taken(s) \in s
          /\ SumOver(f, s) = f[Taken(s)] + SumOver(f, Others(s))
          /\ SumOver(g, s) = g[Taken(s)] + SumOver(g, Others(s))
      BY <2>2, <3>1, SumTakes
    <3>3. Others(s) \in P
      BY <1>1, <3>2 DEF Others
    <3> QED BY <3>2, <3>3
  <2> QED BY <2>1, <2>2
<1> HIDE DEF P
<1>2. \A s \in SUBSET D : s \in P
  BY <1>1, SubsetInduction
<1> QED BY <1>2 DEF P

\* Two parts of a set make up its sum.
LEMMA SumUnion ==
    ASSUME NEW f, NEW D, IsFiniteSet(D), NEW E, IsFiniteSet(E), D \intersect E = {},
           \A x \in D \union E : f[x] \in Int
    PROVE  SumOver(f, D \union E) = SumOver(f, D) + SumOver(f, E)
<1> DEFINE P == {s \in SUBSET E : SumOver(f, D \union s) = SumOver(f, D) + SumOver(f, s)}
<1>1. SumOver(f, D) \in Int
  BY SumType
<1>2. {} \in P
  BY <1>1, SumEmpty
<1>3. ASSUME NEW s \in SUBSET E, NEW x \in E \ s, s \in P PROVE s \union {x} \in P
  <2>1. IsFiniteSet(s) /\ IsFiniteSet(D \union s)
    BY FS_Subset, FS_Union
  <2>2. PICK t : t = D \union s
    OBVIOUS
  <2>3. SumOver(f, t \union {x}) = f[x] + SumOver(f, t)
    BY <2>1, <2>2, SumAdd
  <2>4. SumOver(f, s \union {x}) = f[x] + SumOver(f, s)
    BY <2>1, SumAdd
  <2>5. SumOver(f, t) = SumOver(f, D) + SumOver(f, s) /\ t \union {x} = D \union (s \union {x})
    BY <1>3, <2>2
  <2>6. SumOver(f, s) \in Int /\ f[x] \in Int
    BY <2>1, SumType
  <2>7. \A i, j, k \in Int : i + (j + k) = j + (i + k)
    OBVIOUS
  <2>8. f[x] + (SumOver(f, D) + SumOver(f, s)) = SumOver(f, D) + (f[x] + SumOver(f, s))
    BY <1>1, <2>6, <2>7, Zenon
  <2>9. SumOver(f, D \union (s \union {x})) = SumOver(f, D) + SumOver(f, s \union {x})
    BY <2>3, <2>4, <2>5, <2>8, Zenon
  <2> QED BY <2>9
<1> HIDE DEF P
<1>4. \A s \in SUBSET E : s \in P
  BY <1>2, <1>3, FiniteInduction
<1> QED BY <1>4 DEF P

\* A sum is at most another one that has all its terms, and larger ones.
LEMMA SumAtMost ==
    ASSUME NEW f, NEW g, NEW E, IsFiniteSet(E), NEW D, D \subseteq E,
           \A x \in D : f[x] \in Int /\ f[x] <= g[x], \A x \in E : g[x] \in Nat
    PROVE  SumOver(f, D) <= SumOver(g, E)
<1> DEFINE P == {s \in SUBSET E : SumOver(f, D \intersect s) <= SumOver(g, s)}
<1>1. {} \in P
  <2>1. D \intersect {} = {}
    OBVIOUS
  <2> QED BY <2>1, SumEmpty
<1>2. ASSUME NEW s \in SUBSET E, NEW x \in E \ s, s \in P PROVE s \union {x} \in P
  <2>1. PICK d : d = D \intersect s
    OBVIOUS
  <2>2. IsFiniteSet(s) /\ IsFiniteSet(d) /\ SumOver(f, d) <= SumOver(g, s)
    BY <1>2, <2>1, FS_Subset
  <2>3. SumOver(g, s \union {x}) = g[x] + SumOver(g, s)
    BY <2>2, SumAdd
  <2>4. SumOver(f, d) \in Int /\ SumOver(g, s) \in Int
    BY <2>1, <2>2, SumType
  <2>5. CASE x \in D
    <3>1. D \intersect (s \union {x}) = d \union {x}
      BY <2>1, <2>5
    <3>2. SumOver(f, d \union {x}) = f[x] + SumOver(f, d)
      BY <2>1, <2>2, <2>5, SumAdd
    <3>3. f[x] \in Int /\ g[x] \in Int /\ f[x] <= g[x]
      BY <2>5
    <3>4. \A i, j, k, l \in Int : i <= k /\ j <= l => i + j <= k + l
      OBVIOUS
    <3>5. f[x] + SumOver(f, d) <= g[x] + SumOver(g, s)
      BY <2>2, <2>4, <3>3, <3>4, Zenon
    <3>6. SumOver(f, D \intersect (s \union {x})) <= SumOver(g, s \union {x})
      BY <2>3, <3>1, <3>2, <3>5, Zenon
    <3> QED BY <3>6
  <2>6. CASE x \notin D
    <3>1. D \intersect (s \union {x}) = d
      BY <2>1, <2>6
    <3>2. g[x] \in Nat
      OBVIOUS
    <3>3. \A i, j \in Int, k \in Nat : i <= j => i <= k + j
      OBVIOUS
    <3>4. SumOver(f, d) <= g[x] + SumOver(g, s)
      BY <2>2, <2>4, <3>2, <3>3, Zenon
    <3>5. SumOver(f, D \intersect (s \union {x})) <= SumOver(g, s \union {x})
      BY <2>3, <3>1, <3>4, Zenon
    <3> QED BY <3>5
  <2> QED BY <2>5, <2>6
<1> HIDE DEF P
<1>3. E \in P
  BY <1>1, <1>2, FiniteInduction
<1>4. D \intersect E = D
  OBVIOUS
<1> QED BY <1>3, <1>4 DEF P

LEMMA SumNat ==
    ASSUME NEW f, NEW D, IsFiniteSet(D), \A x \in D : f[x] \in Nat
    PROVE  SumOver(f, D) \in Nat
<1>1. SumOver(f, {}) <= SumOver(f, D)
  BY SumAtMost
<1>2. SumOver(f, D) \in Int
  BY SumType
<1> QED BY <1>1, <1>2, SumEmpty

\* Where two functions differ in one place, so do their sums.
LEMMA SumChanged ==
    ASSUME NEW f, NEW g, NEW D, IsFiniteSet(D), NEW y \in D,
           \A x \in D : f[x] \in Int /\ g[x] \in Int,
           \A x \in D \ {y} : g[x] = f[x]
    PROVE  /\ SumOver(f, D) \in Int
           /\ SumOver(g, D) = SumOver(f, D) + (g[y] - f[y])
<1>1. IsFiniteSet(D \ {y}) /\ \A x \in D \ {y} : f[x] \in Int
  BY FS_Subset
<1>2. SumOver(g, D \ {y}) = SumOver(f, D \ {y})
  <2>1. PICK E : E = D \ {y}
    OBVIOUS
  <2>2. SumOver(g, E) = SumOver(f, E)
    BY <1>1, <2>1, SumSame
  <2> QED BY <2>1, <2>2
<1>3. SumOver(f, D) = f[y] + SumOver(f, D \ {y}) /\ SumOver(g, D) = g[y] + SumOver(g, D \ {y})
  BY SumRemove
<1>4. SumOver(f, D \ {y}) \in Int
  <2>1. PICK E : E = D \ {y}
    OBVIOUS
  <2>2. SumOver(f, E) \in Int
    BY <1>1, <2>1, SumType
  <2> QED BY <2>1, <2>2
<1> QED BY <1>2, <1>3, <1>4

\* A sum of equal terms.
LEMMA SumConstant ==
    ASSUME NEW f, NEW D, IsFiniteSet(D), NEW c \in Int, \A x \in D : f[x] = c
    PROVE  SumOver(f, D) = c * Cardinality(D)
<1> DEFINE P == {s \in SUBSET D : SumOver(f, s) = c * Cardinality(s)}
<1>1. {} \in P
  <2>1. Cardinality({}) = 0 /\ c * 0 = 0
    BY FS_EmptySet
  <2> QED BY <2>1, SumEmpty
<1>2. ASSUME NEW s \in SUBSET D, NEW x \in D \ s, s \in P PROVE s \union {x} \in P
  <2>1. IsFiniteSet(s)
    BY FS_Subset
  <2>2. SumOver(f, s \union {x}) = c + SumOver(f, s)
    BY <2>1, SumAdd
  <2>3. Cardinality(s \union {x}) = Cardinality(s) + 1 /\ Cardinality(s) \in Nat
    BY <2>1, FS_AddElement, FS_CardinalityType
  <2>4. \A n \in Nat : c * (n + 1) = c + c * n
    OBVIOUS
  <2>5. SumOver(f, s) = c * Cardinality(s)
    BY <1>2
  <2>6. SumOver(f, s \union {x}) = c * Cardinality(s \union {x})
    BY <2>2, <2>3, <2>4, <2>5
  <2> QED BY <2>6
<1> HIDE DEF P
<1>3. D \in P
  BY <1>1, <1>2, FiniteInduction
<1> QED BY <1>3 DEF P

LEMMA SumZero ==
    ASSUME NEW f, NEW D, IsFiniteSet(D), \A x \in D : f[x] = 0
    PROVE  SumOver(f, D) = 0
<1>1. SumOver(f, D) = 0 * Cardinality(D)
  BY SumConstant
<1> QED BY <1>1, FS_CardinalityType

\* f has the terms of g, each once, under other names: that of x is p[x] in g.
Renames(p, f, D, g, E) ==
    /\ \A x, y \in D : p[x] = p[y] => x = y
    /\ E = {p[x] : x \in D}
    /\ \A x \in D : f[x] \in Int /\ f[x] = g[p[x]]

\* The terms may be counted under other names.
LEMMA SumRenamed ==
    ASSUME NEW f, NEW g, NEW D, IsFiniteSet(D), NEW E, NEW p, Renames(p, f, D, g, E)
    PROVE  SumOver(f, D) = SumOver(g, E)
<1> USE DEF Renames
<1> DEFINE Image(s) == {p[x] : x \in s}
           P == {s \in SUBSET D : IsFiniteSet(Image(s)) /\ SumOver(f, s) = SumOver(g, Image(s))}
<1>1. {} \in P
  <2>1. Image({}) = {}
    OBVIOUS
  <2> QED BY <2>1, FS_EmptySet, SumEmpty
<1>2. ASSUME NEW s \in SUBSET D, NEW x \in D \ s, s \in P PROVE s \union {x} \in P
  <2>1. PICK I : I = Image(s)
    OBVIOUS
  <2>2. Image(s \union {x}) = I \union {p[x]} /\ p[x] \notin I
    BY <2>1
  <2>3. IsFiniteSet(s) /\ IsFiniteSet(I) /\ SumOver(f, s) = SumOver(g, I)
    BY <1>2, <2>1, FS_Subset
  <2>4. \A y \in I : g[y] \in Int
    BY <2>1
  <2>5. SumOver(g, I \union {p[x]}) = g[p[x]] + SumOver(g, I)
    BY <2>2, <2>3, <2>4, SumAdd
  <2>6. SumOver(f, s \union {x}) = f[x] + SumOver(f, s)
    BY <2>3, SumAdd
  <2>7. IsFiniteSet(I \union {p[x]})
    BY <2>3, FS_AddElement
  <2>8. SumOver(f, s \union {x}) = SumOver(g, I \union {p[x]})
    BY <2>3, <2>5, <2>6
  <2> HIDE DEF Image
  <2> QED BY <2>2, <2>7, <2>8
<1> HIDE DEF P
<1>3. D \in P
  BY <1>1, <1>2, FiniteInduction
<1> QED BY <1>3 DEF P

\* g has for each class the sum over the terms in it; t says which class a term is in.
ByClass(g, U, f, D, t) ==
    /\ \A x \in D : f[x] \in Int /\ t[x] \in U
    /\ \A u \in U : g[u] = SumOver(f, {x \in D : t[x] = u})

\* Terms may be added up class by class.
LEMMA SumByClass ==
    ASSUME NEW f, NEW D, IsFiniteSet(D), NEW g, NEW U, IsFiniteSet(U), NEW t,
           ByClass(g, U, f, D, t)
    PROVE  SumOver(g, U) = SumOver(f, D)
<1> USE DEF ByClass
<1> DEFINE In(s) == {x \in D : t[x] \in s}
           P == {s \in SUBSET U : SumOver(g, s) = SumOver(f, In(s))}
<1>1. {} \in P
  <2>1. In({}) = {}
    OBVIOUS
  <2> QED BY <2>1, SumEmpty
<1>2. ASSUME NEW s \in SUBSET U, NEW u \in U \ s, s \in P PROVE s \union {u} \in P
  <2>1. PICK d, e : d = In(s) /\ e = {x \in D : t[x] = u}
    OBVIOUS
  <2>2. In(s \union {u}) = e \union d /\ d \intersect e = {} /\ d \subseteq D /\ e \subseteq D
    BY <2>1
  <2>3. IsFiniteSet(d) /\ IsFiniteSet(e) /\ IsFiniteSet(s)
    BY <2>2, FS_Subset
  <2>4. \A x \in d \union e : f[x] \in Int
    BY <2>2
  <2>5. SumOver(f, e \union d) = SumOver(f, e) + SumOver(f, d)
    BY <2>2, <2>3, <2>4, SumUnion
  <2>6. g[u] = SumOver(f, e) /\ SumOver(g, s) = SumOver(f, d)
    BY <1>2, <2>1
  <2>7. \A v \in U : g[v] \in Int
    <3> SUFFICES ASSUME NEW v \in U PROVE g[v] \in Int
      OBVIOUS
    <3>1. PICK c : c = {x \in D : t[x] = v}
      OBVIOUS
    <3>2. IsFiniteSet(c) /\ \A x \in c : f[x] \in Int
      BY <3>1, FS_Subset
    <3> QED BY <3>1, <3>2, SumType
  <2>8. SumOver(g, s \union {u}) = g[u] + SumOver(g, s)
    BY <2>3, <2>7, SumAdd
  <2>9. SumOver(g, s \union {u}) = SumOver(f, e \union d)
    BY <2>5, <2>6, <2>8
  <2> HIDE DEF In
  <2> QED BY <2>2, <2>9
<1> HIDE DEF P
<1>3. U \in P
  BY <1>1, <1>2, FiniteInduction
<1>4. In(U) = D
  OBVIOUS
<1> QED BY <1>3, <1>4 DEF P
===============================================================================
