------------------------- MODULE StatsArchiveProofs -------------------------
(* Proofs about StatsArchive: the inductive invariant, that no attempt is  *)
(* overwritten by an older one, that one fault leaves no day untried, and  *)
(* that a ranking adds up to its total, by induction over finite sums.     *)
EXTENDS StatsArchive, Folds, FiniteSetTheorems, WellFoundedInduction, TLAPS

-----------------------------------------------------------------------------
(* Induction over numbers and over finite sets, with the set of those of   *)
(* which the claim holds in the place of a predicate.                      *)

\* A set of numbers has a least one.
LEMMA Least ==
    ASSUME NEW T \in SUBSET Nat, T # {}
    PROVE  \E m \in T : \A n \in T : m <= n
<1> DEFINE R == OpToRel(<, Nat)
<1>1. \A m, n \in Nat : m < n <=> <<m, n>> \in R
    BY DEF OpToRel
<1>2. IsWellFoundedOn(R, Nat)
    BY NatLessThanWellFounded
<1> HIDE DEF R
<1>3. PICK m \in T : \A n \in T : ~(<<n, m>> \in R)
    BY <1>2, WFMin
<1>4. ASSUME NEW n \in T
      PROVE  m <= n
    <2>1. m \in Nat /\ n \in Nat
        OBVIOUS
    <2>2. ~(n < m)
        BY <1>1, <1>3, <2>1
    <2> QED  BY <2>1, <2>2
<1> QED  BY <1>4

\* Induction over the numbers, T being those of which the claim holds.
LEMMA Induct ==
    ASSUME NEW T \in SUBSET Nat, 0 \in T, \A n \in T : n + 1 \in T
    PROVE  T = Nat
<1> SUFFICES ASSUME T # Nat
             PROVE  FALSE
    OBVIOUS
<1>1. PICK m \in Nat \ T : \A n \in Nat \ T : m <= n
    BY Least
<1>2. m - 1 \in T
    BY <1>1
<1> QED  BY <1>1, <1>2

\* Induction over the subsets of a finite set.
LEMMA InductSets ==
    ASSUME NEW S, IsFiniteSet(S), NEW T \in SUBSET SUBSET S, {} \in T,
           \A s \in SUBSET S : s # {} /\ (\A x \in s : s \ {x} \in T) => s \in T
    PROVE  T = SUBSET S
<1> DEFINE N == {n \in Nat : \A s \in SUBSET S : Cardinality(s) = n => s \in T}
<1>0. \A s \in SUBSET S : IsFiniteSet(s) /\ Cardinality(s) \in Nat
    BY FS_Subset, FS_CardinalityType
<1>1. 0 \in N
    BY <1>0, FS_EmptySet
<1>2. ASSUME NEW n \in N
      PROVE  n + 1 \in N
    <2> SUFFICES ASSUME NEW s \in SUBSET S, Cardinality(s) = n + 1
                 PROVE  s \in T
        OBVIOUS
    <2>1. s # {}
        BY FS_EmptySet
    <2>2. ASSUME NEW x \in s
          PROVE  s \ {x} \in T
        <3>1. Cardinality(s \ {x}) = n
            BY <1>0, FS_RemoveElement
        <3> QED  BY <3>1
    <2> QED  BY <2>1, <2>2
<1>3. N = Nat
    <2> HIDE DEF N
    <2>1. N \in SUBSET Nat
        BY DEF N
    <2> QED  BY <1>1, <1>2, <2>1, Induct
<1>4. \A s \in SUBSET S : s \in T
    BY <1>0, <1>3
<1> QED  BY <1>4

-----------------------------------------------------------------------------
(* Sums over finite sets.                                                  *)

OneOf(s) == CHOOSE x \in s : TRUE

\* The recursion of a sum.
SumsUp(f, D, g) == g = [s \in D |-> IF s = {} THEN 0 ELSE f[OneOf(s)] + g[s \ {OneOf(s)}]]

LEMMA OneOfIt ==
    ASSUME NEW s, s # {}
    PROVE  OneOf(s) \in s
BY DEF OneOf

LEMMA SumDefined ==
    ASSUME NEW f, NEW S
    PROVE  SumFunctionOnSet(f, S) = (CHOOSE g : SumsUp(f, SUBSET S, g))[S]
BY DEF SumFunctionOnSet, FoldFunctionOnSet, MapThenFoldSet, SumsUp, OneOf

LEMMA SumExists ==
    ASSUME NEW f, NEW S, IsFiniteSet(S)
    PROVE  \E g : SumsUp(f, SUBSET S, g)
<1> DEFINE upTo(n) == {s \in SUBSET S : Cardinality(s) <= n}
           N       == {n \in Nat : \E g : SumsUp(f, upTo(n), g)}
<1>0. \A s \in SUBSET S : IsFiniteSet(s) /\ Cardinality(s) \in Nat /\ (Cardinality(s) = 0 <=> s = {})
    BY FS_Subset, FS_CardinalityType, FS_EmptySet
<1>1. 0 \in N
    <2> DEFINE g == [s \in upTo(0) |-> 0]
    <2>1. \A s \in upTo(0) : s = {}
        BY <1>0
    <2>2. SumsUp(f, upTo(0), g)
        BY <2>1 DEF SumsUp
    <2> QED  BY <2>2
<1>2. ASSUME NEW n \in N
      PROVE  n + 1 \in N
    <2>1. PICK g : SumsUp(f, upTo(n), g)
        OBVIOUS
    <2> DEFINE h == [s \in upTo(n + 1) |-> IF s = {} THEN 0 ELSE f[OneOf(s)] + g[s \ {OneOf(s)}]]
    <2>2. \A s \in upTo(n) : s \in upTo(n + 1)
        BY <1>0
    <2>3. \A s \in upTo(n + 1) : s # {} => s \ {OneOf(s)} \in upTo(n)
        <3> SUFFICES ASSUME NEW s \in upTo(n + 1), s # {}
                     PROVE  s \ {OneOf(s)} \in upTo(n)
            OBVIOUS
        <3>1. OneOf(s) \in s
            BY OneOfIt
        <3>2. Cardinality(s \ {OneOf(s)}) = Cardinality(s) - 1
            BY <1>0, <3>1, FS_RemoveElement
        <3> QED  BY <1>0, <3>2
    <2>4. \A s \in upTo(n) : h[s] = g[s]
        <3> SUFFICES ASSUME NEW s \in upTo(n)
                     PROVE  h[s] = g[s]
            OBVIOUS
        <3> HIDE DEF upTo
        <3>1. g[s] = IF s = {} THEN 0 ELSE f[OneOf(s)] + g[s \ {OneOf(s)}]
            BY <2>1 DEF SumsUp
        <3> QED  BY <2>2, <3>1
    <2>5. SumsUp(f, upTo(n + 1), h)
        <3> HIDE DEF upTo
        <3> QED  BY <2>3, <2>4 DEF SumsUp
    <2> HIDE DEF upTo
    <2> QED  BY <2>5
<1>3. N = Nat
    <2> HIDE DEF N
    <2>1. N \in SUBSET Nat
        BY DEF N
    <2> QED  BY <1>1, <1>2, <2>1, Induct
<1>4. Cardinality(S) \in N
    BY <1>0, <1>3
<1>5. upTo(Cardinality(S)) = SUBSET S
    BY FS_Subset
<1> HIDE DEF upTo
<1> QED  BY <1>4, <1>5

\* The sum over a subset is the same within either.
LEMMA SumAgrees ==
    \A f, S, g, h : \A R \in SUBSET S :
        IsFiniteSet(S) /\ SumsUp(f, SUBSET S, g) /\ SumsUp(f, SUBSET R, h) => g[R] = h[R]
<1> SUFFICES ASSUME NEW f, NEW S, NEW g, NEW h, NEW R \in SUBSET S,
                    IsFiniteSet(S), SumsUp(f, SUBSET S, g), SumsUp(f, SUBSET R, h)
             PROVE  g[R] = h[R]
    OBVIOUS
<1> DEFINE T == {s \in SUBSET R : g[s] = h[s]}
<1>0. IsFiniteSet(R)
    BY FS_Subset
<1>1. \A s \in SUBSET R : /\ g[s] = IF s = {} THEN 0 ELSE f[OneOf(s)] + g[s \ {OneOf(s)}]
                          /\ h[s] = IF s = {} THEN 0 ELSE f[OneOf(s)] + h[s \ {OneOf(s)}]
    <2>1. \A s \in SUBSET R : s \in SUBSET S
        OBVIOUS
    <2> QED  BY <2>1 DEF SumsUp
<1>2. {} \in T
    BY <1>1
<1>3. ASSUME NEW s \in SUBSET R, s # {}, \A x \in s : s \ {x} \in T
      PROVE  s \in T
    <2>1. OneOf(s) \in s
        BY <1>3, OneOfIt
    <2>2. g[s \ {OneOf(s)}] = h[s \ {OneOf(s)}]
        BY <1>3, <2>1
    <2> QED  BY <1>1, <1>3, <2>2
<1>4. T = SUBSET R
    <2> HIDE DEF T
    <2>1. T \in SUBSET SUBSET R
        BY DEF T
    <2> QED  BY <1>0, <1>2, <1>3, <2>1, InductSets
<1> QED  BY <1>4

LEMMA SumIn ==
    ASSUME NEW f, NEW S, IsFiniteSet(S), NEW R \in SUBSET S, NEW g, SumsUp(f, SUBSET S, g)
    PROVE  SumFunctionOnSet(f, R) = g[R]
<1> DEFINE h == CHOOSE x : SumsUp(f, SUBSET R, x)
<1>1. SumsUp(f, SUBSET R, h)
    <2>1. \E x : SumsUp(f, SUBSET R, x)
        BY FS_Subset, SumExists
    <2> QED  BY <2>1, Zenon
<1>2. SumFunctionOnSet(f, R) = h[R]
    BY SumDefined
<1> HIDE DEF h
<1>3. g[R] = h[R]
    BY <1>1, SumAgrees
<1> QED  BY <1>2, <1>3

LEMMA SumStep ==
    ASSUME NEW f, NEW S, IsFiniteSet(S)
    PROVE  /\ S = {} => SumFunctionOnSet(f, S) = 0
           /\ S # {} => SumFunctionOnSet(f, S) = f[OneOf(S)] + SumFunctionOnSet(f, S \ {OneOf(S)})
<1>1. PICK g : SumsUp(f, SUBSET S, g)
    BY SumExists
<1>2. S \in SUBSET S /\ S \ {OneOf(S)} \in SUBSET S
    OBVIOUS
<1>3. SumFunctionOnSet(f, S) = g[S] /\ SumFunctionOnSet(f, S \ {OneOf(S)}) = g[S \ {OneOf(S)}]
    BY <1>1, <1>2, SumIn, ZenonT(60)
<1>4. g[S] = IF S = {} THEN 0 ELSE f[OneOf(S)] + g[S \ {OneOf(S)}]
    BY <1>1, <1>2 DEF SumsUp
<1> QED  BY <1>3, <1>4

LEMMA SumEmpty ==
    ASSUME NEW f
    PROVE  SumFunctionOnSet(f, {}) = 0
<1>1. IsFiniteSet({})
    BY FS_EmptySet
<1> QED  BY <1>1, SumStep

LEMMA SumNat ==
    ASSUME NEW f, NEW S, IsFiniteSet(S), \A x \in S : f[x] \in Nat
    PROVE  SumFunctionOnSet(f, S) \in Nat
<1> DEFINE T == {s \in SUBSET S : SumFunctionOnSet(f, s) \in Nat}
<1>1. {} \in T
    BY SumEmpty
<1>2. ASSUME NEW s \in SUBSET S, s # {}, \A x \in s : s \ {x} \in T
      PROVE  s \in T
    <2>1. IsFiniteSet(s)
        BY FS_Subset
    <2>2. OneOf(s) \in s
        BY <1>2, OneOfIt
    <2>3. SumFunctionOnSet(f, s) = f[OneOf(s)] + SumFunctionOnSet(f, s \ {OneOf(s)})
        BY <1>2, <2>1, SumStep
    <2>4. f[OneOf(s)] \in Nat /\ SumFunctionOnSet(f, s \ {OneOf(s)}) \in Nat
        BY <1>2, <2>2
    <2> QED  BY <2>3, <2>4
<1>3. T = SUBSET S
    <2> HIDE DEF T
    <2>1. T \in SUBSET SUBSET S
        BY DEF T
    <2> QED  BY <1>1, <1>2, <2>1, InductSets
<1> QED  BY <1>3

\* The order of a sum does not matter.
LEMMA SumAny ==
    ASSUME NEW f, NEW S, IsFiniteSet(S), \A x \in S : f[x] \in Nat, NEW y \in S
    PROVE  SumFunctionOnSet(f, S) = f[y] + SumFunctionOnSet(f, S \ {y})
<1> DEFINE sum(s) == SumFunctionOnSet(f, s)
           T == {s \in SUBSET S : \A x \in s : sum(s) = f[x] + sum(s \ {x})}
<1>0. \A s \in SUBSET S : sum(s) \in Nat
    <2> SUFFICES ASSUME NEW s \in SUBSET S
                 PROVE  sum(s) \in Nat
        OBVIOUS
    <2>1. IsFiniteSet(s)
        BY FS_Subset
    <2> QED  BY <2>1, SumNat
<1>1. {} \in T
    OBVIOUS
<1>2. ASSUME NEW s \in SUBSET S, s # {}, \A x \in s : s \ {x} \in T
      PROVE  s \in T
    <2> SUFFICES ASSUME NEW x \in s
                 PROVE  sum(s) = f[x] + sum(s \ {x})
        OBVIOUS
    <2> DEFINE o == OneOf(s)
    <2>1. IsFiniteSet(s) /\ o \in s
        BY <1>2, FS_Subset, OneOfIt
    <2>2. sum(s) = f[o] + sum(s \ {o})
        BY <1>2, <2>1, SumStep
    <2> HIDE DEF o
    <2>3. CASE x = o
        BY <2>2, <2>3
    <2>4. CASE x # o
        <3>1. sum(s \ {o}) = f[x] + sum((s \ {o}) \ {x})
            BY <1>2, <2>1, <2>4
        <3>2. sum(s \ {x}) = f[o] + sum((s \ {x}) \ {o})
            BY <1>2, <2>1, <2>4
        <3>3. (s \ {o}) \ {x} = (s \ {x}) \ {o}
            OBVIOUS
        <3>4. f[x] \in Nat /\ f[o] \in Nat /\ sum((s \ {x}) \ {o}) \in Nat
            BY <1>0, <2>1
        <3> HIDE DEF sum
        <3> QED  BY <2>2, <3>1, <3>2, <3>3, <3>4, SMTT(30)
    <2> QED  BY <2>3, <2>4
<1>3. T = SUBSET S
    <2> HIDE DEF T
    <2>1. T \in SUBSET SUBSET S
        BY DEF T
    <2> QED  BY <1>1, <1>2, <2>1, InductSets
<1>4. S \in T
    BY <1>3
<1> QED  BY <1>4

\* Sums are compared term by term.
LEMMA SumLess ==
    ASSUME NEW f, NEW g, NEW S, IsFiniteSet(S), \A x \in S : f[x] \in Nat /\ g[x] \in Nat /\ f[x] <= g[x]
    PROVE  SumFunctionOnSet(f, S) <= SumFunctionOnSet(g, S)
<1> DEFINE T == {s \in SUBSET S : SumFunctionOnSet(f, s) <= SumFunctionOnSet(g, s)}
<1>1. {} \in T
    BY SumEmpty
<1>2. ASSUME NEW s \in SUBSET S, s # {}, \A x \in s : s \ {x} \in T
      PROVE  s \in T
    <2>1. PICK x \in s : TRUE
        BY <1>2
    <2>2. IsFiniteSet(s) /\ IsFiniteSet(s \ {x})
        BY FS_Subset
    <2>3. /\ SumFunctionOnSet(f, s) = f[x] + SumFunctionOnSet(f, s \ {x})
          /\ SumFunctionOnSet(g, s) = g[x] + SumFunctionOnSet(g, s \ {x})
        BY <2>2, SumAny
    <2>4. SumFunctionOnSet(f, s \ {x}) \in Nat /\ SumFunctionOnSet(g, s \ {x}) \in Nat
        BY <2>2, SumNat
    <2>5. SumFunctionOnSet(f, s \ {x}) <= SumFunctionOnSet(g, s \ {x})
        BY <1>2
    <2>6. f[x] \in Nat /\ g[x] \in Nat /\ f[x] <= g[x]
        OBVIOUS
    <2> QED  BY <2>3, <2>4, <2>5, <2>6
<1>3. T = SUBSET S
    <2> HIDE DEF T
    <2>1. T \in SUBSET SUBSET S
        BY DEF T
    <2> QED  BY <1>1, <1>2, <2>1, InductSets
<1> QED  BY <1>3

LEMMA SumSame ==
    ASSUME NEW f, NEW g, NEW S, IsFiniteSet(S), \A x \in S : f[x] \in Nat /\ g[x] = f[x]
    PROVE  SumFunctionOnSet(f, S) = SumFunctionOnSet(g, S)
<1>1. SumFunctionOnSet(f, S) <= SumFunctionOnSet(g, S) /\ SumFunctionOnSet(g, S) <= SumFunctionOnSet(f, S)
    BY SumLess
<1>2. SumFunctionOnSet(f, S) \in Nat /\ SumFunctionOnSet(g, S) \in Nat
    BY SumNat
<1> QED  BY <1>1, <1>2

\* A sum over two sets without a common member.
LEMMA SumUnion ==
    ASSUME NEW f, NEW A, NEW B, IsFiniteSet(A), IsFiniteSet(B), A \cap B = {},
           \A x \in A \union B : f[x] \in Nat
    PROVE  SumFunctionOnSet(f, A \union B) = SumFunctionOnSet(f, A) + SumFunctionOnSet(f, B)
<1> DEFINE T == {s \in SUBSET A : SumFunctionOnSet(f, s \union B) = SumFunctionOnSet(f, s) + SumFunctionOnSet(f, B)}
<1>0. SumFunctionOnSet(f, B) \in Nat
    BY SumNat
<1>1. {} \in T
    <2>1. {} \union B = B
        OBVIOUS
    <2> QED  BY <1>0, <2>1, SumEmpty
<1>2. ASSUME NEW s \in SUBSET A, s # {}, \A x \in s : s \ {x} \in T
      PROVE  s \in T
    <2>1. PICK x \in s : TRUE
        BY <1>2
    <2>2. IsFiniteSet(s) /\ IsFiniteSet(s \ {x}) /\ IsFiniteSet(s \union B)
        BY FS_Subset, FS_Union
    <2>3. SumFunctionOnSet(f, s) = f[x] + SumFunctionOnSet(f, s \ {x})
        BY <2>2, SumAny
    <2>4. SumFunctionOnSet(f, s \union B) = f[x] + SumFunctionOnSet(f, (s \union B) \ {x})
        BY <2>2, SumAny
    <2>5. (s \union B) \ {x} = (s \ {x}) \union B
        OBVIOUS
    <2>6. SumFunctionOnSet(f, (s \ {x}) \union B) = SumFunctionOnSet(f, s \ {x}) + SumFunctionOnSet(f, B)
        BY <1>2
    <2>7. f[x] \in Nat /\ SumFunctionOnSet(f, s \ {x}) \in Nat
        BY <2>2, SumNat
    <2> QED  BY <1>0, <2>3, <2>4, <2>5, <2>6, <2>7
<1>3. T = SUBSET A
    <2> HIDE DEF T
    <2>1. T \in SUBSET SUBSET A
        BY DEF T
    <2> QED  BY <1>1, <1>2, <2>1, InductSets
<1> QED  BY <1>3

\* Where the terms of the rest are zero.
LEMMA SumZero ==
    ASSUME NEW f, NEW S, IsFiniteSet(S), \A x \in S : f[x] = 0
    PROVE  SumFunctionOnSet(f, S) = 0
<1> DEFINE T == {s \in SUBSET S : SumFunctionOnSet(f, s) = 0}
<1>1. {} \in T
    BY SumEmpty
<1>2. ASSUME NEW s \in SUBSET S, s # {}, \A x \in s : s \ {x} \in T
      PROVE  s \in T
    <2>1. IsFiniteSet(s) /\ OneOf(s) \in s
        BY <1>2, FS_Subset, OneOfIt
    <2>2. SumFunctionOnSet(f, s) = f[OneOf(s)] + SumFunctionOnSet(f, s \ {OneOf(s)})
        BY <1>2, <2>1, SumStep
    <2>3. f[OneOf(s)] = 0 /\ SumFunctionOnSet(f, s \ {OneOf(s)}) = 0
        BY <1>2, <2>1
    <2> QED  BY <2>2, <2>3
<1>3. T = SUBSET S
    <2> HIDE DEF T
    <2>1. T \in SUBSET SUBSET S
        BY DEF T
    <2> QED  BY <1>1, <1>2, <2>1, InductSets
<1> QED  BY <1>3

LEMMA SumWithin ==
    ASSUME NEW f, NEW S, IsFiniteSet(S), \A x \in S : f[x] \in Nat,
           NEW R \in SUBSET S
    PROVE  /\ SumFunctionOnSet(f, R) <= SumFunctionOnSet(f, S)
           /\ (\A x \in S \ R : f[x] = 0) => SumFunctionOnSet(f, R) = SumFunctionOnSet(f, S)
<1>1. IsFiniteSet(R) /\ IsFiniteSet(S \ R) /\ R \cap (S \ R) = {} /\ R \union (S \ R) = S
    BY FS_Subset
<1>2. SumFunctionOnSet(f, S) = SumFunctionOnSet(f, R) + SumFunctionOnSet(f, S \ R)
    <2>1. SumFunctionOnSet(f, R \union (S \ R)) = SumFunctionOnSet(f, R) + SumFunctionOnSet(f, S \ R)
        BY <1>1, SumUnion
    <2>2. R \union (S \ R) = S
        OBVIOUS
    <2> QED  BY <2>1, <2>2, Zenon
<1>3. SumFunctionOnSet(f, R) \in Nat /\ SumFunctionOnSet(f, S \ R) \in Nat
    BY <1>1, SumNat
<1>4. (\A x \in S \ R : f[x] = 0) => SumFunctionOnSet(f, S \ R) = 0
    BY <1>1, SumZero
<1> QED  BY <1>1, <1>2, <1>3, <1>4

\* A sum of the sums of the parts.
LEMMA SumParts ==
    ASSUME NEW f, NEW A, IsFiniteSet(A), \A x \in A : f[x] \in Nat,
           NEW key, NEW K, IsFiniteSet(K), NEW g,
           \A k \in K : g[k] = SumFunctionOnSet(f, {x \in A : key[x] = k})
    PROVE  SumFunctionOnSet(g, K) = SumFunctionOnSet(f, {x \in A : key[x] \in K})
<1> DEFINE part(s) == {x \in A : key[x] \in s}
           T == {s \in SUBSET K : SumFunctionOnSet(g, s) = SumFunctionOnSet(f, part(s))}
<1>0. \A k \in K : g[k] \in Nat /\ g[k] = SumFunctionOnSet(f, part({k}))
    <2> SUFFICES ASSUME NEW k \in K
                 PROVE  g[k] \in Nat /\ g[k] = SumFunctionOnSet(f, part({k}))
        OBVIOUS
    <2>1. part({k}) = {x \in A : key[x] = k} /\ IsFiniteSet(part({k}))
        BY FS_Subset
    <2>2. SumFunctionOnSet(f, part({k})) \in Nat
        BY <2>1, SumNat
    <2> QED  BY <2>1, <2>2
<1>1. {} \in T
    <2>1. part({}) = {}
        OBVIOUS
    <2> QED  BY <2>1, SumEmpty
<1>2. ASSUME NEW s \in SUBSET K, s # {}, \A x \in s : s \ {x} \in T
      PROVE  s \in T
    <2>1. PICK k \in s : TRUE
        BY <1>2
    <2>2. IsFiniteSet(s)
        BY FS_Subset
    <2>3. SumFunctionOnSet(g, s) = g[k] + SumFunctionOnSet(g, s \ {k})
        <3>1. \A x \in s : g[x] \in Nat
            BY <1>0
        <3> QED  BY <2>2, <3>1, SumAny
    <2>4. /\ part({k}) \union part(s \ {k}) = part(s) /\ part({k}) \cap part(s \ {k}) = {}
          /\ part({k}) \in SUBSET A /\ part(s \ {k}) \in SUBSET A
        BY <2>1
    <2>5. IsFiniteSet(part({k})) /\ IsFiniteSet(part(s \ {k}))
        BY <2>4, FS_Subset
    <2>6. SumFunctionOnSet(g, s \ {k}) = SumFunctionOnSet(f, part(s \ {k}))
        BY <1>2
    <2>7. g[k] = SumFunctionOnSet(f, part({k}))
        BY <1>0
    <2> HIDE DEF part
    <2>8. SumFunctionOnSet(f, part({k}) \union part(s \ {k}))
             = SumFunctionOnSet(f, part({k})) + SumFunctionOnSet(f, part(s \ {k}))
        BY <2>4, <2>5, SumUnion
    <2> QED  BY <2>3, <2>4, <2>6, <2>7, <2>8
<1>3. T = SUBSET K
    <2> HIDE DEF T
    <2>1. T \in SUBSET SUBSET K
        BY DEF T
    <2> QED  BY <1>1, <1>2, <2>1, InductSets
<1> QED  BY <1>3
-----------------------------------------------------------------------------
(* The shape of the state.                                                 *)

USE DEF Dimensions, Groups

\* What one attempt leaves in the row of a dimension.
LEMMA AttemptedType ==
    ASSUME NEW old \in State, NEW at \in Nat, NEW result \in Coverage, NEW saved \in BOOLEAN
    PROVE  /\ Attempted(old, at, result, saved) \in State
           /\ Attempted(old, at, result, saved).attempt = IF at >= old.attempt THEN at ELSE old.attempt
           /\ at >= old.attempt => Attempted(old, at, result, saved).result = result
           /\ ~(at >= old.attempt) => Attempted(old, at, result, saved) = old
           /\ at >= old.attempt =>
                Attempted(old, at, result, saved).success = IF saved THEN at ELSE old.success
BY DEF State, Attempted, IsCurrent, Coverage

LEMMA StateOfType ==
    ASSUME NEW run \in Run, NEW dim \in Dimensions
    PROVE  StateOf(run, dim) \in Coverage
BY DEF StateOf, GroupStatus, Coverage

LEMMA InitInv == Init => ArchiveInv
<1> SUFFICES ASSUME Init PROVE ArchiveInv
  OBVIOUS
<1> USE DaysAssumption, RunsAssumption, AnswersAssumption, ManifestsAssumption
<1>1. TypeOK
  <2>1. runs \in [Runs -> Run]
    BY DEF Init, Run, FirstDay, Steps
  <2>2. site \in [Days -> SiteRow]
    BY DEF Init, SiteRow, NoRow
  <2>3. states \in [Days -> [Dimensions -> State]]
    BY DEF Init, State, NotTried
  <2>4. DOMAIN <<>> \subseteq Paths /\ DOMAIN <<>> \subseteq Sources
    OBVIOUS
  <2> QED
    BY <2>1, <2>2, <2>3, <2>4 DEF Init, TypeOK, NoRows
<1>2. ManifestFirst
  BY DEF Init, ManifestFirst
<1>3. OneAttemptPerAnswer
  BY DEF Init, OneAttemptPerAnswer, NotTried, NoRow, NoRows
<1> QED
  BY <1>1, <1>2, <1>3 DEF ArchiveInv

-----------------------------------------------------------------------------
(* The next state of the runs.                                             *)

RunsOK == runs \in [Runs -> Run] /\ ManifestFirst

LEMMA StepOK ==
    ASSUME RunsOK, NEW r \in Runs, NEW pc \in Steps, runs[r].pc # "due", Step(r, pc)
    PROVE  RunsOK'
BY DEF RunsOK, ManifestFirst, Step, Run

LEMMA AdvanceOK ==
    ASSUME RunsOK, NEW r \in Runs, runs[r].pc # "due", Advance(r)
    PROVE  RunsOK'
<1> USE RunsAssumption
<1>1. runs[r] \in Run /\ runs[r].manifest # 0 /\ LastDay(r) \in Days
  BY DEF RunsOK, ManifestFirst, LastDay
<1>2. runs'[r] \in Run /\ runs'[r].manifest = runs[r].manifest
  <2>1. CASE runs[r].day = LastDay(r)
    BY <1>1, <2>1 DEF Advance, RunsOK, Run, Steps
  <2>2. CASE runs[r].day # LastDay(r)
    BY <1>1, <2>2 DEF Advance, RunsOK, Run, Steps
  <2> QED
    BY <2>1, <2>2
<1>3. DOMAIN runs' = Runs /\ \A x \in Runs \ {r} : runs'[x] = runs[x]
  BY DEF Advance, RunsOK
<1>4. runs' = [x \in Runs |-> runs'[x]]
  BY <1>3 DEF Advance, RunsOK
<1> QED
  BY <1>1, <1>2, <1>3, <1>4 DEF RunsOK, ManifestFirst

LEMMA EndOK ==
    ASSUME RunsOK, NEW r \in Runs, runs[r].pc # "due", End(r)
    PROVE  RunsOK'
<1>1. runs[r] \in Run /\ runs[r].manifest # 0
  BY DEF RunsOK, ManifestFirst
<1>2. runs'[r] \in Run /\ runs'[r].manifest = runs[r].manifest
  BY <1>1 DEF End, RunsOK, Run, Steps
<1>3. DOMAIN runs' = Runs /\ \A x \in Runs \ {r} : runs'[x] = runs[x]
  BY DEF End, RunsOK
<1>4. runs' = [x \in Runs |-> runs'[x]]
  BY <1>3 DEF End, RunsOK
<1> QED
  BY <1>1, <1>2, <1>3, <1>4 DEF RunsOK, ManifestFirst

-----------------------------------------------------------------------------
(* The tables after the batch of a day.                                    *)

TablesOK ==
    /\ site \in [Days -> SiteRow]
    /\ DOMAIN pages = Days /\ DOMAIN referrers = Days
    /\ \A d \in Days : /\ DOMAIN pages[d].rows \subseteq Paths /\ pages[d].at \in Nat
                       /\ DOMAIN referrers[d].rows \subseteq Sources /\ referrers[d].at \in Nat
    /\ states \in [Days -> [Dimensions -> State]]
    /\ OneAttemptPerAnswer

NeverBack ==
    \A d \in Days :
          /\ site'[d].at >= site[d].at /\ pages'[d].at >= pages[d].at
          /\ referrers'[d].at >= referrers[d].at
          /\ \A dim \in Dimensions : /\ states'[d][dim].attempt >= states[d][dim].attempt
                                     /\ states'[d][dim].success >= states[d][dim].success

LEMMA StatesAfter ==
    ASSUME TablesOK, NEW d \in Days, NEW at \in Nat,
           NEW new \in [Dimensions -> Coverage], NEW saved \in [Dimensions -> BOOLEAN],
           states' = [states EXCEPT ![d] =
                        [dim \in Dimensions |-> Attempted(@[dim], at, new[dim], saved[dim])]]
    PROVE  /\ states' \in [Days -> [Dimensions -> State]]
           /\ \A x \in Days \ {d} : states'[x] = states[x]
           /\ \A dim \in Dimensions :
                states'[d][dim] = Attempted(states[d][dim], at, new[dim], saved[dim])
<1>1. \A dim \in Dimensions : Attempted(states[d][dim], at, new[dim], saved[dim]) \in State
  <2> SUFFICES ASSUME NEW dim \in Dimensions
               PROVE  Attempted(states[d][dim], at, new[dim], saved[dim]) \in State
    OBVIOUS
  <2> DEFINE old == states[d][dim]
             result == new[dim]
             ok == saved[dim]
  <2>1. old \in State /\ result \in Coverage /\ ok \in BOOLEAN
    BY DEF TablesOK
  <2> HIDE DEF old, result, ok
  <2>2. Attempted(old, at, result, ok) \in State
    BY <2>1, AttemptedType
  <2> QED
    BY <2>2 DEF old, result, ok
<1>2. states \in [Days -> [Dimensions -> State]]
  BY DEF TablesOK
<1>3. states'[d] = [dim \in Dimensions |-> Attempted(states[d][dim], at, new[dim], saved[dim])]
  BY <1>2
<1>4. states'[d] \in [Dimensions -> State]
  BY <1>1, <1>3
<1> QED
  BY <1>2, <1>3, <1>4

\* The shape of both batches: archiveDay's and recordFailure's.
Batch(d, at, new, saved, row, written, pageRows, sourceRows) ==
    /\ states' = [states EXCEPT ![d] =
                     [dim \in Dimensions |-> Attempted(@[dim], at, new[dim], saved[dim])]]
    /\ site' = IF written /\ at >= site[d].at THEN [site EXCEPT ![d] = row] ELSE site
    /\ pages' = IF new["pages"] = "complete" /\ at >= states[d]["pages"].attempt
                THEN [pages EXCEPT ![d] = [rows |-> pageRows, at |-> at]] ELSE pages
    /\ referrers' = IF new["referrers"] = "complete" /\ at >= states[d]["referrers"].attempt
                    THEN [referrers EXCEPT ![d] = [rows |-> sourceRows, at |-> at]] ELSE referrers

\* What a batch changes: its day, and of that what no newer attempt has written.
Effect(d, at, new, saved, row, written, pageRows, sourceRows, A) ==
    /\ A \in Nat /\ site[d].at \in Nat /\ pages[d].at \in Nat /\ referrers[d].at \in Nat
    /\ \A dim \in Dimensions : states[d][dim] \in State /\ states[d][dim].attempt = A
    /\ site[d].at <= A /\ pages[d].at <= A /\ referrers[d].at <= A
    /\ \A dim \in Dimensions : states[d][dim].success <= A
    /\ states' \in [Days -> [Dimensions -> State]]
    /\ \A dim \in Dimensions :
         /\ states'[d][dim] \in State
         /\ states'[d][dim].attempt = IF at >= A THEN at ELSE A
         /\ at >= A => /\ states'[d][dim].result = new[dim]
                       /\ states'[d][dim].success = IF saved[dim] THEN at ELSE states[d][dim].success
         /\ ~(at >= A) => states'[d][dim] = states[d][dim]
    /\ site' \in [Days -> SiteRow] /\ DOMAIN pages' = Days /\ DOMAIN referrers' = Days
    /\ \A x \in Days \ {d} : /\ site'[x] = site[x] /\ pages'[x] = pages[x]
                              /\ referrers'[x] = referrers[x] /\ states'[x] = states[x]
    /\ site'[d] = IF written /\ at >= site[d].at THEN row ELSE site[d]
    /\ pages'[d] = IF new["pages"] = "complete" /\ at >= A
                   THEN [rows |-> pageRows, at |-> at] ELSE pages[d]
    /\ referrers'[d] = IF new["referrers"] = "complete" /\ at >= A
                       THEN [rows |-> sourceRows, at |-> at] ELSE referrers[d]

LEMMA BatchEffect ==
    ASSUME TablesOK, NEW d \in Days, NEW at \in Nat \ {0, 1},
           NEW new \in [Dimensions -> Coverage], NEW saved \in [Dimensions -> BOOLEAN],
           NEW row \in SiteRow, NEW written \in BOOLEAN, NEW pageRows, NEW sourceRows,
           Batch(d, at, new, saved, row, written, pageRows, sourceRows),
           NEW A, A = states[d]["site"].attempt
    PROVE  Effect(d, at, new, saved, row, written, pageRows, sourceRows, A)
<1>1. /\ states' \in [Days -> [Dimensions -> State]]
      /\ \A x \in Days \ {d} : states'[x] = states[x]
      /\ \A dim \in Dimensions :
            states'[d][dim] = Attempted(states[d][dim], at, new[dim], saved[dim])
  BY StatesAfter DEF Batch
<1>2. /\ A \in Nat /\ site[d].at \in Nat /\ pages[d].at \in Nat /\ referrers[d].at \in Nat
      /\ \A dim \in Dimensions : states[d][dim] \in State /\ states[d][dim].attempt = A
      /\ site[d].at <= A /\ pages[d].at <= A /\ referrers[d].at <= A
      /\ \A dim \in Dimensions : states[d][dim].success <= A
  BY DEF TablesOK, OneAttemptPerAnswer, State, SiteRow
<1>3. \A dim \in Dimensions :
        /\ states'[d][dim] \in State
        /\ states'[d][dim].attempt = IF at >= A THEN at ELSE A
        /\ at >= A => /\ states'[d][dim].result = new[dim]
                      /\ states'[d][dim].success = IF saved[dim] THEN at ELSE states[d][dim].success
        /\ ~(at >= A) => states'[d][dim] = states[d][dim]
  <2> SUFFICES ASSUME NEW dim \in Dimensions
               PROVE  /\ states'[d][dim] \in State
                      /\ states'[d][dim].attempt = IF at >= A THEN at ELSE A
                      /\ at >= A => /\ states'[d][dim].result = new[dim]
                                    /\ states'[d][dim].success = IF saved[dim] THEN at ELSE states[d][dim].success
                      /\ ~(at >= A) => states'[d][dim] = states[d][dim]
    OBVIOUS
  <2>1. states[d][dim] \in State /\ states[d][dim].attempt = A
        /\ new[dim] \in Coverage /\ saved[dim] \in BOOLEAN /\ at \in Nat
    BY <1>2
  <2>2. states'[d][dim] = Attempted(states[d][dim], at, new[dim], saved[dim])
    BY <1>1
  <2> DEFINE old == states[d][dim]
             result == new[dim]
             ok == saved[dim]
             after == Attempted(old, at, result, ok)
  <2>3. /\ after \in State
        /\ after.attempt = IF at >= old.attempt THEN at ELSE old.attempt
        /\ at >= old.attempt => after.result = result
        /\ ~(at >= old.attempt) => after = old
        /\ at >= old.attempt => after.success = IF ok THEN at ELSE old.success
    <3> HIDE DEF old, result, ok
    <3>1. old \in State /\ at \in Nat /\ result \in Coverage /\ ok \in BOOLEAN
      BY <2>1 DEF old, result, ok
    <3> QED
      BY <3>1, AttemptedType
  <2>4. states'[d][dim] = after
    BY <2>2
  <2> HIDE DEF after
  <2> QED
    BY <2>1, <2>3, <2>4
<1>4. /\ site' \in [Days -> SiteRow] /\ DOMAIN pages' = Days /\ DOMAIN referrers' = Days
      /\ \A x \in Days \ {d} : site'[x] = site[x] /\ pages'[x] = pages[x]
                               /\ referrers'[x] = referrers[x]
  BY DEF TablesOK, Batch
<1>5. /\ site'[d] = IF written /\ at >= site[d].at THEN row ELSE site[d]
      /\ pages'[d] = IF new["pages"] = "complete" /\ at >= A
                     THEN [rows |-> pageRows, at |-> at] ELSE pages[d]
      /\ referrers'[d] = IF new["referrers"] = "complete" /\ at >= A
                         THEN [rows |-> sourceRows, at |-> at] ELSE referrers[d]
  BY <1>2 DEF TablesOK, Batch
<1> QED
  BY <1>1, <1>2, <1>3, <1>4, <1>5 DEF Effect

LEMMA BatchOK ==
    ASSUME TablesOK, NEW d \in Days, NEW at \in Nat \ {0, 1},
           NEW new \in [Dimensions -> Coverage], NEW saved \in [Dimensions -> BOOLEAN],
           NEW row \in SiteRow, row.at = at, NEW written \in BOOLEAN,
           written \/ \A dim \in Dimensions : new[dim] = "unavailable",
           NEW pageRows, new["pages"] = "complete" => DOMAIN pageRows \subseteq Paths,
           NEW sourceRows, DOMAIN sourceRows \subseteq Sources,
           Batch(d, at, new, saved, row, written, pageRows, sourceRows)
    PROVE  TablesOK' /\ NeverBack
<1> DEFINE A == states[d]["site"].attempt
<1>0. Effect(d, at, new, saved, row, written, pageRows, sourceRows, A)
  BY BatchEffect
<1> HIDE DEF A
<1>1. /\ states' \in [Days -> [Dimensions -> State]]
      /\ \A x \in Days \ {d} : states'[x] = states[x]
  BY <1>0 DEF Effect
<1>2. /\ A \in Nat /\ site[d].at \in Nat /\ pages[d].at \in Nat /\ referrers[d].at \in Nat
      /\ \A dim \in Dimensions : states[d][dim] \in State /\ states[d][dim].attempt = A
      /\ site[d].at <= A /\ pages[d].at <= A /\ referrers[d].at <= A
      /\ \A dim \in Dimensions : states[d][dim].success <= A
  BY <1>0 DEF Effect
<1>3. \A dim \in Dimensions :
        /\ states'[d][dim] \in State
        /\ states'[d][dim].attempt = IF at >= A THEN at ELSE A
        /\ at >= A => /\ states'[d][dim].result = new[dim]
                      /\ states'[d][dim].success = IF saved[dim] THEN at ELSE states[d][dim].success
        /\ ~(at >= A) => states'[d][dim] = states[d][dim]
  BY <1>0 DEF Effect
<1>4. /\ site' \in [Days -> SiteRow] /\ DOMAIN pages' = Days /\ DOMAIN referrers' = Days
      /\ \A x \in Days \ {d} : site'[x] = site[x] /\ pages'[x] = pages[x]
                               /\ referrers'[x] = referrers[x]
  BY <1>0 DEF Effect
<1>5. /\ site'[d].at = IF written /\ at >= site[d].at THEN at ELSE site[d].at
      /\ pages'[d] = IF new["pages"] = "complete" /\ at >= A
                     THEN [rows |-> pageRows, at |-> at] ELSE pages[d]
      /\ referrers'[d] = IF new["referrers"] = "complete" /\ at >= A
                         THEN [rows |-> sourceRows, at |-> at] ELSE referrers[d]
  BY <1>0 DEF Effect
<1>6. \A x \in Days : /\ DOMAIN pages'[x].rows \subseteq Paths /\ pages'[x].at \in Nat
                      /\ DOMAIN referrers'[x].rows \subseteq Sources /\ referrers'[x].at \in Nat
  BY <1>4, <1>5 DEF TablesOK
<1>7. \A dim \in Dimensions : states'[d][dim].success <= states'[d][dim].attempt
  BY <1>2, <1>3 DEF State
<1>8. /\ site'[d].at <= states'[d]["site"].attempt
      /\ pages'[d].at <= states'[d]["pages"].attempt
      /\ referrers'[d].at <= states'[d]["referrers"].attempt
      /\ \A dim \in Groups : states'[d][dim].attempt = states'[d]["site"].attempt
  BY <1>2, <1>3, <1>5
<1>9. states'[d]["pages"].result = "complete" =>
        /\ pages'[d].at > 0
        /\ pages'[d].at = states'[d]["pages"].attempt /\ site'[d].at = pages'[d].at
  <2>1. CASE at >= A
    BY <2>1, <1>2, <1>3, <1>5
  <2>2. CASE ~(at >= A)
    <3>1. states[d]["pages"].result = "complete" =>
             pages[d].at > 0 /\ pages[d].at = A /\ site[d].at = A
      BY <1>2 DEF TablesOK, OneAttemptPerAnswer
    <3> QED
      BY <2>2, <3>1, <1>2, <1>3, <1>5
  <2> QED
    BY <2>1, <2>2
<1>10. states'[d]["referrers"].result = "complete" =>
        /\ referrers'[d].at > 0
        /\ referrers'[d].at = states'[d]["referrers"].attempt /\ site'[d].at = referrers'[d].at
  <2>1. CASE at >= A
    BY <2>1, <1>2, <1>3, <1>5
  <2>2. CASE ~(at >= A)
    <3>1. states[d]["referrers"].result = "complete" =>
             referrers[d].at > 0 /\ referrers[d].at = A /\ site[d].at = A
      BY <1>2 DEF TablesOK, OneAttemptPerAnswer
    <3> QED
      BY <2>2, <3>1, <1>2, <1>3, <1>5
  <2> QED
    BY <2>1, <2>2
<1>11. OneAttemptPerAnswer'
  <2> DEFINE One(x) ==
        /\ \A dim \in Dimensions : states[x][dim].success <= states[x][dim].attempt
        /\ site[x].at <= states[x]["site"].attempt
        /\ pages[x].at <= states[x]["pages"].attempt
        /\ referrers[x].at <= states[x]["referrers"].attempt
        /\ \A dim \in Groups : states[x][dim].attempt = states[x]["site"].attempt
        /\ states[x]["pages"].result = "complete" =>
              /\ pages[x].at > 0
              /\ pages[x].at = states[x]["pages"].attempt /\ site[x].at = pages[x].at
        /\ states[x]["referrers"].result = "complete" =>
              /\ referrers[x].at > 0
              /\ referrers[x].at = states[x]["referrers"].attempt /\ site[x].at = referrers[x].at
  <2>1. One(d)'
    BY <1>7, <1>8, <1>9, <1>10
  <2>2. ASSUME NEW x \in Days \ {d} PROVE One(x)'
    <3>1. One(x)
      BY DEF TablesOK, OneAttemptPerAnswer
    <3>2. /\ site'[x] = site[x] /\ pages'[x] = pages[x]
          /\ referrers'[x] = referrers[x] /\ states'[x] = states[x]
      BY <1>1, <1>4
    <3> QED
      BY <3>1, <3>2
  <2>3. \A x \in Days : One(x)'
    BY <2>1, <2>2
  <2> QED
    BY <2>3 DEF OneAttemptPerAnswer
<1>12. TablesOK'
  BY <1>1, <1>4, <1>6, <1>11 DEF TablesOK
<1>13. NeverBack
  <2>1. /\ site'[d].at >= site[d].at /\ pages'[d].at >= pages[d].at
        /\ referrers'[d].at >= referrers[d].at
    BY <1>2, <1>5
  <2>2. \A dim \in Dimensions : /\ states'[d][dim].attempt >= states[d][dim].attempt
                                /\ states'[d][dim].success >= states[d][dim].success
    BY <1>2, <1>3 DEF State
  <2>3. \A x \in Days : site[x].at \in Nat /\ pages[x].at \in Nat /\ referrers[x].at \in Nat
                        /\ \A dim \in Dimensions : states[x][dim].attempt \in Nat
                                                   /\ states[x][dim].success \in Nat
    BY DEF TablesOK, SiteRow, State
  <2> QED
    BY <2>1, <2>2, <2>3, <1>1, <1>4 DEF NeverBack
<1> QED
  BY <1>12, <1>13

LEMMA UnchangedOK ==
    ASSUME TablesOK, UNCHANGED db
    PROVE  TablesOK' /\ NeverBack
BY DEF TablesOK, NeverBack, OneAttemptPerAnswer, db, SiteRow, State

-----------------------------------------------------------------------------
(* The two batches.                                                        *)

LEMMA FailureOK ==
    ASSUME TablesOK, NEW d \in Days, NEW at \in Nat \ {0, 1}, SaveFailure(d, at)
    PROVE  TablesOK' /\ NeverBack
<1> DEFINE new == [dim \in Dimensions |-> "unavailable"]
           saved == [dim \in Dimensions |-> FALSE]
           row == [total |-> 0, visits |-> 0, quality |-> "partial", at |-> at]
<1>1. new \in [Dimensions -> Coverage] /\ saved \in [Dimensions -> BOOLEAN] /\ row \in SiteRow
  BY DEF Coverage, SiteRow
<1>2. states' = [states EXCEPT ![d] =
                   [dim \in Dimensions |-> Attempted(@[dim], at, new[dim], saved[dim])]]
  BY DEF SaveFailure, TablesOK
<1>3. DOMAIN <<>> \subseteq Sources
  OBVIOUS
<1>4. row.at = at /\ new["pages"] # "complete" /\ new["referrers"] # "complete"
      /\ \A dim \in Dimensions : new[dim] = "unavailable"
  OBVIOUS
<1> DEFINE none == <<>>
<1>5. Batch(d, at, new, saved, row, FALSE, none, none)
  BY <1>2, <1>4 DEF SaveFailure, Batch
<1>6. DOMAIN none \subseteq Sources
  BY <1>3
<1> HIDE DEF new, saved, row, none
<1> QED
  BY <1>1, <1>4, <1>5, <1>6, BatchOK

LEMMA ArchiveOK ==
    ASSUME TablesOK, NEW d \in Days, NEW run \in Run, run.manifest # 0,
           NEW at \in Nat \ {0, 1},
           SaveSite(d, run, at), SaveGroups(d, run, at), SaveStates(d, run, at)
    PROVE  TablesOK' /\ NeverBack
<1> DEFINE new == [dim \in Dimensions |-> StateOf(run, dim)]
           saved == [dim \in Dimensions |-> dim = "site" \/ StateOf(run, dim) = "complete"]
           row == [total |-> run.site.total, visits |-> run.site.visits,
                   quality |-> Quality(run.site), at |-> at]
           pageRows == Regroup(run.pages, {}, Manifests[run.manifest])
           sourceRows == Regroup(run.referrers, OwnHosts, SourceKey)
<1>1. new \in [Dimensions -> Coverage] /\ saved \in [Dimensions -> BOOLEAN]
  BY StateOfType
<1>2. row \in SiteRow /\ row.at = at
  BY AnswersAssumption DEF Run, SiteRow, Quality, NoSite
<1>3. new["pages"] = "complete" => DOMAIN pageRows \subseteq Paths
  <2> SUFFICES ASSUME StateOf(run, "pages") = "complete" PROVE DOMAIN pageRows \subseteq Paths
    OBVIOUS
  <2>1. run.manifest \in DOMAIN Manifests
    BY DEF Run
  <2>2. DOMAIN run.pages \subseteq DOMAIN Manifests[run.manifest]
    BY DEF StateOf
  <2>3. \A p \in DOMAIN run.pages : Manifests[run.manifest][p] \in DOMAIN Manifests[run.manifest]
    BY <2>1, <2>2, ManifestsAssumption
  <2> QED
    BY <2>1, <2>3 DEF Regroup, Paths
<1>4. DOMAIN sourceRows \subseteq Sources
  <2>1. DOMAIN run.referrers \subseteq Hosts
    BY AnswersAssumption DEF Run, Hosts
  <2>2. \A h \in Hosts \ OwnHosts : SourceKey[h] \in Sources
    BY DEF SourceKey, Hosts, Sources
  <2> QED
    BY <2>1, <2>2 DEF Regroup
<1>5. states' = [states EXCEPT ![d] =
                   [dim \in Dimensions |-> Attempted(@[dim], at, new[dim], saved[dim])]]
  BY DEF SaveStates, TablesOK
<1>6. Batch(d, at, new, saved, row, TRUE, pageRows, sourceRows)
  BY <1>5 DEF SaveSite, SaveGroups, Replaces, IsCurrent, Batch
<1> HIDE DEF new, saved, row, pageRows, sourceRows
<1> QED
  BY <1>1, <1>2, <1>3, <1>4, <1>6, BatchOK

-----------------------------------------------------------------------------
LEMMA Split == ArchiveInv <=> /\ RunsOK /\ TablesOK
                             /\ today \in Nat /\ faults \in Nat /\ deployed \in DOMAIN Manifests
BY DEF ArchiveInv, RunsOK, TablesOK, TypeOK

LEMMA NextInv == ArchiveInv /\ [Next]_vars => ArchiveInv' /\ NeverBack
<1> SUFFICES ASSUME ArchiveInv, [Next]_vars PROVE ArchiveInv' /\ NeverBack
  OBVIOUS
<1>0. /\ RunsOK /\ TablesOK
      /\ today \in Nat /\ faults \in Nat /\ deployed \in DOMAIN Manifests
  BY Split
<1> DEFINE Rest == today' \in Nat /\ faults' \in Nat /\ deployed' \in DOMAIN Manifests
<1>a. ASSUME RunsOK', TablesOK', NeverBack, Rest PROVE ArchiveInv' /\ NeverBack
  BY <1>a, Split DEF ArchiveInv, RunsOK, TablesOK, TypeOK
<1>b. \A r \in Runs : /\ At[r] \in Nat \ {0, 1} /\ runs[r].day \in Days /\ runs[r] \in Run
                      /\ runs[r].pc # "due" => runs[r].manifest # 0
  BY <1>0, RunsAssumption DEF RunsOK, ManifestFirst, Run
<1>1. CASE UNCHANGED vars
  <2>1. RunsOK' /\ Rest
    BY <1>0, <1>1 DEF RunsOK, ManifestFirst, vars
  <2> QED
    BY <2>1, <1>0, <1>1, <1>a, UnchangedOK DEF vars, db
<1>2. CASE Tick
  <2>1. RunsOK' /\ Rest
    BY <1>0, <1>2 DEF RunsOK, ManifestFirst, Tick
  <2> QED
    BY <2>1, <1>0, <1>2, <1>a, UnchangedOK DEF Tick
<1>3. CASE Deploy
  <2>1. RunsOK' /\ Rest
    BY <1>0, <1>3, ManifestsAssumption DEF RunsOK, ManifestFirst, Deploy
  <2> QED
    BY <2>1, <1>0, <1>3, <1>a, UnchangedOK DEF Deploy
<1>4. ASSUME NEW r \in Runs, Start(r) PROVE ArchiveInv' /\ NeverBack
  <2>1. RunsOK' /\ Rest
    <3>1. deployed # 0
      BY <1>0, ManifestsAssumption
    <3>2. runs'[r] \in Run /\ runs'[r].manifest # 0
      BY <1>0, <1>b, <1>4, <3>1, ZenonT(60) DEF RunsOK, Start, Run, Steps
    <3>3. runs' = [x \in Runs |-> runs'[x]] /\ \A x \in Runs \ {r} : runs'[x] = runs[x]
      BY <1>0, <1>4 DEF RunsOK, Start
    <3> QED
      BY <1>0, <1>b, <1>4, <3>2, <3>3 DEF RunsOK, ManifestFirst, Start
  <2> QED
    BY <2>1, <1>0, <1>4, <1>a, UnchangedOK DEF Start
<1>5. ASSUME NEW r \in Runs, CheckMarker(r) PROVE ArchiveInv' /\ NeverBack
  <2>1. RunsOK' /\ Rest
    BY <1>0, <1>5, StepOK DEF CheckMarker, Steps
  <2> QED
    BY <2>1, <1>0, <1>5, <1>a, UnchangedOK DEF CheckMarker
<1>6. ASSUME NEW r \in Runs, ReadSettings(r) \/ ReadFails(r) PROVE ArchiveInv' /\ NeverBack
  <2>1. RunsOK' /\ Rest
    BY <1>0, <1>6, StepOK DEF ReadSettings, ReadFails, Steps
  <2> QED
    BY <2>1, <1>0, <1>6, <1>a, UnchangedOK DEF ReadSettings, ReadFails
<1>7. ASSUME NEW r \in Runs, NEW answer \in SiteAnswers, ReadSite(r, answer)
      PROVE  ArchiveInv' /\ NeverBack
  <2>1. RunsOK' /\ Rest
    BY <1>0, <1>7, ZenonT(60) DEF RunsOK, ManifestFirst, ReadSite, Run, Steps
  <2> QED
    BY <2>1, <1>0, <1>7, <1>a, UnchangedOK DEF ReadSite
<1>8. ASSUME NEW r \in Runs, NEW answer \in PageAnswers, ReadPages(r, answer)
      PROVE  ArchiveInv' /\ NeverBack
  <2>1. RunsOK' /\ Rest
    BY <1>0, <1>8, ZenonT(60) DEF RunsOK, ManifestFirst, ReadPages, Run, Steps
  <2> QED
    BY <2>1, <1>0, <1>8, <1>a, UnchangedOK DEF ReadPages
<1>9. ASSUME NEW r \in Runs, NEW answer \in SourceAnswers, ReadReferrers(r, answer)
      PROVE  ArchiveInv' /\ NeverBack
  <2>1. RunsOK' /\ Rest
    BY <1>0, <1>9, ZenonT(60) DEF RunsOK, ManifestFirst, ReadReferrers, Run, Steps
  <2> QED
    BY <2>1, <1>0, <1>9, <1>a, UnchangedOK DEF ReadReferrers
<1>10. ASSUME NEW r \in Runs, Archive(r) PROVE ArchiveInv' /\ NeverBack
  <2>1. RunsOK' /\ Rest
    BY <1>0, <1>10, AdvanceOK DEF Archive
  <2>2. TablesOK' /\ NeverBack
    BY <1>0, <1>b, <1>10, ArchiveOK DEF Archive
  <2> QED
    BY <2>1, <2>2, <1>a
<1>11. ASSUME NEW r \in Runs, RecordFailure(r) PROVE ArchiveInv' /\ NeverBack
  <2>1. RunsOK' /\ Rest
    BY <1>0, <1>11, AdvanceOK DEF RecordFailure
  <2>2. TablesOK' /\ NeverBack
    BY <1>0, <1>b, <1>11, FailureOK DEF RecordFailure
  <2> QED
    BY <2>1, <2>2, <1>a
<1>12. ASSUME NEW r \in Runs, BatchFails(r) PROVE ArchiveInv' /\ NeverBack
  <2>1. RunsOK' /\ Rest
    BY <1>0, <1>12, EndOK DEF BatchFails, Fault
  <2>2. TablesOK' /\ NeverBack
    BY <1>0, <1>b, <1>12, FailureOK DEF BatchFails
  <2> QED
    BY <2>1, <2>2, <1>a
<1>13. ASSUME NEW r \in Runs, Dies(r) PROVE ArchiveInv' /\ NeverBack
  <2>1. RunsOK' /\ Rest
    BY <1>0, <1>13, EndOK DEF Dies, Fault
  <2> QED
    BY <2>1, <1>0, <1>13, <1>a, UnchangedOK DEF Dies
<1> QED
  BY <1>1, <1>2, <1>3, <1>4, <1>5, <1>6, <1>7, <1>8, <1>9, <1>10, <1>11, <1>12, <1>13 DEF Next

\* For any days, deliveries, answers and faults, rows, totals and recorded
\* states of a day come from one attempt (archive.ts:29, :170, :190).
THEOREM Invariance == Spec => []ArchiveInv
<1>1. Init => ArchiveInv
  BY InitInv
<1>2. ArchiveInv /\ [Next]_vars => ArchiveInv'
  BY NextInv
<1> QED
  BY <1>1, <1>2, PTL DEF Spec

\* No attempt is overwritten by an older one, however the runs overlap
\* (docs/operations/statistics.md:81).
THEOREM NewerStays == Spec => OlderNeverOverwrites
<1>1. ArchiveInv /\ [Next]_vars => NeverBack
  BY NextInv
<1>2. ArchiveInv /\ [Next]_vars =>
        [\A d \in Days :
          /\ site'[d].at >= site[d].at /\ pages'[d].at >= pages[d].at
          /\ referrers'[d].at >= referrers[d].at
          /\ \A dim \in Dimensions : /\ states'[d][dim].attempt >= states[d][dim].attempt
                                     /\ states'[d][dim].success >= states[d][dim].success]_vars
  BY <1>1 DEF NeverBack
<1> QED
  BY <1>2, Invariance, PTL DEF Spec, OlderNeverOverwrites
-----------------------------------------------------------------------------
(* One fault leaves no day without an attempt.                             *)

\* A day has an attempt of this time or a later one.
Tried(d, at) == \A dim \in Dimensions : states[d][dim].attempt >= at

\* A run has tried every day it has left behind.
Reached(r) ==
    /\ runs[r].day = LastDay(r) \/ runs[r].pc = "ended" => Tried(FirstDay(r), At[r])
    /\ runs[r].pc = "ended" => Tried(LastDay(r), At[r])

\* Without a fault every run reaches its days; after one fault, all but one.
FaultInv ==
    /\ \A r \in Runs : runs[r].day \in {FirstDay(r), LastDay(r)}
    /\ faults = 0 => \A r \in Runs : Reached(r)
    /\ faults <= 1 => \A r, u \in Runs : ~Reached(r) /\ ~Reached(u) => r = u

LEMMA DaysOf ==
    ASSUME NEW r \in Runs
    PROVE  /\ At[r] \in Nat /\ FirstDay(r) \in Days /\ LastDay(r) \in Days
           /\ FirstDay(r) # LastDay(r)
BY RunsAssumption DEF FirstDay, LastDay

\* What was tried stays tried.
LEMMA TriedStays ==
    ASSUME ArchiveInv, ArchiveInv', NeverBack, NEW d \in Days, NEW at \in Nat, Tried(d, at)
    PROVE  Tried(d, at)'
<1> SUFFICES ASSUME NEW dim \in Dimensions PROVE states'[d][dim].attempt >= at
  BY DEF Tried
<1>1. states[d][dim].attempt \in Nat /\ states'[d][dim].attempt \in Nat
  BY DEF ArchiveInv, TypeOK, State
<1>2. states[d][dim].attempt >= at /\ states'[d][dim].attempt >= states[d][dim].attempt
  BY DEF Tried, NeverBack
<1> QED
  BY <1>1, <1>2

\* A run that stays where it is.
LEMMA Remains ==
    ASSUME ArchiveInv, ArchiveInv', NeverBack, NEW u \in Runs, Reached(u),
           runs'[u].day = runs[u].day, runs'[u].pc = "ended" => runs[u].pc = "ended"
    PROVE  Reached(u)'
<1>1. \A d \in Days : Tried(d, At[u]) => Tried(d, At[u])'
  BY DaysOf, TriedStays
<1> QED
  BY <1>1, DaysOf DEF Reached

\* Both batches record an attempt in every dimension.
LEMMA AttemptedAt ==
    ASSUME NEW old \in State, NEW at \in Nat, NEW result \in Coverage, NEW saved \in BOOLEAN
    PROVE  Attempted(old, at, result, saved).attempt >= at
<1>1. old.attempt \in Nat
  BY DEF State
<1> QED
  BY <1>1, AttemptedType

LEMMA BatchTries ==
    ASSUME ArchiveInv, NEW d \in Days, NEW at \in Nat, NEW run \in Run,
           SaveStates(d, run, at) \/ SaveFailure(d, at), NEW dim \in Dimensions
    PROVE  states'[d][dim].attempt >= at
<1>1. states[d][dim] \in State /\ states \in [Days -> [Dimensions -> State]]
  BY DEF ArchiveInv, TypeOK
<1>2. CASE SaveStates(d, run, at)
  <2> DEFINE saved == dim = "site" \/ StateOf(run, dim) = "complete"
  <2>1. states'[d][dim] = Attempted(states[d][dim], at, StateOf(run, dim), saved)
    BY <1>1, <1>2 DEF SaveStates
  <2>2. StateOf(run, dim) \in Coverage /\ saved \in BOOLEAN
    BY StateOfType
  <2> HIDE DEF saved
  <2> QED
    BY <1>1, <2>1, <2>2, AttemptedAt
<1>3. CASE SaveFailure(d, at)
  <2>1. states'[d][dim] = Attempted(states[d][dim], at, "unavailable", FALSE)
    BY <1>1, <1>3 DEF SaveFailure
  <2>2. "unavailable" \in Coverage /\ FALSE \in BOOLEAN
    BY DEF Coverage
  <2> QED
    BY <1>1, <2>1, <2>2, AttemptedAt
<1> QED
  BY <1>2, <1>3

\* A run goes on after the batch of its day.
LEMMA GoesOn ==
    ASSUME ArchiveInv, ArchiveInv', NeverBack, FaultInv, NEW r \in Runs,
           runs[r].pc \notin {"due", "ended"}, Advance(r),
           \A dim \in Dimensions : states'[runs[r].day][dim].attempt >= At[r]
    PROVE  /\ runs'[r].day \in {FirstDay(r), LastDay(r)}
           /\ Reached(r) => Reached(r)'
<1>0. runs \in [Runs -> Run] /\ runs[r] \in Run /\ runs[r].day \in {FirstDay(r), LastDay(r)}
  BY DEF ArchiveInv, TypeOK, FaultInv
<1>1. CASE runs[r].day = LastDay(r)
  <2>1. runs'[r].day = LastDay(r) /\ runs'[r].pc = "ended"
    <3>1. runs'[r] = [runs[r] EXCEPT !.pc = "ended", !.site = NoSite, !.pages = <<>>,
                                     !.referrers = <<>>]
      BY <1>0, <1>1 DEF Advance
    <3> QED
      BY <1>0, <1>1, <3>1 DEF Run
  <2>2. Reached(r) => Tried(FirstDay(r), At[r])'
    BY <1>1, DaysOf, TriedStays DEF Reached
  <2>3. Tried(LastDay(r), At[r])'
    BY <1>1 DEF Tried
  <2> QED
    BY <2>1, <2>2, <2>3 DEF Reached
<1>2. CASE runs[r].day # LastDay(r)
  <2>1. runs'[r].day = LastDay(r) /\ runs'[r].pc # "ended"
    BY <1>0, <1>2 DEF Advance, Run, Steps
  <2>2. Tried(FirstDay(r), At[r])'
    BY <1>0, <1>2 DEF Tried
  <2> QED
    BY <2>1, <2>2 DEF Reached
<1> QED
  BY <1>1, <1>2

\* Where no run is lost, what holds of the runs goes on to hold.
LEMMA NoFault ==
    ASSUME FaultInv, faults' = faults,
           \A r \in Runs : /\ runs'[r].day \in {FirstDay(r), LastDay(r)}
                           /\ Reached(r) => Reached(r)'
    PROVE  FaultInv'
BY DEF FaultInv

LEMMA OneMoves ==
    ASSUME ArchiveInv, ArchiveInv', NeverBack, FaultInv, faults' = faults, NEW r \in Runs,
           \A u \in Runs \ {r} : runs'[u] = runs[u],
           runs'[r].day \in {FirstDay(r), LastDay(r)}, Reached(r) => Reached(r)'
    PROVE  FaultInv'
<1>1. \A u \in Runs \ {r} : /\ runs'[u].day \in {FirstDay(u), LastDay(u)}
                            /\ Reached(u) => Reached(u)'
  BY Remains DEF FaultInv
<1> QED
  BY <1>1, NoFault

LEMMA RunsStay ==
    ASSUME ArchiveInv, ArchiveInv', NeverBack, FaultInv, faults' = faults, runs' = runs
    PROVE  FaultInv'
<1>1. \A u \in Runs : Reached(u) => Reached(u)'
  BY Remains
<1> QED
  BY <1>1, NoFault DEF FaultInv

\* A run that is lost is the only one.
LEMMA OneLost ==
    ASSUME ArchiveInv, ArchiveInv', NeverBack, FaultInv, NEW r \in Runs, End(r), Fault
    PROVE  FaultInv'
<1>1. faults \in Nat /\ faults' = faults + 1
  BY DEF ArchiveInv, TypeOK, Fault
<1>2. runs[r] \in Run /\ DOMAIN runs = Runs
  BY DEF ArchiveInv, TypeOK
<1>3. runs'[r].day = runs[r].day /\ \A u \in Runs \ {r} : runs'[u] = runs[u]
  BY <1>2 DEF End, Run
<1>4. \A u \in Runs \ {r} : Reached(u) => Reached(u)'
  BY <1>3, Remains
<1>5. \A u \in Runs : runs'[u].day \in {FirstDay(u), LastDay(u)}
  BY <1>3 DEF FaultInv
<1>6. faults' # 0 /\ (faults' <= 1 => faults = 0)
  BY <1>1
<1>7. faults' <= 1 => \A u \in Runs \ {r} : Reached(u)'
  BY <1>4, <1>6 DEF FaultInv
<1> QED
  BY <1>5, <1>6, <1>7 DEF FaultInv

LEMMA FaultStep == ArchiveInv /\ FaultInv /\ [Next]_vars => FaultInv'
<1> SUFFICES ASSUME ArchiveInv, FaultInv, [Next]_vars PROVE FaultInv'
  OBVIOUS
<1>0. ArchiveInv' /\ NeverBack
  BY NextInv
<1>d. /\ DOMAIN runs = Runs
      /\ \A r \in Runs : runs[r] \in Run /\ runs[r].day \in {FirstDay(r), LastDay(r)}
  BY DEF ArchiveInv, TypeOK, FaultInv
<1>1. CASE UNCHANGED vars \/ Tick \/ Deploy
  BY <1>0, <1>1, RunsStay DEF vars, Tick, Deploy
<1>2. ASSUME NEW r \in Runs, faults' = faults, \A u \in Runs \ {r} : runs'[u] = runs[u],
             runs'[r].day = runs[r].day, runs'[r].pc # "ended"
      PROVE  FaultInv'
  BY <1>0, <1>2, <1>d, Remains, OneMoves
<1>3. ASSUME NEW r \in Runs, Start(r) PROVE FaultInv'
  <2>1. /\ faults' = faults /\ \A u \in Runs \ {r} : runs'[u] = runs[u]
        /\ runs'[r].day = runs[r].day /\ runs'[r].pc # "ended"
    BY <1>3, <1>d DEF Start, Run
  <2> QED
    BY <2>1, <1>2
<1>4. ASSUME NEW r \in Runs, NEW pc \in Steps \ {"ended"}, Step(r, pc), faults' = faults
      PROVE  FaultInv'
  <2>1. /\ \A u \in Runs \ {r} : runs'[u] = runs[u]
        /\ runs'[r].day = runs[r].day /\ runs'[r].pc # "ended"
    BY <1>4, <1>d DEF Step, Run
  <2> QED
    BY <2>1, <1>2, <1>4
<1>5. ASSUME NEW r \in Runs, CheckMarker(r) \/ ReadSettings(r) \/ ReadFails(r) PROVE FaultInv'
  BY <1>4, <1>5 DEF CheckMarker, ReadSettings, ReadFails, Steps
<1>6. ASSUME NEW r \in Runs,
             \/ \E answer \in SiteAnswers : ReadSite(r, answer)
             \/ \E answer \in PageAnswers : ReadPages(r, answer)
             \/ \E answer \in SourceAnswers : ReadReferrers(r, answer)
      PROVE  FaultInv'
  <2>1. /\ faults' = faults /\ \A u \in Runs \ {r} : runs'[u] = runs[u]
        /\ runs'[r].day = runs[r].day /\ runs'[r].pc # "ended"
    BY <1>6, <1>d, ZenonT(60) DEF ReadSite, ReadPages, ReadReferrers, Run
  <2> QED
    BY <2>1, <1>2
<1>7. ASSUME NEW r \in Runs, Archive(r) \/ RecordFailure(r) PROVE FaultInv'
  <2>1. /\ runs[r].pc \notin {"due", "ended"} /\ Advance(r) /\ faults' = faults
        /\ SaveStates(runs[r].day, runs[r], At[r]) \/ SaveFailure(runs[r].day, At[r])
    BY <1>7 DEF Archive, RecordFailure
  <2> DEFINE d == runs[r].day
             at == At[r]
             run == runs[r]
  <2>2. d \in Days /\ at \in Nat /\ run \in Run
    BY <1>d, DaysOf
  <2>3. \A dim \in Dimensions : states'[d][dim].attempt >= at
    <3>1. SaveStates(d, run, at) \/ SaveFailure(d, at)
      BY <2>1
    <3> HIDE DEF d, at, run
    <3> QED
      BY <2>2, <3>1, BatchTries
  <2>4. /\ runs'[r].day \in {FirstDay(r), LastDay(r)}
        /\ Reached(r) => Reached(r)'
    BY <1>0, <2>1, <2>3, GoesOn
  <2>5. \A u \in Runs \ {r} : runs'[u] = runs[u]
    BY <1>d, <2>1 DEF Advance
  <2> QED
    BY <1>0, <2>1, <2>4, <2>5, OneMoves
<1>8. ASSUME NEW r \in Runs, BatchFails(r) \/ Dies(r) PROVE FaultInv'
  BY <1>0, <1>8, OneLost DEF BatchFails, Dies
<1> QED
  BY <1>1, <1>3, <1>5, <1>6, <1>7, <1>8 DEF Next

LEMMA FaultInit == Init => FaultInv
<1> SUFFICES ASSUME Init PROVE FaultInv
  OBVIOUS
<1>1. \A r \in Runs : runs[r].day = FirstDay(r) /\ runs[r].pc = "due"
  BY DEF Init
<1>2. \A r \in Runs : Reached(r)
  BY <1>1, DaysOf DEF Reached
<1> QED
  BY <1>1, <1>2 DEF FaultInv

\* The two runs of a day are two: one of them has reached it.
LEMMA FaultImplies == ArchiveInv /\ FaultInv => OneFaultLosesNoDay
<1> SUFFICES ASSUME ArchiveInv, FaultInv, NEW d \in Days, faults <= 1,
                    \A k \in 1..2 : \E r \in Runs : At[r] = d + k,
                    \A r \in Runs : d \in {FirstDay(r), LastDay(r)} => runs[r].pc = "ended",
                    NEW dim \in Dimensions
             PROVE  states[d][dim].attempt > d
  BY DEF OneFaultLosesNoDay
<1>1. PICK a \in Runs : At[a] = d + 1
  OBVIOUS
<1>2. PICK b \in Runs : At[b] = d + 2
  OBVIOUS
<1>3. d \in Nat /\ states[d][dim].attempt \in Nat
  BY DaysAssumption DEF ArchiveInv, TypeOK, State
<1>4. LastDay(a) = d /\ FirstDay(b) = d /\ a # b
  BY <1>1, <1>2, <1>3 DEF FirstDay, LastDay
<1>5. runs[a].pc = "ended" /\ runs[b].pc = "ended"
  BY <1>4
<1>6. Reached(a) \/ Reached(b)
  BY <1>4 DEF FaultInv
<1>7. Tried(d, d + 1) \/ Tried(d, d + 2)
  BY <1>1, <1>2, <1>4, <1>5, <1>6 DEF Reached
<1> QED
  BY <1>3, <1>7 DEF Tried

\* Every day is in two schedules, and no single fault costs it both: for any
\* days, deliveries and overlaps (index.ts:73, :86; archive.ts:241).
THEOREM OneFaultIsCovered == Spec => []OneFaultLosesNoDay
<1>1. ArchiveInv /\ FaultInv /\ [Next]_vars => FaultInv'
  BY FaultStep
<1> QED
  BY <1>1, FaultInit, FaultImplies, Invariance, PTL DEF Spec

-----------------------------------------------------------------------------
(* A ranking adds up to the total.                                         *)

\* Rows of finitely many counts.
Counts(rows) == IsFiniteSet(DOMAIN rows) /\ \A x \in DOMAIN rows : rows[x] \in Nat

\* A group that counts as complete adds up to the site's row, and a day
\* without that row has no rows at all.
AddsUp(d) ==
    /\ Counts(pages[d].rows) /\ Counts(referrers[d].rows)
    /\ site[d].at = 0 => pages[d].rows = <<>> /\ referrers[d].rows = <<>>
    /\ states[d]["pages"].result = "complete" => SumFunction(pages[d].rows) = site[d].total
    /\ states[d]["referrers"].result = "complete" => SumFunction(referrers[d].rows) <= site[d].visits

RowsAddUp == \A d \in Days : AddsUp(d)

LEMMA NothingCounts == Counts(<<>>) /\ SumFunction(<<>>) = 0
<1>1. DOMAIN <<>> = {}
  OBVIOUS
<1>2. SumFunction(<<>>) = 0
  BY <1>1, SumEmpty DEF SumFunction
<1>3. IsFiniteSet(DOMAIN <<>>)
  BY <1>1, FS_EmptySet
<1> QED
  BY <1>1, <1>2, <1>3 DEF Counts

\* Counting under new keys loses the dropped rows only.
LEMMA Regrouped ==
    ASSUME NEW rows, Counts(rows), NEW dropped, NEW keyOf
    PROVE  /\ Counts(Regroup(rows, dropped, keyOf))
           /\ SumFunction(Regroup(rows, dropped, keyOf)) = SumFunctionOnSet(rows, DOMAIN rows \ dropped)
<1> DEFINE A == DOMAIN rows \ dropped
           K == {keyOf[x] : x \in A}
           g == Regroup(rows, dropped, keyOf)
           m == [x \in A |-> keyOf[x]]
<1>1. IsFiniteSet(A) /\ \A x \in A : rows[x] \in Nat
  BY FS_Subset DEF Counts
<1>2. DOMAIN g = K /\ \A k \in K : g[k] = SumFunctionOnSet(rows, {x \in A : keyOf[x] = k})
  BY DEF Regroup
<1>3. IsFiniteSet(K)
  <2>1. m \in Surjection(A, K)
    BY DEF Surjection
  <2> HIDE DEF A, K, m
  <2> QED
    BY <1>1, <2>1, FS_Surjection
<1>4. {x \in A : keyOf[x] \in K} = A
  OBVIOUS
<1> HIDE DEF A, g
<1>5. \A k \in K : g[k] \in Nat
  <2> SUFFICES ASSUME NEW k \in K PROVE g[k] \in Nat
    OBVIOUS
  <2> DEFINE part == {x \in A : keyOf[x] = k}
  <2>1. IsFiniteSet(part) /\ \A x \in part : rows[x] \in Nat
    BY <1>1, FS_Subset
  <2>2. g[k] = SumFunctionOnSet(rows, part)
    BY <1>2
  <2> HIDE DEF part
  <2> QED
    BY <2>1, <2>2, SumNat
<1>6. SumFunctionOnSet(g, K) = SumFunctionOnSet(rows, A)
  <2> HIDE DEF K
  <2>1. SumFunctionOnSet(g, K) = SumFunctionOnSet(rows, {x \in A : keyOf[x] \in K})
    BY <1>1, <1>2, <1>3, SumParts
  <2> QED
    BY <1>4, <2>1, Zenon
<1> HIDE DEF K
<1>7. Counts(g) /\ SumFunction(g) = SumFunctionOnSet(rows, A)
  BY <1>2, <1>3, <1>5, <1>6 DEF Counts, SumFunction
<1> QED
  BY <1>7 DEF A, g

LEMMA AnswersCount ==
    ASSUME NEW run \in Run
    PROVE  Counts(run.pages) /\ Counts(run.referrers)
BY AnswersAssumption, NothingCounts DEF Run, Counts

\* What a complete answer is archived as.
LEMMA Archived ==
    ASSUME NEW run \in Run
    PROVE  /\ Counts(Regroup(run.pages, {}, Manifests[run.manifest]))
           /\ Counts(Regroup(run.referrers, OwnHosts, SourceKey))
           /\ StateOf(run, "pages") = "complete" =>
                 SumFunction(Regroup(run.pages, {}, Manifests[run.manifest])) = run.site.total
           /\ StateOf(run, "referrers") = "complete" =>
                 SumFunction(Regroup(run.referrers, OwnHosts, SourceKey)) <= run.site.visits
<1> DEFINE P == run.pages
           R == run.referrers
<1>1. Counts(P) /\ Counts(R)
  BY AnswersCount
<1>2. StateOf(run, "pages") = "complete" => SumFunction(P) = run.site.total
  BY DEF StateOf, GroupStatus
<1>3. StateOf(run, "referrers") = "complete" => SumFunction(R) = run.site.visits
  BY DEF StateOf, GroupStatus
<1> HIDE DEF P, R
<1>4. /\ Counts(Regroup(P, {}, Manifests[run.manifest]))
      /\ SumFunction(Regroup(P, {}, Manifests[run.manifest])) = SumFunction(P)
  <2>1. DOMAIN P \ {} = DOMAIN P
    OBVIOUS
  <2>2. /\ Counts(Regroup(P, {}, Manifests[run.manifest]))
        /\ SumFunction(Regroup(P, {}, Manifests[run.manifest])) = SumFunctionOnSet(P, DOMAIN P \ {})
    BY <1>1, Regrouped
  <2> QED
    BY <2>1, <2>2, Zenon DEF SumFunction
<1>5. /\ Counts(Regroup(R, OwnHosts, SourceKey))
      /\ SumFunction(Regroup(R, OwnHosts, SourceKey)) <= SumFunction(R)
  <2>1. /\ Counts(Regroup(R, OwnHosts, SourceKey))
        /\ SumFunction(Regroup(R, OwnHosts, SourceKey)) = SumFunctionOnSet(R, DOMAIN R \ OwnHosts)
    BY <1>1, Regrouped
  <2>2. SumFunctionOnSet(R, DOMAIN R \ OwnHosts) <= SumFunctionOnSet(R, DOMAIN R)
    BY <1>1, SumWithin DEF Counts
  <2> QED
    BY <2>1, <2>2 DEF SumFunction
<1> QED
  BY <1>2, <1>3, <1>4, <1>5 DEF P, R

\* A batch keeps the rows of its day adding up.
LEMMA BatchAddsUp ==
    ASSUME TablesOK, RowsAddUp, NEW d \in Days, NEW at \in Nat \ {0, 1},
           NEW new \in [Dimensions -> Coverage], NEW saved \in [Dimensions -> BOOLEAN],
           NEW row \in SiteRow, row.at = at, NEW written \in BOOLEAN,
           written \/ \A dim \in Dimensions : new[dim] = "unavailable",
           NEW pageRows, Counts(pageRows), NEW sourceRows, Counts(sourceRows),
           new["pages"] = "complete" => SumFunction(pageRows) = row.total,
           new["referrers"] = "complete" => SumFunction(sourceRows) <= row.visits,
           Batch(d, at, new, saved, row, written, pageRows, sourceRows)
    PROVE  RowsAddUp'
<1> DEFINE A == states[d]["site"].attempt
<1>0. Effect(d, at, new, saved, row, written, pageRows, sourceRows, A)
  BY BatchEffect
<1>1. /\ A \in Nat /\ site[d].at \in Nat /\ site[d].at <= A /\ AddsUp(d)
      /\ states[d]["pages"].result = "complete" => site[d].at = A
      /\ states[d]["referrers"].result = "complete" => site[d].at = A
  <2>1. A \in Nat /\ site[d].at \in Nat /\ site[d].at <= A
    BY <1>0 DEF Effect
  <2>2. \A dim \in Groups : states[d][dim].attempt = A
    BY <1>0 DEF Effect
  <2> QED
    BY <2>1, <2>2 DEF RowsAddUp, TablesOK, OneAttemptPerAnswer
<1> HIDE DEF A
<1>2. ASSUME NEW x \in Days \ {d} PROVE AddsUp(x)'
  <2>1. /\ site'[x] = site[x] /\ pages'[x] = pages[x]
        /\ referrers'[x] = referrers[x] /\ states'[x] = states[x]
    BY <1>0 DEF Effect
  <2> QED
    BY <2>1 DEF RowsAddUp, AddsUp
<1>3. /\ site'[d] = IF written /\ at >= site[d].at THEN row ELSE site[d]
      /\ pages'[d] = IF new["pages"] = "complete" /\ at >= A
                     THEN [rows |-> pageRows, at |-> at] ELSE pages[d]
      /\ referrers'[d] = IF new["referrers"] = "complete" /\ at >= A
                         THEN [rows |-> sourceRows, at |-> at] ELSE referrers[d]
  BY <1>0 DEF Effect
<1>4. \A dim \in Groups : states'[d][dim].result = IF at >= A THEN new[dim] ELSE states[d][dim].result
  BY <1>0 DEF Effect
<1>5. Counts(pages'[d].rows) /\ Counts(referrers'[d].rows)
  BY <1>1, <1>3 DEF AddsUp
<1>6. site'[d].at = 0 => pages'[d].rows = <<>> /\ referrers'[d].rows = <<>>
  <2> SUFFICES ASSUME site'[d].at = 0 PROVE pages'[d].rows = <<>> /\ referrers'[d].rows = <<>>
    OBVIOUS
  <2>1. ~(written /\ at >= site[d].at) /\ site'[d] = site[d]
    BY <1>3
  <2>2. pages'[d] = pages[d] /\ referrers'[d] = referrers[d]
    BY <1>1, <1>3, <2>1
  <2> QED
    BY <1>1, <2>1, <2>2 DEF AddsUp
<1>7. states'[d]["pages"].result = "complete" => SumFunction(pages'[d].rows) = site'[d].total
  <2> SUFFICES ASSUME states'[d]["pages"].result = "complete"
               PROVE  SumFunction(pages'[d].rows) = site'[d].total
    OBVIOUS
  <2>1. CASE at >= A
    <3>1. new["pages"] = "complete" /\ written /\ at >= site[d].at
      BY <1>1, <1>4, <2>1
    <3>2. pages'[d].rows = pageRows /\ site'[d] = row
      BY <1>3, <2>1, <3>1
    <3> QED
      BY <3>1, <3>2
  <2>2. CASE ~(at >= A)
    <3>1. states[d]["pages"].result = "complete"
      BY <1>4, <2>2
    <3>2. site'[d] = site[d] /\ pages'[d] = pages[d]
      BY <1>1, <1>3, <2>2, <3>1
    <3> QED
      BY <1>1, <3>1, <3>2 DEF AddsUp
  <2> QED
    BY <2>1, <2>2
<1>8. states'[d]["referrers"].result = "complete" => SumFunction(referrers'[d].rows) <= site'[d].visits
  <2> SUFFICES ASSUME states'[d]["referrers"].result = "complete"
               PROVE  SumFunction(referrers'[d].rows) <= site'[d].visits
    OBVIOUS
  <2>1. CASE at >= A
    <3>1. new["referrers"] = "complete" /\ written /\ at >= site[d].at
      BY <1>1, <1>4, <2>1
    <3>2. referrers'[d].rows = sourceRows /\ site'[d] = row
      BY <1>3, <2>1, <3>1
    <3> QED
      BY <3>1, <3>2
  <2>2. CASE ~(at >= A)
    <3>1. states[d]["referrers"].result = "complete"
      BY <1>4, <2>2
    <3>2. site'[d] = site[d] /\ referrers'[d] = referrers[d]
      BY <1>1, <1>3, <2>2, <3>1
    <3> QED
      BY <1>1, <3>1, <3>2 DEF AddsUp
  <2> QED
    BY <2>1, <2>2
<1>9. AddsUp(d)'
  BY <1>5, <1>6, <1>7, <1>8 DEF AddsUp
<1> QED
  BY <1>2, <1>9 DEF RowsAddUp

LEMMA FailureAddsUp ==
    ASSUME TablesOK, RowsAddUp, NEW d \in Days, NEW at \in Nat \ {0, 1}, SaveFailure(d, at)
    PROVE  RowsAddUp'
<1> DEFINE new == [dim \in Dimensions |-> "unavailable"]
           saved == [dim \in Dimensions |-> FALSE]
           row == [total |-> 0, visits |-> 0, quality |-> "partial", at |-> at]
           none == <<>>
<1>1. new \in [Dimensions -> Coverage] /\ saved \in [Dimensions -> BOOLEAN] /\ row \in SiteRow
  BY DEF Coverage, SiteRow
<1>2. states' = [states EXCEPT ![d] =
                   [dim \in Dimensions |-> Attempted(@[dim], at, new[dim], saved[dim])]]
  BY DEF SaveFailure, TablesOK
<1>3. row.at = at /\ new["pages"] # "complete" /\ new["referrers"] # "complete"
      /\ \A dim \in Dimensions : new[dim] = "unavailable"
  OBVIOUS
<1>4. Batch(d, at, new, saved, row, FALSE, none, none)
  BY <1>2, <1>3 DEF SaveFailure, Batch
<1>5. Counts(none)
  BY NothingCounts
<1> HIDE DEF new, saved, row, none
<1> QED
  BY <1>1, <1>3, <1>4, <1>5, BatchAddsUp

LEMMA ArchiveAddsUp ==
    ASSUME TablesOK, RowsAddUp, NEW d \in Days, NEW run \in Run, NEW at \in Nat \ {0, 1},
           SaveSite(d, run, at), SaveGroups(d, run, at), SaveStates(d, run, at)
    PROVE  RowsAddUp'
<1> DEFINE new == [dim \in Dimensions |-> StateOf(run, dim)]
           saved == [dim \in Dimensions |-> dim = "site" \/ StateOf(run, dim) = "complete"]
           row == [total |-> run.site.total, visits |-> run.site.visits,
                   quality |-> Quality(run.site), at |-> at]
           pageRows == Regroup(run.pages, {}, Manifests[run.manifest])
           sourceRows == Regroup(run.referrers, OwnHosts, SourceKey)
<1>1. new \in [Dimensions -> Coverage] /\ saved \in [Dimensions -> BOOLEAN]
  BY StateOfType
<1>2. row \in SiteRow /\ row.at = at
  BY AnswersAssumption DEF Run, SiteRow, Quality, NoSite
<1>3. Counts(pageRows) /\ Counts(sourceRows)
  BY Archived
<1>4. new["pages"] = "complete" => SumFunction(pageRows) = row.total
  BY Archived
<1>5. new["referrers"] = "complete" => SumFunction(sourceRows) <= row.visits
  BY Archived
<1>6. states' = [states EXCEPT ![d] =
                   [dim \in Dimensions |-> Attempted(@[dim], at, new[dim], saved[dim])]]
  BY DEF SaveStates, TablesOK
<1>7. Batch(d, at, new, saved, row, TRUE, pageRows, sourceRows)
  BY <1>6 DEF SaveSite, SaveGroups, Replaces, IsCurrent, Batch
<1> HIDE DEF new, saved, row, pageRows, sourceRows
<1> QED
  BY <1>1, <1>2, <1>3, <1>4, <1>5, <1>7, BatchAddsUp

LEMMA RowsInit == Init => RowsAddUp
<1> SUFFICES ASSUME Init, NEW d \in Days PROVE AddsUp(d)
  BY DEF RowsAddUp
<1>1. /\ site[d] = NoRow /\ pages[d] = NoRows /\ referrers[d] = NoRows
      /\ states[d]["pages"] = NotTried /\ states[d]["referrers"] = NotTried
  BY DEF Init
<1> QED
  BY <1>1, NothingCounts DEF AddsUp, NoRow, NoRows, NotTried

LEMMA RowsStep == ArchiveInv /\ RowsAddUp /\ [Next]_vars => RowsAddUp'
<1> SUFFICES ASSUME ArchiveInv, RowsAddUp, [Next]_vars PROVE RowsAddUp'
  OBVIOUS
<1>0. TablesOK /\ RunsOK
  BY Split
<1>1. \A r \in Runs : At[r] \in Nat \ {0, 1} /\ runs[r].day \in Days /\ runs[r] \in Run
  BY <1>0, RunsAssumption DEF RunsOK, Run
<1>2. ASSUME UNCHANGED db PROVE RowsAddUp'
  BY <1>2 DEF RowsAddUp, AddsUp, db
<1>3. CASE UNCHANGED vars \/ Tick \/ Deploy
  BY <1>2, <1>3 DEF vars, db, Tick, Deploy
<1>4. ASSUME NEW r \in Runs,
             Start(r) \/ CheckMarker(r) \/ ReadSettings(r) \/ ReadFails(r) \/ Dies(r)
      PROVE  RowsAddUp'
  BY <1>2, <1>4 DEF Start, CheckMarker, ReadSettings, ReadFails, Dies
<1>5. ASSUME NEW r \in Runs,
             \/ \E answer \in SiteAnswers : ReadSite(r, answer)
             \/ \E answer \in PageAnswers : ReadPages(r, answer)
             \/ \E answer \in SourceAnswers : ReadReferrers(r, answer)
      PROVE  RowsAddUp'
  BY <1>2, <1>5 DEF ReadSite, ReadPages, ReadReferrers
<1>6. ASSUME NEW r \in Runs, Archive(r) PROVE RowsAddUp'
  BY <1>0, <1>1, <1>6, ArchiveAddsUp DEF Archive
<1>7. ASSUME NEW r \in Runs, RecordFailure(r) \/ BatchFails(r) PROVE RowsAddUp'
  BY <1>0, <1>1, <1>7, FailureAddsUp DEF RecordFailure, BatchFails
<1> QED
  BY <1>3, <1>4, <1>5, <1>6, <1>7 DEF Next

\* The days of an answer are finitely many, and those without a row add nothing.
LEMMA DaysInRange ==
    ASSUME ArchiveInv, NEW length
    PROVE  /\ IsFiniteSet(InRange(length)) /\ IsFiniteSet(SiteDays(length))
           /\ SiteDays(length) \in SUBSET InRange(length) /\ InRange(length) \in SUBSET Days
<1>1. today \in Nat
  BY DEF ArchiveInv, TypeOK
<1>2. InRange(length) \in SUBSET (0..today)
  <2> SUFFICES ASSUME NEW d \in InRange(length) PROVE d \in 0..today
    OBVIOUS
  <2>1. d \in Days /\ d < today
    BY DEF InRange
  <2> QED
    BY <1>1, <2>1, DaysAssumption
<1>3. IsFiniteSet(0..today)
  BY <1>1, FS_Interval
<1>4. SiteDays(length) \in SUBSET InRange(length) /\ InRange(length) \in SUBSET Days
  BY DEF SiteDays, InRange
<1> QED
  BY <1>2, <1>3, <1>4, FS_Subset

LEMMA RankedRows ==
    ASSUME ArchiveInv, RowsAddUp, NEW group, group = pages \/ group = referrers, NEW length
    PROVE  /\ \A d \in Days : SumFunction(group[d].rows) \in Nat
           /\ Ranked(group, length) = SumFunctionOnSet([d \in Days |-> SumFunction(group[d].rows)], SiteDays(length))
<1> DEFINE f == [d \in Days |-> SumFunction(group[d].rows)]
           S == InRange(length)
           R == SiteDays(length)
<1>1. ASSUME NEW d \in Days
      PROVE  SumFunction(group[d].rows) \in Nat /\ (site[d].at = 0 => SumFunction(group[d].rows) = 0)
  <2>1. Counts(group[d].rows) /\ (site[d].at = 0 => group[d].rows = <<>>)
    BY DEF RowsAddUp, AddsUp
  <2>2. SumFunction(group[d].rows) \in Nat
    BY <2>1, SumNat DEF Counts, SumFunction
  <2> QED
    BY <2>1, <2>2, NothingCounts
<1>0. /\ IsFiniteSet(InRange(length)) /\ SiteDays(length) \in SUBSET InRange(length)
      /\ InRange(length) \in SUBSET Days
  BY DaysInRange
<1>2. \A d \in InRange(length) \ SiteDays(length) : site[d].at = 0
  <2> SUFFICES ASSUME NEW d \in InRange(length), d \notin SiteDays(length) PROVE site[d].at = 0
    OBVIOUS
  <2>1. site[d] \in SiteRow
    BY <1>0 DEF ArchiveInv, TypeOK
  <2>2. ~(site[d].at > 0)
    BY DEF SiteDays
  <2> QED
    BY <2>1, <2>2 DEF SiteRow
<1>3. Ranked(group, length) = SumFunctionOnSet(f, InRange(length))
  BY DEF Ranked
<1>4. IsFiniteSet(S) /\ R \in SUBSET S /\ S \in SUBSET Days /\ \A d \in S \ R : site[d].at = 0
  BY <1>0, <1>2
<1> HIDE DEF S, R
<1>5. (\A d \in S \ R : f[d] = 0) /\ \A d \in S : f[d] \in Nat
  <2>1. ASSUME NEW d \in S PROVE f[d] = SumFunction(group[d].rows) /\ d \in Days
    BY <1>4
  <2> HIDE DEF f
  <2>2. ASSUME NEW d \in S PROVE f[d] \in Nat /\ (d \notin R => f[d] = 0)
    BY <1>1, <1>4, <2>1
  <2> QED
    BY <2>2
<1> HIDE DEF f
<1>6. SumFunctionOnSet(f, R) = SumFunctionOnSet(f, S)
  BY <1>4, <1>5, SumWithin
<1> QED
  BY <1>1, <1>3, <1>6, Zenon DEF f, S, R

LEMMA RankingFollows == ArchiveInv /\ RowsAddUp => RankingMatchesTotal
<1> SUFFICES ASSUME ArchiveInv, RowsAddUp, NEW i \in DOMAIN Manifests, NEW length \in 1..Cardinality(Days)
             PROVE  /\ PagesReady(Manifests[i], length) => Ranked(pages, length) = Total(length)
                    /\ ReferrersReady(length) => Ranked(referrers, length) <= Visits(length)
  BY DEF RankingMatchesTotal
<1> DEFINE p == [d \in Days |-> SumFunction(pages[d].rows)]
           r == [d \in Days |-> SumFunction(referrers[d].rows)]
           t == [d \in Days |-> site[d].total]
           v == [d \in Days |-> site[d].visits]
           S == SiteDays(length)
<1>1. IsFiniteSet(S) /\ S \subseteq Days
  BY DaysInRange
<1>2. \A d \in Days : p[d] \in Nat /\ r[d] \in Nat /\ t[d] \in Nat /\ v[d] \in Nat
  BY RankedRows DEF ArchiveInv, TypeOK, SiteRow
<1>3. Ranked(pages, length) = SumFunctionOnSet(p, S) /\ Ranked(referrers, length) = SumFunctionOnSet(r, S)
  BY RankedRows
<1>4. Total(length) = SumFunctionOnSet(t, S) /\ Visits(length) = SumFunctionOnSet(v, S)
  BY DEF Total, Visits
<1>5. ASSUME PagesReady(Manifests[i], length) PROVE \A d \in S : p[d] = t[d]
  <2>1. \A d \in S : states[d]["pages"].result = "complete"
    BY <1>5 DEF PagesReady, Good
  <2> QED
    BY <1>1, <2>1 DEF RowsAddUp, AddsUp
<1>6. ASSUME ReferrersReady(length) PROVE \A d \in S : r[d] <= v[d]
  <2>1. \A d \in S : states[d]["referrers"].result = "complete"
    BY <1>6 DEF ReferrersReady, Good
  <2> QED
    BY <1>1, <2>1 DEF RowsAddUp, AddsUp
<1> HIDE DEF p, r, t, v, S
<1>7. ASSUME PagesReady(Manifests[i], length) PROVE Ranked(pages, length) = Total(length)
  BY <1>1, <1>2, <1>3, <1>4, <1>5, <1>7, SumSame
<1>8. ASSUME ReferrersReady(length) PROVE Ranked(referrers, length) <= Visits(length)
  BY <1>1, <1>2, <1>3, <1>4, <1>6, <1>8, SumLess
<1> QED
  BY <1>7, <1>8

\* For any days, deliveries, manifests and answers: whatever runs overlap or
\* fail, a ranking that the page shows adds up to the total above it, and its
\* referrers do not exceed the visits (api.ts:122, archive.ts:146).
THEOREM RankingsAddUp == Spec => []RankingMatchesTotal
<1>1. ArchiveInv /\ RowsAddUp /\ [Next]_vars => RowsAddUp'
  BY RowsStep
<1> QED
  BY <1>1, RowsInit, RankingFollows, Invariance, PTL DEF Spec
=============================================================================
