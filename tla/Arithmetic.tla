----------------------------- MODULE Arithmetic ------------------------------
(***************************************************************************)
(* Lemmas about sums, products and quotients, for the proofs of the        *)
(* modules that count tokens, shares and satoshis per holder or per task.  *)
(*                                                                         *)
(* Sums are SumFunction of the community modules: the sum of a function's  *)
(* values.  Products and quotients have lemmas of their own because the    *)
(* SMT solver is at its best when a step mentions one of them at a time.   *)
(*                                                                         *)
(* SumFunction is a recursion over the subsets of the domain.  That it     *)
(* obeys its recursion equation, and what it computes, is proved by        *)
(* induction over natural numbers and finite sets, stated here for sets    *)
(* (the elements for which a formula holds) and derived from the fact that *)
(* < is well founded on Nat.                                               *)
(***************************************************************************)
EXTENDS Integers, FiniteSets, Functions, FiniteSetTheorems, WellFoundedInduction, TLAPS

-----------------------------------------------------------------------------
(* Induction.                                                              *)

LEMMA LeastElement ==
    ASSUME NEW T \in SUBSET Nat, T # {}
    PROVE  \E n \in T : \A m \in T : n <= m
  <1> DEFINE R == OpToRel(<, Nat)
  <1>1. IsWellFoundedOn(R, Nat)
    BY NatLessThanWellFounded
  <1> HIDE DEF R
  <1>2. PICK n \in T : \A m \in T : ~(<<m, n>> \in R)
    BY <1>1, WFMin
  <1>3. \A m \in T : ~(m < n)
    BY <1>2 DEF R, OpToRel
  <1>4. QED
    BY <1>3

LEMMA NatInductionSet ==
    ASSUME NEW T \in SUBSET Nat, 0 \in T, \A n \in T : n + 1 \in T
    PROVE  T = Nat
  <1> SUFFICES ASSUME Nat \ T # {} PROVE FALSE
    OBVIOUS
  <1>1. PICK n \in Nat \ T : \A m \in Nat \ T : n <= m
    BY LeastElement
  <1>2. n - 1 \in T
    BY <1>1
  <1>3. QED
    BY <1>1, <1>2

\* A property of finite sets holds of S if it holds of a set that lacks nothing but
\* one of its elements.
LEMMA FiniteInductionSet ==
    ASSUME NEW S, IsFiniteSet(S), NEW T \in SUBSET SUBSET S, {} \in T,
           \A s \in SUBSET S : s # {} /\ (\A x \in s : s \ {x} \in T) => s \in T
    PROVE  T = SUBSET S
  <1> SUFFICES ASSUME (SUBSET S) \ T # {} PROVE FALSE
    OBVIOUS
  <1> DEFINE Sizes == {Cardinality(s) : s \in (SUBSET S) \ T}
  <1>1. \A s \in SUBSET S : IsFiniteSet(s) /\ Cardinality(s) \in Nat
    BY FS_Subset, FS_CardinalityType
  <1>2. Sizes \in SUBSET Nat /\ Sizes # {}
    BY <1>1
  <1>3. PICK n \in Sizes : \A m \in Sizes : n <= m
    BY <1>2, LeastElement
  <1>4. PICK s \in (SUBSET S) \ T : Cardinality(s) = n
    BY <1>3
  <1>5. ASSUME NEW x \in s PROVE s \ {x} \in T
    <2>1. s \ {x} \in SUBSET S /\ Cardinality(s \ {x}) = Cardinality(s) - 1
      BY <1>1, FS_RemoveElement
    <2>2. s \ {x} \notin T => Cardinality(s \ {x}) \in Sizes
      BY <2>1
    <2>3. QED
      BY <1>1, <1>3, <1>4, <2>1, <2>2
  <1>6. QED
    BY <1>4, <1>5

-----------------------------------------------------------------------------
(* The recursion of SumFunction.                                           *)

Chosen(s) == CHOOSE x \in s : TRUE

\* g is the table of the sums of f over every subset of its domain.
IsTable(g, f) ==
    g = [s \in SUBSET DOMAIN f |->
           IF s = {} THEN 0 ELSE f[Chosen(s)] + g[s \ {Chosen(s)}]]

SumOn(f, s) == (CHOOSE g : IsTable(g, f))[s]

LEMMA SumIsSumOn ==
    ASSUME NEW f
    PROVE  SumFunction(f) = SumOn(f, DOMAIN f)
  BY DEF SumFunction, SumFunctionOnSet, FoldFunctionOnSet, MapThenFoldSet,
         SumOn, IsTable, Chosen

LEMMA ChosenIn ==
    ASSUME NEW s, s # {}
    PROVE  Chosen(s) \in s
  BY DEF Chosen

\* The table exists: it can be filled in for larger and larger subsets.
LEMMA TableExists ==
    ASSUME NEW f, IsFiniteSet(DOMAIN f)
    PROVE  \E g : IsTable(g, f)
  <1> DEFINE D == DOMAIN f
             Upto(n) == {s \in SUBSET D : Cardinality(s) <= n}
             Partial(g, n) ==
                 g = [s \in Upto(n) |->
                        IF s = {} THEN 0 ELSE f[Chosen(s)] + g[s \ {Chosen(s)}]]
             T == {n \in Nat : \E g : Partial(g, n)}
  <1>1. \A s \in SUBSET D : /\ IsFiniteSet(s) /\ Cardinality(s) \in 0 .. Cardinality(D)
                            /\ Cardinality(s) = 0 <=> s = {}
    BY FS_Subset, FS_CardinalityType, FS_EmptySet
  <1>2. \A s \in SUBSET D : s # {} =>
            s \ {Chosen(s)} \in SUBSET D /\ Cardinality(s \ {Chosen(s)}) = Cardinality(s) - 1
    BY <1>1, ChosenIn, FS_RemoveElement
  <1>3. 0 \in T
    <2> DEFINE g == [s \in Upto(0) |-> 0]
    <2>1. \A s \in Upto(0) : s = {}
      BY <1>1
    <2>2. Partial(g, 0)
      BY <2>1
    <2>3. QED
      BY <2>2
  <1>4. ASSUME NEW n \in T PROVE n + 1 \in T
    <2>1. PICK g : Partial(g, n)
      BY <1>4
    <2> DEFINE h == [s \in Upto(n + 1) |->
                       IF s = {} THEN 0 ELSE f[Chosen(s)] + g[s \ {Chosen(s)}]]
    <2>2. \A s \in Upto(n) : h[s] = g[s]
      <3>1. \A s \in Upto(n) : s \in Upto(n + 1)
        BY <1>1
      <3>2. \A s \in Upto(n) : g[s] = IF s = {} THEN 0 ELSE f[Chosen(s)] + g[s \ {Chosen(s)}]
        BY <2>1
      <3>3. QED
        BY <3>1, <3>2
    <2>3. \A s \in Upto(n + 1) : s # {} => s \ {Chosen(s)} \in Upto(n)
      BY <1>1, <1>2
    <2>4. \A s \in Upto(n + 1) :
            h[s] = IF s = {} THEN 0 ELSE f[Chosen(s)] + h[s \ {Chosen(s)}]
      BY <2>2, <2>3
    <2>5. Partial(h, n + 1)
      <3>1. h = [s \in Upto(n + 1) |-> h[s]]
        OBVIOUS
      <3> HIDE DEF h
      <3>2. QED
        BY <2>4, <3>1
    <2> HIDE DEF h, Partial
    <2>6. n + 1 \in Nat /\ \E t : Partial(t, n + 1)
      BY <2>5
    <2>7. QED
      BY <2>6
  <1> HIDE DEF T
  <1>5. T \in SUBSET Nat
    BY DEF T
  <1>6. Cardinality(D) \in T
    BY <1>1, <1>3, <1>4, <1>5, NatInductionSet, FS_CardinalityType
  <1>7. PICK g : Partial(g, Cardinality(D))
    BY <1>6 DEF T
  <1>8. Upto(Cardinality(D)) = SUBSET D
    BY <1>1
  <1>9. IsTable(g, f)
    BY <1>7, <1>8 DEF IsTable
  <1>10. QED
    BY <1>9

LEMMA SumOnRecursion ==
    ASSUME NEW f, IsFiniteSet(DOMAIN f)
    PROVE  /\ SumOn(f, {}) = 0
           /\ \A s \in SUBSET DOMAIN f : s # {} =>
                SumOn(f, s) = f[Chosen(s)] + SumOn(f, s \ {Chosen(s)})
  <1> DEFINE g == CHOOSE t : IsTable(t, f)
  <1>1. IsTable(g, f)
    BY TableExists
  <1>2. \A s : SumOn(f, s) = g[s]
    BY DEF SumOn
  <1> HIDE DEF g
  <1>3. \A s \in SUBSET DOMAIN f : g[s] = IF s = {} THEN 0 ELSE f[Chosen(s)] + g[s \ {Chosen(s)}]
    BY <1>1 DEF IsTable
  <1>4. QED
    BY <1>2, <1>3

-----------------------------------------------------------------------------
(* What a sum is, and how it changes.                                      *)

LEMMA SumOnType ==
    ASSUME NEW D, IsFiniteSet(D), NEW f \in [D -> Int]
    PROVE  \A s \in SUBSET D : /\ SumOn(f, s) \in Int
                               /\ (\A x \in D : f[x] \in Nat) => SumOn(f, s) \in Nat
  <1> DEFINE T == {s \in SUBSET D : /\ SumOn(f, s) \in Int
                                    /\ (\A x \in D : f[x] \in Nat) => SumOn(f, s) \in Nat}
  <1>1. DOMAIN f = D
    OBVIOUS
  <1>2. {} \in T
    BY <1>1, SumOnRecursion
  <1>3. ASSUME NEW s \in SUBSET D, s # {}, \A x \in s : s \ {x} \in T PROVE s \in T
    <2>1. Chosen(s) \in s
      BY <1>3, ChosenIn
    <2>2. SumOn(f, s) = f[Chosen(s)] + SumOn(f, s \ {Chosen(s)})
      BY <1>1, <1>3, SumOnRecursion
    <2>3. QED
      BY <1>3, <2>1, <2>2
  <1>4. T \in SUBSET SUBSET D
    OBVIOUS
  <1> HIDE DEF T
  <1>5. T = SUBSET D
    BY <1>2, <1>3, <1>4, FiniteInductionSet
  <1>6. QED
    BY <1>5 DEF T

LEMMA SumType ==
    ASSUME NEW D, IsFiniteSet(D), NEW f \in [D -> Int]
    PROVE  /\ SumFunction(f) \in Int
           /\ (\A x \in D : f[x] \in Nat) => SumFunction(f) \in Nat
  <1>1. DOMAIN f = D /\ D \in SUBSET D
    OBVIOUS
  <1>2. QED
    BY <1>1, SumOnType, SumIsSumOn

\* The element that is taken off first makes no difference.
LEMMA SumOnAny ==
    ASSUME NEW D, IsFiniteSet(D), NEW f \in [D -> Int]
    PROVE  \A s \in SUBSET D : /\ SumOn(f, s) \in Int
                               /\ \A x \in s : SumOn(f, s) = f[x] + SumOn(f, s \ {x})
  <1> DEFINE T == {s \in SUBSET D : /\ SumOn(f, s) \in Int
                                    /\ \A x \in s : SumOn(f, s) = f[x] + SumOn(f, s \ {x})}
  <1>1. DOMAIN f = D
    OBVIOUS
  <1>2. {} \in T
    BY <1>1, SumOnRecursion
  <1>3. ASSUME NEW s \in SUBSET D, s # {}, \A x \in s : s \ {x} \in T PROVE s \in T
    <2> DEFINE y == Chosen(s)
    <2>1. y \in s
      BY <1>3, ChosenIn
    <2>2. SumOn(f, s) = f[y] + SumOn(f, s \ {y})
      BY <1>1, <1>3, SumOnRecursion
    <2> HIDE DEF y
    <2>3. SumOn(f, s) \in Int
      BY <1>3, <2>1, <2>2
    <2>4. ASSUME NEW x \in s, x # y PROVE SumOn(f, s) = f[x] + SumOn(f, s \ {x})
      <3> DEFINE both == s \ {x, y}
      <3>1. (s \ {y}) \ {x} = both /\ (s \ {x}) \ {y} = both /\ x \in s \ {y} /\ y \in s \ {x}
        BY <2>1, <2>4
      <3>2. SumOn(f, s \ {y}) = f[x] + SumOn(f, both)
        BY <1>3, <2>1, <3>1
      <3>3. SumOn(f, s \ {x}) = f[y] + SumOn(f, both)
        BY <1>3, <2>4, <3>1
      <3>4. SumOn(f, both) \in Int /\ f[x] \in Int /\ f[y] \in Int
        BY <2>1, SumOnType
      <3> HIDE DEF both
      <3>5. QED
        BY <2>2, <3>2, <3>3, <3>4
    <2>5. \A x \in s : SumOn(f, s) = f[x] + SumOn(f, s \ {x})
      BY <2>2, <2>4
    <2>6. QED
      BY <2>3, <2>5
  <1>4. T \in SUBSET SUBSET D
    OBVIOUS
  <1> HIDE DEF T
  <1>5. T = SUBSET D
    BY <1>2, <1>3, <1>4, FiniteInductionSet
  <1>6. QED
    BY <1>5 DEF T

LEMMA SumNat ==
    ASSUME NEW D, IsFiniteSet(D), NEW f \in [D -> Nat]
    PROVE  SumFunction(f) \in Nat
  <1>1. f \in [D -> Int] /\ \A x \in D : f[x] \in Nat
    OBVIOUS
  <1>2. QED
    BY <1>1, SumType

\* The values of h are those of f and c times those of g.
LEMMA SumLinear ==
    ASSUME NEW D, IsFiniteSet(D), NEW c \in Int,
           NEW f \in [D -> Int], NEW g \in [D -> Int], NEW h \in [D -> Int],
           \A x \in D : h[x] = f[x] + c * g[x]
    PROVE  SumFunction(h) = SumFunction(f) + c * SumFunction(g)
  <1> DEFINE T == {s \in SUBSET D : /\ SumOn(f, s) \in Int /\ SumOn(g, s) \in Int
                                    /\ SumOn(h, s) = SumOn(f, s) + c * SumOn(g, s)}
  <1>1. DOMAIN f = D /\ DOMAIN g = D /\ DOMAIN h = D
    OBVIOUS
  <1>2. {} \in T
    BY <1>1, SumOnRecursion
  <1>3. ASSUME NEW s \in SUBSET D, s # {}, \A x \in s : s \ {x} \in T PROVE s \in T
    <2> DEFINE x == Chosen(s)
               r == s \ {x}
    <2>1. x \in s /\ r \in T
      BY <1>3, ChosenIn
    <2>2. /\ SumOn(f, s) = f[x] + SumOn(f, r)
          /\ SumOn(g, s) = g[x] + SumOn(g, r)
          /\ SumOn(h, s) = h[x] + SumOn(h, r)
      BY <1>1, <1>3, SumOnRecursion
    <2>3. /\ f[x] \in Int /\ g[x] \in Int /\ h[x] = f[x] + c * g[x]
          /\ SumOn(f, r) \in Int /\ SumOn(g, r) \in Int
          /\ SumOn(h, r) = SumOn(f, r) + c * SumOn(g, r)
      BY <2>1
    <2>4. \A a, b \in Int : c * (a + b) = c * a + c * b
      OBVIOUS
    <2> HIDE DEF x, r
    <2>5. c * SumOn(g, s) = c * g[x] + c * SumOn(g, r)
      BY <2>2, <2>3, <2>4
    <2>6. c * g[x] \in Int /\ c * SumOn(g, r) \in Int
      BY <2>3
    <2>7. SumOn(h, s) = SumOn(f, s) + c * SumOn(g, s)
      BY <2>2, <2>3, <2>5, <2>6
    <2>8. QED
      BY <2>2, <2>3, <2>7
  <1>4. T \in SUBSET SUBSET D
    OBVIOUS
  <1> HIDE DEF T
  <1>5. T = SUBSET D
    BY <1>2, <1>3, <1>4, FiniteInductionSet
  <1>6. D \in T
    BY <1>5
  <1>7. QED
    BY <1>1, <1>6, SumIsSumOn DEF T

LEMMA SumSame ==
    ASSUME NEW D, IsFiniteSet(D), NEW f \in [D -> Int], NEW g \in [D -> Int],
           \A x \in D : g[x] = f[x]
    PROVE  SumFunction(g) = SumFunction(f)
  OBVIOUS

LEMMA SumZero ==
    ASSUME NEW D, IsFiniteSet(D), NEW f \in [D -> Int], \A x \in D : f[x] = 0
    PROVE  SumFunction(f) = 0
  <1>1. \A x \in D : f[x] = f[x] + 1 * f[x]
    OBVIOUS
  <1>2. SumFunction(f) = SumFunction(f) + 1 * SumFunction(f)
    BY <1>1, SumLinear
  <1>3. QED
    BY <1>2, SumType

\* Larger values, larger sum.
LEMMA SumMonotone ==
    ASSUME NEW D, IsFiniteSet(D), NEW f \in [D -> Int], NEW g \in [D -> Int],
           \A x \in D : f[x] <= g[x]
    PROVE  SumFunction(f) <= SumFunction(g)
  <1> DEFINE d == [x \in D |-> g[x] - f[x]]
  <1>1. d \in [D -> Int] /\ \A x \in D : d[x] \in Nat /\ g[x] = f[x] + 1 * d[x]
    OBVIOUS
  <1> HIDE DEF d
  <1>2. SumFunction(g) = SumFunction(f) + 1 * SumFunction(d)
    BY <1>1, SumLinear
  <1>3. SumFunction(d) \in Nat /\ SumFunction(f) \in Int
    BY <1>1, SumType
  <1>4. QED
    BY <1>2, <1>3

\* A function that is zero but at one point.
LEMMA SumPoint ==
    ASSUME NEW D, IsFiniteSet(D), NEW e \in D, NEW f \in [D -> Int],
           \A x \in D \ {e} : f[x] = 0
    PROVE  SumFunction(f) = f[e]
  <1> DEFINE T == {s \in SUBSET D : SumOn(f, s) = IF e \in s THEN f[e] ELSE 0}
  <1>1. DOMAIN f = D
    OBVIOUS
  <1>2. {} \in T
    BY <1>1, SumOnRecursion
  <1>3. ASSUME NEW s \in SUBSET D, s # {}, \A x \in s : s \ {x} \in T PROVE s \in T
    <2> DEFINE x == Chosen(s)
    <2>1. x \in s
      BY <1>3, ChosenIn
    <2>2. SumOn(f, s) = f[x] + SumOn(f, s \ {x})
      BY <1>1, <1>3, SumOnRecursion
    <2>3. SumOn(f, s \ {x}) = IF e \in s \ {x} THEN f[e] ELSE 0
      BY <1>3, <2>1
    <2> HIDE DEF x
    <2>4. CASE x = e
      BY <2>1, <2>2, <2>3, <2>4
    <2>5. CASE x # e
      BY <2>1, <2>2, <2>3, <2>5
    <2>6. QED
      BY <2>4, <2>5
  <1>4. T \in SUBSET SUBSET D
    OBVIOUS
  <1> HIDE DEF T
  <1>5. T = SUBSET D
    BY <1>2, <1>3, <1>4, FiniteInductionSet
  <1>6. D \in T
    BY <1>5
  <1>7. QED
    BY <1>1, <1>6, SumIsSumOn DEF T

\* One value changes.
LEMMA SumChange ==
    ASSUME NEW D, IsFiniteSet(D), NEW e \in D, NEW f \in [D -> Int], NEW g \in [D -> Int],
           \A x \in D \ {e} : g[x] = f[x]
    PROVE  SumFunction(g) = SumFunction(f) + g[e] - f[e]
  <1> DEFINE d == [x \in D |-> g[x] - f[x]]
  <1>1. d \in [D -> Int] /\ d[e] = g[e] - f[e] /\ \A x \in D \ {e} : d[x] = 0
    OBVIOUS
  <1>2. \A x \in D : g[x] = f[x] + 1 * d[x]
    OBVIOUS
  <1> HIDE DEF d
  <1>3. SumFunction(g) = SumFunction(f) + 1 * SumFunction(d)
    BY <1>1, <1>2, SumLinear
  <1>4. SumFunction(d) = d[e]
    BY <1>1, SumPoint
  <1>5. SumFunction(f) \in Int
    BY SumType
  <1>6. QED
    BY <1>1, <1>3, <1>4, <1>5

\* No value exceeds the sum.
LEMMA SumMember ==
    ASSUME NEW D, IsFiniteSet(D), NEW f \in [D -> Nat], NEW e \in D
    PROVE  f[e] <= SumFunction(f)
  <1> DEFINE g == [x \in D |-> IF x = e THEN f[e] ELSE 0]
  <1>1. g \in [D -> Int] /\ f \in [D -> Int] /\ g[e] = f[e]
    OBVIOUS
  <1>2. \A x \in D \ {e} : g[x] = 0
    OBVIOUS
  <1>3. \A x \in D : g[x] <= f[x]
    OBVIOUS
  <1> HIDE DEF g
  <1>4. QED
    BY <1>1, <1>2, <1>3, SumPoint, SumMonotone

\* One more element.
LEMMA SumExtend ==
    ASSUME NEW D, IsFiniteSet(D), NEW e, e \notin D, NEW E, E = D \cup {e},
           NEW f \in [D -> Int], NEW g \in [E -> Int], \A x \in D : g[x] = f[x]
    PROVE  SumFunction(g) = SumFunction(f) + g[e]
  <1> DEFINE T == {s \in SUBSET D : SumOn(g, s) = SumOn(f, s)}
  <1>1. DOMAIN f = D /\ DOMAIN g = E /\ IsFiniteSet(E) /\ E \ {e} = D
    BY FS_AddElement
  <1>2. {} \in T
    BY <1>1, SumOnRecursion
  <1>3. ASSUME NEW s \in SUBSET D, s # {}, \A x \in s : s \ {x} \in T PROVE s \in T
    <2> DEFINE y == Chosen(s)
    <2>1. y \in s
      BY <1>3, ChosenIn
    <2>2. SumOn(f, s) = f[y] + SumOn(f, s \ {y})
      BY <1>1, <1>3, SumOnRecursion
    <2>3. SumOn(g, s) = g[y] + SumOn(g, s \ {y})
      BY <1>1, <1>3, SumOnRecursion
    <2>4. QED
      BY <1>3, <2>1, <2>2, <2>3
  <1>4. T \in SUBSET SUBSET D
    OBVIOUS
  <1> HIDE DEF T
  <1>5. T = SUBSET D
    BY <1>2, <1>3, <1>4, FiniteInductionSet
  <1>6. SumOn(g, D) = SumOn(f, D)
    BY <1>5 DEF T
  <1>7. SumOn(g, E) = g[e] + SumOn(g, D) /\ SumOn(g, D) \in Int /\ g[e] \in Int
    BY <1>1, SumOnAny
  <1>8. QED
    BY <1>1, <1>6, <1>7, SumIsSumOn

\* A bound on every value bounds the sum.
LEMMA SumBounded ==
    ASSUME NEW D, IsFiniteSet(D), NEW c \in Int, NEW f \in [D -> Int], \A x \in D : f[x] <= c
    PROVE  SumFunction(f) <= c * Cardinality(D)
  <1> DEFINE T == {s \in SUBSET D : SumOn(f, s) \in Int /\ SumOn(f, s) <= c * Cardinality(s)}
  <1>1. DOMAIN f = D
    OBVIOUS
  <1>2. {} \in T
    BY <1>1, SumOnRecursion, FS_EmptySet
  <1>3. ASSUME NEW s \in SUBSET D, s # {}, \A x \in s : s \ {x} \in T PROVE s \in T
    <2> DEFINE x == Chosen(s)
               r == s \ {x}
    <2>1. x \in s /\ r \in T
      BY <1>3, ChosenIn
    <2>2. SumOn(f, s) = f[x] + SumOn(f, r)
      BY <1>1, <1>3, SumOnRecursion
    <2>3. f[x] \in Int /\ f[x] <= c /\ SumOn(f, r) \in Int /\ SumOn(f, r) <= c * Cardinality(r)
      BY <2>1
    <2>4. Cardinality(s) \in Nat /\ Cardinality(r) = Cardinality(s) - 1
      BY <2>1, FS_Subset, FS_CardinalityType, FS_RemoveElement
    <2>5. \A n \in Int : c * n = c + c * (n - 1)
      OBVIOUS
    <2> HIDE DEF x, r
    <2>6. c * Cardinality(s) = c + c * Cardinality(r)
      BY <2>4, <2>5
    <2>7. c * Cardinality(r) \in Int
      BY <2>4
    <2>8. SumOn(f, s) \in Int /\ SumOn(f, s) <= c * Cardinality(s)
      BY <2>2, <2>3, <2>6, <2>7
    <2>9. QED
      BY <2>8
  <1>4. T \in SUBSET SUBSET D
    OBVIOUS
  <1> HIDE DEF T
  <1>5. T = SUBSET D
    BY <1>2, <1>3, <1>4, FiniteInductionSet
  <1>6. D \in T
    BY <1>5
  <1>7. QED
    BY <1>1, <1>6, SumIsSumOn DEF T

-----------------------------------------------------------------------------
(* Products, and division that rounds down.                                *)

\* The quotient of two naturals is a natural.
LEMMA DivNat ==
    ASSUME NEW a \in Nat, NEW b \in Nat, b # 0
    PROVE  a \div b \in Nat
  BY SMT

LEMMA DivMod ==
    ASSUME NEW y \in Nat, NEW w \in Nat, w > 0
    PROVE  /\ y \div w \in Nat /\ y % w \in Nat /\ y % w < w
           /\ y = w * (y \div w) + (y % w)
  OBVIOUS

LEMMA ProductNat ==
    ASSUME NEW a \in Nat, NEW b \in Nat
    PROVE  a * b \in Nat
  OBVIOUS

LEMMA ProductMonotone ==
    ASSUME NEW n \in Nat, NEW a \in Nat, NEW b \in Nat, a <= b
    PROVE  n * a \in Nat /\ n * b \in Nat /\ n * a <= n * b
  OBVIOUS

LEMMA DivBelow ==
    ASSUME NEW y \in Nat, NEW w \in Nat, w > 0
    PROVE  y \div w \in Nat /\ w * (y \div w) \in Nat /\ w * (y \div w) <= y
  BY DivMod

LEMMA ModBelow ==
    ASSUME NEW x \in Nat, NEW w \in Nat, w > 0
    PROVE  (x + w) % w \in Nat /\ (x + w) % w <= x
  <1> DEFINE q == (x + w) \div w
             r == (x + w) % w
  <1>1. q \in Nat /\ r \in Nat /\ r < w /\ x + w = w * q + r
    BY DivMod
  <1> HIDE DEF q, r
  <1>2. q >= 1
    <2>1. q = 0 => w * q = 0
      OBVIOUS
    <2>2. QED
      BY <1>1, <2>1
  <1>3. w * 1 <= w * q /\ w * q \in Nat
    BY <1>1, <1>2, ProductMonotone
  <1>4. r <= x
    BY <1>1, <1>3
  <1>5. QED
    BY <1>1, <1>4 DEF r

\* A quotient is the largest factor that fits.
LEMMA DivAtLeast ==
    ASSUME NEW a \in Nat, NEW w \in Nat, w > 0, NEW y \in Nat, a * w <= y
    PROVE  a <= y \div w
  <1> DEFINE q == y \div w
             m == y % w
  <1>1. q \in Nat /\ m \in Nat /\ m < w /\ y = w * q + m
    BY DivMod
  <1> HIDE DEF q, m
  <1>2. ASSUME q < a PROVE FALSE
    <2>1. q + 1 \in Nat /\ q + 1 <= a
      BY <1>1, <1>2
    <2>2. w * (q + 1) \in Nat /\ w * a \in Nat /\ w * (q + 1) <= w * a
      BY <2>1, ProductMonotone
    <2>3. w * (q + 1) = w * q + w /\ w * a = a * w /\ w * q \in Nat
      BY <1>1
    <2>4. QED
      BY <1>1, <2>2, <2>3
  <1>3. QED
    BY <1>1, <1>2 DEF q

\* Two numbers below w that differ by a multiple of w are one.
LEMMA SameRest ==
    ASSUME NEW w \in Nat, w > 0, NEW r \in Nat, r < w, NEW s \in Nat, s < w,
           NEW k \in Int, r = s + k * w
    PROVE  r = s
  <1>1. CASE k = 0
    BY <1>1
  <1>2. CASE k >= 1
    <2>1. k \in Nat /\ w * 1 <= w * k /\ w * k \in Nat /\ k * w = w * k
      BY <1>2, ProductMonotone
    <2>2. QED
      BY <2>1
  <1>3. CASE k <= 0 - 1
    <2> DEFINE j == 0 - k
    <2>1. j \in Nat /\ 1 <= j
      BY <1>3
    <2>2. w * 1 <= w * j /\ w * j \in Nat
      BY <2>1, ProductMonotone
    <2>3. k * w = 0 - w * j
      OBVIOUS
    <2> HIDE DEF j
    <2>4. QED
      BY <2>2, <2>3
  <1>4. QED
    BY <1>1, <1>2, <1>3

\* Reduction modulo w takes off a multiple of w.
LEMMA ModCongruent ==
    ASSUME NEW w \in Nat, w > 0, NEW x \in Int
    PROVE  /\ x % w \in Nat /\ x % w < w
           /\ \E k \in Int : x % w = x + k * w
  <1> DEFINE q == x \div w
             m == x % w
  <1>1. q \in Int /\ m \in Nat /\ m < w /\ x = w * q + m
    OBVIOUS
  <1> HIDE DEF q, m
  <1>2. m = x + (0 - q) * w /\ 0 - q \in Int
    BY <1>1
  <1>3. QED
    BY <1>1, <1>2 DEF m

\* The number below w that is x up to a multiple of w is x reduced modulo w.
LEMMA ModUnique ==
    ASSUME NEW w \in Nat, w > 0, NEW x \in Int, NEW s \in Nat, s < w,
           NEW k \in Int, s = x + k * w
    PROVE  s = x % w
  <1> DEFINE m == x % w
  <1>1. m \in Nat /\ m < w /\ \E j \in Int : m = x + j * w
    BY ModCongruent
  <1> HIDE DEF m
  <1>2. PICK j \in Int : m = x + j * w
    BY <1>1
  <1>3. s = m + (k - j) * w /\ k - j \in Int
    BY <1>1, <1>2
  <1>4. s = m
    BY <1>1, <1>3, SameRest
  <1>5. QED
    BY <1>4 DEF m

\* Reduction modulo w does not enlarge, and leaves what is below w as it is.
LEMMA ModAtMost ==
    ASSUME NEW w \in Nat, w > 0, NEW x \in Nat
    PROVE  /\ x % w \in 0 .. (w - 1) /\ x % w \in Nat /\ x % w <= x
           /\ x < w => x % w = x
  <1> DEFINE q == x \div w
             m == x % w
  <1>1. q \in Nat /\ m \in Nat /\ m < w /\ x = w * q + m
    BY DivMod
  <1>2. x < w => x = m
    <2>1. x = x + 0 * w
      OBVIOUS
    <2>2. QED
      BY <2>1, ModUnique
  <1> HIDE DEF q, m
  <1>3. w * q \in Nat
    BY <1>1
  <1>4. QED
    BY <1>1, <1>2, <1>3 DEF m

=============================================================================
