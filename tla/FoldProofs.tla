------------------------------ MODULE FoldProofs ------------------------------
(***************************************************************************)
(* Facts about finite sets that the other proofs share: least members, what *)
(* the folds of the community modules compute, recursive functions on 0..n, *)
(* and ranks. A fold is the CHOOSE of a function on the subsets of its      *)
(* domain; where induction is needed, a smallest counterexample is taken    *)
(* instead.                                                                 *)
(***************************************************************************)
EXTENDS Integers, Sequences, FiniteSets, SequencesExt, FiniteSetsExt, Ordering,
        FiniteSetTheorems, WellFoundedInduction, TLAPS

------------------------------------------------------------------------------
(* Least and greatest members. *)

\* A nonempty set of naturals has a least element.
LEMMA LeastExists ==
    ASSUME NEW T, T \subseteq Nat, T # {}
    PROVE  \E x \in T : \A y \in T : x <= y
<1> DEFINE R == OpToRel(<, Nat)
<1>1. IsWellFoundedOn(R, Nat)
  BY NatLessThanWellFounded
<1>2. ASSUME NEW x \in Nat, NEW y \in Nat, y < x PROVE <<y, x>> \in R
  BY <1>2 DEF OpToRel
<1> HIDE DEF R
<1>3. PICK x \in T : \A y \in T : ~(<<y, x>> \in R)
  BY <1>1, WFMin
<1>4. ASSUME NEW y \in T PROVE x <= y
  <2>1. ~(y < x)
    BY <1>2, <1>3
  <2> QED
    BY <2>1
<1> QED
  BY <1>4

\* A finite nonempty set of integers has a greatest element.
LEMMA GreatestExists ==
    ASSUME NEW T, T \subseteq Int, T # {}, IsFiniteSet(T)
    PROVE  \E x \in T : \A y \in T : x >= y
<1> DEFINE Lacks(U) == /\ U \subseteq Int /\ U # {} /\ IsFiniteSet(U)
                       /\ \A x \in U : \E y \in U : ~(x >= y)
           Sizes == {n \in Nat : \E U : Lacks(U) /\ n = Cardinality(U)}
<1>1. SUFFICES ASSUME ~(\E x \in T : \A y \in T : x >= y) PROVE FALSE
  OBVIOUS
<1>2. Lacks(T)
  BY <1>1
<1>3. Sizes # {}
  BY <1>2, FS_CardinalityType
<1>4. PICK n \in Sizes : \A m \in Sizes : n <= m
  <2> HIDE DEF Sizes
  <2>1. Sizes \subseteq Nat
    BY DEF Sizes
  <2> QED
    BY <1>3, <2>1, LeastExists
<1>5. PICK U : Lacks(U) /\ n = Cardinality(U)
  BY <1>4
<1>6. PICK u \in U : TRUE
  BY <1>5
<1> DEFINE V == U \ {u}
<1>7. IsFiniteSet(V) /\ Cardinality(V) = n - 1 /\ V \subseteq Int /\ n \in Nat
  BY <1>4, <1>5, <1>6, FS_RemoveElement
<1>8. V # {}
  BY <1>5, <1>6
<1>9. Lacks(V)
  <2>1. ASSUME NEW x \in V, \A y \in V : x >= y PROVE FALSE
    <3>1. PICK y \in U : ~(x >= y)
      BY <1>5, <2>1
    <3>2. y = u
      BY <2>1, <3>1
    <3>3. \A z \in U : u >= z
      BY <1>5, <1>6, <2>1, <3>1, <3>2
    <3> QED
      BY <1>5, <1>6, <3>3
  <2> QED
    BY <1>7, <1>8, <2>1
<1>10. n - 1 \in Nat
  BY <1>7, FS_CardinalityType
<1>11. n - 1 \in Sizes
  BY <1>7, <1>9, <1>10
<1> QED
  BY <1>4, <1>7, <1>11

\* And a least one.
LEMMA FiniteLeast ==
    ASSUME NEW T, T \subseteq Int, T # {}, IsFiniteSet(T)
    PROVE  \E x \in T : \A y \in T : x <= y
<1> DEFINE N == {-x : x \in T}
           h == [x \in T |-> -x]
<1>1. IsFiniteSet(N)
  <2>1. h \in Surjection(T, N)
    BY DEF Surjection
  <2> HIDE DEF N, h
  <2> QED
    BY <2>1, FS_Surjection
<1>2. N \subseteq Int /\ N # {}
  <2>1. \A x \in T : -x \in Int
    OBVIOUS
  <2>2. PICK x \in T : TRUE
    OBVIOUS
  <2>3. -x \in N
    OBVIOUS
  <2> QED
    BY <2>1, <2>3
<1>3. PICK m \in N : \A y \in N : m >= y
  BY <1>1, <1>2, GreatestExists
<1>4. PICK x \in T : m = -x
  BY <1>3
<1>5. ASSUME NEW y \in T PROVE x <= y
  <2>1. -y \in N
    OBVIOUS
  <2>2. x \in Int /\ y \in Int
    OBVIOUS
  <2> HIDE DEF N, h
  <2>3. -x >= -y
    BY <1>3, <1>4, <2>1
  <2> QED
    BY <2>2, <2>3
<1> QED
  BY <1>5

\* A nonempty set of finite sets has a member none of whose parts is a member.
LEMMA SmallestSet ==
    ASSUME NEW D, IsFiniteSet(D), NEW T, T \subseteq SUBSET D, T # {}
    PROVE  \E s \in T : \A x \in s : s \ {x} \notin T
<1>1. IsWellFoundedOn(StrictSubsetOrdering(D), FiniteSubsetsOf(D))
  BY FS_StrictSubsetOrderingWellFounded
<1>2. T \subseteq FiniteSubsetsOf(D)
  BY FS_Subset DEF FiniteSubsetsOf
<1>3. PICK s \in T : \A t \in T : ~(<<t, s>> \in StrictSubsetOrdering(D))
  BY <1>1, <1>2, WFMin
<1>4. ASSUME NEW x \in s, s \ {x} \in T PROVE FALSE
  <2>1. <<s \ {x}, s>> \in StrictSubsetOrdering(D)
    BY <1>4 DEF StrictSubsetOrdering
  <2> QED
    BY <1>3, <1>4, <2>1
<1> QED
  BY <1>4

------------------------------------------------------------------------------
(* Folds. *)

\* c[s] is the member of s that is taken first.
Chooses(c, D) == \A s \in SUBSET D : s # {} => c[s] \in s

\* The equation of a fold over the subsets of D.
FoldsUp(g, D, c, base, step) ==
    g = [s \in SUBSET D |-> IF s = {} THEN base ELSE step[<<c[s], g[s \ {c[s]}]>>]]

\* The equation has a solution.
LEMMA FoldExists ==
    ASSUME NEW D, IsFiniteSet(D), NEW c, Chooses(c, D),
           NEW V, NEW base \in V, NEW step \in [D \X V -> V]
    PROVE  \E g \in [SUBSET D -> V] : FoldsUp(g, D, c, base, step)
<1> DEFINE Next(g, s) == IF s = {} THEN base ELSE step[<<c[s], g[s \ {c[s]}]>>]
           UpTo(n) == \E g \in [SUBSET D -> V] : \A s \in SUBSET D :
                         Cardinality(s) <= n => g[s] = Next(g, s)
           Bad == {n \in Nat : ~UpTo(n)}
<1>1. UpTo(0)
  <2> DEFINE g == [s \in SUBSET D |-> base]
  <2>1. ASSUME NEW s \in SUBSET D, Cardinality(s) <= 0 PROVE s = {}
    BY <2>1, FS_Subset, FS_EmptySet, FS_CardinalityType
  <2>2. \A s \in SUBSET D : Cardinality(s) <= 0 => g[s] = Next(g, s)
    BY <2>1
  <2> QED
    BY <2>2
<1>2. ASSUME NEW n \in Nat, UpTo(n) PROVE UpTo(n + 1)
  <2>1. PICK g \in [SUBSET D -> V] : \A s \in SUBSET D :
           Cardinality(s) <= n => g[s] = Next(g, s)
    BY <1>2
  <2> DEFINE h == [s \in SUBSET D |-> Next(g, s)]
  <2>2. ASSUME NEW s \in SUBSET D, s # {}
        PROVE  c[s] \in s /\ c[s] \in D /\ s \ {c[s]} \in SUBSET D
    BY <2>2 DEF Chooses
  <2>3. h \in [SUBSET D -> V]
    BY <2>2
  <2>4. ASSUME NEW s \in SUBSET D, Cardinality(s) <= n PROVE h[s] = g[s]
    BY <2>1, <2>4
  <2>5. ASSUME NEW s \in SUBSET D, Cardinality(s) <= n + 1
        PROVE  h[s] = Next(h, s)
    <3>1. CASE s = {}
      BY <3>1
    <3>2. CASE s # {}
      <4>1. IsFiniteSet(s)
        BY FS_Subset
      <4>2. /\ Cardinality(s \ {c[s]}) = Cardinality(s) - 1
            /\ Cardinality(s) \in Nat
        BY <2>2, <3>2, <4>1, FS_RemoveElement, FS_CardinalityType
      <4>3. Cardinality(s \ {c[s]}) <= n
        BY <2>5, <4>2
      <4> QED
        BY <2>2, <2>4, <3>2, <4>3
    <3> QED
      BY <3>1, <3>2
  <2> HIDE DEF h, Next
  <2> QED
    BY <2>3, <2>5
<1>3. ASSUME Bad # {} PROVE FALSE
  <2>1. PICK n \in Bad : \A m \in Bad : n <= m
    BY <1>3, LeastExists
  <2>2. n # 0
    BY <1>1, <2>1
  <2>3. n - 1 \in Nat /\ (n - 1) + 1 = n /\ ~(n <= n - 1)
    BY <2>1, <2>2
  <2>4. UpTo(n - 1)
    BY <2>1, <2>3
  <2> HIDE DEF UpTo
  <2> QED
    BY <1>2, <2>1, <2>3, <2>4
<1>4. UpTo(Cardinality(D))
  BY <1>3, FS_CardinalityType
<1>5. PICK g \in [SUBSET D -> V] : \A s \in SUBSET D :
         Cardinality(s) <= Cardinality(D) => g[s] = Next(g, s)
  BY <1>4
<1>6. \A s \in SUBSET D : g[s] = Next(g, s)
  BY <1>5, FS_Subset
<1> HIDE DEF Next
<1>7. g = [s \in SUBSET D |-> Next(g, s)]
  BY <1>6
<1> QED
  BY <1>7 DEF FoldsUp, Next

------------------------------------------------------------------------------
(* Sums over finite sets, whichever member is taken first. *)

\* The equation of MapThenSumSet and, up to the order of the terms, of FoldLeft.
AddsUp(g, D, f, c) ==
    g = [s \in SUBSET D |-> IF s = {} THEN 0 ELSE f[c[s]] + g[s \ {c[s]}]]

LEMMA SumExists ==
    ASSUME NEW D, IsFiniteSet(D), NEW f, \A x \in D : f[x] \in Int, NEW c, Chooses(c, D)
    PROVE  \E g : AddsUp(g, D, f, c)
<1> DEFINE step == [p \in D \X Int |-> f[p[1]] + p[2]]
<1>1. step \in [D \X Int -> Int]
  OBVIOUS
<1>2. PICK g \in [SUBSET D -> Int] : FoldsUp(g, D, c, 0, step)
  <2> HIDE DEF step
  <2>1. 0 \in Int
    OBVIOUS
  <2> QED
    BY <1>1, <2>1, FoldExists, Zenon
<1>3. ASSUME NEW s \in SUBSET D, s # {}
      PROVE  step[<<c[s], g[s \ {c[s]}]>>] = f[c[s]] + g[s \ {c[s]}]
  <2>1. c[s] \in D /\ g[s \ {c[s]}] \in Int
    BY <1>3 DEF Chooses
  <2> QED
    BY <2>1
<1> HIDE DEF step
<1>4. AddsUp(g, D, f, c)
  BY <1>2, <1>3 DEF FoldsUp, AddsUp
<1> QED
  BY <1>4

\* A sum of integers is one, and any member may be taken first.
LEMMA SumTakesAny ==
    ASSUME NEW D, IsFiniteSet(D), NEW f, \A x \in D : f[x] \in Int,
           NEW c, Chooses(c, D), NEW g, AddsUp(g, D, f, c)
    PROVE  /\ g[{}] = 0
           /\ \A s \in SUBSET D : g[s] \in Int
           /\ \A s \in SUBSET D : \A x \in s : g[s] = f[x] + g[s \ {x}]
<1>1. \A s \in SUBSET D : g[s] = IF s = {} THEN 0 ELSE f[c[s]] + g[s \ {c[s]}]
  BY DEF AddsUp
<1>2. g[{}] = 0
  BY <1>1
<1>3. \A s \in SUBSET D : s # {} => c[s] \in s /\ g[s] = f[c[s]] + g[s \ {c[s]}]
  BY <1>1 DEF Chooses
<1>4. \A s \in SUBSET D : g[s] \in Int
  <2> DEFINE Bad == {s \in SUBSET D : g[s] \notin Int}
  <2>1. ASSUME Bad # {} PROVE FALSE
    <3>1. PICK s \in Bad : \A x \in s : s \ {x} \notin Bad
      BY <2>1, SmallestSet
    <3>2. s # {}
      BY <1>2, <3>1
    <3>3. c[s] \in s /\ g[s] = f[c[s]] + g[s \ {c[s]}]
      BY <1>3, <3>1, <3>2
    <3>4. g[s \ {c[s]}] \in Int
      BY <3>1, <3>3
    <3> QED
      BY <3>1, <3>3, <3>4
  <2> QED
    BY <2>1
<1>5. \A s \in SUBSET D : \A x \in s : g[s] = f[x] + g[s \ {x}]
  <2> DEFINE Takes(s) == \A x \in s : g[s] = f[x] + g[s \ {x}]
             Bad == {s \in SUBSET D : ~Takes(s)}
  <2>1. ASSUME Bad # {} PROVE FALSE
    <3>1. PICK s \in Bad : \A x \in s : s \ {x} \notin Bad
      BY <2>1, SmallestSet
    <3>2. PICK x \in s : g[s] # f[x] + g[s \ {x}]
      BY <3>1
    <3> DEFINE y == c[s]
               r == (s \ {x}) \ {y}
    <3>3. y \in s /\ g[s] = f[y] + g[s \ {y}] /\ s \in SUBSET D
      BY <1>3, <3>1, <3>2
    <3>4. x # y
      BY <3>2, <3>3
    <3>5. /\ Takes(s \ {x}) /\ Takes(s \ {y})
          /\ y \in s \ {x} /\ x \in s \ {y}
          /\ (s \ {y}) \ {x} = r
          /\ s \ {x} \in SUBSET D /\ s \ {y} \in SUBSET D /\ r \in SUBSET D
      BY <3>1, <3>2, <3>3, <3>4
    <3>6. g[s \ {x}] = f[y] + g[r] /\ g[s \ {y}] = f[x] + g[r]
      BY <3>5
    <3>7. f[x] \in Int /\ f[y] \in Int /\ g[r] \in Int
      BY <1>4, <3>2, <3>3, <3>5
    <3> HIDE DEF y, r
    <3> QED
      BY <3>2, <3>3, <3>6, <3>7
  <2> QED
    BY <2>1
<1> QED
  BY <1>2, <1>4, <1>5

\* Sums of the same numbers are the same, whatever is taken first.
LEMMA SumsAgree ==
    ASSUME NEW D, IsFiniteSet(D), NEW f, \A x \in D : f[x] \in Int,
           NEW c, Chooses(c, D), NEW g, AddsUp(g, D, f, c),
           NEW E, IsFiniteSet(E), NEW e, \A x \in E : e[x] \in Int,
           NEW d, Chooses(d, E), NEW h, AddsUp(h, E, e, d),
           NEW T, T \subseteq D, T \subseteq E, \A x \in T : f[x] = e[x]
    PROVE  g[T] = h[T]
<1>1. /\ g[{}] = 0
      /\ \A s \in SUBSET D : \A x \in s : g[s] = f[x] + g[s \ {x}]
  BY SumTakesAny
<1>2. /\ h[{}] = 0
      /\ \A s \in SUBSET E : \A x \in s : h[s] = e[x] + h[s \ {x}]
  BY SumTakesAny
<1> DEFINE Bad == {s \in SUBSET T : g[s] # h[s]}
<1>3. ASSUME Bad # {} PROVE FALSE
  <2>1. IsFiniteSet(T)
    BY FS_Subset
  <2>2. PICK s \in Bad : \A x \in s : s \ {x} \notin Bad
    BY <1>3, <2>1, SmallestSet
  <2>3. PICK x : x \in s
    BY <1>1, <1>2, <2>2
  <2>4. g[s] = f[x] + g[s \ {x}] /\ h[s] = e[x] + h[s \ {x}]
    BY <1>1, <1>2, <2>2, <2>3
  <2>5. g[s \ {x}] = h[s \ {x}] /\ f[x] = e[x]
    BY <2>2, <2>3
  <2> QED
    BY <2>2, <2>4, <2>5
<1> QED
  BY <1>3

SumOf(f, S) == MapThenSumSet(LAMBDA x : f[x], S)

\* MapThenSumSet finds a function that adds up.
LEMMA SumOfAddsUp ==
    ASSUME NEW S, IsFiniteSet(S), NEW f, \A x \in S : f[x] \in Int
    PROVE  \E c, g : Chooses(c, S) /\ AddsUp(g, S, f, c) /\ SumOf(f, S) = g[S]
<1> DEFINE First(s) == CHOOSE x \in s : TRUE
           c == [s \in SUBSET S |-> First(s)]
           P(g) == g = [s \in SUBSET S |->
                          IF s = {} THEN 0 ELSE f[First(s)] + g[s \ {First(s)}]]
           g == CHOOSE g : P(g)
<1>1. Chooses(c, S)
  BY DEF Chooses
<1>2. \A h : AddsUp(h, S, f, c) <=> P(h)
  <2> HIDE DEF First
  <2> QED
    BY DEF AddsUp
<1>3. \E h : P(h)
  <2> HIDE DEF c, P
  <2> QED
    BY <1>1, <1>2, SumExists
<1>4. P(g)
  BY <1>3
<1>5. SumOf(f, S) = g[S]
  BY DEF SumOf, MapThenSumSet, MapThenFoldSet
<1> HIDE DEF c, P, g
<1> QED
  BY <1>1, <1>2, <1>4, <1>5

\* How a sum is reckoned.
LEMMA SumRules ==
    ASSUME NEW S, IsFiniteSet(S), NEW f, \A x \in S : f[x] \in Int
    PROVE  /\ SumOf(f, {}) = 0
           /\ SumOf(f, S) \in Int
           /\ \A x \in S : SumOf(f, S) = f[x] + SumOf(f, S \ {x})
<1>1. PICK c, g : Chooses(c, S) /\ AddsUp(g, S, f, c) /\ SumOf(f, S) = g[S]
  BY SumOfAddsUp
<1>2. ASSUME NEW T \in SUBSET S PROVE SumOf(f, T) = g[T]
  <2>1. IsFiniteSet(T)
    BY FS_Subset
  <2>2. PICK d, h : Chooses(d, T) /\ AddsUp(h, T, f, d) /\ SumOf(f, T) = h[T]
    BY <2>1, SumOfAddsUp
  <2> QED
    BY <1>1, <2>1, <2>2, SumsAgree
<1>3. /\ g[{}] = 0
      /\ \A s \in SUBSET S : g[s] \in Int
      /\ \A s \in SUBSET S : \A x \in s : g[s] = f[x] + g[s \ {x}]
  BY <1>1, SumTakesAny
<1>4. {} \in SUBSET S /\ S \in SUBSET S /\ \A x \in S : S \ {x} \in SUBSET S
  OBVIOUS
<1> QED
  BY <1>2, <1>3, <1>4



\* Sums of numbers that agree are equal, and any addition gives the sum.
LEMMA SumOfSame ==
    ASSUME NEW S, IsFiniteSet(S), NEW f, \A x \in S : f[x] \in Int,
           NEW e, \A x \in S : f[x] = e[x]
    PROVE  SumOf(f, S) = SumOf(e, S)
<1>1. PICK c, g : Chooses(c, S) /\ AddsUp(g, S, f, c) /\ SumOf(f, S) = g[S]
  BY SumOfAddsUp
<1>2. \A x \in S : e[x] \in Int
  OBVIOUS
<1>3. PICK d, h : Chooses(d, S) /\ AddsUp(h, S, e, d) /\ SumOf(e, S) = h[S]
  BY <1>2, SumOfAddsUp
<1>4. g[S] = h[S]
  BY <1>1, <1>2, <1>3, SumsAgree
<1> QED
  BY <1>1, <1>3, <1>4

LEMMA SumAnyway ==
    ASSUME NEW D, IsFiniteSet(D), NEW f, \A x \in D : f[x] \in Int,
           NEW c, Chooses(c, D), NEW g, AddsUp(g, D, f, c),
           NEW T, T \subseteq D
    PROVE  g[T] = SumOf(f, T)
<1>1. IsFiniteSet(T) /\ \A x \in T : f[x] \in Int
  BY FS_Subset
<1>2. PICK d, h : Chooses(d, T) /\ AddsUp(h, T, f, d) /\ SumOf(f, T) = h[T]
  BY <1>1, SumOfAddsUp
<1>3. g[T] = h[T]
  BY <1>1, <1>2, SumsAgree
<1> QED
  BY <1>2, <1>3

\* The sum over two sets without a common member.
LEMMA SumOfUnion ==
    ASSUME NEW S, IsFiniteSet(S), NEW T, IsFiniteSet(T), S \cap T = {},
           NEW f, \A x \in S \cup T : f[x] \in Int
    PROVE  SumOf(f, S \cup T) = SumOf(f, S) + SumOf(f, T)
<1> DEFINE Adds(s) == SumOf(f, s \cup T) = SumOf(f, s) + SumOf(f, T)
           Bad == {s \in SUBSET S : ~Adds(s)}
<1>1. SumOf(f, T) \in Int
  BY SumRules
<1>2. Adds({})
  <2>1. SumOf(f, {}) = 0
    BY SumRules
  <2> QED
    BY <1>1, <2>1
<1>3. ASSUME Bad # {} PROVE FALSE
  <2>1. PICK s \in Bad : \A x \in s : s \ {x} \notin Bad
    BY <1>3, SmallestSet
  <2>2. PICK x : x \in s
    BY <1>2, <2>1
  <2>3. Adds(s \ {x})
    BY <2>1, <2>2
  <2>4. /\ x \in S /\ s \subseteq S /\ x \notin T
        /\ IsFiniteSet(s) /\ IsFiniteSet(s \cup T) /\ IsFiniteSet(s \ {x})
    BY <2>1, <2>2, FS_Subset, FS_Union
  <2>5. SumOf(f, s) = f[x] + SumOf(f, s \ {x})
    BY <2>2, <2>4, SumRules
  <2>6. SumOf(f, s \cup T) = f[x] + SumOf(f, (s \cup T) \ {x})
    <3>1. \A y \in s \cup T : f[y] \in Int
      BY <2>4
    <3> QED
      BY <2>2, <2>4, <3>1, SumRules
  <2>7. (s \cup T) \ {x} = (s \ {x}) \cup T
    BY <2>4
  <2>8. SumOf(f, s \ {x}) \in Int /\ f[x] \in Int
    BY <2>4, SumRules
  <2>9. SumOf(f, (s \ {x}) \cup T) = SumOf(f, s \ {x}) + SumOf(f, T)
    BY <2>3
  <2>10. SumOf(f, s \cup T) = f[x] + SumOf(f, (s \ {x}) \cup T)
    BY <2>6, <2>7, Zenon
  <2>11. SumOf(f, s \cup T) = SumOf(f, s) + SumOf(f, T)
    BY <1>1, <2>5, <2>8, <2>9, <2>10
  <2> QED
    BY <2>1, <2>11
<1> QED
  BY <1>3

\* Sums are subtracted term by term.
LEMMA SumOfDifference ==
    ASSUME NEW S, IsFiniteSet(S), NEW f, \A x \in S : f[x] \in Int,
           NEW e, \A x \in S : e[x] \in Int,
           NEW d, \A x \in S : d[x] = f[x] - e[x]
    PROVE  SumOf(d, S) = SumOf(f, S) - SumOf(e, S)
<1> DEFINE Subtracts(s) == SumOf(d, s) = SumOf(f, s) - SumOf(e, s)
           Bad == {s \in SUBSET S : ~Subtracts(s)}
<1>1. \A x \in S : d[x] \in Int
  OBVIOUS
<1>2. Subtracts({})
  <2>1. SumOf(d, {}) = 0 /\ SumOf(f, {}) = 0 /\ SumOf(e, {}) = 0
    BY <1>1, SumRules
  <2> QED
    BY <2>1
<1>3. ASSUME Bad # {} PROVE FALSE
  <2>1. PICK s \in Bad : \A x \in s : s \ {x} \notin Bad
    BY <1>3, SmallestSet
  <2>2. PICK x : x \in s
    BY <1>2, <2>1
  <2>3. SumOf(d, s \ {x}) = SumOf(f, s \ {x}) - SumOf(e, s \ {x})
    BY <2>1, <2>2
  <2>4. x \in S /\ IsFiniteSet(s) /\ IsFiniteSet(s \ {x}) /\ s \subseteq S
    BY <2>1, <2>2, FS_Subset
  <2>5. /\ SumOf(d, s) = d[x] + SumOf(d, s \ {x})
        /\ SumOf(f, s) = f[x] + SumOf(f, s \ {x}) /\ SumOf(f, s \ {x}) \in Int
        /\ SumOf(e, s) = e[x] + SumOf(e, s \ {x}) /\ SumOf(e, s \ {x}) \in Int
    <3>1. \A y \in s : f[y] \in Int /\ e[y] \in Int /\ d[y] \in Int
      BY <1>1, <2>4
    <3> QED
      BY <2>2, <2>4, <3>1, SumRules
  <2>6. d[x] = f[x] - e[x] /\ f[x] \in Int /\ e[x] \in Int
    BY <2>4
  <2>7. Subtracts(s)
    BY <2>3, <2>5, <2>6
  <2> QED
    BY <2>1, <2>7
<1> QED
  BY <1>3

\* h gives every element of D one of E, and every element of E comes from one.
Pairs(h, D, E) ==
    /\ \A x, y \in D : h[x] = h[y] => x = y
    /\ \A x \in D : h[x] \in E
    /\ \A z \in E : \E x \in D : h[x] = z

\* A sum over E is one over D when h pairs the two.
LEMMA SumReindexed ==
    ASSUME NEW D, IsFiniteSet(D), NEW E, NEW h, Pairs(h, D, E),
           NEW f, \A x \in D : f[h[x]] \in Int,
           NEW e, \A x \in D : e[x] = f[h[x]]
    PROVE  SumOf(e, D) = SumOf(f, E)
<1> DEFINE Of(s) == {h[x] : x \in s}
           Agrees(s) == SumOf(e, s) = SumOf(f, Of(s))
           Bad == {s \in SUBSET D : ~Agrees(s)}
<1>1. Agrees({})
  <2>1. Of({}) = {} /\ \A x \in {} : e[x] \in Int /\ f[x] \in Int
    OBVIOUS
  <2>2. SumOf(e, {}) = 0 /\ SumOf(f, {}) = 0
    BY <2>1, FS_EmptySet, SumRules
  <2> QED
    BY <2>1, <2>2
<1>2. ASSUME Bad # {} PROVE FALSE
  <2>1. PICK s \in Bad : \A x \in s : s \ {x} \notin Bad
    BY <1>2, SmallestSet
  <2>2. PICK x : x \in s
    BY <1>1, <2>1
  <2>3. SumOf(e, s \ {x}) = SumOf(f, Of(s \ {x}))
    BY <2>1, <2>2
  <2>4. x \in D /\ s \subseteq D /\ IsFiniteSet(s)
    BY <2>1, <2>2, FS_Subset
  <2>5. IsFiniteSet(Of(s))
    <3> DEFINE g == [y \in s |-> h[y]]
    <3>1. g \in Surjection(s, Of(s))
      BY DEF Surjection
    <3> HIDE DEF Of, g
    <3> QED
      BY <2>4, <3>1, FS_Surjection
  <2>6. h[x] \in Of(s) /\ Of(s) \ {h[x]} = Of(s \ {x})
    BY <2>2, <2>4 DEF Pairs
  <2>7. \A y \in s : e[y] \in Int
    BY <2>4
  <2>8. \A y \in Of(s) : f[y] \in Int
    BY <2>4
  <2> HIDE DEF Of
  <2>9. SumOf(e, s) = e[x] + SumOf(e, s \ {x})
    BY <2>2, <2>4, <2>7, SumRules
  <2>10. SumOf(f, Of(s)) = f[h[x]] + SumOf(f, Of(s) \ {h[x]})
    BY <2>5, <2>6, <2>8, SumRules
  <2>11. e[x] = f[h[x]]
    BY <2>4
  <2> QED
    BY <2>1, <2>3, <2>6, <2>9, <2>10, <2>11
<1>3. Agrees(D)
  BY <1>2
<1>4. Of(D) = E
  BY DEF Pairs
<1> HIDE DEF Of
<1> QED
  BY <1>3, <1>4

\* f is a table over D and E of integers, and its row for y adds up to r[y].
Rows(f, row, r, D, E) ==
    \A y \in E :
        /\ \A x \in D : f[<<x, y>>] = row[y][x] /\ row[y][x] \in Int
        /\ r[y] = SumOf(row[y], D)

\* A table is added up row by row.
LEMMA SumByRows ==
    ASSUME NEW D, IsFiniteSet(D), NEW E, IsFiniteSet(E),
           NEW f, NEW row, NEW r, Rows(f, row, r, D, E)
    PROVE  SumOf(f, D \X E) = SumOf(r, E)
<1> DEFINE Agrees(s) == SumOf(f, D \X s) = SumOf(r, s)
           Bad == {s \in SUBSET E : ~Agrees(s)}
<1>1. Agrees({})
  <2>1. D \X {} = {} /\ \A x \in {} : f[x] \in Int /\ r[x] \in Int
    OBVIOUS
  <2>2. SumOf(f, {}) = 0 /\ SumOf(r, {}) = 0
    BY <2>1, FS_EmptySet, SumRules
  <2> QED
    BY <2>1, <2>2
<1>2. ASSUME NEW y \in E
      PROVE  r[y] \in Int /\ SumOf(f, D \X {y}) = r[y]
  <2> DEFINE h == [x \in D |-> <<x, y>>]
             e == row[y]
             Row == D \X {y}
  <2>1. /\ Pairs(h, D, Row)
        /\ \A x \in D : f[h[x]] \in Int /\ e[x] = f[h[x]] /\ e[x] \in Int
    BY DEF Pairs, Rows
  <2>2. r[y] = SumOf(e, D)
    BY DEF Rows
  <2> HIDE DEF h, e, Row
  <2>3. SumOf(e, D) = SumOf(f, Row)
    BY <2>1, SumReindexed
  <2>4. SumOf(e, D) \in Int
    BY <2>1, SumRules
  <2> QED
    BY <2>2, <2>3, <2>4 DEF Row
<1>3. ASSUME Bad # {} PROVE FALSE
  <2>1. PICK s \in Bad : \A y \in s : s \ {y} \notin Bad
    BY <1>3, SmallestSet
  <2>2. PICK y : y \in s
    BY <1>1, <2>1
  <2>3. SumOf(f, D \X (s \ {y})) = SumOf(r, s \ {y})
    BY <2>1, <2>2
  <2>4. y \in E /\ s \subseteq E /\ IsFiniteSet(s) /\ IsFiniteSet(s \ {y})
    BY <2>1, <2>2, FS_Subset
  <2>5. SumOf(r, s) = r[y] + SumOf(r, s \ {y}) /\ SumOf(r, s \ {y}) \in Int
    <3>1. \A z \in s : r[z] \in Int
      BY <1>2, <2>4
    <3> QED
      BY <2>2, <2>4, <3>1, SumRules
  <2>6. SumOf(f, D \X s) = SumOf(f, D \X (s \ {y})) + SumOf(f, D \X {y})
    <3> DEFINE A == D \X (s \ {y})
               B == D \X {y}
    <3>1. IsFiniteSet(A) /\ IsFiniteSet(B)
      BY <2>4, FS_Product, FS_Singleton
    <3>2. A \cap B = {} /\ A \cup B = D \X s
      BY <2>2
    <3>3. \A p \in A \cup B : f[p] \in Int
      BY <2>4 DEF Rows
    <3> HIDE DEF A, B
    <3>4. SumOf(f, A \cup B) = SumOf(f, A) + SumOf(f, B)
      BY <3>1, <3>2, <3>3, SumOfUnion
    <3> QED
      BY <3>2, <3>4 DEF A, B
  <2>7. r[y] \in Int /\ SumOf(f, D \X {y}) = r[y]
    BY <1>2, <2>4
  <2>8. SumOf(f, D \X s) = SumOf(r, s)
    BY <2>3, <2>5, <2>6, <2>7
  <2> QED
    BY <2>1, <2>8
<1> QED
  BY <1>3

\* Sums are compared term by term.
LEMMA SumsCompare ==
    ASSUME NEW S, IsFiniteSet(S), NEW p \in Int,
           NEW f, \A x \in S : f[x] \in Int,
           NEW e, \A x \in S : e[x] \in Int,
           \A x \in S : f[x] <= p * e[x]
    PROVE  SumOf(f, S) <= p * SumOf(e, S)
<1> DEFINE Below(s) == SumOf(f, s) <= p * SumOf(e, s)
           Bad == {s \in SUBSET S : ~Below(s)}
<1>1. Below({})
  <2>1. SumOf(f, {}) = 0 /\ SumOf(e, {}) = 0
    BY SumRules
  <2>2. p * 0 = 0
    OBVIOUS
  <2> QED
    BY <2>1, <2>2
<1>2. ASSUME Bad # {} PROVE FALSE
  <2>1. PICK s \in Bad : \A x \in s : s \ {x} \notin Bad
    BY <1>2, SmallestSet
  <2>2. PICK x : x \in s
    BY <1>1, <2>1
  <2>3. SumOf(f, s \ {x}) <= p * SumOf(e, s \ {x})
    BY <2>1, <2>2
  <2>4. x \in S /\ IsFiniteSet(s) /\ IsFiniteSet(s \ {x}) /\ s \subseteq S
    BY <2>1, <2>2, FS_Subset
  <2>5. /\ SumOf(f, s) = f[x] + SumOf(f, s \ {x}) /\ SumOf(f, s \ {x}) \in Int
        /\ SumOf(e, s) = e[x] + SumOf(e, s \ {x}) /\ SumOf(e, s \ {x}) \in Int
    <3>1. \A y \in s : f[y] \in Int /\ e[y] \in Int
      BY <2>4
    <3> QED
      BY <2>2, <2>4, <3>1, SumRules
  <2>6. f[x] <= p * e[x] /\ f[x] \in Int /\ e[x] \in Int
    BY <2>4
  <2>7. \A a, b \in Int : p * (a + b) = p * a + p * b
    OBVIOUS
  <2>8. Below(s)
    <3>1. p * SumOf(e, s) = p * e[x] + p * SumOf(e, s \ {x})
      BY <2>5, <2>6, <2>7
    <3>2. p * e[x] \in Int /\ p * SumOf(e, s \ {x}) \in Int
      BY <2>5, <2>6
    <3> QED
      BY <2>3, <2>5, <2>6, <3>1, <3>2
  <2> QED
    BY <2>1, <2>8
<1> QED
  BY <1>2

\* The sum of a combination is the combination of the sums.
Combines(z, p, a, q, b, r, c) == z = p * a + q * b + r * c

LEMMA SumsCombine ==
    ASSUME NEW S, IsFiniteSet(S), NEW p \in Int, NEW q \in Int, NEW r \in Int,
           NEW e, \A x \in S : e[x] \in Int,
           NEW f, \A x \in S : f[x] \in Int,
           NEW g, \A x \in S : g[x] \in Int,
           NEW h, \A x \in S : Combines(h[x], p, e[x], q, f[x], r, g[x])
    PROVE  Combines(SumOf(h, S), p, SumOf(e, S), q, SumOf(f, S), r, SumOf(g, S))
<1> DEFINE Does(s) ==
               SumOf(h, s) = p * SumOf(e, s) + q * SumOf(f, s) + r * SumOf(g, s)
           Bad == {s \in SUBSET S : ~Does(s)}
<1>0. \A x \in S : h[x] = p * e[x] + q * f[x] + r * g[x]
  BY DEF Combines
<1>1. \A x \in S : h[x] \in Int
  BY <1>0
<1>2. Does({})
  <2>1. SumOf(h, {}) = 0 /\ SumOf(e, {}) = 0 /\ SumOf(f, {}) = 0 /\ SumOf(g, {}) = 0
    BY <1>1, SumRules
  <2>2. p * 0 + q * 0 + r * 0 = 0
    OBVIOUS
  <2> QED
    BY <2>1, <2>2
<1>3. ASSUME Bad # {} PROVE FALSE
  <2>1. PICK s \in Bad : \A x \in s : s \ {x} \notin Bad
    BY <1>3, SmallestSet
  <2>2. PICK x : x \in s
    BY <1>2, <2>1
  <2>3. Does(s \ {x})
    BY <2>1, <2>2
  <2>4. x \in S /\ IsFiniteSet(s) /\ s \subseteq S
    BY <2>1, <2>2, FS_Subset
  <2>5. /\ SumOf(h, s) = h[x] + SumOf(h, s \ {x})
        /\ SumOf(e, s) = e[x] + SumOf(e, s \ {x}) /\ SumOf(e, s \ {x}) \in Int
        /\ SumOf(f, s) = f[x] + SumOf(f, s \ {x}) /\ SumOf(f, s \ {x}) \in Int
        /\ SumOf(g, s) = g[x] + SumOf(g, s \ {x}) /\ SumOf(g, s \ {x}) \in Int
    <3>1. \A y \in s : h[y] \in Int /\ e[y] \in Int /\ f[y] \in Int /\ g[y] \in Int
      BY <1>1, <2>4
    <3>2. IsFiniteSet(s \ {x}) /\ \A y \in s \ {x} : y \in s
      BY <2>4, FS_Subset
    <3> QED
      BY <2>2, <2>4, <3>1, <3>2, SumRules
  <2>6. h[x] = p * e[x] + q * f[x] + r * g[x] /\ e[x] \in Int /\ f[x] \in Int /\ g[x] \in Int
    BY <1>0, <2>4
  <2>7. \A k, a, b \in Int : k * (a + b) = k * a + k * b /\ k * a \in Int
    OBVIOUS
  <2>8. /\ p * SumOf(e, s) = p * e[x] + p * SumOf(e, s \ {x})
        /\ q * SumOf(f, s) = q * f[x] + q * SumOf(f, s \ {x})
        /\ r * SumOf(g, s) = r * g[x] + r * SumOf(g, s \ {x})
        /\ p * e[x] \in Int /\ q * f[x] \in Int /\ r * g[x] \in Int
        /\ p * SumOf(e, s \ {x}) \in Int /\ q * SumOf(f, s \ {x}) \in Int
        /\ r * SumOf(g, s \ {x}) \in Int
    BY <2>5, <2>6, <2>7
  <2>9. Does(s)
    BY <2>3, <2>5, <2>6, <2>8
  <2> QED
    BY <2>1, <2>9
<1> QED
  BY <1>3 DEF Combines

\* Zeros add up to nothing.
LEMMA SumOfZeros ==
    ASSUME NEW S, IsFiniteSet(S), NEW f, \A x \in S : f[x] = 0
    PROVE  SumOf(f, S) = 0
<1>1. \A x \in S : f[x] \in Int /\ f[x] = f[x] - f[x]
  OBVIOUS
<1>2. SumOf(f, S) \in Int /\ SumOf(f, S) = SumOf(f, S) - SumOf(f, S)
  BY <1>1, SumRules, SumOfDifference
<1> QED
  BY <1>2

\* A sum of naturals is one.
LEMMA SumIsNat ==
    ASSUME NEW S, IsFiniteSet(S), NEW f, \A x \in S : f[x] \in Nat
    PROVE  SumOf(f, S) \in Nat
<1> DEFINE Bad == {s \in SUBSET S : SumOf(f, s) \notin Nat}
<1>1. {} \notin Bad
  BY SumRules
<1>2. ASSUME Bad # {} PROVE FALSE
  <2>1. PICK s \in Bad : \A x \in s : s \ {x} \notin Bad
    BY <1>2, SmallestSet
  <2>2. PICK x : x \in s
    BY <1>1, <2>1
  <2>3. SumOf(f, s \ {x}) \in Nat
    BY <2>1, <2>2
  <2>4. x \in S /\ IsFiniteSet(s) /\ \A y \in s : f[y] \in Int
    BY <2>1, <2>2, FS_Subset
  <2>5. SumOf(f, s) = f[x] + SumOf(f, s \ {x})
    BY <2>2, <2>4, SumRules
  <2> QED
    BY <2>1, <2>3, <2>4, <2>5
<1> QED
  BY <1>2

\* A sum of one for each member counts them.
LEMMA SumOfOnes ==
    ASSUME NEW S, IsFiniteSet(S), NEW f, \A x \in S : f[x] = 1
    PROVE  SumOf(f, S) = Cardinality(S)
<1> DEFINE Counts(s) == SumOf(f, s) = Cardinality(s)
           Bad == {s \in SUBSET S : ~Counts(s)}
<1>1. Counts({})
  BY SumRules, FS_EmptySet
<1>2. ASSUME Bad # {} PROVE FALSE
  <2>1. PICK s \in Bad : \A x \in s : s \ {x} \notin Bad
    BY <1>2, SmallestSet
  <2>2. PICK x : x \in s
    BY <1>1, <2>1
  <2>3. SumOf(f, s \ {x}) = Cardinality(s \ {x})
    BY <2>1, <2>2
  <2>4. x \in S /\ IsFiniteSet(s) /\ \A y \in s : f[y] = 1 /\ f[y] \in Int
    BY <2>1, <2>2, FS_Subset
  <2>5. SumOf(f, s) = f[x] + SumOf(f, s \ {x})
    BY <2>2, <2>4, SumRules
  <2>6. Cardinality(s \ {x}) = Cardinality(s) - 1 /\ Cardinality(s) \in Nat
    BY <2>2, <2>4, FS_RemoveElement, FS_CardinalityType
  <2> QED
    BY <2>1, <2>3, <2>4, <2>5, <2>6
<1> QED
  BY <1>2

------------------------------------------------------------------------------
(* FoldLeft takes the greatest index first. *)

LEMMA IntervalIsFinite ==
    ASSUME NEW n \in Nat
    PROVE  IsFiniteSet(1..n) /\ \A s \in SUBSET (1..n) : IsFiniteSet(s)
<1>1. IsFiniteSet(1..n)
  BY FS_Interval
<1> QED
  BY <1>1, FS_Subset

LEMMA IntervalSize ==
    ASSUME NEW n \in Nat
    PROVE  IsFiniteSet(1..n) /\ Cardinality(1..n) = n
<1>1. 1 \in Int /\ n \in Int
  OBVIOUS
<1>2. /\ IsFiniteSet(1..n)
      /\ Cardinality(1..n) = IF 1 > n THEN 0 ELSE n - 1 + 1
  BY <1>1, FS_Interval
<1> QED
  BY <1>2

LEMMA MaxIsFirst ==
    ASSUME NEW n \in Nat
    PROVE  /\ Chooses([s \in SUBSET (1..n) |-> Max(s)], 1..n)
           /\ \A s \in SUBSET (1..n) : s # {} => Max(s) \in s
           /\ \A k \in 1..n : Max(1..k) = k /\ (1..k) \ {k} = 1..(k-1)
<1>1. ASSUME NEW s \in SUBSET (1..n), s # {}
      PROVE  Max(s) \in s /\ \A y \in s : Max(s) >= y
  <2>1. s \subseteq Nat /\ IsFiniteSet(s)
    BY IntervalIsFinite
  <2>2. s \subseteq Int
    BY <2>1
  <2>3. \E x \in s : \A y \in s : x >= y
    BY <1>1, <2>1, <2>2, GreatestExists
  <2> QED
    BY <2>3 DEF Max
<1>2. ASSUME NEW k \in 1..n PROVE Max(1..k) = k /\ (1..k) \ {k} = 1..(k-1)
  <2>1. 1..k \in SUBSET (1..n) /\ k \in 1..k
    OBVIOUS
  <2>2. Max(1..k) \in 1..k /\ Max(1..k) >= k
    BY <1>1, <2>1
  <2> QED
    BY <2>2
<1> QED
  BY <1>1, <1>2 DEF Chooses

\* The equation of FoldLeft when it adds the numbers f[1], ..., f[n].
AddsFromLeft(g, n, f) ==
    g = [s \in SUBSET (1..n) |->
            IF s = {} THEN 0 ELSE g[s \ {Max(s)}] + f[Max(s)]]

LEMMA LeftSumExists ==
    ASSUME NEW n \in Nat, NEW f, \A k \in 1..n : f[k] \in Int
    PROVE  \E g : AddsFromLeft(g, n, f)
<1> DEFINE D == 1..n
           c == [s \in SUBSET D |-> Max(s)]
<1>1. IsFiniteSet(D) /\ Chooses(c, D)
  BY IntervalIsFinite, MaxIsFirst
<1>2. PICK g : AddsUp(g, D, f, c)
  <2> HIDE DEF D, c
  <2>1. \A k \in D : f[k] \in Int
    BY DEF D
  <2> QED
    BY <1>1, <2>1, SumExists
<1>3. \A s \in SUBSET D : g[s] \in Int
  <2> HIDE DEF D, c
  <2>1. \A k \in D : f[k] \in Int
    BY DEF D
  <2> QED
    BY <1>1, <1>2, <2>1, SumTakesAny
<1>4. ASSUME NEW s \in SUBSET D, s # {}
      PROVE  f[c[s]] + g[s \ {c[s]}] = g[s \ {Max(s)}] + f[Max(s)]
  <2>1. Max(s) \in D /\ c[s] = Max(s)
    BY <1>4, MaxIsFirst
  <2>2. f[Max(s)] \in Int /\ g[s \ {Max(s)}] \in Int
    BY <1>3, <2>1
  <2> QED
    BY <2>1, <2>2
<1>5. AddsFromLeft(g, n, f)
  <2> HIDE DEF c
  <2> QED
    BY <1>2, <1>4 DEF AddsUp, AddsFromLeft
<1> QED
  BY <1>5

LEMMA LeftSumIs ==
    ASSUME NEW n \in Nat, NEW f, \A k \in 1..n : f[k] \in Int,
           NEW g, AddsFromLeft(g, n, f)
    PROVE  g[1..n] = SumOf(f, 1..n)
<1> DEFINE D == 1..n
           c == [s \in SUBSET D |-> Max(s)]
<1>1. /\ IsFiniteSet(D) /\ Chooses(c, D) /\ \A k \in D : f[k] \in Int
      /\ D \in SUBSET D
  BY IntervalIsFinite, MaxIsFirst
<1>2. \A s \in SUBSET D :
         g[s] = IF s = {} THEN 0 ELSE g[s \ {Max(s)}] + f[Max(s)]
  BY DEF AddsFromLeft
<1>3. ASSUME NEW s \in SUBSET D, s # {} PROVE Max(s) \in s /\ Max(s) \in D
  BY <1>3, MaxIsFirst
<1>4. \A s \in SUBSET D : g[s] \in Int
  <2> DEFINE Bad == {s \in SUBSET D : g[s] \notin Int}
  <2>1. ASSUME Bad # {} PROVE FALSE
    <3>1. PICK s \in Bad : \A x \in s : s \ {x} \notin Bad
      <4> HIDE DEF D
      <4> QED
        BY <1>1, <2>1, SmallestSet
    <3>2. s # {}
      BY <1>2, <3>1
    <3>3. Max(s) \in s /\ f[Max(s)] \in Int /\ g[s \ {Max(s)}] \in Int
      BY <1>1, <1>3, <3>1, <3>2
    <3>4. g[s] = g[s \ {Max(s)}] + f[Max(s)]
      BY <1>2, <3>1, <3>2
    <3>5. g[s] \notin Int
      BY <3>1
    <3> QED
      BY <3>3, <3>4, <3>5
  <2> QED
    BY <2>1
<1>5. \A s \in SUBSET D :
         s # {} => g[s \ {Max(s)}] + f[Max(s)] = f[c[s]] + g[s \ {c[s]}]
  <2> SUFFICES ASSUME NEW s \in SUBSET D, s # {}
               PROVE  g[s \ {Max(s)}] + f[Max(s)] = f[c[s]] + g[s \ {c[s]}]
    OBVIOUS
  <2>1. f[Max(s)] \in Int /\ g[s \ {Max(s)}] \in Int /\ c[s] = Max(s)
    BY <1>1, <1>3, <1>4
  <2> QED
    BY <2>1
<1>6. AddsUp(g, D, f, c)
  <2> HIDE DEF c
  <2> QED
    BY <1>5 DEF AddsUp, AddsFromLeft
<1> HIDE DEF c, D
<1>7. g[D] = SumOf(f, D)
  BY <1>1, <1>6, SumAnyway
<1> QED
  BY <1>7 DEF D


------------------------------------------------------------------------------
(* FoldLeft that joins the sequences f[1], ..., f[n]. *)

JoinsFromLeft(g, n, f) ==
    g = [s \in SUBSET (1..n) |->
            IF s = {} THEN <<>> ELSE g[s \ {Max(s)}] \o f[Max(s)]]

LEMMA LeftJoinExists ==
    ASSUME NEW n \in Nat, NEW V, NEW f, \A k \in 1..n : f[k] \in Seq(V)
    PROVE  \E g : JoinsFromLeft(g, n, f)
<1> DEFINE D == 1..n
           c == [s \in SUBSET D |-> Max(s)]
           step == [p \in D \X Seq(V) |-> p[2] \o f[p[1]]]
<1>1. IsFiniteSet(D) /\ Chooses(c, D)
  BY IntervalIsFinite, MaxIsFirst
<1>2. step \in [D \X Seq(V) -> Seq(V)] /\ <<>> \in Seq(V)
  OBVIOUS
<1>3. PICK g \in [SUBSET D -> Seq(V)] : FoldsUp(g, D, c, <<>>, step)
  <2> HIDE DEF step, c, D
  <2> QED
    BY <1>1, <1>2, FoldExists, Zenon
<1>4. ASSUME NEW s \in SUBSET D, s # {}
      PROVE  step[<<c[s], g[s \ {c[s]}]>>] = g[s \ {Max(s)}] \o f[Max(s)]
  <2>1. Max(s) \in D /\ c[s] = Max(s) /\ g[s \ {Max(s)}] \in Seq(V)
    BY <1>4, MaxIsFirst
  <2> QED
    BY <2>1
<1> HIDE DEF step, c
<1>5. JoinsFromLeft(g, n, f)
  BY <1>3, <1>4 DEF FoldsUp, JoinsFromLeft
<1> QED
  BY <1>5

\* r[k] joins the first k sequences.
Joins(r, n, f) == r[0] = <<>> /\ \A k \in 1..n : r[k] = r[k-1] \o f[k]

LEMMA LeftJoinIs ==
    ASSUME NEW n \in Nat, NEW f, NEW g, JoinsFromLeft(g, n, f)
    PROVE  \E r : Joins(r, n, f) /\ g[1..n] = r[n]
<1> DEFINE r == [k \in 0..n |-> g[1..k]]
<1>1. \A s \in SUBSET (1..n) :
         g[s] = IF s = {} THEN <<>> ELSE g[s \ {Max(s)}] \o f[Max(s)]
  BY DEF JoinsFromLeft
<1>2. r[0] = <<>>
  <2>1. 1..0 = {} /\ {} \in SUBSET (1..n) /\ 0 \in 0..n
    OBVIOUS
  <2>2. g[{}] = <<>>
    BY <1>1, <2>1
  <2> QED
    BY <2>1, <2>2
<1>3. ASSUME NEW k \in 1..n PROVE r[k] = r[k-1] \o f[k]
  <2>1. Max(1..k) = k /\ (1..k) \ {k} = 1..(k-1)
    BY MaxIsFirst
  <2>2. 1..k \in SUBSET (1..n) /\ 1..k # {} /\ k \in 0..n /\ k-1 \in 0..n
    OBVIOUS
  <2>3. g[1..k] = g[(1..k) \ {k}] \o f[k]
    BY <1>1, <2>1, <2>2
  <2> QED
    BY <2>1, <2>2, <2>3
<1>4. g[1..n] = r[n]
  OBVIOUS
<1> HIDE DEF r
<1>5. Joins(r, n, f)
  BY <1>2, <1>3 DEF Joins
<1> QED
  BY <1>4, <1>5

\* What is true of 0, and of k when it is true of k-1, is true of each k in
\* 0..n: stated of the set of those it is true of.
LEMMA ReachesAll ==
    ASSUME NEW n \in Nat, NEW T, 0 \in T,
           \A k \in 1..n : k - 1 \in T => k \in T
    PROVE  \A k \in 0..n : k \in T
<1> DEFINE Bad == {k \in 0..n : k \notin T}
<1>1. ASSUME Bad # {} PROVE FALSE
  <2>1. Bad \subseteq Nat
    OBVIOUS
  <2>2. PICK k \in Bad : \A m \in Bad : k <= m
    BY <1>1, <2>1, LeastExists
  <2>3. k # 0 /\ k \in 0..n /\ k \notin T
    BY <2>2
  <2>4. k \in 1..n /\ k - 1 \in 0..n /\ ~(k <= k - 1)
    BY <2>3
  <2>5. k - 1 \in T
    BY <2>2, <2>4
  <2> QED
    BY <2>3, <2>4, <2>5
<1> QED
  BY <1>1

\* There is one way to join sequences.
LEMMA JoinsAgree ==
    ASSUME NEW n \in Nat, NEW f, NEW r, Joins(r, n, f),
           NEW e, NEW t, Joins(t, n, e), \A k \in 1..n : f[k] = e[k]
    PROVE  r[n] = t[n]
<1> DEFINE T == {k \in 0..n : r[k] = t[k]}
<1>1. 0 \in T
  BY DEF Joins
<1>2. ASSUME NEW k \in 1..n, k - 1 \in T PROVE k \in T
  <2>1. r[k] = r[k-1] \o f[k] /\ t[k] = t[k-1] \o e[k] /\ f[k] = e[k]
    BY DEF Joins
  <2>2. r[k-1] = t[k-1] /\ k \in 0..n
    BY <1>2
  <2> QED
    BY <2>1, <2>2
<1> HIDE DEF T
<1>3. \A k \in 0..n : k \in T
  BY <1>1, <1>2, ReachesAll
<1> QED
  BY <1>3 DEF T

LEMMA ConcatAt ==
    ASSUME NEW V, NEW s \in Seq(V), NEW t \in Seq(V)
    PROVE  /\ s \o t \in Seq(V) /\ Len(s \o t) = Len(s) + Len(t)
           /\ \A x \in 1..Len(s) : (s \o t)[x] = s[x] /\ x \in 1..Len(s \o t)
           /\ \A i \in 1..Len(t) : /\ (s \o t)[Len(s) + i] = t[i]
                                   /\ Len(s) + i \in 1..Len(s \o t)
  OBVIOUS

\* len[k] is the length of the k-th sequence.
Pieces(f, len, n, V) == \A k \in 1..n : f[k] \in Seq(V) /\ len[k] = Len(f[k])

\* Each sequence lies in s where the lengths of those before it add up to.
LaidOut(s, f, len, n, V) ==
    /\ s \in Seq(V) /\ Len(s) = SumOf(len, 1..n)
    /\ \A k \in 1..n : \A i \in 1..Len(f[k]) :
          /\ SumOf(len, 1..(k-1)) + i \in 1..Len(s)
          /\ s[SumOf(len, 1..(k-1)) + i] = f[k][i]

LEMMA JoinedLayout ==
    ASSUME NEW n \in Nat, NEW V, NEW f, NEW len, Pieces(f, len, n, V),
           NEW r, Joins(r, n, f)
    PROVE  LaidOut(r[n], f, len, n, V)
<1> DEFINE start(j) == SumOf(len, 1..(j-1))
           Laid(k) == /\ r[k] \in Seq(V)
                      /\ Len(r[k]) = SumOf(len, 1..k)
                      /\ \A j \in 1..k : \A i \in 1..Len(f[j]) :
                            /\ start(j) + i \in 1..Len(r[k])
                            /\ r[k][start(j) + i] = f[j][i]
           T == {k \in 0..n : Laid(k)}
<1>1. \A k \in 1..n :
         f[k] \in Seq(V) /\ len[k] = Len(f[k]) /\ len[k] \in Nat
  BY DEF Pieces
<1>2. ASSUME NEW k \in 0..n
      PROVE  SumOf(len, 1..k) \in Int /\ IsFiniteSet(1..k)
  <2>1. IsFiniteSet(1..k) /\ \A j \in 1..k : len[j] \in Int
    BY <1>1, IntervalIsFinite
  <2> HIDE DEF start, Laid, T
  <2> QED
    BY <2>1, SumRules
<1>3. ASSUME NEW k \in 1..n
      PROVE  SumOf(len, 1..k) = len[k] + SumOf(len, 1..(k-1))
  <2>1. IsFiniteSet(1..k) /\ k \in 1..k /\ \A j \in 1..k : len[j] \in Int
    BY <1>1, <1>2
  <2>2. (1..k) \ {k} = 1..(k-1)
    OBVIOUS
  <2>3. SumOf(len, 1..k) = len[k] + SumOf(len, (1..k) \ {k})
    BY <2>1, SumRules
  <2> QED
    BY <2>2, <2>3
<1>4. Laid(0)
  <2>1. SumOf(len, 1..0) = 0
    <3>1. 1..0 = {} /\ IsFiniteSet({}) /\ \A j \in {} : len[j] \in Int
      BY FS_EmptySet
    <3>2. SumOf(len, {}) = 0
      BY <3>1, SumRules
    <3> QED
      BY <3>1, <3>2
  <2> QED
    BY <2>1 DEF Joins
<1>5. ASSUME NEW k \in 1..n, Laid(k-1) PROVE Laid(k)
  <2>1. /\ r[k] = r[k-1] \o f[k] /\ f[k] \in Seq(V) /\ r[k-1] \in Seq(V)
        /\ len[k] = Len(f[k])
    BY <1>1, <1>5 DEF Joins
  <2>2. /\ SumOf(len, 1..k) = len[k] + SumOf(len, 1..(k-1))
        /\ SumOf(len, 1..(k-1)) = Len(r[k-1])
    BY <1>3, <1>5
  <2>3. /\ r[k] \in Seq(V) /\ Len(r[k]) = Len(r[k-1]) + Len(f[k])
        /\ \A x \in 1..Len(r[k-1]) :
              r[k][x] = r[k-1][x] /\ x \in 1..Len(r[k])
        /\ \A i \in 1..Len(f[k]) :
              /\ r[k][Len(r[k-1]) + i] = f[k][i]
              /\ Len(r[k-1]) + i \in 1..Len(r[k])
    <3> HIDE DEF Laid, T, start
    <3> DEFINE p == r[k-1]
               q == f[k]
    <3>1. p \in Seq(V) /\ q \in Seq(V) /\ r[k] = p \o q
      BY <2>1
    <3> HIDE DEF p, q
    <3>2. /\ p \o q \in Seq(V) /\ Len(p \o q) = Len(p) + Len(q)
          /\ \A x \in 1..Len(p) : (p \o q)[x] = p[x] /\ x \in 1..Len(p \o q)
          /\ \A i \in 1..Len(q) : /\ (p \o q)[Len(p) + i] = q[i]
                                  /\ Len(p) + i \in 1..Len(p \o q)
      BY <3>1, ConcatAt
    <3>3. /\ r[k] \in Seq(V) /\ Len(r[k]) = Len(p) + Len(q)
          /\ \A x \in 1..Len(p) : r[k][x] = p[x] /\ x \in 1..Len(r[k])
          /\ \A i \in 1..Len(q) : /\ r[k][Len(p) + i] = q[i]
                                  /\ Len(p) + i \in 1..Len(r[k])
      BY <3>1, <3>2, Zenon
    <3> QED
      BY <3>3 DEF p, q
  <2>4. ASSUME NEW j \in 1..k, NEW i \in 1..Len(f[j])
        PROVE  /\ start(j) + i \in 1..Len(r[k])
               /\ r[k][start(j) + i] = f[j][i]
    <3>1. CASE j = k
      <4>1. start(j) = Len(r[k-1])
        BY <2>2, <3>1
      <4> HIDE DEF start
      <4> QED
        BY <2>3, <3>1, <4>1
    <3>2. CASE j # k
      <4>1. j \in 1..(k-1)
        BY <3>2
      <4>2. /\ start(j) + i \in 1..Len(r[k-1])
            /\ r[k-1][start(j) + i] = f[j][i]
        BY <1>5, <4>1
      <4> HIDE DEF start
      <4> QED
        BY <2>3, <4>2
    <3> QED
      BY <3>1, <3>2
  <2>5. Len(r[k]) = SumOf(len, 1..k)
    <3> DEFINE a == Len(r[k-1])
               b == Len(f[k])
    <3>1. a \in Nat /\ b \in Nat
      BY <2>1
    <3>2. /\ Len(r[k]) = a + b /\ len[k] = b
          /\ SumOf(len, 1..k) = len[k] + SumOf(len, 1..(k-1))
          /\ SumOf(len, 1..(k-1)) = a
      BY <2>1, <2>2, <2>3
    <3> HIDE DEF a, b
    <3> QED
      BY <3>1, <3>2
  <2> HIDE DEF start
  <2> QED
    BY <2>3, <2>4, <2>5
<1> HIDE DEF Laid
<1>6. \A k \in 0..n : k \in T
  <2>1. 0 \in T /\ \A k \in 1..n : k - 1 \in T => k \in T
    BY <1>4, <1>5
  <2> HIDE DEF T
  <2> QED
    BY <2>1, ReachesAll
<1>7. Laid(n)
  BY <1>6
<1> QED
  BY <1>7 DEF Laid, LaidOut

------------------------------------------------------------------------------
(* A recursive function on 0..n. *)

\* Repeating a step is recursion on the number of steps.
Repeats(g, n, base, step) ==
    g = [k \in 0..n |-> IF k = 0 THEN base ELSE step[g[k-1]]]

LEMMA RepeatExists ==
    ASSUME NEW n \in Nat, NEW V, NEW base \in V, NEW step \in [V -> V]
    PROVE  \E g : Repeats(g, n, base, step) /\ \A k \in 0..n : g[k] \in V
<1> DEFINE Next(g, k) == IF k = 0 THEN base ELSE step[g[k-1]]
           UpTo(m) == \E g \in [0..n -> V] : \A k \in 0..m : g[k] = Next(g, k)
           T == {m \in 0..n : UpTo(m)}
<1>1. 0 \in T
  <2> DEFINE g == [k \in 0..n |-> base]
  <2>1. g \in [0..n -> V] /\ \A k \in 0..0 : g[k] = Next(g, k)
    OBVIOUS
  <2> HIDE DEF g, Next
  <2> QED
    BY <2>1
<1>2. ASSUME NEW m \in 1..n, m - 1 \in T PROVE m \in T
  <2>1. PICK g \in [0..n -> V] : \A k \in 0..(m-1) : g[k] = Next(g, k)
    BY <1>2
  <2> DEFINE h == [k \in 0..n |-> Next(g, k)]
  <2>2. h \in [0..n -> V]
    <3>1. \A k \in 0..n : k # 0 => k - 1 \in 0..n
      OBVIOUS
    <3> QED
      BY <3>1
  <2>3. \A k \in 0..(m-1) : h[k] = g[k]
    BY <2>1
  <2>4. ASSUME NEW k \in 0..m PROVE h[k] = Next(h, k)
    <3>1. k # 0 => k - 1 \in 0..(m-1) /\ h[k-1] = g[k-1]
      <4>1. k # 0 => k - 1 \in 0..(m-1)
        OBVIOUS
      <4> HIDE DEF h
      <4> QED
        BY <2>3, <4>1
    <3>2. h[k] = Next(g, k)
      OBVIOUS
    <3> HIDE DEF h
    <3> QED
      BY <3>1, <3>2
  <2> HIDE DEF h, Next
  <2> QED
    BY <2>2, <2>4
<1>3. n \in T
  <2> HIDE DEF T
  <2> QED
    BY <1>1, <1>2, ReachesAll
<1>4. PICK g \in [0..n -> V] : \A k \in 0..n : g[k] = Next(g, k)
  BY <1>3
<1> HIDE DEF Next
<1>5. g = [k \in 0..n |-> Next(g, k)]
  BY <1>4
<1>6. \A k \in 0..n : g[k] \in V
  BY <1>4
<1> QED
  BY <1>5, <1>6 DEF Next, Repeats

------------------------------------------------------------------------------
(* Ranks. *)

\* Ascending lists every member once.
LEMMA AscendingIs ==
    ASSUME NEW S, S \subseteq Int, IsFiniteSet(S)
    PROVE  /\ Cardinality(S) \in Nat
           /\ \A k \in 1..Cardinality(S) : Ascending(S)[k] \in S
           /\ \A j, k \in 1..Cardinality(S) :
                 Ascending(S)[j] = Ascending(S)[k] => j = k
           /\ {Ascending(S)[k] : k \in 1..Cardinality(S)} = S
<1> DEFINE n == Cardinality(S)
           Before(x) == {y \in S : y < x}
           Rank(x) == Cardinality(Before(x))
           a == Ascending(S)
           rank == [x \in S |-> Rank(x)]
<1>1. n \in Nat
  BY FS_CardinalityType
<1>2. ASSUME NEW x \in S PROVE Rank(x) \in 0..(n-1) /\ IsFiniteSet(Before(x))
  <2>1. Before(x) \subseteq S \ {x}
    OBVIOUS
  <2>2. IsFiniteSet(S \ {x}) /\ Cardinality(S \ {x}) = n - 1
    BY FS_RemoveElement
  <2> HIDE DEF Before, n
  <2>3. IsFiniteSet(Before(x)) /\ Cardinality(Before(x)) <= n - 1
    BY <2>1, <2>2, FS_Subset
  <2>4. Cardinality(Before(x)) \in Nat
    BY <2>3, FS_CardinalityType
  <2> QED
    BY <1>1, <2>3, <2>4
<1>3. ASSUME NEW x \in S, NEW z \in S, x < z PROVE Rank(x) < Rank(z)
  <2>1. Before(x) \subseteq Before(z) /\ x \in Before(z) /\ x \notin Before(x)
    <3>1. x \in Int /\ z \in Int /\ \A y \in S : y \in Int
      OBVIOUS
    <3>2. \A y \in S : y < x => y < z
      BY <1>3, <3>1
    <3>3. ~(x < x)
      BY <3>1
    <3>4. Before(x) \subseteq Before(z)
      BY <3>2
    <3> QED
      BY <1>3, <3>3, <3>4
  <2>2. IsFiniteSet(Before(z))
    BY <1>2
  <2> HIDE DEF Before
  <2>3. /\ IsFiniteSet(Before(x)) /\ Cardinality(Before(x)) <= Cardinality(Before(z))
        /\ Cardinality(Before(x)) # Cardinality(Before(z))
    BY <2>1, <2>2, FS_Subset
  <2> QED
    BY <2>2, <2>3, FS_CardinalityType
<1>4. ASSUME NEW x \in S, NEW z \in S, Rank(x) = Rank(z) PROVE x = z
  <2>1. Rank(x) \in Int /\ x \in Int /\ z \in Int
    BY <1>2
  <2>2. ~(x < z) /\ ~(z < x)
    <3> HIDE DEF Rank
    <3> QED
      BY <1>3, <1>4, <2>1
  <2> QED
    BY <2>1, <2>2
<1>5. ASSUME NEW i \in 0..(n-1) PROVE \E x \in S : Rank(x) = i
  <2>1. rank \in Injection(S, 0..(n-1))
    <3> HIDE DEF Rank, n
    <3> QED
      BY <1>2, <1>4 DEF Injection, IsInjective
  <2>2. IsFiniteSet(0..(n-1)) /\ Cardinality(0..(n-1)) = n
    <3> HIDE DEF n
    <3> QED
      BY <1>1, FS_Interval
  <2>3. rank \in Surjection(S, 0..(n-1))
    <3> HIDE DEF rank
    <3> QED
      BY <2>1, <2>2, FS_Injection
  <2> HIDE DEF Rank, n
  <2> QED
    BY <2>3 DEF Surjection
<1>6. ASSUME NEW k \in 1..n PROVE a[k] \in S /\ Rank(a[k]) = k - 1
  <2>1. k - 1 \in 0..(n-1)
    BY <1>1
  <2>2. PICK x \in S : Rank(x) = k - 1
    BY <1>5, <2>1
  <2>3. a[k] = CHOOSE y \in S : Cardinality({z \in S : z < y}) = k - 1
    BY DEF Ascending
  <2> QED
    BY <2>2, <2>3
<1>7. ASSUME NEW x \in S PROVE \E k \in 1..n : a[k] = x
  <2>1. Rank(x) + 1 \in 1..n /\ Rank(x) \in Int
    BY <1>1, <1>2
  <2> HIDE DEF Rank, a
  <2>2. a[Rank(x) + 1] \in S /\ Rank(a[Rank(x) + 1]) = Rank(x)
    BY <1>6, <2>1
  <2>3. a[Rank(x) + 1] = x
    BY <1>4, <2>2
  <2> QED
    BY <2>1, <2>3
<1>8. ASSUME NEW j \in 1..n, NEW k \in 1..n, a[j] = a[k] PROVE j = k
  <2>1. j - 1 = k - 1
    BY <1>6, <1>8
  <2> QED
    BY <2>1
<1> HIDE DEF Rank, a, n
<1>9. {a[k] : k \in 1..n} = S
  BY <1>6, <1>7
<1> QED
  BY <1>1, <1>6, <1>8, <1>9 DEF a, n

===============================================================================
