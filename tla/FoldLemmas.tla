------------------------------ MODULE FoldLemmas ------------------------------
(***************************************************************************)
(* What the sums, the flattened and the filtered sequences of the models   *)
(* are, for data of any size.  The induction theorems of the library take  *)
(* an operator; here a set closed under a step takes its place.            *)
(***************************************************************************)
EXTENDS Integers, SequencesExt, Lists, TLAPS, FiniteSetTheorems, WellFoundedInduction,
        SequenceTheorems

-----------------------------------------------------------------------------
(* Induction. *)

LEMMA LeastNatural ==
  ASSUME NEW S \in SUBSET Nat, S # {}
  PROVE  \E n \in S : \A m \in S : n <= m
<1> DEFINE R == {p \in Nat \X Nat : p[1] < p[2]}
<1>1. IsWellFoundedOn(R, Nat)
  BY NatLessThanWellFounded DEF OpToRel
<1>2. PICK n \in S : \A m \in S : <<m, n>> \notin R
  <2> HIDE DEF R
  <2> QED BY <1>1, WFMin
<1>3. ASSUME NEW m \in S, m < n PROVE FALSE
  <2>1. <<m, n>> \in Nat \X Nat /\ <<m, n>>[1] = m /\ <<m, n>>[2] = n
    OBVIOUS
  <2>2. <<m, n>> \in R
    BY <1>3, <2>1, Zenon
  <2> QED BY <1>2, <2>2, Zenon
<1> QED BY <1>3

\* A set with 0 and every successor has all the natural numbers.
LEMMA NaturalSteps ==
  ASSUME NEW S, 0 \in S, \A n \in Nat : n \in S => n + 1 \in S
  PROVE  Nat \subseteq S
<1> SUFFICES ASSUME Nat \ S # {} PROVE FALSE
  OBVIOUS
<1>1. PICK n \in Nat \ S : \A m \in Nat \ S : n <= m
  BY LeastNatural
<1>2. n - 1 \in Nat /\ n - 1 \in S
  BY <1>1
<1> QED BY <1>2

\* A family with every set all of whose sets less one element it has.
LEMMA SubsetSteps ==
  ASSUME NEW S, IsFiniteSet(S), NEW Good,
         \A T \in SUBSET S : (\A x \in T : T \ {x} \in Good) => T \in Good
  PROVE  SUBSET S \subseteq Good
<1> DEFINE N == {n \in Nat : \A T \in SUBSET S : Cardinality(T) = n => T \in Good}
<1>1. \A T \in SUBSET S : IsFiniteSet(T) /\ Cardinality(T) \in Nat
  BY FS_Subset, FS_CardinalityType
<1>2. 0 \in N
  <2> SUFFICES ASSUME NEW T \in SUBSET S, Cardinality(T) = 0 PROVE T \in Good
    OBVIOUS
  <2>1. T = {}
    BY <1>1, FS_EmptySet
  <2> QED BY <2>1
<1>3. ASSUME NEW n \in Nat, n \in N PROVE n + 1 \in N
  <2> SUFFICES ASSUME NEW T \in SUBSET S, Cardinality(T) = n + 1 PROVE T \in Good
    OBVIOUS
  <2>1. \A x \in T : Cardinality(T \ {x}) = n
    BY <1>1, FS_RemoveElement
  <2> QED BY <1>3, <2>1
<1>4. Nat \subseteq N
  <2> HIDE DEF N
  <2> QED BY <1>2, <1>3, NaturalSteps
<1> QED BY <1>1, <1>4

-----------------------------------------------------------------------------
(* Recursion over the subsets of a finite set. *)

\* g folds F over the subsets of S, taking the element c[s] of s last.
Recurses(g, S, base, c, F) ==
  \A s \in SUBSET S : g[s] = IF s = {} THEN base ELSE F[c[s], g[s \ {c[s]}]]
Chooses(c, S) == \A s \in SUBSET S : s # {} => c[s] \in s

LEMMA RecursionExists ==
  ASSUME NEW S, IsFiniteSet(S), NEW V, NEW base \in V,
         NEW c, Chooses(c, S), NEW F \in [S \X V -> V]
  PROVE  \E g \in [SUBSET S -> V] : Recurses(g, S, base, c, F)
<1> DEFINE D(n)    == {s \in SUBSET S : Cardinality(s) <= n}
           Is(g, n) == \A s \in D(n) :
                         g[s] = IF s = {} THEN base ELSE F[c[s], g[s \ {c[s]}]]
           N == {n \in Nat : \E g \in [D(n) -> V] : Is(g, n)}
<1>1. \A T \in SUBSET S : IsFiniteSet(T) /\ Cardinality(T) \in Nat
                          /\ Cardinality(T) <= Cardinality(S)
  BY FS_Subset, FS_CardinalityType
<1>2. 0 \in N
  <2>1. \A s \in D(0) : s = {}
    BY <1>1, FS_EmptySet
  <2>2. [s \in D(0) |-> base] \in [D(0) -> V] /\ Is([s \in D(0) |-> base], 0)
    BY <2>1
  <2> QED BY <2>2
<1>3. ASSUME NEW n \in Nat, n \in N PROVE n + 1 \in N
  <2>1. PICK g \in [D(n) -> V] : Is(g, n)
    BY <1>3
  <2> DEFINE h == [s \in D(n + 1) |->
                     IF s = {} THEN base ELSE F[c[s], g[s \ {c[s]}]]]
  <2>2. ASSUME NEW s \in D(n + 1), s # {}
        PROVE  s \ {c[s]} \in D(n) /\ c[s] \in S
    <3>1. c[s] \in s /\ s \in SUBSET S /\ Cardinality(s) <= n + 1
      BY <2>2 DEF Chooses
    <3>2. Cardinality(s \ {c[s]}) = Cardinality(s) - 1 /\ Cardinality(s) \in Nat
      BY <1>1, <3>1, FS_RemoveElement
    <3> QED BY <3>1, <3>2
  <2>3. h \in [D(n + 1) -> V]
    BY <2>2
  <2>4. ASSUME NEW s \in D(n) PROVE s \in D(n + 1) /\ h[s] = g[s]
    <3>1. s \in D(n + 1)
      BY <1>1
    <3>2. g[s] = IF s = {} THEN base ELSE F[c[s], g[s \ {c[s]}]]
      BY <2>1
    <3> QED BY <3>1, <3>2
  <2>5. ASSUME NEW s \in D(n + 1)
        PROVE  h[s] = IF s = {} THEN base ELSE F[c[s], h[s \ {c[s]}]]
    <3> HIDE DEF D
    <3>1. s # {} => h[s \ {c[s]}] = g[s \ {c[s]}]
      BY <2>2, <2>4
    <3> QED BY <3>1
  <2>6. Is(h, n + 1)
    <3> HIDE DEF h, D
    <3> QED BY <2>5
  <2> HIDE DEF h, Is, D
  <2> QED BY <2>3, <2>6
<1>4. Cardinality(S) \in N
  <2>1. Nat \subseteq N
    <3> HIDE DEF N
    <3> QED BY <1>2, <1>3, NaturalSteps
  <2> QED BY <1>1, <2>1
<1>5. D(Cardinality(S)) = SUBSET S
  BY <1>1
<1> QED BY <1>4, <1>5 DEF Recurses

-----------------------------------------------------------------------------
(* Sums. *)

\* The recursion SumFunctionOnSet chooses, and a number for every element.
First(s) == CHOOSE x \in s : TRUE
Adds(g, f, S) ==
  g = [s \in SUBSET S |-> IF s = {} THEN 0 ELSE f[First(s)] + g[s \ {First(s)}]]
Numbers(f, S) == \A x \in S : f[x] \in Int

LEMMA SumIsChosen ==
  ASSUME NEW f, NEW S
  PROVE  SumFunctionOnSet(f, S) = (CHOOSE g : Adds(g, f, S))[S]
BY DEF SumFunctionOnSet, FoldFunctionOnSet, MapThenFoldSet, Adds, First

LEMMA SumExists ==
  ASSUME NEW f, NEW S, IsFiniteSet(S), Numbers(f, S)
  PROVE  \E g : Adds(g, f, S) /\ g \in [SUBSET S -> Int]
<1> DEFINE c == [s \in SUBSET S |-> First(s)]
           F == [p \in S \X Int |-> f[p[1]] + p[2]]
<1>1. F \in [S \X Int -> Int]
  BY DEF Numbers
<1>2. Chooses(c, S)
  BY DEF Chooses, First
<1>3. \E g \in [SUBSET S -> Int] : Recurses(g, S, 0, c, F)
  <2> DEFINE V == Int
             base == 0
  <2>1. base \in V /\ F \in [S \X V -> V]
    BY <1>1
  <2> HIDE DEF c, F, V, base
  <2>2. \E g \in [SUBSET S -> V] : Recurses(g, S, base, c, F)
    BY <1>2, <2>1, RecursionExists
  <2> QED BY <2>2 DEF V, base
<1>4. PICK g \in [SUBSET S -> Int] : Recurses(g, S, 0, c, F)
  <2> HIDE DEF c, F
  <2> QED BY <1>3
<1>5. ASSUME NEW s \in SUBSET S, s # {}
      PROVE  g[s] = f[First(s)] + g[s \ {First(s)}]
  <2>1. c[s] = First(s) /\ First(s) \in S /\ g[s \ {First(s)}] \in Int
    BY <1>2, <1>5 DEF Chooses
  <2>2. F[First(s), g[s \ {First(s)}]] = f[First(s)] + g[s \ {First(s)}]
    BY <2>1
  <2> HIDE DEF c, F
  <2> QED BY <1>4, <1>5, <2>1, <2>2 DEF Recurses
<1>6. \A s \in SUBSET S :
        g[s] = IF s = {} THEN 0 ELSE f[First(s)] + g[s \ {First(s)}]
  BY <1>4, <1>5 DEF Recurses
<1> HIDE DEF c, F
<1> QED BY <1>4, <1>6 DEF Adds

\* Recursions of two sets agree on the sets both have.
LEMMA SumsAgree ==
  ASSUME NEW f, NEW S, IsFiniteSet(S), NEW T \in SUBSET S, NEW g, NEW h,
         Adds(g, f, S), Adds(h, f, T)
  PROVE  \A s \in SUBSET T : g[s] = h[s]
<1> DEFINE Good == {s \in SUBSET T : g[s] = h[s]}
<1>1. ASSUME NEW s \in SUBSET T, \A x \in s : s \ {x} \in Good
      PROVE  s \in Good
  <2>1. CASE s = {}
    BY <2>1 DEF Adds
  <2>2. CASE s # {}
    <3>1. First(s) \in s
      BY <2>2 DEF First
    <3>2. g[s \ {First(s)}] = h[s \ {First(s)}]
      BY <1>1, <3>1
    <3> QED BY <2>2, <3>2 DEF Adds
  <2> QED BY <2>1, <2>2
<1>2. IsFiniteSet(T)
  BY FS_Subset
<1>3. SUBSET T \subseteq Good
  <2> HIDE DEF Good
  <2> QED BY <1>1, <1>2, SubsetSteps
<1> QED BY <1>3

\* The equations of a sum.
LEMMA SumFirst ==
  ASSUME NEW f, NEW S, IsFiniteSet(S), Numbers(f, S)
  PROVE  /\ SumFunctionOnSet(f, S) \in Int
         /\ S = {} => SumFunctionOnSet(f, S) = 0
         /\ S # {} => SumFunctionOnSet(f, S) =
                        f[First(S)] + SumFunctionOnSet(f, S \ {First(S)})
<1> DEFINE G(T) == CHOOSE g : Adds(g, f, T)
<1>1. ASSUME NEW T \in SUBSET S
      PROVE  Adds(G(T), f, T) /\ SumFunctionOnSet(f, T) = G(T)[T]
  <2>1. IsFiniteSet(T) /\ Numbers(f, T)
    BY FS_Subset DEF Numbers
  <2> QED BY <2>1, SumExists, SumIsChosen
<1>2. SumFunctionOnSet(f, S) \in Int
  <2>1. PICK g : Adds(g, f, S) /\ g \in [SUBSET S -> Int]
    BY SumExists
  <2>2. G(S)[S] = g[S]
    <3> HIDE DEF G
    <3> QED BY <1>1, <2>1, SumsAgree
  <2> QED BY <1>1, <2>1, <2>2
<1>3. S = {} => SumFunctionOnSet(f, S) = 0
  <2> HIDE DEF G
  <2> QED BY <1>1 DEF Adds
<1>4. ASSUME S # {}
      PROVE  SumFunctionOnSet(f, S) =
               f[First(S)] + SumFunctionOnSet(f, S \ {First(S)})
  <2> DEFINE T == S \ {First(S)}
  <2>1. G(S)[T] = G(T)[T]
    <3> HIDE DEF G
    <3> QED BY <1>1, SumsAgree
  <2> HIDE DEF G
  <2>2. G(S)[S] = f[First(S)] + G(S)[T]
    BY <1>1, <1>4 DEF Adds
  <2> QED BY <1>1, <2>1, <2>2
<1> QED BY <1>2, <1>3, <1>4

\* Any element may be taken first.
LEMMA SumRemoves ==
  ASSUME NEW f, NEW S, IsFiniteSet(S), Numbers(f, S), NEW y \in S
  PROVE  SumFunctionOnSet(f, S) = f[y] + SumFunctionOnSet(f, S \ {y})
<1> DEFINE Sum(T) == SumFunctionOnSet(f, T)
           Good == {T \in SUBSET S : \A z \in T : Sum(T) = f[z] + Sum(T \ {z})}
<1>1. ASSUME NEW T \in SUBSET S
      PROVE  IsFiniteSet(T) /\ Numbers(f, T) /\ Sum(T) \in Int
  <2>1. IsFiniteSet(T) /\ Numbers(f, T)
    BY FS_Subset DEF Numbers
  <2> QED BY <2>1, SumFirst
<1>2. ASSUME NEW T \in SUBSET S, \A x \in T : T \ {x} \in Good
      PROVE  T \in Good
  <2> SUFFICES ASSUME NEW z \in T PROVE Sum(T) = f[z] + Sum(T \ {z})
    OBVIOUS
  <2> DEFINE x == First(T)
  <2>1. x \in T /\ Sum(T) = f[x] + Sum(T \ {x})
    BY <1>1, SumFirst DEF First
  <2> HIDE DEF x
  <2>2. CASE z # x
    <3>1. Sum(T \ {x}) = f[z] + Sum((T \ {x}) \ {z})
      BY <1>2, <2>1, <2>2
    <3>2. Sum(T \ {z}) = f[x] + Sum((T \ {z}) \ {x})
      BY <1>2, <2>1, <2>2
    <3>3. (T \ {x}) \ {z} = (T \ {z}) \ {x}
      OBVIOUS
    <3>4. f[x] \in Int /\ f[z] \in Int /\ Sum((T \ {z}) \ {x}) \in Int
      BY <1>1, <2>1 DEF Numbers
    <3> HIDE DEF Sum
    <3>5. Sum(T \ {x}) = f[z] + Sum((T \ {z}) \ {x})
      BY <3>1, <3>3, Zenon
    <3> QED BY <2>1, <3>2, <3>4, <3>5
  <2>3. CASE z = x
    BY <2>1, <2>3
  <2> HIDE DEF Sum
  <2> QED BY <2>2, <2>3
<1>3. SUBSET S \subseteq Good
  <2> HIDE DEF Good
  <2> QED BY <1>2, SubsetSteps
<1> QED BY <1>3

\* A sum of natural numbers is one.
LEMMA SumIsNat ==
  ASSUME NEW f, NEW S, IsFiniteSet(S), \A x \in S : f[x] \in Nat
  PROVE  SumFunctionOnSet(f, S) \in Nat
<1> DEFINE Good == {T \in SUBSET S : SumFunctionOnSet(f, T) \in Nat}
<1>1. ASSUME NEW T \in SUBSET S, \A x \in T : T \ {x} \in Good
      PROVE  T \in Good
  <2>1. IsFiniteSet(T) /\ Numbers(f, T)
    BY FS_Subset DEF Numbers
  <2>2. CASE T = {}
    <3>1. SumFunctionOnSet(f, T) = 0
      BY <2>1, <2>2, SumFirst
    <3> QED BY <3>1
  <2>3. CASE T # {}
    <3>1. PICK x \in T : TRUE
      BY <2>3
    <3>2. SumFunctionOnSet(f, T) = f[x] + SumFunctionOnSet(f, T \ {x})
      BY <2>1, SumRemoves
    <3>3. f[x] \in Nat /\ SumFunctionOnSet(f, T \ {x}) \in Nat
      BY <1>1
    <3>4. SumFunctionOnSet(f, T) \in Nat
      BY <3>2, <3>3
    <3> QED BY <3>4
  <2> QED BY <2>2, <2>3
<1>2. SUBSET S \subseteq Good
  <2> HIDE DEF Good
  <2> QED BY <1>1, SubsetSteps
<1> QED BY <1>2

\* Sums compare like their terms.
LEMMA SumCompares ==
  ASSUME NEW f, NEW g, NEW S, IsFiniteSet(S), Numbers(f, S), Numbers(g, S)
  PROVE  /\ (\A x \in S : f[x] <= g[x]) =>
              SumFunctionOnSet(f, S) <= SumFunctionOnSet(g, S)
         /\ (\A x \in S : f[x] = g[x]) =>
              SumFunctionOnSet(f, S) = SumFunctionOnSet(g, S)
<1> DEFINE F(T) == SumFunctionOnSet(f, T)
           G(T) == SumFunctionOnSet(g, T)
           Less == {T \in SUBSET S : (\A x \in T : f[x] <= g[x]) => F(T) <= G(T)}
           Same == {T \in SUBSET S : (\A x \in T : f[x] = g[x]) => F(T) = G(T)}
<1>1. ASSUME NEW T \in SUBSET S
      PROVE  /\ T = {} => F(T) = 0 /\ G(T) = 0
             /\ F(T) \in Int /\ G(T) \in Int
             /\ \A x \in T : /\ F(T) = f[x] + F(T \ {x}) /\ G(T) = g[x] + G(T \ {x})
                             /\ f[x] \in Int /\ g[x] \in Int
  <2>1. IsFiniteSet(T) /\ Numbers(f, T) /\ Numbers(g, T)
    BY FS_Subset DEF Numbers
  <2>2. /\ T = {} => F(T) = 0 /\ G(T) = 0
        /\ F(T) \in Int /\ G(T) \in Int
    BY <2>1, SumFirst
  <2>3. \A x \in T : F(T) = f[x] + F(T \ {x}) /\ G(T) = g[x] + G(T \ {x})
    BY <2>1, SumRemoves
  <2>4. \A x \in T : f[x] \in Int /\ g[x] \in Int
    BY DEF Numbers
  <2> QED BY <2>2, <2>3, <2>4
<1> HIDE DEF F, G
<1>2. ASSUME NEW T \in SUBSET S, \A x \in T : T \ {x} \in Less
      PROVE  T \in Less
  <2> SUFFICES ASSUME \A x \in T : f[x] <= g[x] PROVE F(T) <= G(T)
    OBVIOUS
  <2>1. CASE T = {}
    BY <1>1, <2>1
  <2>2. CASE T # {}
    <3>1. PICK x \in T : TRUE
      BY <2>2
    <3>2. F(T \ {x}) <= G(T \ {x}) /\ T \ {x} \in SUBSET S
      BY <1>2
    <3> QED BY <1>1, <3>2
  <2> QED BY <2>1, <2>2
<1>3. ASSUME NEW T \in SUBSET S, \A x \in T : T \ {x} \in Same
      PROVE  T \in Same
  <2> SUFFICES ASSUME \A x \in T : f[x] = g[x] PROVE F(T) = G(T)
    OBVIOUS
  <2>1. CASE T = {}
    BY <1>1, <2>1
  <2>2. CASE T # {}
    <3>1. PICK x \in T : TRUE
      BY <2>2
    <3>2. F(T \ {x}) = G(T \ {x}) /\ T \ {x} \in SUBSET S
      BY <1>3
    <3> QED BY <1>1, <3>2
  <2> QED BY <2>1, <2>2
<1>4. SUBSET S \subseteq Less
  <2> HIDE DEF Less
  <2> QED BY <1>2, SubsetSteps
<1>5. SUBSET S \subseteq Same
  <2> HIDE DEF Same
  <2> QED BY <1>3, SubsetSteps
<1> QED BY <1>4, <1>5 DEF F, G

\* Of two functions that differ in one element at most, the sums differ by that.
LEMMA SumMoves ==
  ASSUME NEW f, NEW g, NEW S, IsFiniteSet(S), Numbers(f, S), Numbers(g, S),
         NEW y \in S, \A x \in S : x # y => g[x] = f[x]
  PROVE  SumFunctionOnSet(g, S) = SumFunctionOnSet(f, S) - f[y] + g[y]
<1>1. /\ SumFunctionOnSet(f, S) = f[y] + SumFunctionOnSet(f, S \ {y})
      /\ SumFunctionOnSet(g, S) = g[y] + SumFunctionOnSet(g, S \ {y})
  BY SumRemoves
<1> DEFINE T == S \ {y}
<1>2. /\ IsFiniteSet(T) /\ Numbers(f, T) /\ Numbers(g, T)
      /\ \A x \in T : f[x] = g[x]
  BY FS_Subset DEF Numbers
<1>3. SumFunctionOnSet(f, T) = SumFunctionOnSet(g, T) /\ SumFunctionOnSet(f, T) \in Int
  <2> HIDE DEF T
  <2>1. SumFunctionOnSet(f, T) = SumFunctionOnSet(g, T)
    BY <1>2, SumCompares
  <2>2. SumFunctionOnSet(f, T) \in Int
    BY <1>2, SumFirst
  <2> QED BY <2>1, <2>2
<1>4. f[y] \in Int /\ g[y] \in Int
  BY DEF Numbers
<1> QED BY <1>1, <1>3, <1>4

\* Nothing sums up to zero.
LEMMA SumOfNothing ==
  ASSUME NEW f, NEW S, IsFiniteSet(S), \A x \in S : f[x] = 0
  PROVE  SumFunctionOnSet(f, S) = 0
<1> DEFINE Good == {T \in SUBSET S : SumFunctionOnSet(f, T) = 0}
<1>1. ASSUME NEW T \in SUBSET S, \A x \in T : T \ {x} \in Good
      PROVE  T \in Good
  <2>1. IsFiniteSet(T) /\ Numbers(f, T)
    BY FS_Subset DEF Numbers
  <2>2. CASE T = {}
    BY <2>1, <2>2, SumFirst
  <2>3. CASE T # {}
    <3>1. PICK x \in T : TRUE
      BY <2>3
    <3>2. SumFunctionOnSet(f, T) = f[x] + SumFunctionOnSet(f, T \ {x})
      BY <2>1, SumRemoves
    <3> QED BY <1>1, <3>2
  <2> QED BY <2>2, <2>3
<1>2. SUBSET S \subseteq Good
  <2> HIDE DEF Good
  <2> QED BY <1>1, SubsetSteps
<1> QED BY <1>2

\* A sum of zeros and ones counts the ones.
LEMMA SumCounts ==
  ASSUME NEW f, NEW S, IsFiniteSet(S), \A x \in S : f[x] \in {0, 1}
  PROVE  SumFunctionOnSet(f, S) = Cardinality({x \in S : f[x] = 1})
<1> DEFINE Ones(T) == {x \in T : f[x] = 1}
           Good == {T \in SUBSET S : SumFunctionOnSet(f, T) = Cardinality(Ones(T))}
<1>1. ASSUME NEW T \in SUBSET S, \A x \in T : T \ {x} \in Good
      PROVE  T \in Good
  <2>1. IsFiniteSet(T) /\ Numbers(f, T)
    BY FS_Subset DEF Numbers
  <2>2. CASE T = {}
    BY <2>1, <2>2, SumFirst, FS_EmptySet
  <2>3. CASE T # {}
    <3>1. PICK x \in T : TRUE
      BY <2>3
    <3>2. SumFunctionOnSet(f, T) = f[x] + SumFunctionOnSet(f, T \ {x})
      BY <2>1, SumRemoves
    <3>3. SumFunctionOnSet(f, T \ {x}) = Cardinality(Ones(T \ {x}))
      BY <1>1
    <3>4. IsFiniteSet(Ones(T)) /\ Cardinality(Ones(T)) \in Nat
          /\ Ones(T \ {x}) = Ones(T) \ {x}
      BY <2>1, FS_Subset, FS_CardinalityType
    <3>5. CASE f[x] = 1
      <4>1. Cardinality(Ones(T) \ {x}) = Cardinality(Ones(T)) - 1
        BY <3>4, <3>5, FS_RemoveElement
      <4> HIDE DEF Ones
      <4>2. SumFunctionOnSet(f, T) = Cardinality(Ones(T))
        BY <3>2, <3>3, <3>4, <3>5, <4>1
      <4> QED BY <4>2
    <3>6. CASE f[x] = 0
      <4>1. Ones(T) \ {x} = Ones(T)
        BY <3>6
      <4> HIDE DEF Ones
      <4>2. SumFunctionOnSet(f, T) = Cardinality(Ones(T))
        BY <3>2, <3>3, <3>4, <3>6, <4>1
      <4> QED BY <4>2
    <3> QED BY <3>5, <3>6
  <2> QED BY <2>2, <2>3
<1>2. SUBSET S \subseteq Good
  <2> HIDE DEF Good
  <2> QED BY <1>1, SubsetSteps
<1> QED BY <1>2

\* A sum of which one term changes, and one of which none grows.
LEMMA SumChanges ==
  ASSUME NEW S, IsFiniteSet(S), NEW f, NEW g, DOMAIN f = S, DOMAIN g = S,
         \A x \in S : f[x] \in Nat /\ g[x] \in Nat
  PROVE  /\ SumFunction(f) \in Nat /\ SumFunction(g) \in Nat
         /\ (\A x \in S : g[x] <= f[x]) => SumFunction(g) <= SumFunction(f)
         /\ \A y \in S : g[y] < f[y] /\ (\A x \in S : x # y => g[x] = f[x]) =>
              SumFunction(g) < SumFunction(f)
<1>1. SumFunction(f) = SumFunctionOnSet(f, S) /\ SumFunction(g) = SumFunctionOnSet(g, S)
  BY DEF SumFunction
<1>2. Numbers(f, S) /\ Numbers(g, S)
  BY DEF Numbers
<1>3. SumFunctionOnSet(f, S) \in Nat /\ SumFunctionOnSet(g, S) \in Nat
  BY SumIsNat
<1>4. (\A x \in S : g[x] <= f[x]) => SumFunctionOnSet(g, S) <= SumFunctionOnSet(f, S)
  BY <1>2, SumCompares
<1>5. ASSUME NEW y \in S, g[y] < f[y], \A x \in S : x # y => g[x] = f[x]
      PROVE  SumFunctionOnSet(g, S) < SumFunctionOnSet(f, S)
  <2>1. SumFunctionOnSet(g, S) = SumFunctionOnSet(f, S) - f[y] + g[y]
    BY <1>2, <1>5, SumMoves
  <2>2. f[y] \in Nat /\ g[y] \in Nat
    OBVIOUS
  <2> QED BY <1>3, <1>5, <2>1, <2>2
<1> QED BY <1>1, <1>3, <1>4, <1>5

\* At most so many sets of at most so many elements.
LEMMA UnionBound ==
  ASSUME NEW S, IsFiniteSet(S), NEW U, IsFiniteSet(U), NEW H \in [S -> SUBSET U],
         NEW b \in Nat, \A x \in S : Cardinality(H[x]) <= b
  PROVE  Cardinality(UNION {H[x] : x \in S}) <= Cardinality(S) * b
<1> DEFINE In(T) == UNION {H[x] : x \in T}
           Good == {T \in SUBSET S : Cardinality(In(T)) <= Cardinality(T) * b}
<1>0. ASSUME NEW T \in SUBSET S
      PROVE  /\ In(T) \in SUBSET U /\ IsFiniteSet(In(T)) /\ Cardinality(In(T)) \in Nat
             /\ IsFiniteSet(T) /\ Cardinality(T) \in Nat
  <2>1. In(T) \in SUBSET U
    OBVIOUS
  <2> HIDE DEF In
  <2> QED BY <2>1, FS_Subset, FS_CardinalityType
<1>1. ASSUME NEW T \in SUBSET S, \A x \in T : T \ {x} \in Good PROVE T \in Good
  <2>1. CASE T = {}
    <3>1. In(T) = {}
      BY <2>1
    <3>2. Cardinality({}) = 0
      BY FS_EmptySet
    <3> HIDE DEF In
    <3> QED BY <2>1, <3>1, <3>2
  <2>2. CASE T # {}
    <3>1. PICK x \in T : TRUE
      BY <2>2
    <3> DEFINE V == T \ {x}
    <3>2. V \in SUBSET S /\ Cardinality(In(V)) <= Cardinality(V) * b
      BY <1>1, <3>1
    <3>3. In(T) = In(V) \cup H[x]
      BY <3>1
    <3>4. Cardinality(V) = Cardinality(T) - 1
      BY <1>0, <3>1, FS_RemoveElement
    <3>5. IsFiniteSet(H[x]) /\ Cardinality(H[x]) \in Nat /\ Cardinality(H[x]) <= b
      BY <3>1, FS_Subset, FS_CardinalityType
    <3> HIDE DEF In, V
    <3>6. /\ IsFiniteSet(In(V)) /\ Cardinality(In(V)) \in Nat /\ Cardinality(V) \in Nat
          /\ Cardinality(T) \in Nat
      BY <1>0, <3>2
    <3>7. Cardinality(In(V) \cup H[x])
            = Cardinality(In(V)) + Cardinality(H[x]) - Cardinality(In(V) \cap H[x])
      BY <3>5, <3>6, FS_Union
    <3>8. Cardinality(In(V) \cap H[x]) \in Nat
      BY <3>5, FS_Subset, FS_CardinalityType
    <3>9. Cardinality(V) * b + b = Cardinality(T) * b /\ Cardinality(V) * b \in Nat
      BY <3>4, <3>6
    <3>10. Cardinality(In(T)) <= Cardinality(T) * b
      BY <3>2, <3>3, <3>5, <3>6, <3>7, <3>8, <3>9
    <3> QED BY <3>10
  <2> QED BY <2>1, <2>2
<1>2. SUBSET S \subseteq Good
  <2> HIDE DEF Good
  <2> QED BY <1>1, SubsetSteps
<1> QED BY <1>2

-----------------------------------------------------------------------------
(* Sums over sequences. *)

LEMMA SumConcat ==
  ASSUME NEW s \in Seq(Int), NEW t \in Seq(Int)
  PROVE  SumFunction(s \o t) = SumFunction(s) + SumFunction(t)
<1> DEFINE st == s \o t
           m == Len(s)
           n == Len(t)
           N == {k \in Nat : k <= n => SumFunctionOnSet(st, 1..(m + k))
                               = SumFunctionOnSet(s, 1..m) + SumFunctionOnSet(t, 1..k)}
<1>1. /\ m \in Nat /\ n \in Nat /\ st \in Seq(Int) /\ Len(st) = m + n
      /\ DOMAIN s = 1..m /\ DOMAIN t = 1..n /\ DOMAIN st = 1..(m + n)
      /\ \A i \in 1..m : st[i] = s[i] /\ s[i] \in Int
      /\ \A i \in 1..n : st[m + i] = t[i] /\ t[i] \in Int
  OBVIOUS
<1> HIDE DEF st, m, n
<1>2. \A k \in Nat : IsFiniteSet(1..k)
  BY FS_Interval
<1>3. \A k \in 0..n : Numbers(st, 1..(m + k)) /\ Numbers(t, 1..k)
  <2>1. ASSUME NEW i \in 1..(m + n) PROVE st[i] \in Int
    <3>1. CASE i <= m
      BY <1>1, <3>1
    <3>2. CASE i > m
      <4>1. i - m \in 1..n /\ i = m + (i - m)
        BY <1>1, <3>2
      <4> QED BY <1>1, <4>1
    <3> QED BY <1>1, <3>1, <3>2
  <2>2. \A k \in 0..n : 1..(m + k) \subseteq 1..(m + n) /\ 1..k \subseteq 1..n
    BY <1>1
  <2> QED BY <1>1, <2>1, <2>2 DEF Numbers
<1>4. Numbers(s, 1..m)
  BY <1>1 DEF Numbers
<1>5. 0 \in N
  <2>1. SumFunctionOnSet(t, 1..0) = 0
    <3>1. 1..0 = {}
      OBVIOUS
    <3>2. IsFiniteSet(1..0)
      BY <1>2
    <3>3. Numbers(t, 1..0)
      BY <3>1 DEF Numbers
    <3> QED BY <3>1, <3>2, <3>3, SumFirst
  <2>2. SumFunctionOnSet(s, 1..m) = SumFunctionOnSet(st, 1..m)
    <3>1. Numbers(st, 1..m) /\ IsFiniteSet(1..m)
      BY <1>1, <1>2 DEF Numbers
    <3> QED BY <1>1, <1>4, <3>1, SumCompares
  <2>3. SumFunctionOnSet(s, 1..m) \in Int
    <3>1. IsFiniteSet(1..m)
      BY <1>1, <1>2
    <3> QED BY <1>4, <3>1, SumFirst
  <2>4. m + 0 = m
    BY <1>1
  <2> QED BY <2>1, <2>2, <2>3, <2>4
<1>6. ASSUME NEW k \in Nat, k \in N PROVE k + 1 \in N
  <2> SUFFICES ASSUME k + 1 <= n
               PROVE  SumFunctionOnSet(st, 1..(m + (k + 1)))
                        = SumFunctionOnSet(s, 1..m) + SumFunctionOnSet(t, 1..(k + 1))
    OBVIOUS
  <2> DEFINE A == 1..(m + (k + 1))
             B == 1..(k + 1)
             x == m + (k + 1)
             y == k + 1
  <2>a. m + (k + 1) \in Nat /\ k + 1 \in 0..n
    BY <1>1
  <2>b. Numbers(st, A) /\ Numbers(t, B) /\ IsFiniteSet(A) /\ IsFiniteSet(B)
    BY <1>2, <1>3, <2>a
  <2>c. A \ {x} = 1..(m + k) /\ x \in A
    <3>1. m + k \in Nat /\ m + (k + 1) = (m + k) + 1
      BY <1>1
    <3>2. \A p \in Nat : (1..(p + 1)) \ {p + 1} = 1..p /\ p + 1 \in 1..(p + 1)
      OBVIOUS
    <3> QED BY <3>1, <3>2
  <2>d. B \ {y} = 1..k /\ y \in B
    OBVIOUS
  <2>1. /\ A \ {x} = 1..(m + k) /\ B \ {y} = 1..k
        /\ x \in A /\ y \in B /\ IsFiniteSet(A) /\ IsFiniteSet(B)
        /\ Numbers(st, A) /\ Numbers(t, B)
    BY <2>b, <2>c, <2>d
  <2>2. st[x] = t[y] /\ t[y] \in Int /\ k <= n
    BY <1>1
  <2>3. SumFunctionOnSet(st, 1..(m + k))
          = SumFunctionOnSet(s, 1..m) + SumFunctionOnSet(t, 1..k)
    BY <1>6, <2>2
  <2> HIDE DEF A, B, x, y
  <2>4. SumFunctionOnSet(st, A) = st[x] + SumFunctionOnSet(st, 1..(m + k))
    <3>1. SumFunctionOnSet(st, A) = st[x] + SumFunctionOnSet(st, A \ {x})
      BY <2>1, SumRemoves
    <3> QED BY <2>1, <3>1, Zenon
  <2>5. SumFunctionOnSet(t, B) = t[y] + SumFunctionOnSet(t, 1..k)
    <3>0. y \in B /\ IsFiniteSet(B) /\ Numbers(t, B)
      BY <2>1
    <3>1. SumFunctionOnSet(t, B) = t[y] + SumFunctionOnSet(t, B \ {y})
      BY <3>0, SumRemoves
    <3> QED BY <2>1, <3>1, Zenon
  <2>6. SumFunctionOnSet(t, 1..k) \in Int /\ SumFunctionOnSet(s, 1..m) \in Int
    <3>1. Numbers(t, 1..k)
      BY <1>3, <2>2
    <3> QED BY <1>1, <1>2, <1>4, <3>1, SumFirst
  <2>7. SumFunctionOnSet(st, A)
          = SumFunctionOnSet(s, 1..m) + SumFunctionOnSet(t, B)
    BY <2>2, <2>3, <2>4, <2>5, <2>6
  <2> QED BY <2>7 DEF A, B
<1>7. n \in N
  <2> HIDE DEF N
  <2> QED BY <1>1, <1>5, <1>6, NaturalSteps
<1>8. /\ SumFunction(st) = SumFunctionOnSet(st, 1..(m + n))
      /\ SumFunction(s) = SumFunctionOnSet(s, 1..m)
      /\ SumFunction(t) = SumFunctionOnSet(t, 1..n)
  BY <1>1 DEF SumFunction
<1>9. SumFunctionOnSet(st, 1..(m + n))
        = SumFunctionOnSet(s, 1..m) + SumFunctionOnSet(t, 1..n)
  BY <1>1, <1>7
<1> QED BY <1>8, <1>9, Zenon DEF st

LEMMA SumOfOne ==
  ASSUME NEW x \in Int
  PROVE  SumFunction(<<x>>) = x
<1> DEFINE f == <<x>>
<1>1. DOMAIN f = {1} /\ f[1] = x
  OBVIOUS
<1> HIDE DEF f
<1>2. IsFiniteSet({1}) /\ Numbers(f, {1}) /\ {1} \ {1} = {}
  BY <1>1, FS_Singleton DEF Numbers
<1>3. SumFunctionOnSet(f, {1}) = f[1] + SumFunctionOnSet(f, {1} \ {1})
  BY <1>2, SumRemoves
<1>4. SumFunctionOnSet(f, {}) = 0
  <2>1. IsFiniteSet({}) /\ Numbers(f, {})
    BY FS_EmptySet DEF Numbers
  <2> QED BY <2>1, SumFirst
<1>5. SumFunctionOnSet(f, {1}) = f[1] + SumFunctionOnSet(f, {})
  BY <1>2, <1>3, Zenon
<1>6. SumFunction(f) = x
  BY <1>1, <1>4, <1>5 DEF SumFunction
<1> QED BY <1>6 DEF f

\* What the elements of a sequence weigh together.
Weight(w, s) == SumFunction([k \in DOMAIN s |-> w[s[k]]])

LEMMA WeightOfConcat ==
  ASSUME NEW V, NEW w \in [V -> Nat], NEW s \in Seq(V), NEW t \in Seq(V)
  PROVE  /\ Weight(w, s) \in Nat
         /\ Weight(w, s \o t) = Weight(w, s) + Weight(w, t)
<1> DEFINE ws(u) == [k \in DOMAIN u |-> w[u[k]]]
<1>1. ws(s) \in Seq(Int) /\ ws(t) \in Seq(Int)
      /\ ws(s \o t) = ws(s) \o ws(t)
  <2>1. ws(s) \in Seq(Int) /\ ws(t) \in Seq(Int)
    OBVIOUS
  <2>2. /\ DOMAIN (s \o t) = 1..(Len(s) + Len(t))
        /\ Len(ws(s)) = Len(s) /\ Len(ws(t)) = Len(t)
    OBVIOUS
  <2>3. DOMAIN (ws(s) \o ws(t)) = 1..(Len(s) + Len(t))
    <3>1. \A u, v \in Seq(Int) : DOMAIN (u \o v) = 1..(Len(u) + Len(v))
      OBVIOUS
    <3>2. DOMAIN (ws(s) \o ws(t)) = 1..(Len(ws(s)) + Len(ws(t)))
      BY <2>1, <3>1, Zenon
    <3> QED BY <2>2, <3>2, Zenon
  <2>4. ASSUME NEW k \in 1..(Len(s) + Len(t))
        PROVE  ws(s \o t)[k] = (ws(s) \o ws(t))[k]
    OBVIOUS
  <2>5. ws(s \o t) \in Seq(Int) /\ DOMAIN ws(s \o t) = 1..(Len(s) + Len(t))
    BY <2>2
  <2>6. ws(s) \o ws(t) \in Seq(Int)
    <3> HIDE DEF ws
    <3> QED BY <2>1
  <2>7. ws(s \o t) = ws(s) \o ws(t)
    <3>1. \A u, v \in Seq(Int) :
            DOMAIN u = DOMAIN v /\ (\A k \in DOMAIN u : u[k] = v[k]) => u = v
      OBVIOUS
    <3> HIDE DEF ws
    <3> QED BY <2>3, <2>4, <2>5, <2>6, <3>1
  <2> QED BY <2>1, <2>7
<1>2. Weight(w, s) \in Nat
  <2>1. IsFiniteSet(DOMAIN ws(s)) /\ \A k \in DOMAIN ws(s) : ws(s)[k] \in Nat
    <3>1. DOMAIN ws(s) = 1..Len(s) /\ Len(s) \in Nat
      OBVIOUS
    <3> QED BY <3>1, FS_Interval
  <2> HIDE DEF ws
  <2>2. SumFunction(ws(s)) \in Nat
    BY <2>1, SumIsNat DEF SumFunction
  <2> QED BY <2>2 DEF ws, Weight
<1>3. SumFunction(ws(s \o t)) = SumFunction(ws(s)) + SumFunction(ws(t))
  <2> HIDE DEF ws
  <2>1. SumFunction(ws(s) \o ws(t)) = SumFunction(ws(s)) + SumFunction(ws(t))
    BY <1>1, SumConcat
  <2> QED BY <1>1, <2>1, Zenon
<1> QED BY <1>2, <1>3 DEF Weight

LEMMA WeightOfTail ==
  ASSUME NEW V, NEW w \in [V -> Nat], NEW s \in Seq(V), s # <<>>
  PROVE  /\ Weight(w, s) = w[Head(s)] + Weight(w, Tail(s))
         /\ Weight(w, Tail(s)) \in Nat
<1>1. /\ <<Head(s)>> \in Seq(V) /\ Tail(s) \in Seq(V)
      /\ s = <<Head(s)>> \o Tail(s) /\ w[Head(s)] \in Nat
  OBVIOUS
<1>2. Weight(w, <<Head(s)>>) = w[Head(s)]
  <2>1. [k \in DOMAIN <<Head(s)>> |-> w[<<Head(s)>>[k]]] = <<w[Head(s)]>>
    OBVIOUS
  <2>2. SumFunction(<<w[Head(s)]>>) = w[Head(s)]
    BY <1>1, SumOfOne
  <2> QED BY <2>1, <2>2 DEF Weight
<1>3. Weight(w, <<Head(s)>> \o Tail(s)) = Weight(w, <<Head(s)>>) + Weight(w, Tail(s))
      /\ Weight(w, Tail(s)) \in Nat
  BY <1>1, WeightOfConcat
<1>4. Weight(w, s) = Weight(w, <<Head(s)>> \o Tail(s))
  BY <1>1, Zenon
<1> QED BY <1>2, <1>3, <1>4

LEMMA WeightOfNone ==
  ASSUME NEW w
  PROVE  Weight(w, <<>>) = 0
<1> DEFINE f == [k \in DOMAIN <<>> |-> w[<<>>[k]]]
<1>1. DOMAIN f = {}
  OBVIOUS
<1> HIDE DEF f
<1>2. IsFiniteSet({}) /\ Numbers(f, {})
  BY FS_EmptySet DEF Numbers
<1>3. SumFunction(f) = 0
  BY <1>1, <1>2, SumFirst DEF SumFunction
<1> QED BY <1>3 DEF Weight, f

-----------------------------------------------------------------------------
(* Flattened sequences. *)

\* The recursion FlattenSeq chooses, and what its first k sequences flatten to.
Flattens(f, ss) ==
  f = [i \in 1..Len(ss) |-> IF i = 1 THEN ss[i] ELSE f[i - 1] \o ss[i]]
Stages(h, ss, n) ==
  h[0] = <<>> /\ \A i \in 1..n : h[i] = h[i - 1] \o ss[i]

LEMMA FlattenStages ==
  ASSUME NEW V, NEW ss \in Seq(Seq(V))
  PROVE  \E h \in [0..Len(ss) -> Seq(V)] :
           Stages(h, ss, Len(ss)) /\ FlattenSeq(ss) = h[Len(ss)]
<1> DEFINE l == Len(ss)
           N == {n \in Nat : n <= l => \E h \in [0..n -> Seq(V)] : Stages(h, ss, n)}
<1>1. l \in Nat /\ (\A i \in 1..l : ss[i] \in Seq(V)) /\ <<>> \in Seq(V)
  OBVIOUS
<1>2. 0 \in N
  <2>1. [i \in 0..0 |-> <<>>] \in [0..0 -> Seq(V)] /\ Stages([i \in 0..0 |-> <<>>], ss, 0)
    BY DEF Stages
  <2> QED BY <2>1
<1>3. ASSUME NEW n \in Nat, n \in N PROVE n + 1 \in N
  <2> SUFFICES ASSUME n + 1 <= l
               PROVE  \E h \in [0..(n + 1) -> Seq(V)] : Stages(h, ss, n + 1)
    OBVIOUS
  <2>1. PICK g \in [0..n -> Seq(V)] : Stages(g, ss, n)
    BY <1>1, <1>3
  <2>2. n \in 0..n /\ n + 1 \in 1..l /\ n + 1 \notin 0..n
    BY <1>1
  <2>3. g[n] \o ss[n + 1] \in Seq(V)
    BY <1>1, <2>2
  <2> DEFINE h == [i \in 0..(n + 1) |-> IF i = n + 1 THEN g[n] \o ss[n + 1] ELSE g[i]]
  <2>4. h \in [0..(n + 1) -> Seq(V)]
    BY <2>3
  <2>5. Stages(h, ss, n + 1)
    <3>1. h[0] = <<>>
      BY <2>1, <2>2 DEF Stages
    <3>2. ASSUME NEW i \in 1..(n + 1) PROVE h[i] = h[i - 1] \o ss[i]
      <4>1. CASE i = n + 1
        <5>1. h[i] = g[n] \o ss[n + 1] /\ h[i - 1] = g[n]
          BY <2>2, <4>1
        <5> HIDE DEF h
        <5> QED BY <4>1, <5>1
      <4>2. CASE i # n + 1
        <5>1. i \in 1..n /\ i - 1 \in 0..n /\ i \in 0..(n + 1) /\ i - 1 \in 0..(n + 1)
              /\ i - 1 # n + 1
          BY <4>2
        <5>2. h[i] = g[i] /\ h[i - 1] = g[i - 1]
          BY <4>2, <5>1
        <5> HIDE DEF h
        <5> QED BY <2>1, <5>1, <5>2 DEF Stages
      <4> QED BY <4>1, <4>2
    <3> HIDE DEF h
    <3> QED BY <3>1, <3>2 DEF Stages
  <2> HIDE DEF h
  <2> QED BY <2>4, <2>5
<1>4. PICK h \in [0..l -> Seq(V)] : Stages(h, ss, l)
  <2>1. Nat \subseteq N
    <3> HIDE DEF N
    <3> QED BY <1>2, <1>3, NaturalSteps
  <2> HIDE DEF l
  <2> QED BY <1>1, <2>1
<1>5. CASE l = 0
  <2>1. FlattenSeq(ss) = <<>>
    BY <1>5 DEF FlattenSeq
  <2> QED BY <1>4, <1>5, <2>1 DEF Stages
<1>6. CASE l # 0
  <2>1. FlattenSeq(ss) = (CHOOSE f : Flattens(f, ss))[l]
    BY <1>6 DEF FlattenSeq, Flattens
  <2>2. \E f : Flattens(f, ss)
    <3> DEFINE f == [i \in 1..l |-> h[i]]
    <3>1. ASSUME NEW i \in 1..l
          PROVE  f[i] = IF i = 1 THEN ss[i] ELSE f[i - 1] \o ss[i]
      <4>1. CASE i = 1
        <5>0. 1 \in 1..l /\ 1 - 1 = 0
          BY <1>1, <4>1
        <5>a. h[1] = h[1 - 1] \o ss[1] /\ h[0] = <<>>
          BY <1>4, <5>0, Zenon DEF Stages
        <5>1. h[1] = h[0] \o ss[1] /\ h[0] = <<>> /\ ss[1] \in Seq(V)
          BY <1>1, <5>0, <5>a
        <5>2. <<>> \o ss[1] = ss[1]
          BY <5>1
        <5> QED BY <4>1, <5>1, <5>2
      <4>2. CASE i # 1
        <5>1. i - 1 \in 1..l /\ i \in 1..l
          BY <1>1, <4>2
        <5> QED BY <1>4, <4>2, <5>1 DEF Stages
      <4> QED BY <4>1, <4>2
    <3>2. f = [i \in 1..l |-> IF i = 1 THEN ss[i] ELSE f[i - 1] \o ss[i]]
      BY <3>1
    <3> HIDE DEF f
    <3> QED BY <3>2 DEF Flattens
  <2> DEFINE f == CHOOSE f : Flattens(f, ss)
  <2>3. Flattens(f, ss)
    BY <2>2
  <2> HIDE DEF f
  <2> DEFINE M == {n \in Nat : n + 1 <= l => f[n + 1] = h[n + 1]}
  <2>4. 0 \in M
    <3>0. 1 \in 1..l /\ 1 - 1 = 0
      BY <1>1, <1>6
    <3>a. h[1] = h[1 - 1] \o ss[1] /\ h[0] = <<>>
      BY <1>4, <3>0, Zenon DEF Stages
    <3>b. f[1] = ss[1]
      BY <2>3, <3>0 DEF Flattens
    <3>1. h[1] = h[0] \o ss[1] /\ h[0] = <<>> /\ ss[1] \in Seq(V) /\ f[1] = ss[1]
      BY <1>1, <3>0, <3>a, <3>b
    <3>2. <<>> \o ss[1] = ss[1]
      BY <3>1
    <3> QED BY <3>1, <3>2
  <2>5. ASSUME NEW n \in Nat, n \in M PROVE n + 1 \in M
    <3> SUFFICES ASSUME (n + 1) + 1 <= l PROVE f[(n + 1) + 1] = h[(n + 1) + 1]
      OBVIOUS
    <3>1. (n + 1) + 1 \in 1..l /\ (n + 1) + 1 # 1 /\ ((n + 1) + 1) - 1 = n + 1
      BY <1>1
    <3>2. f[(n + 1) + 1] = f[((n + 1) + 1) - 1] \o ss[(n + 1) + 1]
      BY <2>3, <3>1 DEF Flattens
    <3>3. h[(n + 1) + 1] = h[((n + 1) + 1) - 1] \o ss[(n + 1) + 1]
      BY <1>4, <3>1 DEF Stages
    <3>4. f[n + 1] = h[n + 1]
      BY <1>1, <2>5
    <3> QED BY <3>1, <3>2, <3>3, <3>4
  <2>6. l - 1 \in M
    <3>1. l - 1 \in Nat
      BY <1>1, <1>6
    <3> HIDE DEF M
    <3> QED BY <2>4, <2>5, <3>1, NaturalSteps
  <2>7. f[l] = h[l]
    BY <1>1, <1>6, <2>6
  <2> QED BY <1>4, <2>1, <2>7 DEF f
<1> QED BY <1>5, <1>6

LEMMA ToSetOfConcat ==
  ASSUME NEW V, NEW s \in Seq(V), NEW t \in Seq(V)
  PROVE  ToSet(s \o t) = ToSet(s) \cup ToSet(t)
<1>1. /\ DOMAIN s = 1..Len(s) /\ DOMAIN t = 1..Len(t)
      /\ DOMAIN (s \o t) = 1..(Len(s) + Len(t))
      /\ Len(s) \in Nat /\ Len(t) \in Nat
  OBVIOUS
<1>2. ASSUME NEW i \in DOMAIN (s \o t)
      PROVE  (s \o t)[i] \in ToSet(s) \cup ToSet(t)
  <2>1. CASE i <= Len(s)
    BY <1>1, <2>1 DEF ToSet
  <2>2. CASE i > Len(s)
    <3>1. i - Len(s) \in DOMAIN t /\ (s \o t)[i] = t[i - Len(s)]
      BY <1>1, <2>2
    <3> QED BY <3>1 DEF ToSet
  <2> QED BY <1>1, <2>1, <2>2
<1>3. ASSUME NEW i \in DOMAIN s PROVE s[i] \in ToSet(s \o t)
  <2>1. i \in DOMAIN (s \o t) /\ (s \o t)[i] = s[i]
    BY <1>1
  <2> QED BY <2>1 DEF ToSet
<1>4. ASSUME NEW i \in DOMAIN t PROVE t[i] \in ToSet(s \o t)
  <2>1. Len(s) + i \in DOMAIN (s \o t) /\ (s \o t)[Len(s) + i] = t[i]
    BY <1>1
  <2> QED BY <2>1 DEF ToSet
<1> QED BY <1>2, <1>3, <1>4 DEF ToSet

\* A flattened sequence is one, and has the elements of its parts.
LEMMA FlattenElements ==
  ASSUME NEW V, NEW ss \in Seq(Seq(V))
  PROVE  /\ FlattenSeq(ss) \in Seq(V)
         /\ ToSet(FlattenSeq(ss)) = UNION {ToSet(ss[k]) : k \in DOMAIN ss}
<1>1. PICK h \in [0..Len(ss) -> Seq(V)] : Stages(h, ss, Len(ss)) /\ FlattenSeq(ss) = h[Len(ss)]
  BY FlattenStages
<1> DEFINE l == Len(ss)
           Upto(n) == UNION {ToSet(ss[k]) : k \in 1..n}
           N == {n \in Nat : n <= l => ToSet(h[n]) = Upto(n)}
<1>2. l \in Nat /\ DOMAIN ss = 1..l /\ \A i \in 1..l : ss[i] \in Seq(V)
  OBVIOUS
<1>3. 0 \in N
  BY <1>1 DEF Stages, ToSet
<1>4. ASSUME NEW n \in Nat, n \in N PROVE n + 1 \in N
  <2> SUFFICES ASSUME n + 1 <= l PROVE ToSet(h[n + 1]) = Upto(n + 1)
    OBVIOUS
  <2>1. n + 1 \in 1..l /\ n \in 0..l /\ (n + 1) - 1 = n
    BY <1>2
  <2>2. h[n + 1] = h[n] \o ss[n + 1] /\ h[n] \in Seq(V) /\ ss[n + 1] \in Seq(V)
    BY <1>1, <1>2, <2>1 DEF Stages
  <2>3. ToSet(h[n + 1]) = ToSet(h[n]) \cup ToSet(ss[n + 1])
    <3>1. ToSet(h[n] \o ss[n + 1]) = ToSet(h[n]) \cup ToSet(ss[n + 1])
      BY <2>2, ToSetOfConcat
    <3> QED BY <2>2, <3>1, Zenon
  <2>4. Upto(n + 1) = Upto(n) \cup ToSet(ss[n + 1])
    <3>1. 1..(n + 1) = (1..n) \cup {n + 1}
      OBVIOUS
    <3> QED BY <3>1
  <2>5. ToSet(h[n]) = Upto(n)
    BY <1>2, <1>4
  <2> HIDE DEF Upto
  <2> QED BY <2>3, <2>4, <2>5
<1>5. l \in N
  <2> HIDE DEF N, l
  <2> QED BY <1>2, <1>3, <1>4, NaturalSteps
<1>6. h[l] \in Seq(V)
  BY <1>1, <1>2
<1> QED BY <1>1, <1>2, <1>5, <1>6

\* A flattened sequence weighs what its parts do.
LEMMA WeightOfFlatten ==
  ASSUME NEW V, NEW w \in [V -> Nat], NEW ss \in Seq(Seq(V))
  PROVE  Weight(w, FlattenSeq(ss))
           = SumFunction([k \in DOMAIN ss |-> Weight(w, ss[k])])
<1>1. PICK h \in [0..Len(ss) -> Seq(V)] : Stages(h, ss, Len(ss)) /\ FlattenSeq(ss) = h[Len(ss)]
  BY FlattenStages
<1> DEFINE l == Len(ss)
           f == [k \in DOMAIN ss |-> Weight(w, ss[k])]
           N == {n \in Nat : n <= l => Weight(w, h[n]) = SumFunctionOnSet(f, 1..n)}
<1>2. l \in Nat /\ DOMAIN ss = 1..l /\ \A i \in 1..l : ss[i] \in Seq(V)
  OBVIOUS
<1>3. /\ DOMAIN f = 1..l
      /\ \A k \in 1..l : f[k] = Weight(w, ss[k]) /\ f[k] \in Nat
  BY <1>2, WeightOfConcat
<1> HIDE DEF f
<1>4. 0 \in N
  <2>1. h[0] = <<>> /\ 1..0 = {}
    BY <1>1 DEF Stages
  <2>2. IsFiniteSet({}) /\ Numbers(f, {})
    BY FS_EmptySet DEF Numbers
  <2>3. SumFunctionOnSet(f, {}) = 0
    BY <2>2, SumFirst
  <2> QED BY <2>1, <2>3, WeightOfNone
<1>5. ASSUME NEW n \in Nat, n \in N PROVE n + 1 \in N
  <2> SUFFICES ASSUME n + 1 <= l
               PROVE  Weight(w, h[n + 1]) = SumFunctionOnSet(f, 1..(n + 1))
    OBVIOUS
  <2>1. n + 1 \in 1..l /\ n \in 0..l /\ (n + 1) - 1 = n
    BY <1>2
  <2>2. h[n + 1] = h[n] \o ss[n + 1] /\ h[n] \in Seq(V) /\ ss[n + 1] \in Seq(V)
    BY <1>1, <1>2, <2>1 DEF Stages
  <2>3. Weight(w, h[n + 1]) = Weight(w, h[n]) + f[n + 1]
    <3>1. Weight(w, h[n] \o ss[n + 1]) = Weight(w, h[n]) + Weight(w, ss[n + 1])
      BY <2>2, WeightOfConcat
    <3>2. f[n + 1] = Weight(w, ss[n + 1])
      BY <1>3, <2>1
    <3>3. Weight(w, h[n + 1]) = Weight(w, h[n] \o ss[n + 1])
      BY <2>2, Zenon
    <3> QED BY <3>1, <3>2, <3>3, Zenon
  <2> DEFINE A == 1..(n + 1)
             x == n + 1
  <2>4. IsFiniteSet(A) /\ Numbers(f, A) /\ x \in A /\ A \ {x} = 1..n
    <3>1. IsFiniteSet(A)
      BY FS_Interval
    <3>2. Numbers(f, A)
      BY <1>2, <1>3 DEF Numbers
    <3> QED BY <3>1, <3>2
  <2> HIDE DEF A, x
  <2>5. SumFunctionOnSet(f, A) = f[x] + SumFunctionOnSet(f, 1..n)
    <3>0. x \in A /\ IsFiniteSet(A) /\ Numbers(f, A)
      BY <2>4
    <3>a. \A y \in A : SumFunctionOnSet(f, A) = f[y] + SumFunctionOnSet(f, A \ {y})
      BY <3>0, SumRemoves
    <3>1. SumFunctionOnSet(f, A) = f[x] + SumFunctionOnSet(f, A \ {x})
      BY <3>0, <3>a, Zenon
    <3> QED BY <2>4, <3>1, Zenon
  <2>6. Weight(w, h[n]) = SumFunctionOnSet(f, 1..n)
    BY <1>2, <1>5
  <2>7. Weight(w, h[n]) \in Nat /\ f[x] \in Nat
    <3>1. Weight(w, h[n]) \in Nat
      BY <2>2, WeightOfConcat
    <3> QED BY <1>3, <2>1, <3>1 DEF x
  <2>8. Weight(w, h[n + 1]) = Weight(w, h[n]) + f[x]
    BY <2>3 DEF x
  <2> HIDE DEF N
  <2>9. Weight(w, h[n + 1]) = SumFunctionOnSet(f, A)
    BY <2>5, <2>6, <2>7, <2>8
  <2> QED BY <2>9 DEF A
<1>6. l \in N
  <2> HIDE DEF N, l
  <2> QED BY <1>2, <1>4, <1>5, NaturalSteps
<1>7. Weight(w, h[l]) = SumFunction(f)
  BY <1>2, <1>3, <1>6 DEF SumFunction
<1> QED BY <1>1, <1>7 DEF f

-----------------------------------------------------------------------------
(* Lists that are gone through for some of their elements. *)

\* How many elements of s are in P.
Count(s, P) == Cardinality({k \in DOMAIN s : s[k] \in P})

LEMMA CountOfNone ==
  ASSUME NEW P
  PROVE  Count(<<>>, P) = 0
<1>1. {k \in DOMAIN <<>> : <<>>[k] \in P} = {}
  OBVIOUS
<1> QED BY <1>1, FS_EmptySet DEF Count

\* A count is a natural number, and one element more counts for one or nothing.
LEMMA CountOfAppend ==
  ASSUME NEW V, NEW s \in Seq(V), NEW e \in V, NEW P
  PROVE  /\ Count(s, P) \in Nat
         /\ Count(s \o <<e>>, P) = Count(s, P) + (IF e \in P THEN 1 ELSE 0)
<1> DEFINE A == {k \in DOMAIN s : s[k] \in P}
           B == {k \in DOMAIN (s \o <<e>>) : (s \o <<e>>)[k] \in P}
           l == Len(s)
<1>1. /\ l \in Nat /\ DOMAIN s = 1..l /\ DOMAIN (s \o <<e>>) = 1..(l + 1)
      /\ \A k \in 1..l : (s \o <<e>>)[k] = s[k]
      /\ (s \o <<e>>)[l + 1] = e
  OBVIOUS
<1>2. 1..(l + 1) = (1..l) \cup {l + 1} /\ l + 1 \notin 1..l
  BY <1>1
<1>3. B = IF e \in P THEN A \cup {l + 1} ELSE A
  BY <1>1, <1>2
<1>4. IsFiniteSet(A) /\ Cardinality(A) \in Nat /\ l + 1 \notin A
  <2>1. IsFiniteSet(1..l) /\ A \subseteq 1..l
    BY <1>1, FS_Interval
  <2> QED BY <1>2, <2>1, FS_Subset, FS_CardinalityType
<1>5. Cardinality(A \cup {l + 1}) = Cardinality(A) + 1
  BY <1>4, FS_AddElement
<1>6. Count(s, P) = Cardinality(A) /\ Count(s \o <<e>>, P) = Cardinality(B)
  BY DEF Count
<1> HIDE DEF A, B, l
<1>7. CASE e \in P
  BY <1>3, <1>4, <1>5, <1>6, <1>7
<1>8. CASE e \notin P
  BY <1>3, <1>4, <1>6, <1>8
<1> QED BY <1>7, <1>8

\* What is kept of s are the elements of S, each as often as s has it.
LEMMA KeepCounts ==
  ASSUME NEW V, NEW s \in Seq(V), NEW S
  PROVE  /\ Keep(s, S) \in Seq(V)
         /\ ToSet(Keep(s, S)) = ToSet(s) \cap S
         /\ \A P : Count(Keep(s, S), P) = Count(s, P \cap S)
<1> DEFINE ss == [k \in DOMAIN s |-> IF s[k] \in S THEN <<s[k]>> ELSE <<>>]
<1>1. /\ DOMAIN s = 1..Len(s) /\ Len(s) \in Nat /\ \A k \in 1..Len(s) : s[k] \in V
  OBVIOUS
<1>2. /\ ss \in Seq(Seq(V)) /\ Len(ss) = Len(s) /\ DOMAIN ss = 1..Len(s)
      /\ \A k \in 1..Len(s) : ss[k] = IF s[k] \in S THEN <<s[k]>> ELSE <<>>
  <2>1. ss \in [1..Len(s) -> Seq(V)]
    BY <1>1
  <2> QED BY <1>1, <2>1
<1> HIDE DEF ss
<1>3. FlattenSeq(ss) \in Seq(V) /\ ToSet(FlattenSeq(ss)) = UNION {ToSet(ss[k]) : k \in DOMAIN ss}
  BY <1>2, FlattenElements
<1>4. ToSet(FlattenSeq(ss)) = ToSet(s) \cap S
  <2>1. ASSUME NEW k \in 1..Len(s) PROVE ToSet(ss[k]) = {s[k]} \cap S
    <3>1. CASE s[k] \in S
      <4>1. ss[k] = <<s[k]>>
        BY <1>2, <3>1
      <4> QED BY <3>1, <4>1 DEF ToSet
    <3>2. CASE s[k] \notin S
      <4>1. ss[k] = <<>>
        BY <1>2, <3>2
      <4> QED BY <3>2, <4>1 DEF ToSet
    <3> QED BY <3>1, <3>2
  <2>2. UNION {ToSet(ss[k]) : k \in 1..Len(s)} = {s[k] : k \in 1..Len(s)} \cap S
    BY <2>1
  <2>3. ToSet(s) = {s[k] : k \in 1..Len(s)}
    BY <1>1 DEF ToSet
  <2> QED BY <1>2, <1>3, <2>2, <2>3
<1>5. ASSUME NEW P PROVE Count(FlattenSeq(ss), P) = Count(s, P \cap S)
  <2>1. PICK h \in [0..Len(ss) -> Seq(V)] : Stages(h, ss, Len(ss)) /\ FlattenSeq(ss) = h[Len(ss)]
    BY <1>2, FlattenStages
  <2> DEFINE l == Len(s)
             Q(n) == {k \in 1..n : s[k] \in P \cap S}
             N == {n \in Nat : n <= l => Count(h[n], P) = Cardinality(Q(n))}
  <2>2. 0 \in N
    <3>1. h[0] = <<>> /\ Q(0) = {}
      BY <2>1 DEF Stages
    <3> QED BY <3>1, CountOfNone, FS_EmptySet
  <2>3. ASSUME NEW n \in Nat, n \in N PROVE n + 1 \in N
    <3> SUFFICES ASSUME n + 1 <= l PROVE Count(h[n + 1], P) = Cardinality(Q(n + 1))
      OBVIOUS
    <3> DEFINE e == s[n + 1]
    <3>1. n + 1 \in 1..l /\ n \in 0..l /\ (n + 1) - 1 = n
      BY <1>1
    <3>2. h[n + 1] = h[n] \o ss[n + 1] /\ h[n] \in Seq(V)
      BY <1>2, <2>1, <3>1 DEF Stages
    <3>3. IsFiniteSet(Q(n)) /\ Cardinality(Q(n)) \in Nat /\ n + 1 \notin Q(n)
      <4>1. 1 \in Int /\ n \in Int
        OBVIOUS
      <4>2. IsFiniteSet(1..n)
        BY ONLY <4>1, FS_Interval
      <4>3. Q(n) \subseteq 1..n /\ n + 1 \notin 1..n
        OBVIOUS
      <4> QED BY <4>2, <4>3, FS_Subset, FS_CardinalityType
    <3>4. Q(n + 1) = IF e \in P \cap S THEN Q(n) \cup {n + 1} ELSE Q(n)
      OBVIOUS
    <3>5. Cardinality(Q(n) \cup {n + 1}) = Cardinality(Q(n)) + 1
      BY <3>3, FS_AddElement
    <3>6. Count(h[n], P) = Cardinality(Q(n))
      BY <2>3, <3>1
    <3>7. e \in V
      BY <1>1, <3>1
    <3> HIDE DEF N, Q, e
    <3>8. CASE e \in S
      <4>1. ss[n + 1] = <<e>>
        BY <1>2, <3>1, <3>8 DEF e
      <4>2. Count(h[n] \o <<e>>, P) = Count(h[n], P) + (IF e \in P THEN 1 ELSE 0)
        BY <3>2, <3>7, CountOfAppend
      <4>3. Count(h[n + 1], P) = Count(h[n] \o <<e>>, P)
        BY <3>2, <4>1, Zenon
      <4> QED BY <3>3, <3>4, <3>5, <3>6, <3>8, <4>2, <4>3
    <3>9. CASE e \notin S
      <4>1. ss[n + 1] = <<>>
        BY <1>2, <3>1, <3>9 DEF e
      <4>2. h[n + 1] = h[n]
        BY <3>2, <4>1
      <4> QED BY <3>4, <3>6, <3>9, <4>2
    <3> QED BY <3>8, <3>9
  <2>4. l \in N
    <3> HIDE DEF N, l
    <3> QED BY <1>1, <2>2, <2>3, NaturalSteps DEF l
  <2>5. Q(l) = {k \in DOMAIN s : s[k] \in P \cap S}
    BY <1>1
  <2>6. Count(h[l], P) = Cardinality(Q(l))
    BY <1>1, <2>4
  <2> HIDE DEF Q, N
  <2> QED BY <1>2, <2>1, <2>5, <2>6 DEF Count
<1> QED BY <1>3, <1>4, <1>5 DEF ss, Keep

\* What is kept of a sequence without repetition has none.
LEMMA KeepApart ==
  ASSUME NEW V, NEW s \in Seq(V), NEW S,
         \A i, j \in DOMAIN s : i # j => s[i] # s[j]
  PROVE  \A i, j \in DOMAIN Keep(s, S) : i # j => Keep(s, S)[i] # Keep(s, S)[j]
<1> DEFINE q == Keep(s, S)
<1>1. q \in Seq(V) /\ \A P : Count(q, P) = Count(s, P \cap S)
  BY KeepCounts
<1> HIDE DEF q
<1>2. SUFFICES ASSUME NEW i \in DOMAIN q, NEW j \in DOMAIN q, i # j, q[i] = q[j]
               PROVE  FALSE
  BY DEF q
<1> DEFINE P == {q[i]}
           A == {k \in DOMAIN q : q[k] \in P}
           B == {k \in DOMAIN s : s[k] \in P \cap S}
<1>3. DOMAIN q = 1..Len(q) /\ Len(q) \in Int /\ 1 \in Int /\ DOMAIN s = 1..Len(s) /\ Len(s) \in Int
  BY <1>1
<1>4. IsFiniteSet(DOMAIN q) /\ IsFiniteSet(DOMAIN s)
  <2>1. IsFiniteSet(1..Len(q)) /\ IsFiniteSet(1..Len(s))
    BY ONLY <1>3, FS_Interval
  <2> QED BY <1>3, <2>1
<1>5. IsFiniteSet(A) /\ IsFiniteSet(B) /\ Cardinality(A) = Cardinality(B)
  <2>1. A \subseteq DOMAIN q /\ B \subseteq DOMAIN s
    OBVIOUS
  <2>2. Count(q, P) = Count(s, P \cap S)
    BY <1>1
  <2>3. Count(q, P) = Cardinality(A) /\ Count(s, P \cap S) = Cardinality(B)
    BY DEF Count
  <2> HIDE DEF A, B
  <2> QED BY <1>4, <2>1, <2>2, <2>3, FS_Subset
<1>6. Cardinality(B) <= 1
  <2>1. CASE B = {}
    <3> HIDE DEF B
    <3>1. Cardinality(B) = 0
      BY <2>1, FS_EmptySet
    <3> QED BY <3>1
  <2>2. CASE B # {}
    <3>1. PICK k \in B : TRUE
      BY <2>2
    <3>2. B = {k}
      BY <3>1
    <3> HIDE DEF B
    <3>3. Cardinality({k}) = 1
      BY FS_Singleton
    <3> QED BY <3>2, <3>3
  <2> QED BY <2>1, <2>2
<1>7. i \in A /\ j \in A \ {i}
  BY <1>2
<1> HIDE DEF A, B
<1>8. Cardinality(A \ {i}) = Cardinality(A) - 1 /\ IsFiniteSet(A \ {i})
      /\ Cardinality(A) \in Nat
  BY <1>5, <1>7, FS_RemoveElement, FS_CardinalityType
<1>9. Cardinality(A \ {i}) # 0 /\ Cardinality(A \ {i}) \in Nat
  BY <1>7, <1>8, FS_EmptySet, FS_CardinalityType
<1> QED BY <1>5, <1>6, <1>8, <1>9

\* Counts add up.
LEMMA CountOfConcat ==
  ASSUME NEW V, NEW s \in Seq(V), NEW t \in Seq(V), NEW P
  PROVE  Count(s \o t, P) = Count(s, P) + Count(t, P)
<1> DEFINE w == [e \in V |-> IF e \in P THEN 1 ELSE 0]
<1>1. w \in [V -> Nat]
  OBVIOUS
<1>2. ASSUME NEW u \in Seq(V) PROVE Weight(w, u) = Count(u, P)
  <2> DEFINE f == [k \in DOMAIN u |-> w[u[k]]]
             D == DOMAIN u
  <2>1. D = 1..Len(u) /\ Len(u) \in Nat /\ \A k \in D : u[k] \in V
    OBVIOUS
  <2>2. IsFiniteSet(D)
    <3>1. 1 \in Int /\ Len(u) \in Int
      OBVIOUS
    <3>2. IsFiniteSet(1..Len(u))
      BY ONLY <3>1, FS_Interval
    <3> QED BY <2>1, <3>2
  <2>3. \A k \in D : f[k] = (IF u[k] \in P THEN 1 ELSE 0)
    BY <2>1
  <2>4. DOMAIN f = D
    OBVIOUS
  <2>5. Weight(w, u) = SumFunctionOnSet(f, D)
    BY <2>4 DEF Weight, SumFunction
  <2>6. \A k \in D : f[k] \in {0, 1}
    BY <2>3
  <2>7. {k \in D : f[k] = 1} = {k \in D : u[k] \in P}
    BY <2>3
  <2>8. Count(u, P) = Cardinality({k \in D : u[k] \in P})
    BY DEF Count
  <2> HIDE DEF f, D
  <2>9. SumFunctionOnSet(f, D) = Cardinality({k \in D : f[k] = 1})
    BY <2>2, <2>6, SumCounts
  <2> QED BY <2>5, <2>7, <2>8, <2>9
<1> HIDE DEF w
<1>3. Weight(w, s \o t) = Weight(w, s) + Weight(w, t) /\ s \o t \in Seq(V)
  BY <1>1, WeightOfConcat
<1> QED BY <1>2, <1>3

LEMMA FlattenOne ==
  ASSUME NEW V, NEW s \in Seq(V)
  PROVE  FlattenSeq(<<s>>) = s
<1>1. <<s>> \in Seq(Seq(V)) /\ Len(<<s>>) = 1 /\ <<s>>[1] = s
  OBVIOUS
<1>2. PICK h \in [0..Len(<<s>>) -> Seq(V)] :
             Stages(h, <<s>>, Len(<<s>>)) /\ FlattenSeq(<<s>>) = h[Len(<<s>>)]
  BY <1>1, FlattenStages
<1>3. 1 \in 1..1 /\ 1 - 1 = 0
  OBVIOUS
<1>4. h[1] = h[1 - 1] \o <<s>>[1] /\ h[0] = <<>>
  BY <1>1, <1>2, <1>3, Zenon DEF Stages
<1>5. h[1] = <<>> \o s
  BY <1>1, <1>3, <1>4
<1> QED BY <1>1, <1>2, <1>5

LEMMA KeepOne ==
  ASSUME NEW e, NEW S
  PROVE  Keep(<<e>>, S) = IF e \in S THEN <<e>> ELSE <<>>
<1> DEFINE s == IF e \in S THEN <<e>> ELSE <<>>
           ss == [k \in DOMAIN <<e>> |-> IF <<e>>[k] \in S THEN <<<<e>>[k]>> ELSE <<>>]
<1>1. s \in Seq({e})
  <2>1. <<e>> \in Seq({e}) /\ <<>> \in Seq({e})
    OBVIOUS
  <2> QED BY <2>1
<1>2. ss = <<s>>
  OBVIOUS
<1> HIDE DEF s
<1>3. FlattenSeq(<<s>>) = s
  BY <1>1, FlattenOne
<1> QED BY <1>2, <1>3 DEF Keep, s

LEMMA ConcatThree ==
  ASSUME NEW V
  PROVE  \A x, y, z \in Seq(V) : (x \o y) \o z = x \o (y \o z)
BY ConcatAssociative

\* What two sequences of sequences flatten to, the one after the other.
LEMMA FlattenConcat ==
  ASSUME NEW V, NEW ss \in Seq(Seq(V)), NEW tt \in Seq(Seq(V))
  PROVE  FlattenSeq(ss \o tt) = FlattenSeq(ss) \o FlattenSeq(tt)
<1> DEFINE m == Len(ss)
           n == Len(tt)
           uu == ss \o tt
<1>1. /\ m \in Nat /\ n \in Nat /\ uu \in Seq(Seq(V)) /\ Len(uu) = m + n
      /\ \A i \in 1..m : uu[i] = ss[i] /\ ss[i] \in Seq(V)
      /\ \A i \in 1..n : uu[m + i] = tt[i] /\ tt[i] \in Seq(V)
  OBVIOUS
<1>2. PICK f \in [0..m -> Seq(V)] : Stages(f, ss, m) /\ FlattenSeq(ss) = f[m]
  BY FlattenStages
<1>3. PICK g \in [0..n -> Seq(V)] : Stages(g, tt, n) /\ FlattenSeq(tt) = g[n]
  BY FlattenStages
<1>4. PICK h \in [0..Len(uu) -> Seq(V)] : Stages(h, uu, Len(uu)) /\ FlattenSeq(uu) = h[Len(uu)]
  <2> HIDE DEF uu
  <2> QED BY <1>1, FlattenStages
<1> HIDE DEF m, n, uu
<1> DEFINE M == {k \in Nat : k <= m => h[k] = f[k]}
           fg == [k \in 0..n |-> f[m] \o g[k]]
           N == {k \in Nat : k <= n => h[m + k] = fg[k]}
<1>5. 0 \in M
  BY <1>2, <1>4 DEF Stages
<1>6. ASSUME NEW k \in Nat, k \in M PROVE k + 1 \in M
  <2> SUFFICES ASSUME k + 1 <= m PROVE h[k + 1] = f[k + 1]
    OBVIOUS
  <2>1. k + 1 \in 1..m /\ k + 1 \in 1..Len(uu) /\ (k + 1) - 1 = k
    BY <1>1
  <2>2. f[k + 1] = f[k] \o ss[k + 1]
    BY <1>2, <2>1 DEF Stages
  <2>3. h[k + 1] = h[k] \o uu[k + 1]
    BY <1>4, <2>1 DEF Stages
  <2>4. h[k] = f[k]
    <3>1. k <= m
      BY <1>1, <2>1
    <3> QED BY <1>6, <3>1
  <2>5. uu[k + 1] = ss[k + 1]
    <3> HIDE DEF M, N, fg
    <3> QED BY <1>1, <2>1
  <2> QED BY <2>2, <2>3, <2>4, <2>5
<1>7. h[m] = f[m]
  <2>1. Nat \subseteq M
    <3> HIDE DEF M
    <3> QED BY <1>5, <1>6, NaturalSteps
  <2> QED BY <1>1, <2>1
<1>8. 0 \in N
  <2>1. g[0] = <<>> /\ f[m] \in Seq(V) /\ m + 0 = m
    BY <1>1, <1>2, <1>3 DEF Stages
  <2>2. f[m] \o <<>> = f[m]
    BY <2>1
  <2>3. 0 \in 0..n /\ fg[0] = f[m] \o g[0]
    BY <1>1
  <2> QED BY <1>7, <2>1, <2>2, <2>3
<1>9. ASSUME NEW k \in Nat, k \in N PROVE k + 1 \in N
  <2> SUFFICES ASSUME k + 1 <= n PROVE h[m + (k + 1)] = fg[k + 1]
    OBVIOUS
  <2>0. k + 1 \in 0..n /\ k \in 0..n
    BY <1>1
  <2>a. fg[k + 1] = f[m] \o g[k + 1] /\ fg[k] = f[m] \o g[k]
    BY <2>0
  <2>1. /\ k + 1 \in 1..n /\ m + (k + 1) \in 1..Len(uu) /\ (k + 1) - 1 = k
        /\ (m + (k + 1)) - 1 = m + k /\ k \in 0..n /\ m \in 0..m
    BY <1>1
  <2>2. g[k + 1] = g[k] \o tt[k + 1]
    BY <1>3, <2>1 DEF Stages
  <2>3. h[m + (k + 1)] = h[m + k] \o uu[m + (k + 1)]
    BY <1>4, <2>1 DEF Stages
  <2>4. h[m + k] = f[m] \o g[k] /\ uu[m + (k + 1)] = tt[k + 1]
    <3>1. k <= n
      BY <1>1, <2>1
    <3>2. h[m + k] = f[m] \o g[k]
      BY <1>9, <2>a, <3>1
    <3>3. uu[m + (k + 1)] = tt[k + 1]
      BY <1>1, <2>1
    <3> QED BY <3>2, <3>3
  <2>5. f[m] \in Seq(V) /\ g[k] \in Seq(V) /\ tt[k + 1] \in Seq(V)
    BY <1>1, <1>2, <1>3, <2>1
  <2>6. h[m + (k + 1)] = h[m + k] \o tt[k + 1]
    BY <2>3, <2>4, Zenon
  <2>7. h[m + (k + 1)] = f[m] \o g[k + 1]
    <3> DEFINE x == f[m]
               y == g[k]
               z == tt[k + 1]
               xy == h[m + k]
               yz == g[k + 1]
               xyz == h[m + (k + 1)]
    <3>1. /\ x \in Seq(V) /\ y \in Seq(V) /\ z \in Seq(V)
          /\ xy = x \o y /\ yz = y \o z /\ xyz = xy \o z
      BY <2>2, <2>4, <2>5, <2>6
    <3> HIDE DEF x, y, z, xy, yz, xyz, M, N, fg
    <3>a. (x \o y) \o z = x \o (y \o z)
      <4>1. \A a, b, c \in Seq(V) : (a \o b) \o c = a \o (b \o c)
        BY ConcatThree, SMTT(30)
      <4> QED BY <3>1, <4>1, Zenon
    <3>2. xyz = x \o yz
      BY <3>1, <3>a, Zenon
    <3> QED BY <3>2 DEF x, yz, xyz
  <2> QED BY <2>a, <2>7
<1>10. h[m + n] = fg[n] /\ fg[n] = f[m] \o g[n]
  <2>1. Nat \subseteq N
    <3> HIDE DEF N
    <3> QED BY <1>8, <1>9, NaturalSteps
  <2>2. n \in N /\ n \in 0..n
    <3> HIDE DEF N
    <3> QED BY <1>1, <2>1
  <2>3. fg[n] = f[m] \o g[n]
    BY <2>2
  <2>4. h[m + n] = fg[n]
    <3> HIDE DEF fg
    <3> QED BY <1>1, <2>2
  <2> QED BY <2>3, <2>4
<1> QED BY <1>1, <1>2, <1>3, <1>4, <1>10 DEF uu

LEMMA FlattenNone == FlattenSeq(<<>>) = <<>>
BY DEF FlattenSeq

\* What H makes of the elements of s, one after the other.
Gather(H, s) == FlattenSeq([k \in DOMAIN s |-> H[s[k]]])

\* It is made of two sequences what it is made of each.
Splits(H, s, t) == Gather(H, s \o t) = Gather(H, s) \o Gather(H, t)

LEMMA GatherNone ==
  ASSUME NEW H
  PROVE  Gather(H, <<>>) = <<>>
<1>1. [k \in DOMAIN <<>> |-> H[<<>>[k]]] = <<>>
  OBVIOUS
<1> QED BY <1>1, FlattenNone DEF Gather

LEMMA GatherConcat ==
  ASSUME NEW V, NEW W, NEW H \in [V -> Seq(W)], NEW s \in Seq(V), NEW t \in Seq(V)
  PROVE  /\ Gather(H, s) \in Seq(W)
         /\ Splits(H, s, t)
<1> DEFINE of(u) == [k \in DOMAIN u |-> H[u[k]]]
<1>1. ASSUME NEW u \in Seq(V)
      PROVE  of(u) \in Seq(Seq(W)) /\ Len(of(u)) = Len(u)
             /\ \A k \in 1..Len(u) : of(u)[k] = H[u[k]]
  <2>1. DOMAIN u = 1..Len(u) /\ Len(u) \in Nat /\ \A k \in 1..Len(u) : H[u[k]] \in Seq(W)
    OBVIOUS
  <2>2. of(u) \in [1..Len(u) -> Seq(W)]
    BY <2>1
  <2> QED BY <2>1, <2>2
<1>2. of(s \o t) = of(s) \o of(t)
  <2>1. /\ s \o t \in Seq(V) /\ Len(s \o t) = Len(s) + Len(t)
        /\ Len(s) \in Nat /\ Len(t) \in Nat
        /\ \A k \in 1..Len(s) : (s \o t)[k] = s[k]
        /\ \A k \in 1..Len(t) : (s \o t)[Len(s) + k] = t[k]
    OBVIOUS
  <2> DEFINE a == of(s)
             b == of(t)
             c == of(s \o t)
  <2>2. /\ a \in Seq(Seq(W)) /\ b \in Seq(Seq(W)) /\ c \in Seq(Seq(W))
        /\ Len(a) = Len(s) /\ Len(b) = Len(t) /\ Len(c) = Len(s) + Len(t)
        /\ \A k \in 1..Len(s) : a[k] = H[s[k]]
        /\ \A k \in 1..Len(t) : b[k] = H[t[k]]
        /\ \A k \in 1..(Len(s) + Len(t)) : c[k] = H[(s \o t)[k]]
    BY <1>1, <2>1
  <2> HIDE DEF of, a, b, c
  <2>3. /\ a \o b \in Seq(Seq(W)) /\ Len(a \o b) = Len(a) + Len(b)
        /\ \A k \in 1..(Len(a) + Len(b)) :
             (a \o b)[k] = IF k <= Len(a) THEN a[k] ELSE b[k - Len(a)]
    <3> DEFINE X == Seq(W)
    <3>1. a \in Seq(X) /\ b \in Seq(X)
      BY <2>2
    <3> HIDE DEF X
    <3>2. /\ a \o b \in Seq(X) /\ Len(a \o b) = Len(a) + Len(b)
          /\ \A k \in 1..(Len(a) + Len(b)) :
               (a \o b)[k] = IF k <= Len(a) THEN a[k] ELSE b[k - Len(a)]
      BY <3>1, ConcatProperties
    <3> QED BY <3>2 DEF X
  <2>4. ASSUME NEW k \in 1..Len(c) PROVE (a \o b)[k] = c[k]
    <3>1. CASE k <= Len(s)
      <4>1. k \in 1..Len(s)
        BY <2>1, <2>2, <3>1
      <4> QED BY <2>1, <2>2, <2>3, <3>1, <4>1
    <3>2. CASE k > Len(s)
      <4>1. k - Len(s) \in 1..Len(t) /\ Len(s) + (k - Len(s)) = k
        BY <2>1, <2>2, <3>2
      <4>2. (a \o b)[k] = b[k - Len(s)]
        BY <2>1, <2>2, <2>3, <3>2
      <4>3. c[k] = H[t[k - Len(s)]]
        BY <2>1, <2>2, <4>1
      <4> QED BY <2>2, <4>1, <4>2, <4>3
    <3> QED BY <2>1, <2>2, <3>1, <3>2
  <2>5. c = a \o b
    <3> DEFINE d == a \o b
    <3>1. d \in Seq(Seq(W)) /\ Len(d) = Len(c) /\ \A k \in 1..Len(c) : d[k] = c[k]
      BY <2>2, <2>3, <2>4
    <3> HIDE DEF d
    <3>2. c = d
      BY <2>2, <3>1, SeqEqual
    <3> QED BY <3>2 DEF d
  <2> QED BY <2>5 DEF a, b, c
<1>3. of(s) \in Seq(Seq(W)) /\ of(t) \in Seq(Seq(W))
  BY <1>1
<1> HIDE DEF of
<1>4. FlattenSeq(of(s)) \in Seq(W)
  BY <1>3, FlattenElements
<1>5. FlattenSeq(of(s) \o of(t)) = FlattenSeq(of(s)) \o FlattenSeq(of(t))
  BY <1>3, FlattenConcat
<1> QED BY <1>2, <1>4, <1>5 DEF of, Gather, Splits

LEMMA GatherOne ==
  ASSUME NEW V, NEW W, NEW H \in [V -> Seq(W)], NEW e \in V
  PROVE  Gather(H, <<e>>) = H[e] /\ Gather(H, <<>>) = <<>>
<1>1. [k \in DOMAIN <<e>> |-> H[<<e>>[k]]] = <<H[e]>> /\ H[e] \in Seq(W)
  OBVIOUS
<1>2. [k \in DOMAIN <<>> |-> H[<<>>[k]]] = <<>>
  OBVIOUS
<1> QED BY <1>1, <1>2, FlattenOne, FlattenNone DEF Gather

\* A set with the empty sequence and every sequence that it has without its head.
LEMMA SequenceSteps ==
  ASSUME NEW V, NEW G, <<>> \in G,
         \A s \in Seq(V) : \A e \in V : s \in G => <<e>> \o s \in G
  PROVE  Seq(V) \subseteq G
<1> DEFINE N == {n \in Nat : \A s \in Seq(V) : Len(s) = n => s \in G}
<1>1. 0 \in N
  OBVIOUS
<1>2. ASSUME NEW n \in Nat, n \in N PROVE n + 1 \in N
  <2> SUFFICES ASSUME NEW s \in Seq(V), Len(s) = n + 1 PROVE s \in G
    OBVIOUS
  <2>1. /\ s # <<>> /\ Head(s) \in V /\ Tail(s) \in Seq(V) /\ Len(Tail(s)) = n
        /\ s = <<Head(s)>> \o Tail(s)
    OBVIOUS
  <2>2. Tail(s) \in G
    BY <1>2, <2>1
  <2> QED BY <2>1, <2>2, Zenon
<1>3. Nat \subseteq N
  <2> HIDE DEF N
  <2> QED BY <1>1, <1>2, NaturalSteps
<1> QED BY <1>3

LEMMA KeepConcat ==
  ASSUME NEW V, NEW s \in Seq(V), NEW t \in Seq(V), NEW S
  PROVE  Keep(s \o t, S) = Keep(s, S) \o Keep(t, S)
<1> DEFINE H == [e \in V |-> IF e \in S THEN <<e>> ELSE <<>>]
<1>1. H \in [V -> Seq(V)]
  <2>1. \A e \in V : <<e>> \in Seq(V)
    OBVIOUS
  <2> QED BY <2>1
<1>2. ASSUME NEW u \in Seq(V) PROVE Keep(u, S) = Gather(H, u)
  <2>1. \A k \in DOMAIN u : u[k] \in V
    OBVIOUS
  <2>2. [k \in DOMAIN u |-> IF u[k] \in S THEN <<u[k]>> ELSE <<>>]
          = [k \in DOMAIN u |-> H[u[k]]]
    BY <2>1
  <2> QED BY <2>2 DEF Keep, Gather
<1>3. s \o t \in Seq(V)
  OBVIOUS
<1> HIDE DEF H
<1>4. Splits(H, s, t)
  BY <1>1, GatherConcat
<1>5. Gather(H, s \o t) = Gather(H, s) \o Gather(H, t)
  BY <1>4 DEF Splits
<1> QED BY <1>2, <1>3, <1>5

\* The elements H makes nothing of may be skipped.
LEMMA GatherKeep ==
  ASSUME NEW V, NEW W, NEW H \in [V -> Seq(W)], NEW s \in Seq(V), NEW S,
         \A e \in V \ S : H[e] = <<>>
  PROVE  Gather(H, Keep(s, S)) = Gather(H, s)
<1> DEFINE G == {t \in Seq(V) : Keep(t, S) \in Seq(V) /\ Gather(H, Keep(t, S)) = Gather(H, t)}
<1>1. <<>> \in G
  <2>1. Keep(<<>>, S) = <<>>
    <3>1. [k \in DOMAIN <<>> |-> IF <<>>[k] \in S THEN <<<<>>[k]>> ELSE <<>>] = <<>>
      OBVIOUS
    <3> QED BY <3>1, FlattenNone DEF Keep
  <2>2. <<>> \in Seq(V)
    OBVIOUS
  <2>3. Gather(H, Keep(<<>>, S)) = Gather(H, <<>>)
    BY <2>1, Zenon
  <2>4. Keep(<<>>, S) \in Seq(V)
    BY <2>1, <2>2, Zenon
  <2> QED BY <2>2, <2>3, <2>4
<1>2. ASSUME NEW t \in Seq(V), NEW e \in V, t \in G PROVE <<e>> \o t \in G
  <2> DEFINE one == <<e>>
             kone == Keep(one, S)
             kt == Keep(t, S)
  <2>1. one \in Seq(V) /\ <<>> \in Seq(V)
    OBVIOUS
  <2>2. kone = IF e \in S THEN one ELSE <<>>
    BY KeepOne
  <2>3. kone \in Seq(V) /\ kt \in Seq(V)
    <3>1. kt \in Seq(V)
      BY KeepCounts
    <3> QED BY <2>1, <2>2, <3>1
  <2>4. Gather(H, one) = H[e] /\ Gather(H, <<>>) = <<>>
    BY GatherOne
  <2>5. Gather(H, kone) = Gather(H, one)
    <3> HIDE DEF one, kone
    <3> QED BY <1>2, <2>2, <2>4
  <2> HIDE DEF one, kone, kt
  <2>6. Keep(one \o t, S) = kone \o kt
    BY <2>1, KeepConcat DEF kone, kt
  <2>7. Gather(H, one \o t) = Gather(H, one) \o Gather(H, t)
    <3>1. Splits(H, one, t)
      BY <2>1, GatherConcat
    <3> QED BY <3>1 DEF Splits
  <2>8. Gather(H, kone \o kt) = Gather(H, kone) \o Gather(H, kt)
    <3>1. Splits(H, kone, kt)
      BY <2>3, GatherConcat
    <3> QED BY <3>1 DEF Splits
  <2>9. Gather(H, kt) = Gather(H, t)
    BY <1>2 DEF kt
  <2>10. kone \o kt \in Seq(V) /\ one \o t \in Seq(V)
    BY <2>1, <2>3
  <2>11. Gather(H, Keep(one \o t, S)) = Gather(H, one \o t)
    BY <2>5, <2>6, <2>7, <2>8, <2>9
  <2> QED BY <2>6, <2>10, <2>11 DEF one
<1>3. Seq(V) \subseteq G
  <2> HIDE DEF G
  <2> QED BY <1>1, <1>2, SequenceSteps
<1> QED BY <1>3

\* What is made of s has the elements that are made of its elements.
LEMMA GatherElements ==
  ASSUME NEW V, NEW W, NEW H \in [V -> Seq(W)], NEW s \in Seq(V)
  PROVE  ToSet(Gather(H, s)) = UNION {ToSet(H[e]) : e \in ToSet(s)}
<1> DEFINE ss == [k \in DOMAIN s |-> H[s[k]]]
<1>1. DOMAIN s = 1..Len(s) /\ Len(s) \in Nat /\ \A k \in DOMAIN s : H[s[k]] \in Seq(W)
  OBVIOUS
<1>2. ss \in Seq(Seq(W)) /\ DOMAIN ss = DOMAIN s
  BY <1>1
<1>3. UNION {ToSet(ss[k]) : k \in DOMAIN ss} = UNION {ToSet(H[e]) : e \in ToSet(s)}
  BY DEF ToSet
<1> HIDE DEF ss
<1>4. ToSet(FlattenSeq(ss)) = UNION {ToSet(ss[k]) : k \in DOMAIN ss}
  BY <1>2, FlattenElements
<1> QED BY <1>3, <1>4 DEF ss, Gather
=============================================================================
