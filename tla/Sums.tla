--------------------------------- MODULE Sums ---------------------------------
(***************************************************************************)
(* Sums of a function over a finite set (SumFunctionOnSet of the community *)
(* modules), and the induction they rest on.                               *)
(*                                                                         *)
(* Induction is stated about a set, what it is to contain, and not about a *)
(* predicate: a lemma about a set can be used without choosing a value for *)
(* an operator parameter.  It comes from the minimum a set of naturals has.*)
(***************************************************************************)
EXTENDS Integers, FiniteSets, Functions, FiniteSetTheorems, WellFoundedInduction,
        TLAPS

-----------------------------------------------------------------------------
\* Induction

Less == {ss \in Nat \X Nat : ss[1] < ss[2]}

LEMMA LessIsWellFounded == IsWellFoundedOn(Less, Nat)
BY NatLessThanWellFounded DEF OpToRel, Less

LEMMA NatSetInduction ==
  ASSUME NEW S, 0 \in S, \A n \in Nat : n \in S => n + 1 \in S
  PROVE  Nat \subseteq S
<1> SUFFICES ASSUME Nat \ S # {} PROVE FALSE
  OBVIOUS
<1>1. PICK m \in Nat \ S : \A k \in Nat \ S : ~ (<<k, m>> \in Less)
  BY LessIsWellFounded, WFMin
<1>2. m - 1 \in Nat
  OBVIOUS
<1>3. <<m - 1, m>> \in Less
  BY <1>2 DEF Less
<1>4. m - 1 \in S
  BY <1>1, <1>2, <1>3
<1> QED
  BY <1>2, <1>4

LEMMA HasLeast ==
  ASSUME NEW S, S \subseteq Nat, S # {}
  PROVE  \E m \in S : \A i \in S : m <= i
<1>1. PICK m \in S : \A i \in S : ~ (<<i, m>> \in Less)
  BY LessIsWellFounded, WFMin
<1>2. ASSUME NEW i \in S PROVE m <= i
  <2>1. i \in Nat /\ m \in Nat /\ (i < m => <<i, m>> \in Less)
    BY DEF Less
  <2> QED
    BY <1>1, <2>1
<1> QED
  BY <1>2

LEMMA HasGreatest ==
  ASSUME NEW n \in Nat, NEW S, S \subseteq 1..n, S # {}
  PROVE  \E m \in S : \A i \in S : i <= m
<1> DEFINE T == {d \in Nat : n - d \in S}
<1>1. PICK i \in S : TRUE
  OBVIOUS
<1>2. i \in Nat /\ n - i \in Nat /\ n - (n - i) = i
  OBVIOUS
<1>3. T \subseteq Nat /\ n - i \in T
  BY <1>2
<1> HIDE DEF T
<1>4. PICK d \in T : \A e \in T : d <= e
  BY <1>3, HasLeast
<1>5. d \in Nat /\ n - d \in S
  BY <1>4 DEF T
<1>6. ASSUME NEW j \in S PROVE j <= n - d
  <2>1. j \in Nat /\ n - j \in Nat /\ n - (n - j) = j
    OBVIOUS
  <2>2. n - j \in T
    BY <2>1 DEF T
  <2>3. d <= n - j
    BY <1>4, <2>2
  <2> QED
    BY <1>5, <2>1, <2>3
<1> QED
  BY <1>5, <1>6

\* If a family holds every subset of S whose subsets with one element less it
\* holds, it holds every subset of S.
LEMMA SubsetInduction ==
  ASSUME NEW S, IsFiniteSet(S), NEW Family,
         \A T \in SUBSET S : (\A x \in T : T \ {x} \in Family) => T \in Family
  PROVE  SUBSET S \subseteq Family
<1> DEFINE Small == {n \in Nat : \A T \in SUBSET S : Cardinality(T) = n => T \in Family}
<1>0. \A T \in SUBSET S : IsFiniteSet(T) /\ Cardinality(T) \in Nat
  BY FS_Subset, FS_CardinalityType
<1>1. 0 \in Small
  BY <1>0, FS_EmptySet
<1>2. ASSUME NEW n \in Nat, n \in Small PROVE n + 1 \in Small
  <2>1. ASSUME NEW T \in SUBSET S, Cardinality(T) = n + 1, NEW x \in T
        PROVE  T \ {x} \in Family
    <3>1. Cardinality(T \ {x}) = n
      BY <1>0, <2>1, FS_RemoveElement
    <3> QED
      BY <1>2, <3>1
  <2> QED
    BY <2>1
<1> HIDE DEF Small
<1>3. Nat \subseteq Small
  BY <1>1, <1>2, NatSetInduction
<1> QED
  BY <1>0, <1>3 DEF Small

-----------------------------------------------------------------------------
\* The recursive function a sum is read from

Chosen(s) == CHOOSE x \in s : TRUE
Partial(f, S) ==
  CHOOSE iter : iter = [s \in SUBSET S |->
    IF s = {} THEN 0 ELSE f[Chosen(s)] + iter[s \ {Chosen(s)}]]

LEMMA SumIsPartial ==
  ASSUME NEW f, NEW S
  PROVE  SumFunctionOnSet(f, S) = Partial(f, S)[S]
BY DEF SumFunctionOnSet, FoldFunctionOnSet, MapThenFoldSet, Partial, Chosen

LEMMA ChosenIsIn == ASSUME NEW s, s # {} PROVE Chosen(s) \in s
BY DEF Chosen

\* There is such a function: it exists on the subsets with at most n elements, for
\* every n.
LEMMA PartialIsDefined ==
  ASSUME NEW f, NEW S, IsFiniteSet(S)
  PROVE  \A s \in SUBSET S : Partial(f, S)[s] =
           IF s = {} THEN 0 ELSE f[Chosen(s)] + Partial(f, S)[s \ {Chosen(s)}]
<1> DEFINE UpTo(n) == {s \in SUBSET S : Cardinality(s) <= n}
           Rule(g, n) == [s \in UpTo(n) |->
              IF s = {} THEN 0 ELSE f[Chosen(s)] + g[s \ {Chosen(s)}]]
           Defined == {n \in Nat : \E g : g = Rule(g, n)}
<1>0. \A s \in SUBSET S : IsFiniteSet(s) /\ Cardinality(s) \in Nat
  BY FS_Subset, FS_CardinalityType
<1>1. 0 \in Defined
  <2>1. UpTo(0) = {{}}
    BY <1>0, FS_EmptySet
  <2> DEFINE g == [s \in UpTo(0) |-> 0]
  <2>2. g = Rule(g, 0)
    BY <2>1
  <2> QED
    BY <2>2
<1>2. ASSUME NEW n \in Nat, n \in Defined PROVE n + 1 \in Defined
  <2>1. PICK g : g = Rule(g, n)
    BY <1>2
  <2> DEFINE h == Rule(g, n + 1)
  <2>2. ASSUME NEW s \in UpTo(n) PROVE h[s] = g[s]
    <3>1. s \in UpTo(n + 1)
      BY <1>0
    <3>2. h[s] = IF s = {} THEN 0 ELSE f[Chosen(s)] + g[s \ {Chosen(s)}]
      BY <3>1
    <3>3. g[s] = Rule(g, n)[s]
      BY <2>1
    <3>4. g[s] = IF s = {} THEN 0 ELSE f[Chosen(s)] + g[s \ {Chosen(s)}]
      BY <3>3
    <3> QED
      BY <3>2, <3>4
  <2>3. ASSUME NEW s \in UpTo(n + 1), s # {} PROVE s \ {Chosen(s)} \in UpTo(n)
    <3>1. Cardinality(s \ {Chosen(s)}) = Cardinality(s) - 1
      BY <1>0, <2>3, ChosenIsIn, FS_RemoveElement
    <3> QED
      BY <1>0, <3>1
  <2> HIDE DEF UpTo
  <2>4. h = Rule(h, n + 1)
    BY <2>2, <2>3
  <2> HIDE DEF h, Rule
  <2> QED
    BY <2>4
<1> HIDE DEF Defined
<1>3. Cardinality(S) \in Defined
  BY <1>0, <1>1, <1>2, NatSetInduction
<1>4. UpTo(Cardinality(S)) = SUBSET S
  BY <1>0, FS_Subset
<1>5. PICK g : g = [s \in SUBSET S |->
         IF s = {} THEN 0 ELSE f[Chosen(s)] + g[s \ {Chosen(s)}]]
  BY <1>3, <1>4 DEF Defined
<1> DEFINE P == Partial(f, S)
<1>6. P = [s \in SUBSET S |-> IF s = {} THEN 0 ELSE f[Chosen(s)] + P[s \ {Chosen(s)}]]
  BY <1>5 DEF Partial
<1> HIDE DEF P
<1>7. \A s \in SUBSET S : P[s] = IF s = {} THEN 0 ELSE f[Chosen(s)] + P[s \ {Chosen(s)}]
  BY <1>6
<1> QED
  BY <1>7 DEF P

LEMMA PartialStep ==
  ASSUME NEW f, NEW S, IsFiniteSet(S), NEW T \in SUBSET S, T # {}
  PROVE  Partial(f, S)[T] = f[Chosen(T)] + Partial(f, S)[T \ {Chosen(T)}]
BY PartialIsDefined

LEMMA PartialEmpty ==
  ASSUME NEW f, NEW S, IsFiniteSet(S)
  PROVE  Partial(f, S)[{}] = 0
BY PartialIsDefined

\* A sum over T does not depend on the larger set it is read from.
LEMMA PartialAgrees ==
  ASSUME NEW f, NEW S, IsFiniteSet(S), NEW T \in SUBSET S
  PROVE  Partial(f, S)[T] = SumFunctionOnSet(f, T)
<1> DEFINE Family == {U \in SUBSET S :
              \A V \in SUBSET S : U \subseteq V => Partial(f, V)[U] = Partial(f, S)[U]}
<1>1. ASSUME NEW U \in SUBSET S, \A x \in U : U \ {x} \in Family PROVE U \in Family
  <2> SUFFICES ASSUME NEW V \in SUBSET S, U \subseteq V
               PROVE  Partial(f, V)[U] = Partial(f, S)[U]
    OBVIOUS
  <2>1. IsFiniteSet(V)
    BY FS_Subset
  <2>2. CASE U = {}
    BY <2>1, <2>2, PartialEmpty
  <2>3. CASE U # {}
    <3>1. U \ {Chosen(U)} \in Family
      BY <1>1, <2>3, ChosenIsIn
    <3>2. Partial(f, V)[U \ {Chosen(U)}] = Partial(f, S)[U \ {Chosen(U)}]
      BY <3>1
    <3>3. Partial(f, V)[U] = f[Chosen(U)] + Partial(f, V)[U \ {Chosen(U)}]
      BY <2>1, <2>3, PartialStep
    <3>4. Partial(f, S)[U] = f[Chosen(U)] + Partial(f, S)[U \ {Chosen(U)}]
      BY <2>3, PartialStep
    <3> QED
      BY <3>2, <3>3, <3>4
  <2> QED
    BY <2>2, <2>3
<1> HIDE DEF Family
<1>2. SUBSET S \subseteq Family
  BY <1>1, SubsetInduction
<1> QED
  BY <1>2, SumIsPartial DEF Family

-----------------------------------------------------------------------------
\* Sums

LEMMA SumEmpty ==
  ASSUME NEW f
  PROVE  SumFunctionOnSet(f, {}) = 0
BY FS_EmptySet, SumIsPartial, PartialEmpty

LEMMA SumChosen ==
  ASSUME NEW f, NEW S, IsFiniteSet(S), S # {}
  PROVE  SumFunctionOnSet(f, S) = f[Chosen(S)] + SumFunctionOnSet(f, S \ {Chosen(S)})
<1>1. Partial(f, S)[S] = f[Chosen(S)] + Partial(f, S)[S \ {Chosen(S)}]
  BY PartialStep
<1> QED
  BY <1>1, SumIsPartial, PartialAgrees

LEMMA SumType ==
  ASSUME NEW f, NEW S, IsFiniteSet(S), \A x \in S : f[x] \in Nat
  PROVE  SumFunctionOnSet(f, S) \in Nat
<1> DEFINE Family == {T \in SUBSET S : SumFunctionOnSet(f, T) \in Nat}
<1>1. ASSUME NEW T \in SUBSET S, \A x \in T : T \ {x} \in Family PROVE T \in Family
  <2>1. CASE T = {}
    BY <2>1, SumEmpty
  <2>2. CASE T # {}
    <3>1. Chosen(T) \in T /\ IsFiniteSet(T)
      BY <2>2, ChosenIsIn, FS_Subset
    <3>2. SumFunctionOnSet(f, T) = f[Chosen(T)] + SumFunctionOnSet(f, T \ {Chosen(T)})
      BY <2>2, <3>1, SumChosen
    <3> QED
      BY <1>1, <3>1, <3>2
  <2> QED
    BY <2>1, <2>2
<1> HIDE DEF Family
<1>2. SUBSET S \subseteq Family
  BY <1>1, SubsetInduction
<1> QED
  BY <1>2 DEF Family

\* Any element may be taken first.
LEMMA SumRemove ==
  ASSUME NEW f, NEW S, IsFiniteSet(S), \A x \in S : f[x] \in Nat, NEW x \in S
  PROVE  SumFunctionOnSet(f, S) = f[x] + SumFunctionOnSet(f, S \ {x})
<1> DEFINE Sum(T) == SumFunctionOnSet(f, T)
           Family == {T \in SUBSET S : \A y \in T : Sum(T) = f[y] + Sum(T \ {y})}
<1>0. \A T \in SUBSET S : IsFiniteSet(T) /\ Sum(T) \in Nat
  BY FS_Subset, SumType
<1>1. ASSUME NEW T \in SUBSET S, \A z \in T : T \ {z} \in Family PROVE T \in Family
  <2> SUFFICES ASSUME NEW y \in T PROVE Sum(T) = f[y] + Sum(T \ {y})
    OBVIOUS
  <2> DEFINE c == Chosen(T)
  <2>1. c \in T /\ Sum(T) = f[c] + Sum(T \ {c})
    BY <1>0, ChosenIsIn, SumChosen
  <2> HIDE DEF c
  <2>2. CASE y # c
    <3>1. Sum(T \ {c}) = f[y] + Sum((T \ {c}) \ {y})
      BY <1>1, <2>1, <2>2
    <3>2. Sum(T \ {y}) = f[c] + Sum((T \ {y}) \ {c})
      BY <1>1, <2>1, <2>2
    <3>3. (T \ {c}) \ {y} = (T \ {y}) \ {c}
      OBVIOUS
    <3>4. Sum((T \ {c}) \ {y}) \in Nat /\ Sum(T \ {c}) \in Nat /\ Sum(T \ {y}) \in Nat
      BY <1>0
    <3>5. Sum((T \ {y}) \ {c}) = Sum((T \ {c}) \ {y})
      BY <3>3
    <3> HIDE DEF Sum
    <3> QED
      BY <2>1, <3>1, <3>2, <3>4, <3>5
  <2> QED
    BY <2>1, <2>2
<1> HIDE DEF Family
<1>2. SUBSET S \subseteq Family
  BY <1>1, SubsetInduction
<1> QED
  BY <1>2 DEF Family

LEMMA SumMonotone ==
  ASSUME NEW f, NEW g, NEW S, IsFiniteSet(S),
         \A x \in S : f[x] \in Nat /\ g[x] \in Nat /\ f[x] <= g[x]
  PROVE  SumFunctionOnSet(f, S) <= SumFunctionOnSet(g, S)
<1> DEFINE Family == {T \in SUBSET S : SumFunctionOnSet(f, T) <= SumFunctionOnSet(g, T)}
<1>1. ASSUME NEW T \in SUBSET S, \A x \in T : T \ {x} \in Family PROVE T \in Family
  <2>1. CASE T = {}
    BY <2>1, SumEmpty
  <2>2. CASE T # {}
    <3> DEFINE U == T \ {Chosen(T)}
    <3>1. Chosen(T) \in T /\ IsFiniteSet(T) /\ IsFiniteSet(U)
      BY <2>2, ChosenIsIn, FS_Subset
    <3>2. SumFunctionOnSet(f, T) = f[Chosen(T)] + SumFunctionOnSet(f, U)
      BY <2>2, <3>1, SumChosen
    <3>3. SumFunctionOnSet(g, T) = g[Chosen(T)] + SumFunctionOnSet(g, U)
      BY <2>2, <3>1, SumChosen
    <3>4. SumFunctionOnSet(f, U) \in Nat /\ SumFunctionOnSet(g, U) \in Nat
      BY <3>1, SumType
    <3>5. SumFunctionOnSet(f, U) <= SumFunctionOnSet(g, U)
      BY <1>1, <3>1
    <3> HIDE DEF U
    <3> QED
      BY <3>1, <3>2, <3>3, <3>4, <3>5
  <2> QED
    BY <2>1, <2>2
<1> HIDE DEF Family
<1>2. SUBSET S \subseteq Family
  BY <1>1, SubsetInduction
<1> QED
  BY <1>2 DEF Family

LEMMA SumSame ==
  ASSUME NEW f, NEW g, NEW S, IsFiniteSet(S),
         \A x \in S : f[x] \in Nat /\ f[x] = g[x]
  PROVE  SumFunctionOnSet(f, S) = SumFunctionOnSet(g, S)
<1>1. SumFunctionOnSet(f, S) \in Nat /\ SumFunctionOnSet(g, S) \in Nat
  BY SumType
<1>2. SumFunctionOnSet(f, S) <= SumFunctionOnSet(g, S)
  BY SumMonotone
<1>3. SumFunctionOnSet(g, S) <= SumFunctionOnSet(f, S)
  BY SumMonotone
<1> QED
  BY <1>1, <1>2, <1>3

LEMMA SumZero ==
  ASSUME NEW f, NEW S, IsFiniteSet(S), \A x \in S : f[x] = 0
  PROVE  SumFunctionOnSet(f, S) = 0
<1> DEFINE Family == {T \in SUBSET S : SumFunctionOnSet(f, T) = 0}
<1>1. ASSUME NEW T \in SUBSET S, \A x \in T : T \ {x} \in Family PROVE T \in Family
  <2>1. CASE T = {}
    BY <2>1, SumEmpty
  <2>2. CASE T # {}
    <3>1. Chosen(T) \in T /\ IsFiniteSet(T)
      BY <2>2, ChosenIsIn, FS_Subset
    <3>2. SumFunctionOnSet(f, T) = f[Chosen(T)] + SumFunctionOnSet(f, T \ {Chosen(T)})
      BY <2>2, <3>1, SumChosen
    <3> QED
      BY <1>1, <3>1, <3>2
  <2> QED
    BY <2>1, <2>2
<1> HIDE DEF Family
<1>2. SUBSET S \subseteq Family
  BY <1>1, SubsetInduction
<1> QED
  BY <1>2 DEF Family

\* A change at one place changes the sum by as much.
LEMMA SumChange ==
  ASSUME NEW f, NEW g, NEW S, IsFiniteSet(S), NEW x \in S,
         \A y \in S : f[y] \in Nat /\ g[y] \in Nat /\ (y # x => f[y] = g[y])
  PROVE  SumFunctionOnSet(g, S) + f[x] = SumFunctionOnSet(f, S) + g[x]
<1>1. IsFiniteSet(S \ {x})
  BY FS_Subset
<1>2. SumFunctionOnSet(f, S) = f[x] + SumFunctionOnSet(f, S \ {x})
  BY SumRemove
<1>3. SumFunctionOnSet(g, S) = g[x] + SumFunctionOnSet(g, S \ {x})
  BY SumRemove
<1>4. SumFunctionOnSet(f, S \ {x}) = SumFunctionOnSet(g, S \ {x})
  BY <1>1, SumSame
<1>5. SumFunctionOnSet(f, S \ {x}) \in Nat
  BY <1>1, SumType
<1> QED
  BY <1>2, <1>3, <1>4, <1>5

LEMMA SumAddOne ==
  ASSUME NEW f, NEW g, NEW S, IsFiniteSet(S), NEW x \in S,
         \A y \in S : f[y] \in Nat /\ g[y] \in Nat /\ (y # x => f[y] = g[y]),
         g[x] = f[x] + 1
  PROVE  SumFunctionOnSet(g, S) = SumFunctionOnSet(f, S) + 1
<1>1. SumFunctionOnSet(g, S) + f[x] = SumFunctionOnSet(f, S) + g[x]
  BY SumChange
<1>2. SumFunctionOnSet(f, S) \in Nat /\ SumFunctionOnSet(g, S) \in Nat
  BY SumType
<1>3. f[x] \in Nat
  OBVIOUS
<1> QED
  BY <1>1, <1>2, <1>3
===============================================================================
