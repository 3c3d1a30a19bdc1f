---------------------------- MODULE FiniteSums ----------------------------
(***************************************************************************)
(* Sums over finite sets, as the other proof modules use them: what        *)
(* SumFunctionOnSet of the community modules computes when an element is   *)
(* added, removed or changes its value. Induction is by a least            *)
(* counterexample, which needs no theorem with an operator parameter.      *)
(***************************************************************************)
EXTENDS Functions, FiniteSetTheorems, TLAPS

\* Every nonempty set of naturals has a least element.
LEMMA LeastNatural ==
  ASSUME NEW N \in SUBSET Nat, N # {}
  PROVE  \E n \in N : \A m \in N : n <= m
<1> DEFINE R == {p \in Nat \X Nat : p[1] < p[2]}
<1>1. IsWellFoundedOn(R, Nat)
  BY NatLessThanWellFounded DEF OpToRel
<1>2. \E n \in N : \A m \in N : ~(<<m, n>> \in R)
  <2> HIDE DEF R
  <2> QED BY <1>1, WFMin, Zenon
<1>3. \A m, n \in Nat : m < n => <<m, n>> \in R
  OBVIOUS
<1> HIDE DEF R
<1>4. PICK n \in N : \A m \in N : ~(<<m, n>> \in R)
  BY <1>2
<1>5. \A m \in N : ~(m < n)
  BY <1>3, <1>4
<1> QED BY <1>5

\* A set of naturals that holds 0 and the successors of its members holds all.
LEMMA NatSetInduction ==
  ASSUME NEW P \in SUBSET Nat, 0 \in P, \A n \in P : n + 1 \in P
  PROVE  P = Nat
<1> DEFINE Bad == Nat \ P
<1> SUFFICES ASSUME Bad # {} PROVE FALSE
  OBVIOUS
<1>1. PICK n \in Bad : \A m \in Bad : n <= m
  BY LeastNatural
<1>2. n - 1 \in Nat /\ n - 1 \notin Bad
  BY <1>1
<1> QED BY <1>2

\* A family of subsets of a finite set that holds the empty set, and every
\* member with one element more, holds the set itself.
LEMMA SubsetInduction ==
  ASSUME NEW S, IsFiniteSet(S), NEW P, {} \in P,
         \A T \in SUBSET S, x \in S : T \in P /\ x \notin T => T \cup {x} \in P
  PROVE  S \in P
<1> DEFINE N == {n \in Nat : \A T \in SUBSET S : Cardinality(T) = n => T \in P}
<1>1. 0 \in N
  BY FS_EmptySet, FS_Subset
<1>2. ASSUME NEW n \in Nat, n \in N PROVE n + 1 \in N
  <2> SUFFICES ASSUME NEW T \in SUBSET S, Cardinality(T) = n + 1 PROVE T \in P
    OBVIOUS
  <2>1. IsFiniteSet(T) /\ T # {}
    BY FS_Subset, FS_EmptySet
  <2>2. PICK x \in T : TRUE
    BY <2>1
  <2>3. Cardinality(T \ {x}) = Cardinality(T) - 1
    BY <2>1, FS_RemoveElement
  <2>4. Cardinality(T \ {x}) = n
    BY <2>3
  <2>5. T \ {x} \in P
    BY <1>2, <2>4
  <2>6. (T \ {x}) \cup {x} = T
    OBVIOUS
  <2> QED BY <2>5, <2>6
<1> HIDE DEF N
<1>3. N = Nat
  BY <1>1, <1>2, NatSetInduction DEF N
<1> QED BY <1>3, FS_CardinalityType DEF N

-----------------------------------------------------------------------------
\* The element a sum takes out of s next, the value of the sum g of f at s, and
\* what it is to be the table of the sums of f over the subsets of S.
Pick(s) == CHOOSE e \in s : TRUE
SumStep(g, f, s) == IF s = {} THEN 0 ELSE f[Pick(s)] + g[s \ {Pick(s)}]
IsSumTable(g, f, S) == g = [s \in SUBSET S |-> SumStep(g, f, s)]

\* The element taken out is one of the set.
LEMMA PickFacts ==
  ASSUME NEW s, s # {}
  PROVE  Pick(s) \in s
BY DEF Pick

\* The set that is left is smaller.
LEMMA RestSmaller ==
  ASSUME NEW s, IsFiniteSet(s), s # {}
  PROVE  /\ IsFiniteSet(s \ {Pick(s)})
         /\ Cardinality(s) \in Nat /\ Cardinality(s \ {Pick(s)}) \in Nat
         /\ Cardinality(s \ {Pick(s)}) = Cardinality(s) - 1
<1>1. Pick(s) \in s
  BY PickFacts
<1>2. IsFiniteSet(s \ {Pick(s)}) /\ Cardinality(s \ {Pick(s)}) = Cardinality(s) - 1
  BY <1>1, FS_RemoveElement
<1> QED BY <1>2, FS_CardinalityType, SMT

\* The sum of the community modules, in these terms.
LEMMA Unfold ==
  ASSUME NEW f, NEW S
  PROVE  SumFunctionOnSet(f, S) = (CHOOSE g : IsSumTable(g, f, S))[S]
BY DEF SumFunctionOnSet, FoldFunctionOnSet, MapThenFoldSet, IsSumTable, SumStep, Pick

\* g is right for the subsets with at most n elements.
IsSumTableUpTo(g, f, S, n) ==
    \A s \in SUBSET S : Cardinality(s) <= n => g[s] = SumStep(g, f, s)

\* The table exists.
LEMMA TableExists ==
  ASSUME NEW S, IsFiniteSet(S), NEW f, \A e \in S : f[e] \in Int
  PROVE  \E g \in [SUBSET S -> Int] : IsSumTable(g, f, S)
<1> DEFINE Good == {n \in Nat : \E g \in [SUBSET S -> Int] : IsSumTableUpTo(g, f, S, n)}
<1>1. 0 \in Good
  <2> DEFINE g == [s \in SUBSET S |-> 0]
  <2>1. \A s \in SUBSET S : Cardinality(s) <= 0 => s = {}
    BY FS_EmptySet, FS_Subset, FS_CardinalityType
  <2>2. IsSumTableUpTo(g, f, S, 0) /\ g \in [SUBSET S -> Int]
    BY <2>1 DEF IsSumTableUpTo, SumStep
  <2> HIDE DEF g
  <2> QED BY <2>2
<1>2. ASSUME NEW n \in Nat, n \in Good PROVE n + 1 \in Good
  <2>1. PICK g \in [SUBSET S -> Int] : IsSumTableUpTo(g, f, S, n)
    BY <1>2
  <2> DEFINE h == [s \in SUBSET S |-> SumStep(g, f, s)]
  <2>2. \A s \in SUBSET S : SumStep(g, f, s) \in Int
    BY PickFacts DEF SumStep
  <2>3. h \in [SUBSET S -> Int]
    BY <2>2
  <2>4. ASSUME NEW s \in SUBSET S, Cardinality(s) <= n + 1
        PROVE  h[s] = SumStep(h, f, s)
    <3>1. CASE s = {}
      BY <3>1 DEF SumStep
    <3>2. CASE s # {}
      <4>1. IsFiniteSet(s)
        BY FS_Subset
      <4>5. Cardinality(s \ {Pick(s)}) = Cardinality(s) - 1 /\ Cardinality(s) \in Nat
        BY <3>2, <4>1, RestSmaller
      <4>2. Cardinality(s \ {Pick(s)}) <= n
        BY <2>4, <4>5
      <4>3. g[s \ {Pick(s)}] = h[s \ {Pick(s)}]
        BY <2>1, <4>2 DEF IsSumTableUpTo
      <4> QED BY <3>2, <4>3 DEF SumStep
    <3> QED BY <3>1, <3>2
  <2>5. IsSumTableUpTo(h, f, S, n + 1)
    BY <2>4 DEF IsSumTableUpTo
  <2> HIDE DEF h
  <2> QED BY <2>3, <2>5
<1>3. Good = Nat
  <2>1. Good \in SUBSET Nat
    OBVIOUS
  <2> HIDE DEF Good
  <2> QED BY <1>1, <1>2, <2>1, NatSetInduction
<1>4. Cardinality(S) \in Nat
  BY FS_CardinalityType
<1>5. PICK g \in [SUBSET S -> Int] : IsSumTableUpTo(g, f, S, Cardinality(S))
  BY <1>3, <1>4
<1>6. \A s \in SUBSET S : Cardinality(s) <= Cardinality(S)
  BY FS_Subset
<1> QED BY <1>5, <1>6 DEF IsSumTableUpTo, IsSumTable

\* Two tables agree on the smaller set where the functions do.
LEMMA TablesAgree ==
  ASSUME NEW S, NEW T, IsFiniteSet(S), S \subseteq T,
         NEW f, NEW h, \A e \in S : f[e] = h[e],
         NEW g, IsSumTable(g, f, S), NEW k, IsSumTable(k, h, T)
  PROVE  g[S] = k[S]
<1> DEFINE Good == {n \in Nat : \A s \in SUBSET S : Cardinality(s) = n => g[s] = k[s]}
<1>1. \A s \in SUBSET S : g[s] = SumStep(g, f, s) /\ k[s] = SumStep(k, h, s)
  BY DEF IsSumTable
<1>2. 0 \in Good
  BY <1>1, FS_EmptySet, FS_Subset DEF SumStep
<1>3. ASSUME NEW n \in Nat, n \in Good PROVE n + 1 \in Good
  <2> SUFFICES ASSUME NEW s \in SUBSET S, Cardinality(s) = n + 1 PROVE g[s] = k[s]
    OBVIOUS
  <2>1. IsFiniteSet(s) /\ s # {}
    BY FS_Subset, FS_EmptySet
  <2>2. Cardinality(s \ {Pick(s)}) = n /\ Pick(s) \in S
    BY <2>1, RestSmaller, PickFacts
  <2>3. g[s \ {Pick(s)}] = k[s \ {Pick(s)}]
    BY <1>3, <2>2
  <2> QED BY <1>1, <2>1, <2>2, <2>3 DEF SumStep
<1>4. Good = Nat
  <2>1. Good \in SUBSET Nat
    OBVIOUS
  <2> HIDE DEF Good
  <2> QED BY <1>2, <1>3, <2>1, NatSetInduction
<1> QED BY <1>4, FS_CardinalityType

\* So the sum of f over S is the value at S of the table of any larger set.
LEMMA SumTable ==
  ASSUME NEW S, NEW T, IsFiniteSet(T), S \subseteq T, NEW f, \A e \in T : f[e] \in Int,
         NEW g, IsSumTable(g, f, T)
  PROVE  SumFunctionOnSet(f, S) = g[S]
<1>1. IsFiniteSet(S)
  BY FS_Subset
<1>2. \E k : IsSumTable(k, f, S)
  BY <1>1, TableExists
<1> DEFINE k == CHOOSE k : IsSumTable(k, f, S)
<1>3. IsSumTable(k, f, S)
  BY <1>2
<1>4. SumFunctionOnSet(f, S) = k[S]
  BY Unfold
<1> HIDE DEF k
<1>5. k[S] = g[S]
  BY <1>1, <1>3, TablesAgree
<1> QED BY <1>4, <1>5

-----------------------------------------------------------------------------
\* The sum over no element is zero.
LEMMA SumOfNone ==
  ASSUME NEW f
  PROVE  SumFunctionOnSet(f, {}) = 0
<1>1. IsFiniteSet({})
  BY FS_EmptySet
<1>2. PICK g : IsSumTable(g, f, {})
  BY <1>1, TableExists
<1>3. SumFunctionOnSet(f, {}) = g[{}]
  BY <1>1, <1>2, SumTable
<1> QED BY <1>2, <1>3 DEF IsSumTable, SumStep

\* A sum of integers is an integer.
LEMMA SumType ==
  ASSUME NEW S, IsFiniteSet(S), NEW f, \A e \in S : f[e] \in Int
  PROVE  SumFunctionOnSet(f, S) \in Int
<1>1. PICK g \in [SUBSET S -> Int] : IsSumTable(g, f, S)
  BY TableExists
<1>2. SumFunctionOnSet(f, S) = g[S]
  BY <1>1, SumTable
<1> QED BY <1>2

\* Functions that agree on a set have the same sum over it.
LEMMA SumSame ==
  ASSUME NEW S, IsFiniteSet(S), NEW f, NEW h,
         \A e \in S : f[e] \in Int /\ f[e] = h[e]
  PROVE  SumFunctionOnSet(f, S) = SumFunctionOnSet(h, S)
<1>1. PICK g : IsSumTable(g, f, S)
  BY TableExists
<1>2. PICK k : IsSumTable(k, h, S)
  BY TableExists
<1>3. SumFunctionOnSet(f, S) = g[S] /\ SumFunctionOnSet(h, S) = k[S]
  BY <1>1, <1>2, SumTable
<1>4. g[S] = k[S]
  BY <1>1, <1>2, TablesAgree
<1> QED BY <1>3, <1>4

\* The element that is picked comes out of a sum.
LEMMA SumPick ==
  ASSUME NEW S, IsFiniteSet(S), S # {}, NEW f, \A e \in S : f[e] \in Int
  PROVE  SumFunctionOnSet(f, S) = f[Pick(S)] + SumFunctionOnSet(f, S \ {Pick(S)})
<1>1. PICK g : IsSumTable(g, f, S)
  BY TableExists
<1>2. SumFunctionOnSet(f, S) = g[S] /\ SumFunctionOnSet(f, S \ {Pick(S)}) = g[S \ {Pick(S)}]
  BY <1>1, SumTable
<1> QED BY <1>1, <1>2 DEF IsSumTable, SumStep

\* Every element does.
LEMMA SumOut ==
  ASSUME NEW S, IsFiniteSet(S), NEW f, \A e \in S : f[e] \in Int, NEW x \in S
  PROVE  SumFunctionOnSet(f, S) = f[x] + SumFunctionOnSet(f, S \ {x})
<1> DEFINE Total(T) == SumFunctionOnSet(f, T)
           Good == {n \in Nat : \A T \in SUBSET S : Cardinality(T) = n =>
                                  \A y \in T : Total(T) = f[y] + Total(T \ {y})}
<1>1. 0 \in Good
  BY FS_EmptySet, FS_Subset
<1>2. ASSUME NEW n \in Nat, n \in Good PROVE n + 1 \in Good
  <2> SUFFICES ASSUME NEW T \in SUBSET S, Cardinality(T) = n + 1, NEW y \in T
               PROVE  Total(T) = f[y] + Total(T \ {y})
    OBVIOUS
  <2> DEFINE p == Pick(T)
  <2>1. IsFiniteSet(T) /\ p \in T
    BY FS_Subset, PickFacts
  <2>2. Total(T) = f[p] + Total(T \ {p})
    BY <2>1, SumPick
  <2>3. CASE p = y
    BY <2>2, <2>3
  <2>4. CASE p # y
    <3>0. Cardinality(T \ {p}) = Cardinality(T) - 1 /\ Cardinality(T \ {y}) = Cardinality(T) - 1
      BY <2>1, FS_RemoveElement
    <3>1. Cardinality(T \ {p}) = n /\ Cardinality(T \ {y}) = n
      BY <3>0
    <3>2. Total(T \ {p}) = f[y] + Total((T \ {p}) \ {y})
      BY <1>2, <2>1, <2>4, <3>1
    <3>3. Total(T \ {y}) = f[p] + Total((T \ {y}) \ {p})
      BY <1>2, <2>1, <2>4, <3>1
    <3> DEFINE R == T \ {p, y}
    <3>4. (T \ {p}) \ {y} = R /\ (T \ {y}) \ {p} = R
      OBVIOUS
    <3>5. IsFiniteSet(R) /\ \A e \in R : f[e] \in Int
      BY <2>1, FS_Subset
    <3>6. Total(R) \in Int
      BY <3>5, SumType
    <3>7. f[y] \in Int /\ f[p] \in Int
      BY <2>1
    <3>8. Total(T \ {p}) = f[y] + Total(R)
      BY <3>2, <3>4
    <3>9. Total(T \ {y}) = f[p] + Total(R)
      BY <3>3, <3>4
    <3> HIDE DEF Total, p, R
    <3> QED BY <2>2, <3>6, <3>7, <3>8, <3>9
  <2> QED BY <2>3, <2>4
<1>3. Good = Nat
  <2>1. Good \in SUBSET Nat
    OBVIOUS
  <2> HIDE DEF Good
  <2> QED BY <1>1, <1>2, <2>1, NatSetInduction
<1>4. Cardinality(S) \in Nat
  BY FS_CardinalityType
<1>5. \A y \in S : Total(S) = f[y] + Total(S \ {y})
  <2> HIDE DEF Total
  <2> QED BY <1>3, <1>4
<1> QED BY <1>5

\* A new element adds its value.
LEMMA SumIn ==
  ASSUME NEW S, IsFiniteSet(S), NEW x, x \notin S,
         NEW f, \A e \in S \cup {x} : f[e] \in Int
  PROVE  SumFunctionOnSet(f, S \cup {x}) = SumFunctionOnSet(f, S) + f[x]
<1>1. IsFiniteSet(S \cup {x}) /\ (S \cup {x}) \ {x} = S
  BY FS_AddElement
<1>2. SumFunctionOnSet(f, S \cup {x}) = f[x] + SumFunctionOnSet(f, S)
  BY <1>1, SumOut
<1> QED BY <1>2, SumType

\* A function that differs at one element has the sum that differs as much.
LEMMA SumChange ==
  ASSUME NEW S, IsFiniteSet(S), NEW x \in S, NEW f, NEW h,
         \A e \in S : f[e] \in Int /\ h[e] \in Int,
         \A e \in S \ {x} : f[e] = h[e]
  PROVE  SumFunctionOnSet(h, S) = SumFunctionOnSet(f, S) + h[x] - f[x]
<1>1. IsFiniteSet(S \ {x})
  BY FS_RemoveElement
<1>2. SumFunctionOnSet(f, S) = f[x] + SumFunctionOnSet(f, S \ {x})
  BY SumOut
<1>3. SumFunctionOnSet(h, S) = h[x] + SumFunctionOnSet(h, S \ {x})
  BY SumOut
<1>4. SumFunctionOnSet(f, S \ {x}) = SumFunctionOnSet(h, S \ {x})
  BY <1>1, SumSame
<1>5. SumFunctionOnSet(f, S \ {x}) \in Int
  BY <1>1, SumType
<1> QED BY <1>2, <1>3, <1>4, <1>5

\* Only x has another value, joins or leaves.
LEMMA SumMoves ==
  ASSUME NEW S, NEW T, IsFiniteSet(S), NEW x, S \ {x} = T \ {x}, NEW f, NEW g,
         \A e \in S : f[e] \in Int, \A e \in T : g[e] \in Int, \A e \in S \ {x} : g[e] = f[e]
  PROVE  SumFunctionOnSet(g, T) = SumFunctionOnSet(f, S) + (IF x \in T THEN g[x] ELSE 0)
                                                         - (IF x \in S THEN f[x] ELSE 0)
<1> DEFINE R == S \ {x}
<1>1. IsFiniteSet(R) /\ x \notin R
  BY FS_Subset
<1>2. SumFunctionOnSet(g, R) = SumFunctionOnSet(f, R) /\ SumFunctionOnSet(f, R) \in Int
  BY <1>1, SumSame, SumType
<1>3. SumFunctionOnSet(f, S) = SumFunctionOnSet(f, R) + (IF x \in S THEN f[x] ELSE 0)
  <2>1. CASE x \in S
    <3>1. S = R \cup {x} /\ \A e \in R \cup {x} : f[e] \in Int
      BY <2>1
    <3> HIDE DEF R
    <3>2. SumFunctionOnSet(f, R \cup {x}) = SumFunctionOnSet(f, R) + f[x]
      BY <1>1, <3>1, SumIn
    <3> QED BY <2>1, <3>1, <3>2
  <2>2. CASE x \notin S
    <3>1. S = R
      BY <2>2
    <3> HIDE DEF R
    <3> QED BY <1>2, <2>2, <3>1
  <2> QED BY <2>1, <2>2
<1>4. SumFunctionOnSet(g, T) = SumFunctionOnSet(g, R) + (IF x \in T THEN g[x] ELSE 0)
  <2>1. CASE x \in T
    <3>1. T = R \cup {x} /\ \A e \in R \cup {x} : g[e] \in Int
      BY <2>1
    <3> HIDE DEF R
    <3>2. SumFunctionOnSet(g, R \cup {x}) = SumFunctionOnSet(g, R) + g[x]
      BY <1>1, <3>1, SumIn
    <3> QED BY <2>1, <3>1, <3>2
  <2>2. CASE x \notin T
    <3>1. T = R
      BY <2>2
    <3> HIDE DEF R
    <3> QED BY <1>2, <2>2, <3>1
  <2> QED BY <2>1, <2>2
<1>5. (IF x \in S THEN f[x] ELSE 0) \in Int /\ (IF x \in T THEN g[x] ELSE 0) \in Int
  OBVIOUS
<1> HIDE DEF R
<1> QED BY <1>2, <1>3, <1>4, <1>5

\* A sum of naturals is a natural,
LEMMA SumNat ==
  ASSUME NEW S, IsFiniteSet(S), NEW f, \A e \in S : f[e] \in Nat
  PROVE  SumFunctionOnSet(f, S) \in Nat
<1> DEFINE P == {T \in SUBSET S : SumFunctionOnSet(f, T) \in Nat}
<1>1. {} \in P
  BY SumOfNone
<1>2. ASSUME NEW T \in SUBSET S, NEW x \in S, T \in P, x \notin T PROVE T \cup {x} \in P
  <2>1. IsFiniteSet(T)
    BY FS_Subset
  <2>2. \A e \in T \cup {x} : f[e] \in Int
    OBVIOUS
  <2>3. SumFunctionOnSet(f, T \cup {x}) = SumFunctionOnSet(f, T) + f[x]
    BY <1>2, <2>1, <2>2, SumIn
  <2> QED BY <1>2, <2>3
<1>3. S \in P
  <2> HIDE DEF P
  <2> QED BY <1>1, <1>2, SubsetInduction
<1> QED BY <1>3

\* and no smaller than any of them.
LEMMA SumNotLess ==
  ASSUME NEW S, IsFiniteSet(S), NEW f, \A e \in S : f[e] \in Nat, NEW x \in S
  PROVE  f[x] <= SumFunctionOnSet(f, S)
<1>1. SumFunctionOnSet(f, S) = f[x] + SumFunctionOnSet(f, S \ {x})
  BY SumOut
<1>2. IsFiniteSet(S \ {x})
  BY FS_RemoveElement
<1>3. SumFunctionOnSet(f, S \ {x}) \in Nat
  BY <1>2, SumNat
<1> QED BY <1>1, <1>3

-----------------------------------------------------------------------------
\* The same of a sum over the domain of a function: the sum of no value,
LEMMA FunSumOfNone ==
  ASSUME NEW f, DOMAIN f = {}
  PROVE  SumFunction(f) = 0
BY SumOfNone DEF SumFunction

\* of integers, and of naturals,
LEMMA FunSumType ==
  ASSUME NEW S, IsFiniteSet(S), NEW f \in [S -> Int]
  PROVE  SumFunction(f) \in Int
BY SumType DEF SumFunction

\* which are no larger than their sum,
LEMMA FunSumNat ==
  ASSUME NEW S, IsFiniteSet(S), NEW f \in [S -> Nat]
  PROVE  /\ SumFunction(f) \in Nat
         /\ \A x \in S : f[x] <= SumFunction(f)
BY SumNat, SumNotLess DEF SumFunction

\* of one value,
LEMMA FunSumOfOne ==
  ASSUME NEW x, NEW f \in [{x} -> Int]
  PROVE  SumFunction(f) = f[x]
<1>1. IsFiniteSet({}) /\ x \notin {} /\ {} \cup {x} = {x}
  BY FS_EmptySet
<1>2. SumFunctionOnSet(f, {} \cup {x}) = SumFunctionOnSet(f, {}) + f[x]
  BY <1>1, SumIn
<1> QED BY <1>1, <1>2, SumOfNone DEF SumFunction

\* of the same values,
LEMMA FunSumSame ==
  ASSUME NEW f, NEW g, IsFiniteSet(DOMAIN f), DOMAIN g = DOMAIN f,
         \A e \in DOMAIN f : f[e] \in Int /\ g[e] = f[e]
  PROVE  SumFunction(g) = SumFunction(f)
BY SumSame DEF SumFunction

\* with one element more,
LEMMA FunSumIn ==
  ASSUME NEW f, NEW g, NEW x, IsFiniteSet(DOMAIN f), x \notin DOMAIN f,
         DOMAIN g = DOMAIN f \cup {x}, g[x] \in Int,
         \A e \in DOMAIN f : f[e] \in Int /\ g[e] = f[e]
  PROVE  SumFunction(g) = SumFunction(f) + g[x]
<1> DEFINE S == DOMAIN f
<1>1. SumFunctionOnSet(g, S \cup {x}) = SumFunctionOnSet(g, S) + g[x]
  <2>1. IsFiniteSet(S) /\ x \notin S /\ \A e \in S \cup {x} : g[e] \in Int
    OBVIOUS
  <2> HIDE DEF S
  <2> QED BY <2>1, SumIn
<1>2. SumFunctionOnSet(g, S) = SumFunctionOnSet(f, S)
  BY SumSame
<1> QED BY <1>1, <1>2 DEF SumFunction

\* and with another value for one element.
LEMMA FunSumChange ==
  ASSUME NEW f, NEW g, NEW x, IsFiniteSet(DOMAIN f), DOMAIN g = DOMAIN f, x \in DOMAIN f,
         \A e \in DOMAIN f : f[e] \in Int /\ g[e] \in Int,
         \A e \in DOMAIN f \ {x} : g[e] = f[e]
  PROVE  SumFunction(g) = SumFunction(f) + g[x] - f[x]
<1> DEFINE S == DOMAIN f
<1>1. SumFunctionOnSet(g, S) = SumFunctionOnSet(f, S) + g[x] - f[x]
  <2>1. /\ IsFiniteSet(S) /\ x \in S /\ \A e \in S : f[e] \in Int /\ g[e] \in Int
        /\ \A e \in S \ {x} : f[e] = g[e]
    OBVIOUS
  <2> HIDE DEF S
  <2> QED BY <2>1, SumChange
<1> QED BY <1>1 DEF SumFunction

\* The elements of T, taken as e[1], ..., e[k], have the running totals a of f.
RunningTotals(k, e, a, f, T) ==
    /\ \A v \in 1..k : e[v] \in T
    /\ \A x \in T : \E v \in 1..k : x = e[v]
    /\ \A v, w \in 1..k : e[v] = e[w] => v = w
    /\ a[0] = 0
    /\ \A v \in 1..k : f[e[v]] \in Int /\ a[v] = a[v - 1] + f[e[v]]

\* A set grown by one element has a sum that grows by the element's value.
LEMMA SumInNamed ==
  ASSUME NEW f, NEW S, NEW x, NEW T, T = S \cup {x}, IsFiniteSet(S), x \notin S,
         \A y \in T : f[y] \in Int
  PROVE  IsFiniteSet(T) /\ SumFunctionOnSet(f, T) = SumFunctionOnSet(f, S) + f[x]
  BY SumIn, FS_AddElement

\* The sum of f over elements taken one after the other is their last total.
LEMMA SumOfSteps ==
  ASSUME NEW k \in Nat, NEW e, NEW a, NEW f, NEW T, RunningTotals(k, e, a, f, T)
  PROVE  IsFiniteSet(T) /\ SumFunctionOnSet(f, T) = a[k]
<1> DEFINE E(n) == {e[v] : v \in 1..n}
           Good == {n \in Nat : n <= k => IsFiniteSet(E(n)) /\ SumFunctionOnSet(f, E(n)) = a[n]
                                          /\ a[n] \in Int}
<1>0. /\ a[0] = 0 /\ \A v, w \in 1..k : e[v] = e[w] => v = w
      /\ \A v \in 1..k : f[e[v]] \in Int /\ a[v] = a[v - 1] + f[e[v]]
  BY DEF RunningTotals
<1>1. 0 \in Good
  <2>1. E(0) = {}
    OBVIOUS
  <2> QED BY <1>0, <2>1, FS_EmptySet, SumOfNone
<1>2. ASSUME NEW n \in Good PROVE n + 1 \in Good
  <2> SUFFICES ASSUME n + 1 <= k
               PROVE  IsFiniteSet(E(n + 1)) /\ SumFunctionOnSet(f, E(n + 1)) = a[n + 1]
                      /\ a[n + 1] \in Int
    OBVIOUS
  <2>1. IsFiniteSet(E(n)) /\ SumFunctionOnSet(f, E(n)) = a[n] /\ a[n] \in Int
    BY <1>2
  <2>2. n + 1 \in 1..k /\ \A v \in 1..n : v \in 1..k /\ v # n + 1
    OBVIOUS
  <2>3. f[e[n + 1]] \in Int /\ a[n + 1] = a[n] + f[e[n + 1]]
    BY <1>0, <2>2
  <2>4. \A v : v \in 1..(n + 1) <=> v \in 1..n \/ v = n + 1
    OBVIOUS
  <2>5. E(n + 1) = E(n) \cup {e[n + 1]}
    BY <2>4
  <2>6. e[n + 1] \notin E(n)
    BY <1>0, <2>2
  <2>7. \A x \in E(n) \cup {e[n + 1]} : f[x] \in Int
    BY <1>0, <2>2
  <2> DEFINE S == E(n)
             x == e[n + 1]
  <2>8. IsFiniteSet(S) /\ x \notin S /\ \A y \in S \cup {x} : f[y] \in Int
    BY <2>1, <2>6, <2>7
  <2>9. /\ SumFunctionOnSet(f, S) = a[n] /\ a[n] \in Int /\ E(n + 1) = S \cup {x}
        /\ a[n + 1] = a[n] + f[x] /\ f[x] \in Int
    BY <2>1, <2>3, <2>5
  <2> HIDE DEF S, x, E
  <2>10. IsFiniteSet(S \cup {x})
         /\ SumFunctionOnSet(f, S \cup {x}) = SumFunctionOnSet(f, S) + f[x]
    BY <2>8, SumInNamed
  <2>11. SumFunctionOnSet(f, E(n + 1)) = a[n + 1]
    BY <2>9, <2>10
  <2> QED BY <2>9, <2>10, <2>11
<1>3. Good = Nat
  <2> HIDE DEF Good
  <2>1. Good \in SUBSET Nat
    BY DEF Good
  <2> QED BY <1>1, <1>2, <2>1, NatSetInduction
<1>4. k \in Good
  BY <1>3
<1>5. T = E(k)
  BY DEF RunningTotals
<1> QED BY <1>4, <1>5
=============================================================================
