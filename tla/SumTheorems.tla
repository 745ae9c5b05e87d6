---------------------------- MODULE SumTheorems -----------------------------
(***************************************************************************)
(* Facts about sums over finite sets, for the proofs about money.  The     *)
(* library's induction theorems take a predicate as a parameter, which no  *)
(* prover here can instantiate; what is used instead is that a set of      *)
(* naturals that is not empty has a least member.                          *)
(***************************************************************************)
EXTENDS Integers, FiniteSets, Functions, FiniteSetTheorems, WellFoundedInduction, TLAPS

\* A set of natural numbers, such as the counterexamples to a claim, has a least member.
LEMMA LeastMember ==
  ASSUME NEW T \in SUBSET Nat, T # {}
  PROVE  \E n \in T : \A m \in T : n <= m
<1> DEFINE R == OpToRel(<, Nat)
<1>1. IsWellFoundedOn(R, Nat)
  BY NatLessThanWellFounded
<1>2. \A m, n \in Nat : <<m, n>> \in R <=> m < n
  BY DEF OpToRel
<1> HIDE DEF R
<1>3. PICK n \in T : \A m \in T : <<m, n>> \notin R
  BY <1>1, WFMin
<1>4. \A m \in T : ~(m < n)
  BY <1>2, <1>3
<1> QED
  BY <1>3, <1>4

\* The member that a fold takes out of a set first.
First(s) == CHOOSE x \in s : TRUE

FoldStep(v, sum, s) == IF s = {} THEN 0 ELSE v[First(s)] + sum[s \ {First(s)}]

\* `sum' gives the sum of v over each subset of S, in the order of the fold.
SumsUp(v, S, sum) == sum = [s \in SUBSET S |-> FoldStep(v, sum, s)]

IsSum(v, S, sum) == /\ sum \in [SUBSET S -> Int]
                    /\ \A s \in SUBSET S : sum[s] = FoldStep(v, sum, s)

\* The definition of the library's sum.
LEMMA SumUnfolds ==
  ASSUME NEW v, NEW S
  PROVE  SumFunctionOnSet(v, S) = (CHOOSE sum : SumsUp(v, S, sum))[S]
BY DEF SumFunctionOnSet, FoldFunctionOnSet, MapThenFoldSet, SumsUp, FoldStep, First

LEMMA FirstIsMember ==
  ASSUME NEW s, s # {}
  PROVE  First(s) \in s
BY DEF First

\* Subsets of a finite set are finite, and taking a member out makes one smaller by one.
LEMMA SmallerByOne ==
  ASSUME NEW S, IsFiniteSet(S), NEW s \in SUBSET S, NEW x \in s
  PROVE  /\ s \ {x} \in SUBSET S
         /\ Cardinality(s) \in Nat \ {0}
         /\ Cardinality(s \ {x}) = Cardinality(s) - 1
<1>1. IsFiniteSet(s)
  BY FS_Subset
<1>2. Cardinality(s) \in Nat /\ Cardinality(s) # 0
  BY <1>1, FS_CardinalityType, FS_EmptySet
<1> QED
  BY <1>1, <1>2, FS_RemoveElement

\* The fold has a value: its recursion is well founded.
LEMMA SumExists ==
  ASSUME NEW S, IsFiniteSet(S), NEW v, \A x \in S : v[x] \in Int
  PROVE  \E sum : IsSum(v, S, sum)
<1> DEFINE Up(n) == {s \in SUBSET S : Cardinality(s) <= n}
           Good(n) == \E f \in [Up(n) -> Int] : \A s \in Up(n) : f[s] = FoldStep(v, f, s)
           Bad == {n \in Nat : ~Good(n)}
<1>1. \A s \in SUBSET S : Cardinality(s) \in Nat /\ Cardinality(s) <= Cardinality(S)
  BY FS_Subset, FS_CardinalityType
<1>2. Good(0)
  <2>1. \A s \in Up(0) : s = {}
    <3> TAKE s \in Up(0)
    <3>1. IsFiniteSet(s) /\ Cardinality(s) = 0
      BY <1>1, FS_Subset
    <3> QED
      BY <3>1, FS_EmptySet
  <2> DEFINE f == [s \in Up(0) |-> 0]
  <2>2. \A s \in Up(0) : f[s] = FoldStep(v, f, s)
    BY <2>1 DEF FoldStep
  <2>3. f \in [Up(0) -> Int]
    OBVIOUS
  <2> HIDE DEF f, Up
  <2> QED
    BY <2>2, <2>3
<1>3. ASSUME NEW n \in Nat, Good(n)
      PROVE  Good(n + 1)
  <2> HIDE DEF Up
  <2>1. PICK f \in [Up(n) -> Int] : \A s \in Up(n) : f[s] = FoldStep(v, f, s)
    BY <1>3
  <2> DEFINE g == [s \in Up(n + 1) |-> FoldStep(v, f, s)]
  <2>2. \A s \in Up(n + 1) : s # {} =>
          /\ s \ {First(s)} \in Up(n) /\ s \ {First(s)} \in Up(n + 1)
          /\ v[First(s)] \in Int
    <3> TAKE s \in Up(n + 1)
    <3> HAVE s # {}
    <3>1. First(s) \in s /\ s \in SUBSET S
      BY FirstIsMember DEF Up
    <3>2. /\ s \ {First(s)} \in SUBSET S
          /\ Cardinality(s) \in Nat /\ Cardinality(s) <= n + 1
          /\ Cardinality(s \ {First(s)}) = Cardinality(s) - 1
      BY <3>1, SmallerByOne DEF Up
    <3> QED
      BY <3>1, <3>2 DEF Up
  <2>3. g \in [Up(n + 1) -> Int]
    BY <2>2 DEF FoldStep
  <2>4. \A s \in Up(n) : s \in Up(n + 1) /\ g[s] = f[s]
    BY <2>1, <1>1 DEF Up
  <2>5. \A s \in Up(n + 1) : g[s] = FoldStep(v, g, s)
    BY <2>2, <2>4 DEF FoldStep
  <2> HIDE DEF g
  <2> QED
    BY <2>3, <2>5
<1>4. Bad = {}
  <2> SUFFICES ASSUME Bad # {} PROVE FALSE
    OBVIOUS
  <2> HIDE DEF Good
  <2>1. PICK n \in Bad : \A m \in Bad : n <= m
    BY LeastMember
  <2>2. n \in Nat \ {0} /\ ~Good(n)
    BY <1>2
  <2>3. Good(n - 1)
    BY <2>1, <2>2
  <2>4. Good((n - 1) + 1)
    BY <1>3, <2>2, <2>3
  <2>5. (n - 1) + 1 = n
    BY <2>2
  <2> QED
    BY <2>2, <2>4, <2>5
<1>5. Good(Cardinality(S))
  <2> HIDE DEF Good
  <2>1. Cardinality(S) \in Nat
    BY FS_CardinalityType
  <2> QED
    BY <1>4, <2>1
<1>6. Up(Cardinality(S)) = SUBSET S
  BY <1>1
<1> QED
  BY <1>5, <1>6 DEF IsSum

\* A claim about the subsets of a finite set holds if its smallest counterexample cannot exist.
LEMMA SmallestCounterexample ==
  ASSUME NEW S, IsFiniteSet(S), NEW C \in SUBSET (SUBSET S), C # {}
  PROVE  \E s \in C : \A x \in s : s \ {x} \notin C
<1> DEFINE T == {Cardinality(s) : s \in C}
<1>1. T \in SUBSET Nat /\ T # {}
  BY FS_Subset, FS_CardinalityType
<1>2. PICK n \in T : \A m \in T : n <= m
  BY <1>1, LeastMember
<1>3. PICK s \in C : Cardinality(s) = n
  BY <1>2
<1>4. \A x \in s : s \ {x} \notin C
  <2> SUFFICES ASSUME NEW x \in s, s \ {x} \in C PROVE FALSE
    OBVIOUS
  <2>1. n \in Nat /\ Cardinality(s \ {x}) = n - 1
    BY <1>1, <1>2, <1>3, SmallerByOne
  <2>2. n <= Cardinality(s \ {x})
    BY <1>2
  <2> QED
    BY <2>1, <2>2
<1> QED
  BY <1>4

\* The library's sum over a subset is what the fold gives it.
LEMMA SumOfSubset ==
  ASSUME NEW S, IsFiniteSet(S), NEW v, \A x \in S : v[x] \in Int,
         NEW sum, IsSum(v, S, sum), NEW T \in SUBSET S
  PROVE  SumFunctionOnSet(v, T) = sum[T]
<1> DEFINE f == CHOOSE g : SumsUp(v, T, g)
<1>1. \E g : SumsUp(v, T, g)
  <2>1. PICK g : IsSum(v, T, g)
    BY SumExists, FS_Subset
  <2>2. g = [s \in SUBSET T |-> FoldStep(v, g, s)]
    BY <2>1 DEF IsSum
  <2> QED
    BY <2>2 DEF SumsUp
<1>2. SumsUp(v, T, f)
  BY <1>1
<1>3. SumFunctionOnSet(v, T) = f[T]
  BY SumUnfolds
<1> HIDE DEF f
<1>4. \A s \in SUBSET T : f[s] = FoldStep(v, f, s) /\ sum[s] = FoldStep(v, sum, s)
  BY <1>2 DEF SumsUp, IsSum
<1> DEFINE C == {s \in SUBSET T : f[s] # sum[s]}
<1>5. C = {}
  <2> SUFFICES ASSUME C # {} PROVE FALSE
    OBVIOUS
  <2>1. PICK s \in C : \A x \in s : s \ {x} \notin C
    BY SmallestCounterexample, FS_Subset
  <2>2. CASE s = {}
    BY <1>4, <2>1, <2>2 DEF FoldStep
  <2>3. CASE s # {}
    <3>1. First(s) \in s /\ s \ {First(s)} \in SUBSET T
      BY <2>3, FirstIsMember
    <3>2. f[s \ {First(s)}] = sum[s \ {First(s)}]
      BY <2>1, <3>1
    <3> QED
      BY <1>4, <2>1, <2>3, <3>2 DEF FoldStep
  <2> QED
    BY <2>2, <2>3
<1> QED
  BY <1>3, <1>5

\* Over nothing the sum is zero.
LEMMA SumEmpty ==
  ASSUME NEW v
  PROVE  SumFunctionOnSet(v, {}) = 0
<1>1. PICK sum : IsSum(v, {}, sum)
  BY SumExists, FS_EmptySet
<1>2. SumFunctionOnSet(v, {}) = sum[{}]
  BY <1>1, SumOfSubset, FS_EmptySet
<1> QED
  BY <1>1, <1>2 DEF IsSum, FoldStep

\* A sum of integers is one, and any member may be taken out of it, not only the first.
LEMMA SumTakeOut ==
  ASSUME NEW S, IsFiniteSet(S), NEW v, \A x \in S : v[x] \in Int
  PROVE  /\ SumFunctionOnSet(v, S) \in Int
         /\ \A x \in S : SumFunctionOnSet(v, S) = v[x] + SumFunctionOnSet(v, S \ {x})
<1>1. PICK sum : IsSum(v, S, sum)
  BY SumExists
<1>2. \A T \in SUBSET S : SumFunctionOnSet(v, T) = sum[T] /\ sum[T] \in Int
  <2> TAKE T \in SUBSET S
  <2>1. SumFunctionOnSet(v, T) = sum[T]
    BY <1>1, SumOfSubset
  <2> QED
    BY <1>1, <2>1 DEF IsSum
<1> DEFINE C == {s \in SUBSET S : \E x \in s : sum[s] # v[x] + sum[s \ {x}]}
<1>3. C = {}
  <2> SUFFICES ASSUME C # {} PROVE FALSE
    OBVIOUS
  <2>1. PICK s \in C : \A x \in s : s \ {x} \notin C
    BY SmallestCounterexample
  <2>2. PICK x \in s : sum[s] # v[x] + sum[s \ {x}]
    BY <2>1
  <2> DEFINE c == First(s)
  <2>3. c \in s
    BY <2>2, FirstIsMember
  <2>4. sum[s] = v[c] + sum[s \ {c}]
    BY <1>1, <2>1, <2>2 DEF IsSum, FoldStep
  <2> HIDE DEF c
  <2>5. x # c
    BY <2>2, <2>4
  <2>6. sum[s \ {c}] = v[x] + sum[(s \ {c}) \ {x}]
    BY <2>1, <2>3, <2>2, <2>5
  <2>7. sum[s \ {x}] = v[c] + sum[(s \ {x}) \ {c}]
    BY <2>1, <2>3, <2>2, <2>5
  <2>8. sum[(s \ {c}) \ {x}] = sum[(s \ {x}) \ {c}]
    <3>1. (s \ {c}) \ {x} = (s \ {x}) \ {c}
      OBVIOUS
    <3> QED
      BY <3>1
  <2>9. /\ v[x] \in Int /\ v[c] \in Int
        /\ sum[(s \ {x}) \ {c}] \in Int /\ sum[s] \in Int
    BY <1>2, <2>1, <2>2, <2>3
  <2>10. sum[s] = v[x] + sum[s \ {x}]
    BY <2>4, <2>6, <2>7, <2>8, <2>9
  <2> QED
    BY <2>2, <2>10
<1> QED
  BY <1>2, <1>3

\* Functions that agree on a set have the same sum over it.
LEMMA SumAgrees ==
  ASSUME NEW S, IsFiniteSet(S), NEW v, NEW u,
         \A x \in S : v[x] \in Int /\ u[x] = v[x]
  PROVE  SumFunctionOnSet(u, S) = SumFunctionOnSet(v, S)
<1> DEFINE C == {s \in SUBSET S : SumFunctionOnSet(u, s) # SumFunctionOnSet(v, s)}
<1>1. C = {}
  <2> SUFFICES ASSUME C # {} PROVE FALSE
    OBVIOUS
  <2>1. PICK s \in C : \A x \in s : s \ {x} \notin C
    BY SmallestCounterexample
  <2>2. CASE s = {}
    BY <2>1, <2>2, SumEmpty
  <2>3. CASE s # {}
    <3>1. PICK x \in s : TRUE
      BY <2>3
    <3>2. SumFunctionOnSet(u, s \ {x}) = SumFunctionOnSet(v, s \ {x})
      BY <2>1
    <3>3. IsFiniteSet(s) /\ \A y \in s : v[y] \in Int /\ u[y] \in Int
      BY FS_Subset
    <3>4. SumFunctionOnSet(u, s) = u[x] + SumFunctionOnSet(u, s \ {x})
      BY <3>3, SumTakeOut
    <3>5. SumFunctionOnSet(v, s) = v[x] + SumFunctionOnSet(v, s \ {x})
      BY <3>3, SumTakeOut
    <3> QED
      BY <2>1, <3>2, <3>4, <3>5
  <2> QED
    BY <2>2, <2>3
<1> QED
  BY <1>1

\* Of two families of integers, only the member at x differs.
ChangesAt(v, u, S, x) ==
  /\ \A y \in S : v[y] \in Int /\ u[y] \in Int
  /\ \A y \in S \ {x} : u[y] = v[y]

\* Changing one summand changes the sum by as much.
LEMMA SumChange ==
  ASSUME NEW S, IsFiniteSet(S), NEW v, NEW u, NEW x \in S, ChangesAt(v, u, S, x)
  PROVE  SumFunctionOnSet(u, S) = SumFunctionOnSet(v, S) - v[x] + u[x]
<1> USE DEF ChangesAt
<1>1. IsFiniteSet(S \ {x})
  BY FS_RemoveElement
<1>2. SumFunctionOnSet(u, S \ {x}) = SumFunctionOnSet(v, S \ {x})
  BY <1>1, SumAgrees
<1>3. /\ SumFunctionOnSet(u, S) = u[x] + SumFunctionOnSet(u, S \ {x})
      /\ SumFunctionOnSet(v, S) = v[x] + SumFunctionOnSet(v, S \ {x})
  BY SumTakeOut
<1>4. SumFunctionOnSet(v, S \ {x}) \in Int
  BY <1>1, SumTakeOut
<1> QED
  BY <1>2, <1>3, <1>4

\* A sum is no less than another whose summands are no more.
LEMMA SumAtLeast ==
  ASSUME NEW S, IsFiniteSet(S), NEW v, NEW u,
         \A x \in S : v[x] \in Int /\ u[x] \in Int /\ v[x] <= u[x]
  PROVE  SumFunctionOnSet(v, S) <= SumFunctionOnSet(u, S)
<1> DEFINE C == {s \in SUBSET S : ~(SumFunctionOnSet(v, s) <= SumFunctionOnSet(u, s))}
<1>1. C = {}
  <2> SUFFICES ASSUME C # {} PROVE FALSE
    OBVIOUS
  <2>1. PICK s \in C : \A x \in s : s \ {x} \notin C
    BY SmallestCounterexample
  <2>2. CASE s = {}
    BY <2>1, <2>2, SumEmpty
  <2>3. CASE s # {}
    <3>1. PICK x \in s : TRUE
      BY <2>3
    <3>2. SumFunctionOnSet(v, s \ {x}) <= SumFunctionOnSet(u, s \ {x})
      BY <2>1
    <3>3. IsFiniteSet(s) /\ IsFiniteSet(s \ {x})
      BY FS_Subset
    <3>4. /\ SumFunctionOnSet(u, s) = u[x] + SumFunctionOnSet(u, s \ {x})
          /\ SumFunctionOnSet(u, s \ {x}) \in Int
      BY <3>3, SumTakeOut
    <3>5. /\ SumFunctionOnSet(v, s) = v[x] + SumFunctionOnSet(v, s \ {x})
          /\ SumFunctionOnSet(v, s \ {x}) \in Int
      BY <3>3, SumTakeOut
    <3> QED
      BY <2>1, <3>2, <3>4, <3>5
  <2> QED
    BY <2>2, <2>3
<1> QED
  BY <1>1

\* Nothing adds up to nothing, and no debts to no debt.
LEMMA SumNothing ==
  ASSUME NEW S, IsFiniteSet(S), NEW v, \A x \in S : v[x] = 0
  PROVE  SumFunctionOnSet(v, S) = 0
<1> DEFINE C == {s \in SUBSET S : SumFunctionOnSet(v, s) # 0}
<1>1. C = {}
  <2> SUFFICES ASSUME C # {} PROVE FALSE
    OBVIOUS
  <2>1. PICK s \in C : \A x \in s : s \ {x} \notin C
    BY SmallestCounterexample
  <2>2. CASE s = {}
    BY <2>1, <2>2, SumEmpty
  <2>3. CASE s # {}
    <3>1. PICK x \in s : TRUE
      BY <2>3
    <3>2. SumFunctionOnSet(v, s \ {x}) = 0
      BY <2>1
    <3>3. IsFiniteSet(s) /\ \A y \in s : v[y] \in Int
      BY FS_Subset
    <3>4. SumFunctionOnSet(v, s) = v[x] + SumFunctionOnSet(v, s \ {x})
      BY <3>3, SumTakeOut
    <3> QED
      BY <2>1, <3>2, <3>4
  <2> QED
    BY <2>2, <2>3
<1> QED
  BY <1>1

LEMMA SumNotNegative ==
  ASSUME NEW S, IsFiniteSet(S), NEW v, \A x \in S : v[x] \in Nat
  PROVE  SumFunctionOnSet(v, S) \in Nat
<1> DEFINE zero == [x \in S |-> 0]
<1>1. SumFunctionOnSet(zero, S) = 0
  BY SumNothing
<1>2. SumFunctionOnSet(zero, S) <= SumFunctionOnSet(v, S)
  BY SumAtLeast
<1>3. SumFunctionOnSet(v, S) \in Int
  BY SumTakeOut
<1> QED
  BY <1>1, <1>2, <1>3

\* One summand is new, or has grown, and none has shrunk: the sum has grown by as much.
LEMMA SumGrowsAt ==
  ASSUME NEW T, IsFiniteSet(T), NEW S \in SUBSET T, NEW j \in T, T \ {j} \subseteq S,
         NEW v, NEW u, \A x \in S : v[x] \in Int, \A x \in T : u[x] \in Int,
         \A x \in S \ {j} : v[x] <= u[x],
         NEW d \in Int, u[j] >= (IF j \in S THEN v[j] ELSE 0) + d
  PROVE  SumFunctionOnSet(u, T) >= SumFunctionOnSet(v, S) + d
<1> DEFINE R == T \ {j}
           before == IF j \in S THEN v[j] ELSE 0
<1>1. IsFiniteSet(S) /\ IsFiniteSet(R) /\ R = S \ {j} /\ before \in Int
  BY FS_Subset
<1>2. SumFunctionOnSet(u, T) = u[j] + SumFunctionOnSet(u, R)
  BY SumTakeOut
<1>3. SumFunctionOnSet(v, S) = before + SumFunctionOnSet(v, R)
  <2>1. CASE j \in S
    BY <1>1, <2>1, SumTakeOut
  <2>2. CASE j \notin S
    <3>1. S = R /\ before = 0
      BY <1>1, <2>2
    <3>2. SumFunctionOnSet(v, S) \in Int
      BY <1>1, SumTakeOut
    <3> HIDE DEF before, R
    <3> QED
      BY <3>1, <3>2
  <2> QED
    BY <2>1, <2>2
<1>4. SumFunctionOnSet(v, R) <= SumFunctionOnSet(u, R)
  BY <1>1, SumAtLeast
<1>5. SumFunctionOnSet(v, R) \in Int /\ SumFunctionOnSet(u, R) \in Int /\ u[j] \in Int
  BY <1>1, SumTakeOut
<1>6. u[j] >= before + d
  OBVIOUS
<1> HIDE DEF before, R
<1> QED
  BY <1>1, <1>2, <1>3, <1>4, <1>5, <1>6

\* Of two families of integers, the second has one member more.
OneMore(v, u, S, x) == (\A y \in S : v[y] \in Int /\ u[y] = v[y]) /\ u[x] \in Int

\* One summand is new, and the others are as they were: the sum has grown by as much.
LEMMA SumOneMore ==
  ASSUME NEW S, IsFiniteSet(S), NEW x, x \notin S, NEW v, NEW u, OneMore(v, u, S, x)
  PROVE  SumFunctionOnSet(u, S \cup {x}) = SumFunctionOnSet(v, S) + u[x]
<1> DEFINE T == S \cup {x}
<1>1. x \in T /\ T \ {x} = S /\ \A y \in T : u[y] \in Int
  BY DEF OneMore
<1>2. IsFiniteSet(T)
  BY FS_AddElement
<1>3. SumFunctionOnSet(u, S) = SumFunctionOnSet(v, S) /\ SumFunctionOnSet(v, S) \in Int
  BY SumAgrees, SumTakeOut DEF OneMore
<1>4. u[x] \in Int
  BY DEF OneMore
<1> HIDE DEF T
<1>5. SumFunctionOnSet(u, T) = u[x] + SumFunctionOnSet(u, T \ {x})
  BY <1>1, <1>2, SumTakeOut
<1>6. SumFunctionOnSet(u, T \ {x}) = SumFunctionOnSet(u, S)
  BY <1>1
<1>7. SumFunctionOnSet(u, T) = SumFunctionOnSet(v, S) + u[x]
  BY <1>3, <1>5, <1>4, <1>6
<1> QED
  BY <1>7 DEF T

\* A set whose members are all the same has one at most.
LEMMA AllTheSame ==
  ASSUME NEW S, \A x, y \in S : x = y
  PROVE  Cardinality(S) <= 1
<1>1. CASE S = {}
  BY <1>1, FS_EmptySet
<1>2. CASE S # {}
  <2>1. PICK x \in S : S = {x}
    BY <1>2
  <2> QED
    BY <2>1, FS_Singleton
<1> QED
  BY <1>1, <1>2

=============================================================================
