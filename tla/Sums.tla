-------------------------------- MODULE Sums --------------------------------
(***************************************************************************)
(* What the library's sum of a function over a finite set does when one    *)
(* value changes, one element leaves or the row shifts.  The library's     *)
(* induction theorems take a predicate as a parameter; the inductions here *)
(* take instead a least counterexample, which WFMin gives for a set.       *)
(***************************************************************************)
EXTENDS Integers, Sequences, FiniteSets, FiniteSetsExt, Functions, TLAPS,
        FiniteSetTheorems, WellFoundedInduction

\* Of finite sets, one has no other of them inside it.
LEMMA LeastSet ==
  ASSUME NEW S, IsFiniteSet(S), NEW T \in SUBSET SUBSET S, T # {}
  PROVE  \E U \in T : \A V \in T : V \subseteq U => V = U
<1>1. FiniteSubsetsOf(S) = SUBSET S
  BY FS_FiniteSubsetsOfFinite
<1>2. PICK U \in T : \A V \in T : ~(<<V, U>> \in StrictSubsetOrdering(S))
  BY <1>1, FS_StrictSubsetOrderingWellFounded, WFMin
<1>3. ASSUME NEW V \in T, V \subseteq U PROVE V = U
  BY <1>2, <1>3 DEF StrictSubsetOrdering
<1> QED
  BY <1>3

\* What the library's sum of `f` over subsets of `S` is defined by.
Pick(s) == CHOOSE y \in s : TRUE
IsSum(f, S, g) ==
  g = [s \in SUBSET S |-> IF s = {} THEN 0 ELSE f[Pick(s)] + g[s \ {Pick(s)}]]

LEMMA PickIn == ASSUME NEW s, s # {} PROVE Pick(s) \in s
BY DEF Pick

LEMMA SumIsIter ==
  ASSUME NEW f, NEW S
  PROVE  SumFunctionOnSet(f, S) = (CHOOSE g : IsSum(f, S, g))[S]
BY DEF SumFunctionOnSet, FoldFunctionOnSet, MapThenFoldSet, IsSum, Pick

LEMMA SumsAgree ==
  ASSUME NEW f, NEW S, IsFiniteSet(S), NEW R, NEW g, IsSum(f, S, g), NEW h, IsSum(f, R, h)
  PROVE  \A T \in SUBSET S : T \subseteq R => g[T] = h[T]
<1> DEFINE Bad == { T \in SUBSET S : T \subseteq R /\ g[T] # h[T] }
<1> SUFFICES ASSUME Bad # {} PROVE FALSE
  OBVIOUS
<1>0. Bad \in SUBSET SUBSET S /\ Bad # {}
  OBVIOUS
<1>1. PICK U \in Bad : \A V \in Bad : V \subseteq U => V = U
  <2> HIDE DEF Bad
  <2> QED
    BY <1>0, LeastSet
<1>2. U \in SUBSET S /\ U \in SUBSET R /\ g[U] # h[U]
  BY <1>1
<1>3. CASE U = {}
  BY <1>2, <1>3 DEF IsSum
<1>4. CASE U # {}
  <2> DEFINE x == Pick(U)
             W == U \ {x}
  <2>1. x \in U
    BY <1>4, PickIn
  <2>2. W \in SUBSET S /\ W \in SUBSET R /\ W \subseteq U /\ W # U
    BY <1>2, <2>1
  <2>3. g[W] = h[W]
    BY <1>1, <2>2
  <2>4. g[U] = f[x] + g[W] /\ h[U] = f[x] + h[W]
    BY <1>2, <1>4 DEF IsSum
  <2> QED
    BY <1>2, <2>3, <2>4
<1> QED
  BY <1>3, <1>4

LEMMA SumExists ==
  ASSUME NEW f, NEW S, IsFiniteSet(S)
  PROVE  \E g : IsSum(f, S, g)
<1> DEFINE Bad == { T \in SUBSET S : ~ \E g : IsSum(f, T, g) }
<1> SUFFICES ASSUME Bad # {} PROVE FALSE
  OBVIOUS
<1>0. Bad \in SUBSET SUBSET S /\ Bad # {}
  OBVIOUS
<1>1. PICK U \in Bad : \A V \in Bad : V \subseteq U => V = U
  <2> HIDE DEF Bad
  <2> QED
    BY <1>0, LeastSet
<1> DEFINE Sub(s) == CHOOSE g : IsSum(f, s, g)
           x == Pick(U)
           top == IF U = {} THEN 0 ELSE f[x] + Sub(U \ {x})[U \ {x}]
           h == [s \in SUBSET U |-> IF s = U THEN top ELSE Sub(s)[s]]
<1>2. \A s \in SUBSET U : s # U => IsSum(f, s, Sub(s)) /\ IsFiniteSet(s)
  <2>1. U \in SUBSET S
    BY <1>1
  <2> SUFFICES ASSUME NEW s \in SUBSET U, s # U PROVE IsSum(f, s, Sub(s)) /\ IsFiniteSet(s)
    OBVIOUS
  <2>2. s \in SUBSET S /\ s \notin Bad
    BY <1>1, <2>1
  <2>3. IsFiniteSet(s)
    BY <2>2, FS_Subset
  <2>4. \E g : IsSum(f, s, g)
    BY <2>2
  <2>5. IsSum(f, s, Sub(s))
    BY <2>4
  <2> QED
    BY <2>3, <2>5
<1> HIDE DEF Sub
<1>3. ASSUME NEW s \in SUBSET U
      PROVE  h[s] = IF s = {} THEN 0 ELSE f[Pick(s)] + h[s \ {Pick(s)}]
  <2>1. CASE s = U /\ U = {}
    BY <2>1
  <2>2. CASE s = U /\ U # {}
    <3>1. x \in U /\ U \ {x} \in SUBSET U /\ U \ {x} # U
      BY <2>2, PickIn
    <3>2. h[U \ {x}] = Sub(U \ {x})[U \ {x}]
      BY <3>1
    <3>3. h[U] = f[x] + Sub(U \ {x})[U \ {x}]
      BY <2>2
    <3> QED
      BY <2>2, <3>2, <3>3
  <2>3. CASE s # U /\ s = {}
    <3>1. h[s] = Sub(s)[s]
      BY <2>3
    <3>2. IsSum(f, s, Sub(s))
      BY <1>2, <2>3
    <3> HIDE DEF h
    <3> QED
      BY <3>1, <3>2, <2>3 DEF IsSum
  <2>4. CASE s # U /\ s # {}
    <3> DEFINE y == Pick(s)
    <3>1. y \in s /\ s \ {y} \in SUBSET s /\ s \ {y} \in SUBSET U /\ s \ {y} # U /\ s \in SUBSET s
      BY <2>4, PickIn
    <3>2. /\ h[s] = Sub(s)[s] /\ h[s \ {y}] = Sub(s \ {y})[s \ {y}]
          /\ IsSum(f, s, Sub(s)) /\ IsSum(f, s \ {y}, Sub(s \ {y})) /\ IsFiniteSet(s)
      BY <1>2, <2>4, <3>1
    <3> HIDE DEF h
    <3>3. Sub(s)[s] = f[y] + Sub(s)[s \ {y}]
      BY <2>4, <3>1, <3>2 DEF IsSum
    <3>4. Sub(s)[s \ {y}] = Sub(s \ {y})[s \ {y}]
      BY <3>1, <3>2, SumsAgree
    <3> QED
      BY <2>4, <3>2, <3>3, <3>4
  <2> QED
    BY <2>1, <2>2, <2>3, <2>4
<1>4. h = [s \in SUBSET U |-> h[s]]
  OBVIOUS
<1> HIDE DEF h
<1>5. IsSum(f, U, h)
  BY <1>3, <1>4 DEF IsSum
<1> QED
  BY <1>1, <1>5

\* The sum over no elements, and over one more.
LEMMA SumEmpty ==
  ASSUME NEW f
  PROVE  SumFunctionOnSet(f, {}) = 0
<1>1. \E g : IsSum(f, {}, g)
  BY SumExists, FS_EmptySet
<1>2. IsSum(f, {}, CHOOSE g : IsSum(f, {}, g))
  BY <1>1
<1> QED
  BY <1>2, SumIsIter DEF IsSum

LEMMA SumPicked ==
  ASSUME NEW f, NEW S, IsFiniteSet(S), S # {}
  PROVE  SumFunctionOnSet(f, S) = f[Pick(S)] + SumFunctionOnSet(f, S \ {Pick(S)})
<1> DEFINE g == CHOOSE g : IsSum(f, S, g)
           R == S \ {Pick(S)}
           h == CHOOSE h : IsSum(f, R, h)
<1>1. IsFiniteSet(R) /\ R \subseteq S /\ R \subseteq R
  BY FS_RemoveElement
<1>2. IsSum(f, S, g) /\ IsSum(f, R, h)
  BY <1>1, SumExists
<1>3. SumFunctionOnSet(f, S) = g[S] /\ SumFunctionOnSet(f, R) = h[R]
  BY SumIsIter
<1> HIDE DEF g, h
<1>4. g[R] = h[R]
  BY <1>1, <1>2, SumsAgree
<1>5. g[S] = f[Pick(S)] + g[R]
  BY <1>2 DEF IsSum
<1> QED
  BY <1>3, <1>4, <1>5

LEMMA SumInt ==
  ASSUME NEW f, NEW S, IsFiniteSet(S), \A x \in S : f[x] \in Int
  PROVE  \A T \in SUBSET S : SumFunctionOnSet(f, T) \in Int
<1> DEFINE Bad == { T \in SUBSET S : SumFunctionOnSet(f, T) \notin Int }
<1> SUFFICES ASSUME Bad # {} PROVE FALSE
  OBVIOUS
<1>0. Bad \in SUBSET SUBSET S /\ Bad # {}
  OBVIOUS
<1>1. PICK U \in Bad : \A V \in Bad : V \subseteq U => V = U
  <2> HIDE DEF Bad
  <2> QED
    BY <1>0, LeastSet
<1>2. U \in SUBSET S /\ IsFiniteSet(U) /\ SumFunctionOnSet(f, U) \notin Int
  BY <1>1, FS_Subset
<1>3. U # {}
  BY <1>2, SumEmpty
<1> DEFINE x == Pick(U)
           W == U \ {x}
<1>4. x \in U /\ W \subseteq U /\ W # U /\ W \in SUBSET S
  BY <1>2, <1>3, PickIn
<1>5. SumFunctionOnSet(f, W) \in Int
  BY <1>1, <1>4
<1>6. SumFunctionOnSet(f, U) = f[x] + SumFunctionOnSet(f, W)
  BY <1>2, <1>3, SumPicked
<1>7. f[x] \in Int
  BY <1>2, <1>4
<1> QED
  BY <1>2, <1>5, <1>6, <1>7

\* Any element may be taken out first.
LEMMA SumTaking ==
  ASSUME NEW f, NEW S, IsFiniteSet(S), \A x \in S : f[x] \in Int
  PROVE  \A T \in SUBSET S : \A x \in T :
           SumFunctionOnSet(f, T) = f[x] + SumFunctionOnSet(f, T \ {x})
<1> DEFINE Sum(T) == SumFunctionOnSet(f, T)
           Bad == { T \in SUBSET S : \E x \in T : Sum(T) # f[x] + Sum(T \ {x}) }
<1> SUFFICES ASSUME Bad # {} PROVE FALSE
  OBVIOUS
<1>0. Bad \in SUBSET SUBSET S /\ Bad # {}
  OBVIOUS
<1>1. PICK U \in Bad : \A V \in Bad : V \subseteq U => V = U
  <2> HIDE DEF Bad
  <2> QED
    BY <1>0, LeastSet
<1>2. U \in SUBSET S /\ IsFiniteSet(U)
  BY <1>1, FS_Subset
<1>3. PICK x \in U : Sum(U) # f[x] + Sum(U \ {x})
  BY <1>1
<1> DEFINE y == Pick(U)
<1>4. y \in U /\ Sum(U) = f[y] + Sum(U \ {y})
  BY <1>2, <1>3, PickIn, SumPicked
<1>5. x # y
  BY <1>3, <1>4
<1>6. \A V \in SUBSET U : V # U => \A z \in V : Sum(V) = f[z] + Sum(V \ {z})
  BY <1>1, <1>2
<1> HIDE DEF Sum, Bad
<1>7. Sum(U \ {y}) = f[x] + Sum((U \ {y}) \ {x})
  BY <1>3, <1>4, <1>5, <1>6
<1>8. Sum(U \ {x}) = f[y] + Sum((U \ {x}) \ {y})
  BY <1>3, <1>4, <1>5, <1>6
<1>9. (U \ {x}) \ {y} = (U \ {y}) \ {x}
  OBVIOUS
<1>10. f[x] \in Int /\ f[y] \in Int /\ Sum((U \ {y}) \ {x}) \in Int
  BY <1>2, <1>3, <1>4, SumInt DEF Sum
<1> DEFINE rest == Sum((U \ {y}) \ {x})
<1>11. /\ Sum(U) = f[y] + (f[x] + rest)
       /\ Sum(U \ {x}) = f[y] + rest
       /\ rest \in Int
  BY <1>4, <1>7, <1>8, <1>9, <1>10
<1> HIDE DEF rest, y
<1> QED
  BY <1>3, <1>10, <1>11

\* Only what is summed matters.
LEMMA SumSame ==
  ASSUME NEW f, NEW g, NEW S, IsFiniteSet(S), \A x \in S : f[x] = g[x]
  PROVE  \A T \in SUBSET S : SumFunctionOnSet(f, T) = SumFunctionOnSet(g, T)
<1> DEFINE Bad == { T \in SUBSET S : SumFunctionOnSet(f, T) # SumFunctionOnSet(g, T) }
<1> SUFFICES ASSUME Bad # {} PROVE FALSE
  OBVIOUS
<1>0. Bad \in SUBSET SUBSET S /\ Bad # {}
  OBVIOUS
<1>1. PICK U \in Bad : \A V \in Bad : V \subseteq U => V = U
  <2> HIDE DEF Bad
  <2> QED
    BY <1>0, LeastSet
<1>2. U \in SUBSET S /\ IsFiniteSet(U) /\ SumFunctionOnSet(f, U) # SumFunctionOnSet(g, U)
  BY <1>1, FS_Subset
<1>3. U # {}
  BY <1>2, SumEmpty
<1> DEFINE x == Pick(U)
           W == U \ {x}
<1>4. x \in U /\ W \subseteq U /\ W # U /\ W \in SUBSET S
  BY <1>2, <1>3, PickIn
<1>5. SumFunctionOnSet(f, W) = SumFunctionOnSet(g, W)
  BY <1>1, <1>4
<1>6. /\ SumFunctionOnSet(f, U) = f[x] + SumFunctionOnSet(f, W)
      /\ SumFunctionOnSet(g, U) = g[x] + SumFunctionOnSet(g, W)
  BY <1>2, <1>3, SumPicked
<1> QED
  BY <1>2, <1>4, <1>5, <1>6

\* Two sums whose functions differ at one place, by so much.
LEMMA SumChanges ==
  ASSUME NEW f, NEW g, NEW S, IsFiniteSet(S), NEW x \in S,
         \A y \in S : f[y] \in Int /\ g[y] \in Int,
         \A y \in S : y # x => g[y] = f[y]
  PROVE  /\ SumFunctionOnSet(f, S) \in Int /\ SumFunctionOnSet(g, S) \in Int
         /\ SumFunctionOnSet(g, S) - SumFunctionOnSet(f, S) = g[x] - f[x]
<1> DEFINE W == S \ {x}
<1>1. W \in SUBSET S /\ S \in SUBSET S /\ IsFiniteSet(W) /\ W \in SUBSET W
  BY FS_RemoveElement
<1>2. /\ SumFunctionOnSet(f, S) = f[x] + SumFunctionOnSet(f, W)
      /\ SumFunctionOnSet(g, S) = g[x] + SumFunctionOnSet(g, W)
  BY <1>1, SumTaking
<1>3. \A y \in W : f[y] = g[y]
  OBVIOUS
<1> HIDE DEF W
<1>4. SumFunctionOnSet(f, W) = SumFunctionOnSet(g, W)
  BY <1>1, <1>3, SumSame
<1>5. SumFunctionOnSet(f, W) \in Int /\ f[x] \in Int /\ g[x] \in Int
  BY <1>1, SumInt
<1> QED
  BY <1>2, <1>4, <1>5

\* A sum of naturals is one, and no less than the sum over a part.
LEMMA SumNat ==
  ASSUME NEW f, NEW S, IsFiniteSet(S), \A x \in S : f[x] \in Nat
  PROVE  \A T \in SUBSET S : SumFunctionOnSet(f, T) \in Nat
<1> DEFINE Bad == { T \in SUBSET S : SumFunctionOnSet(f, T) \notin Nat }
<1> SUFFICES ASSUME Bad # {} PROVE FALSE
  OBVIOUS
<1>0. Bad \in SUBSET SUBSET S /\ Bad # {}
  OBVIOUS
<1>1. PICK U \in Bad : \A V \in Bad : V \subseteq U => V = U
  <2> HIDE DEF Bad
  <2> QED
    BY <1>0, LeastSet
<1>2. U \in SUBSET S /\ IsFiniteSet(U) /\ SumFunctionOnSet(f, U) \notin Nat
  BY <1>1, FS_Subset
<1>3. U # {}
  BY <1>2, SumEmpty
<1> DEFINE x == Pick(U)
           W == U \ {x}
<1>4. x \in U /\ W \subseteq U /\ W # U /\ W \in SUBSET S
  BY <1>2, <1>3, PickIn
<1>5. SumFunctionOnSet(f, W) \in Nat
  BY <1>1, <1>4
<1>6. SumFunctionOnSet(f, U) = f[x] + SumFunctionOnSet(f, W)
  BY <1>2, <1>3, SumPicked
<1>7. f[x] \in Nat
  BY <1>2, <1>4
<1> QED
  BY <1>2, <1>5, <1>6, <1>7

LEMMA SumPart ==
  ASSUME NEW f, NEW S, IsFiniteSet(S), \A x \in S : f[x] \in Nat, NEW R \in SUBSET S
  PROVE  \A T \in SUBSET S : R \subseteq T => SumFunctionOnSet(f, R) <= SumFunctionOnSet(f, T)
<1> DEFINE Sum(T) == SumFunctionOnSet(f, T)
           Bad == { T \in SUBSET S : R \subseteq T /\ ~(Sum(R) <= Sum(T)) }
<1> SUFFICES ASSUME Bad # {} PROVE FALSE
  OBVIOUS
<1>0. Bad \in SUBSET SUBSET S /\ Bad # {}
  OBVIOUS
<1>1. PICK U \in Bad : \A V \in Bad : V \subseteq U => V = U
  <2> HIDE DEF Bad
  <2> QED
    BY <1>0, LeastSet
<1>2. U \in SUBSET S /\ R \subseteq U /\ ~(Sum(R) <= Sum(U)) /\ \A x \in S : f[x] \in Int
  BY <1>1
<1>3. Sum(R) \in Nat /\ \A T \in SUBSET S : Sum(T) \in Nat
  BY SumNat
<1> HIDE DEF Sum
<1>4. U # R
  BY <1>2, <1>3
<1>5. PICK x \in U : x \notin R
  BY <1>2, <1>4
<1>6. U \ {x} \in SUBSET S /\ R \subseteq U \ {x} /\ U \ {x} \subseteq U /\ U \ {x} # U
  BY <1>2, <1>5
<1>7. Sum(R) <= Sum(U \ {x})
  BY <1>1, <1>6
<1>8. Sum(U) = f[x] + Sum(U \ {x})
  BY <1>2, SumTaking DEF Sum
<1>9. f[x] \in Nat /\ Sum(U) \in Nat /\ Sum(U \ {x}) \in Nat
  BY <1>2, <1>3, <1>6
<1> QED
  BY <1>2, <1>3, <1>7, <1>8, <1>9

\* A sum of nothing but zeros.
LEMMA SumOfZeros ==
  ASSUME NEW f, NEW S, IsFiniteSet(S), \A x \in S : f[x] = 0
  PROVE  SumFunctionOnSet(f, S) = 0
<1> DEFINE Bad == { T \in SUBSET S : SumFunctionOnSet(f, T) # 0 }
<1> SUFFICES ASSUME Bad # {} PROVE FALSE
  BY S \in SUBSET S
<1>0. Bad \in SUBSET SUBSET S /\ Bad # {}
  OBVIOUS
<1>1. PICK U \in Bad : \A V \in Bad : V \subseteq U => V = U
  <2> HIDE DEF Bad
  <2> QED
    BY <1>0, LeastSet
<1>2. U \in SUBSET S /\ IsFiniteSet(U) /\ SumFunctionOnSet(f, U) # 0
  BY <1>1, FS_Subset
<1>3. U # {}
  BY <1>2, SumEmpty
<1> DEFINE x == Pick(U)
           W == U \ {x}
<1>4. x \in U /\ W \subseteq U /\ W # U /\ W \in SUBSET S
  BY <1>2, <1>3, PickIn
<1>5. SumFunctionOnSet(f, W) = 0
  BY <1>1, <1>4
<1>6. SumFunctionOnSet(f, U) = f[x] + SumFunctionOnSet(f, W)
  BY <1>2, <1>3, SumPicked
<1>7. f[x] = 0
  BY <1>2, <1>4
<1> QED
  BY <1>2, <1>5, <1>6, <1>7

\* A set of naturals has a least one.
LEMMA LeastNat ==
  ASSUME NEW S \in SUBSET Nat, S # {}
  PROVE  \E n \in S : \A m \in S : n <= m
<1>1. PICK top \in S : TRUE
  OBVIOUS
<1> DEFINE T == { 0..m : m \in { k \in S : k <= top } }
<1>2. T \in SUBSET SUBSET (0..top) /\ T # {}
  <2>1. \A m \in { k \in S : k <= top } : 0..m \subseteq 0..top
    BY <1>1
  <2>2. top \in { k \in S : k <= top }
    BY <1>1
  <2> QED
    BY <2>1, <2>2
<1>3. IsFiniteSet(0..top)
  <2>1. 0 \in Int /\ top \in Int
    BY <1>1
  <2> QED
    BY <2>1, FS_Interval
<1>4. PICK U \in T : \A V \in T : V \subseteq U => V = U
  <2> DEFINE R == 0..top
  <2>1. IsFiniteSet(R) /\ T \in SUBSET SUBSET R /\ T # {}
    BY <1>2, <1>3
  <2> HIDE DEF T, R
  <2> QED
    BY <2>1, LeastSet
<1>5. PICK n \in S : n <= top /\ U = 0..n
  BY <1>4
<1>6. ASSUME NEW m \in S, m < n
      PROVE  FALSE
  <2>1. 0..m \in T /\ 0..m \subseteq 0..n /\ n \notin 0..m /\ n \in 0..n
    BY <1>1, <1>5, <1>6
  <2> QED
    BY <1>4, <1>5, <2>1
<1> QED
  BY <1>6

\* The last of a row apart from the others, and the first.
LEMMA SumUpTo ==
  ASSUME NEW n \in Nat, NEW f, \A i \in 1..(n + 1) : f[i] \in Int
  PROVE  /\ SumFunctionOnSet(f, 1..n) \in Int
         /\ SumFunctionOnSet(f, 1..(n + 1)) = f[n + 1] + SumFunctionOnSet(f, 1..n)
<1> DEFINE S == 1..(n + 1)
<1>1. IsFiniteSet(S)
  <2>1. 1 \in Int /\ n + 1 \in Int
    OBVIOUS
  <2> QED
    BY <2>1, FS_Interval
<1>2. n + 1 \in S /\ S \ {n + 1} = 1..n /\ S \in SUBSET S /\ 1..n \in SUBSET S
  OBVIOUS
<1>3. \A i \in S : f[i] \in Int
  OBVIOUS
<1> HIDE DEF S
<1>4. SumFunctionOnSet(f, S) = f[n + 1] + SumFunctionOnSet(f, S \ {n + 1})
  BY <1>1, <1>2, <1>3, SumTaking
<1>5. SumFunctionOnSet(f, 1..n) \in Int
  BY <1>1, <1>2, <1>3, SumInt
<1> QED
  BY <1>2, <1>4, <1>5 DEF S

LEMMA SumShift ==
  ASSUME NEW n \in Nat, NEW f, NEW g, \A i \in 1..(n + 1) : f[i] \in Int,
         \A i \in 1..n : g[i] = f[i + 1]
  PROVE  SumFunctionOnSet(f, 1..(n + 1)) = f[1] + SumFunctionOnSet(g, 1..n)
<1> DEFINE Sf(k) == SumFunctionOnSet(f, 1..k)
           Sg(k) == SumFunctionOnSet(g, 1..k)
           Bad == { k \in 0..n : Sf(k + 1) # f[1] + Sg(k) }
<1> SUFFICES ASSUME Bad # {} PROVE FALSE
  OBVIOUS
<1>1. Bad \in SUBSET Nat
  OBVIOUS
<1>2. PICK k \in Bad : \A m \in Bad : k <= m
  <2> HIDE DEF Bad
  <2> QED
    BY <1>1, LeastNat
<1>3. k \in 0..n /\ Sf(k + 1) # f[1] + Sg(k)
  BY <1>2
<1>4. Sf(k + 1) = f[k + 1] + Sf(k)
  <2>1. k \in Nat /\ \A i \in 1..(k + 1) : f[i] \in Int
    BY <1>3
  <2> QED
    BY <2>1, SumUpTo
<1>5. CASE k = 0
  <2>1. 1..0 = {}
    OBVIOUS
  <2>2. Sf(0) = 0 /\ Sg(0) = 0
    BY <2>1, SumEmpty
  <2> HIDE DEF Sf, Sg
  <2> QED
    BY <1>3, <1>4, <1>5, <2>2
<1>6. CASE k # 0
  <2> DEFINE m == k - 1
  <2>1. m \in 0..n /\ m \in Nat /\ m \notin Bad /\ m + 1 = k
    BY <1>2, <1>3, <1>6
  <2>2. Sf(m + 1) = f[1] + Sg(m)
    BY <2>1
  <2>3. \A i \in 1..(m + 1) : g[i] \in Int /\ g[i] = f[i + 1]
    BY <1>3, <2>1
  <2>4. Sg(m + 1) = g[m + 1] + Sg(m) /\ Sg(m) \in Int
    BY <2>1, <2>3, SumUpTo
  <2>5. f[1] \in Int /\ f[k + 1] \in Int /\ g[k] = f[k + 1]
    BY <1>3, <1>6, <2>1, <2>3
  <2> HIDE DEF Sf, Sg, m
  <2> QED
    BY <1>3, <1>4, <2>1, <2>2, <2>4, <2>5
<1> QED
  BY <1>5, <1>6
=============================================================================
