---------------------------- MODULE DataLemmas ------------------------------
(***************************************************************************)
(* Induction over numbers and finite sets, stated for the set of what is   *)
(* already known instead of for an operator, and from it what sums over    *)
(* functions and finite sets compute: the sums of the community modules    *)
(* that the components' models use.  Bags, to which one element is added   *)
(* or from which one is taken.                                             *)
(***************************************************************************)
EXTENDS Integers, FiniteSets, Functions, Bags, FiniteSetTheorems, WellFoundedInduction,
        TLAPS

(***************************************************************************)
(* Induction.                                                              *)
(***************************************************************************)

\* A set of natural numbers has a least one.
LEMMA LeastNumber ==
    ASSUME NEW T, T \subseteq Nat, T # {}
    PROVE  \E n \in T : \A m \in T : n <= m
<1>1. PICK n \in T : \A m \in T : ~ (<<m, n>> \in OpToRel(<, Nat))
  BY NatLessThanWellFounded, WFMin
<1>2. \A m \in T : ~(m < n)
  BY <1>1 DEF OpToRel
<1> QED BY <1>2

LEMMA NumberInduction ==
    ASSUME NEW Good, 0 \in Good, \A n \in Nat : n \in Good => n + 1 \in Good
    PROVE  Nat \subseteq Good
<1> SUFFICES ASSUME Nat \ Good # {} PROVE FALSE
  OBVIOUS
<1>1. PICK n \in Nat \ Good : \A m \in Nat \ Good : n <= m
  BY LeastNumber
<1>2. n - 1 \in Nat /\ n - 1 \in Good
  BY <1>1
<1>3. (n - 1) + 1 = n
  BY <1>1
<1> QED BY <1>1, <1>2, <1>3

LEMMA SetInduction ==
    ASSUME NEW S, IsFiniteSet(S), NEW Good, {} \in Good,
           \A T \in SUBSET S, x \in S : T \in Good /\ x \notin T => T \cup {x} \in Good
    PROVE  S \in Good
<1> DEFINE Sizes == {n \in Nat : \E T \in SUBSET S : Cardinality(T) = n /\ T \notin Good}
<1> SUFFICES ASSUME S \notin Good PROVE FALSE
  OBVIOUS
<1>1. Sizes # {} /\ Sizes \subseteq Nat
  <2>1. Cardinality(S) \in Sizes
    BY FS_CardinalityType
  <2> QED BY <2>1
<1>2. PICK n \in Sizes : \A m \in Sizes : n <= m
  BY <1>1, LeastNumber
<1>3. PICK T \in SUBSET S : Cardinality(T) = n /\ T \notin Good
  BY <1>2
<1>4. PICK x \in T : TRUE
  BY <1>3
<1>5. IsFiniteSet(T) /\ n \in Nat
  BY <1>2, FS_Subset
<1>6. Cardinality(T \ {x}) = n - 1 /\ n - 1 \in Nat
  <2>1. IsFiniteSet(T \ {x}) /\ Cardinality(T \ {x}) = Cardinality(T) - 1
    BY <1>4, <1>5, FS_RemoveElement
  <2>2. Cardinality(T \ {x}) \in Nat
    BY <2>1, FS_CardinalityType
  <2> QED BY <1>3, <2>1, <2>2
<1>7. T \ {x} \in Good
  <2>1. n - 1 \notin Sizes
    BY <1>2, <1>5
  <2> QED BY <1>6, <2>1
<1>8. /\ (T \ {x}) \cup {x} = T /\ T \ {x} \in SUBSET S
      /\ x \in S /\ x \notin T \ {x}
  BY <1>3, <1>4
<1> QED BY <1>3, <1>4, <1>7, <1>8

(***************************************************************************)
(* Sums.  Folding takes one element after the other from a set: that there *)
(* is a function that does so for all subsets, and one only, is what the   *)
(* rest is proved from.                                                    *)
(***************************************************************************)
Adds(g, f, S) ==
    g = [T \in SUBSET S |-> IF T = {} THEN 0
                            ELSE LET x == CHOOSE x \in T : TRUE IN f[x] + g[T \ {x}]]

\* The sum of f over S.
SumOver(f, S) == SumFunctionOnSet(f, S)

LEMMA AddsExists ==
    ASSUME NEW S, IsFiniteSet(S), NEW f
    PROVE  \E g : Adds(g, f, S)
<1> DEFINE UpTo(n) == {T \in SUBSET S : Cardinality(T) <= n}
           Next(g, T) == IF T = {} THEN 0
                         ELSE LET x == CHOOSE x \in T : TRUE IN f[x] + g[T \ {x}]
           Part(g, n) == g = [T \in UpTo(n) |-> Next(g, T)]
           Good == {n \in Nat : \E g : Part(g, n)}
<1>1. \A T \in SUBSET S : IsFiniteSet(T) /\ Cardinality(T) \in Nat
  BY FS_Subset, FS_CardinalityType
<1>2. 0 \in Good
  <2> DEFINE g == [T \in UpTo(0) |-> 0]
  <2>1. \A T \in UpTo(0) : T = {}
    BY <1>1, FS_EmptySet
  <2>2. Part(g, 0)
    BY <2>1
  <2> HIDE DEF g, Part
  <2> QED BY <2>2
<1>3. ASSUME NEW n \in Nat, n \in Good PROVE n + 1 \in Good
  <2>1. PICK g : Part(g, n)
    BY <1>3
  <2> DEFINE h == [T \in UpTo(n + 1) |-> Next(g, T)]
  <2>2. ASSUME NEW T \in UpTo(n + 1), T # {}, NEW x \in T PROVE h[T \ {x}] = g[T \ {x}]
    <3>1. T \ {x} \in UpTo(n) /\ T \ {x} \in UpTo(n + 1)
      BY <1>1, <2>2, FS_RemoveElement
    <3>2. g[T \ {x}] = Next(g, T \ {x})
      BY <2>1, <3>1
    <3> QED BY <3>1, <3>2
  <2>3. ASSUME NEW T \in UpTo(n + 1) PROVE Next(g, T) = Next(h, T)
    <3>1. CASE T = {}
      BY <3>1
    <3>2. CASE T # {}
      <4> DEFINE x == CHOOSE x \in T : TRUE
      <4>1. x \in T
        BY <3>2
      <4>2. h[T \ {x}] = g[T \ {x}]
        BY <2>2, <3>2, <4>1
      <4> HIDE DEF h
      <4> QED BY <3>2, <4>2
    <3> QED BY <3>1, <3>2
  <2>4. h = [T \in UpTo(n + 1) |-> Next(h, T)]
    <3>1. \A T \in UpTo(n + 1) : Next(g, T) = Next(h, T)
      BY <2>3
    <3> HIDE DEF Next, UpTo
    <3> QED BY <3>1
  <2>5. Part(h, n + 1)
    BY <2>4
  <2> HIDE DEF h, Part
  <2> QED BY <2>5
<1>4. Cardinality(S) \in Good
  <2>1. Nat \subseteq Good
    <3> HIDE DEF Good
    <3> QED BY <1>2, <1>3, NumberInduction
  <2> QED BY <2>1, FS_CardinalityType
<1>5. UpTo(Cardinality(S)) = SUBSET S
  BY FS_Subset
<1>6. PICK g : Part(g, Cardinality(S))
  BY <1>4
<1>7. g = [T \in SUBSET S |-> Next(g, T)]
  BY <1>5, <1>6
<1> QED BY <1>7 DEF Adds

\* The fold of a function is the sum over its domain.
LEMMA FoldIsSum ==
    ASSUME NEW S, NEW f, DOMAIN f = S
    PROVE  FoldFunction(+, 0, f) = SumOver(f, S)
BY DEF FoldFunction, SumOver, SumFunctionOnSet

LEMMA SumIsAdded ==
    ASSUME NEW S, IsFiniteSet(S), NEW f
    PROVE  \E g : Adds(g, f, S) /\ SumOver(f, S) = g[S]
<1>1. PICK g : Adds(g, f, S)
  BY AddsExists
<1> QED
  BY <1>1, Zenon DEF SumOver, SumFunctionOnSet, FoldFunctionOnSet, MapThenFoldSet, Adds

\* There is one way only to add up, and it does not matter which element is
\* taken first.
LEMMA AddsAnyFirst ==
    ASSUME NEW S, IsFiniteSet(S), NEW f, \A x \in S : f[x] \in Int, NEW g, Adds(g, f, S)
    PROVE  \A T \in SUBSET S :
               /\ g[T] \in Int
               /\ T = {} => g[T] = 0
               /\ \A x \in T : g[T] = f[x] + g[T \ {x}]
<1> DEFINE Fine(T) == /\ g[T] \in Int /\ (T = {} => g[T] = 0)
                      /\ \A x \in T : g[T] = f[x] + g[T \ {x}]
           Sizes == {n \in Nat : \E T \in SUBSET S : Cardinality(T) = n /\ ~Fine(T)}
<1> SUFFICES ASSUME NEW U \in SUBSET S, ~Fine(U) PROVE FALSE
  OBVIOUS
<1>0. \A T \in SUBSET S : IsFiniteSet(T) /\ Cardinality(T) \in Nat
  BY FS_Subset, FS_CardinalityType
<1>1. Sizes # {} /\ Sizes \subseteq Nat
  <2>1. Cardinality(U) \in Sizes
    BY <1>0
  <2> QED BY <2>1
<1>2. PICK n \in Sizes : \A m \in Sizes : n <= m
  BY <1>1, LeastNumber
<1>3. PICK T \in SUBSET S : Cardinality(T) = n /\ ~Fine(T)
  BY <1>2
<1>4. ASSUME NEW V \in SUBSET T, V # T PROVE Fine(V)
  <2>1. Cardinality(V) <= n /\ Cardinality(V) # n /\ Cardinality(V) \in Nat
    BY <1>0, <1>3, <1>4, FS_Subset
  <2>2. Cardinality(V) \notin Sizes
    BY <1>2, <2>1
  <2>3. V \in SUBSET S
    BY <1>3
  <2> QED BY <2>1, <2>2, <2>3
<1>5. g[T] = IF T = {} THEN 0 ELSE LET x == CHOOSE x \in T : TRUE IN f[x] + g[T \ {x}]
  BY <1>3 DEF Adds
<1>6. PICK c \in T : g[T] = f[c] + g[T \ {c}]
  <2>1. T # {}
    BY <1>3, <1>5
  <2> DEFINE c == CHOOSE x \in T : TRUE
  <2>2. c \in T
    BY <2>1
  <2> QED BY <1>5, <2>1, <2>2
<1>7. ASSUME NEW x \in T PROVE g[T] = f[x] + g[T \ {x}]
  <2>1. CASE x = c
    BY <1>6, <2>1
  <2>2. CASE x # c
    <3> DEFINE V == (T \ {c}) \ {x}
    <3>1. Fine(T \ {c}) /\ Fine(T \ {x}) /\ Fine(V)
      BY <1>4, <1>6
    <3>2. V = (T \ {x}) \ {c} /\ x \in T \ {c} /\ c \in T \ {x}
      BY <1>6, <1>7, <2>2
    <3>3. g[T \ {c}] = f[x] + g[V] /\ g[T \ {x}] = f[c] + g[V] /\ g[V] \in Int
      BY <3>1, <3>2
    <3>4. f[x] \in Int /\ f[c] \in Int
      BY <1>3
    <3> HIDE DEF V, Fine
    <3> QED BY <1>6, <3>3, <3>4
  <2> QED BY <2>1, <2>2
<1>8. g[T] \in Int
  BY <1>3, <1>4, <1>6
<1> QED BY <1>3, <1>6, <1>7, <1>8

LEMMA AddsAgree ==
    ASSUME NEW U, IsFiniteSet(U), NEW S, IsFiniteSet(S), U \subseteq S, NEW R, IsFiniteSet(R),
           U \subseteq R, NEW f, NEW h, NEW g, NEW k, Adds(g, f, S), Adds(k, h, R),
           \A x \in S : f[x] \in Int, \A x \in R : h[x] \in Int, \A x \in U : f[x] = h[x]
    PROVE  g[U] = k[U]
<1> DEFINE Good == {T \in SUBSET U : g[T] = k[T]}
<1>1. \A T \in SUBSET S : /\ T = {} => g[T] = 0
                          /\ \A x \in T : g[T] = f[x] + g[T \ {x}]
  BY AddsAnyFirst
<1>2. \A T \in SUBSET R : /\ T = {} => k[T] = 0
                          /\ \A x \in T : k[T] = h[x] + k[T \ {x}]
  BY AddsAnyFirst
<1>3. {} \in Good
  BY <1>1, <1>2
<1>4. ASSUME NEW T \in SUBSET U, NEW x \in U, T \in Good, x \notin T PROVE T \cup {x} \in Good
  <2>1. T \cup {x} \in SUBSET U /\ x \in T \cup {x} /\ (T \cup {x}) \ {x} = T
    BY <1>4
  <2>2. g[T \cup {x}] = f[x] + g[T]
    BY <1>1, <2>1
  <2>3. k[T \cup {x}] = h[x] + k[T]
    BY <1>2, <2>1
  <2> QED BY <1>4, <2>1, <2>2, <2>3
<1>5. U \in Good
  <2> HIDE DEF Good
  <2> QED BY <1>3, <1>4, SetInduction
<1> QED BY <1>5

(***************************************************************************)
(* What the components' proofs cite.                                       *)
(***************************************************************************)
LEMMA SumAgree ==
    ASSUME NEW S, IsFiniteSet(S), NEW f, NEW h, \A x \in S : f[x] \in Int /\ h[x] = f[x]
    PROVE  SumOver(h, S) = SumOver(f, S)
<1>1. PICK g : Adds(g, f, S) /\ SumOver(f, S) = g[S]
  BY SumIsAdded
<1>2. PICK k : Adds(k, h, S) /\ SumOver(h, S) = k[S]
  BY SumIsAdded
<1>3. g[S] = k[S]
  BY <1>1, <1>2, AddsAgree
<1> QED BY <1>1, <1>2, <1>3

LEMMA SumTakesOne ==
    ASSUME NEW S, IsFiniteSet(S), NEW f, \A x \in S : f[x] \in Int
    PROVE  /\ SumOver(f, S) \in Int
           /\ S = {} => SumOver(f, S) = 0
           /\ \A x \in S : SumOver(f, S) = f[x] + SumOver(f, S \ {x})
<1>1. PICK g : Adds(g, f, S) /\ SumOver(f, S) = g[S]
  BY SumIsAdded
<1>2. /\ g[S] \in Int /\ (S = {} => g[S] = 0)
      /\ \A x \in S : g[S] = f[x] + g[S \ {x}]
  <2>1. \A T \in SUBSET S : /\ g[T] \in Int /\ (T = {} => g[T] = 0)
                            /\ \A x \in T : g[T] = f[x] + g[T \ {x}]
    BY <1>1, AddsAnyFirst
  <2>2. S \in SUBSET S
    OBVIOUS
  <2> QED BY <2>1, <2>2
<1>3. ASSUME NEW x \in S PROVE SumOver(f, S \ {x}) = g[S \ {x}]
  <2>1. IsFiniteSet(S \ {x})
    BY FS_RemoveElement
  <2>2. PICK k : Adds(k, f, S \ {x}) /\ SumOver(f, S \ {x}) = k[S \ {x}]
    BY <2>1, SumIsAdded
  <2>3. g[S \ {x}] = k[S \ {x}]
    BY <1>1, <2>1, <2>2, AddsAgree
  <2> QED BY <2>2, <2>3
<1> QED BY <1>1, <1>2, <1>3

LEMMA SumWithOne ==
    ASSUME NEW S, IsFiniteSet(S), NEW x, x \notin S, NEW f, \A y \in S \cup {x} : f[y] \in Int
    PROVE  SumOver(f, S \cup {x}) = f[x] + SumOver(f, S)
<1>1. IsFiniteSet(S \cup {x}) /\ (S \cup {x}) \ {x} = S
  BY FS_AddElement
<1> QED BY <1>1, SumTakesOne

\* One summand changes.
LEMMA SumChanges ==
    ASSUME NEW S, IsFiniteSet(S), NEW x \in S, NEW f, NEW h,
           \A y \in S : f[y] \in Int /\ h[y] \in Int, \A y \in S \ {x} : h[y] = f[y]
    PROVE  SumOver(h, S) = SumOver(f, S) - f[x] + h[x]
<1>1. IsFiniteSet(S \ {x})
  BY FS_RemoveElement
<1>2. SumOver(h, S \ {x}) = SumOver(f, S \ {x})
  BY <1>1, SumAgree
<1>3. SumOver(f, S \ {x}) \in Int
  BY <1>1, SumTakesOne
<1>4. SumOver(f, S) = f[x] + SumOver(f, S \ {x})
  BY SumTakesOne
<1>5. SumOver(h, S) = h[x] + SumOver(h, S \ {x})
  BY SumTakesOne
<1> QED BY <1>2, <1>3, <1>4, <1>5

LEMMA SumOfZeros ==
    ASSUME NEW S, IsFiniteSet(S), NEW f, \A x \in S : f[x] = 0
    PROVE  SumOver(f, S) = 0
<1> DEFINE Good == {T \in SUBSET S : SumOver(f, T) = 0}
<1>1. {} \in Good
  BY FS_EmptySet, SumTakesOne
<1>2. ASSUME NEW T \in SUBSET S, NEW x \in S, T \in Good, x \notin T PROVE T \cup {x} \in Good
  <2>1. IsFiniteSet(T)
    BY FS_Subset
  <2>2. \A y \in T \cup {x} : f[y] \in Int
    OBVIOUS
  <2>3. SumOver(f, T \cup {x}) = f[x] + SumOver(f, T)
    BY <1>2, <2>1, <2>2, SumWithOne
  <2> QED BY <1>2, <2>3
<1>3. S \in Good
  <2> HIDE DEF Good
  <2> QED BY <1>1, <1>2, SetInduction
<1> QED BY <1>3

LEMMA SumOfTwo ==
    ASSUME NEW S, IsFiniteSet(S), NEW f, NEW h, NEW k,
           \A x \in S : f[x] \in Int /\ h[x] \in Int /\ k[x] = f[x] + h[x]
    PROVE  SumOver(k, S) = SumOver(f, S) + SumOver(h, S)
<1> DEFINE Good == {T \in SUBSET S : SumOver(k, T) = SumOver(f, T) + SumOver(h, T)}
<1>1. {} \in Good
  <2>1. SumOver(k, {}) = 0 /\ SumOver(f, {}) = 0 /\ SumOver(h, {}) = 0
    BY FS_EmptySet, SumTakesOne
  <2> QED BY <2>1
<1>2. ASSUME NEW T \in SUBSET S, NEW x \in S, T \in Good, x \notin T PROVE T \cup {x} \in Good
  <2>1. IsFiniteSet(T)
    BY FS_Subset
  <2>2. \A y \in T \cup {x} : f[y] \in Int /\ h[y] \in Int /\ k[y] \in Int
    OBVIOUS
  <2>3. /\ SumOver(f, T \cup {x}) = f[x] + SumOver(f, T)
        /\ SumOver(h, T \cup {x}) = h[x] + SumOver(h, T)
        /\ SumOver(k, T \cup {x}) = k[x] + SumOver(k, T)
    BY <1>2, <2>1, <2>2, SumWithOne
  <2>4. SumOver(f, T) \in Int /\ SumOver(h, T) \in Int
    BY <2>1, <2>2, SumTakesOne
  <2> QED BY <1>2, <2>2, <2>3, <2>4
<1>3. S \in Good
  <2> HIDE DEF Good
  <2> QED BY <1>1, <1>2, SetInduction
<1> QED BY <1>3

LEMMA SumOfUnion ==
    ASSUME NEW S, IsFiniteSet(S), NEW R, IsFiniteSet(R), S \cap R = {},
           NEW f, \A x \in S \cup R : f[x] \in Int
    PROVE  SumOver(f, S \cup R) = SumOver(f, S) + SumOver(f, R)
<1> DEFINE Good == {T \in SUBSET S : SumOver(f, T \cup R) = SumOver(f, T) + SumOver(f, R)}
<1>0. SumOver(f, R) \in Int
  BY SumTakesOne
<1>1. {} \in Good
  <2>1. SumOver(f, {}) = 0 /\ {} \cup R = R
    BY FS_EmptySet, SumTakesOne
  <2> QED BY <1>0, <2>1
<1>2. ASSUME NEW T \in SUBSET S, NEW x \in S, T \in Good, x \notin T PROVE T \cup {x} \in Good
  <2>1. IsFiniteSet(T) /\ IsFiniteSet(T \cup R)
    BY FS_Subset, FS_Union
  <2>2. SumOver(f, T \cup {x}) = f[x] + SumOver(f, T)
    BY <1>2, <2>1, SumWithOne
  <2>3. SumOver(f, (T \cup R) \cup {x}) = f[x] + SumOver(f, T \cup R)
    BY <1>2, <2>1, SumWithOne
  <2>4. (T \cup R) \cup {x} = (T \cup {x}) \cup R
    OBVIOUS
  <2>5. SumOver(f, T) \in Int /\ f[x] \in Int
    BY <2>1, SumTakesOne
  <2>6. SumOver(f, T \cup R) = SumOver(f, T) + SumOver(f, R)
    BY <1>2
  <2>7. SumOver(f, (T \cup {x}) \cup R) = SumOver(f, T \cup {x}) + SumOver(f, R)
    <3>1. SumOver(f, (T \cup {x}) \cup R) = f[x] + SumOver(f, T \cup R)
      BY <2>3, <2>4, Zenon
    <3> QED BY <1>0, <2>2, <2>5, <2>6, <3>1
  <2> QED BY <2>7
<1>3. S \in Good
  <2> HIDE DEF Good
  <2> QED BY <1>1, <1>2, SetInduction
<1> QED BY <1>3

\* Where a function is zero it adds nothing.
LEMMA SumOnPart ==
    ASSUME NEW S, IsFiniteSet(S), NEW T, T \subseteq S, NEW f, \A x \in S : f[x] \in Int,
           \A x \in S \ T : f[x] = 0
    PROVE  SumOver(f, S) = SumOver(f, T)
<1>1. IsFiniteSet(T) /\ IsFiniteSet(S \ T)
  BY FS_Subset
<1>2. SumOver(f, T \cup (S \ T)) = SumOver(f, T) + SumOver(f, S \ T)
  BY <1>1, SumOfUnion
<1>3. T \cup (S \ T) = S
  OBVIOUS
<1>4. SumOver(f, S \ T) = 0
  BY <1>1, SumOfZeros
<1>5. SumOver(f, T) \in Int
  BY <1>1, SumTakesOne
<1>6. SumOver(f, S) = SumOver(f, T) + SumOver(f, S \ T)
  BY <1>2, <1>3, Zenon
<1> QED BY <1>4, <1>5, <1>6

\* The numbers of a table add up to the same by rows and by columns.
LEMMA SumSwap ==
    ASSUME NEW S, IsFiniteSet(S), NEW R, IsFiniteSet(R), NEW f, \A x \in S, y \in R : f[x][y] \in Int
    PROVE  SumOver([x \in S |-> SumOver(f[x], R)], S)
             = SumOver([y \in R |-> SumOver([x \in S |-> f[x][y]], S)], R)
<1> DEFINE rows == [x \in S |-> SumOver(f[x], R)]
           column(y) == [x \in S |-> f[x][y]]
           columns(T) == [y \in R |-> SumOver(column(y), T)]
           Good == {T \in SUBSET S : SumOver(rows, T) = SumOver(columns(T), R)}
<1>1. {} \in Good
  <2>1. SumOver(rows, {}) = 0 /\ \A y \in R : SumOver(column(y), {}) = 0
    BY FS_EmptySet, SumOfZeros
  <2>2. SumOver(columns({}), R) = 0
    BY <2>1, SumOfZeros
  <2> QED BY <2>1, <2>2
<1>2. ASSUME NEW T \in SUBSET S, NEW x \in S, T \in Good, x \notin T PROVE T \cup {x} \in Good
  <2>1. IsFiniteSet(T)
    BY FS_Subset
  <2>2. \A z \in S : rows[z] \in Int
    BY SumTakesOne
  <2>3. SumOver(rows, T \cup {x}) = rows[x] + SumOver(rows, T)
    BY <1>2, <2>1, <2>2, SumWithOne
  <2>4. ASSUME NEW y \in R
        PROVE  /\ SumOver(column(y), T \cup {x}) = f[x][y] + SumOver(column(y), T)
               /\ SumOver(column(y), T) \in Int
    <3>1. \A z \in S : column(y)[z] \in Int
      OBVIOUS
    <3>2. column(y)[x] = f[x][y]
      OBVIOUS
    <3> HIDE DEF column
    <3>3. SumOver(column(y), T \cup {x}) = column(y)[x] + SumOver(column(y), T)
      BY <1>2, <2>1, <3>1, SumWithOne
    <3>4. SumOver(column(y), T) \in Int
      BY <2>1, <3>1, SumTakesOne
    <3> QED BY <3>2, <3>3, <3>4
  <2>5. \A y \in R : f[x][y] \in Int /\ columns(T)[y] \in Int /\ columns(T \cup {x})[y] = f[x][y] + columns(T)[y]
    <3> HIDE DEF column
    <3> QED BY <2>4
  <2>6. SumOver(columns(T \cup {x}), R) = SumOver(f[x], R) + SumOver(columns(T), R)
    <3> HIDE DEF columns
    <3> QED BY <2>5, SumOfTwo
  <2>7. rows[x] = SumOver(f[x], R) /\ SumOver(rows, T) = SumOver(columns(T), R)
    BY <1>2
  <2>8. SumOver(rows, T \cup {x}) = SumOver(columns(T \cup {x}), R)
    <3> HIDE DEF rows, columns
    <3> QED BY <2>3, <2>6, <2>7
  <2>9. T \cup {x} \in SUBSET S
    OBVIOUS
  <2> HIDE DEF rows, columns
  <2> QED BY <2>8, <2>9
<1>3. S \in Good
  <2> HIDE DEF Good
  <2> QED BY <1>1, <1>2, SetInduction
<1> QED BY <1>3

LEMMA FiniteValues ==
    ASSUME NEW S, IsFiniteSet(S), NEW f
    PROVE  IsFiniteSet({f[x] : x \in S})
<1> DEFINE T == {f[x] : x \in S}
           g == [x \in S |-> f[x]]
<1>1. g \in Surjection(S, T)
  BY DEF Surjection
<1> HIDE DEF g, T
<1>2. IsFiniteSet(T)
  BY <1>1, FS_Surjection
<1> QED BY <1>2 DEF T

\* The same numbers under other names.
LEMMA SumRenamed ==
    ASSUME NEW S, IsFiniteSet(S), NEW g, \A x, y \in S : g[x] = g[y] => x = y,
           NEW f, NEW h, \A x \in S : h[x] \in Int /\ f[g[x]] = h[x]
    PROVE  IsFiniteSet({g[x] : x \in S}) /\ SumOver(f, {g[x] : x \in S}) = SumOver(h, S)
<1> DEFINE Names(T) == {g[x] : x \in T}
           Good == {T \in SUBSET S : IsFiniteSet(Names(T)) /\ SumOver(f, Names(T)) = SumOver(h, T)}
<1>1. {} \in Good
  <2>1. Names({}) = {}
    OBVIOUS
  <2>2. SumOver(f, {}) = 0 /\ SumOver(h, {}) = 0 /\ IsFiniteSet({})
    BY FS_EmptySet, SumOfZeros
  <2>3. IsFiniteSet(Names({})) /\ SumOver(f, Names({})) = SumOver(h, {})
    <3> HIDE DEF Names
    <3> QED BY <2>1, <2>2, Zenon
  <2> HIDE DEF Names
  <2> QED BY <2>3
<1>2. ASSUME NEW T \in SUBSET S, NEW x \in S, T \in Good, x \notin T PROVE T \cup {x} \in Good
  <2>1. IsFiniteSet(T) /\ IsFiniteSet(Names(T)) /\ SumOver(f, Names(T)) = SumOver(h, T)
    BY <1>2, FS_Subset
  <2>2. Names(T \cup {x}) = Names(T) \cup {g[x]} /\ g[x] \notin Names(T)
    BY <1>2
  <2>3. \A y \in Names(T) \cup {g[x]} : f[y] \in Int
    OBVIOUS
  <2> HIDE DEF Names
  <2>4. /\ SumOver(f, Names(T) \cup {g[x]}) = f[g[x]] + SumOver(f, Names(T))
        /\ IsFiniteSet(Names(T) \cup {g[x]})
    BY <2>1, <2>2, <2>3, SumWithOne, FS_AddElement
  <2>5. SumOver(h, T \cup {x}) = h[x] + SumOver(h, T)
    BY <1>2, <2>1, SumWithOne
  <2>6. SumOver(f, Names(T) \cup {g[x]}) = SumOver(h, T \cup {x})
    BY <2>1, <2>4, <2>5
  <2>7. IsFiniteSet(Names(T \cup {x})) /\ SumOver(f, Names(T \cup {x})) = SumOver(h, T \cup {x})
    BY <2>2, <2>4, <2>6, Zenon
  <2> QED BY <2>7
<1>3. S \in Good
  <2> HIDE DEF Good
  <2> QED BY <1>1, <1>2, SetInduction
<1> QED BY <1>3

\* Steps of a path add up to the way from its beginning to its end.
LEMMA SumOfSteps ==
    ASSUME NEW a \in Nat, NEW n \in Nat, NEW h, NEW f, \A i \in a .. n + 1 : h[i] \in Int,
           \A i \in a .. n : f[i] = h[i + 1] - h[i], a <= n
    PROVE  SumOver(f, a .. n) = h[n + 1] - h[a]
<1> DEFINE Good == {k \in Nat : a + k <= n => SumOver(f, a .. a + k) = h[a + k + 1] - h[a]}
<1>0. \A i \in a .. n : h[i] \in Int /\ h[i + 1] \in Int /\ f[i] \in Int
  OBVIOUS
<1>1. 0 \in Good
  <2>1. a .. a + 0 = {} \cup {a} /\ a \notin {} /\ a + 0 + 1 = a + 1
    OBVIOUS
  <2>2. SumOver(f, {} \cup {a}) = f[a] + SumOver(f, {}) /\ SumOver(f, {}) = 0
    <3>1. a \in a .. n
      OBVIOUS
    <3>2. IsFiniteSet({}) /\ \A y \in {} \cup {a} : f[y] \in Int
      BY <1>0, <3>1, FS_EmptySet
    <3>3. SumOver(f, {}) = 0
      BY <3>2, SumOfZeros
    <3>4. SumOver(f, {} \cup {a}) = f[a] + SumOver(f, {})
      BY <3>2, SumWithOne
    <3> QED BY <3>3, <3>4
  <2>3. SumOver(f, {} \cup {a}) = h[a + 1] - h[a]
    BY <1>0, <2>2
  <2>4. SumOver(f, a .. a + 0) = h[a + 0 + 1] - h[a]
    BY <2>1, <2>3, Zenon
  <2> QED BY <2>4
<1>2. ASSUME NEW k \in Nat, k \in Good PROVE k + 1 \in Good
  <2> SUFFICES ASSUME a + (k + 1) <= n
               PROVE  SumOver(f, a .. a + (k + 1)) = h[a + (k + 1) + 1] - h[a]
    OBVIOUS
  <2>1. PICK m \in Nat : m = a + (k + 1)
    OBVIOUS
  <2>2. m \in a .. n /\ a + k = m - 1 /\ a + k + 1 = m
    BY <2>1
  <2>3. SumOver(f, a .. m - 1) = h[m] - h[a]
    <3>1. SumOver(f, a .. a + k) = h[a + k + 1] - h[a]
      BY <1>2
    <3> QED BY <2>2, <3>1, Zenon
  <2>4. a .. m = (a .. m - 1) \cup {m} /\ m \notin a .. m - 1 /\ IsFiniteSet(a .. m - 1)
    <3>1. IsFiniteSet(a .. m - 1)
      BY FS_Interval
    <3>2. a .. m = (a .. m - 1) \cup {m} /\ m \notin a .. m - 1
      BY <2>2
    <3> QED BY <3>1, <3>2
  <2>5. \A i \in (a .. m - 1) \cup {m} : f[i] \in Int
    BY <1>0, <2>2
  <2>6. SumOver(f, (a .. m - 1) \cup {m}) = f[m] + SumOver(f, a .. m - 1)
    BY <2>4, <2>5, SumWithOne
  <2>7. SumOver(f, (a .. m - 1) \cup {m}) = h[m + 1] - h[a]
    <3>1. f[m] = h[m + 1] - h[m] /\ h[m] \in Int /\ h[m + 1] \in Int /\ h[a] \in Int
      BY <1>0, <2>2
    <3> QED BY <2>3, <2>6, <3>1
  <2>8. SumOver(f, a .. m) = h[m + 1] - h[a]
    BY <2>4, <2>7, Zenon
  <2> QED BY <2>1, <2>8, Zenon
<1>3. n - a \in Good
  <2>1. n - a \in Nat
    OBVIOUS
  <2> HIDE DEF Good
  <2> QED BY <1>1, <1>2, <2>1, NumberInduction
<1>4. a + (n - a) = n
  OBVIOUS
<1>5. SumOver(f, a .. a + (n - a)) = h[a + (n - a) + 1] - h[a]
  BY <1>3, <1>4
<1> QED BY <1>4, <1>5, Zenon

\* A sum of natural numbers is one and bounds them.
LEMMA SumBounds ==
    ASSUME NEW S, IsFiniteSet(S), NEW f, \A x \in S : f[x] \in Nat
    PROVE  SumOver(f, S) \in Nat /\ \A x \in S : f[x] <= SumOver(f, S)
<1> DEFINE Good == {T \in SUBSET S : SumOver(f, T) \in Nat}
<1>1. {} \in Good
  <2>1. SumOver(f, {}) = 0
    BY FS_EmptySet, SumOfZeros
  <2> QED BY <2>1
<1>2. ASSUME NEW T \in SUBSET S, NEW x \in S, T \in Good, x \notin T PROVE T \cup {x} \in Good
  <2>1. IsFiniteSet(T) /\ \A y \in T \cup {x} : f[y] \in Int
    BY FS_Subset
  <2>2. SumOver(f, T \cup {x}) = f[x] + SumOver(f, T)
    BY <1>2, <2>1, SumWithOne
  <2>3. SumOver(f, T) \in Nat /\ T \cup {x} \in SUBSET S
    BY <1>2
  <2> QED BY <2>2, <2>3
<1>3. \A T \in SUBSET S, x \in S : T \in Good /\ x \notin T => T \cup {x} \in Good
  BY <1>2
<1> HIDE DEF Good
<1>4. ASSUME NEW T \in SUBSET S PROVE SumOver(f, T) \in Nat
  <2>1. IsFiniteSet(T) /\ \A R \in SUBSET T, x \in T : R \in Good /\ x \notin R => R \cup {x} \in Good
    BY <1>3, FS_Subset
  <2>2. T \in Good
    BY <1>1, <2>1, SetInduction
  <2> QED BY <2>2 DEF Good
<1>5. ASSUME NEW x \in S PROVE f[x] <= SumOver(f, S)
  <2>1. SumOver(f, S) = f[x] + SumOver(f, S \ {x})
    BY SumTakesOne
  <2>2. SumOver(f, S \ {x}) \in Nat
    BY <1>4
  <2> QED BY <2>1, <2>2
<1> QED BY <1>4, <1>5

LEMMA SumMonotone ==
    ASSUME NEW S, IsFiniteSet(S), NEW f, NEW h, \A x \in S : f[x] \in Int /\ h[x] \in Int /\ f[x] <= h[x]
    PROVE  SumOver(f, S) \in Int /\ SumOver(h, S) \in Int /\ SumOver(f, S) <= SumOver(h, S)
<1> DEFINE d == [x \in S |-> h[x] - f[x]]
<1>1. \A x \in S : f[x] \in Int /\ d[x] \in Nat /\ d[x] \in Int /\ h[x] = f[x] + d[x]
  OBVIOUS
<1> HIDE DEF d
<1>2. SumOver(h, S) = SumOver(f, S) + SumOver(d, S)
  BY <1>1, SumOfTwo
<1>3. SumOver(d, S) \in Nat
  BY <1>1, SumBounds
<1>4. SumOver(f, S) \in Int /\ SumOver(h, S) \in Int
  BY SumTakesOne
<1> QED BY <1>2, <1>3, <1>4

\* Counters whose sum is below a bound may each go up by one.
LEMMA CountGoesUp ==
    ASSUME NEW S, IsFiniteSet(S), NEW n \in Nat, NEW f \in [S -> 0 .. n], NEW x \in S,
           SumOver(f, S) < n
    PROVE  [f EXCEPT ![x] = @ + 1] \in [S -> 0 .. n]
<1>1. \A y \in S : f[y] \in 0 .. n /\ f[y] \in Nat
  OBVIOUS
<1>2. f[x] <= SumOver(f, S) /\ SumOver(f, S) \in Nat
  BY <1>1, SumBounds
<1>3. f[x] + 1 \in 0 .. n
  BY <1>1, <1>2
<1> QED BY <1>3

(***************************************************************************)
(* Bags.                                                                   *)
(***************************************************************************)
LEMMA BagWithOne ==
    ASSUME NEW B, IsABag(B), NEW m
    PROVE  IsABag(B (+) SetToBag({m})) /\ BagToSet(B (+) SetToBag({m})) = BagToSet(B) \cup {m}
<1> PICK C : C = B (+) SetToBag({m})
  OBVIOUS
<1>1. B \in [DOMAIN B -> {n \in Nat : n > 0}]
  BY DEF IsABag
<1>2. SetToBag({m}) = [e \in {m} |-> 1]
  BY DEF SetToBag
<1>3. DOMAIN C = DOMAIN B \cup {m}
  BY <1>2 DEF (+)
<1>4. ASSUME NEW e \in DOMAIN C PROVE C[e] \in Nat /\ C[e] > 0
  BY <1>1, <1>2, <1>3 DEF (+)
<1>5. C = [e \in DOMAIN C |-> C[e]]
  BY DEF (+)
<1> QED BY <1>3, <1>4, <1>5 DEF IsABag, BagToSet

LEMMA BagWithoutOne ==
    ASSUME NEW B, IsABag(B), NEW m \in BagToSet(B)
    PROVE  /\ IsABag(B (-) SetToBag({m})) /\ BagToSet(B (-) SetToBag({m})) \subseteq BagToSet(B)
           /\ BagToSet(B) \ {m} \subseteq BagToSet(B (-) SetToBag({m}))
<1> PICK C : C = B (-) SetToBag({m})
  OBVIOUS
<1> DEFINE D == [e \in DOMAIN B |-> IF e \in {m} THEN B[e] - 1 ELSE B[e]]
<1>1. B \in [DOMAIN B -> {n \in Nat : n > 0}]
  BY DEF IsABag
<1>2. SetToBag({m}) = [e \in {m} |-> 1]
  BY DEF SetToBag
<1>3. C = [e \in {d \in DOMAIN D : D[d] > 0} |-> D[e]]
  BY <1>2 DEF (-)
<1>4. DOMAIN C = {d \in DOMAIN B : D[d] > 0} /\ \A e \in DOMAIN C : C[e] = D[e]
  BY <1>3
<1>5. \A e \in DOMAIN B : D[e] \in Int /\ (e # m => D[e] > 0)
  BY <1>1
<1>6. C = [e \in DOMAIN C |-> C[e]]
  BY <1>3
<1> HIDE DEF D
<1> QED BY <1>4, <1>5, <1>6 DEF IsABag, BagToSet
=============================================================================
