----------------------------- MODULE NumberFacts -----------------------------
(***************************************************************************)
(* Facts about numbers that the proofs of several components need: least   *)
(* and greatest elements of sets, sums over finite sets, quotients.  That  *)
(* every non-empty set of natural numbers has a least element is the form  *)
(* in which these proofs use induction.                                    *)
(***************************************************************************)
EXTENDS Integers, FiniteSetTheorems, TLAPS

\* Every non-empty set of natural numbers has a least element.
LEMMA LeastElement ==
  ASSUME NEW I, I \subseteq Nat, I # {}
  PROVE  \E m \in I : \A n \in I : m <= n
<1>1. PICK m \in I : \A n \in I : ~ (<<n, m>> \in OpToRel(<, Nat))
  BY NatLessThanWellFounded, WFMin, Zenon
<1>2. ASSUME NEW n \in I
      PROVE  m <= n
  <2>1. ~ (n < m)
    BY <1>1 DEF OpToRel
  <2>2. QED
    BY <2>1
<1>3. QED
  BY <1>2

\* Every non-empty set of integers with an upper bound has a greatest element.
LEMMA GreatestElement ==
  ASSUME NEW I, I \subseteq Int, I # {}, NEW b \in Int, \A n \in I : n <= b
  PROVE  \E m \in I : \A n \in I : n <= m
<1> DEFINE D == {b - n : n \in I}
<1>1. D \subseteq Nat /\ D # {}
  <2>1. \A n \in I : b - n \in Nat
    OBVIOUS
  <2>2. QED
    BY <2>1
<1>2. PICK d \in D : \A e \in D : d <= e
  BY <1>1, LeastElement
<1>3. PICK m \in I : d = b - m
  OBVIOUS
<1>4. ASSUME NEW n \in I
      PROVE  n <= m
  <2>1. b - m <= b - n
    BY <1>2, <1>3
  <2>2. QED
    BY <2>1
<1>5. QED
  BY <1>4

-----------------------------------------------------------------------------
(* Sums.  The library adds up the values of a function on a set in an      *)
(* order it does not say; these are the facts that need none.              *)

\* f has integers to add up on S.
Summable(f, S) == IsFiniteSet(S) /\ \A x \in S : f[x] \in Int

\* The element that the library adds first, and what it makes of it.
Chosen(s) == CHOOSE x \in s : TRUE

Adds(g, f, s) == IF s = {} THEN 0 ELSE f[Chosen(s)] + g[s \ {Chosen(s)}]

\* g has the sums of f on all the subsets of S.
IsSum(g, f, S) == g = [s \in SUBSET S |-> Adds(g, f, s)]

\* There are sums on the subsets of up to n elements.
SumsTo(f, S, n) ==
  \E g \in [SUBSET S -> Int] : \A s \in SUBSET S : Cardinality(s) <= n => g[s] = Adds(g, f, s)

\* Any element may be added first.
AnyOrder(g, f, S) == \A t \in SUBSET S : \A x \in t : g[t] = f[x] + g[t \ {x}]

\* The sum of the library, with its recursion named.
LEMMA SumUnfolded ==
  ASSUME NEW f, NEW S
  PROVE SumFunctionOnSet(f, S) = (CHOOSE g : IsSum(g, f, S))[S]
BY DEF SumFunctionOnSet, FoldFunctionOnSet, MapThenFoldSet, IsSum, Adds, Chosen

\* The subsets of a finite set without one of their elements.
LEMMA OneOut ==
  ASSUME NEW S, IsFiniteSet(S), NEW s \in SUBSET S
  PROVE  /\ IsFiniteSet(s) /\ Cardinality(s) \in Nat
         /\ \A x \in s : s \ {x} \in SUBSET S /\ Cardinality(s \ {x}) = Cardinality(s) - 1
         /\ s # {} => Chosen(s) \in s
<1>1. IsFiniteSet(s)
  BY FS_Subset
<1>2. QED
  BY <1>1, FS_CardinalityType, FS_RemoveElement DEF Chosen

\* There are sums for subsets of any size.
LEMMA SumsUpTo ==
  ASSUME NEW f, NEW S, Summable(f, S)
  PROVE  \A n \in Nat : SumsTo(f, S, n)
<1>0. IsFiniteSet(S) /\ \A x \in S : f[x] \in Int
  BY DEF Summable
<1> DEFINE P(k) == SumsTo(f, S, k)
           B == {k \in Nat : ~P(k)}
<1>1. P(0)
  <2> DEFINE g == [s \in SUBSET S |-> 0]
  <2>1. g \in [SUBSET S -> Int]
    OBVIOUS
  <2>2. ASSUME NEW s \in SUBSET S, Cardinality(s) <= 0 PROVE s = {} /\ g[s] = 0
    <3>1. IsFiniteSet(s) /\ Cardinality(s) = 0
      BY <1>0, <2>2, OneOut
    <3>2. QED
      BY <3>1, FS_EmptySet
  <2> HIDE DEF g
  <2>3. QED
    BY <2>1, <2>2 DEF Adds, SumsTo
<1>2. ASSUME NEW k \in Nat, P(k) PROVE P(k + 1)
  <2>1. PICK g \in [SUBSET S -> Int] :
          \A s \in SUBSET S : Cardinality(s) <= k => g[s] = Adds(g, f, s)
    BY <1>2 DEF SumsTo
  <2> DEFINE h == [s \in SUBSET S |-> Adds(g, f, s)]
  <2>2. h \in [SUBSET S -> Int]
    BY <1>0, OneOut DEF Adds
  <2>3. \A s \in SUBSET S : h[s] = Adds(g, f, s)
    OBVIOUS
  <2> HIDE DEF h
  <2>4. ASSUME NEW s \in SUBSET S, Cardinality(s) <= k + 1 PROVE h[s] = Adds(h, f, s)
    <3>1. CASE s = {}
      BY <2>3, <3>1 DEF Adds
    <3>2. CASE s # {}
      <4> DEFINE t == s \ {Chosen(s)}
      <4>1. t \in SUBSET S /\ Cardinality(t) <= k
        BY <1>0, <2>4, <3>2, OneOut
      <4>2. h[t] = g[t]
        BY <2>1, <2>3, <4>1
      <4>3. h[s] = f[Chosen(s)] + g[t]
        BY <2>3, <3>2 DEF Adds
      <4>4. QED
        BY <3>2, <4>2, <4>3 DEF Adds
    <3>3. QED
      BY <3>1, <3>2
  <2>5. QED
    BY <2>2, <2>4 DEF SumsTo
<1> HIDE DEF P
<1>3. B = {}
  <2>1. SUFFICES ASSUME B # {} PROVE FALSE
    OBVIOUS
  <2>2. PICK k \in B : \A l \in B : k <= l
    <3>1. B \subseteq Nat
      OBVIOUS
    <3> HIDE DEF B
    <3>2. QED
      BY <2>1, <3>1, LeastElement
  <2>3. k \in Nat /\ ~P(k) /\ k # 0
    BY <1>1
  <2>4. k - 1 \in Nat /\ (k - 1) + 1 = k /\ ~(k <= k - 1)
    BY <2>3
  <2>5. P(k - 1)
    BY <2>2, <2>4
  <2>6. QED
    BY <1>2, <2>3, <2>4, <2>5
<1>4. \A n \in Nat : P(n)
  BY <1>3
<1>5. QED
  BY <1>4 DEF P

\* The sums on the subsets of a set.
LEMMA SumsExist ==
  ASSUME NEW f, NEW S, Summable(f, S)
  PROVE  \E g \in [SUBSET S -> Int] : IsSum(g, f, S)
<1>1. Cardinality(S) \in Nat /\ \A s \in SUBSET S : Cardinality(s) <= Cardinality(S)
  BY FS_CardinalityType, FS_Subset DEF Summable
<1>2. PICK g \in [SUBSET S -> Int] : \A s \in SUBSET S : Cardinality(s) <= Cardinality(S) => g[s] = Adds(g, f, s)
  <2> DEFINE n == Cardinality(S)
  <2>1. n \in Nat
    BY <1>1
  <2> HIDE DEF n
  <2>2. SumsTo(f, S, n)
    BY <2>1, SumsUpTo
  <2>3. QED
    BY <2>2 DEF n, SumsTo
<1>3. \A s \in SUBSET S : g[s] = Adds(g, f, s)
  BY <1>1, <1>2
<1>4. g = [s \in SUBSET S |-> Adds(g, f, s)]
  BY <1>3
<1>5. QED
  BY <1>4 DEF IsSum

\* Sums for two sets agree on what is a subset of both.
LEMMA SumsAgree ==
  ASSUME NEW f, NEW S, NEW T, IsFiniteSet(S), T \subseteq S, NEW g, NEW h,
         IsSum(g, f, S), IsSum(h, f, T), NEW t \in SUBSET T
  PROVE  g[t] = h[t]
<1>0. IsFiniteSet(T) /\ SUBSET T \subseteq SUBSET S
  BY FS_Subset
<1>1. \A s \in SUBSET T : g[s] = Adds(g, f, s) /\ h[s] = Adds(h, f, s)
  BY DEF IsSum
<1> DEFINE B == {k \in Nat : \E s \in SUBSET T : Cardinality(s) = k /\ g[s] # h[s]}
<1>2. B = {}
  <2>1. SUFFICES ASSUME B # {} PROVE FALSE
    OBVIOUS
  <2>2. PICK k \in B : \A l \in B : k <= l
    <3>1. B \subseteq Nat
      OBVIOUS
    <3> HIDE DEF B
    <3>2. QED
      BY <2>1, <3>1, LeastElement
  <2>3. PICK s \in SUBSET T : Cardinality(s) = k /\ g[s] # h[s]
    OBVIOUS
  <2>4. s # {}
    BY <1>1, <2>3 DEF Adds
  <2> DEFINE r == s \ {Chosen(s)}
  <2>5. r \in SUBSET T /\ Cardinality(r) = k - 1 /\ k \in Nat /\ k - 1 \in Nat
    <3>1. /\ IsFiniteSet(s) /\ Chosen(s) \in s /\ r \in SUBSET T
          /\ Cardinality(r) = Cardinality(s) - 1
      BY <1>0, <2>4, OneOut
    <3>2. Cardinality(r) \in Nat
      BY <1>0, <3>1, OneOut
    <3>3. QED
      BY <2>3, <3>1, <3>2
  <2>6. g[r] = h[r]
    <3>1. k - 1 \notin B
      BY <2>2, <2>5
    <3>2. QED
      BY <2>5, <3>1
  <2>7. QED
    BY <1>1, <2>3, <2>4, <2>6 DEF Adds
<1>3. IsFiniteSet(t) /\ Cardinality(t) \in Nat
  BY <1>0, OneOut
<1>4. QED
  BY <1>2, <1>3

\* The choice of what is added first makes no difference.
LEMMA SumsInAnyOrder ==
  ASSUME NEW f, NEW S, Summable(f, S),
         NEW g \in [SUBSET S -> Int], IsSum(g, f, S)
  PROVE  AnyOrder(g, f, S)
<1>0. IsFiniteSet(S) /\ \A x \in S : f[x] \in Int
  BY DEF Summable
<1>1. \A s \in SUBSET S : s # {} => g[s] = f[Chosen(s)] + g[s \ {Chosen(s)}]
  BY DEF IsSum, Adds
<1> DEFINE B == {k \in Nat : \E s \in SUBSET S : \E y \in s : Cardinality(s) = k /\ g[s] # f[y] + g[s \ {y}]}
<1>2. B = {}
  <2>1. SUFFICES ASSUME B # {} PROVE FALSE
    OBVIOUS
  <2>2. PICK k \in B : \A l \in B : k <= l
    <3>1. B \subseteq Nat
      OBVIOUS
    <3> HIDE DEF B
    <3>2. QED
      BY <2>1, <3>1, LeastElement
  <2>3. PICK s \in SUBSET S : \E y \in s : Cardinality(s) = k /\ g[s] # f[y] + g[s \ {y}]
    OBVIOUS
  <2>13. PICK y \in s : Cardinality(s) = k /\ g[s] # f[y] + g[s \ {y}]
    BY <2>3
  <2> DEFINE c == Chosen(s)
  <2>4. c \in s /\ g[s] = f[c] + g[s \ {c}] /\ c # y
    BY <1>0, <1>1, <2>13, OneOut
  <2> HIDE DEF c
  <2>5. /\ s \ {c} \in SUBSET S /\ s \ {y} \in SUBSET S /\ y \in s \ {c} /\ c \in s \ {y}
        /\ (s \ {c}) \ {y} = (s \ {y}) \ {c} /\ (s \ {y}) \ {c} \in SUBSET S
    BY <2>4
  <2>6. Cardinality(s \ {c}) = k - 1 /\ Cardinality(s \ {y}) = k - 1 /\ k \in Nat /\ k - 1 \in Nat
    <3>1. Cardinality(s \ {c}) = k - 1 /\ Cardinality(s \ {y}) = k - 1
      BY <1>0, <2>13, <2>4, OneOut
    <3>2. Cardinality(s \ {c}) \in Nat
      BY <1>0, <2>5, OneOut
    <3>3. QED
      BY <3>1, <3>2
  <2>7. k - 1 \notin B
    <3>1. ~(k <= k - 1)
      BY <2>6
    <3> HIDE DEF B
    <3>2. QED
      BY <2>2, <3>1
  <2>8. g[s \ {c}] = f[y] + g[(s \ {c}) \ {y}] /\ g[s \ {y}] = f[c] + g[(s \ {y}) \ {c}]
    BY <2>5, <2>6, <2>7
  <2>9. f[c] \in Int /\ f[y] \in Int /\ g[(s \ {y}) \ {c}] \in Int
    BY <1>0, <2>3, <2>13, <2>4, <2>5
  <2>10. \A i, j, m \in Int : i + (j + m) = j + (i + m)
    OBVIOUS
  <2>11. f[c] + (f[y] + g[(s \ {y}) \ {c}]) = f[y] + (f[c] + g[(s \ {y}) \ {c}])
    BY <2>9, <2>10
  <2>12. QED
    BY <2>13, <2>4, <2>5, <2>8, <2>11
<1>3. \A t \in SUBSET S : Cardinality(t) \in Nat
  BY <1>0, OneOut
<1>4. QED
  BY <1>2, <1>3 DEF AnyOrder

\* The sum of the library: of nothing, and with any of the elements apart.
LEMMA SumOnSet ==
  ASSUME NEW f, NEW S, Summable(f, S)
  PROVE  /\ SumFunctionOnSet(f, S) \in Int
         /\ S = {} => SumFunctionOnSet(f, S) = 0
         /\ \A x \in S : SumFunctionOnSet(f, S) = f[x] + SumFunctionOnSet(f, S \ {x})
<1>0. IsFiniteSet(S) /\ \A x \in S : f[x] \in Int
  BY DEF Summable
<1> DEFINE g == CHOOSE k : IsSum(k, f, S)
<1>1. g \in [SUBSET S -> Int] /\ IsSum(g, f, S) /\ SumFunctionOnSet(f, S) = g[S]
  <2>1. PICK h \in [SUBSET S -> Int] : IsSum(h, f, S)
    BY SumsExist
  <2>2. IsSum(g, f, S)
    BY <2>1
  <2> HIDE DEF g
  <2>3. \A s \in SUBSET S : g[s] = h[s]
    BY <1>0, <2>1, <2>2, SumsAgree
  <2>4. g = h
    BY <2>1, <2>2, <2>3 DEF IsSum
  <2>5. SumFunctionOnSet(f, S) = g[S]
    BY SumUnfolded DEF g
  <2>6. QED
    BY <2>1, <2>4, <2>5
<1> HIDE DEF g
<1>2. S \in SUBSET S /\ SumFunctionOnSet(f, S) \in Int
  BY <1>1
<1>3. S = {} => g[S] = 0
  BY <1>1, <1>2 DEF IsSum, Adds
<1>4. ASSUME NEW x \in S PROVE SumFunctionOnSet(f, S) = f[x] + SumFunctionOnSet(f, S \ {x})
  <2> DEFINE T == S \ {x}
             h == CHOOSE k : IsSum(k, f, T)
  <2>1. T \subseteq S /\ IsFiniteSet(T) /\ T \in SUBSET T /\ Summable(f, T)
    BY <1>0, FS_Subset DEF Summable
  <2> HIDE DEF T
  <2>2. SumFunctionOnSet(f, T) = h[T]
    BY SumUnfolded
  <2>3. IsSum(h, f, T)
    <3>1. \E k : IsSum(k, f, T)
      BY <2>1, SumsExist
    <3>2. QED
      BY <3>1
  <2> HIDE DEF h
  <2>4. g[T] = h[T]
    BY <1>0, <1>1, <2>1, <2>3, SumsAgree
  <2>5. g[S] = f[x] + g[T]
    <3>1. g[S] = f[x] + g[S \ {x}]
      <4>1. AnyOrder(g, f, S)
        BY <1>1, SumsInAnyOrder
      <4>2. QED
        BY <1>2, <4>1, Zenon DEF AnyOrder
    <3>2. QED
      BY <3>1 DEF T
  <2>6. QED
    BY <1>1, <2>2, <2>4, <2>5 DEF T
<1>5. QED
  BY <1>1, <1>2, <1>3, <1>4

\* Induction over the subsets of a finite set, those with the property being B.
LEMMA SubsetInduction ==
  ASSUME NEW S, IsFiniteSet(S), NEW B, {} \in B,
         \A T \in SUBSET S : \A x \in T : T \ {x} \in B => T \in B
  PROVE  S \in B
<1> DEFINE A == {k \in Nat : \E T \in SUBSET S : Cardinality(T) = k /\ T \notin B}
<1>1. A = {}
  <2>1. SUFFICES ASSUME A # {} PROVE FALSE
    OBVIOUS
  <2>2. PICK k \in A : \A l \in A : k <= l
    <3>1. A \subseteq Nat
      OBVIOUS
    <3> HIDE DEF A
    <3>2. QED
      BY <2>1, <3>1, LeastElement
  <2>3. PICK T \in SUBSET S : Cardinality(T) = k /\ T \notin B
    OBVIOUS
  <2>4. PICK x \in T : TRUE
    BY <2>3
  <2>5. /\ T \ {x} \in SUBSET S /\ Cardinality(T \ {x}) \in Nat
        /\ Cardinality(T \ {x}) = k - 1 /\ k \in Nat
    <3>1. T \ {x} \in SUBSET S /\ Cardinality(T \ {x}) = k - 1
      BY <2>3, <2>4, OneOut
    <3>2. Cardinality(T \ {x}) \in Nat
      BY <3>1, OneOut
    <3>3. QED
      BY <3>1, <3>2
  <2>6. Cardinality(T \ {x}) \notin A
    <3>1. ~(k <= Cardinality(T \ {x}))
      BY <2>5
    <3> HIDE DEF A
    <3>2. QED
      BY <2>2, <3>1
  <2>7. T \ {x} \in B
    BY <2>5, <2>6
  <2>8. QED
    BY <2>3, <2>4, <2>7
<1>2. Cardinality(S) \in Nat
  BY FS_CardinalityType
<1>3. QED
  BY <1>1, <1>2

\* Subsets of what can be summed can be.
LEMMA SummableSubset ==
  ASSUME NEW f, NEW S, Summable(f, S), NEW T \in SUBSET S
  PROVE  Summable(f, T)
BY FS_Subset DEF Summable

\* Functions that agree on a set have the same sum there.
LEMMA SameSum ==
  ASSUME NEW f, NEW g, NEW S, Summable(f, S), \A x \in S : f[x] = g[x]
  PROVE  Summable(g, S) /\ SumFunctionOnSet(f, S) = SumFunctionOnSet(g, S)
<1>0. Summable(g, S) /\ IsFiniteSet(S)
  BY DEF Summable
<1> DEFINE B == {T \in SUBSET S : SumFunctionOnSet(f, T) = SumFunctionOnSet(g, T)}
<1>1. {} \in B
  <2>1. Summable(f, {}) /\ Summable(g, {})
    BY <1>0, SummableSubset
  <2>2. SumFunctionOnSet(f, {}) = 0 /\ SumFunctionOnSet(g, {}) = 0
    BY <2>1, SumOnSet
  <2>3. QED
    BY <2>2
<1>2. ASSUME NEW T \in SUBSET S, NEW x \in T, T \ {x} \in B
      PROVE  T \in B
  <2>1. Summable(f, T) /\ Summable(g, T)
    BY <1>0, SummableSubset
  <2>2. /\ SumFunctionOnSet(f, T) = f[x] + SumFunctionOnSet(f, T \ {x})
        /\ SumFunctionOnSet(g, T) = g[x] + SumFunctionOnSet(g, T \ {x})
    BY <2>1, SumOnSet
  <2>3. QED
    BY <1>2, <2>2
<1>3. S \in B
  <2> HIDE DEF B
  <2>1. QED
    BY <1>0, <1>1, <1>2, SubsetInduction
<1>4. QED
  BY <1>0, <1>3

\* A function that is 0 on a set has the sum 0 there.
LEMMA SumOfZeros ==
  ASSUME NEW f, NEW S, IsFiniteSet(S), \A x \in S : f[x] = 0
  PROVE  SumFunctionOnSet(f, S) = 0
<1> DEFINE B == {T \in SUBSET S : SumFunctionOnSet(f, T) = 0}
<1>0. Summable(f, S)
  BY DEF Summable
<1>1. {} \in B
  BY <1>0, SummableSubset, SumOnSet
<1>2. ASSUME NEW T \in SUBSET S, NEW x \in T, T \ {x} \in B
      PROVE  T \in B
  <2>1. Summable(f, T)
    BY <1>0, SummableSubset
  <2>2. SumFunctionOnSet(f, T) = f[x] + SumFunctionOnSet(f, T \ {x})
    BY <2>1, SumOnSet
  <2>3. QED
    BY <1>2, <2>2
<1>3. S \in B
  <2> HIDE DEF B
  <2>1. QED
    BY <1>1, <1>2, SubsetInduction
<1>4. QED
  BY <1>3

\* g is f on S, but for k more at i; for one more.
MoreAt(i, k, f, g, S)  == \A x \in S : g[x] = IF x = i THEN f[x] + k ELSE f[x]
OneMoreAt(i, f, g, S)  == \A x \in S : g[x] = IF x = i THEN f[x] + 1 ELSE f[x]

\* A function that is k more at one place of a set has a sum of k more there.
LEMMA SumOfMore ==
  ASSUME NEW f, NEW g, NEW S, Summable(f, S), NEW i, NEW k, k \in Int, MoreAt(i, k, f, g, S)
  PROVE  /\ Summable(g, S)
         /\ SumFunctionOnSet(f, S) \in Int
         /\ i \in S => SumFunctionOnSet(g, S) = SumFunctionOnSet(f, S) + k
         /\ i \notin S => SumFunctionOnSet(g, S) = SumFunctionOnSet(f, S)
<1> USE DEF MoreAt
<1>1. Summable(g, S) /\ SumFunctionOnSet(f, S) \in Int
  BY SumOnSet DEF Summable
<1>2. CASE i \in S
  <2> DEFINE T == S \ {i}
  <2>1. T \in SUBSET S /\ Summable(f, T)
    BY SummableSubset
  <2>2. SumFunctionOnSet(f, T) = SumFunctionOnSet(g, T)
    <3>1. \A x \in T : f[x] = g[x]
      OBVIOUS
    <3> HIDE DEF T
    <3>2. QED
      BY <2>1, <3>1, SameSum
  <2>3. SumFunctionOnSet(f, T) \in Int /\ f[i] \in Int /\ g[i] = f[i] + k
    <3>1. SumFunctionOnSet(f, T) \in Int
      BY <2>1, SumOnSet
    <3>2. QED
      BY <1>2, <3>1 DEF Summable
  <2>4. /\ SumFunctionOnSet(f, S) = f[i] + SumFunctionOnSet(f, T)
        /\ SumFunctionOnSet(g, S) = g[i] + SumFunctionOnSet(g, T)
    BY <1>1, <1>2, SumOnSet
  <2> HIDE DEF T
  <2>5. QED
    BY <1>1, <1>2, <2>2, <2>3, <2>4
<1>3. CASE i \notin S
  <2>1. \A x \in S : f[x] = g[x]
    BY <1>3
  <2>2. SumFunctionOnSet(f, S) = SumFunctionOnSet(g, S)
    BY <2>1, SameSum
  <2>3. QED
    BY <1>1, <1>3, <2>2
<1>4. QED
  BY <1>2, <1>3

\* A summable function f, and g that is k more at a place of the set.
KMoreAt(i, k, f, g, D) == Summable(f, D) /\ i \in D /\ k \in Int /\ MoreAt(i, k, f, g, D)

\* There g has a sum of k more.
LEMMA SumOfKMore ==
  ASSUME NEW i, NEW k, NEW f, NEW g, NEW D, KMoreAt(i, k, f, g, D)
  PROVE  SumFunctionOnSet(f, D) \in Int /\ SumFunctionOnSet(g, D) = SumFunctionOnSet(f, D) + k
<1>1. Summable(f, D) /\ i \in D /\ k \in Int /\ MoreAt(i, k, f, g, D)
  BY DEF KMoreAt
<1>2. QED
  BY <1>1, SumOfMore

\* A function that is one more at one place of a set has a sum of one more there.
LEMMA SumOfOneMore ==
  ASSUME NEW f, NEW g, NEW S, Summable(f, S), NEW i, OneMoreAt(i, f, g, S)
  PROVE  /\ Summable(g, S)
         /\ SumFunctionOnSet(f, S) \in Int
         /\ SumFunctionOnSet(g, S) = SumFunctionOnSet(f, S) + (IF i \in S THEN 1 ELSE 0)
<1>1. MoreAt(i, 1, f, g, S)
  BY DEF MoreAt, OneMoreAt
<1>2. QED
  BY <1>1, SumOfMore

\* What a function adds up to on a part of its domain, and on one element more.
LEMMA SumOfPart ==
  ASSUME NEW f, NEW S, Summable(f, S)
  PROVE  SumFunction([x \in S |-> f[x]]) = SumFunctionOnSet(f, S)
<1> DEFINE g == [x \in S |-> f[x]]
<1>1. DOMAIN g = S /\ \A x \in S : f[x] = g[x]
  OBVIOUS
<1> HIDE DEF g
<1>2. SumFunctionOnSet(f, S) = SumFunctionOnSet(g, S)
  BY <1>1, SameSum
<1>3. QED
  BY <1>1, <1>2 DEF SumFunction, g

LEMMA SumWithOne ==
  ASSUME NEW f, NEW S, NEW x, x \notin S, Summable(f, S \cup {x})
  PROVE  SumFunctionOnSet(f, S \cup {x}) = f[x] + SumFunctionOnSet(f, S)
<1> DEFINE T == S \cup {x}
<1>1. x \in T /\ T \ {x} = S
  OBVIOUS
<1> HIDE DEF T
<1>2. Summable(f, T)
  BY DEF T
<1>3. SumFunctionOnSet(f, T) = f[x] + SumFunctionOnSet(f, T \ {x})
  BY <1>1, <1>2, SumOnSet
<1>4. QED
  BY <1>1, <1>3 DEF T

\* A function that is nowhere above another on a set has no greater sum there.
LEMMA SumsInOrder ==
  ASSUME NEW f, NEW g, NEW S, Summable(f, S), Summable(g, S), \A x \in S : f[x] <= g[x]
  PROVE  SumFunctionOnSet(f, S) <= SumFunctionOnSet(g, S)
<1> DEFINE B == {T \in SUBSET S : SumFunctionOnSet(f, T) <= SumFunctionOnSet(g, T)}
<1>1. {} \in B
  BY SummableSubset, SumOnSet
<1>2. ASSUME NEW T \in SUBSET S, NEW x \in T, T \ {x} \in B
      PROVE  T \in B
  <2>1. Summable(f, T) /\ Summable(g, T) /\ Summable(f, T \ {x}) /\ Summable(g, T \ {x})
    BY SummableSubset
  <2>2. /\ SumFunctionOnSet(f, T) = f[x] + SumFunctionOnSet(f, T \ {x})
        /\ SumFunctionOnSet(g, T) = g[x] + SumFunctionOnSet(g, T \ {x})
        /\ SumFunctionOnSet(f, T \ {x}) \in Int /\ SumFunctionOnSet(g, T \ {x}) \in Int
    BY <2>1, SumOnSet
  <2>3. f[x] \in Int /\ g[x] \in Int /\ f[x] <= g[x]
    BY <2>1 DEF Summable
  <2>4. QED
    BY <1>2, <2>2, <2>3
<1>3. S \in B
  <2> HIDE DEF B
  <2>1. QED
    BY <1>1, <1>2, SubsetInduction DEF Summable
<1>4. QED
  BY <1>3

\* The sums of two sets without a common element add up.
LEMMA SumOfBoth ==
  ASSUME NEW f, NEW S, Summable(f, S), NEW A \in SUBSET S, NEW C \in SUBSET S, A \cap C = {}
  PROVE  SumFunctionOnSet(f, A \cup C) = SumFunctionOnSet(f, A) + SumFunctionOnSet(f, C)
<1> DEFINE B == {T \in SUBSET A : SumFunctionOnSet(f, T \cup C) = SumFunctionOnSet(f, T) + SumFunctionOnSet(f, C)}
<1>1. Summable(f, C) /\ IsFiniteSet(A) /\ SumFunctionOnSet(f, C) \in Int
  BY SummableSubset, SumOnSet DEF Summable
<1>2. {} \in B
  <2>1. Summable(f, {}) /\ {} \cup C = C
    BY SummableSubset
  <2>2. SumFunctionOnSet(f, {}) = 0
    BY <2>1, SumOnSet
  <2>3. QED
    BY <1>1, <2>1, <2>2
<1>3. ASSUME NEW T \in SUBSET A, NEW x \in T, T \ {x} \in B
      PROVE  T \in B
  <2> DEFINE U == T \cup C
  <2>1. x \in U /\ U \ {x} = (T \ {x}) \cup C /\ U \in SUBSET S /\ T \in SUBSET S /\ T \ {x} \in SUBSET S
    OBVIOUS
  <2>2. Summable(f, U) /\ Summable(f, T) /\ Summable(f, T \ {x})
    BY <2>1, SummableSubset
  <2> HIDE DEF U
  <2>3. /\ SumFunctionOnSet(f, U) = f[x] + SumFunctionOnSet(f, U \ {x})
        /\ SumFunctionOnSet(f, T) = f[x] + SumFunctionOnSet(f, T \ {x})
        /\ SumFunctionOnSet(f, T \ {x}) \in Int /\ f[x] \in Int
    BY <2>1, <2>2, SumOnSet DEF Summable
  <2>4. SumFunctionOnSet(f, U \ {x}) = SumFunctionOnSet(f, T \ {x}) + SumFunctionOnSet(f, C)
    <3>1. SumFunctionOnSet(f, (T \ {x}) \cup C) = SumFunctionOnSet(f, T \ {x}) + SumFunctionOnSet(f, C)
      BY <1>3
    <3>2. QED
      BY <2>1, <3>1
  <2> DEFINE u == SumFunctionOnSet(f, U \ {x})
             t == SumFunctionOnSet(f, T \ {x})
             c == SumFunctionOnSet(f, C)
  <2> HIDE DEF u, t, c
  <2>5. SumFunctionOnSet(f, U) = SumFunctionOnSet(f, T) + SumFunctionOnSet(f, C)
    <3>1. u = t + c /\ SumFunctionOnSet(f, U) = f[x] + u /\ SumFunctionOnSet(f, T) = f[x] + t
      BY <2>3, <2>4 DEF u, t, c
    <3>2. f[x] \in Int /\ t \in Int /\ c \in Int
      BY <1>1, <2>3 DEF t, c
    <3>3. SumFunctionOnSet(f, U) = SumFunctionOnSet(f, T) + c
      BY <3>1, <3>2
    <3>4. QED
      BY <3>3 DEF c
  <2>6. QED
    BY <2>5 DEF U
<1>4. A \in B
  <2> HIDE DEF B
  <2>1. QED
    BY <1>1, <1>2, <1>3, SubsetInduction
<1>5. QED
  BY <1>4

\* F grows by f with each number of an interval.
GrowsBy(F, f, L, K) ==
  /\ \A n \in L..K : F[n] \in Int
  /\ \A n \in L + 1..K : f[n] \in Int /\ F[n] = F[n - 1] + f[n]

\* The sum of a function over an interval is known by what each number adds.
LEMMA SumByStep ==
  ASSUME NEW L \in Int, NEW K \in Int, L <= K, NEW f, NEW F, GrowsBy(F, f, L, K)
  PROVE  SumFunctionOnSet(f, L + 1..K) = F[K] - F[L]
<1> USE DEF GrowsBy
<1> DEFINE B == {k \in L..K : SumFunctionOnSet(f, L + 1..k) # F[k] - F[L]}
           E == {k - L : k \in B}
<1>1. SUFFICES ASSUME B # {} PROVE FALSE
  <2>1. K \in L..K
    OBVIOUS
  <2>2. QED
    BY <2>1
<1>2. PICK e \in E : \A d \in E : e <= d
  <2>1. E \subseteq Nat /\ E # {}
    BY <1>1
  <2> HIDE DEF E
  <2>2. QED
    BY <2>1, LeastElement
<1>3. PICK k \in B : e = k - L
  OBVIOUS
<1>4. \A j \in B : k <= j
  <2>1. \A j \in B : e <= j - L
    BY <1>2
  <2>2. QED
    BY <1>3, <2>1
<1>5. ASSUME NEW j \in L..K PROVE Summable(f, L + 1..j)
  <2>1. IsFiniteSet(L + 1..j)
    <3>1. L + 1 \in Int /\ j \in Int
      OBVIOUS
    <3>2. QED
      BY <3>1, FS_Interval
  <2>2. QED
    BY <2>1 DEF Summable
<1>6. CASE k = L
  <2>1. L + 1..k = {}
    BY <1>6
  <2>2. SumFunctionOnSet(f, L + 1..k) = 0
    BY <1>5, <2>1, SumOnSet
  <2>3. F[k] \in Int
    OBVIOUS
  <2>4. QED
    BY <1>6, <2>2, <2>3
<1>7. CASE k # L
  <2> DEFINE D == L + 1..k
             C == L + 1..k - 1
  <2>1. k \in D /\ D \ {k} = C /\ k - 1 \in L..K /\ k \in L..K /\ ~(k <= k - 1) /\ k \in L + 1..K
    BY <1>7
  <2>2. Summable(f, D)
    BY <1>5, <2>1
  <2>3. SumFunctionOnSet(f, C) = F[k - 1] - F[L]
    <3>1. k - 1 \notin B
      BY <1>4, <2>1
    <3>2. QED
      BY <2>1, <3>1
  <2> HIDE DEF D, C
  <2>4. SumFunctionOnSet(f, D) = f[k] + SumFunctionOnSet(f, C)
    <3>1. k \in D
      BY <2>1
    <3> HIDE DEF B, E
    <3>2. SumFunctionOnSet(f, D) = f[k] + SumFunctionOnSet(f, D \ {k})
      BY <2>2, <3>1, SumOnSet, Zenon
    <3>3. QED
      BY <2>1, <3>2
  <2>5. F[k] = F[k - 1] + f[k] /\ F[k] \in Int /\ F[k - 1] \in Int /\ F[L] \in Int /\ f[k] \in Int
    <3>1. L \in L..K
      BY <2>1
    <3>2. QED
      BY <2>1, <3>1
  <2>6. SumFunctionOnSet(f, D) = F[k] - F[L]
    BY <2>3, <2>4, <2>5
  <2>7. QED
    BY <2>6 DEF D
<1>8. QED
  BY <1>6, <1>7

-----------------------------------------------------------------------------
(* Products, quotients and tables kept row after row.                      *)

\* Products of integers: closed, monotone, and distributive by one.
LEMMA Times ==
  /\ \A a, b \in Nat : a * b \in Nat
  /\ \A a, b \in Int : a * b \in Int
  /\ \A a, b, m \in Int : m > 0 /\ a <= b => a * m <= b * m
  /\ \A a, m \in Int : (a + 1) * m = a * m + m /\ (a - 1) * m = a * m - m
OBVIOUS

\* What the division of integers gives.
LEMMA QuotientOf ==
  ASSUME NEW x \in Int, NEW m \in Nat \ {0}
  PROVE  x \div m \in Int /\ (x \div m) * m <= x /\ x < (x \div m + 1) * m
OBVIOUS

\* A quotient is known by the multiples around the number divided.
LEMMA QuotIs ==
  ASSUME NEW x \in Int, NEW m \in Nat \ {0}, NEW q \in Int, q * m <= x, x < (q + 1) * m
  PROVE x \div m = q
<1> DEFINE d == x \div m
<1>1. d \in Int /\ d * m <= x /\ x < (d + 1) * m
  BY QuotientOf
<1> HIDE DEF d
<1>2. CASE d < q
  <2>1. (d + 1) * m <= q * m
    BY <1>1, <1>2, Times
  <2>2. q * m \in Int /\ (d + 1) * m \in Int
    BY <1>1, Times
  <2>3. QED
   BY <1>1, <2>1, <2>2
<1>3. CASE q < d
  <2>1. (q + 1) * m <= d * m
    BY <1>1, <1>3, Times
  <2>2. d * m \in Int /\ (q + 1) * m \in Int
    BY <1>1, Times
  <2>3. QED
   BY <1>1, <2>1, <2>2
<1>4. QED
  BY <1>1, <1>2, <1>3 DEF d

\* Cells of a table kept row after row.
LEMMA CellsOfTable ==
  ASSUME NEW R \in Nat, NEW C \in Nat
  PROVE  /\ \A r \in 0..R - 1, c \in 0..C - 1 : r * C + c \in 0..R * C - 1
         /\ \A r, a \in 0..R - 1, c, b \in 0..C - 1 : r * C + c = a * C + b => r = a /\ c = b
<1>1. ASSUME NEW r \in 0..R - 1, NEW c \in 0..C - 1
      PROVE  r * C + c \in 0..R * C - 1
  <2>1. r * C \in Nat /\ R * C \in Nat /\ (r + 1) * C = r * C + C /\ (r + 1) * C <= R * C
    <3>1. C > 0 /\ r + 1 <= R /\ r \in Nat
      OBVIOUS
    <3>2. QED
      BY <3>1, Times
  <2>2. QED
    BY <2>1
<1>2. ASSUME NEW r \in 0..R - 1, NEW a \in 0..R - 1, NEW c \in 0..C - 1, NEW b \in 0..C - 1,
             r * C + c = a * C + b, r < a
      PROVE  FALSE
  <2>1. r * C \in Nat /\ a * C \in Nat /\ (r + 1) * C = r * C + C /\ (r + 1) * C <= a * C
    <3>1. C > 0 /\ r + 1 <= a /\ r \in Nat
      BY <1>2
    <3>2. QED
      BY <3>1, Times
  <2>2. QED
    BY <1>2, <2>1
<1>3. ASSUME NEW r \in 0..R - 1, NEW a \in 0..R - 1, NEW c \in 0..C - 1, NEW b \in 0..C - 1,
             r * C + c = a * C + b
      PROVE  r = a /\ c = b
  <2>1. ~(r < a) /\ ~(a < r)
    BY <1>2, <1>3
  <2>2. r = a /\ r * C \in Nat
    BY <2>1, Times
  <2>3. QED
    BY <1>3, <2>2
<1>4. QED
  BY <1>1, <1>3
=============================================================================
