----------------------------- MODULE Parts_proofs -----------------------------
(***************************************************************************)
(* Proofs about the parts that only compute or remember: HandStat, for     *)
(* hands of any cards and of any size, read in any order; Expressions, for *)
(* scripts of any statements, any deals and whatever rnd() draws; Scoring, *)
(* for every contract and difference of scores; Reports, for tables of any *)
(* bounds and sizes of buckets, any contract, and any number of deals with *)
(* any values of the expressions; and Calculators, for any number of       *)
(* values, hands, strains and deals, with and without failures.            *)
(***************************************************************************)
EXTENDS Reports, Expressions, Calculators, NumberFacts, SequenceTheorems

-----------------------------------------------------------------------------
(* Hand analysis: the three highest cards of a suit.                       *)

\* A set with an element less.
LEMMA DropOne ==
  ASSUME NEW S, IsFiniteSet(S), NEW x
  PROVE  /\ IsFiniteSet(S \ {x})
         /\ Cardinality(S) = Cardinality(S \ {x}) + (IF x \in S THEN 1 ELSE 0)
<1>1. IsFiniteSet(S \ {x}) /\ Cardinality(S \ {x}) = IF x \in S THEN Cardinality(S) - 1 ELSE Cardinality(S)
  BY FS_RemoveElement
<1>2. Cardinality(S) \in Nat
  BY FS_CardinalityType
<1>3. QED
  BY <1>1, <1>2

\* The weight of a higher card is no less, and none weighs as much as a void.
LEMMA Weights ==
  /\ \A r \in Ranks : LtcWeight(r) \in 1..64
  /\ \A q, r \in Ranks : q <= r => LtcWeight(q) <= LtcWeight(r)
BY DEF Ranks, LtcWeight

\* The weights kept of a suit are those of its three highest cards X, the
\* highest first, and voids beyond its length.
HighestAre(top, X) ==
  \/ X = {} /\ top = <<LTC_VOID_WEIGHT, LTC_VOID_WEIGHT, LTC_VOID_WEIGHT>>
  \/ \E a \in X : X = {a} /\ top = <<LtcWeight(a), LTC_VOID_WEIGHT, LTC_VOID_WEIGHT>>
  \/ \E a, b \in X : /\ a > b /\ X = {a, b}
                     /\ top = <<LtcWeight(a), LtcWeight(b), LTC_VOID_WEIGHT>>
  \/ \E a, b, c \in X : /\ a > b /\ b > c /\ \A x \in X : x > c => x \in {a, b}
                        /\ top = <<LtcWeight(a), LtcWeight(b), LtcWeight(c)>>

\* upd_topcards keeps them, whatever card comes next.
LEMMA OneCardMore ==
  ASSUME NEW X \in SUBSET Ranks, NEW r \in Ranks, r \notin X, NEW top, HighestAre(top, X)
  PROVE  HighestAre(TopThree(top, LtcWeight(r)), X \cup {r})
<1> DEFINE V == LTC_VOID_WEIGHT
           W(x) == LtcWeight(x)
           Y == X \cup {r}
           new == TopThree(top, LtcWeight(r))
<1>1. /\ \A x \in Ranks : x \in Int /\ W(x) \in Int /\ W(x) < V
      /\ \A q, x \in Ranks : q <= x => W(q) <= W(x)
  BY Weights DEF LTC_VOID_WEIGHT, Ranks
<1>2. r \in Y /\ X \subseteq Y
  OBVIOUS
<1> HIDE DEF V, W
<1>3. CASE X = {}
  <2>1. top = <<V, V, V>>
    BY <1>3 DEF HighestAre, V
  <2>2. new = <<W(r), V, V>>
    BY <2>1 DEF TopThree, V, W
  <2>3. QED
    BY <1>3, <2>2 DEF HighestAre, V, W
<1>4. CASE \E a \in X : X = {a} /\ top = <<W(a), V, V>>
  <2>1. PICK a \in X : X = {a} /\ top = <<W(a), V, V>>
    BY <1>4
  <2>2. W(a) \in Int /\ W(a) < V /\ W(a) # V /\ W(r) \in Int /\ a \in Int /\ r \in Int /\ a # r
    BY <1>1
  <2>3. new = IF W(a) < W(r) THEN <<W(r), W(a), V>> ELSE <<W(a), W(r), V>>
    BY <2>1, <2>2 DEF TopThree, V, W
  <2>4. CASE r > a
    <3>1. W(a) <= W(r)
      BY <1>1, <2>4
    <3>2. new = <<W(r), W(a), V>>
      BY <2>2, <2>3, <3>1
    <3>3. Y = {r, a}
      BY <2>1
    <3>4. QED
      BY <2>4, <3>2, <3>3 DEF HighestAre, V, W
  <2>5. CASE a > r
    <3>1. W(r) <= W(a)
      BY <1>1, <2>5
    <3>2. new = <<W(a), W(r), V>>
      BY <2>2, <2>3, <3>1
    <3>3. Y = {a, r}
      BY <2>1
    <3>4. QED
      BY <2>5, <3>2, <3>3 DEF HighestAre, V, W
  <2>6. QED
    BY <2>2, <2>4, <2>5
<1>5. CASE \E a, b \in X : a > b /\ X = {a, b} /\ top = <<W(a), W(b), V>>
  <2>1. PICK a \in X, b \in X : a > b /\ X = {a, b} /\ top = <<W(a), W(b), V>>
    BY <1>5
  <2>2. /\ W(a) \in Int /\ W(a) # V /\ W(b) \in Int /\ W(b) # V /\ W(r) \in Int
        /\ a \in Int /\ b \in Int /\ r \in Int /\ a # r /\ b # r
    BY <1>1
  <2>3. new = IF W(a) < W(r) THEN <<W(r), W(a), W(b)>>
              ELSE IF W(b) < W(r) THEN <<W(a), W(r), W(b)>>
              ELSE <<W(a), W(b), W(r)>>
    BY <2>1, <2>2 DEF TopThree, V, W
  <2>4. W(b) <= W(a) /\ (r > a => W(a) <= W(r)) /\ (r < a => W(r) <= W(a))
        /\ (r > b => W(b) <= W(r)) /\ (r < b => W(r) <= W(b))
    BY <1>1, <2>1, <2>2
  <2>5. Y = {a, b, r}
    BY <2>1
  <2>6. CASE r > a
    <3>1. new = <<W(r), W(a), W(b)>>
      BY <2>2, <2>3, <2>4, <2>6, <2>1
    <3>2. r > a /\ a > b /\ \A x \in Y : x > b => x \in {r, a}
      BY <2>1, <2>2, <2>5, <2>6
    <3>3. QED
      BY <1>2, <3>1, <3>2 DEF HighestAre, W
  <2>7. CASE a > r /\ r > b
    <3>1. new = <<W(a), W(r), W(b)>>
      BY <2>2, <2>3, <2>4, <2>7, <2>1
    <3>2. a > r /\ r > b /\ \A x \in Y : x > b => x \in {a, r}
      BY <2>1, <2>2, <2>5, <2>7
    <3>3. QED
      BY <1>2, <3>1, <3>2 DEF HighestAre, W
  <2>8. CASE b > r
    <3>1. new = <<W(a), W(b), W(r)>>
      BY <2>2, <2>3, <2>4, <2>8, <2>1
    <3>2. a > b /\ b > r /\ \A x \in Y : x > r => x \in {a, b}
      BY <2>1, <2>2, <2>5, <2>8
    <3>3. QED
      BY <1>2, <3>1, <3>2 DEF HighestAre, W
  <2>9. QED
    BY <2>2, <2>6, <2>7, <2>8
<1>6. CASE \E a, b, c \in X : /\ a > b /\ b > c /\ \A x \in X : x > c => x \in {a, b}
                              /\ top = <<W(a), W(b), W(c)>>
  <2>1. PICK a \in X, b \in X, c \in X : /\ a > b /\ b > c /\ \A x \in X : x > c => x \in {a, b}
                                         /\ top = <<W(a), W(b), W(c)>>
    BY <1>6
  <2>2. /\ W(a) \in Int /\ W(a) # V /\ W(b) \in Int /\ W(b) # V /\ W(c) \in Int /\ W(c) # V
        /\ W(r) \in Int /\ a \in Int /\ b \in Int /\ c \in Int /\ r \in Int
        /\ a # r /\ b # r /\ c # r
    BY <1>1
  <2>3. new = IF W(a) < W(r) THEN <<W(r), W(a), W(b)>>
              ELSE IF W(b) < W(r) THEN <<W(a), W(r), W(b)>>
              ELSE IF W(c) < W(r) THEN <<W(a), W(b), W(r)>>
              ELSE <<W(a), W(b), W(c)>>
    BY <2>1, <2>2 DEF TopThree, V, W
  <2>4. /\ W(b) <= W(a) /\ W(c) <= W(b)
        /\ (r > a => W(a) <= W(r)) /\ (r < a => W(r) <= W(a))
        /\ (r > b => W(b) <= W(r)) /\ (r < b => W(r) <= W(b))
        /\ (r > c => W(c) <= W(r)) /\ (r < c => W(r) <= W(c))
    BY <1>1, <2>1, <2>2
  <2>5. \A x \in Y : x = r \/ x \in X
    OBVIOUS
  <2>6. CASE r > a
    <3>1. new = <<W(r), W(a), W(b)>>
      BY <2>2, <2>3, <2>4, <2>6, <2>1
    <3>2. r > a /\ a > b /\ \A x \in Y : x > b => x \in {r, a}
      BY <1>1, <2>1, <2>2, <2>5, <2>6
    <3>3. QED
      BY <1>2, <3>1, <3>2 DEF HighestAre, W
  <2>7. CASE a > r /\ r > b
    <3>1. new = <<W(a), W(r), W(b)>>
      BY <2>2, <2>3, <2>4, <2>7, <2>1
    <3>2. a > r /\ r > b /\ \A x \in Y : x > b => x \in {a, r}
      BY <1>1, <2>1, <2>2, <2>5, <2>7
    <3>3. QED
      BY <1>2, <3>1, <3>2 DEF HighestAre, W
  <2>8. CASE b > r /\ r > c
    <3>1. new = <<W(a), W(b), W(r)>>
      BY <2>2, <2>3, <2>4, <2>8, <2>1
    <3>2. a > b /\ b > r /\ \A x \in Y : x > r => x \in {a, b}
      BY <1>1, <2>1, <2>2, <2>5, <2>8
    <3>3. QED
      BY <1>2, <3>1, <3>2 DEF HighestAre, W
  <2>9. CASE c > r
    <3>1. new = <<W(a), W(b), W(c)>>
      BY <2>2, <2>3, <2>4, <2>9, <2>1
    <3>2. a > b /\ b > c /\ \A x \in Y : x > c => x \in {a, b}
      BY <1>1, <2>1, <2>2, <2>5, <2>9
    <3>3. QED
      BY <1>2, <3>1, <3>2 DEF HighestAre, W
  <2>10. QED
    BY <2>2, <2>6, <2>7, <2>8, <2>9
<1>7. QED
  BY <1>3, <1>4, <1>5, <1>6 DEF HighestAre, V, W

\* The cards above one of a suit.
AboveIn(X, r) == {q \in X : q > r}

\* No two cards of a suit have as many above them.
LEMMA OnePlaceEach ==
  ASSUME NEW X \in SUBSET Ranks, IsFiniteSet(X), NEW q \in X, NEW r \in X,
         Cardinality(AboveIn(X, q)) = Cardinality(AboveIn(X, r))
  PROVE  q = r
<1>1. ASSUME NEW x \in X, NEW y \in X, y < x
      PROVE  Cardinality(AboveIn(X, x)) < Cardinality(AboveIn(X, y))
  <2> DEFINE A == AboveIn(X, x)
             B == AboveIn(X, y)
  <2>1. A \in SUBSET X /\ B \in SUBSET X /\ A \in SUBSET (B \ {x}) /\ x \in B
    <3>1. \A z \in X : z \in Int
      BY DEF Ranks
    <3>2. \A z \in X : z > x => z > y /\ z # x
      BY <1>1, <3>1
    <3>3. x > y
      BY <1>1, <3>1
    <3>4. QED
      BY <3>2, <3>3 DEF AboveIn
  <2> HIDE DEF A, B
  <2>2. IsFiniteSet(A) /\ IsFiniteSet(B)
    BY <2>1, FS_Subset
  <2>3. IsFiniteSet(B \ {x}) /\ Cardinality(B) = Cardinality(B \ {x}) + 1
    BY <2>1, <2>2, DropOne
  <2>4. Cardinality(A) <= Cardinality(B \ {x})
    BY <2>1, <2>3, FS_Subset
  <2>5. Cardinality(A) \in Nat /\ Cardinality(B \ {x}) \in Nat
    BY <2>2, <2>3, FS_CardinalityType
  <2>6. QED
    BY <2>3, <2>4, <2>5 DEF A, B
<1>2. Cardinality(AboveIn(X, q)) \in Nat /\ Cardinality(AboveIn(X, r)) \in Nat
  <2>1. AboveIn(X, q) \in SUBSET X /\ AboveIn(X, r) \in SUBSET X
    BY DEF AboveIn
  <2>2. IsFiniteSet(AboveIn(X, q)) /\ IsFiniteSet(AboveIn(X, r))
    BY <2>1, FS_Subset
  <2>3. QED
    BY <2>2, FS_CardinalityType
<1>3. q \in Int /\ r \in Int
  BY DEF Ranks
<1>4. ~(q < r) /\ ~(r < q)
  BY <1>1, <1>2
<1>5. QED
  BY <1>3, <1>4

\* The n-th highest card of a suit.
IsNth(X, r, n) == r \in X /\ Cardinality(AboveIn(X, r)) = n - 1

\* There is one n-th card from the top, and countltc chooses it.
LEMMA NthIsOne ==
  ASSUME NEW X \in SUBSET Ranks, IsFiniteSet(X), NEW n, NEW r, IsNth(X, r, n)
  PROVE  (CHOOSE q \in X : Cardinality({x \in X : x > q}) = n - 1) = r
<1> DEFINE q == CHOOSE x \in X : Cardinality(AboveIn(X, x)) = n - 1
<1>1. r \in X /\ Cardinality(AboveIn(X, r)) = n - 1
  BY DEF IsNth
<1>2. q \in X /\ Cardinality(AboveIn(X, q)) = n - 1
  BY <1>1
<1>3. q = r
  <2> HIDE DEF q
  <2>1. QED
    BY <1>1, <1>2, OnePlaceEach
<1>4. QED
  BY <1>3 DEF AboveIn

\* What HighestAre says by places: how many cards there are, and which are the
\* first, the second and the third.
LEMMA Placed ==
  ASSUME NEW X \in SUBSET Ranks, IsFiniteSet(X), NEW top, HighestAre(top, X)
  PROVE  \/ X = {} /\ Cardinality(X) = 0
            /\ top = <<LTC_VOID_WEIGHT, LTC_VOID_WEIGHT, LTC_VOID_WEIGHT>>
         \/ \E a \in X : /\ X = {a} /\ Cardinality(X) = 1 /\ IsNth(X, a, 1)
                         /\ top = <<LtcWeight(a), LTC_VOID_WEIGHT, LTC_VOID_WEIGHT>>
         \/ \E a, b \in X : /\ a > b /\ X = {a, b} /\ Cardinality(X) = 2
                            /\ IsNth(X, a, 1) /\ IsNth(X, b, 2)
                            /\ top = <<LtcWeight(a), LtcWeight(b), LTC_VOID_WEIGHT>>
         \/ \E a, b, c \in X : /\ a > b /\ b > c /\ (\A x \in X : x > c => x \in {a, b})
                               /\ Cardinality(X) >= 3
                               /\ IsNth(X, a, 1) /\ IsNth(X, b, 2) /\ IsNth(X, c, 3)
                               /\ top = <<LtcWeight(a), LtcWeight(b), LtcWeight(c)>>
<1> DEFINE V == LTC_VOID_WEIGHT
           W(x) == LtcWeight(x)
<1>0. \A x \in X : x \in Int
  BY DEF Ranks
<1>1. /\ Cardinality({}) = 0 /\ \A x : Cardinality({x}) = 1
      /\ \A x, y : x # y => IsFiniteSet({x, y}) /\ Cardinality({x, y}) = 2
  <2>1. Cardinality({}) = 0 /\ \A x : IsFiniteSet({x}) /\ Cardinality({x}) = 1
    BY FS_EmptySet, FS_Singleton
  <2>2. ASSUME NEW x, NEW y, x # y
        PROVE  IsFiniteSet({x, y}) /\ Cardinality({x, y}) = 2
    <3>1. {x, y} = {x} \cup {y} /\ y \notin {x}
      BY <2>2
    <3>2. /\ IsFiniteSet({x} \cup {y})
          /\ Cardinality({x} \cup {y}) = IF y \in {x} THEN Cardinality({x}) ELSE Cardinality({x}) + 1
      BY <2>1, FS_AddElement
    <3>3. IsFiniteSet({x, y}) /\ Cardinality({x, y}) = Cardinality({x}) + 1
      <4>1. IsFiniteSet({x} \cup {y}) /\ Cardinality({x} \cup {y}) = Cardinality({x}) + 1
        BY <3>1, <3>2, Zenon
      <4>2. QED
        BY <3>1, <4>1, Zenon
    <3>4. Cardinality({x}) = 1
      BY <2>1, Zenon
    <3>5. QED
      BY <3>3, <3>4, SMT
  <2>3. QED
    BY <2>1, <2>2
<1> HIDE DEF V, W
<1>2. CASE X = {} /\ top = <<V, V, V>>
  BY <1>1, <1>2 DEF V
<1>3. CASE \E a \in X : X = {a} /\ top = <<W(a), V, V>>
  <2>1. PICK a \in X : X = {a} /\ top = <<W(a), V, V>>
    BY <1>3
  <2>2. AboveIn(X, a) = {}
    BY <1>0, <2>1 DEF AboveIn
  <2>3. Cardinality(X) = 1 /\ IsNth(X, a, 1)
    <3>1. Cardinality(AboveIn(X, a)) = 0 /\ Cardinality(X) = 1
      BY <1>1, <2>1, <2>2, Zenon
    <3>2. QED
      BY <3>1 DEF IsNth
  <2>4. QED
    BY <2>1, <2>3 DEF V, W
<1>4. CASE \E a, b \in X : a > b /\ X = {a, b} /\ top = <<W(a), W(b), V>>
  <2>1. PICK a \in X, b \in X : a > b /\ X = {a, b} /\ top = <<W(a), W(b), V>>
    BY <1>4
  <2>2. AboveIn(X, a) = {} /\ AboveIn(X, b) = {a} /\ a # b
    BY <1>0, <2>1 DEF AboveIn
  <2>3. Cardinality(X) = 2 /\ IsNth(X, a, 1) /\ IsNth(X, b, 2)
    <3>1. Cardinality(AboveIn(X, a)) = 0 /\ Cardinality(AboveIn(X, b)) = 1 /\ Cardinality(X) = 2
      BY <1>1, <2>1, <2>2, Zenon
    <3>2. QED
      BY <3>1 DEF IsNth
  <2>4. QED
    BY <2>1, <2>3 DEF V, W
<1>5. CASE \E a, b, c \in X : /\ a > b /\ b > c /\ \A x \in X : x > c => x \in {a, b}
                              /\ top = <<W(a), W(b), W(c)>>
  <2>1. PICK a \in X, b \in X, c \in X : /\ a > b /\ b > c /\ \A x \in X : x > c => x \in {a, b}
                                         /\ top = <<W(a), W(b), W(c)>>
    BY <1>5
  <2>2. a \in Int /\ b \in Int /\ c \in Int /\ a # b /\ a # c /\ b # c
    BY <1>0, <2>1
  <2>3. AboveIn(X, a) = {} /\ AboveIn(X, b) = {a} /\ AboveIn(X, c) = {a, b}
    <3>1. \A x \in X : (x > a <=> FALSE) /\ (x > b <=> x = a) /\ (x > c <=> x \in {a, b})
      BY <1>0, <2>1, <2>2
    <3>2. QED
      BY <3>1 DEF AboveIn
  <2>4. IsNth(X, a, 1) /\ IsNth(X, b, 2) /\ IsNth(X, c, 3)
    <3>1. /\ Cardinality(AboveIn(X, a)) = 0 /\ Cardinality(AboveIn(X, b)) = 1
          /\ Cardinality(AboveIn(X, c)) = 2
      <4>1. a # b /\ Cardinality({a, b}) = 2 /\ Cardinality({a}) = 1
        BY <1>1, <2>2, Zenon
      <4>2. QED
        BY <1>1, <2>3, <4>1, Zenon
    <3>2. QED
      BY <3>1 DEF IsNth
  <2>5. Cardinality(X) >= 3
    <3>1. {a, b} \cup {c} \in SUBSET X /\ c \notin {a, b}
      BY <2>2
    <3>2. Cardinality({a, b} \cup {c}) = 3
      <4>1. IsFiniteSet({a, b}) /\ Cardinality({a, b}) = 2
        BY <1>1, <2>2
      <4>2. Cardinality({a, b} \cup {c}) = Cardinality({a, b}) + 1
        <5>1. Cardinality({a, b} \cup {c})
                = IF c \in {a, b} THEN Cardinality({a, b}) ELSE Cardinality({a, b}) + 1
          BY <4>1, FS_AddElement, Zenon
        <5>2. QED
          BY <3>1, <5>1, Zenon
      <4>3. QED
        BY <4>1, <4>2, SMT
    <3>3. Cardinality({a, b} \cup {c}) <= Cardinality(X)
      BY <3>1, FS_Subset
    <3>4. Cardinality(X) \in Nat
      BY FS_CardinalityType
    <3>5. QED
      BY <3>2, <3>3, <3>4
  <2>6. QED
    BY <2>1, <2>4, <2>5 DEF W
<1>6. QED
  BY <1>2, <1>3, <1>4, <1>5 DEF HighestAre, V, W

-----------------------------------------------------------------------------
(* The losers of a suit.                                                   *)

\* countltc knows the sum w, and finds these losers and this ltc by it.
FoundBy(w, losers, ltc) ==
  KnownWeight(w) /\ LtcRow(w).losers = losers /\ LtcRow(w).ltc = ltc

\* No sum is in two rows of the switch.
LEMMA OneRowEach ==
  ASSUME NEW row \in LtcRows, NEW w \in row.sums
  PROVE  FoundBy(w, row.losers, row.ltc)
<1>1. KnownWeight(w)
  BY DEF KnownWeight
<1>2. LtcRow(w) \in LtcRows /\ w \in LtcRow(w).sums
  BY <1>1 DEF KnownWeight, LtcRow
<1>3. \A other \in LtcRows : w \in other.sums => other = row
  <2>1. TAKE other \in LtcRows
  <2>2. HAVE w \in other.sums
  <2>3. row.ltc \in {0, 50, 100, 150, 200, 250, 300} /\ other.ltc \in {0, 50, 100, 150, 200, 250, 300}
    BY DEF LtcRows
  <2>4. CASE row.ltc = other.ltc
    BY <2>4 DEF LtcRows
  <2>5. CASE row.ltc < other.ltc
    BY <2>2, <2>5 DEF LtcRows
  <2>6. CASE other.ltc < row.ltc
    BY <2>2, <2>6 DEF LtcRows
  <2>7. QED
    BY <2>3, <2>4, <2>5, <2>6
<1>4. LtcRow(w) = row
  BY <1>2, <1>3
<1>5. QED
  BY <1>1, <1>4 DEF FoundBy

\* The rows of the switch, by their losers.
LEMMA RowsOfSwitch ==
  /\ \A w \in {384, 320, 224, 112} : FoundBy(w, 0, 0)
  /\ \A w \in {288, 208, 104, 88} : FoundBy(w, 1, 50)
  /\ \A w \in {49, 52, 56, 81, 84, 97, 100, 161, 164, 168, 176, 193, 196, 200, 257, 260, 264, 272} :
       FoundBy(w, 1, 100)
  /\ \A w \in {44, 76} : FoundBy(w, 2, 150)
  /\ \A w \in {25, 28, 34, 37, 41, 66, 69, 73, 130, 133, 137, 140, 145, 148, 152} : FoundBy(w, 2, 200)
  /\ \A w \in {18, 21} : FoundBy(w, 2, 250)
  /\ \A w \in {3, 6, 10, 13} : FoundBy(w, 3, 300)
<1>1. ASSUME NEW losers, NEW ltc, NEW S, [ltc |-> ltc, losers |-> losers, sums |-> S] \in LtcRows
      PROVE  \A w \in S : FoundBy(w, losers, ltc)
  <2> DEFINE row == [ltc |-> ltc, losers |-> losers, sums |-> S]
  <2>1. row \in LtcRows /\ row.sums = S /\ row.losers = losers /\ row.ltc = ltc
    BY <1>1
  <2> HIDE DEF row
  <2>2. QED
    BY <2>1, OneRowEach
<1>2. \A w \in {384, 320, 224, 112} :
       FoundBy(w, 0, 0)
  BY <1>1 DEF LtcRows
<1>3. \A w \in {288, 208, 104, 88} :
       FoundBy(w, 1, 50)
  BY <1>1 DEF LtcRows
<1>4. \A w \in {49, 52, 56, 81, 84, 97, 100, 161, 164, 168, 176, 193, 196, 200, 257, 260, 264, 272} :
       FoundBy(w, 1, 100)
  BY <1>1 DEF LtcRows
<1>5. \A w \in {44, 76} :
       FoundBy(w, 2, 150)
  BY <1>1 DEF LtcRows
<1>6. \A w \in {25, 28, 34, 37, 41, 66, 69, 73, 130, 133, 137, 140, 145, 148, 152} :
       FoundBy(w, 2, 200)
  BY <1>1 DEF LtcRows
<1>7. \A w \in {18, 21} :
       FoundBy(w, 2, 250)
  BY <1>1 DEF LtcRows
<1>8. \A w \in {3, 6, 10, 13} :
       FoundBy(w, 3, 300)
  BY <1>1 DEF LtcRows
<1>9. QED
  BY <1>2, <1>3, <1>4, <1>5, <1>6, <1>7, <1>8

One(p) == IF p THEN 1 ELSE 0

\* The sum w is found with so many losers, and half a loser more or less by the
\* modern count.
HasLosers(w, losers) ==
  \E ltc \in Nat : FoundBy(w, losers, ltc) /\ ltc - 100 * losers \in {-50, 0, 50}

\* The losers of a void, a singleton, two cards and three.
LEMMA LosersOfVoid == HasLosers(3 * LTC_VOID_WEIGHT, 0)
<1>1. FoundBy(384, 0, 0)
  BY RowsOfSwitch
<1>2. QED
  BY <1>1 DEF HasLosers, LTC_VOID_WEIGHT

\* The switch on the weight of a singleton.
LEMMA LosersOfOne ==
  ASSUME NEW a \in Ranks
  PROVE  HasLosers(LtcWeight(a) + 2 * LTC_VOID_WEIGHT, One(a # 12))
<1> USE DEF Ranks, LTC_VOID_WEIGHT, One, LtcWeight
<1>1. CASE a = 12
  <2>1. FoundBy(320, 0, 0)
    BY RowsOfSwitch
  <2>2. QED
    BY <1>1, <2>1 DEF HasLosers
<1>2. CASE a = 11
  <2>1. FoundBy(288, 1, 50)
    BY RowsOfSwitch
  <2>2. QED
    BY <1>2, <2>1 DEF HasLosers
<1>3. CASE a < 11
  <2>1. FoundBy(272, 1, 100) /\ FoundBy(264, 1, 100) /\ FoundBy(260, 1, 100) /\ FoundBy(257, 1, 100)
    BY RowsOfSwitch
  <2>2. LtcWeight(a) + 2 * LTC_VOID_WEIGHT \in {272, 264, 260, 257}
    BY <1>3
  <2>3. FoundBy(LtcWeight(a) + 2 * LTC_VOID_WEIGHT, 1, 100)
    BY <2>1, <2>2
  <2>4. QED
    BY <1>3, <2>3 DEF HasLosers
<1>4. QED
  BY <1>1, <1>2, <1>3

\* The switch on the weight of a doubleton.
LEMMA LosersOfTwo ==
  ASSUME NEW a \in Ranks, NEW b \in Ranks, a > b
  PROVE  HasLosers(LtcWeight(a) + LtcWeight(b) + LTC_VOID_WEIGHT, One(a # 12) + One(a # 11 /\ b # 11))
<1> DEFINE w == LtcWeight(a) + LtcWeight(b) + LTC_VOID_WEIGHT
<1> USE DEF Ranks, LTC_VOID_WEIGHT, One, LtcWeight
<1>1. CASE a = 12 /\ b = 11
  <2>1. FoundBy(224, 0, 0)
    BY RowsOfSwitch
  <2>2. QED
    BY <1>1, <2>1 DEF HasLosers
<1>2. CASE a = 12 /\ b = 10
  <2>1. FoundBy(208, 1, 50)
    BY RowsOfSwitch
  <2>2. QED
    BY <1>2, <2>1 DEF HasLosers
<1>3. CASE (a = 12 /\ b < 10) \/ a = 11
  <2>1. w \in {200, 196, 193, 176, 168, 164, 161}
    BY <1>3
  <2>2. FoundBy(w, 1, 100)
    <3> HIDE DEF w
    <3>1. QED
      BY <2>1, RowsOfSwitch
  <2>3. One(a # 12) + One(a # 11 /\ b # 11) = 1
    BY <1>3
  <2>4. QED
    BY <2>2, <2>3 DEF HasLosers
<1>4. CASE a < 11
  <2>1. w \in {152, 148, 145, 140, 137, 133, 130}
    BY <1>4
  <2>2. FoundBy(w, 2, 200)
    <3> HIDE DEF w
    <3>1. QED
      BY <2>1, RowsOfSwitch
  <2>3. One(a # 12) + One(a # 11 /\ b # 11) = 2
    BY <1>4
  <2>4. QED
    BY <2>2, <2>3 DEF HasLosers
<1>5. QED
  BY <1>1, <1>2, <1>3, <1>4

\* The switch on the weight of three cards.
LEMMA LosersOfThree ==
  ASSUME NEW a \in Ranks, NEW b \in Ranks, NEW c \in Ranks, a > b, b > c
  PROVE  HasLosers(LtcWeight(a) + LtcWeight(b) + LtcWeight(c),
                   One(a # 12) + One(a # 11 /\ b # 11) + One(a # 10 /\ b # 10 /\ c # 10))
<1> DEFINE w == LtcWeight(a) + LtcWeight(b) + LtcWeight(c)
           losers == One(a # 12) + One(a # 11 /\ b # 11) + One(a # 10 /\ b # 10 /\ c # 10)
<1> SUFFICES HasLosers(w, losers)
  OBVIOUS
<1> USE DEF Ranks, One, LtcWeight
<1>1. ASSUME NEW m \in Nat, NEW ltc \in Nat, losers = m, FoundBy(w, m, ltc), ltc - 100 * m \in {-50, 0, 50}
      PROVE  HasLosers(w, losers)
  <2> HIDE DEF w, losers
  <2>1. QED
    BY <1>1 DEF HasLosers
<1>2. CASE a = 12 /\ b = 11 /\ c = 10
  <2>1. w = 112 /\ losers = 0
    BY <1>2
  <2>2. FoundBy(112, 0, 0)
    BY RowsOfSwitch
  <2> HIDE DEF w, losers
  <2>3. QED
    BY <1>1, <2>1, <2>2
<1>3. CASE (a = 12 /\ b = 11 /\ c = 9) \/ (a = 12 /\ b = 10 /\ c = 9)
  <2>1. w \in {104, 88} /\ losers = 1
    BY <1>3
  <2> HIDE DEF w, losers
  <2>2. FoundBy(w, 1, 50)
    BY <2>1, RowsOfSwitch
  <2>3. QED
    BY <1>1, <2>1, <2>2
<1>4. CASE (a = 12 /\ b = 11 /\ c < 9) \/ (a = 12 /\ b = 10 /\ c < 9) \/ (a = 11 /\ b = 10)
  <2>1. w \in {100, 97, 84, 81, 56, 52, 49} /\ losers = 1
    BY <1>4
  <2> HIDE DEF w, losers
  <2>2. FoundBy(w, 1, 100)
    BY <2>1, RowsOfSwitch
  <2>3. QED
    BY <1>1, <2>1, <2>2
<1>5. CASE (a = 12 /\ b = 9 /\ c = 8) \/ (a = 11 /\ b = 9 /\ c = 8)
  <2>1. w \in {76, 44} /\ losers = 2
    BY <1>5
  <2> HIDE DEF w, losers
  <2>2. FoundBy(w, 2, 150)
    BY <2>1, RowsOfSwitch
  <2>3. QED
    BY <1>1, <2>1, <2>2
<1>6. CASE \/ a = 12 /\ b = 9 /\ c < 8
           \/ a = 12 /\ b < 9
           \/ a = 11 /\ b = 9 /\ c < 8
           \/ a = 11 /\ b < 9
           \/ a = 10 /\ b = 9
  <2>1. w \in {73, 69, 66, 41, 37, 34, 28, 25} /\ losers = 2
    BY <1>6
  <2> HIDE DEF w, losers
  <2>2. FoundBy(w, 2, 200)
    BY <2>1, RowsOfSwitch
  <2>3. QED
    BY <1>1, <2>1, <2>2
<1>7. CASE a = 10 /\ b < 9
  <2>1. w \in {21, 18} /\ losers = 2
    BY <1>7
  <2> HIDE DEF w, losers
  <2>2. FoundBy(w, 2, 250)
    BY <2>1, RowsOfSwitch
  <2>3. QED
    BY <1>1, <2>1, <2>2
<1>8. CASE a < 10
  <2>1. w \in {13, 10, 6, 3} /\ losers = 3
    BY <1>8
  <2> HIDE DEF w, losers
  <2>2. FoundBy(w, 3, 300)
    BY <2>1, RowsOfSwitch
  <2>3. QED
    BY <1>1, <2>1, <2>2
<1>9. QED
  BY <1>2, <1>3, <1>4, <1>5, <1>6, <1>7, <1>8

\* The honours missing from the first three cards of a suit.
MissingHonors(X) == {n \in 1..3 : Cardinality(X) >= n /\ (13 - n) \notin X}

\* The missing ones of three honours, one by one.
LEMMA MissingCounted ==
  ASSUME NEW M \in SUBSET (1..3)
  PROVE  Cardinality(M) = One(1 \in M) + One(2 \in M) + One(3 \in M)
<1> DEFINE L == M \ {1}
           K == L \ {2}
           J == K \ {3}
<1>1. J = {} /\ (2 \in L <=> 2 \in M) /\ (3 \in K <=> 3 \in M)
  OBVIOUS
<1>2. IsFiniteSet(M)
  <2>1. IsFiniteSet(1..3)
    <3>1. 1 \in Int /\ 3 \in Int
      OBVIOUS
    <3>2. QED
      BY <3>1, FS_Interval, Zenon
  <2>2. QED
    BY <2>1, FS_Subset
<1> HIDE DEF J
<1>3. IsFiniteSet(L) /\ Cardinality(M) = Cardinality(L) + One(1 \in M)
  BY <1>2, DropOne DEF One
<1> HIDE DEF L
<1>4. IsFiniteSet(K) /\ Cardinality(L) = Cardinality(K) + One(2 \in L)
  BY <1>3, DropOne DEF One
<1> HIDE DEF K
<1>5. Cardinality(K) = Cardinality(J) + One(3 \in K)
  BY <1>4, DropOne DEF One, J
<1>6. Cardinality(J) = 0
  BY <1>1, FS_EmptySet
<1>7. QED
  BY <1>1, <1>3, <1>4, <1>5, <1>6 DEF One

\* Whatever the cards of a suit, countltc knows their weight, and the losers it
\* finds by it are the honours missing from the first three.
LEMMA LosersAreMissing ==
  ASSUME NEW X \in SUBSET Ranks, IsFiniteSet(X), NEW top, HighestAre(top, X)
  PROVE  HasLosers(TopWeight(top), Cardinality(MissingHonors(X)))
<1> DEFINE V == LTC_VOID_WEIGHT
           W(x) == LtcWeight(x)
<1>0. V = 128 /\ \A x \in Ranks : W(x) \in Int
  BY Weights DEF LTC_VOID_WEIGHT
<1>1. Cardinality(MissingHonors(X)) = One(1 \in MissingHonors(X)) + One(2 \in MissingHonors(X)) + One(3 \in MissingHonors(X))
  <2>1. MissingHonors(X) \in SUBSET (1..3)
    BY DEF MissingHonors
  <2>2. QED
    BY <2>1, MissingCounted
<1>2. /\ 1 \in MissingHonors(X) <=> Cardinality(X) >= 1 /\ 12 \notin X
      /\ 2 \in MissingHonors(X) <=> Cardinality(X) >= 2 /\ 11 \notin X
      /\ 3 \in MissingHonors(X) <=> Cardinality(X) >= 3 /\ 10 \notin X
  BY DEF MissingHonors
<1> HIDE DEF V, W
<1>3. CASE X = {} /\ Cardinality(X) = 0 /\ top = <<V, V, V>>
  <2>1. TopWeight(top) = 3 * V
    BY <1>0, <1>3 DEF TopWeight
  <2>2. Cardinality(MissingHonors(X)) = 0
    BY <1>1, <1>2, <1>3 DEF One
  <2>3. QED
    BY <2>1, <2>2, LosersOfVoid DEF V
<1>4. CASE \E a \in X : X = {a} /\ Cardinality(X) = 1 /\ IsNth(X, a, 1) /\ top = <<W(a), V, V>>
  <2>1. PICK a \in X : X = {a} /\ Cardinality(X) = 1 /\ IsNth(X, a, 1) /\ top = <<W(a), V, V>>
    BY <1>4
  <2>2. TopWeight(top) = W(a) + 2 * V
    BY <1>0, <2>1 DEF TopWeight
  <2>3. Cardinality(MissingHonors(X)) = One(a # 12)
    BY <1>1, <1>2, <2>1 DEF One
  <2>4. HasLosers(W(a) + 2 * V, One(a # 12))
    BY LosersOfOne DEF V, W
  <2>5. QED
    BY <2>2, <2>3, <2>4
<1>5. CASE \E a, b \in X : /\ a > b /\ X = {a, b} /\ Cardinality(X) = 2
                          /\ IsNth(X, a, 1) /\ IsNth(X, b, 2) /\ top = <<W(a), W(b), V>>
  <2>1. PICK a \in X, b \in X : a > b /\ X = {a, b} /\ Cardinality(X) = 2 /\ top = <<W(a), W(b), V>>
    BY <1>5
  <2>2. TopWeight(top) = W(a) + W(b) + V
    BY <1>0, <2>1 DEF TopWeight
  <2>3. Cardinality(MissingHonors(X)) = One(a # 12) + One(a # 11 /\ b # 11)
    <3>1. (12 \notin X <=> a # 12) /\ (11 \notin X <=> a # 11 /\ b # 11)
      BY <2>1 DEF Ranks
    <3>2. QED
      BY <1>1, <1>2, <2>1, <3>1 DEF One
  <2>4. HasLosers(W(a) + W(b) + V, One(a # 12) + One(a # 11 /\ b # 11))
    BY <2>1, LosersOfTwo DEF V, W
  <2>5. QED
    BY <2>2, <2>3, <2>4
<1>6. CASE \E a, b, c \in X : /\ a > b /\ b > c /\ (\A x \in X : x > c => x \in {a, b})
                             /\ Cardinality(X) >= 3
                             /\ IsNth(X, a, 1) /\ IsNth(X, b, 2) /\ IsNth(X, c, 3)
                             /\ top = <<W(a), W(b), W(c)>>
  <2>1. PICK a \in X, b \in X, c \in X :
          /\ a > b /\ b > c /\ (\A x \in X : x > c => x \in {a, b})
          /\ Cardinality(X) >= 3 /\ top = <<W(a), W(b), W(c)>>
    BY <1>6
  <2>2. TopWeight(top) = W(a) + W(b) + W(c)
    BY <1>0, <2>1 DEF TopWeight
  <2>3. /\ 12 \notin X <=> a # 12
        /\ 11 \notin X <=> a # 11 /\ b # 11
        /\ 10 \notin X <=> a # 10 /\ b # 10 /\ c # 10
    BY <2>1 DEF Ranks
  <2>4. Cardinality(X) >= 1 /\ Cardinality(X) >= 2
    <3>1. Cardinality(X) \in Nat
      BY FS_CardinalityType
    <3>2. QED
      BY <2>1, <3>1
  <2>5. Cardinality(MissingHonors(X)) = One(a # 12) + One(a # 11 /\ b # 11) + One(a # 10 /\ b # 10 /\ c # 10)
    BY <1>1, <1>2, <2>1, <2>3, <2>4 DEF One
  <2>6. HasLosers(W(a) + W(b) + W(c), One(a # 12) + One(a # 11 /\ b # 11) + One(a # 10 /\ b # 10 /\ c # 10))
    BY <2>1, LosersOfThree DEF W
  <2>7. QED
    BY <2>2, <2>5, <2>6
<1>7. QED
  BY <1>3, <1>4, <1>5, <1>6, Placed DEF V, W

-----------------------------------------------------------------------------
(* The hand being read, whatever the tables that its cards are counted in. *)

AllCards == CardSuits \X Ranks

Triples == Int \X Int \X Int
StatsIn(tbl) ==
  [length : [CardSuits -> Int],
   counts : [DOMAIN tbl -> [CardSuits -> Int]], totalcounts : [DOMAIN tbl -> Int],
   topcards : [CardSuits -> Triples],
   ltc : [CardSuits -> Int], totalltc : Int, loser : [CardSuits -> Int], totalloser : Int]

\* A table gives every rank a value.
AreValues(tbl) == \A t \in DOMAIN tbl : \A r \in Ranks : tbl[t][r] \in Int

NoneYet == [s \in CardSuits |-> 0]

\* The counts of h are of the cards H, and the weights kept are of the highest.
CountsInPlace(h, H, tbl) ==
  \A s \in CardSuits :
    /\ HighestAre(h.topcards[s], RanksOf(H, s))
    /\ h.length[s] = Cardinality(RanksOf(H, s))
    /\ \A t \in DOMAIN tbl : h.counts[t][s] = SumFunctionOnSet(tbl[t], RanksOf(H, s))

TotalsInPlace(h, tbl) ==
  \A t \in DOMAIN tbl : h.totalcounts[t] = SumFunctionOnSet(h.counts[t], CardSuits)

\* Before the last card is read no loser is counted.
NoLosers(h) == h.ltc = NoneYet /\ h.totalltc = 0 /\ h.loser = NoneYet /\ h.totalloser = 0

LosersInPlace(h, H) ==
  /\ \A s \in CardSuits : /\ h.loser[s] = Cardinality(MissingHonors(RanksOf(H, s)))
                          /\ h.ltc[s] = LtcRow(TopWeight(h.topcards[s])).ltc
                          /\ h.ltc[s] - 100 * h.loser[s] \in {-50, 0, 50}
  /\ h.totalltc = SumFunction(h.ltc) /\ h.totalloser = SumFunction(h.loser)

IsRead(h, H, tbl) ==
  h \in StatsIn(tbl) /\ CountsInPlace(h, H, tbl) /\ TotalsInPlace(h, tbl) /\ NoLosers(h)

IsComplete(h, H, tbl) ==
  h \in StatsIn(tbl) /\ CountsInPlace(h, H, tbl) /\ TotalsInPlace(h, tbl) /\ LosersInPlace(h, H)

\* The inductive invariant of hand analysis.
HandInv ==
  /\ hand \in SUBSET Cards /\ phase \in {"reading", "counted"}
  /\ phase = "reading" => IsRead(hs, hand, HandTables)
  /\ phase = "counted" => IsComplete(hs, hand, HandTables)

\* The cards of a suit are ranks, and a card read is one more of its suit.
LEMMA SuitOf ==
  ASSUME NEW H \in SUBSET AllCards, NEW s \in CardSuits
  PROVE  RanksOf(H, s) \in SUBSET Ranks /\ IsFiniteSet(RanksOf(H, s))
<1>1. IsFiniteSet(Ranks)
  <2>1. 0 \in Int /\ 12 \in Int
    OBVIOUS
  <2>2. QED
    BY <2>1, FS_Interval, Zenon DEF Ranks
<1>2. RanksOf(H, s) \in SUBSET Ranks
  BY DEF RanksOf, AllCards
<1>3. QED
  BY <1>1, <1>2, FS_Subset

\* A card more is in its suit and in no other.
LEMMA SuitWithCard ==
  ASSUME NEW H \in SUBSET AllCards, NEW s \in CardSuits, NEW r \in Ranks, <<s, r>> \notin H,
         NEW H1, H1 = H \cup {<<s, r>>}
  PROVE  /\ r \notin RanksOf(H, s)
         /\ RanksOf(H1, s) = RanksOf(H, s) \cup {r}
         /\ \A q \in CardSuits \ {s} : RanksOf(H1, q) = RanksOf(H, q)
<1>1. \A c \in H : c = <<c[1], c[2]>>
  BY DEF AllCards
<1>2. r \notin RanksOf(H, s)
  BY <1>1 DEF RanksOf
<1>3. RanksOf(H1, s) = RanksOf(H, s) \cup {r}
  BY DEF RanksOf
<1>4. \A q \in CardSuits \ {s} : RanksOf(H1, q) = RanksOf(H, q)
  BY DEF RanksOf
<1>5. QED
  BY <1>2, <1>3, <1>4

\* The built-in values of a card are numbers.
LEMMA BuiltInValues == DOMAIN tblPointcount = 0..CONTROLS /\ AreValues(tblPointcount)
<1>1. DOMAIN tblPointcount = 0..CONTROLS
  BY DEF tblPointcount
<1>2. ASSUME NEW t \in 0..CONTROLS, NEW r \in Ranks
      PROVE  tblPointcount[t][r] \in Int
  <2>1. tblPointcount[t][r] = IF r < 8 THEN 0 ELSE HonourValues[t + 1][r - 7]
    BY DEF tblPointcount
  <2>2. CASE r < 8
    BY <2>1, <2>2
  <2>3. CASE r >= 8
    <3>1. t + 1 \in 1..13 /\ r - 7 \in 1..5
      BY <2>3 DEF CONTROLS, Ranks
    <3>2. \A n \in 1..13 : HonourValues[n] \in Int \X Int \X Int \X Int \X Int
      BY DEF HonourValues
    <3>3. HonourValues[t + 1][r - 7] \in Int
      <4>1. HonourValues[t + 1] \in Int \X Int \X Int \X Int \X Int
        BY <3>1, <3>2
      <4>2. QED
        BY <3>1, <4>1
    <3>4. QED
      BY <2>1, <2>3, <3>3 DEF Ranks
  <2>4. QED
    BY <2>2, <2>3 DEF Ranks
<1>3. QED
  BY <1>1, <1>2 DEF AreValues

\* A card is worth a number of points, and of controls.
LEMMA ValuesOfCards == DOMAIN HandTables = {POINTS, CONTROLS} /\ AreValues(HandTables)
<1>1. DOMAIN HandTables = {POINTS, CONTROLS} /\ {POINTS, CONTROLS} \subseteq 0..CONTROLS
  BY DEF HandTables, POINTS, CONTROLS
<1>2. \A t \in {POINTS, CONTROLS} : HandTables[t] = tblPointcount[t]
  BY DEF HandTables
<1>3. QED
  BY <1>1, <1>2, BuiltInValues DEF AreValues

\* Counts of the four suits have a sum.
LEMMA SuitsSummable ==
  ASSUME NEW f \in [CardSuits -> Int]
  PROVE  Summable(f, CardSuits) /\ SumFunction(f) = SumFunctionOnSet(f, CardSuits)
<1>1. IsFiniteSet(CardSuits)
  <2>1. 0 \in Int /\ 3 \in Int
    OBVIOUS
  <2>2. QED
    BY <2>1, FS_Interval, Zenon DEF CardSuits
<1>2. DOMAIN f = CardSuits
  OBVIOUS
<1>3. QED
  BY <1>1, <1>2 DEF Summable, SumFunction

\* What analyze changes for a card: the counts of its suit and the totals.
LEMMA CardCounted ==
  ASSUME NEW tbl, AreValues(tbl), NEW h \in StatsIn(tbl), NEW s \in CardSuits, NEW r \in Ranks,
         NEW g, g = WithCard(h, s, r, tbl)
  PROVE  /\ g \in StatsIn(tbl)
         /\ g.ltc = h.ltc /\ g.totalltc = h.totalltc
         /\ g.loser = h.loser /\ g.totalloser = h.totalloser
         /\ \A q \in CardSuits :
              /\ g.length[q] = IF q = s THEN h.length[q] + 1 ELSE h.length[q]
              /\ g.topcards[q] = IF q = s THEN TopThree(h.topcards[q], LtcWeight(r)) ELSE h.topcards[q]
         /\ \A t \in DOMAIN tbl :
              /\ \A q \in CardSuits : g.counts[t][q] =
                   IF q = s THEN h.counts[t][q] + tbl[t][r] ELSE h.counts[t][q]
              /\ g.totalcounts[t] = h.totalcounts[t] + tbl[t][r]
<1> DEFINE Tables == DOMAIN tbl
           length == [h.length EXCEPT ![s] = @ + 1]
           top == [h.topcards EXCEPT ![s] = TopThree(@, LtcWeight(r))]
           counts == [t \in Tables |-> [h.counts[t] EXCEPT ![s] = @ + tbl[t][r]]]
           totals == [t \in Tables |-> h.totalcounts[t] + tbl[t][r]]
<1>1. g = [h EXCEPT !.length = length, !.counts = counts, !.totalcounts = totals, !.topcards = top]
  BY DEF WithCard, StatsIn
<1>2. length \in [CardSuits -> Int]
  BY DEF StatsIn
<1>3. top \in [CardSuits -> Triples]
  <2>1. h.topcards \in [CardSuits -> Triples]
    BY DEF StatsIn
  <2>2. LtcWeight(r) \in Int
    BY Weights
  <2>3. \A x \in Triples : TopThree(x, LtcWeight(r)) \in Triples
    BY <2>2 DEF TopThree, Triples
  <2>4. QED
    BY <2>1, <2>3
<1>4. \A t \in Tables : tbl[t][r] \in Int
  BY DEF AreValues
<1>5. counts \in [Tables -> [CardSuits -> Int]] /\ totals \in [Tables -> Int]
  BY <1>4 DEF StatsIn
<1> HIDE DEF length, top, counts, totals, Tables
<1>6. /\ g.length = length /\ g.counts = counts /\ g.totalcounts = totals /\ g.topcards = top
      /\ g.ltc = h.ltc /\ g.totalltc = h.totalltc
      /\ g.loser = h.loser /\ g.totalloser = h.totalloser
  BY <1>1 DEF StatsIn
<1>7. g \in StatsIn(tbl)
  BY <1>1, <1>2, <1>3, <1>5 DEF StatsIn, Tables
<1>8. \A q \in CardSuits :
        /\ length[q] = IF q = s THEN h.length[q] + 1 ELSE h.length[q]
        /\ top[q] = IF q = s THEN TopThree(h.topcards[q], LtcWeight(r)) ELSE h.topcards[q]
  BY DEF length, top, StatsIn
<1>9. \A t \in Tables :
        /\ \A q \in CardSuits : counts[t][q] =
             IF q = s THEN h.counts[t][q] + tbl[t][r] ELSE h.counts[t][q]
        /\ totals[t] = h.totalcounts[t] + tbl[t][r]
  BY DEF counts, totals, StatsIn, Tables
<1>10. QED
  BY <1>6, <1>7, <1>8, <1>9 DEF Tables

\* A card read is counted in its suit, and in its place among the highest.
LEMMA OneCardRead ==
  ASSUME NEW tbl, AreValues(tbl), NEW H \in SUBSET AllCards, NEW h, IsRead(h, H, tbl),
         NEW s \in CardSuits, NEW r \in Ranks, <<s, r>> \notin H
  PROVE  IsRead(WithCard(h, s, r, tbl), H \cup {<<s, r>>}, tbl)
<1> DEFINE X(q) == RanksOf(H, q)
           H1 == H \cup {<<s, r>>}
           g == WithCard(h, s, r, tbl)
<1>1. h \in StatsIn(tbl) /\ CountsInPlace(h, H, tbl) /\ TotalsInPlace(h, tbl) /\ NoLosers(h)
  BY DEF IsRead
<1> HIDE DEF g
<1>2. /\ g \in StatsIn(tbl)
      /\ g.ltc = h.ltc /\ g.totalltc = h.totalltc
      /\ g.loser = h.loser /\ g.totalloser = h.totalloser
      /\ \A q \in CardSuits :
           /\ g.length[q] = IF q = s THEN h.length[q] + 1 ELSE h.length[q]
           /\ g.topcards[q] = IF q = s THEN TopThree(h.topcards[q], LtcWeight(r)) ELSE h.topcards[q]
      /\ \A t \in DOMAIN tbl :
           /\ \A q \in CardSuits : g.counts[t][q] =
                IF q = s THEN h.counts[t][q] + tbl[t][r] ELSE h.counts[t][q]
           /\ g.totalcounts[t] = h.totalcounts[t] + tbl[t][r]
  <2>1. g = WithCard(h, s, r, tbl)
    BY DEF g
  <2>2. QED
    BY <1>1, <2>1, CardCounted
<1>3. /\ r \notin X(s) /\ RanksOf(H1, s) = X(s) \cup {r}
      /\ \A q \in CardSuits \ {s} : RanksOf(H1, q) = X(q)
  <2>1. H1 = H \cup {<<s, r>>}
    OBVIOUS
  <2> HIDE DEF H1
  <2>2. QED
    BY <2>1, SuitWithCard
<1>4. \A q \in CardSuits : X(q) \in SUBSET Ranks /\ IsFiniteSet(X(q))
  BY SuitOf
<1> HIDE DEF X, H1
<1>5. CountsInPlace(g, H1, tbl)
  <2>1. ASSUME NEW q \in CardSuits, q # s
        PROVE  /\ HighestAre(g.topcards[q], RanksOf(H1, q))
               /\ g.length[q] = Cardinality(RanksOf(H1, q))
               /\ \A t \in DOMAIN tbl : g.counts[t][q] = SumFunctionOnSet(tbl[t], RanksOf(H1, q))
    <3>1. RanksOf(H1, q) = X(q)
      BY <1>3, <2>1
    <3>2. /\ HighestAre(h.topcards[q], X(q)) /\ h.length[q] = Cardinality(X(q))
          /\ \A t \in DOMAIN tbl : h.counts[t][q] = SumFunctionOnSet(tbl[t], X(q))
      BY <1>1 DEF CountsInPlace, X
    <3>3. g.topcards[q] = h.topcards[q] /\ g.length[q] = h.length[q]
      BY <1>2, <2>1
    <3>4. \A t \in DOMAIN tbl : g.counts[t][q] = h.counts[t][q]
      BY <1>2, <2>1
    <3>5. HighestAre(g.topcards[q], RanksOf(H1, q)) /\ g.length[q] = Cardinality(RanksOf(H1, q))
      BY <3>1, <3>2, <3>3
    <3>6. QED
      BY <3>1, <3>2, <3>4, <3>5
  <2>2. HighestAre(g.topcards[s], X(s) \cup {r})
    <3>1. HighestAre(h.topcards[s], X(s))
      BY <1>1 DEF CountsInPlace, X
    <3>2. HighestAre(TopThree(h.topcards[s], LtcWeight(r)), X(s) \cup {r})
      BY <1>3, <1>4, <3>1, OneCardMore
    <3>3. QED
      BY <1>2, <3>2
  <2>3. g.length[s] = Cardinality(X(s) \cup {r})
    <3>1. h.length[s] = Cardinality(X(s))
      BY <1>1 DEF CountsInPlace, X
    <3>2. Cardinality(X(s) \cup {r}) = Cardinality(X(s)) + 1
      BY <1>3, <1>4, FS_AddElement
    <3>3. QED
      BY <1>2, <3>1, <3>2
  <2>4. ASSUME NEW t \in DOMAIN tbl
        PROVE  g.counts[t][s] = SumFunctionOnSet(tbl[t], X(s) \cup {r})
    <3>1. h.counts[t][s] = SumFunctionOnSet(tbl[t], X(s))
      BY <1>1 DEF CountsInPlace, X
    <3>2. Summable(tbl[t], X(s) \cup {r}) /\ Summable(tbl[t], X(s))
      <4>1. IsFiniteSet(X(s) \cup {r}) /\ X(s) \cup {r} \subseteq Ranks
        BY <1>4, FS_AddElement
      <4>2. QED
        BY <1>4, <4>1 DEF Summable, AreValues
    <3>3. SumFunctionOnSet(tbl[t], X(s) \cup {r}) = tbl[t][r] + SumFunctionOnSet(tbl[t], X(s))
      BY <1>3, <3>2, SumWithOne
    <3>4. SumFunctionOnSet(tbl[t], X(s)) \in Int /\ tbl[t][r] \in Int
      BY <3>2, SumOnSet DEF AreValues
    <3>5. g.counts[t][s] = h.counts[t][s] + tbl[t][r]
      BY <1>2
    <3>6. QED
      BY <3>1, <3>3, <3>4, <3>5
  <2>5. ASSUME NEW q \in CardSuits
        PROVE  /\ HighestAre(g.topcards[q], RanksOf(H1, q))
               /\ g.length[q] = Cardinality(RanksOf(H1, q))
               /\ \A t \in DOMAIN tbl : g.counts[t][q] = SumFunctionOnSet(tbl[t], RanksOf(H1, q))
    <3>1. CASE q # s
      BY <2>1, <3>1
    <3>2. CASE q = s
      BY <1>3, <2>2, <2>3, <2>4, <3>2
    <3>3. QED
      BY <3>1, <3>2
  <2>6. QED
    BY <2>5 DEF CountsInPlace
<1>6. TotalsInPlace(g, tbl)
  <2>1. ASSUME NEW t \in DOMAIN tbl
        PROVE  g.totalcounts[t] = SumFunctionOnSet(g.counts[t], CardSuits)
    <3> DEFINE e == h.counts[t]
               f == g.counts[t]
               k == tbl[t][r]
    <3>1. /\ e \in [CardSuits -> Int] /\ k \in Int
          /\ \A q \in CardSuits : f[q] = IF q = s THEN e[q] + k ELSE e[q]
      BY <1>1, <1>2 DEF StatsIn, AreValues
    <3>2. h.totalcounts[t] = SumFunctionOnSet(e, CardSuits) /\ g.totalcounts[t] = h.totalcounts[t] + k
      BY <1>1, <1>2 DEF TotalsInPlace
    <3> HIDE DEF e, f, k
    <3>3. Summable(e, CardSuits)
      BY <3>1, SuitsSummable
    <3>4. KMoreAt(s, k, e, f, CardSuits)
      BY <3>1, <3>3 DEF KMoreAt, MoreAt
    <3>5. SumFunctionOnSet(f, CardSuits) = SumFunctionOnSet(e, CardSuits) + k
      BY <3>4, SumOfKMore
    <3>6. QED
      BY <3>2, <3>5 DEF f
  <2>2. QED
    BY <2>1 DEF TotalsInPlace
<1>7. NoLosers(g)
  BY <1>1, <1>2 DEF NoLosers
<1>8. IsRead(g, H1, tbl)
  BY <1>2, <1>5, <1>6, <1>7 DEF IsRead
<1>9. QED
  BY <1>8 DEF g, H1

\* The last card read: countltc knows the weight of every suit.
LEMMA LosersCounted ==
  ASSUME NEW tbl, NEW H \in SUBSET AllCards, NEW h, IsRead(h, H, tbl)
  PROVE  LtcKnown(h) /\ IsComplete(WithLtc(h), H, tbl)
<1> DEFINE X(q) == RanksOf(H, q)
           losers(q) == Cardinality(MissingHonors(X(q)))
           w(q) == TopWeight(h.topcards[q])
           g == WithLtc(h)
<1>1. h \in StatsIn(tbl) /\ CountsInPlace(h, H, tbl) /\ TotalsInPlace(h, tbl) /\ NoLosers(h)
  BY DEF IsRead
<1>2. \A q \in CardSuits : X(q) \in SUBSET Ranks /\ IsFiniteSet(X(q)) /\ HighestAre(h.topcards[q], X(q))
  BY <1>1, SuitOf DEF CountsInPlace
<1> HIDE DEF X, g
<1>3. \A q \in CardSuits : HasLosers(w(q), losers(q))
  BY <1>2, LosersAreMissing
<1> HIDE DEF losers, w
<1>4. ASSUME NEW q \in CardSuits
      PROVE  /\ KnownWeight(w(q)) /\ LtcRow(w(q)).losers = losers(q)
             /\ LtcRow(w(q)).ltc \in Int /\ LtcRow(w(q)).losers \in Int
             /\ LtcRow(w(q)).ltc - 100 * losers(q) \in {-50, 0, 50}
  <2>1. PICK ltc \in Nat : FoundBy(w(q), losers(q), ltc) /\ ltc - 100 * losers(q) \in {-50, 0, 50}
    BY <1>3 DEF HasLosers
  <2>2. losers(q) \in Int
    <3>1. MissingHonors(X(q)) \in SUBSET (1..3)
      BY DEF MissingHonors
    <3>2. \A p : One(p) \in Int
      BY DEF One
    <3>3. QED
      BY <3>1, <3>2, MissingCounted DEF losers
  <2>3. QED
    BY <2>1, <2>2 DEF FoundBy
<1>5. LtcKnown(h)
  BY <1>4 DEF LtcKnown, w
<1> DEFINE row == [q \in CardSuits |-> LtcRow(w(q))]
           ltcs == [q \in CardSuits |-> row[q].ltc]
           lost == [q \in CardSuits |-> row[q].losers]
<1>7. g = [h EXCEPT !.ltc = ltcs, !.totalltc = SumFunction(ltcs),
                    !.loser = lost, !.totalloser = @ + SumFunction(lost)]
  BY DEF WithLtc, w, g
<1>8. /\ \A q \in CardSuits : /\ lost[q] = losers(q) /\ ltcs[q] = LtcRow(w(q)).ltc
                              /\ ltcs[q] - 100 * lost[q] \in {-50, 0, 50}
      /\ ltcs \in [CardSuits -> Int] /\ lost \in [CardSuits -> Int]
  BY <1>4
<1> HIDE DEF row, ltcs, lost
<1>9. SumFunction(ltcs) \in Int /\ SumFunction(lost) \in Int
  BY <1>8, SuitsSummable, SumOnSet
<1>10. h.totalloser = 0
  BY <1>1 DEF NoLosers
<1>11. /\ g.length = h.length /\ g.counts = h.counts /\ g.totalcounts = h.totalcounts
       /\ g.topcards = h.topcards
       /\ g.ltc = ltcs /\ g.totalltc = SumFunction(ltcs)
       /\ g.loser = lost /\ g.totalloser = SumFunction(lost)
  <2>1. g.totalloser = h.totalloser + SumFunction(lost)
    BY <1>1, <1>7 DEF StatsIn
  <2>2. g.totalloser = SumFunction(lost)
    BY <1>9, <1>10, <2>1
  <2>3. QED
    BY <1>1, <1>7, <2>2 DEF StatsIn
<1>12. g \in StatsIn(tbl)
  <2>1. h.totalloser + SumFunction(lost) \in Int
    BY <1>9, <1>10
  <2>2. QED
    BY <1>1, <1>7, <1>8, <1>9, <2>1 DEF StatsIn
<1>13. CountsInPlace(g, H, tbl) /\ TotalsInPlace(g, tbl)
  <2>1. CountsInPlace(g, H, tbl)
    BY <1>1, <1>11 DEF CountsInPlace
  <2>2. TotalsInPlace(g, tbl)
    BY <1>1, <1>11 DEF TotalsInPlace
  <2>3. QED
    BY <2>1, <2>2
<1>14. LosersInPlace(g, H)
  <2>1. \A q \in CardSuits : /\ g.loser[q] = Cardinality(MissingHonors(RanksOf(H, q)))
                             /\ g.ltc[q] = LtcRow(TopWeight(g.topcards[q])).ltc
                             /\ g.ltc[q] - 100 * g.loser[q] \in {-50, 0, 50}
    BY <1>8, <1>11 DEF losers, X, w
  <2>2. QED
    BY <1>11, <2>1 DEF LosersInPlace
<1>15. IsComplete(g, H, tbl)
  BY <1>12, <1>13, <1>14 DEF IsComplete
<1>16. QED
  BY <1>5, <1>15 DEF g

\* A hand to be counted is cleared of the one before.
LEMMA ClearedHand ==
  ASSUME NEW tbl
  PROVE  IsRead(Cleared(tbl), {}, tbl)
<1> DEFINE h == Cleared(tbl)
<1>1. \A q : RanksOf({}, q) = {}
  BY DEF RanksOf
<1>2. /\ h.length = NoneYet /\ h.ltc = NoneYet /\ h.totalltc = 0 /\ h.loser = NoneYet /\ h.totalloser = 0
      /\ \A t \in DOMAIN tbl : h.counts[t] = NoneYet /\ h.totalcounts[t] = 0
      /\ \A q \in CardSuits : h.topcards[q] = <<LTC_VOID_WEIGHT, LTC_VOID_WEIGHT, LTC_VOID_WEIGHT>>
  BY DEF Cleared, NoneYet
<1>3. h \in StatsIn(tbl)
  BY DEF Cleared, StatsIn, Triples, LTC_VOID_WEIGHT
<1> HIDE DEF h
<1>4. SumFunctionOnSet(NoneYet, CardSuits) = 0
  <2>1. NoneYet \in [CardSuits -> Int] /\ \A q \in CardSuits : NoneYet[q] = 0
    BY DEF NoneYet
  <2>2. IsFiniteSet(CardSuits)
    BY <2>1, SuitsSummable DEF Summable
  <2>3. QED
    BY <2>1, <2>2, SumOfZeros
<1>5. CountsInPlace(h, {}, tbl)
  <2>1. \A t \in DOMAIN tbl : SumFunctionOnSet(tbl[t], {}) = 0
    BY FS_EmptySet, SumOfZeros
  <2>2. Cardinality({}) = 0
    BY FS_EmptySet
  <2>3. ASSUME NEW q \in CardSuits
        PROVE  HighestAre(h.topcards[q], {}) /\ h.length[q] = 0 /\ \A t \in DOMAIN tbl : h.counts[t][q] = 0
    BY <1>2 DEF HighestAre, NoneYet
  <2>4. QED
    BY <1>1, <2>1, <2>2, <2>3 DEF CountsInPlace
<1>6. TotalsInPlace(h, tbl)
  BY <1>2, <1>4 DEF TotalsInPlace
<1>7. NoLosers(h)
  BY <1>2 DEF NoLosers
<1>8. QED
  BY <1>3, <1>5, <1>6, <1>7 DEF IsRead, h

\* The inductive invariant of hand analysis.
THEOREM HandStatIsInductive == HandStatSpec => []HandInv
<1>1. HandStatInit => HandInv
  BY ClearedHand DEF HandStatInit, HandInv
<1>2. HandInv /\ [HandStatNext]_handVars => HandInv'
  <2> SUFFICES ASSUME HandInv, [HandStatNext]_handVars
               PROVE  HandInv'
    OBVIOUS
  <2>0. hand \in SUBSET AllCards
    BY HandStatAssumption DEF HandInv, AllCards
  <2>1. CASE \E c \in Cards : ReadCard(c[1], c[2])
    <3>1. PICK c \in Cards : ReadCard(c[1], c[2])
      BY <2>1
    <3>2. <<c[1], c[2]>> \in Cards /\ c[1] \in CardSuits /\ c[2] \in Ranks
      BY HandStatAssumption
    <3>3. /\ phase = "reading" /\ phase' = phase /\ <<c[1], c[2]>> \notin hand
          /\ hand' = hand \cup {<<c[1], c[2]>>} /\ hs' = WithCard(hs, c[1], c[2], HandTables)
      BY <3>1 DEF ReadCard
    <3>4. IsRead(hs, hand, HandTables) /\ hand \in SUBSET Cards
      BY <3>3 DEF HandInv
    <3>5. IsRead(hs', hand', HandTables)
      BY <2>0, <3>2, <3>3, <3>4, ValuesOfCards, OneCardRead
    <3>6. QED
      BY <3>2, <3>3, <3>4, <3>5 DEF HandInv
  <2>2. CASE CountLtc
    <3>1. phase = "reading" /\ hand' = hand /\ IsRead(hs, hand, HandTables) /\ hand \in SUBSET Cards
      BY <2>2 DEF CountLtc, HandInv
    <3>2. LtcKnown(hs) /\ IsComplete(WithLtc(hs), hand, HandTables)
      BY <2>0, <3>1, LosersCounted
    <3>3. phase' = "counted" /\ hs' = WithLtc(hs)
      BY <2>2, <3>2 DEF CountLtc
    <3>4. QED
      BY <3>1, <3>2, <3>3 DEF HandInv
  <2>3. CASE NextHand
    BY <2>3, ClearedHand DEF NextHand, HandInv
  <2>4. CASE UNCHANGED handVars
    BY <2>4 DEF handVars, HandInv
  <2>5. QED
    BY <2>1, <2>2, <2>3, <2>4 DEF HandStatNext
<1>3. QED
  BY <1>1, <1>2, PTL DEF HandStatSpec

\* The weight kept n-th of a suit is that of its n-th highest card.
LEMMA KeptInOrder ==
  ASSUME NEW H \in SUBSET AllCards, NEW q \in CardSuits, NEW n \in 1..3, NEW top,
         HighestAre(top, RanksOf(H, q))
  PROVE  top[n] = IF Held(H, q, n) THEN LtcWeight(Highest(H, q, n)) ELSE LTC_VOID_WEIGHT
<1> DEFINE X == RanksOf(H, q)
           V == LTC_VOID_WEIGHT
           W(x) == LtcWeight(x)
<1>1. X \in SUBSET Ranks /\ IsFiniteSet(X)
  BY SuitOf
<1>2. \A r, m : IsNth(X, r, m) => Highest(H, q, m) = r
  BY <1>1, NthIsOne DEF Highest
<1>3. \A m : Held(H, q, m) <=> Cardinality(X) >= m
  BY DEF Held
<1>4. HighestAre(top, X)
  OBVIOUS
<1> HIDE DEF X, V, W
<1>5. CASE X = {} /\ Cardinality(X) = 0 /\ top = <<V, V, V>>
  <2>1. ~Held(H, q, n) /\ top[n] = V
    BY <1>3, <1>5
  <2>2. QED
    BY <2>1 DEF V
<1>6. CASE \E a \in X : X = {a} /\ Cardinality(X) = 1 /\ IsNth(X, a, 1) /\ top = <<W(a), V, V>>
  <2>1. PICK a \in X : X = {a} /\ Cardinality(X) = 1 /\ IsNth(X, a, 1) /\ top = <<W(a), V, V>>
    BY <1>6
  <2>2. Highest(H, q, 1) = a
    BY <1>2, <2>1
  <2>3. Held(H, q, n) <=> n = 1
    BY <1>3, <2>1
  <2>4. QED
    BY <2>1, <2>2, <2>3 DEF V, W
<1>7. CASE \E a, b \in X : /\ a > b /\ X = {a, b} /\ Cardinality(X) = 2
                          /\ IsNth(X, a, 1) /\ IsNth(X, b, 2) /\ top = <<W(a), W(b), V>>
  <2>1. PICK a \in X, b \in X : /\ Cardinality(X) = 2 /\ IsNth(X, a, 1) /\ IsNth(X, b, 2)
                                /\ top = <<W(a), W(b), V>>
    BY <1>7
  <2>2. Highest(H, q, 1) = a /\ Highest(H, q, 2) = b
    BY <1>2, <2>1
  <2>3. Held(H, q, n) <=> n \in {1, 2}
    BY <1>3, <2>1
  <2>4. QED
    BY <2>1, <2>2, <2>3 DEF V, W
<1>8. CASE \E a, b, c \in X : /\ a > b /\ b > c /\ (\A x \in X : x > c => x \in {a, b})
                             /\ Cardinality(X) >= 3
                             /\ IsNth(X, a, 1) /\ IsNth(X, b, 2) /\ IsNth(X, c, 3)
                             /\ top = <<W(a), W(b), W(c)>>
  <2>1. PICK a \in X, b \in X, c \in X :
          /\ Cardinality(X) >= 3 /\ IsNth(X, a, 1) /\ IsNth(X, b, 2) /\ IsNth(X, c, 3)
          /\ top = <<W(a), W(b), W(c)>>
    BY <1>8
  <2>2. Highest(H, q, 1) = a /\ Highest(H, q, 2) = b /\ Highest(H, q, 3) = c
    BY <1>2, <2>1
  <2>3. Held(H, q, n)
    <3>1. Cardinality(X) \in Nat
      BY <1>1, FS_CardinalityType
    <3>2. QED
      BY <1>3, <2>1, <3>1
  <2>4. QED
    BY <2>1, <2>2, <2>3 DEF W
<1>9. QED
  BY <1>1, <1>4, <1>5, <1>6, <1>7, <1>8, Placed DEF V, W

\* The counts, of these cards, in the words of the model.
AreStats(h, H, tbl) ==
  /\ \A q \in CardSuits, n \in 1..3 :
       h.topcards[q][n] = IF Held(H, q, n) THEN LtcWeight(Highest(H, q, n)) ELSE LTC_VOID_WEIGHT
  /\ \A t \in DOMAIN tbl :
       /\ h.counts[t] = [q \in CardSuits |-> SumFunction([r \in RanksOf(H, q) |-> tbl[t][r]])]
       /\ h.totalcounts[t] = SumFunction(h.counts[t])
  /\ h.length = [q \in CardSuits |-> Cardinality(RanksOf(H, q))]

LEMMA StatsOf ==
  ASSUME NEW tbl, AreValues(tbl), NEW H \in SUBSET AllCards, NEW h \in StatsIn(tbl),
         CountsInPlace(h, H, tbl), TotalsInPlace(h, tbl)
  PROVE  AreStats(h, H, tbl)
<1>1. \A q \in CardSuits, n \in 1..3 :
        h.topcards[q][n] = IF Held(H, q, n) THEN LtcWeight(Highest(H, q, n)) ELSE LTC_VOID_WEIGHT
  BY KeptInOrder DEF CountsInPlace
<1>2. ASSUME NEW t \in DOMAIN tbl
      PROVE  /\ h.counts[t] = [q \in CardSuits |-> SumFunction([r \in RanksOf(H, q) |-> tbl[t][r]])]
             /\ h.totalcounts[t] = SumFunction(h.counts[t])
  <2>1. ASSUME NEW q \in CardSuits
        PROVE  h.counts[t][q] = SumFunction([r \in RanksOf(H, q) |-> tbl[t][r]])
    <3>1. RanksOf(H, q) \in SUBSET Ranks /\ IsFiniteSet(RanksOf(H, q))
      BY SuitOf
    <3>2. Summable(tbl[t], RanksOf(H, q))
      BY <3>1 DEF Summable, AreValues
    <3>3. h.counts[t][q] = SumFunctionOnSet(tbl[t], RanksOf(H, q))
      BY DEF CountsInPlace
    <3>4. QED
      BY <3>2, <3>3, SumOfPart
  <2>2. h.counts[t] \in [CardSuits -> Int]
    BY DEF StatsIn
  <2>3. h.totalcounts[t] = SumFunction(h.counts[t])
    BY <2>2, SuitsSummable DEF TotalsInPlace
  <2>4. QED
    BY <2>1, <2>2, <2>3
<1>3. h.length = [q \in CardSuits |-> Cardinality(RanksOf(H, q))]
  BY DEF CountsInPlace, StatsIn
<1>4. QED
  BY <1>1, <1>2, <1>3 DEF AreStats

\* The statistics of a hand are of this hand, for whatever cards and in whatever
\* order they are read: analyze, upd_topcards and countltc.
THEOREM HandsAreAnalysed == HandStatSpec => []StatsOfThisHand
<1>1. ASSUME HandInv
      PROVE  StatsOfThisHand
  <2>1. /\ hand \in SUBSET AllCards /\ hs \in StatsIn(HandTables) /\ phase \in {"reading", "counted"}
        /\ CountsInPlace(hs, hand, HandTables) /\ TotalsInPlace(hs, HandTables)
        /\ phase = "reading" => NoLosers(hs)
        /\ phase = "counted" => LosersInPlace(hs, hand)
    BY <1>1, HandStatAssumption DEF HandInv, IsRead, IsComplete, AllCards
  <2>2. AreStats(hs, hand, HandTables)
    BY <2>1, ValuesOfCards, StatsOf
  <2>3. hs.totalltc = SumFunction(hs.ltc) /\ hs.totalloser = SumFunction(hs.loser)
    <3>1. CASE phase = "counted"
      BY <2>1, <3>1 DEF LosersInPlace
    <3>2. CASE phase = "reading"
      <4>1. NoneYet \in [CardSuits -> Int] /\ \A q \in CardSuits : NoneYet[q] = 0
        BY DEF NoneYet
      <4>2. Summable(NoneYet, CardSuits) /\ SumFunction(NoneYet) = SumFunctionOnSet(NoneYet, CardSuits)
        BY <4>1, SuitsSummable
      <4>3. SumFunction(NoneYet) = 0
        BY <4>1, <4>2, SumOfZeros DEF Summable
      <4>4. QED
        BY <2>1, <3>2, <4>3 DEF NoLosers
    <3>3. QED
      BY <2>1, <3>1, <3>2
  <2>4. LosersAreMissingHonours
    <3>1. \A q : MissingHonors(RanksOf(hand, q))
                   = {n \in 1..3 : Held(hand, q, n) /\ (13 - n) \notin RanksOf(hand, q)}
      BY DEF MissingHonors, Held
    <3>2. QED
      BY <2>1, <3>1 DEF LosersInPlace, LosersAreMissingHonours
  <2>5. QED
    BY <2>2, <2>3, <2>4 DEF StatsOfThisHand, AreStats
<1>2. QED
  BY <1>1, HandStatIsInductive, PTL

-----------------------------------------------------------------------------
(* Expressions: what its recursive functions are.                          *)

\* The last element of a set of numbers.
LEMMA LastIs ==
  ASSUME NEW K, K \subseteq Int, NEW k \in K, \A j \in K : j <= k
  PROVE  LastOf(K) = k
<1>1. \A m \in K : (\A j \in K : j <= m) => m = k
  OBVIOUS
<1>2. QED
  BY <1>1 DEF LastOf

\* Induction up to a number: what holds of 0 and of each next number holds of it.
LEMMA UpToNumber ==
  ASSUME NEW N \in Nat, NEW S, 0 \in S, \A n \in 1..N : n - 1 \in S => n \in S
  PROVE  N \in S
<1> DEFINE B == (0..N) \ S
<1>1. B \subseteq Nat
  OBVIOUS
<1>2. ASSUME NEW m \in B, \A l \in B : m <= l
      PROVE  FALSE
  <2>1. m \in 1..N /\ m - 1 \in 0..N /\ ~(m <= m - 1)
    OBVIOUS
  <2>2. m - 1 \in S
    BY <1>2, <2>1
  <2>3. QED
    BY <2>1, <2>2
<1>3. B = {}
  <2> HIDE DEF B
  <2>1. QED
    BY <1>1, <1>2, LeastElement
<1>4. QED
  BY <1>3

\* Induction over what comes before.
LEMMA ByEarlier ==
  ASSUME NEW N \in Nat, NEW S, \A n \in 1..N : (\A m \in 1..n - 1 : m \in S) => n \in S
  PROVE  \A n \in 1..N : n \in S
<1> DEFINE B == (1..N) \ S
<1>1. B \subseteq Nat
  OBVIOUS
<1>2. ASSUME NEW m \in B, \A l \in B : m <= l
      PROVE  FALSE
  <2>1. m \in 1..N /\ \A l \in 1..m - 1 : l \in 1..N /\ ~(m <= l)
    OBVIOUS
  <2>2. \A l \in 1..m - 1 : l \in S
    BY <1>2, <2>1
  <2>3. QED
    BY <2>1, <2>2
<1>3. B = {}
  <2> HIDE DEF B
  <2>1. QED
    BY <1>1, <1>2, LeastElement
<1>4. QED
  BY <1>3

\* A function D from one value to the next has a run of any length.
HasRun(N, T, a, D) == \E f \in [0..N -> T] : f[0] = a /\ \A n \in 1..N : f[n] = D[<<n, f[n - 1]>>]

\* From any value, for any number of steps.
LEMMA RunsFrom ==
  ASSUME NEW N \in Nat, NEW T, NEW a \in T, NEW D \in [(1..N) \X T -> T]
  PROVE  HasRun(N, T, a, D)
<1> DEFINE UpTo(f, m) == f[0] = a /\ \A n \in 1..m : f[n] = D[<<n, f[n - 1]>>]
           S == {m \in 0..N : \E f \in [0..N -> T] : UpTo(f, m)}
<1>1. \E f \in [0..N -> T] : UpTo(f, 0)
  <2>1. [n \in 0..N |-> a] \in [0..N -> T]
    OBVIOUS
  <2>2. UpTo([n \in 0..N |-> a], 0)
    OBVIOUS
  <2>3. QED
    BY <2>1, <2>2
<1>2. ASSUME NEW m \in 1..N, NEW f \in [0..N -> T], UpTo(f, m - 1)
      PROVE  \E g \in [0..N -> T] : UpTo(g, m)
  <2> DEFINE g == [n \in 0..N |-> IF n = m THEN D[<<m, f[m - 1]>>] ELSE f[n]]
  <2>1. g \in [0..N -> T]
    OBVIOUS
  <2>2. g[0] = a
    BY <1>2
  <2>3. ASSUME NEW n \in 1..m
        PROVE  g[n] = D[<<n, g[n - 1]>>]
    <3>1. n \in 0..N /\ n - 1 \in 0..N /\ n - 1 # m /\ (n # m => n \in 1..m - 1)
      OBVIOUS
    <3>2. g[n - 1] = f[n - 1] /\ g[n] = IF n = m THEN D[<<m, f[m - 1]>>] ELSE f[n]
      BY <3>1
    <3>3. n # m => f[n] = D[<<n, f[n - 1]>>]
      BY <1>2, <3>1
    <3> HIDE DEF g
    <3>4. QED
      BY <3>2, <3>3
  <2>4. QED
    BY <2>1, <2>2, <2>3
<1> HIDE DEF UpTo
<1>3. 0 \in S /\ \A m \in 1..N : m - 1 \in S => m \in S
  BY <1>1, <1>2
<1> HIDE DEF S
<1>4. N \in S
  BY <1>3, UpToNumber
<1>5. QED
  BY <1>4 DEF S, UpTo, HasRun

\* The counts of a hand, one card after another.
LEMMA CountsUnfolded ==
  ASSUME AreValues(tables), NEW cards \in Seq(AllCards)
  PROVE  \E f : /\ f[0] = Cleared(tables) /\ HandCounts(cards) = f[Len(cards)]
                /\ \A n \in 1..Len(cards) : f[n] = WithCard(f[n - 1], cards[n][1], cards[n][2], tables)
<1> DEFINE N == Len(cards)
           T == StatsIn(tables)
           D == [x \in (1..N) \X T |-> WithCard(x[2], cards[x[1]][1], cards[x[1]][2], tables)]
           IsRun(f) == f = [n \in 0..N |-> IF n = 0 THEN Cleared(tables)
                                           ELSE WithCard(f[n - 1], cards[n][1], cards[n][2], tables)]
<1>1. N \in Nat /\ \A n \in 1..N : cards[n][1] \in CardSuits /\ cards[n][2] \in Ranks
  BY DEF AllCards
<1>2. Cleared(tables) \in T
  BY ClearedHand DEF IsRead
<1>3. \A n \in 1..N, h \in T : WithCard(h, cards[n][1], cards[n][2], tables) \in T
  BY <1>1, CardCounted
<1>4. D \in [(1..N) \X T -> T]
  BY <1>3
<1>5. \A n \in 1..N, h \in T : D[<<n, h>>] = WithCard(h, cards[n][1], cards[n][2], tables)
  OBVIOUS
<1> HIDE DEF N, T, D, IsRun
<1>6. PICK f \in [0..N -> T] : /\ f[0] = Cleared(tables)
                               /\ \A n \in 1..N : f[n] = D[<<n, f[n - 1]>>]
  <2>1. HasRun(N, T, Cleared(tables), D)
    BY <1>1, <1>2, <1>4, RunsFrom
  <2>2. QED
    BY <2>1 DEF HasRun
<1>7. ASSUME NEW n \in 1..N
      PROVE  f[n] = WithCard(f[n - 1], cards[n][1], cards[n][2], tables)
  <2>1. f[n - 1] \in T
    BY <1>1, <1>6
  <2>2. QED
    BY <1>5, <1>6, <2>1
<1>8. IsRun(f)
  <2>1. f = [n \in 0..N |-> f[n]]
    BY <1>6
  <2>2. \A n \in 0..N : f[n] = IF n = 0 THEN Cleared(tables)
                                ELSE WithCard(f[n - 1], cards[n][1], cards[n][2], tables)
    BY <1>1, <1>6, <1>7
  <2>3. QED
    BY <2>1, <2>2 DEF IsRun
<1> DEFINE g == CHOOSE e : IsRun(e)
<1>9. IsRun(g)
  BY <1>8
<1>10. HandCounts(cards) = g[N]
  BY DEF HandCounts, N, IsRun
<1> HIDE DEF g
<1>11. g[0] = Cleared(tables) /\ \A n \in 1..N : g[n] = WithCard(g[n - 1], cards[n][1], cards[n][2], tables)
  <2>1. \A n \in 0..N : g[n] = IF n = 0 THEN Cleared(tables)
                                ELSE WithCard(g[n - 1], cards[n][1], cards[n][2], tables)
    BY <1>9 DEF IsRun
  <2>2. 0 \in 0..N /\ \A n \in 1..N : n \in 0..N /\ n # 0
    BY <1>1
  <2>3. QED
    BY <2>1, <2>2
<1>12. QED
  BY <1>10, <1>11 DEF N

\* A hand whose cards are read in turn is read.
LEMMA HandIsRead ==
  ASSUME AreValues(tables), NEW cards \in Seq(AllCards),
         \A i, j \in 1..Len(cards) : cards[i] = cards[j] => i = j
  PROVE  IsRead(HandCounts(cards), ToSet(cards), tables) /\ ToSet(cards) \in SUBSET AllCards
<1>1. PICK f : /\ f[0] = Cleared(tables) /\ HandCounts(cards) = f[Len(cards)]
               /\ \A n \in 1..Len(cards) : f[n] = WithCard(f[n - 1], cards[n][1], cards[n][2], tables)
  BY CountsUnfolded
<1> DEFINE N == Len(cards)
           First(n) == {cards[i] : i \in 1..n}
           S == {n \in 0..N : IsRead(f[n], First(n), tables)}
<1>2. N \in Nat
  OBVIOUS
<1>3. IsRead(f[0], First(0), tables)
  <2>1. First(0) = {}
    OBVIOUS
  <2>2. QED
    BY <1>1, <2>1, ClearedHand
<1>4. ASSUME NEW n \in 1..N, IsRead(f[n - 1], First(n - 1), tables)
      PROVE  IsRead(f[n], First(n), tables)
  <2>1. /\ cards[n][1] \in CardSuits /\ cards[n][2] \in Ranks
        /\ cards[n] = <<cards[n][1], cards[n][2]>>
    BY DEF AllCards
  <2>2. First(n - 1) \in SUBSET AllCards /\ cards[n] \notin First(n - 1)
        /\ First(n) = First(n - 1) \cup {cards[n]}
    OBVIOUS
  <2>3. f[n] = WithCard(f[n - 1], cards[n][1], cards[n][2], tables)
    BY <1>1
  <2> HIDE DEF First
  <2>4. IsRead(f[n], First(n - 1) \cup {<<cards[n][1], cards[n][2]>>}, tables)
    <3>1. <<cards[n][1], cards[n][2]>> \notin First(n - 1)
      BY <2>1, <2>2
    <3>2. QED
      BY <1>4, <2>1, <2>2, <2>3, <3>1, OneCardRead
  <2>5. QED
    BY <2>1, <2>2, <2>4
<1> HIDE DEF First
<1>5. 0 \in S /\ \A n \in 1..N : n - 1 \in S => n \in S
  BY <1>2, <1>3, <1>4
<1> HIDE DEF S
<1> HIDE DEF N
<1>6. N \in S
  BY <1>2, <1>5, UpToNumber
<1>7. First(N) = ToSet(cards) /\ First(N) \in SUBSET AllCards
  BY DEF ToSet, First, N
<1>8. QED
  BY <1>1, <1>6, <1>7 DEF S, N

\* The lengths that have the bit of a shape, one element of its list after another.
LEMMA InsertedUnfolded ==
  ASSUME NEW list, list \in Seq(Range(list))
  PROVE  \E f : /\ f[0] = {} /\ Inserted(list) = f[Len(list)]
                /\ \A n \in 1..Len(list) : f[n] = InsertShape(f[n - 1], list[n])
<1> DEFINE N == Len(list)
           T == SUBSET HandLengths
           D == [x \in (1..N) \X T |-> InsertShape(x[2], list[x[1]])]
           IsRun(f) == f = [n \in 0..N |-> IF n = 0 THEN {} ELSE InsertShape(f[n - 1], list[n])]
<1>1. N \in Nat /\ {} \in T
  OBVIOUS
<1>2. \A n \in 1..N, set \in T : InsertShape(set, list[n]) \in T
  BY DEF InsertShape
<1>3. D \in [(1..N) \X T -> T]
  BY <1>2
<1>4. \A n \in 1..N, set \in T : D[<<n, set>>] = InsertShape(set, list[n])
  OBVIOUS
<1> HIDE DEF N, T, D, IsRun
<1>5. PICK f \in [0..N -> T] : f[0] = {} /\ \A n \in 1..N : f[n] = D[<<n, f[n - 1]>>]
  <2>1. HasRun(N, T, {}, D)
    BY <1>1, <1>3, RunsFrom
  <2>2. QED
    BY <2>1 DEF HasRun
<1>6. ASSUME NEW n \in 1..N
      PROVE  f[n] = InsertShape(f[n - 1], list[n])
  <2>1. f[n - 1] \in T
    BY <1>1, <1>5
  <2>2. QED
    BY <1>4, <1>5, <2>1
<1>7. IsRun(f)
  <2>1. f = [n \in 0..N |-> f[n]]
    BY <1>5
  <2>2. \A n \in 0..N : f[n] = IF n = 0 THEN {} ELSE InsertShape(f[n - 1], list[n])
    BY <1>1, <1>5, <1>6
  <2>3. QED
    BY <2>1, <2>2 DEF IsRun
<1> DEFINE g == CHOOSE e : IsRun(e)
<1>8. IsRun(g)
  BY <1>7
<1>9. Inserted(list) = g[N]
  BY DEF Inserted, N, IsRun
<1> HIDE DEF g
<1>10. g[0] = {} /\ \A n \in 1..N : g[n] = InsertShape(g[n - 1], list[n])
  <2>1. \A n \in 0..N : g[n] = IF n = 0 THEN {} ELSE InsertShape(g[n - 1], list[n])
    BY <1>8 DEF IsRun
  <2>2. 0 \in 0..N /\ \A n \in 1..N : n \in 0..N /\ n # 0
    BY <1>1
  <2>3. QED
    BY <2>1, <2>2
<1>11. QED
  BY <1>9, <1>10 DEF N

\* A hand has the bit of a shape if the last element that it fits says so:
\* insertshape, with exceptions.
LEMMA ShapeMeant ==
  ASSUME NEW list, list \in Seq(Range(list)), NEW l \in HandLengths
  PROVE  l \in Inserted(list) <=> HasShape(list, l)
<1>1. PICK f : /\ f[0] = {} /\ Inserted(list) = f[Len(list)]
               /\ \A n \in 1..Len(list) : f[n] = InsertShape(f[n - 1], list[n])
  BY InsertedUnfolded
<1> DEFINE N == Len(list)
           fitting(n) == {i \in 1..n : Fits(list[i], l)}
           Has(n) == fitting(n) # {} /\ ~list[LastOf(fitting(n))].neg
           S == {n \in 0..N : l \in f[n] <=> Has(n)}
<1>2. N \in Nat
  OBVIOUS
<1>3. l \in f[0] <=> Has(0)
  BY <1>1
<1>4. ASSUME NEW n \in 1..N, l \in f[n - 1] <=> Has(n - 1)
      PROVE  l \in f[n] <=> Has(n)
  <2>1. f[n] = InsertShape(f[n - 1], list[n])
    BY <1>1
  <2>2. CASE Fits(list[n], l)
    <3>1. LastOf(fitting(n)) = n
      <4>1. fitting(n) \subseteq Int /\ n \in fitting(n) /\ \A j \in fitting(n) : j <= n
        BY <2>2
      <4> HIDE DEF fitting
      <4>2. QED
        BY <4>1, LastIs
    <3>2. n \in fitting(n)
      BY <2>2
    <3>3. l \in f[n] <=> ~list[n].neg
      BY <2>1, <2>2 DEF InsertShape
    <3> HIDE DEF fitting
    <3>4. QED
      BY <3>1, <3>2, <3>3
  <2>3. CASE ~Fits(list[n], l)
    <3>1. fitting(n) = fitting(n - 1)
      BY <2>3
    <3>2. l \in f[n] <=> l \in f[n - 1]
      BY <2>1, <2>3 DEF InsertShape
    <3> HIDE DEF fitting
    <3>3. QED
      BY <1>4, <3>1, <3>2
  <2>4. QED
    BY <2>2, <2>3
<1> HIDE DEF Has
<1>5. 0 \in S /\ \A n \in 1..N : n - 1 \in S => n \in S
  BY <1>2, <1>3, <1>4
<1> HIDE DEF S, N
<1>6. N \in S
  BY <1>2, <1>5, UpToNumber
<1>7. HasShape(list, l) <=> Has(N)
  BY DEF HasShape, Has, N
<1>8. QED
  BY <1>1, <1>6, <1>7 DEF S, N

-----------------------------------------------------------------------------
(* The walk over the trees.                                                *)

\* The value of node i, with the values V of the nodes before it.
ValueAt(V, i, hss, d, draw) ==
  Walk(nodes[i], [j \in 1..Len(nodes[i].args) |-> V[nodes[i].args[j]]], hss, d, draw)

\* An operand comes before its node.
OperandsFirst ==
  /\ Len(nodes) \in Nat
  /\ \A i \in 1..Len(nodes) :
       Len(nodes[i].args) \in Nat /\ \A j \in 1..Len(nodes[i].args) : nodes[i].args[j] \in 1..i - 1

\* The value of a node depends on those of its operands alone.
AgreeBelow(V, W, i) == \A j \in 1..Len(nodes[i].args) : V[nodes[i].args[j]] = W[nodes[i].args[j]]

\* So it is the same with the same values of the operands.
LEMMA SameValue ==
  ASSUME NEW V, NEW W, NEW i, AgreeBelow(V, W, i), NEW hss, NEW d, NEW draw
  PROVE  ValueAt(V, i, hss, d, draw) = ValueAt(W, i, hss, d, draw)
<1>1. [j \in 1..Len(nodes[i].args) |-> V[nodes[i].args[j]]]
        = [j \in 1..Len(nodes[i].args) |-> W[nodes[i].args[j]]]
  BY DEF AgreeBelow
<1>2. QED
  BY <1>1 DEF ValueAt

\* Every node has a value.
AreValuesOf(V, hss, d, draw) == V = [i \in 1..Len(nodes) |-> ValueAt(V, i, hss, d, draw)]

\* evaltree is well defined: one node after another.
LEMMA ValuesExist ==
  ASSUME OperandsFirst, NEW hss, NEW d, NEW draw
  PROVE  \E V : AreValuesOf(V, hss, d, draw)
<1> DEFINE N == Len(nodes)
           AreValued(V, n) == \A i \in 1..n : V[i] = ValueAt(V, i, hss, d, draw)
           S == {n \in 0..N : \E V : AreValued(V, n)}
<1>1. N \in Nat
  BY DEF OperandsFirst
<1>2. \E V : AreValued(V, 0)
  OBVIOUS
<1>3. ASSUME NEW n \in 1..N, NEW V, AreValued(V, n - 1)
      PROVE  \E W : AreValued(W, n)
  <2> DEFINE W == [i \in 1..N |-> IF i = n THEN ValueAt(V, n, hss, d, draw) ELSE V[i]]
  <2>1. \A i \in 1..n - 1 : W[i] = V[i]
    BY <1>1
  <2>2. W[n] = ValueAt(V, n, hss, d, draw)
    OBVIOUS
  <2> HIDE DEF W
  <2>3. ASSUME NEW i \in 1..n
        PROVE  W[i] = ValueAt(W, i, hss, d, draw)
    <3>1. ASSUME NEW j \in 1..Len(nodes[i].args)
          PROVE  nodes[i].args[j] \in 1..n - 1
      <4>1. nodes[i].args[j] \in 1..i - 1
        BY <1>1 DEF OperandsFirst
      <4>2. QED
        BY <4>1
    <3>2. ValueAt(V, i, hss, d, draw) = ValueAt(W, i, hss, d, draw)
      <4>1. AgreeBelow(V, W, i)
        BY <2>1, <3>1 DEF AgreeBelow
      <4>2. QED
        BY <4>1, SameValue
    <3>3. CASE i = n
      BY <2>2, <3>2, <3>3
    <3>4. CASE i # n
      <4>1. i \in 1..n - 1
        BY <3>4
      <4>2. QED
        BY <1>3, <2>1, <3>2, <4>1
    <3>5. QED
      BY <3>3, <3>4
  <2>4. QED
    BY <2>3
<1> HIDE DEF AreValued
<1>4. 0 \in S /\ \A n \in 1..N : n - 1 \in S => n \in S
  BY <1>1, <1>2, <1>3
<1> HIDE DEF S, N
<1>5. N \in S
  BY <1>1, <1>4, UpToNumber
<1>6. PICK V : AreValued(V, N)
  BY <1>5 DEF S
<1> DEFINE W == [i \in 1..N |-> V[i]]
<1>7. \A i \in 1..N : W[i] = V[i]
  OBVIOUS
<1> HIDE DEF W
<1>8. ASSUME NEW i \in 1..N
      PROVE  W[i] = ValueAt(W, i, hss, d, draw)
  <2>1. \A j \in 1..Len(nodes[i].args) : nodes[i].args[j] \in 1..N
    BY DEF OperandsFirst, N
  <2>2. ValueAt(V, i, hss, d, draw) = ValueAt(W, i, hss, d, draw)
    <3>1. AgreeBelow(V, W, i)
      BY <1>7, <2>1 DEF AgreeBelow
    <3>2. QED
      BY <3>1, SameValue
  <2>3. QED
    BY <1>6, <1>7, <2>2 DEF AreValued
<1>9. W = [i \in 1..N |-> ValueAt(W, i, hss, d, draw)]
  BY <1>8 DEF W
<1>10. QED
  BY <1>9 DEF N, AreValuesOf

(* What the parser keeps of the statements.                                *)
Defs == Of({"variable", "shape"})
Conditions == Of({"condition"})
RootAt(k, at) == at[k] + Len(TreeOf(k))

\* Node i of the tree of statement k, whose nodes come after the at[k]-th.
SameNode(k, i, at) ==
  LET t == TreeOf(k)[i]
      n == nodes[at[k] + i]
  IN  /\ n.op = t.op /\ n.hand = t.hand /\ n.suit = t.suit
      /\ IF t.op = "shape"
         THEN n.num \in 0..Len(distr) - 1 /\ distr[n.num + 1] = Inserted(read[k].list)
         ELSE n.num = t.num
      /\ IF t.op = "ident"
         THEN n.args = <<RootAt(Defining(t.num), at)>>
         ELSE n.args = [j \in 1..Len(t.args) |-> at[k] + t.args[j]]

TreesInPlace(at) ==
  \A k \in 1..Len(read) :
    /\ at[k] \in Nat /\ at[k] + Len(TreeOf(k)) <= Len(nodes)
    /\ \A i \in 1..Len(TreeOf(k)) : SameNode(k, i, at)

\* A name stands for the statement that defines it, read before it is used.
NamesInPlace(at) ==
  /\ DOMAIN vars = {read[k].num : k \in Defs}
  /\ \A j, k \in Defs : read[j].num = read[k].num => j = k
  /\ \A k \in Defs : vars[read[k].num] = RootAt(k, at)
  /\ \A k \in 1..Len(read) : \A i \in 1..Len(TreeOf(k)) :
       TreeOf(k)[i].op = "ident" => \E m \in Defs : m < k /\ read[m].num = TreeOf(k)[i].num

DecisionInPlace(at) ==
  decisiontree = IF Conditions = {} THEN 1 ELSE RootAt(LastOf(Conditions), at)

NodesInPlace ==
  nodes # <<>> /\ nodes \in Seq(Range(nodes)) /\ nodes[1] = NumberNode(1) /\ OperandsFirst

HandsMarked ==
  \A k \in 1..Len(read) : \A i \in 1..Len(TreeOf(k)) :
    TreeOf(k)[i].op \in ByCompass => use_compass[TreeOf(k)[i].hand]

TablesInPlace ==
  /\ DOMAIN tables = 0..CONTROLS /\ AreValues(tables)
  /\ \A t \in (0..CONTROLS) \ {POINTS} : tables[t] = TableMeant(t)

\* points follows its table when the run begins, whatever a script did to either.
PointsInStep == tables[POINTS] = TableMeant(POINTS)

ScriptInPlace ==
  /\ TablesInPlace /\ NodesInPlace /\ HandsMarked /\ distr \in Seq(Range(distr))
  /\ \E at \in [1..Len(read) -> Nat] : TreesInPlace(at) /\ NamesInPlace(at) /\ DecisionInPlace(at)

\* The inductive invariant of the expressions.
ExprInv ==
  /\ read \in Seq(Statements) /\ stage \in {"parsing", "running", "stopped"}
  /\ \A p \in Seats : "Has_card" \in DOMAIN handstat[p]
  /\ stage = "parsing" => curdeal = NoDeal
  /\ stage # "stopped" => ScriptInPlace
  /\ stage = "running" => PointsInStep
  /\ ConditionIsOfThisDeal

\* A node of a tree, its operands before it.
IsNodeAt(t, i) ==
  /\ t.hand \in Seats /\ t.args \in Seq(1..i - 1)
  /\ t.op \in {"ident", "shape"} => t.args = <<>>
  /\ t.args = <<>> => t.op \in Leaves \cup {"ident"}

\* newtree has the operands of a node before it.
LEMMA NodesOfTree ==
  ASSUME NEW tree, IsTree(tree)
  PROVE  /\ Len(tree) \in Nat \ {0}
         /\ \A i \in 1..Len(tree) : IsNodeAt(tree[i], i) /\ tree[i].op # "shape"
<1>1. tree # <<>> /\ tree \in Seq(Range(tree))
  BY DEF IsTree
<1>2. Len(tree) \in Nat \ {0}
  BY <1>1
<1>3. ASSUME NEW i \in 1..Len(tree)
      PROVE  IsNodeAt(tree[i], i) /\ tree[i].op # "shape"
  <2>1. /\ tree[i].hand \in Seats /\ tree[i].args \in Seq(1..(i - 1))
        /\ tree[i].op # "shape" /\ (tree[i].op = "ident" => tree[i].args = <<>>)
        /\ tree[i].args = <<>> => tree[i].op \in Leaves \cup {"ident"}
    BY DEF IsTree
  <2>2. QED
    BY <2>1 DEF IsNodeAt
<1>4. QED
  BY <1>2, <1>3

\* The trees of the statements.
LEMMA NodesOfStatement ==
  ASSUME read \in Seq(Statements), NEW k \in 1..Len(read)
  PROVE  /\ Len(TreeOf(k)) \in Nat
         /\ k \in Defs \cup Conditions => Len(TreeOf(k)) # 0
         /\ \A i \in 1..Len(TreeOf(k)) :
              /\ IsNodeAt(TreeOf(k)[i], i)
              /\ TreeOf(k)[i].op = "shape" => read[k].kind = "shape" /\ TreeOf(k)[i].num = k
<1>1. read[k] \in Statements
  OBVIOUS
<1>2. CASE read[k].kind \in {"condition", "variable"}
  <2>1. TreeOf(k) = read[k].tree
    BY <1>2 DEF TreeOf
  <2>2. IsTree(read[k].tree)
    BY <1>1, <1>2, ExpressionsAssumption
  <2>3. QED
    BY <2>1, <2>2, NodesOfTree
<1>3. CASE read[k].kind = "shape"
  <2>1. TreeOf(k) = <<ShapeNode(read[k], k)>>
    BY <1>3 DEF TreeOf
  <2>2. read[k].hand \in Seats
    BY <1>1, <1>3, ExpressionsAssumption
  <2>3. IsNodeAt(ShapeNode(read[k], k), 1) /\ ShapeNode(read[k], k).num = k
    BY <2>2 DEF IsNodeAt, ShapeNode, Node, Leaves
  <2>4. QED
    BY <1>3, <2>1, <2>3
<1>4. CASE read[k].kind \notin {"condition", "variable", "shape"}
  <2>1. TreeOf(k) = <<>>
    BY <1>4 DEF TreeOf
  <2>2. QED
    BY <1>4, <2>1 DEF Defs, Conditions, Of
<1>5. QED
  BY <1>2, <1>3, <1>4

\* A node walked over twice, on hands that it cannot tell apart.
AreAlike(n, t, hss, means, d) ==
  /\ n.op = t.op /\ n.hand = t.hand
  /\ \/ t.op = "ident"
     \/ t.args = <<>> /\ n.args = <<>> /\ Leaf(n, hss, d) = Leaf(t, means, d)
     \/ t.args # <<>> /\ n.args # <<>> /\ Len(n.args) = Len(t.args) /\ n.num = t.num

\* The walk takes the same turns, to the same value.
LEMMA SameWalk ==
  ASSUME NEW n, NEW t, NEW hss, NEW means, NEW d, AreAlike(n, t, hss, means, d), NEW val, NEW draw
  PROVE  Walk(n, val, hss, d, draw) = Walk(t, val, means, d, draw)
<1> USE DEF AreAlike
<1>1. CASE t.op = "ident"
  BY <1>1 DEF Walk
<1>2. CASE t.op # "ident" /\ t.args = <<>> /\ n.args = <<>> /\ Leaf(n, hss, d) = Leaf(t, means, d)
  BY <1>2 DEF Walk
<1>3. CASE t.op # "ident" /\ t.args # <<>> /\ n.args # <<>> /\ Len(n.args) = Len(t.args) /\ n.num = t.num
  <2>1. \A a : Unary(n, a, draw) = Unary(t, a, draw)
    BY <1>3 DEF Unary
  <2>2. QED
    BY <1>3, <2>1 DEF Walk
<1>4. QED
  BY <1>1, <1>2, <1>3

\* What node x of a statement means, with the meanings M of its operands.
MeansAt(M, x, hss, d, draw) ==
  LET t == TreeOf(x[1])[x[2]]
      val == IF t.op = "ident" THEN <<M[Root(Defining(t.num))]>>
             ELSE [j \in 1..Len(t.args) |-> M[<<x[1], t.args[j]>>]]
  IN  Walk(t, val, hss, d, draw)

\* The leaves have the same values on the hands as analysed and as they mean.
LeavesAgree(at, hss, means, d) ==
  \A k \in 1..Len(read) : \A i \in 1..Len(TreeOf(k)) :
    LET t == TreeOf(k)[i]
    IN  t.args = <<>> /\ t.op # "ident" => Leaf(nodes[at[k] + i], hss, d) = Leaf(t, means, d)

\* The operands of a node have the values that they mean.
OperandsAgree(V, M, at, k, i) ==
  LET t == TreeOf(k)[i]
  IN  IF t.op = "ident" THEN M[Root(Defining(t.num))] = V[RootAt(Defining(t.num), at)]
      ELSE \A j \in 1..Len(t.args) : M[<<k, t.args[j]>>] = V[at[k] + t.args[j]]

\* So the node has.
LEMMA SameStep ==
  ASSUME read \in Seq(Statements), NEW at, TreesInPlace(at), NEW hss, NEW means, NEW d, NEW draw,
         LeavesAgree(at, hss, means, d),
         NEW V, NEW M, NEW k \in 1..Len(read), NEW i \in 1..Len(TreeOf(k)), OperandsAgree(V, M, at, k, i)
  PROVE  MeansAt(M, <<k, i>>, means, d, draw) = ValueAt(V, at[k] + i, hss, d, draw)
<1> DEFINE t == TreeOf(k)[i]
           n == nodes[at[k] + i]
           vals == [j \in 1..Len(n.args) |-> V[n.args[j]]]
           meant == IF t.op = "ident" THEN <<M[Root(Defining(t.num))]>>
                    ELSE [j \in 1..Len(t.args) |-> M[<<k, t.args[j]>>]]
<1>1. /\ n.op = t.op /\ n.hand = t.hand
      /\ t.op # "shape" => n.num = t.num
      /\ t.op = "ident" => n.args = <<RootAt(Defining(t.num), at)>>
      /\ t.op # "ident" => n.args = [j \in 1..Len(t.args) |-> at[k] + t.args[j]]
  BY DEF TreesInPlace, SameNode
<1>2. IsNodeAt(t, i)
  BY NodesOfStatement
<1>3. t.op \in {"ident", "shape"} => t.args = <<>>
  BY <1>2 DEF IsNodeAt
<1>4. Len(t.args) \in Nat
  BY <1>2 DEF IsNodeAt
<1>5. t.args = <<>> /\ t.op # "ident" => Leaf(n, hss, d) = Leaf(t, means, d)
  BY DEF LeavesAgree
<1>6. /\ t.op = "ident" => M[Root(Defining(t.num))] = V[RootAt(Defining(t.num), at)]
      /\ t.op # "ident" => \A j \in 1..Len(t.args) : M[<<k, t.args[j]>>] = V[at[k] + t.args[j]]
  BY DEF OperandsAgree
<1>7. MeansAt(M, <<k, i>>, means, d, draw) = Walk(t, meant, means, d, draw)
  BY DEF MeansAt
<1>8. ValueAt(V, at[k] + i, hss, d, draw) = Walk(n, vals, hss, d, draw)
  BY DEF ValueAt
<1> HIDE DEF t, n
<1>9. vals = meant
  <2>1. CASE t.op = "ident"
    <3>1. n.args = <<RootAt(Defining(t.num), at)>> /\ meant = <<V[RootAt(Defining(t.num), at)]>>
      BY <1>1, <1>6, <2>1
    <3>2. vals = <<V[RootAt(Defining(t.num), at)]>>
      BY <3>1
    <3>3. QED
      BY <3>1, <3>2
  <2>2. CASE t.op # "ident"
    <3>1. Len(n.args) = Len(t.args) /\ \A j \in 1..Len(t.args) : n.args[j] = at[k] + t.args[j]
      BY <1>1, <1>4, <2>2
    <3>2. QED
      BY <1>6, <2>2, <3>1
  <2>3. QED
    BY <2>1, <2>2
<1>10. AreAlike(n, t, hss, means, d)
  <2>1. CASE t.op # "ident"
    <3>1. Len(n.args) = Len(t.args)
      BY <1>1, <1>4, <2>1
    <3>2. CASE t.args = <<>>
      <4>1. n.args = <<>>
        BY <1>1, <2>1, <3>2
      <4>2. QED
        BY <1>1, <1>5, <2>1, <3>2, <4>1 DEF AreAlike
    <3>3. CASE t.args # <<>>
      <4>1. t.op # "shape"
        BY <1>3, <3>3
      <4>2. Len(t.args) # 0
        BY <1>2, <3>3 DEF IsNodeAt
      <4>3. n.args # <<>>
        BY <3>1, <4>2
      <4>4. QED
        BY <1>1, <3>1, <3>3, <4>1, <4>3 DEF AreAlike
    <3>4. QED
      BY <3>2, <3>3
  <2>2. QED
    BY <1>1, <2>1 DEF AreAlike
<1> HIDE DEF vals, meant
<1>11. Walk(n, meant, hss, d, draw) = Walk(t, meant, means, d, draw)
  BY <1>10, SameWalk
<1>12. QED
  BY <1>7, <1>8, <1>9, <1>11

\* A name is that of one statement, read before the one that uses it.
LEMMA DefinedBefore ==
  ASSUME read \in Seq(Statements), NEW at, NamesInPlace(at), NEW k \in 1..Len(read),
         NEW i \in 1..Len(TreeOf(k)), TreeOf(k)[i].op = "ident"
  PROVE  Defining(TreeOf(k)[i].num) \in Defs /\ Defining(TreeOf(k)[i].num) < k
<1>1. PICK m \in Defs : m < k /\ read[m].num = TreeOf(k)[i].num
  BY DEF NamesInPlace
<1>2. \A j \in Defs : read[j].num = TreeOf(k)[i].num => j = m
  BY <1>1 DEF NamesInPlace
<1>3. Defining(TreeOf(k)[i].num) = m
  BY <1>1, <1>2 DEF Defining, Defs
<1>4. QED
  BY <1>1, <1>3

\* The operands of a node are nodes, placed before it.
LEMMA OperandsBefore ==
  ASSUME read \in Seq(Statements), NodesInPlace, NEW at, TreesInPlace(at), NamesInPlace(at),
         NEW k \in 1..Len(read), NEW i \in 1..Len(TreeOf(k))
  PROVE  /\ <<k, i>> \in Places /\ at[k] + i \in 1..Len(nodes)
         /\ TreeOf(k)[i].op = "ident" =>
              LET m == Defining(TreeOf(k)[i].num)
              IN  /\ m \in 1..Len(read) /\ Len(TreeOf(m)) \in 1..Len(TreeOf(m))
                  /\ RootAt(m, at) < at[k] + i
         /\ TreeOf(k)[i].op # "ident" =>
              \A j \in 1..Len(TreeOf(k)[i].args) :
                TreeOf(k)[i].args[j] \in 1..Len(TreeOf(k)) /\ TreeOf(k)[i].args[j] < i
<1> DEFINE t == TreeOf(k)[i]
<1>1. Len(nodes) \in Nat /\ at[k] \in Nat /\ at[k] + Len(TreeOf(k)) <= Len(nodes)
  BY DEF NodesInPlace, OperandsFirst, TreesInPlace
<1>2. Len(TreeOf(k)) \in Nat /\ IsNodeAt(t, i)
  BY NodesOfStatement
<1>3. <<k, i>> \in Places /\ at[k] + i \in 1..Len(nodes)
  <2>1. i \in 1..Len(nodes) /\ i <= Len(TreeOf(k)) /\ at[k] + i \in 1..Len(nodes)
    BY <1>1, <1>2
  <2>2. QED
    BY <2>1 DEF Places
<1>4. ASSUME t.op = "ident", NEW m, m = Defining(t.num)
      PROVE  /\ m \in 1..Len(read) /\ Len(TreeOf(m)) \in 1..Len(TreeOf(m))
             /\ RootAt(m, at) < at[k] + i
  <2>1. m \in Defs /\ m \in 1..Len(read)
    BY <1>4, DefinedBefore DEF Defs, Of
  <2>2. Len(TreeOf(m)) \in 1..Len(TreeOf(m))
    BY <2>1, NodesOfStatement
  <2>3. nodes[at[k] + i].args = <<RootAt(m, at)>>
    BY <1>4 DEF TreesInPlace, SameNode
  <2>4. nodes[at[k] + i].args[1] \in 1..(at[k] + i) - 1
    <3>1. Len(nodes[at[k] + i].args) = 1
      BY <2>3
    <3>2. \A j \in 1..Len(nodes[at[k] + i].args) : nodes[at[k] + i].args[j] \in 1..(at[k] + i) - 1
      BY <1>3 DEF NodesInPlace, OperandsFirst
    <3>3. QED
      BY <3>1, <3>2
  <2>5. RootAt(m, at) < at[k] + i
    BY <1>1, <2>3, <2>4
  <2>6. QED
    BY <2>1, <2>2, <2>5
<1>5. ASSUME NEW j \in 1..Len(t.args)
      PROVE  t.args[j] \in 1..Len(TreeOf(k)) /\ t.args[j] < i
  <2>1. t.args \in Seq(1..i - 1)
    BY <1>2 DEF IsNodeAt
  <2>2. t.args[j] \in 1..i - 1
    BY <2>1
  <2>3. QED
    BY <1>2, <2>2
<1>6. QED
  BY <1>3, <1>4, <1>5

\* What the nodes are worth is what they mean: there are such meanings, and
\* they are the only ones.
IsMeaning(M, means, d, draw) == M = [x \in Places |-> MeansAt(M, x, means, d, draw)]

\* The values of the nodes are a meaning of the script.
LEMMA MeaningsExist ==
  ASSUME read \in Seq(Statements), NodesInPlace, NEW at, TreesInPlace(at), NamesInPlace(at),
         NEW hss, NEW means, NEW d, NEW draw, LeavesAgree(at, hss, means, d),
         NEW V, AreValuesOf(V, hss, d, draw)
  PROVE  \E M : IsMeaning(M, means, d, draw)
<1> DEFINE M == [x \in Places |-> V[at[x[1]] + x[2]]]
<1>1. ASSUME NEW k \in 1..Len(read), NEW i \in 1..Len(TreeOf(k))
      PROVE  <<k, i>> \in Places /\ M[<<k, i>>] = V[at[k] + i]
  <2>1. <<k, i>> \in Places
    BY OperandsBefore
  <2>2. QED
    BY <2>1
<1>2. ASSUME NEW x \in Places
      PROVE  x[1] \in 1..Len(read) /\ x[2] \in 1..Len(TreeOf(x[1])) /\ x = <<x[1], x[2]>>
  BY NodesOfStatement DEF Places
<1> HIDE DEF M
<1>3. ASSUME NEW k \in 1..Len(read), NEW i \in 1..Len(TreeOf(k))
      PROVE  OperandsAgree(V, M, at, k, i)
  <2> DEFINE t == TreeOf(k)[i]
             m == Defining(t.num)
  <2>1. CASE t.op = "ident"
    <3>1. m \in 1..Len(read) /\ Len(TreeOf(m)) \in 1..Len(TreeOf(m))
      BY <2>1, OperandsBefore
    <3>2. M[Root(m)] = V[RootAt(m, at)]
      BY <1>1, <3>1 DEF Root, RootAt
    <3>3. QED
      BY <2>1, <3>2 DEF OperandsAgree
  <2>2. CASE t.op # "ident"
    <3>1. \A j \in 1..Len(t.args) : t.args[j] \in 1..Len(TreeOf(k))
      BY <2>2, OperandsBefore
    <3>2. \A j \in 1..Len(t.args) : M[<<k, t.args[j]>>] = V[at[k] + t.args[j]]
      BY <1>1, <3>1
    <3>3. QED
      BY <2>2, <3>2 DEF OperandsAgree
  <2>3. QED
    BY <2>1, <2>2
<1>4. ASSUME NEW x \in Places
      PROVE  M[x] = MeansAt(M, x, means, d, draw)
  <2> DEFINE k == x[1]
             i == x[2]
  <2>1. k \in 1..Len(read) /\ i \in 1..Len(TreeOf(k)) /\ x = <<k, i>>
    BY <1>2
  <2> HIDE DEF k, i
  <2>2. OperandsAgree(V, M, at, k, i)
    BY <1>3, <2>1
  <2>3. MeansAt(M, <<k, i>>, means, d, draw) = ValueAt(V, at[k] + i, hss, d, draw)
    BY <2>1, <2>2, SameStep
  <2>4. V[at[k] + i] = ValueAt(V, at[k] + i, hss, d, draw)
    <3>1. at[k] + i \in 1..Len(nodes)
      BY <2>1, OperandsBefore
    <3>2. QED
      BY <3>1 DEF AreValuesOf
  <2>5. QED
    BY <1>1, <2>1, <2>3, <2>4
<1>5. M = [x \in Places |-> MeansAt(M, x, means, d, draw)]
  BY <1>4 DEF M
<1>6. QED
  BY <1>5 DEF IsMeaning

AreMeant(V, M, at) == \A k \in 1..Len(read) : \A i \in 1..Len(TreeOf(k)) : M[<<k, i>>] = V[at[k] + i]

\* No other is one: a node means what it is worth.
LEMMA MeaningsAreValues ==
  ASSUME read \in Seq(Statements), NodesInPlace, NEW at, TreesInPlace(at), NamesInPlace(at),
         NEW hss, NEW means, NEW d, NEW draw, LeavesAgree(at, hss, means, d),
         NEW V, AreValuesOf(V, hss, d, draw), NEW M, IsMeaning(M, means, d, draw)
  PROVE  AreMeant(V, M, at)
<1> DEFINE N == Len(nodes)
           Agree(n) == \A k \in 1..Len(read) : \A i \in 1..Len(TreeOf(k)) :
                         at[k] + i = n => M[<<k, i>>] = V[n]
           S == {n \in 1..N : Agree(n)}
<1>1. N \in Nat
  BY DEF NodesInPlace, OperandsFirst
<1>2. ASSUME NEW n \in 1..N, \A l \in 1..n - 1 : l \in S, NEW k \in 1..Len(read),
             NEW i \in 1..Len(TreeOf(k)), at[k] + i = n
      PROVE  M[<<k, i>>] = V[n]
  <2> DEFINE t == TreeOf(k)[i]
             m == Defining(t.num)
  <2>1. \A l \in 1..n - 1 : Agree(l)
    BY <1>2
  <2>2. OperandsAgree(V, M, at, k, i)
    <3>1. CASE t.op = "ident"
      <4>1. m \in 1..Len(read) /\ Len(TreeOf(m)) \in 1..Len(TreeOf(m)) /\ RootAt(m, at) < n
        BY <1>2, <3>1, OperandsBefore
      <4>2. RootAt(m, at) \in 1..n - 1
        <5>1. at[m] \in Nat /\ Len(TreeOf(m)) \in Nat
          BY <4>1, NodesOfStatement DEF TreesInPlace
        <5>2. QED
          BY <4>1, <5>1 DEF RootAt
      <4>3. M[Root(m)] = V[RootAt(m, at)]
        BY <2>1, <4>1, <4>2 DEF Root, RootAt
      <4>4. QED
        BY <3>1, <4>3 DEF OperandsAgree
    <3>2. CASE t.op # "ident"
      <4>1. \A j \in 1..Len(t.args) : t.args[j] \in 1..Len(TreeOf(k)) /\ t.args[j] < i
        BY <3>2, OperandsBefore
      <4>2. at[k] \in Nat /\ Len(TreeOf(k)) \in Nat
        BY NodesOfStatement DEF TreesInPlace
      <4>3. ASSUME NEW j \in 1..Len(t.args)
            PROVE  M[<<k, t.args[j]>>] = V[at[k] + t.args[j]]
        <5>1. t.args[j] \in 1..Len(TreeOf(k)) /\ at[k] + t.args[j] \in 1..n - 1
          <6> DEFINE b == t.args[j]
          <6>1. b \in 1..Len(TreeOf(k)) /\ b < i /\ at[k] + i = n
            BY <1>2, <4>1
          <6> HIDE DEF b
          <6>2. b \in 1..Len(TreeOf(k)) /\ at[k] + b \in 1..n - 1
            BY <4>2, <6>1
          <6>3. QED
            BY <6>2 DEF b
        <5>2. QED
          BY <2>1, <5>1
      <4>4. QED
        BY <3>2, <4>3 DEF OperandsAgree
    <3>3. QED
      BY <3>1, <3>2
  <2> HIDE DEF Agree
  <2>3. MeansAt(M, <<k, i>>, means, d, draw) = ValueAt(V, n, hss, d, draw)
    BY <1>2, <2>2, SameStep
  <2>4. M[<<k, i>>] = MeansAt(M, <<k, i>>, means, d, draw)
    <3>1. <<k, i>> \in Places
      BY OperandsBefore
    <3>2. QED
      BY <3>1 DEF IsMeaning
  <2>5. V[n] = ValueAt(V, n, hss, d, draw)
    BY DEF AreValuesOf
  <2>6. QED
    BY <2>3, <2>4, <2>5
<1>3. \A n \in 1..N : (\A l \in 1..n - 1 : l \in S) => n \in S
  BY <1>2
<1> HIDE DEF S
<1>4. \A n \in 1..N : n \in S
  <2> HIDE DEF N
  <2>1. QED
    BY <1>1, <1>3, ByEarlier
<1>5. \A k \in 1..Len(read) : \A i \in 1..Len(TreeOf(k)) : at[k] + i \in 1..N
  BY OperandsBefore
<1>6. QED
  BY <1>4, <1>5 DEF S, AreMeant

\* evaltree gives the condition the value that the script means.
LEMMA ConditionMeant ==
  ASSUME read \in Seq(Statements), NodesInPlace, NEW at, TreesInPlace(at), NamesInPlace(at), DecisionInPlace(at),
         NEW hss, NEW means, NEW d, NEW draw, LeavesAgree(at, hss, means, d)
  PROVE  evaltree(decisiontree, hss, d, draw) = Meaning(means, d, draw)
<1> DEFINE V == CHOOSE W : AreValuesOf(W, hss, d, draw)
           M == CHOOSE L : IsMeaning(L, means, d, draw)
<1>1. AreValuesOf(V, hss, d, draw)
  <2>1. \E W : AreValuesOf(W, hss, d, draw)
    BY ValuesExist DEF NodesInPlace
  <2>2. QED
    BY <2>1
<1>2. evaltree(decisiontree, hss, d, draw) = V[decisiontree]
  BY DEF evaltree, AreValuesOf, ValueAt
<1> HIDE DEF V
<1>3. IsMeaning(M, means, d, draw)
  <2>1. \E L : IsMeaning(L, means, d, draw)
    BY <1>1, MeaningsExist
  <2>2. QED
    BY <2>1
<1>4. Meaning(means, d, draw) = IF Conditions = {} THEN <<1>> ELSE M[Root(LastOf(Conditions))]
  BY DEF Meaning, Conditions, IsMeaning, MeansAt
<1> HIDE DEF M
<1>5. AreMeant(V, M, at)
  BY <1>1, <1>3, MeaningsAreValues
<1>6. CASE Conditions = {}
  <2>1. decisiontree = 1 /\ nodes[1] = NumberNode(1) /\ 1 \in 1..Len(nodes)
    BY <1>6 DEF DecisionInPlace, NodesInPlace
  <2>2. V[1] = ValueAt(V, 1, hss, d, draw)
    BY <1>1, <2>1 DEF AreValuesOf
  <2>3. ValueAt(V, 1, hss, d, draw) = <<1>>
    <3>1. nodes[1].op = "number" /\ nodes[1].args = <<>> /\ nodes[1].num = 1
      BY <2>1 DEF NumberNode, Node
    <3>2. Leaf(nodes[1], hss, d) = 1
      BY <3>1 DEF Leaf
    <3>3. QED
      BY <3>1, <3>2 DEF ValueAt, Walk
  <2>4. QED
    BY <1>2, <1>4, <1>6, <2>1, <2>2, <2>3
<1>7. CASE Conditions # {}
  <2> DEFINE c == LastOf(Conditions)
  <2>1. c \in Conditions
    <3>1. Conditions \subseteq Int /\ \A k \in Conditions : k <= Len(read)
      BY DEF Conditions, Of
    <3>2. Len(read) \in Int
      OBVIOUS
    <3>3. PICK k \in Conditions : \A j \in Conditions : j <= k
      BY <1>7, <3>1, <3>2, GreatestElement
    <3>4. c = k
      BY <3>1, <3>3, LastIs
    <3>5. QED
      BY <3>4
  <2>2. c \in 1..Len(read) /\ Len(TreeOf(c)) \in 1..Len(TreeOf(c))
    BY <2>1, NodesOfStatement DEF Conditions, Of
  <2>3. M[Root(c)] = V[RootAt(c, at)]
    <3> HIDE DEF c
    <3>1. QED
      BY <1>5, <2>2 DEF Root, RootAt, AreMeant
  <2>4. QED
    BY <1>2, <1>4, <1>7, <2>3 DEF DecisionInPlace
<1>8. QED
  BY <1>6, <1>7

-----------------------------------------------------------------------------
(* The hands analysed are those of the deal.                               *)

\* What a hand that was counted has, in the words of the model.
IsHand(cards) ==
  cards \in Seq(AllCards) /\ Len(cards) = 13 /\ \A i, j \in 1..13 : cards[i] = cards[j] => i = j

SameCounts(c, m) ==
  /\ c.length = m.length /\ c.counts = m.counts /\ c.totalcounts = m.totalcounts
  /\ c.ltc = m.ltc /\ c.totalltc = m.totalltc
  /\ c.loser = m.loser /\ c.totalloser = m.totalloser

\* analyze counts the hand as it was dealt, with the tables of the script.
LEMMA CountsAsDealt ==
  ASSUME TablesInPlace, PointsInStep, NEW cards, IsHand(cards),
         NEW c, c = WithLtc(HandCounts(cards)), NEW m, m = AsDealt(cards).counts
  PROVE  SameCounts(c, m) /\ c.length = Lengths(ToSet(cards))
<1> DEFINE H == ToSet(cards)
           ltc == [s \in CardSuits |-> LtcRow(TopWeight(WeightsOf(H, s))).ltc]
           losers == [s \in CardSuits |-> LosersOf(H, s)]
           inSuit == [t \in DOMAIN tables |->
                        [s \in CardSuits |-> SumFunction([r \in RanksOf(H, s) |-> TableMeant(t)[r]])]]
<1>1. /\ m.length = Lengths(H) /\ m.counts = inSuit
      /\ m.totalcounts = [t \in DOMAIN tables |-> SumFunction(inSuit[t])]
      /\ m.ltc = ltc /\ m.totalltc = SumFunction(ltc)
      /\ m.loser = losers /\ m.totalloser = SumFunction(losers)
  BY DEF AsDealt
<1>2. AreValues(tables) /\ DOMAIN tables = 0..CONTROLS /\ \A t \in 0..CONTROLS : tables[t] = TableMeant(t)
  BY DEF TablesInPlace, PointsInStep
<1>3. IsRead(HandCounts(cards), H, tables) /\ H \in SUBSET AllCards
  BY <1>2, HandIsRead DEF IsHand
<1>4. IsComplete(c, H, tables)
  BY <1>3, LosersCounted
<1> HIDE DEF H
<1>5. c \in StatsIn(tables) /\ CountsInPlace(c, H, tables) /\ TotalsInPlace(c, tables) /\ LosersInPlace(c, H)
  BY <1>4 DEF IsComplete
<1>6. AreStats(c, H, tables)
  BY <1>2, <1>3, <1>5, StatsOf
<1>7. c.length = Lengths(H)
  BY <1>6 DEF Lengths, AreStats
<1>8. c.counts = inSuit
  <2>1. c.counts = [t \in DOMAIN tables |-> c.counts[t]]
    BY <1>5 DEF StatsIn
  <2>2. \A t \in DOMAIN tables : c.counts[t] = inSuit[t]
    BY <1>2, <1>6 DEF AreStats
  <2>3. QED
    BY <2>1, <2>2
<1>9. c.totalcounts = [t \in DOMAIN tables |-> SumFunction(inSuit[t])]
  <2>1. c.totalcounts = [t \in DOMAIN tables |-> c.totalcounts[t]]
    BY <1>5 DEF StatsIn
  <2>2. \A t \in DOMAIN tables : c.totalcounts[t] = SumFunction(inSuit[t])
    BY <1>6, <1>8 DEF AreStats
  <2>3. QED
    BY <2>1, <2>2
<1>10. c.ltc = ltc
  <2>1. c.ltc = [s \in CardSuits |-> c.ltc[s]]
    BY <1>5 DEF StatsIn
  <2>2. ASSUME NEW s \in CardSuits
        PROVE  c.ltc[s] = LtcRow(TopWeight(WeightsOf(H, s))).ltc
    <3>1. TopWeight(c.topcards[s]) = TopWeight(WeightsOf(H, s))
      BY <1>6 DEF TopWeight, WeightsOf, AreStats
    <3>2. QED
      BY <1>5, <3>1 DEF LosersInPlace
  <2>3. QED
    BY <2>1, <2>2
<1>11. c.loser = losers
  <2>1. c.loser = [s \in CardSuits |-> c.loser[s]]
    BY <1>5 DEF StatsIn
  <2>2. ASSUME NEW s \in CardSuits
        PROVE  c.loser[s] = LosersOf(H, s)
    <3>1. MissingHonors(RanksOf(H, s)) = {n \in 1..3 : Held(H, s, n) /\ (13 - n) \notin RanksOf(H, s)}
      BY DEF MissingHonors, Held
    <3>2. QED
      BY <1>5, <3>1 DEF LosersInPlace, LosersOf
  <2>3. QED
    BY <2>1, <2>2
<1>12. c.totalltc = SumFunction(ltc) /\ c.totalloser = SumFunction(losers)
  BY <1>5, <1>10, <1>11 DEF LosersInPlace
<1> HIDE DEF ltc, losers, inSuit
<1>13. QED
  BY <1>1, <1>7, <1>8, <1>9, <1>10, <1>11, <1>12 DEF H, SameCounts

\* The cards that fill_Has_card notes, whether the hand is counted or not.
LEMMA CardsAsDealt ==
  ASSUME NEW p \in Seats, "Has_card" \in DOMAIN handstat[p], NEW d \in ExprDeals
  PROVE  analyze(d)[p].Has_card = AsDealt(d.hands[p]).Has_card
<1> DEFINE cards == d.hands[p]
<1>1. HasCards(cards) = [s \in CardSuits |-> RanksOf(ToSet(cards), s)]
  <2>1. DOMAIN cards = 1..Len(cards)
    BY ExpressionsAssumption
  <2> HIDE DEF cards
  <2>2. \A s \in CardSuits : {cards[i][2] : i \in {j \in 1..Len(cards) : cards[j][1] = s}}
                              = RanksOf(ToSet(cards), s)
    BY <2>1 DEF RanksOf, ToSet
  <2>3. QED
    BY <2>2 DEF HasCards
<1>2. AsDealt(cards).Has_card = [s \in CardSuits |-> RanksOf(ToSet(cards), s)]
  BY DEF AsDealt
<1>3. analyze(d)[p] = Analyzed(p, cards)
  BY DEF analyze
<1> HIDE DEF cards
<1>4. Analyzed(p, cards).Has_card = HasCards(cards)
  BY DEF Analyzed
<1>5. QED
  BY <1>1, <1>2, <1>3, <1>4 DEF cards

\* A hand has the bit of a shape when it is one of the list.
LEMMA BitsAsDealt ==
  ASSUME read \in Seq(Statements), TablesInPlace, PointsInStep,
         NEW d \in ExprDeals, NEW p \in Seats, use_compass[p],
         NEW k \in Of({"shape"}), NEW n \in 0..Len(distr) - 1, distr[n + 1] = Inserted(read[k].list)
  PROVE  n \in analyze(d)[p].bits <=> k \in AsDealt(d.hands[p]).bits
<1> DEFINE cards == d.hands[p]
           l == Lengths(ToSet(cards))
<1>1. read[k].list \in Seq(Range(read[k].list))
  BY ExpressionsAssumption DEF Of
<1>2. l \in HandLengths
  BY DEF HandLengths
<1>3. l \in Inserted(read[k].list) <=> HasShape(read[k].list, l)
  <2> HIDE DEF l
  <2>1. QED
    BY <1>1, <1>2, ShapeMeant
<1>4. analyze(d)[p] = Analyzed(p, cards)
  BY DEF analyze
<1>5. IsHand(cards)
  BY ExpressionsAssumption DEF IsHand, AllCards
<1>6. k \in AsDealt(cards).bits <=> HasShape(read[k].list, l)
  BY DEF AsDealt
<1> HIDE DEF cards
<1>7. WithLtc(HandCounts(cards)).length = l
  BY <1>5, CountsAsDealt
<1> HIDE DEF l
<1>8. Analyzed(p, cards).bits = Bits(l)
  BY <1>7 DEF Analyzed
<1>9. n \in Bits(l) <=> l \in Inserted(read[k].list)
  BY DEF Bits
<1>10. n \in analyze(d)[p].bits <=> k \in AsDealt(cards).bits
  BY <1>3, <1>4, <1>6, <1>8, <1>9
<1>11. QED
  BY <1>10 DEF cards

\* The value of a leaf of statement k, on the hand as analysed and as dealt.
DealtHands(d) == [p \in Seats |-> AsDealt(d.hands[p])]

\* They agree: no leaf looks at a hand that was not analysed on this deal.
LEMMA LeafAgrees ==
  ASSUME read \in Seq(Statements), TablesInPlace, PointsInStep, HandsMarked, NEW at, TreesInPlace(at),
         NEW d \in ExprDeals, \A p \in Seats : "Has_card" \in DOMAIN handstat[p],
         NEW k \in 1..Len(read), NEW i \in 1..Len(TreeOf(k)),
         TreeOf(k)[i].args = <<>>, TreeOf(k)[i].op # "ident"
  PROVE  Leaf(nodes[at[k] + i], analyze(d), d) = Leaf(TreeOf(k)[i], DealtHands(d), d)
<1> DEFINE t == TreeOf(k)[i]
           n == nodes[at[k] + i]
           p == t.hand
           h == analyze(d)[p]
           m == AsDealt(d.hands[p])
<1>1. /\ n.op = t.op /\ n.hand = p /\ n.suit = t.suit
      /\ t.op # "shape" => n.num = t.num
      /\ t.op = "shape" => n.num \in 0..Len(distr) - 1 /\ distr[n.num + 1] = Inserted(read[k].list)
  BY DEF TreesInPlace, SameNode
<1>2. /\ p \in Seats /\ t.op \in Leaves
      /\ t.op = "shape" => read[k].kind = "shape" /\ t.num = k
  <2>1. /\ IsNodeAt(TreeOf(k)[i], i)
        /\ TreeOf(k)[i].op = "shape" => read[k].kind = "shape" /\ TreeOf(k)[i].num = k
    BY NodesOfStatement
  <2>2. QED
    BY <2>1 DEF IsNodeAt
<1>3. DealtHands(d)[p] = m
  BY <1>2 DEF DealtHands
<1>4. h.Has_card = m.Has_card
  BY <1>2, CardsAsDealt
<1>5. t.op \in ByCompass => use_compass[p]
  BY DEF HandsMarked
<1>6. ASSUME use_compass[p]
      PROVE  SameCounts(h.counts, m.counts)
  <2> DEFINE cards == d.hands[p]
  <2>1. IsHand(cards)
    BY <1>2, ExpressionsAssumption DEF AllCards, IsHand
  <2>2. h = Analyzed(p, cards)
    BY <1>2 DEF analyze
  <2>3. m = AsDealt(cards)
    OBVIOUS
  <2> HIDE DEF cards, h, p, m
  <2>4. h.counts = WithLtc(HandCounts(cards))
    BY <1>6, <2>2 DEF Analyzed
  <2>5. QED
    BY <2>1, <2>3, <2>4, CountsAsDealt
<1>7. ASSUME t.op = "shape"
      PROVE  n.num \in h.bits <=> t.num \in m.bits
  <2>1. use_compass[p] /\ k \in Of({"shape"}) /\ t.num = k
    BY <1>2, <1>5, <1>7 DEF ByCompass, Of
  <2>2. QED
    BY <1>1, <1>2, <1>7, <2>1, BitsAsDealt
<1> HIDE DEF t, n, p, h, m
<1>8. analyze(d)[n.hand] = h
  BY <1>1 DEF h
<1>9. DealtHands(d)[t.hand] = m
  BY <1>3 DEF p
<1>10. t.hand = p
  BY DEF p
<1>11. Leaf(n, analyze(d), d) = Leaf(t, DealtHands(d), d)
  <2>1. CASE t.op \in {"length", "count", "loser", "ltc"}
    <3>1. use_compass[p]
      BY <1>5, <2>1 DEF ByCompass
    <3>2. QED
      BY <1>1, <1>6, <1>8, <1>9, <1>10, <2>1, <3>1 DEF Leaf, OfSuit, SameCounts
  <2>2. CASE t.op = "shape"
    BY <1>1, <1>7, <1>8, <1>9, <1>10, <2>2 DEF Leaf, Given
  <2>3. CASE t.op \notin {"length", "count", "loser", "ltc", "shape"}
    BY <1>1, <1>2, <1>4, <1>8, <1>9, <1>10, <2>3 DEF Leaf, Leaves
  <2>4. QED
    BY <2>1, <2>2, <2>3
<1>12. QED
  BY <1>11 DEF t, n

\* The value of the condition on a deal that was analysed just now.
LEMMA ConditionEvaluated ==
  ASSUME read \in Seq(Statements), ScriptInPlace, PointsInStep,
         \A p \in Seats : "Has_card" \in DOMAIN handstat[p], NEW d \in ExprDeals, NEW draw
  PROVE  evaltree(decisiontree, analyze(d), d, draw) = Meaning(DealtHands(d), d, draw)
<1>1. PICK at \in [1..Len(read) -> Nat] : TreesInPlace(at) /\ NamesInPlace(at) /\ DecisionInPlace(at)
  BY DEF ScriptInPlace
<1>2. TablesInPlace /\ NodesInPlace /\ HandsMarked
  BY DEF ScriptInPlace
<1>3. LeavesAgree(at, analyze(d), DealtHands(d), d)
  BY <1>1, <1>2, LeafAgrees DEF LeavesAgree
<1>4. QED
  BY <1>1, <1>2, <1>3, ConditionMeant

\* What the parser keeps stands as long as none of it changes.
SamePlaces == UNCHANGED <<read, nodes, vars, distr, decisiontree>>

\* Neither do the meanings of the tables change.
LEMMA SameTables ==
  ASSUME UNCHANGED read
  PROVE  \A t : TableMeant(t)' = TableMeant(t)
BY DEF TableMeant, Of

\* More hands may be marked.
LEMMA SameScript ==
  ASSUME read \in Seq(Statements), ScriptInPlace, SamePlaces, TablesInPlace',
         \A p \in Seats : use_compass[p] => use_compass'[p]
  PROVE  ScriptInPlace'
<1>1. TablesInPlace'
  OBVIOUS
<1>2. NodesInPlace'
  BY DEF ScriptInPlace, SamePlaces, NodesInPlace, OperandsFirst
<1>3. \A k : TreeOf(k)' = TreeOf(k)
  BY DEF SamePlaces, TreeOf
<1>4. \A v : Defining(v)' = Defining(v)
  BY DEF SamePlaces, Defining, Of
<1>5. HandsMarked'
  <2>1. ASSUME NEW k \in 1..Len(read), NEW i \in 1..Len(TreeOf(k)), TreeOf(k)[i].op \in ByCompass
        PROVE  use_compass'[TreeOf(k)[i].hand]
    <3>1. TreeOf(k)[i].hand \in Seats
      BY NodesOfStatement DEF IsNodeAt
    <3>2. QED
      BY <2>1, <3>1 DEF ScriptInPlace, HandsMarked
  <2>2. QED
    BY <1>3, <2>1 DEF SamePlaces, HandsMarked
<1>6. distr' \in Seq(Range(distr'))
  BY DEF ScriptInPlace, SamePlaces
<1>7. PICK at \in [1..Len(read) -> Nat] : TreesInPlace(at) /\ NamesInPlace(at) /\ DecisionInPlace(at)
  BY DEF ScriptInPlace
<1>8. \A k : RootAt(k, at)' = RootAt(k, at)
  BY <1>3 DEF RootAt
<1>9. TreesInPlace(at)'
  <2>1. ASSUME NEW k \in 1..Len(read), NEW i
        PROVE  SameNode(k, i, at)' <=> SameNode(k, i, at)
    BY <1>3, <1>4, <1>8 DEF SamePlaces, SameNode
  <2>2. QED
    BY <1>3, <1>7, <2>1 DEF SamePlaces, TreesInPlace
<1>10. NamesInPlace(at)'
  <2>1. Defs' = Defs
    BY DEF SamePlaces, Defs, Of
  <2>2. QED
    BY <1>3, <1>7, <1>8, <2>1 DEF SamePlaces, NamesInPlace
<1>11. DecisionInPlace(at)'
  <2>1. Conditions' = Conditions
    BY DEF SamePlaces, Conditions, Of
  <2>2. QED
    BY <1>7, <1>8, <2>1 DEF SamePlaces, DecisionInPlace
<1>12. at \in [1..Len(read') -> Nat]
  BY <1>7 DEF SamePlaces
<1>13. QED
  BY <1>1, <1>2, <1>5, <1>6, <1>9, <1>10, <1>11, <1>12 DEF ScriptInPlace

\* A deal is analysed, and its condition evaluated.
LEMMA EvaluateDealKeeps ==
  ASSUME ExprInv, NEW d \in ExprDeals, NEW draw, EvaluateDeal(d, draw)
  PROVE  ExprInv'
<1>1. /\ stage = "running" /\ curdeal' = d /\ drawn' = draw /\ handstat' = analyze(d)
      /\ interesting' = evaltree(decisiontree, handstat', d, draw)
      /\ stage' \in {"running", "stopped"}
      /\ UNCHANGED <<read, tables, nodes, vars, distr, use_compass, use_side, decisiontree>>
  BY DEF EvaluateDeal
<1>2. /\ read \in Seq(Statements) /\ ScriptInPlace /\ PointsInStep
      /\ \A p \in Seats : "Has_card" \in DOMAIN handstat[p]
  BY <1>1 DEF ExprInv
<1>3. interesting' = Meaning(DealtHands(d), d, draw)
  BY <1>1, <1>2, ConditionEvaluated
<1>4. ScriptInPlace' /\ PointsInStep'
  <2>1. TablesInPlace' /\ PointsInStep'
    BY <1>1, <1>2, SameTables DEF ScriptInPlace, TablesInPlace, PointsInStep, AreValues
  <2>2. QED
    BY <1>1, <1>2, <2>1, SameScript DEF SamePlaces
<1>5. (Meaning([p \in Seats |-> AsDealt(curdeal.hands[p])], curdeal, drawn))'
        = Meaning(DealtHands(d), d, draw)
  BY <1>1 DEF DealtHands, AsDealt, TableMeant, Meaning, Places, Root, TreeOf, Defining, Of
<1>6. \A p \in Seats : "Has_card" \in DOMAIN handstat'[p]
  BY <1>1, <1>2 DEF analyze, Analyzed
<1>7. QED
  BY <1>1, <1>2, <1>3, <1>4, <1>5, <1>6 DEF ExprInv, ConditionIsOfThisDeal

-----------------------------------------------------------------------------
(* One statement more.                                                     *)

\* A sequence grows: what it had keeps its place.
Extends(new, old) == Len(old) <= Len(new) /\ \A i \in 1..Len(old) : new[i] = old[i]

\* A set of statements that is not empty has a last.
LEMMA LastOfIn ==
  ASSUME NEW N \in Nat, NEW K, K \subseteq 1..N, K # {}
  PROVE  LastOf(K) \in K /\ \A j \in K : j <= LastOf(K)
<1>1. K \subseteq Int /\ N \in Int /\ \A j \in K : j <= N
  OBVIOUS
<1>2. PICK k \in K : \A j \in K : j <= k
  BY <1>1, GreatestElement
<1>3. LastOf(K) = k
  BY <1>1, <1>2, LastIs
<1>4. QED
  BY <1>2, <1>3

\* What reading statement st changes of the statements read.
IsAdded(st) ==
  /\ read \in Seq(Statements) /\ st \in Statements
  /\ read' = Append(read, st)

AddTo(K, kinds, st) == K \cup {k \in {Len(read) + 1} : st.kind \in kinds}

\* The statements read before, their trees and their names stay.
LEMMA StatementAdded ==
  ASSUME NEW st, IsAdded(st)
  PROVE  /\ read' \in Seq(Statements) /\ Len(read) \in Nat /\ Len(read') = Len(read) + 1
         /\ \A k \in 1..Len(read) : read'[k] = read[k] /\ TreeOf(k)' = TreeOf(k)
         /\ read'[Len(read) + 1] = st
         /\ Defs' = AddTo(Defs, {"variable", "shape"}, st)
         /\ Conditions' = AddTo(Conditions, {"condition"}, st)
         /\ Defs \subseteq 1..Len(read) /\ Conditions \subseteq 1..Len(read)
<1>1. /\ read' \in Seq(Statements) /\ Len(read) \in Nat /\ Len(read') = Len(read) + 1
      /\ \A k \in 1..Len(read) : read'[k] = read[k]
      /\ read'[Len(read) + 1] = st
  BY DEF IsAdded
<1>2. \A k \in 1..Len(read) : TreeOf(k)' = TreeOf(k)
  BY <1>1 DEF TreeOf
<1>3. \A k : k \in 1..Len(read') <=> k \in 1..Len(read) \/ k = Len(read) + 1
  BY <1>1
<1>4. Defs' = AddTo(Defs, {"variable", "shape"}, st)
  BY <1>1, <1>3 DEF Defs, Of, AddTo
<1>5. Conditions' = AddTo(Conditions, {"condition"}, st)
  BY <1>1, <1>3 DEF Conditions, Of, AddTo
<1>6. QED
  BY <1>1, <1>2, <1>4, <1>5 DEF Defs, Conditions, Of

\* A new name is none of the script's.
IsFreshName(st) == st.kind \in {"variable", "shape"} => st.num \notin DOMAIN vars

\* The names there are keep their statements.
LEMMA NamesStay ==
  ASSUME NEW st, IsAdded(st), IsFreshName(st), NEW at, NamesInPlace(at), NEW v \in DOMAIN vars
  PROVE  /\ Defining(v) \in Defs /\ read[Defining(v)].num = v
         /\ Defining(v)' = Defining(v) /\ vars[v] = RootAt(Defining(v), at)
<1>1. PICK m \in Defs : read[m].num = v
  BY DEF NamesInPlace
<1>2. \A j \in Defs : read[j].num = v => j = m
  BY <1>1 DEF NamesInPlace
<1>3. Defining(v) = m
  BY <1>1, <1>2 DEF Defining, Defs
<1>4. Defining(v)' = m
  <2>1. m \in Defs' /\ read'[m].num = v
    BY <1>1, StatementAdded DEF AddTo
  <2>2. \A j \in Defs' : read'[j].num = v => j = m
    <3>1. ASSUME NEW j \in Defs', read'[j].num = v, j \notin Defs
          PROVE  FALSE
      <4>1. j = Len(read) + 1 /\ st.kind \in {"variable", "shape"} /\ read'[j] = st
        BY <3>1, StatementAdded DEF AddTo
      <4>2. QED
        BY <3>1, <4>1 DEF IsFreshName
    <3>2. \A j \in Defs : read'[j] = read[j]
      BY StatementAdded
    <3>3. QED
      BY <1>2, <3>1, <3>2
  <2>3. QED
    BY <2>1, <2>2 DEF Defining, Defs
<1>5. vars[v] = RootAt(m, at)
  BY <1>1 DEF NamesInPlace
<1>6. QED
  BY <1>1, <1>3, <1>4, <1>5

\* The places of the trees, once the next one is placed.
WithNext(at) == [k \in 1..Len(read) + 1 |-> IF k = Len(read) + 1 THEN Len(nodes) ELSE at[k]]

ArePlaced(at) == at \in [1..Len(read) -> Nat] /\ TreesInPlace(at) /\ NamesInPlace(at) /\ DecisionInPlace(at)

\* The roots of the trees there are stay in their places.
LEMMA RootsStay ==
  ASSUME NEW st, IsAdded(st), NEW at, NEW at1, at1 = WithNext(at), NEW k \in 1..Len(read)
  PROVE  at1[k] = at[k] /\ RootAt(k, at1)' = RootAt(k, at)
<1>1. at1[k] = at[k] /\ TreeOf(k)' = TreeOf(k)
  BY StatementAdded DEF WithNext
<1>2. QED
  BY <1>1 DEF RootAt

\* The nodes there are stay those of their trees.
LEMMA OldNodes ==
  ASSUME NEW st, IsAdded(st), IsFreshName(st), NEW at, ArePlaced(at), NEW at1, at1 = WithNext(at),
         NodesInPlace, Extends(nodes', nodes), Extends(distr', distr),
         Len(distr) \in Nat, Len(distr') \in Nat,
         NEW k \in 1..Len(read), NEW i \in 1..Len(TreeOf(k))
  PROVE  SameNode(k, i, at1)'
<1> DEFINE t == TreeOf(k)[i]
           n == nodes[at[k] + i]
<1>1. TreesInPlace(at) /\ NamesInPlace(at)
  BY DEF ArePlaced
<1>2. /\ n.op = t.op /\ n.hand = t.hand /\ n.suit = t.suit
      /\ t.op # "shape" => n.num = t.num
      /\ t.op = "shape" => n.num \in 0..Len(distr) - 1 /\ distr[n.num + 1] = Inserted(read[k].list)
      /\ t.op = "ident" => n.args = <<RootAt(Defining(t.num), at)>>
      /\ t.op # "ident" => n.args = [j \in 1..Len(t.args) |-> at[k] + t.args[j]]
  BY <1>1 DEF TreesInPlace, SameNode
<1>3. at1[k] = at[k] /\ TreeOf(k)' = TreeOf(k) /\ read'[k] = read[k]
  BY StatementAdded, RootsStay
<1>4. nodes'[at[k] + i] = n
  <2>1. at[k] + i \in 1..Len(nodes)
    <3>1. at[k] \in Nat /\ at[k] + Len(TreeOf(k)) <= Len(nodes) /\ Len(nodes) \in Nat
      BY <1>1 DEF TreesInPlace, NodesInPlace, OperandsFirst
    <3>2. Len(TreeOf(k)) \in Nat
      BY NodesOfStatement DEF IsAdded
    <3>3. QED
      BY <3>1, <3>2
  <2>2. QED
    BY <2>1 DEF Extends
<1>5. ASSUME t.op = "shape"
      PROVE  n.num \in 0..Len(distr') - 1 /\ distr'[n.num + 1] = Inserted(read'[k].list)
  <2> DEFINE b == n.num
  <2>1. b \in 0..Len(distr) - 1 /\ distr[b + 1] = Inserted(read[k].list)
    BY <1>2, <1>5
  <2> HIDE DEF b
  <2>2. b + 1 \in 1..Len(distr) /\ b \in 0..Len(distr') - 1
    BY <2>1 DEF Extends
  <2>3. distr'[b + 1] = distr[b + 1]
    BY <2>2 DEF Extends
  <2>4. b \in 0..Len(distr') - 1 /\ distr'[b + 1] = Inserted(read'[k].list)
    BY <1>3, <2>1, <2>2, <2>3
  <2>5. QED
    BY <2>4 DEF b
<1>6. ASSUME t.op = "ident", NEW v, v = t.num
      PROVE  n.args = <<RootAt(Defining(v), at1)'>>
  <2>1. t.num \in DOMAIN vars
    <3>1. PICK m \in Defs : read[m].num = t.num
      BY <1>1, <1>6 DEF NamesInPlace
    <3>2. QED
      BY <1>1, <3>1 DEF NamesInPlace
  <2>2. Defining(v)' = Defining(v) /\ Defining(v) \in 1..Len(read)
    BY <1>1, <1>6, <2>1, NamesStay, StatementAdded
  <2>3. PICK m \in 1..Len(read) : m = Defining(v)
    BY <2>2
  <2>4. RootAt(m, at1)' = RootAt(m, at)
    BY RootsStay
  <2>5. QED
    BY <1>2, <1>6, <2>2, <2>3, <2>4
<1> HIDE DEF t, n
<1>7. TreeOf(k)'[i] = t
  BY <1>3 DEF t
<1>8. QED
  BY <1>2, <1>3, <1>4, <1>5, <1>6, <1>7 DEF SameNode

\* The nodes of a tree as newtree makes them, and the tree of the statement.
IsTreeFor(tree, T, list, bits) ==
  /\ Len(tree) \in Nat /\ Len(tree) = Len(T) /\ tree \in Seq(Range(tree))
  /\ \A i \in 1..Len(T) :
       /\ tree[i] = Node(T[i].op, T[i].hand, T[i].suit, tree[i].num, T[i].args)
       /\ IsNodeAt(T[i], i)
       /\ IF T[i].op = "shape"
          THEN tree[i].num \in 0..Len(bits) - 1 /\ bits[tree[i].num + 1] = Inserted(list)
          ELSE tree[i].num = T[i].num

\* The place of a variable's root.
LEMMA RootsPlaced ==
  ASSUME read \in Seq(Statements), NodesInPlace, NEW at, ArePlaced(at), NEW v \in DOMAIN vars
  PROVE  vars[v] \in 1..Len(nodes)
<1>1. PICK m \in Defs : read[m].num = v
  BY DEF ArePlaced, NamesInPlace
<1>2. vars[v] = at[m] + Len(TreeOf(m))
  BY <1>1 DEF ArePlaced, NamesInPlace, RootAt
<1>3. m \in 1..Len(read) /\ Len(TreeOf(m)) \in Nat \ {0}
  BY NodesOfStatement DEF Defs, Of
<1>4. at[m] \in Nat /\ at[m] + Len(TreeOf(m)) <= Len(nodes) /\ Len(nodes) \in Nat
  BY <1>3 DEF ArePlaced, TreesInPlace, NodesInPlace, OperandsFirst
<1>5. QED
  BY <1>2, <1>3, <1>4

\* The nodes once a tree is added.
LEMMA NodesGrown ==
  ASSUME NodesInPlace, NEW tree, Len(tree) \in Nat, tree \in Seq(Range(tree)), nodes' = Grown(tree)
  PROVE  /\ Len(nodes) \in Nat /\ Len(nodes') = Len(nodes) + Len(tree) /\ Extends(nodes', nodes)
         /\ \A i \in 1..Len(tree) : nodes'[Len(nodes) + i] = [tree[i] EXCEPT !.args = Operands(tree[i])]
         /\ nodes' \in Seq(Range(nodes'))
<1> DEFINE more == [i \in 1..Len(tree) |-> [tree[i] EXCEPT !.args = Operands(tree[i])]]
           R == Range(nodes) \cup Range(more)
<1>1. nodes \in Seq(Range(nodes)) /\ Len(nodes) \in Nat
  BY DEF NodesInPlace
<1>2. more \in [1..Len(tree) -> Range(more)]
  BY DEF Range
<1>3. nodes' = nodes \o more
  BY DEF Grown
<1>4. \A i \in 1..Len(tree) : more[i] = [tree[i] EXCEPT !.args = Operands(tree[i])]
  OBVIOUS
<1> HIDE DEF more
<1>5. more \in Seq(Range(more)) /\ Len(more) = Len(tree)
  BY <1>2
<1>6. nodes \in Seq(R) /\ more \in Seq(R)
  BY <1>1, <1>5
<1> HIDE DEF R
<1>7. /\ nodes' \in Seq(R) /\ Len(nodes') = Len(nodes) + Len(tree)
      /\ \A i \in 1..Len(nodes) : nodes'[i] = nodes[i]
      /\ \A i \in 1..Len(tree) : nodes'[Len(nodes) + i] = more[i]
  <2>1. /\ nodes' \in Seq(R) /\ Len(nodes') = Len(nodes) + Len(more)
        /\ \A i \in 1..Len(nodes) + Len(more) :
             nodes'[i] = IF i <= Len(nodes) THEN nodes[i] ELSE more[i - Len(nodes)]
    BY <1>3, <1>6, ConcatProperties
  <2>2. Len(more) = Len(tree)
    BY <1>5
  <2>3. ASSUME NEW i \in 1..Len(tree)
        PROVE  nodes'[Len(nodes) + i] = more[i]
    <3>1. Len(nodes) + i \in 1..Len(nodes) + Len(more) /\ ~(Len(nodes) + i <= Len(nodes))
      BY <1>1, <2>2
    <3>2. (Len(nodes) + i) - Len(nodes) = i
      BY <1>1
    <3>3. QED
      BY <2>1, <3>1, <3>2
  <2>4. \A i \in 1..Len(nodes) : nodes'[i] = nodes[i]
    BY <1>1, <2>1, <2>2
  <2>5. QED
    BY <2>1, <2>2, <2>3, <2>4
<1>8. nodes' \in Seq(Range(nodes'))
  BY <1>7, SeqOfRange
<1>9. Extends(nodes', nodes)
  BY <1>1, <1>7 DEF Extends
<1>10. \A i \in 1..Len(tree) : nodes'[Len(nodes) + i] = [tree[i] EXCEPT !.args = Operands(tree[i])]
  BY <1>4, <1>7, Zenon
<1>11. QED
  BY <1>1, <1>7, <1>8, <1>9, <1>10

\* The operands of a new node come before it.
LEMMA NodesStayInPlace ==
  ASSUME read \in Seq(Statements), NodesInPlace, NEW at, ArePlaced(at),
         NEW tree, NEW T, NEW list, NEW bits, IsTreeFor(tree, T, list, bits), Known(tree), nodes' = Grown(tree)
  PROVE  NodesInPlace'
<1>1. /\ Len(nodes) \in Nat /\ Len(nodes') = Len(nodes) + Len(tree) /\ Extends(nodes', nodes)
      /\ \A i \in 1..Len(tree) : nodes'[Len(nodes) + i] = [tree[i] EXCEPT !.args = Operands(tree[i])]
      /\ nodes' \in Seq(Range(nodes'))
  BY NodesGrown DEF IsTreeFor
<1>2. Len(tree) \in Nat /\ Len(tree) = Len(T)
  BY DEF IsTreeFor
<1>3. nodes # <<>> /\ nodes[1] = NumberNode(1) /\ 1 \in 1..Len(nodes)
  BY DEF NodesInPlace
<1>4. nodes' # <<>> /\ nodes'[1] = NumberNode(1)
  BY <1>1, <1>2, <1>3 DEF Extends
<1>5. ASSUME NEW i \in 1..Len(nodes')
      PROVE  /\ Len(nodes'[i].args) \in Nat
             /\ \A j \in 1..Len(nodes'[i].args) : nodes'[i].args[j] \in 1..i - 1
  <2>1. CASE i <= Len(nodes)
    <3>1. nodes'[i] = nodes[i] /\ i \in 1..Len(nodes)
      BY <1>1, <2>1 DEF Extends
    <3>2. QED
      BY <3>1 DEF NodesInPlace, OperandsFirst
  <2>2. CASE i > Len(nodes)
    <3> DEFINE q == i - Len(nodes)
               t == tree[q]
    <3>1. q \in 1..Len(tree) /\ i = Len(nodes) + q
      BY <1>1, <1>2, <2>2
    <3> HIDE DEF q
    <3>2. nodes'[i] = [t EXCEPT !.args = Operands(t)]
      BY <1>1, <3>1
    <3>3. t = Node(T[q].op, T[q].hand, T[q].suit, t.num, T[q].args) /\ IsNodeAt(T[q], q)
      BY <1>2, <3>1 DEF IsTreeFor
    <3>4. t.op = T[q].op /\ t.args = T[q].args
      BY <3>3 DEF Node
    <3>5. nodes'[i].args = Operands(t)
      BY <3>2, <3>3 DEF Node
    <3>6. CASE t.op = "ident"
      <4>1. t.num \in DOMAIN vars
        BY <3>1, <3>6 DEF Known, Idents
      <4>2. vars[t.num] \in 1..Len(nodes)
        BY <4>1, RootsPlaced
      <4>3. Operands(t) = <<vars[t.num]>>
        BY <3>6 DEF Operands
      <4> HIDE DEF t
      <4>4. vars[t.num] \in 1..i - 1
        BY <1>1, <2>2, <4>2
      <4>5. QED
        BY <3>5, <4>3, <4>4
    <3>7. CASE t.op # "ident"
      <4>1. Operands(t) = [j \in 1..Len(t.args) |-> Len(nodes) + t.args[j]]
        BY <3>7 DEF Operands
      <4>2. t.args \in Seq(1..q - 1)
        BY <3>3, <3>4 DEF IsNodeAt
      <4> HIDE DEF t
      <4>3. Len(t.args) \in Nat /\ \A j \in 1..Len(t.args) : t.args[j] \in 1..q - 1
        <5> DEFINE args == t.args
                   B == 1..q - 1
        <5>1. args \in Seq(B)
          BY <4>2
        <5> HIDE DEF args, B
        <5>2. Len(args) \in Nat /\ \A j \in 1..Len(args) : args[j] \in B
          BY <5>1
        <5>3. QED
          BY <5>2 DEF args, B
      <4>4. \A j \in 1..Len(t.args) : Len(nodes) + t.args[j] \in 1..i - 1
        <5>1. ASSUME NEW j \in 1..Len(t.args), NEW a, a = t.args[j]
              PROVE  Len(nodes) + a \in 1..i - 1
          BY <1>1, <3>1, <4>3, <5>1
        <5>2. QED
          BY <5>1
      <4>5. Len(Operands(t)) = Len(t.args)
        BY <4>1, <4>3
      <4>6. QED
        BY <3>5, <4>1, <4>3, <4>4, <4>5
    <3>8. QED
      BY <3>6, <3>7
  <2>3. QED
    BY <1>1, <1>2, <2>1, <2>2
<1>6. OperandsFirst'
  BY <1>1, <1>2, <1>5 DEF OperandsFirst
<1>7. QED
  BY <1>1, <1>4, <1>6 DEF NodesInPlace

\* The new nodes are those of the statement's tree.
LEMMA NewNodes ==
  ASSUME NEW st, IsAdded(st), IsFreshName(st), NodesInPlace, NEW at, ArePlaced(at),
         NEW at1, at1 = WithNext(at), NEW K, K = Len(read) + 1, NEW T, T = TreeOf(K)',
         NEW tree, NEW bits, bits = distr', IsTreeFor(tree, T, st.list, bits), Known(tree),
         nodes' = Grown(tree), NEW i \in 1..Len(T)
  PROVE  SameNode(K, i, at1)'
<1> DEFINE t == T[i]
           n == nodes'[Len(nodes) + i]
<1>1. /\ tree[i] = Node(t.op, t.hand, t.suit, tree[i].num, t.args)
      /\ IF t.op = "shape"
         THEN tree[i].num \in 0..Len(distr') - 1 /\ distr'[tree[i].num + 1] = Inserted(st.list)
         ELSE tree[i].num = t.num
  BY DEF IsTreeFor
<1>2. i \in 1..Len(tree) /\ n = [tree[i] EXCEPT !.args = Operands(tree[i])]
  <2>1. i \in 1..Len(tree)
    BY DEF IsTreeFor
  <2>2. \A j \in 1..Len(tree) : nodes'[Len(nodes) + j] = [tree[j] EXCEPT !.args = Operands(tree[j])]
    BY NodesGrown DEF IsTreeFor
  <2>3. QED
    BY <2>1, <2>2
<1>3. read'[K] = st /\ at1[K] = Len(nodes)
  <2>1. Len(read) \in Nat /\ read'[Len(read) + 1] = st
    BY StatementAdded
  <2>2. QED
    BY <2>1 DEF WithNext
<1> HIDE DEF t, n
<1>4. /\ tree[i].op = t.op /\ tree[i].hand = t.hand /\ tree[i].suit = t.suit /\ tree[i].args = t.args
      /\ n.op = t.op /\ n.hand = t.hand /\ n.suit = t.suit /\ n.num = tree[i].num
      /\ n.args = Operands(tree[i])
  BY <1>1, <1>2 DEF Node
<1>5. ASSUME t.op = "ident", NEW v, v = t.num
      PROVE  n.args = <<RootAt(Defining(v), at1)'>>
  <2>1. v = tree[i].num /\ v \in DOMAIN vars
    BY <1>1, <1>2, <1>4, <1>5 DEF Known, Idents
  <2>2. Defining(v)' = Defining(v) /\ Defining(v) \in 1..Len(read) /\ vars[v] = RootAt(Defining(v), at)
    BY <2>1, NamesStay, StatementAdded DEF ArePlaced
  <2>3. PICK m \in 1..Len(read) : m = Defining(v)
    BY <2>2
  <2>4. RootAt(m, at1)' = RootAt(m, at)
    BY RootsStay
  <2>5. n.args = <<vars[v]>>
    BY <1>4, <1>5, <2>1 DEF Operands
  <2>6. QED
    BY <2>2, <2>3, <2>4, <2>5
<1>6. ASSUME t.op # "ident"
      PROVE  n.args = [j \in 1..Len(t.args) |-> at1[K] + t.args[j]]
  BY <1>3, <1>4, <1>6 DEF Operands
<1>7. TreeOf(K)'[i] = t /\ nodes'[at1[K] + i] = n
  BY <1>3 DEF t, n
<1>8. QED
  BY <1>1, <1>3, <1>4, <1>5, <1>6, <1>7 DEF SameNode

\* What reading a statement does to the nodes, with its tree T made as tree.
AddsTree(st, tree, T, bits) ==
  /\ IsAdded(st) /\ IsFreshName(st) /\ IsTreeFor(tree, T, st.list, bits) /\ Known(tree)
  /\ nodes' = Grown(tree)
  /\ Extends(distr', distr) /\ Len(distr) \in Nat /\ Len(distr') \in Nat

\* And to the names, the decision and the marks.
Names(st) ==
  IF st.kind \in {"variable", "shape"}
  THEN vars' = [n \in DOMAIN vars \cup {st.num} |-> IF n = st.num THEN Len(nodes') ELSE vars[n]]
  ELSE vars' = vars

Decides(st) == decisiontree' = IF st.kind = "condition" THEN Len(nodes') ELSE decisiontree

Marks(tree) == \A p \in Seats : use_compass'[p] <=> use_compass[p] \/ p \in Compasses(tree)

\* The place of the new tree.
LEMMA NextPlace ==
  ASSUME NEW st, NEW tree, NEW T, NEW bits, bits = distr', AddsTree(st, tree, T, bits), NodesInPlace,
         NEW at, ArePlaced(at), NEW at1, at1 = WithNext(at), NEW K, K = Len(read) + 1, T = TreeOf(K)'
  PROVE  /\ at1 \in [1..Len(read') -> Nat] /\ at1[K] = Len(nodes) /\ K \in 1..Len(read')
         /\ Len(T) \in Nat /\ Len(nodes) \in Nat /\ Len(nodes') = Len(nodes) + Len(T)
         /\ RootAt(K, at1)' = Len(nodes')
         /\ \A k \in 1..Len(read') : k \in 1..Len(read) \/ k = K
<1>1. Len(read) \in Nat /\ Len(read') = Len(read) + 1
  BY StatementAdded DEF AddsTree
<1>2. Len(tree) \in Nat /\ Len(tree) = Len(T)
  BY DEF AddsTree, IsTreeFor
<1>3. Len(nodes) \in Nat /\ Len(nodes') = Len(nodes) + Len(tree)
  BY NodesGrown DEF AddsTree, IsTreeFor
<1>4. at1 \in [1..Len(read') -> Nat]
  BY <1>1, <1>3 DEF WithNext, ArePlaced
<1>5. at1[K] = Len(nodes)
  BY <1>1 DEF WithNext
<1>6. RootAt(K, at1)' = Len(nodes')
  BY <1>2, <1>3, <1>5 DEF RootAt
<1>7. QED
  BY <1>1, <1>2, <1>3, <1>4, <1>5, <1>6

\* Every tree is in its place, the new one too.
LEMMA TreesStay ==
  ASSUME NEW st, NEW tree, NEW T, NEW bits, bits = distr', AddsTree(st, tree, T, bits), NodesInPlace,
         NEW at, ArePlaced(at), NEW at1, at1 = WithNext(at), NEW K, K = Len(read) + 1, T = TreeOf(K)'
  PROVE  TreesInPlace(at1)'
<1>1. /\ at1[K] = Len(nodes) /\ Len(T) \in Nat /\ Len(nodes) \in Nat
      /\ Len(nodes') = Len(nodes) + Len(T)
      /\ \A k \in 1..Len(read') : k \in 1..Len(read) \/ k = K
  BY NextPlace
<1>2. IsAdded(st) /\ read \in Seq(Statements)
  BY DEF AddsTree, IsAdded
<1>3. Extends(nodes', nodes)
  BY NodesGrown DEF AddsTree, IsTreeFor
<1>4. ASSUME NEW k \in 1..Len(read)
      PROVE  /\ at1[k] \in Nat /\ at1[k] + Len(TreeOf(k)') <= Len(nodes')
             /\ \A i \in 1..Len(TreeOf(k)') : SameNode(k, i, at1)'
  <2>1. TreeOf(k)' = TreeOf(k) /\ at1[k] = at[k]
    BY <1>2, StatementAdded, RootsStay
  <2>2. at[k] \in Nat /\ at[k] + Len(TreeOf(k)) <= Len(nodes) /\ Len(TreeOf(k)) \in Nat
    BY <1>2, NodesOfStatement DEF ArePlaced, TreesInPlace
  <2>3. \A i \in 1..Len(TreeOf(k)) : SameNode(k, i, at1)'
    BY <1>3, OldNodes DEF AddsTree
  <2>4. QED
    BY <1>1, <2>1, <2>2, <2>3
<1>5. \A i \in 1..Len(T) : SameNode(K, i, at1)'
  BY NewNodes DEF AddsTree
<1>6. QED
  BY <1>1, <1>4, <1>5 DEF TreesInPlace

\* Every name stands for its statement, the new one too: new_var.
LEMMA NamesGrow ==
  ASSUME NEW st, NEW tree, NEW T, NEW bits, bits = distr', AddsTree(st, tree, T, bits), NodesInPlace,
         NEW at, ArePlaced(at), NEW at1, at1 = WithNext(at), NEW K, K = Len(read) + 1, T = TreeOf(K)',
         Names(st)
  PROVE  NamesInPlace(at1)'
<1>1. /\ RootAt(K, at1)' = Len(nodes')
      /\ \A k \in 1..Len(read') : k \in 1..Len(read) \/ k = K
  BY NextPlace
<1>2. IsAdded(st) /\ IsFreshName(st) /\ NamesInPlace(at)
  BY DEF AddsTree, ArePlaced
<1>3. /\ Defs' = AddTo(Defs, {"variable", "shape"}, st) /\ Defs \subseteq 1..Len(read)
      /\ read'[K] = st /\ Len(read) \in Nat
      /\ \A k \in 1..Len(read) : read'[k] = read[k] /\ TreeOf(k)' = TreeOf(k)
  BY <1>2, StatementAdded
<1>4. \A k \in 1..Len(read) : RootAt(k, at1)' = RootAt(k, at)
  BY <1>2, RootsStay
<1>5. \A k \in Defs : read[k].num \in DOMAIN vars
  BY <1>2 DEF NamesInPlace
<1>6. Defs' = IF st.kind \in {"variable", "shape"} THEN Defs \cup {K} ELSE Defs
  BY <1>3 DEF AddTo
<1>7. DOMAIN vars' = {read'[k].num : k \in Defs'}
  <2>1. DOMAIN vars = {read'[k].num : k \in Defs}
    BY <1>2, <1>3 DEF NamesInPlace
  <2>2. CASE st.kind \in {"variable", "shape"}
    <3>1. DOMAIN vars' = DOMAIN vars \cup {st.num}
      BY <2>2 DEF Names
    <3>2. Defs' = Defs \cup {K}
      BY <1>6, <2>2
    <3>3. QED
      BY <1>3, <2>1, <3>1, <3>2
  <2>3. CASE st.kind \notin {"variable", "shape"}
    BY <1>6, <2>1, <2>3 DEF Names
  <2>4. QED
    BY <2>2, <2>3
<1>8. \A j, k \in Defs' : read'[j].num = read'[k].num => j = k
  <2>1. \A j, k \in Defs : read'[j].num = read'[k].num => j = k
    BY <1>2, <1>3 DEF NamesInPlace
  <2>2. K \in Defs' => \A j \in Defs : read'[j].num # read'[K].num
    BY <1>1, <1>2, <1>3, <1>5, <1>6 DEF IsFreshName
  <2>3. QED
    BY <1>6, <2>1, <2>2
<1>9. ASSUME NEW k \in Defs'
      PROVE  vars'[read'[k].num] = RootAt(k, at1)'
  <2>1. CASE k \in Defs
    <3>1. vars[read[k].num] = RootAt(k, at)
      BY <1>2, <2>1 DEF NamesInPlace
    <3>2. read[k].num \in DOMAIN vars
      BY <1>5, <2>1
    <3>3. vars'[read[k].num] = vars[read[k].num]
      BY <1>2, <3>2 DEF Names, IsFreshName
    <3>4. QED
      BY <1>3, <1>4, <2>1, <3>1, <3>3
  <2>2. CASE k \notin Defs
    <3>1. k = K /\ st.kind \in {"variable", "shape"}
      BY <1>6, <2>2
    <3>2. vars'[st.num] = Len(nodes')
      BY <3>1 DEF Names
    <3>3. QED
      BY <1>1, <1>3, <3>1, <3>2
  <2>3. QED
    BY <2>1, <2>2
<1>10. ASSUME NEW k \in 1..Len(read'), NEW i \in 1..Len(TreeOf(k)'), TreeOf(k)'[i].op = "ident"
       PROVE  \E m \in Defs' : m < k /\ read'[m].num = TreeOf(k)'[i].num
  <2>1. CASE k \in 1..Len(read)
    <3>1. PICK m \in Defs : m < k /\ read[m].num = TreeOf(k)[i].num
      BY <1>2, <1>3, <1>10, <2>1 DEF NamesInPlace
    <3>2. QED
      BY <1>3, <1>6, <2>1, <3>1
  <2>2. CASE k = K
    <3>1. i \in 1..Len(tree) /\ tree[i].op = "ident" /\ tree[i].num = T[i].num
      <4>1. i \in 1..Len(T) /\ T[i].op = "ident"
        BY <1>10, <2>2
      <4>2. IsTreeFor(tree, T, st.list, bits)
        BY DEF AddsTree
      <4>3. tree[i].num = T[i].num /\ i \in 1..Len(tree)
        BY <4>1, <4>2 DEF IsTreeFor
      <4>4. tree[i] = Node(T[i].op, T[i].hand, T[i].suit, tree[i].num, T[i].args)
        BY <4>1, <4>2 DEF IsTreeFor
      <4>5. QED
        BY <4>1, <4>3, <4>4 DEF Node
    <3>2. T[i].num \in DOMAIN vars
      BY <3>1 DEF AddsTree, Known, Idents
    <3>3. PICK m \in Defs : read[m].num = T[i].num
      BY <1>2, <3>2 DEF NamesInPlace
    <3>4. m \in Defs' /\ m < K /\ read'[m] = read[m]
      BY <1>3, <1>6
    <3>5. QED
      BY <2>2, <3>3, <3>4
  <2>3. QED
    BY <1>1, <2>1, <2>2
<1>11. QED
  BY <1>7, <1>8, <1>9, <1>10 DEF NamesInPlace

\* The last condition read is the one that counts.
LEMMA DecisionStays ==
  ASSUME NEW st, NEW tree, NEW T, NEW bits, bits = distr', AddsTree(st, tree, T, bits), NodesInPlace,
         NEW at, ArePlaced(at), NEW at1, at1 = WithNext(at), NEW K, K = Len(read) + 1, T = TreeOf(K)',
         Decides(st)
  PROVE  DecisionInPlace(at1)'
<1>1. RootAt(K, at1)' = Len(nodes')
  BY NextPlace
<1>2. IsAdded(st) /\ DecisionInPlace(at)
  BY DEF AddsTree, ArePlaced
<1>3. /\ Conditions' = AddTo(Conditions, {"condition"}, st)
      /\ Conditions \subseteq 1..Len(read) /\ Len(read) \in Nat
  BY <1>2, StatementAdded
<1>4. CASE st.kind = "condition"
  <2>1. Conditions' = Conditions \cup {K}
    BY <1>3, <1>4 DEF AddTo
  <2>2. LastOf(Conditions') = K
    <3>1. Conditions \subseteq Int /\ K \in Int /\ \A j \in Conditions : j <= K
      BY <1>3
    <3>2. \A j \in Conditions' : j \in Int /\ j <= K
      <4>1. K <= K
        BY <3>1
      <4>2. \A j \in Conditions' : j \in Conditions \/ j = K
        BY <2>1
      <4>3. QED
        BY <3>1, <4>1, <4>2, Zenon
    <3>3. K \in Conditions' /\ Conditions' \subseteq Int
      BY <2>1, <3>2
    <3>4. QED
      BY <3>2, <3>3, LastIs
  <2>3. RootAt(LastOf(Conditions), at1)' = Len(nodes')
    BY <1>1, <2>2
  <2>4. QED
    BY <1>4, <2>1, <2>3 DEF DecisionInPlace, Decides
<1>5. CASE st.kind # "condition"
  <2>1. Conditions' = Conditions
    BY <1>3, <1>5 DEF AddTo
  <2>2. decisiontree' = decisiontree
    BY <1>5 DEF Decides
  <2>3. CASE Conditions = {}
    BY <1>2, <2>1, <2>2, <2>3 DEF DecisionInPlace
  <2>4. CASE Conditions # {}
    <3>1. PICK c \in 1..Len(read) : c = LastOf(Conditions)
      BY <1>3, <2>4, LastOfIn
    <3>2. RootAt(c, at1)' = RootAt(c, at)
      BY <1>2, RootsStay
    <3>3. c = LastOf(Conditions')
      BY <2>1, <3>1
    <3>4. QED
      BY <1>2, <2>1, <2>2, <2>4, <3>1, <3>2, <3>3 DEF DecisionInPlace
  <2>5. QED
    BY <2>3, <2>4
<1>6. QED
  BY <1>4, <1>5

\* The hands that the trees mention are marked.
LEMMA MarksStay ==
  ASSUME NEW st, NEW tree, NEW T, NEW bits, AddsTree(st, tree, T, bits), HandsMarked, Marks(tree),
         NEW K, K = Len(read) + 1, T = TreeOf(K)'
  PROVE  HandsMarked'
<1>1. IsAdded(st) /\ IsTreeFor(tree, T, st.list, bits)
  BY DEF AddsTree
<1>2. /\ Len(read) \in Nat /\ Len(read') = Len(read) + 1
      /\ \A k \in 1..Len(read) : TreeOf(k)' = TreeOf(k)
  BY <1>1, StatementAdded
<1>3. ASSUME NEW k \in 1..Len(read), NEW i \in 1..Len(TreeOf(k)), TreeOf(k)[i].op \in ByCompass
      PROVE  use_compass'[TreeOf(k)[i].hand]
  <2>1. TreeOf(k)[i].hand \in Seats
    BY <1>1, NodesOfStatement DEF IsNodeAt, IsAdded
  <2>2. QED
    BY <1>3, <2>1 DEF HandsMarked, Marks
<1>4. ASSUME NEW i \in 1..Len(T), T[i].op \in ByCompass
      PROVE  use_compass'[T[i].hand]
  <2>1. IsNodeAt(T[i], i) /\ i \in 1..Len(tree)
    BY <1>1 DEF IsTreeFor
  <2>2. tree[i] = Node(T[i].op, T[i].hand, T[i].suit, tree[i].num, T[i].args)
    BY <1>1 DEF IsTreeFor
  <2>3. tree[i].op = T[i].op /\ tree[i].hand = T[i].hand
    BY <2>2 DEF Node
  <2>4. T[i].hand \in Seats /\ T[i].hand \in Compasses(tree)
    BY <1>4, <2>1, <2>3 DEF IsNodeAt, Compasses
  <2>5. QED
    BY <2>4 DEF Marks
<1>5. \A k \in 1..Len(read') : k \in 1..Len(read) \/ k = K
  BY <1>2
<1>6. QED
  BY <1>2, <1>3, <1>4, <1>5 DEF HandsMarked

\* The statements that give a table of tblPointcount its values.
Gives(st, t) ==
  /\ st.kind \in {"pointcount", "altcount"}
  /\ t = IF st.kind = "pointcount" THEN idxHcp ELSE st.num

Givers(t) == {k \in 1..Len(read) : Gives(read[k], t)}

\* The last of them counts.
LEMMA TableGiven ==
  ASSUME NEW t, t # POINTS
  PROVE  TableMeant(t) = IF Givers(t) = {} THEN tblPointcount[t] ELSE TableOf(read[LastOf(Givers(t))].list)
<1>1. Givers(t) = {k \in Of({"pointcount", "altcount"}) :
                     t = IF read[k].kind = "pointcount" THEN idxHcp ELSE read[k].num}
  BY DEF Givers, Gives, Of
<1>2. QED
  BY <1>1 DEF TableMeant

\* What one statement more makes of a table.
LEMMA GiversAdded ==
  ASSUME NEW st, IsAdded(st), NEW t, t # POINTS
  PROVE  /\ TableMeant(t)' = IF Gives(st, t) THEN TableOf(st.list) ELSE TableMeant(t)
<1> DEFINE K == Len(read) + 1
           G == Givers(t)
           G1 == Givers(t)'
<1>1. /\ Len(read) \in Nat /\ Len(read') = K /\ read'[K] = st
      /\ \A k \in 1..Len(read) : read'[k] = read[k]
  BY StatementAdded
<1>2. G1 = {k \in 1..Len(read') : Gives(read'[k], t)}
  BY DEF Givers, Gives
<1>3. G = {k \in 1..Len(read) : Gives(read[k], t)} /\ G \subseteq 1..Len(read)
  BY DEF Givers
<1>4. TableMeant(t)' = IF G1 = {} THEN tblPointcount[t] ELSE TableOf(read'[LastOf(G1)].list)
  <2>1. G1 = {k \in Of({"pointcount", "altcount"})' :
                t = IF read'[k].kind = "pointcount" THEN idxHcp ELSE read'[k].num}
    BY DEF Givers, Gives, Of
  <2>2. QED
    BY <2>1 DEF TableMeant
<1>5. TableMeant(t) = IF G = {} THEN tblPointcount[t] ELSE TableOf(read[LastOf(G)].list)
  BY TableGiven
<1> HIDE DEF G, G1
<1>6. CASE Gives(st, t)
  <2>1. K \in G1 /\ G1 \subseteq Int /\ \A j \in G1 : j <= K
    BY <1>1, <1>2, <1>6
  <2>2. LastOf(G1) = K
    BY <2>1, LastIs
  <2>3. QED
    BY <1>1, <1>4, <1>6, <2>1, <2>2
<1>7. CASE ~Gives(st, t)
  <2>1. G1 = G
    <3>1. \A k : k \in 1..Len(read') <=> k \in 1..Len(read) \/ k = K
      BY <1>1
    <3>2. QED
      BY <1>1, <1>2, <1>3, <1>7, <3>1
  <2>2. CASE G = {}
    BY <1>4, <1>5, <1>7, <2>1, <2>2
  <2>3. CASE G # {}
    <3>1. LastOf(G) \in 1..Len(read)
      BY <1>1, <1>3, <2>3, LastOfIn
    <3>2. QED
      BY <1>1, <1>4, <1>5, <1>7, <2>1, <2>3, <3>1
  <2>4. QED
    BY <2>2, <2>3
<1>8. QED
  BY <1>6, <1>7

\* The other statements leave the tables.
LEMMA TablesStay ==
  ASSUME NEW st, IsAdded(st), st.kind \notin {"pointcount", "altcount"}, tables' = tables, TablesInPlace
  PROVE  TablesInPlace'
<1>1. \A t \in (0..CONTROLS) \ {POINTS} : TableMeant(t)' = TableMeant(t)
  BY GiversAdded DEF Gives
<1>2. QED
  BY <1>1 DEF TablesInPlace, AreValues

\* pointcount and altcount leave the tables as the script means them.
LEMMA TablesRead ==
  ASSUME NEW st, IsAdded(st), st.kind \in {"pointcount", "altcount"}, TablesInPlace,
         tables' = IF st.kind = "pointcount" THEN Pointcount(st) ELSE Altcount(st)
  PROVE  TablesInPlace'
<1> DEFINE row == TableOf(st.list)
<1>1. DOMAIN tables = 0..CONTROLS /\ AreValues(tables) /\ \A t \in (0..CONTROLS) \ {POINTS} : tables[t] = TableMeant(t)
  BY DEF TablesInPlace
<1>2. \A r \in Ranks : row[r] \in Int
  <2>1. st.list \in Seq(Int)
    BY ExpressionsAssumption DEF IsAdded
  <2>2. ASSUME NEW r \in Ranks
        PROVE  row[r] \in Int
    <3> DEFINE n == 13 - r
    <3>1. n \in 1..13
      BY DEF Ranks
    <3>2. row[r] = IF n <= Len(st.list) THEN st.list[n] ELSE 0
      BY DEF TableOf
    <3> HIDE DEF n, row
    <3>3. Len(st.list) \in Nat /\ (n <= Len(st.list) => st.list[n] \in Int)
      BY <2>1, <3>1
    <3>4. QED
      BY <3>2, <3>3
  <2>3. QED
    BY <2>2
<1>3. DOMAIN tables' = 0..CONTROLS
  BY <1>1 DEF Pointcount, Altcount
<1> HIDE DEF row
<1>4. \A t \in (0..CONTROLS) \ {POINTS} : tables'[t] = IF Gives(st, t) THEN row ELSE tables[t]
  <2>1. CASE st.kind = "pointcount"
    BY <1>1, <2>1 DEF Pointcount, Gives, row, POINTS, idxHcp
  <2>2. CASE st.kind = "altcount"
    BY <1>1, <2>2 DEF Altcount, Gives, row
  <2>3. QED
    BY <2>1, <2>2
<1>5. \A t \in (0..CONTROLS) \ {POINTS} : TableMeant(t)' = IF Gives(st, t) THEN row ELSE TableMeant(t)
  BY GiversAdded DEF row
<1>6. \A t \in 0..CONTROLS : \A r \in Ranks : tables'[t][r] \in Int
  <2>1. \A t \in 0..CONTROLS : tables'[t] = row \/ tables'[t] = tables[t]
    BY <1>1 DEF Pointcount, Altcount, row
  <2>2. QED
    BY <1>1, <1>2, <2>1 DEF AreValues
<1>7. QED
  BY <1>1, <1>3, <1>4, <1>5, <1>6 DEF TablesInPlace, AreValues

\* All that the parser keeps, after one statement more.
LEMMA ScriptAdded ==
  ASSUME ScriptInPlace, NEW st, NEW tree, NEW T, NEW bits, bits = distr', AddsTree(st, tree, T, bits),
         NEW K, K = Len(read) + 1, T = TreeOf(K)', Names(st), Decides(st), Marks(tree),
         TablesInPlace', distr' \in Seq(Range(distr'))
  PROVE  ScriptInPlace' /\ read' \in Seq(Statements)
<1>1. PICK at \in [1..Len(read) -> Nat] : TreesInPlace(at) /\ NamesInPlace(at) /\ DecisionInPlace(at)
  BY DEF ScriptInPlace
<1>2. ArePlaced(at)
  BY <1>1 DEF ArePlaced
<1>3. NodesInPlace /\ HandsMarked
  BY DEF ScriptInPlace
<1> DEFINE at1 == WithNext(at)
<1>4. PICK next : next = at1
  OBVIOUS
<1>5. next \in [1..Len(read') -> Nat]
  BY <1>2, <1>3, <1>4, NextPlace
<1>6. TreesInPlace(next)'
  BY <1>2, <1>3, <1>4, TreesStay
<1>7. NamesInPlace(next)'
  BY <1>2, <1>3, <1>4, NamesGrow
<1>8. DecisionInPlace(next)'
  BY <1>2, <1>3, <1>4, DecisionStays
<1>9. HandsMarked'
  BY <1>3, MarksStay
<1>10. NodesInPlace'
  BY <1>2, <1>3, NodesStayInPlace DEF AddsTree, IsAdded
<1>11. read' \in Seq(Statements)
  BY StatementAdded DEF AddsTree
<1>12. QED
  BY <1>5, <1>6, <1>7, <1>8, <1>9, <1>10, <1>11 DEF ScriptInPlace

\* A tree from the script is made as it stands.
LEMMA TreeAdded ==
  ASSUME NEW st, IsAdded(st), st.kind \in {"condition", "variable"}, IsFreshName(st), Known(st.tree),
         nodes' = Grown(st.tree), distr' = distr, distr \in Seq(Range(distr)),
         NEW bits, bits = distr', NEW K, K = Len(read) + 1, NEW T, T = TreeOf(K)'
  PROVE  AddsTree(st, st.tree, T, bits)
<1> DEFINE tree == st.tree
<1>1. T = tree
  <2>1. read'[K] = st
    BY StatementAdded
  <2>2. QED
    BY <2>1 DEF TreeOf
<1>2. IsTree(tree)
  BY ExpressionsAssumption DEF IsAdded
<1>3. Len(tree) \in Nat /\ \A i \in 1..Len(tree) : IsNodeAt(tree[i], i) /\ tree[i].op # "shape"
  BY <1>2, NodesOfTree
<1>4. tree \in Seq(Range(tree)) /\ \A i \in 1..Len(tree) :
        tree[i] = Node(tree[i].op, tree[i].hand, tree[i].suit, tree[i].num, tree[i].args)
  BY <1>2 DEF IsTree
<1>5. IsTreeFor(tree, T, st.list, bits)
  BY <1>1, <1>3, <1>4 DEF IsTreeFor
<1>6. Extends(distr', distr) /\ Len(distr) \in Nat /\ Len(distr') \in Nat
  BY DEF Extends
<1>7. QED
  BY <1>5, <1>6 DEF AddsTree

\* The next shape has the next bit.
LEMMA ShapeAdded ==
  ASSUME NEW st, IsAdded(st), st.kind = "shape", IsFreshName(st), NEW tree,
         tree = <<ShapeNode(st, Len(distr))>>, nodes' = Grown(tree),
         distr' = Append(distr, Inserted(st.list)), distr \in Seq(Range(distr)),
         NEW bits, bits = distr', NEW K, K = Len(read) + 1, NEW T, T = TreeOf(K)'
  PROVE  AddsTree(st, tree, T, bits) /\ distr' \in Seq(Range(distr'))
<1>1. T = <<ShapeNode(st, K)>>
  <2>1. read'[K] = st
    BY StatementAdded
  <2>2. QED
    BY <2>1 DEF TreeOf
<1>2. /\ Len(distr) \in Nat /\ Len(distr') = Len(distr) + 1
      /\ \A i \in 1..Len(distr) : distr'[i] = distr[i]
      /\ distr'[Len(distr) + 1] = Inserted(st.list)
  <2> DEFINE R == Range(distr) \cup {Inserted(st.list)}
  <2>1. distr \in Seq(R) /\ Inserted(st.list) \in R
    OBVIOUS
  <2> HIDE DEF R
  <2>2. QED
    BY <2>1
<1>3. distr' \in Seq(Range(distr'))
  <2> DEFINE R == Range(distr) \cup {Inserted(st.list)}
  <2>1. distr \in Seq(R) /\ Inserted(st.list) \in R
    OBVIOUS
  <2> HIDE DEF R
  <2>2. distr' \in Seq(R)
    BY <2>1
  <2>3. QED
    BY <2>2, SeqOfRange
<1>4. st.hand \in Seats
  BY ExpressionsAssumption DEF IsAdded
<1>5. /\ Len(tree) = 1 /\ Len(T) = 1 /\ tree[1] = ShapeNode(st, Len(distr)) /\ T[1] = ShapeNode(st, K)
      /\ tree \in Seq({ShapeNode(st, Len(distr))})
  BY <1>1
<1>6. tree \in Seq(Range(tree))
  BY <1>5, SeqOfRange
<1>7. /\ T[1].op = "shape" /\ T[1].hand = st.hand /\ T[1].suit = 0 /\ T[1].args = <<>>
      /\ tree[1].op = "shape" /\ tree[1].num = Len(distr)
      /\ tree[1] = Node("shape", st.hand, 0, Len(distr), <<>>)
  BY <1>5 DEF ShapeNode, Node
<1>8. IsNodeAt(T[1], 1)
  <2>1. IsNodeAt(ShapeNode(st, K), 1)
    BY <1>4 DEF IsNodeAt, ShapeNode, Node, Leaves
  <2>2. QED
    BY <1>5, <2>1
<1>9. IsTreeFor(tree, T, st.list, bits)
  <2>1. tree[1].num \in 0..Len(bits) - 1 /\ bits[tree[1].num + 1] = Inserted(st.list)
    BY <1>2, <1>7
  <2>2. \A i \in 1..Len(T) : i = 1
    <3>1. Len(T) = 1
      BY <1>5
    <3>2. \A i \in 1..1 : i = 1
      OBVIOUS
    <3>3. QED
      BY <3>1, <3>2
  <2>3. QED
    BY <1>5, <1>6, <1>7, <1>8, <2>1, <2>2 DEF IsTreeFor
<1>10. Known(tree)
  <2>1. \A j \in 1..Len(tree) : tree[j].op # "ident"
    BY <1>5, <1>7
  <2>2. QED
    BY <2>1 DEF Known, Idents
<1>11. QED
  BY <1>2, <1>3, <1>9, <1>10 DEF AddsTree, Extends

\* A table of points adds no node.
LEMMA NothingAdded ==
  ASSUME NEW st, IsAdded(st), st.kind \in {"pointcount", "altcount"}, UNCHANGED <<nodes, distr>>,
         NodesInPlace, distr \in Seq(Range(distr)),
         NEW bits, bits = distr', NEW K, K = Len(read) + 1, NEW T, T = TreeOf(K)'
  PROVE  AddsTree(st, <<>>, T, bits)
<1>1. T = <<>>
  <2>1. read'[K] = st
    BY StatementAdded
  <2>2. QED
    BY <2>1 DEF TreeOf
<1>2. IsTreeFor(<<>>, T, st.list, bits)
  BY <1>1 DEF IsTreeFor
<1>3. Grown(<<>>) = nodes
  <2>1. [i \in 1..Len(<<>>) |-> [<<>>[i] EXCEPT !.args = Operands(<<>>[i])]] = <<>>
    OBVIOUS
  <2>2. nodes \in Seq(Range(nodes))
    BY DEF NodesInPlace
  <2>3. QED
    BY <2>1, <2>2, ConcatEmptySeq DEF Grown
<1>4. Known(<<>>) /\ IsFreshName(st)
  BY DEF Known, Idents, IsFreshName
<1>5. Extends(distr', distr) /\ Len(distr) \in Nat /\ Len(distr') \in Nat
  BY DEF Extends
<1>6. QED
  BY <1>2, <1>3, <1>4, <1>5 DEF AddsTree

\* Each kind of statement leaves the script in place.
LEMMA ReadConditionKeeps ==
  ASSUME ScriptInPlace, NEW st, IsAdded(st), st.kind = "condition", ReadCondition(st), ~Stop
  PROVE  ScriptInPlace' /\ read' \in Seq(Statements)
<1> DEFINE K == Len(read) + 1
<1>1. /\ Known(st.tree) /\ Marked(st.tree) /\ nodes' = Grown(st.tree) /\ decisiontree' = Len(nodes')
      /\ UNCHANGED <<stage, tables, vars, distr>>
  BY DEF ReadCondition
<1>2. TablesInPlace /\ distr \in Seq(Range(distr))
  BY DEF ScriptInPlace
<1>3. PICK bits : bits = distr'
  OBVIOUS
<1>4. PICK k : k = K
  OBVIOUS
<1>5. PICK T : T = TreeOf(k)'
  OBVIOUS
<1>6. AddsTree(st, st.tree, T, bits)
  BY <1>1, <1>2, <1>3, <1>4, <1>5, TreeAdded DEF IsFreshName
<1>7. TablesInPlace'
  BY <1>1, <1>2, TablesStay
<1>8. Names(st) /\ Decides(st)
  BY <1>1 DEF Names, Decides
<1>9. Marks(st.tree)
  BY <1>1 DEF Marks, Marked
<1>10. distr' \in Seq(Range(distr'))
  BY <1>1, <1>2
<1>11. QED
  BY <1>3, <1>4, <1>5, <1>6, <1>7, <1>8, <1>9, <1>10, ScriptAdded

\* A variable: new_var.
LEMMA ReadVariableKeeps ==
  ASSUME ScriptInPlace, NEW st, IsAdded(st), st.kind = "variable", ReadVariable(st), ~Stop
  PROVE  ScriptInPlace' /\ read' \in Seq(Statements)
<1> DEFINE K == Len(read) + 1
<1>1. /\ Known(st.tree) /\ st.num \notin DOMAIN vars /\ Define(st.num, st.tree)
      /\ UNCHANGED <<stage, tables, distr, decisiontree>>
  BY DEF ReadVariable
<1>2. TablesInPlace /\ distr \in Seq(Range(distr))
  BY DEF ScriptInPlace
<1>3. PICK bits : bits = distr'
  OBVIOUS
<1>4. PICK k : k = K
  OBVIOUS
<1>5. PICK T : T = TreeOf(k)'
  OBVIOUS
<1>6. AddsTree(st, st.tree, T, bits)
  BY <1>1, <1>2, <1>3, <1>4, <1>5, TreeAdded DEF IsFreshName, Define
<1>7. TablesInPlace'
  BY <1>1, <1>2, TablesStay
<1>8. Names(st) /\ Decides(st)
  BY <1>1 DEF Names, Decides, Define
<1>9. Marks(st.tree)
  BY <1>1 DEF Marks, Marked, Define
<1>10. distr' \in Seq(Range(distr'))
  BY <1>1, <1>2
<1>11. QED
  BY <1>3, <1>4, <1>5, <1>6, <1>7, <1>8, <1>9, <1>10, ScriptAdded

\* A shape: insertshape.
LEMMA ReadShapeKeeps ==
  ASSUME ScriptInPlace, NEW st, IsAdded(st), st.kind = "shape", ReadShape(st), ~Stop
  PROVE  ScriptInPlace' /\ read' \in Seq(Statements)
<1> DEFINE K == Len(read) + 1
           tree == <<ShapeNode(st, Len(distr))>>
<1>1. /\ st.num \notin DOMAIN vars /\ distr' = Append(distr, Inserted(st.list))
      /\ Define(st.num, tree) /\ UNCHANGED <<stage, tables, decisiontree>>
  BY DEF ReadShape
<1>2. TablesInPlace /\ distr \in Seq(Range(distr))
  BY DEF ScriptInPlace
<1>3. PICK bits : bits = distr'
  OBVIOUS
<1>4. PICK k : k = K
  OBVIOUS
<1>5. PICK T : T = TreeOf(k)'
  OBVIOUS
<1>6. PICK shape : shape = tree
  OBVIOUS
<1> HIDE DEF tree
<1>7. AddsTree(st, shape, T, bits) /\ distr' \in Seq(Range(distr'))
  BY <1>1, <1>2, <1>3, <1>4, <1>5, <1>6, ShapeAdded DEF IsFreshName, Define, tree
<1>8. TablesInPlace'
  BY <1>1, <1>2, TablesStay
<1>9. Names(st) /\ Decides(st)
  BY <1>1 DEF Names, Decides, Define
<1>10. Marks(shape)
  BY <1>1, <1>6 DEF Marks, Marked, Define
<1>11. QED
  BY <1>3, <1>4, <1>5, <1>7, <1>8, <1>9, <1>10, ScriptAdded

\* A table of points: pointcount.
LEMMA ReadCountsKeeps ==
  ASSUME ScriptInPlace, NEW st, IsAdded(st), st.kind \in {"pointcount", "altcount"}, ReadCounts(st), ~Stop
  PROVE  ScriptInPlace' /\ read' \in Seq(Statements)
<1> DEFINE K == Len(read) + 1
<1>1. /\ tables' = IF st.kind = "pointcount" THEN Pointcount(st) ELSE Altcount(st)
      /\ UNCHANGED <<stage, nodes, vars, distr, use_compass, use_side, decisiontree>>
  BY DEF ReadCounts
<1>2. TablesInPlace /\ NodesInPlace /\ distr \in Seq(Range(distr))
  BY DEF ScriptInPlace
<1>3. PICK bits : bits = distr'
  OBVIOUS
<1>4. PICK k : k = K
  OBVIOUS
<1>5. PICK T : T = TreeOf(k)'
  OBVIOUS
<1>6. AddsTree(st, <<>>, T, bits)
  BY <1>1, <1>2, <1>3, <1>4, <1>5, NothingAdded
<1>7. TablesInPlace'
  BY <1>1, <1>2, TablesRead
<1>8. Names(st) /\ Decides(st)
  BY <1>1 DEF Names, Decides
<1>9. Marks(<<>>)
  BY <1>1 DEF Marks, Compasses
<1>10. distr' \in Seq(Range(distr'))
  BY <1>1, <1>2
<1>11. QED
  BY <1>3, <1>4, <1>5, <1>6, <1>7, <1>8, <1>9, <1>10, ScriptAdded

\* A script once stopped has no condition left to be wrong.
LEMMA ReadScriptKeeps ==
  ASSUME ExprInv, NEW st \in Statements, ReadScript(st)
  PROVE  ExprInv'
<1>1. /\ stage = "parsing" /\ read' = Append(read, st)
      /\ UNCHANGED <<curdeal, handstat, drawn, interesting>>
  BY DEF ReadScript
<1>2. IsAdded(st) /\ ScriptInPlace /\ curdeal = NoDeal
  BY <1>1 DEF ExprInv, IsAdded
<1>3. read' \in Seq(Statements)
  BY <1>2, StatementAdded
<1>4. CASE Stop
  BY <1>1, <1>2, <1>3, <1>4 DEF ExprInv, ConditionIsOfThisDeal, Stop
<1>5. CASE ~Stop
  <2>1. ScriptInPlace' /\ stage' = "parsing"
    <3>1. CASE st.kind = "condition" /\ ReadCondition(st)
      BY <1>1, <1>2, <1>5, <3>1, ReadConditionKeeps DEF ReadCondition
    <3>2. CASE st.kind = "variable" /\ ReadVariable(st)
      BY <1>1, <1>2, <1>5, <3>2, ReadVariableKeeps DEF ReadVariable
    <3>3. CASE st.kind = "shape" /\ ReadShape(st)
      BY <1>1, <1>2, <1>5, <3>3, ReadShapeKeeps DEF ReadShape
    <3>4. CASE st.kind \in {"pointcount", "altcount"} /\ ReadCounts(st)
      BY <1>1, <1>2, <1>5, <3>4, ReadCountsKeeps DEF ReadCounts
    <3>5. QED
      BY <3>1, <3>2, <3>3, <3>4 DEF ReadScript
  <2>2. QED
    BY <1>1, <1>2, <1>3, <2>1 DEF ExprInv, ConditionIsOfThisDeal
<1>6. QED
  BY <1>4, <1>5

\* Before the first deal more hands are marked, and points gets in step.
LEMMA BeginRunKeeps ==
  ASSUME ExprInv, BeginRun
  PROVE  ExprInv'
<1>1. /\ stage = "parsing" /\ stage' = "running"
      /\ use_compass' = [p \in Seats |-> use_compass[p] \/ use_side[p % 2]]
      /\ tables' = [tables EXCEPT ![POINTS] = tables[idxHcp]]
      /\ UNCHANGED <<read, nodes, vars, distr, decisiontree, curdeal, handstat>>
  BY DEF BeginRun, FinalizeSides, SyncPoints
<1>2. /\ read \in Seq(Statements) /\ ScriptInPlace /\ curdeal = NoDeal
      /\ \A p \in Seats : "Has_card" \in DOMAIN handstat[p]
  BY <1>1 DEF ExprInv
<1>3. SamePlaces /\ \A p \in Seats : use_compass[p] => use_compass'[p]
  BY <1>1 DEF SamePlaces
<1>4. TablesInPlace' /\ PointsInStep'
  <2>1. \A t : TableMeant(t)' = TableMeant(t)
    BY <1>1, SameTables
  <2>2. /\ DOMAIN tables = 0..CONTROLS /\ AreValues(tables)
        /\ \A t \in (0..CONTROLS) \ {POINTS} : tables[t] = TableMeant(t)
    BY <1>2 DEF ScriptInPlace, TablesInPlace
  <2>3. idxHcp \in (0..CONTROLS) \ {POINTS} /\ POINTS \in 0..CONTROLS
    BY DEF idxHcp, POINTS, CONTROLS
  <2>4. TableMeant(POINTS) = TableMeant(idxHcp)
    BY <2>3 DEF TableMeant
  <2>5. DOMAIN tables' = 0..CONTROLS /\ AreValues(tables')
    BY <1>1, <2>2, <2>3 DEF AreValues
  <2>6. /\ \A t \in (0..CONTROLS) \ {POINTS} : tables'[t] = tables[t]
        /\ tables'[POINTS] = tables[idxHcp]
    BY <1>1, <2>2, <2>3
  <2>7. QED
    BY <2>1, <2>2, <2>3, <2>4, <2>5, <2>6 DEF TablesInPlace, PointsInStep
<1>5. ScriptInPlace'
  BY <1>2, <1>3, <1>4, SameScript
<1>6. QED
  BY <1>1, <1>2, <1>4, <1>5 DEF ExprInv, ConditionIsOfThisDeal

\* Before the first statement: the tables are built in, and the condition is 1.
LEMMA ExpressionsStart ==
  ASSUME ExpressionsInit
  PROVE  ExprInv
<1>1. /\ read = <<>> /\ stage = "parsing" /\ curdeal = NoDeal /\ tables = tblPointcount
      /\ vars = <<>> /\ distr = <<>> /\ nodes = <<NumberNode(1)>> /\ decisiontree = 1
  BY DEF ExpressionsInit
<1>2. /\ Len(read) = 0 /\ read \in Seq(Statements)
      /\ \A k : k \notin 1..Len(read)
  BY <1>1
<1>3. TablesInPlace
  <2>1. \A t : Givers(t) = {}
    BY <1>2 DEF Givers
  <2>2. \A t \in (0..CONTROLS) \ {POINTS} : TableMeant(t) = tblPointcount[t]
    BY <2>1, TableGiven
  <2>3. QED
    BY <1>1, <2>2, BuiltInValues DEF TablesInPlace
<1>4. NodesInPlace
  <2>1. Len(nodes) = 1 /\ nodes[1] = NumberNode(1) /\ nodes # <<>> /\ nodes \in Seq({NumberNode(1)})
    BY <1>1
  <2>2. nodes[1].args = <<>>
    BY <2>1 DEF NumberNode, Node
  <2>3. \A i \in 1..Len(nodes) : i = 1
    <3>1. \A i \in 1..1 : i = 1
      OBVIOUS
    <3>2. QED
      BY <2>1, <3>1
  <2>4. \A i \in 1..Len(nodes) :
          Len(nodes[i].args) \in Nat /\ \A j \in 1..Len(nodes[i].args) : nodes[i].args[j] \in 1..i - 1
    BY <2>2, <2>3
  <2>5. nodes \in Seq(Range(nodes))
    BY <2>1, SeqOfRange
  <2>6. QED
    BY <2>1, <2>4, <2>5 DEF NodesInPlace, OperandsFirst
<1>5. HandsMarked
  BY <1>2 DEF HandsMarked
<1>6. distr \in Seq(Range(distr))
  BY <1>1
<1>7. Defs = {} /\ Conditions = {}
  BY <1>2 DEF Defs, Conditions, Of
<1>8. PICK at : at = [k \in 1..Len(read) |-> 0]
  OBVIOUS
<1>9. at \in [1..Len(read) -> Nat]
  BY <1>8
<1>10. TreesInPlace(at) /\ DecisionInPlace(at)
  BY <1>1, <1>2, <1>7 DEF TreesInPlace, DecisionInPlace
<1>11. NamesInPlace(at)
  <2>1. DOMAIN vars = {}
    BY <1>1
  <2>2. QED
    BY <1>2, <1>7, <2>1 DEF NamesInPlace
<1>12. \A p \in Seats : "Has_card" \in DOMAIN handstat[p]
  BY DEF ExpressionsInit
<1>13. QED
  BY <1>1, <1>2, <1>3, <1>4, <1>5, <1>6, <1>9, <1>10, <1>11, <1>12
  DEF ExprInv, ScriptInPlace, ConditionIsOfThisDeal

\* A step that changes nothing here.
LEMMA ExpressionsStutter ==
  ASSUME ExprInv, UNCHANGED exprVars
  PROVE  ExprInv'
<1>1. UNCHANGED <<read, stage, tables, nodes, vars, distr, use_compass, use_side, decisiontree,
                  curdeal, handstat, drawn, interesting>>
  BY DEF exprVars
<1>2. /\ stage # "stopped" => ScriptInPlace'
      /\ stage = "running" => PointsInStep'
  <2>1. \A t : TableMeant(t)' = TableMeant(t)
    BY <1>1, SameTables
  <2>2. stage # "stopped" => TablesInPlace'
    BY <1>1, <2>1 DEF ExprInv, ScriptInPlace, TablesInPlace, AreValues
  <2>3. QED
    BY <1>1, <2>1, <2>2, SameScript DEF ExprInv, SamePlaces, PointsInStep
<1>3. ConditionIsOfThisDeal'
  <2>1. \A hss, d, draw : Meaning(hss, d, draw)' = Meaning(hss, d, draw)
    BY <1>1 DEF Meaning, Places, Root, TreeOf, Defining, Of
  <2>2. \A hnd : AsDealt(hnd)' = AsDealt(hnd)
    BY <1>1 DEF AsDealt, TableMeant, Of
  <2>3. QED
    BY <1>1, <2>1, <2>2 DEF ExprInv, ConditionIsOfThisDeal
<1>4. QED
  BY <1>1, <1>2, <1>3 DEF ExprInv

\* The condition has the value that the script gives it on the deal in hand,
\* for any script of any length, any deals and whatever rnd() draws: evaltree
\* never reads a count of an earlier deal, or of a table or a name that the
\* parser had not yet, and a shape is what its list says.
THEOREM ConditionsAreMet == ExpressionsSpec => []ConditionIsOfThisDeal
<1>1. ExpressionsInit => ExprInv
  BY ExpressionsStart
<1>2. ExprInv /\ [ExpressionsNext]_exprVars => ExprInv'
  <2> SUFFICES ASSUME ExprInv, [ExpressionsNext]_exprVars
               PROVE  ExprInv'
    OBVIOUS
  <2>1. ASSUME NEW st \in Statements, ReadScript(st)
        PROVE  ExprInv'
    BY <2>1, ReadScriptKeeps
  <2>2. CASE BeginRun
    BY <2>2, BeginRunKeeps
  <2>3. ASSUME NEW d \in ExprDeals, NEW draw \in Draws, EvaluateDeal(d, draw)
        PROVE  ExprInv'
    BY <2>3, EvaluateDealKeeps
  <2>4. CASE UNCHANGED exprVars
    BY <2>4, ExpressionsStutter
  <2>5. QED
    BY <2>1, <2>2, <2>3, <2>4 DEF ExpressionsNext
<1>3. ExprInv => ConditionIsOfThisDeal
  BY DEF ExprInv
<1>4. QED
  BY <1>1, <1>2, <1>3, PTL DEF ExpressionsSpec

-----------------------------------------------------------------------------
(* Scores.                                                                 *)

\* A contract is decoded to the one it was made of.
LEMMA ContractDecoded ==
  ASSUME NEW level \in Levels, NEW strain \in Denominations, NEW dbl \in Dbls
  PROVE  /\ Dbl(MakeContract(level, strain, dbl)) = dbl
         /\ Strain(MakeContract(level, strain, dbl)) = strain
         /\ Level(MakeContract(level, strain, dbl)) = level
<1> USE DEF Levels, Denominations, Dbls, Clubs, NT
<1> DEFINE x == level * 5 + strain
<1>1. x \in 0..39 /\ x % 5 = strain /\ x \div 5 = level
  OBVIOUS
<1>2. (x + 40 * dbl) \div 40 = dbl /\ (x + 40 * dbl) % 40 = x
  <2> HIDE DEF x
  <2>1. QED
    BY <1>1
<1>3. QED
  BY <1>1, <1>2 DEF MakeContract, Dbl, Strain, Level

\* The laws' sum over the tricks bid: the value of each trick, and 10 more in
\* notrumps.
LEMMA TricksBid ==
  ASSUME NEW strain \in Denominations, NEW level \in 1..7
  PROVE  LawBid(strain, level) = TrickScore(strain, level + 6)
<1> USE DEF Denominations, Clubs, Diamonds, Hearts, Spades, NT
<1> DEFINE f == [n \in 1..level |-> OddTrick(strain, n)]
           F == [k \in 0..level |-> IF k = 0 THEN 0 ELSE TrickScore(strain, k + 6)]
<1>1. \A n \in 0 + 1..level : f[n] = OddTrick(strain, n) /\ f[n] \in Int
  BY DEF OddTrick
<1>2. \A n \in 0..level : F[n] \in Int /\ F[n] = IF n = 0 THEN 0 ELSE TrickScore(strain, n + 6)
  BY DEF TrickScore
<1> HIDE DEF f, F
<1>3. \A n \in 0 + 1..level : F[n] = F[n - 1] + f[n]
  <2>1. ASSUME NEW n \in 0 + 1..level PROVE F[n] = F[n - 1] + f[n]
    <3>1. n \in 0..level /\ n - 1 \in 0..level /\ n # 0
      OBVIOUS
    <3>2. F[n] = TrickScore(strain, n + 6) /\ F[n - 1] = IF n - 1 = 0 THEN 0 ELSE TrickScore(strain, n - 1 + 6)
      BY <1>2, <3>1
    <3>3. QED
      BY <1>1, <3>1, <3>2 DEF TrickScore, OddTrick
  <2>2. QED
    BY <2>1
<1>4. SumFunctionOnSet(f, 0 + 1..level) = F[level] - F[0]
  <2>1. 0 <= level /\ 0 \in Int /\ level \in Int
    OBVIOUS
  <2>2. GrowsBy(F, f, 0, level)
    BY <1>1, <1>2, <1>3 DEF GrowsBy
  <2>3. QED
    BY <2>1, <2>2, SumByStep, Zenon
<1>5. F[level] = TrickScore(strain, level + 6) /\ F[0] = 0 /\ TrickScore(strain, level + 6) \in Int
  <2>1. level \in 0..level /\ 0 \in 0..level /\ level # 0
    OBVIOUS
  <2>2. QED
    BY <1>2, <2>1
<1>6. DOMAIN f = 1..level
  BY DEF f
<1>7. SumFunction(f) = TrickScore(strain, level + 6)
  BY <1>4, <1>5, <1>6 DEF SumFunction
<1>8. QED
  BY <1>7 DEF f, LawBid

\* The laws' sum over the tricks beyond those bid.
LEMMA TricksOver ==
  ASSUME NEW vul \in Vuls, NEW level \in 1..7, NEW strain \in Denominations, NEW dbl \in Dbls,
         NEW made \in level..7
  PROVE  LawOver(strain, dbl, vul, level, made)
           = IF dbl = 0 THEN TrickScore(strain, made + 6) - TrickScore(strain, level + 6)
             ELSE (made - level) * 100 * (1 + vul) * dbl
<1> USE DEF Denominations, Clubs, Diamonds, Hearts, Spades, NT, Vuls, Dbls
<1> DEFINE f == [n \in level + 1..made |-> LawExtra(strain, dbl, vul, n)]
           u(k) == IF dbl = 0 THEN TrickScore(strain, k + 6) ELSE k * 100 * (1 + vul) * dbl
           F == [k \in level..made |-> u(k)]
<1>1. \A n \in level + 1..made : f[n] = LawExtra(strain, dbl, vul, n) /\ f[n] \in Int
  BY DEF LawExtra, OddTrick
<1>2. \A n \in level..made : F[n] = u(n) /\ F[n] \in Int
  BY DEF TrickScore
<1>3. \A n \in level + 1..made : u(n) = u(n - 1) + LawExtra(strain, dbl, vul, n)
  <2>1. ASSUME NEW n \in level + 1..made
        PROVE  u(n) = u(n - 1) + LawExtra(strain, dbl, vul, n)
    <3>1. CASE dbl = 0
      BY <3>1 DEF TrickScore, LawExtra, OddTrick
    <3>2. CASE dbl = 1 /\ vul = 0
      BY <3>2 DEF LawExtra
    <3>3. CASE dbl = 1 /\ vul = 1
      BY <3>3 DEF LawExtra
    <3>4. CASE dbl = 2 /\ vul = 0
      BY <3>4 DEF LawExtra
    <3>5. CASE dbl = 2 /\ vul = 1
      BY <3>5 DEF LawExtra
    <3>6. QED
      BY <3>1, <3>2, <3>3, <3>4, <3>5
  <2>2. QED
    BY <2>1
<1> HIDE DEF f, F
<1>4. \A n \in level + 1..made : F[n] = F[n - 1] + f[n]
  <2> HIDE DEF u
  <2>1. \A n \in level + 1..made : n \in level..made /\ n - 1 \in level..made
    OBVIOUS
  <2>2. QED
    BY <1>1, <1>2, <1>3, <2>1
<1>5. SumFunctionOnSet(f, level + 1..made) = F[made] - F[level]
  <2> HIDE DEF u
  <2>1. level <= made /\ level \in Int /\ made \in Int
    OBVIOUS
  <2>2. GrowsBy(F, f, level, made)
    BY <1>1, <1>2, <1>4 DEF GrowsBy
  <2>3. QED
    BY <2>1, <2>2, SumByStep, Zenon
<1>6. F[made] = u(made) /\ F[level] = u(level)
  <2> HIDE DEF u
  <2>1. made \in level..made /\ level \in level..made
    OBVIOUS
  <2>2. QED
    BY <1>2, <2>1
<1>7. DOMAIN f = level + 1..made
  BY DEF f
<1>8. SumFunction(f) = u(made) - u(level)
  BY <1>5, <1>6, <1>7 DEF SumFunction
<1>9. u(made) - u(level) = IF dbl = 0 THEN TrickScore(strain, made + 6) - TrickScore(strain, level + 6)
                           ELSE (made - level) * 100 * (1 + vul) * dbl
  OBVIOUS
<1>10. QED
  BY <1>8, <1>9 DEF f, LawOver

\* The laws' sum over the undertricks.
LEMMA TricksDown ==
  ASSUME NEW vul \in Vuls, NEW dbl \in Dbls, NEW down \in 1..13
  PROVE  LawDown(dbl, vul, down)
           = IF dbl = 0 THEN 50 * (1 + vul) * down ELSE -Undertricks(down, vul, dbl)
<1> USE DEF Vuls, Dbls
<1> DEFINE f == [n \in 1..down |-> LawPenalty(dbl, vul, n)]
           u(k) == IF k = 0 THEN 0 ELSE IF dbl = 0 THEN 50 * (1 + vul) * k ELSE -Undertricks(k, vul, dbl)
           F == [k \in 0..down |-> u(k)]
<1>0. /\ \A k \in 0..down : u(k) \in Int
      /\ \A n \in 1..down : LawPenalty(dbl, vul, n) \in Int /\ u(n) = u(n - 1) + LawPenalty(dbl, vul, n)
  <2> USE DEF LawPenalty, Undertricks
  <2>1. CASE dbl = 0 /\ vul = 0
    BY <2>1
  <2>2. CASE dbl = 0 /\ vul = 1
    BY <2>2
  <2>3. CASE dbl = 1 /\ vul = 0
    BY <2>3
  <2>4. CASE dbl = 1 /\ vul = 1
    BY <2>4
  <2>5. CASE dbl = 2 /\ vul = 0
    BY <2>5
  <2>6. CASE dbl = 2 /\ vul = 1
    BY <2>6
  <2>7. QED
    BY <2>1, <2>2, <2>3, <2>4, <2>5, <2>6
<1>1. u(0) = 0 /\ u(down) = IF dbl = 0 THEN 50 * (1 + vul) * down ELSE -Undertricks(down, vul, dbl)
  OBVIOUS
<1> HIDE DEF u
<1>2. \A n \in 0 + 1..down : f[n] = LawPenalty(dbl, vul, n) /\ f[n] \in Int
  BY <1>0
<1>3. \A n \in 0..down : F[n] = u(n) /\ F[n] \in Int
  BY <1>0
<1> HIDE DEF f, F
<1>4. \A n \in 0 + 1..down : F[n] = F[n - 1] + f[n]
  <2>1. \A n \in 0 + 1..down : n \in 0..down /\ n - 1 \in 0..down /\ n \in 1..down
    OBVIOUS
  <2>2. QED
    BY <1>0, <1>2, <1>3, <2>1
<1>5. SumFunctionOnSet(f, 0 + 1..down) = F[down] - F[0]
  <2>1. 0 <= down /\ 0 \in Int /\ down \in Int
    OBVIOUS
  <2>2. GrowsBy(F, f, 0, down)
    BY <1>2, <1>3, <1>4 DEF GrowsBy
  <2>3. QED
    BY <2>1, <2>2, SumByStep, Zenon
<1>6. F[down] = u(down) /\ F[0] = u(0) /\ u(down) \in Int
  <2>1. down \in 0..down /\ 0 \in 0..down
    OBVIOUS
  <2>2. QED
    BY <1>0, <1>3, <2>1
<1>7. DOMAIN f = 1..down
  BY DEF f
<1>8. SumFunction(f) = u(down)
  BY <1>1, <1>5, <1>6, <1>7 DEF SumFunction
<1>9. QED
  BY <1>1, <1>8 DEF f, LawDown

\* score() is what the laws give, for every contract and number of tricks.
LEMMA ScoreIsOfTheLaws ==
  ASSUME NEW vul \in Vuls, NEW level \in Levels, NEW strain \in Denominations, NEW dbl \in Dbls,
         NEW tricks \in Tricks
  PROVE  Score(vul, MakeContract(level, strain, dbl), tricks) = LawScore(vul, level, strain, dbl, tricks)
<1> USE DEF Levels, Tricks
<1> DEFINE coded == MakeContract(level, strain, dbl)
<1>1. Dbl(coded) = dbl /\ Strain(coded) = strain /\ Level(coded) = level
  BY ContractDecoded
<1> HIDE DEF coded
<1>2. CASE tricks < 6 + level
  <2> DEFINE down == 6 + level - tricks
  <2>1. down \in 1..13 /\ 6 + level - tricks = down /\ 6 + level > tricks
    BY <1>2
  <2>2. LawDown(dbl, vul, down)
          = IF dbl = 0 THEN 50 * (1 + vul) * down ELSE -Undertricks(down, vul, dbl)
    BY <2>1, TricksDown
  <2>3. LawScore(vul, level, strain, dbl, tricks) = -LawDown(dbl, vul, down)
    BY <1>2 DEF LawScore
  <2>4. Score(vul, coded, tricks) = IF dbl = 0 THEN -50 * (1 + vul) * down ELSE Undertricks(down, vul, dbl)
    BY <1>1, <1>2 DEF Score, UndbledScore, Dbls
  <2> HIDE DEF down
  <2>5. Undertricks(down, vul, dbl) \in Int /\ dbl \in Int /\ vul \in 0..1
    BY <2>1 DEF Undertricks, Dbls, Vuls
  <2>6. -50 * (1 + vul) * down = -(50 * (1 + vul) * down)
    BY <2>1, <2>5
  <2>7. QED
    BY <2>2, <2>3, <2>4, <2>5, <2>6 DEF coded
<1>3. CASE ~(tricks < 6 + level)
  <2> DEFINE made == tricks - 6
             bid == LawBid(strain, level)
             over == LawOver(strain, dbl, vul, level, made)
  <2>1. made \in level..7 /\ made + 6 = tricks
    BY <1>3
  <2>2. bid = TrickScore(strain, level + 6)
    BY TricksBid
  <2> DEFINE t == TrickScore(strain, level + 6)
             x == (made - level) * 100 * (1 + vul) * dbl
             game == IF vul = 1 THEN 500 ELSE 300
  <2>3. over = IF dbl = 0 THEN TrickScore(strain, tricks) - t ELSE x
    <3>1. LawOver(strain, dbl, vul, level, made)
            = IF dbl = 0 THEN TrickScore(strain, made + 6) - TrickScore(strain, level + 6)
              ELSE (made - level) * 100 * (1 + vul) * dbl
      <4>1. level \in 1..7 /\ made \in level..7
        BY <2>1
      <4> HIDE DEF made
      <4>2. QED
        BY <4>1, TricksOver
    <3>2. QED
      BY <2>1, <3>1, Zenon
  <2>4. LawScore(vul, level, strain, dbl, tricks) =
          <<1, 2, 4>>[dbl + 1] * bid + over
           + (IF <<1, 2, 4>>[dbl + 1] * bid < 100 THEN 50 ELSE game)
           + (CASE level = 6 -> IF vul = 1 THEN 750 ELSE 500
                [] level = 7 -> IF vul = 1 THEN 1500 ELSE 1000
                [] OTHER -> 0)
           + 50 * dbl
    BY <1>3 DEF LawScore
  <2> HIDE DEF bid, over
  <2> USE DEF Denominations, Clubs, Diamonds, Hearts, Spades, NT, Vuls, Dbls
  <2>5. /\ SlamBonus(level, vul) = (CASE level = 6 -> IF vul = 1 THEN 750 ELSE 500
                                      [] level = 7 -> IF vul = 1 THEN 1500 ELSE 1000
                                      [] OTHER -> 0)
        /\ SlamBonus(level, vul) \in Int
        /\ game = 300 + 200 * vul /\ game \in Int
    BY DEF SlamBonus
  <2>6. t \in Int /\ x \in Int /\ 6 + level = level + 6 /\ level + 6 - 6 = level
    <3>1. t \in Int
      BY DEF TrickScore
    <3>2. \A a, b, c, e \in Int : a * b * c * e \in Int
      OBVIOUS
    <3>3. made - level \in Int /\ 100 \in Int /\ 1 + vul \in Int /\ dbl \in Int
      BY <2>1
    <3>4. QED
      BY <3>1, <3>2, <3>3
  <2>7. CASE dbl = 0
    <3>1. Score(vul, coded, tricks) = UndbledScore(vul, strain, level, tricks)
      BY <1>1, <2>7 DEF Score
    <3>2. <<1, 2, 4>>[dbl + 1] = 1
      BY <2>7
    <3>3. QED
      BY <1>3, <2>1, <2>2, <2>3, <2>4, <2>7, <3>1, <3>2 DEF UndbledScore, TrickScore, GameLevel, SlamBonus, coded
  <2>8. CASE dbl \in {1, 2}
    <3> DEFINE m == IF dbl = 1 THEN 2 ELSE 4
    <3>1. Score(vul, coded, tricks) = DbledMaking(dbl, vul, strain, level + 6) + x
      <4>1. tricks - (level + 6) = made - level
        OBVIOUS
      <4>2. Score(vul, coded, tricks)
              = DbledMaking(dbl, vul, strain, level + 6) + (tricks - (level + 6)) * 100 * (1 + vul) * dbl
        BY <1>1, <1>3, <2>6, <2>8 DEF Score
      <4>3. QED
        BY <4>1, <4>2, Zenon
    <3>2. <<1, 2, 4>>[dbl + 1] = m /\ over = x
      BY <2>3, <2>8
    <3> HIDE DEF x, t, game
    <3>3. DbledMaking(dbl, vul, strain, level + 6)
            = t * m + (IF t * m >= 100 THEN game ELSE 50) + 50 * dbl + SlamBonus(level, vul)
      <4> HIDE DEF m
      <4>1. DbledMaking(dbl, vul, strain, level + 6)
              = t * m + (IF t * m >= 100 THEN 300 + 200 * vul ELSE 50) + 50 * dbl + SlamBonus(level + 6 - 6, vul)
        BY DEF DbledMaking, t, m
      <4>2. QED
        BY <2>5, <2>6, <4>1
    <3>4. LawScore(vul, level, strain, dbl, tricks)
            = m * t + x + (IF m * t < 100 THEN 50 ELSE game) + SlamBonus(level, vul) + 50 * dbl
      <4> HIDE DEF m
      <4>1. QED
        BY <2>2, <2>4, <2>5, <3>2 DEF t
    <3>5. m * t = t * m /\ t * m \in Int
      BY <2>6
    <3> DEFINE y == t * m
    <3> HIDE DEF m, y
    <3>6. /\ y \in Int /\ m * t = y
          /\ Score(vul, coded, tricks) = y + (IF y >= 100 THEN game ELSE 50) + 50 * dbl + SlamBonus(level, vul) + x
          /\ LawScore(vul, level, strain, dbl, tricks)
               = y + x + (IF y < 100 THEN 50 ELSE game) + SlamBonus(level, vul) + 50 * dbl
      BY <3>1, <3>3, <3>4, <3>5 DEF y
    <3>7. QED
      BY <2>5, <2>6, <3>6 DEF coded
  <2>9. QED
    BY <2>7, <2>8
<1>4. QED
  BY <1>2, <1>3

\* A contract is made with the tricks it needs and fails with fewer.
LEMMA MadeWithTheTricks ==
  ASSUME NEW vul \in Vuls, NEW level \in Levels, NEW strain \in Denominations, NEW dbl \in Dbls,
         NEW tricks \in Tricks
  PROVE  /\ Score(vul, MakeContract(level, strain, dbl), tricks) \in Int
         /\ tricks >= 6 + level => Score(vul, MakeContract(level, strain, dbl), tricks) > 0
         /\ tricks < 6 + level => Score(vul, MakeContract(level, strain, dbl), tricks) < 0
<1> USE DEF Levels, Tricks, Denominations, Clubs, Diamonds, Hearts, Spades, NT, Vuls, Dbls
<1> DEFINE coded == MakeContract(level, strain, dbl)
           sc == Score(vul, coded, tricks)
<1>1. Dbl(coded) = dbl /\ Strain(coded) = strain /\ Level(coded) = level
  BY ContractDecoded
<1> HIDE DEF coded
<1>2. CASE dbl = 0
  <2>1. sc = UndbledScore(vul, strain, level, tricks)
    BY <1>1, <1>2 DEF Score
  <2> HIDE DEF sc
  <2>2. CASE tricks < 6 + level
    <3>1. sc = -50 * (1 + vul) * (6 + level - tricks)
      BY <2>1, <2>2 DEF UndbledScore
    <3>2. sc \in Int /\ sc < 0
      BY <2>2, <3>1
    <3>3. QED
      BY <2>2, <3>2 DEF sc, coded
  <2>3. CASE ~(tricks < 6 + level)
    <3>1. TrickScore(strain, tricks) >= 20 /\ SlamBonus(level, vul) >= 0
          /\ TrickScore(strain, tricks) \in Int /\ SlamBonus(level, vul) \in Int
      BY <2>3 DEF TrickScore, SlamBonus
    <3>2. sc \in Int /\ sc > 0
      BY <2>1, <2>3, <3>1 DEF UndbledScore
    <3>3. QED
      BY <2>3, <3>2 DEF sc, coded
  <2>4. QED
    BY <2>2, <2>3
<1>3. CASE dbl \in {1, 2} /\ tricks < 6 + level
  <2>1. sc = Undertricks(6 + level - tricks, vul, dbl)
    BY <1>1, <1>3 DEF Score
  <2> DEFINE u == 6 + level - tricks
  <2>2. u \in 1..13
    BY <1>3
  <2> HIDE DEF u, sc
  <2>3. Undertricks(u, vul, dbl) \in Int /\ Undertricks(u, vul, dbl) < 0
    BY <1>3, <2>2 DEF Undertricks
  <2>4. QED
    BY <1>3, <2>1, <2>3 DEF sc, coded, u
<1>4. CASE dbl \in {1, 2} /\ ~(tricks < 6 + level)
  <2> DEFINE t == TrickScore(strain, 6 + level)
             x == (tricks - (6 + level)) * 100 * (1 + vul) * dbl
  <2>1. sc = DbledMaking(dbl, vul, strain, 6 + level) + x
    BY <1>1, <1>4 DEF Score
  <2>2. x \in Int /\ x >= 0
    <3> DEFINE o == tricks - (6 + level)
    <3>1. o \in Nat
      BY <1>4
    <3> HIDE DEF o
    <3>2. \A a, b, c, e \in Nat : a * b * c * e \in Nat
      OBVIOUS
    <3>3. o * 100 * (1 + vul) * dbl \in Nat
      BY <3>1, <3>2
    <3>4. QED
      BY <3>3 DEF o
  <2>3. t \in Int /\ t >= 20 /\ SlamBonus(6 + level - 6, vul) \in Int /\ SlamBonus(6 + level - 6, vul) >= 0
    BY DEF TrickScore, SlamBonus
  <2> HIDE DEF x, t, sc
  <2>4. DbledMaking(dbl, vul, strain, 6 + level) \in Int /\ DbledMaking(dbl, vul, strain, 6 + level) > 0
    BY <1>4, <2>3 DEF DbledMaking, t
  <2>5. sc \in Int /\ sc > 0
    BY <2>1, <2>2, <2>4
  <2>6. QED
    BY <1>4, <2>5 DEF sc, coded
<1>5. QED
  BY <1>2, <1>3, <1>4

\* What is won by a higher level with the same tricks.
Gain(vul, strain, high, low, tricks) ==
  UndbledScore(vul, strain, high, tricks) - UndbledScore(vul, strain, low, tricks)

\* A game not bid, and a slam, scores more than the contract below it.
LEMMA BidMore ==
  ASSUME NEW vul \in Vuls, NEW level \in Levels, NEW strain \in Denominations
  PROVE  /\ level < GameLevel(strain) =>
              \A tricks \in Tricks : tricks >= GameLevel(strain) + 6 =>
                /\ Gain(vul, strain, GameLevel(strain), level, tricks) \in Int
                /\ Gain(vul, strain, GameLevel(strain), level, tricks) > 10
         /\ level < 6 =>
              \A n \in 6..7 : /\ Gain(vul, strain, n, level, 6 + n) \in Int
                              /\ Gain(vul, strain, n, level, 6 + n) > 10
<1> USE DEF Levels, Tricks, Denominations, Clubs, Diamonds, Hearts, Spades, NT, Vuls, Gain
<1>1. ASSUME level < GameLevel(strain), NEW tricks \in Tricks, tricks >= GameLevel(strain) + 6
      PROVE  /\ Gain(vul, strain, GameLevel(strain), level, tricks) \in Int
             /\ Gain(vul, strain, GameLevel(strain), level, tricks) > 10
  <2>1. GameLevel(strain) \in 3..5 /\ TrickScore(strain, tricks) \in Int
    BY DEF GameLevel, TrickScore
  <2>2. UndbledScore(vul, strain, GameLevel(strain), tricks) = TrickScore(strain, tricks) + 50 + 250 + 200 * vul
    BY <1>1, <2>1 DEF UndbledScore, SlamBonus
  <2>3. UndbledScore(vul, strain, level, tricks) = TrickScore(strain, tricks) + 50
    BY <1>1, <2>1 DEF UndbledScore, SlamBonus
  <2>4. QED
    BY <2>1, <2>2, <2>3
<1>2. ASSUME level < 6, NEW n \in 6..7
      PROVE  Gain(vul, strain, n, level, 6 + n) \in Int /\ Gain(vul, strain, n, level, 6 + n) > 10
  <2>1. GameLevel(strain) \in 3..5 /\ TrickScore(strain, 6 + n) \in Int
    BY DEF GameLevel, TrickScore
  <2>2. UndbledScore(vul, strain, n, 6 + n) = TrickScore(strain, 6 + n) + 50 + 250 + 200 * vul + SlamBonus(n, vul)
    BY <2>1 DEF UndbledScore
  <2>3. UndbledScore(vul, strain, level, 6 + n)
          = TrickScore(strain, 6 + n) + 50 + (IF level >= GameLevel(strain) THEN 250 + 200 * vul ELSE 0)
    BY <1>2, <2>1 DEF UndbledScore, SlamBonus
  <2>4. SlamBonus(n, vul) \in Int /\ SlamBonus(n, vul) >= 500
    BY DEF SlamBonus
  <2>5. QED
    BY <2>1, <2>2, <2>3, <2>4
<1>3. QED
  BY <1>1, <1>2

-----------------------------------------------------------------------------
(* IMPs.                                                                   *)

\* A row of the table is reached as the laws have it by every difference that
\* is a multiple of ten, but for the two rows that are wrong.
LEMMA RowsReached ==
  ASSUME NEW j \in Nat, j % 10 = 0, j \notin {420} \cup 1200..1290, NEW i \in 1..24
  PROVE  imp_tbl[i] < j <=> LawImpRows[i] <= j
<1> DEFINE k == j \div 10
<1>1. k \in Int /\ j = 10 * k
  OBVIOUS
<1> HIDE DEF k
<1>2. k # 42 /\ ~(120 <= k /\ k <= 129)
  BY <1>1
<1>3. CASE i \in 1..8
  BY <1>1, <1>3 DEF imp_tbl, LawImpRows
<1>4. CASE i \in 9..16
  BY <1>1, <1>2, <1>4 DEF imp_tbl, LawImpRows
<1>5. CASE i \in 17..24
  BY <1>1, <1>5 DEF imp_tbl, LawImpRows
<1>6. QED
  BY <1>3, <1>4, <1>5

\* The rows a difference reaches are a number of rows, one at least from 11 on.
LEMMA ImpRows ==
  ASSUME NEW j \in Nat
  PROVE  ImpRow(j) \in Nat /\ (j > 10 => ImpRow(j) >= 1)
<1> DEFINE R == {i \in DOMAIN imp_tbl : imp_tbl[i] < j}
<1>1. DOMAIN imp_tbl = 1..24 /\ imp_tbl[1] = 10
  BY DEF imp_tbl
<1>2. IsFiniteSet(R)
  <2>1. R \subseteq 1..24 /\ IsFiniteSet(1..24)
    <3>1. IsFiniteSet(1..24)
      <4>1. 1 \in Int /\ 24 \in Int
        OBVIOUS
      <4>2. QED
        BY <4>1, FS_Interval, Zenon
    <3>2. R \subseteq 1..24
      BY <1>1
    <3>3. QED
      BY <3>1, <3>2, Zenon
  <2> HIDE DEF R
  <2>2. QED
    BY <2>1, FS_Subset
<1>3. j > 10 => R # {}
  BY <1>1
<1> HIDE DEF R
<1>4. Cardinality(R) \in Nat /\ (R # {} => Cardinality(R) # 0)
  BY <1>2, FS_CardinalityType, FS_EmptySet
<1>5. QED
  BY <1>3, <1>4 DEF ImpRow, R

\* imps() translates a difference of scores as the laws do.
LEMMA ImpsOfTheLaws ==
  ASSUME NEW d \in Int, d % 10 = 0, Abs(d) \notin {420} \cup 1200..1290
  PROVE  Imps(d) = LawImps(d)
<1>1. Abs(d) \in Nat /\ Abs(d) % 10 = 0
  BY DEF Abs
<1> DEFINE R == {i \in DOMAIN imp_tbl : imp_tbl[i] < Abs(d)}
           L == {i \in DOMAIN LawImpRows : LawImpRows[i] <= Abs(d)}
<1>2. R = L
  <2>1. DOMAIN imp_tbl = 1..24 /\ DOMAIN LawImpRows = 1..24
    BY DEF imp_tbl, LawImpRows
  <2>2. \A i \in 1..24 : imp_tbl[i] < Abs(d) <=> LawImpRows[i] <= Abs(d)
    BY <1>1, RowsReached
  <2>3. QED
    BY <2>1, <2>2
<1>3. Cardinality(R) \in Nat
  BY <1>1, ImpRows DEF ImpRow
<1> DEFINE n == Cardinality(R)
<1>4. Imps(d) = (IF d < 0 THEN -n ELSE n) /\ LawImps(d) = (IF d < 0 THEN -1 ELSE 1) * n
  <2>1. Imps(d) = (IF d < 0 THEN -ImpRow(Abs(d)) ELSE ImpRow(Abs(d))) /\ ImpRow(Abs(d)) = n
    BY DEF Imps, ImpRow
  <2>2. LawImps(d) = (IF d < 0 THEN -1 ELSE 1) * Cardinality(L)
    BY DEF LawImps
  <2> HIDE DEF R, L
  <2>3. Cardinality(L) = n
    BY <1>2
  <2> HIDE DEF n
  <2>4. QED
    BY <2>1, <2>2, <2>3
<1> HIDE DEF n
<1>5. n \in Nat
  BY <1>3 DEF n
<1>6. QED
  BY <1>4, <1>5

\* score() and imps() answer what the laws give, for every contract, any number
\* of tricks and any difference of scores but those of the two wrong rows.
THEOREM ScoresAreLawful == ScoringSpec => []ScoringIsLawful
<1>1. ScoringInit => ScoringIsLawful
  BY DEF ScoringInit, ScoringIsLawful
<1>2. ASSUME ScoringIsLawful, [ScoringNext]_scoringVars
      PROVE  ScoringIsLawful'
  <2>1. ASSUME NEW vul \in Vuls, NEW level \in Levels, NEW strain \in Denominations, NEW dbl \in Dbls,
               NEW tricks \in Tricks, AskScore(vul, level, strain, dbl, tricks)
        PROVE  ScoringIsLawful'
    <3>1. Score(vul, MakeContract(level, strain, dbl), tricks) = LawScore(vul, level, strain, dbl, tricks)
      BY ScoreIsOfTheLaws
    <3>2. /\ query'[1] = "score" /\ query'[2] = vul /\ query'[3] = level /\ query'[4] = strain
          /\ query'[5] = dbl /\ query'[6] = tricks
          /\ result' = Score(vul, MakeContract(level, strain, dbl), tricks)
      BY <2>1 DEF AskScore
    <3>3. QED
      BY <3>1, <3>2 DEF ScoringIsLawful
  <2>2. ASSUME NEW d \in Differences, AskImps(d)
        PROVE  ScoringIsLawful'
    <3>1. d \in Int
      BY ScoringAssumption
    <3>2. query'[1] = "imps" /\ query'[2] = d /\ result' = Imps(d)
      BY <2>2 DEF AskImps
    <3>3. d % 10 = 0 /\ Abs(d) \notin {420} \cup 1200..1290 => Imps(d) = LawImps(d)
      BY <3>1, ImpsOfTheLaws
    <3>4. QED
      BY <3>2, <3>3 DEF ScoringIsLawful
  <2>3. CASE UNCHANGED scoringVars
    BY <1>2, <2>3 DEF ScoringIsLawful, scoringVars
  <2>4. QED
    BY <1>2, <2>1, <2>2, <2>3 DEF ScoringNext
<1>3. QED
  BY <1>1, <1>2, PTL DEF ScoringSpec

-----------------------------------------------------------------------------
\* A table that is k more at one place has a total of k more.
LEMMA TotalOfMore ==
  ASSUME NEW i, NEW k, NEW f, NEW g, NEW D, DOMAIN f = D, DOMAIN g = D, KMoreAt(i, k, f, g, D)
  PROVE  Total(f) \in Int /\ Total(g) = Total(f) + k
<1>1. SumFunctionOnSet(f, D) \in Int /\ SumFunctionOnSet(g, D) = SumFunctionOnSet(f, D) + k
  BY SumOfKMore
<1>2. Total(f) = SumFunctionOnSet(f, D) /\ Total(g) = SumFunctionOnSet(g, D)
  BY DEF Total, SumFunction
<1>3. QED
  BY <1>1, <1>2

-----------------------------------------------------------------------------
USE ReportsAssumption DEF Tricks

-----------------------------------------------------------------------------
(* Where a value is counted.                                               *)

\* A table has a counter below the lower bound, one above and one between.
LEMMA TableSizes ==
  ASSUME NEW low \in Int, NEW high \in Int, low <= high, NEW sz \in Nat \ {0}
  PROVE  /\ FreqCols(low, high) \in Nat /\ FreqCols(low, high) >= 3
         /\ BktNum(low, high, sz) \in Nat /\ BktNum(low, high, sz) >= 3
<1>1. (high - low) \div sz \in Nat
  OBVIOUS
<1> HIDE DEF Tricks
<1>2. QED
  BY <1>1 DEF FreqCols, BktNum

\* A frequency has a counter for each value, and a bktfreq for the values from
\* the name of a bucket on and below the next name.
IsFreqOf(i, val, low, high) ==
  /\ i \in 0..FreqCols(low, high) - 1
  /\ i = 0 <=> val < low
  /\ i = FreqCols(low, high) - 1 <=> val > high
  /\ \A v \in low..high : i = v - low + 1 <=> v = val

IsBucketOf(i, val, low, sz, final) ==
  /\ i \in 0..final
  /\ i = 0 <=> val < low
  /\ i = final <=> val >= BktName(low, sz, final)
  /\ \A k \in 1..final - 1 : i = k <=> BktName(low, sz, k) <= val /\ val < BktName(low, sz, k + 1)

\* ACT_FREQUENCY2D: a value has its own counter inside the bounds.
LEMMA FreqIndexWhere ==
  ASSUME NEW low \in Int, NEW high \in Int, low <= high, NEW val \in Int
  PROVE  IsFreqOf(FreqIndex(val, low, high), val, low, high)
BY DEF FreqIndex, FreqCols, IsFreqOf

\* upd_bkt1D finds the bucket of a value, whatever the size of the buckets and
\* whether it divides the range.
LEMMA BktId1DWhere ==
  ASSUME NEW low \in Int, NEW high \in Int, low <= high, NEW sz \in Nat \ {0}, NEW val \in Int
  PROVE  IsBucketOf(BktId1D(val, low, high, sz), val, low, sz, BktNum(low, high, sz) - 1)
<1> USE DEF IsBucketOf
<1> DEFINE num == BktNum(low, high, sz)
           i == BktId1D(val, low, high, sz)
           q == (val - low) \div sz
<1>1. num \in Nat /\ num >= 3
  BY TableSizes
<1>2. i = IF val < low THEN 0 ELSE IF val >= low + (num - 2) * sz THEN num - 1 ELSE 1 + q
  BY DEF BktId1D
<1>3. \A k \in Int : BktName(low, sz, k) = low + (k - 1) * sz /\ (k - 1) * sz \in Int
  BY Times DEF BktName
<1>4. q \in Int /\ q * sz \in Int /\ (q + 1) * sz \in Int /\ q * sz <= val - low /\ val - low < (q + 1) * sz
  <2>1. val - low \in Int
    OBVIOUS
  <2>2. q \in Int /\ q * sz <= val - low /\ val - low < (q + 1) * sz
    BY <2>1, QuotientOf
  <2>3. QED
    BY <2>2, Times
<1> HIDE DEF num, i, q
<1>5. \A a, b \in Int : a * sz \in Int /\ (a < b => a * sz < b * sz)
  <2>1. ASSUME NEW a \in Int, NEW b \in Int
        PROVE  a * sz \in Int /\ (a < b => a * sz < b * sz)
    <3>1. a + 1 <= b => (a + 1) * sz <= b * sz
      BY Times
    <3>2. (a + 1) * sz = a * sz + sz /\ a * sz \in Int /\ b * sz \in Int
      BY Times
    <3>3. QED
      BY <3>1, <3>2
  <2>2. QED
    BY <2>1
<1>6. CASE val < low
  <2>1. i = 0 /\ num - 1 # 0
    BY <1>1, <1>2, <1>6
  <2>2. \A k \in 1..num - 1 : BktName(low, sz, k) \in Int /\ BktName(low, sz, k) >= low
    <3>1. \A k \in 1..num - 1 : (k - 1) * sz >= 0
      BY <1>1, Times
    <3>2. QED
      BY <1>1, <1>3, <3>1
  <2>3. \A k \in 1..num - 1 : ~(BktName(low, sz, k) <= val) /\ ~(val >= BktName(low, sz, k))
    BY <1>6, <2>2
  <2>4. QED
    BY <1>1, <1>6, <2>1, <2>3 DEF i, num
<1>7. CASE val >= low + (num - 2) * sz
  <2>1. (num - 2) * sz >= sz /\ (num - 2) * sz \in Int
    BY <1>1, <1>5, Times
  <2>2. i = num - 1 /\ ~(val < low)
    BY <1>2, <1>7, <2>1
  <2>3. \A k \in 1..num - 1 : BktName(low, sz, k) <= BktName(low, sz, num - 1)
    <3>1. \A k \in 1..num - 1 : (k - 1) * sz <= (num - 1 - 1) * sz
      BY <1>1, Times
    <3>2. QED
      BY <1>1, <1>3, <3>1
  <2>4. BktName(low, sz, num - 1) = low + (num - 2) * sz
    BY <1>1, <1>3
  <2>5. \A k \in 1..num - 1 - 1 : ~(val < BktName(low, sz, k + 1))
    <3>1. \A k \in 1..num - 1 - 1 : BktName(low, sz, k + 1) <= BktName(low, sz, num - 1) /\ BktName(low, sz, k + 1) \in Int
      BY <1>1, <1>3, <2>3
    <3>2. QED
      BY <1>7, <2>1, <2>4, <3>1
  <2>6. QED
    BY <1>1, <1>7, <2>2, <2>4, <2>5 DEF i, num
<1>8. CASE ~(val < low) /\ ~(val >= low + (num - 2) * sz)
  <2>1. i = 1 + q
    BY <1>2, <1>8
  <2>2. q >= 0 /\ q < num - 2
    <3>1. q < 0 => (q + 1) * sz <= 0 * sz
      BY <1>4, Times
    <3>2. num - 2 <= q => (num - 2) * sz <= q * sz
      BY <1>1, <1>4, Times
    <3>3. (num - 2) * sz \in Int /\ 0 * sz = 0
      BY <1>1, Times
    <3>4. QED
      BY <1>1, <1>4, <1>8, <3>1, <3>2, <3>3
  <2>3. \A k \in 1..num - 1 - 1 : i = k <=> BktName(low, sz, k) <= val /\ val < BktName(low, sz, k + 1)
    <3>1. ASSUME NEW k \in 1..num - 1 - 1
          PROVE  i = k <=> BktName(low, sz, k) <= val /\ val < BktName(low, sz, k + 1)
      <4>1. k \in Int /\ k - 1 \in Int /\ (k + 1) - 1 = (k - 1) + 1
        BY <1>1
      <4>2. (k - 1) * sz \in Int /\ ((k - 1) + 1) * sz \in Int
        BY <4>1, Times
      <4>3. BktName(low, sz, k) = low + (k - 1) * sz /\ BktName(low, sz, k + 1) = low + ((k - 1) + 1) * sz
        BY <4>1 DEF BktName
      <4>4. BktName(low, sz, k) <= val /\ val < BktName(low, sz, k + 1)
              <=> (k - 1) * sz <= val - low /\ val - low < ((k - 1) + 1) * sz
        BY <4>2, <4>3
      <4>5. i = k => q = k - 1
        BY <1>4, <2>1, <4>1
      <4>6. (k - 1) * sz <= val - low /\ val - low < ((k - 1) + 1) * sz => q = k - 1
        <5>1. val - low \in Int
          OBVIOUS
        <5>2. QED
          BY <4>1, <5>1, QuotIs DEF q
      <4>7. q = k - 1 => i = k
        BY <1>4, <2>1, <4>1
      <4>8. QED
        BY <1>4, <4>4, <4>5, <4>6, <4>7
    <3>2. QED
      BY <3>1
  <2>4. BktName(low, sz, num - 1) = low + (num - 2) * sz
    BY <1>1, <1>3
  <2>5. QED
    BY <1>1, <1>4, <1>8, <2>1, <2>2, <2>3, <2>4 DEF i, num
<1>9. QED
  BY <1>6, <1>7, <1>8

\* The two dimensional table finds the same buckets, though its test of
\* overflow is one bucket later.
LEMMA SameBuckets ==
  ASSUME NEW low \in Int, NEW high \in Int, low <= high, NEW sz \in Nat \ {0}, NEW val \in Int
  PROVE  FindBktId(val, low, high, sz) = BktId1D(val, low, high, sz)
<1> DEFINE num == BktNum(low, high, sz)
           q == (val - low) \div sz
<1>1. num \in Nat /\ num >= 3
  BY TableSizes
<1>2. /\ FindBktId(val, low, high, sz) =
           IF val < low THEN 0 ELSE IF val >= low + (num - 1) * sz THEN num - 1 ELSE 1 + q
      /\ BktId1D(val, low, high, sz) =
           IF val < low THEN 0 ELSE IF val >= low + (num - 2) * sz THEN num - 1 ELSE 1 + q
  BY DEF BktId1D, FindBktId
<1>3. /\ (num - 2) * sz \in Int /\ (num - 1) * sz \in Int
      /\ (num - 2) * sz <= (num - 1) * sz /\ num - 2 \in Int /\ (num - 2) + 1 = num - 1
  BY <1>1, Times
<1>4. (num - 2) * sz <= val - low /\ val - low < ((num - 2) + 1) * sz => q = num - 2
  <2>1. val - low \in Int /\ num - 2 \in Int
    BY <1>1
  <2> HIDE DEF num
  <2>2. QED
    BY <2>1, QuotIs
<1> HIDE DEF num, q
<1>5. QED
  BY <1>1, <1>2, <1>3, <1>4

-----------------------------------------------------------------------------
(* One deal more in a table.                                               *)

\* The cells of a row, and of a column, of a table kept row after row.
Row(counters, C, r)       == [c \in 0..C - 1 |-> counters[r * C + c]]
Column(counters, R, C, c) == [r \in 0..R - 1 |-> counters[r * C + c]]

\* A table of no counts sums up to nothing.
LEMMA NothingCounted ==
  ASSUME NEW D, IsFiniteSet(D), NEW f, DOMAIN f = D, \A x \in D : f[x] = 0
  PROVE  Total(f) = 0
BY SumOfZeros DEF Total, SumFunction

\* A function of counters that grows by one at one place does so in total.
LEMMA TotalOfOneMore ==
  ASSUME NEW D, IsFiniteSet(D), NEW f \in [D -> Int], NEW g \in [D -> Int], NEW i,
         OneMoreAt(i, f, g, D)
  PROVE  Total(f) \in Int /\ Total(g) = IF i \in D THEN Total(f) + 1 ELSE Total(f)
<1>1. Summable(f, D)
  BY DEF Summable
<1>2. /\ SumFunctionOnSet(f, D) \in Int
      /\ SumFunctionOnSet(g, D) = SumFunctionOnSet(f, D) + (IF i \in D THEN 1 ELSE 0)
  BY <1>1, SumOfOneMore
<1>3. Total(f) = SumFunctionOnSet(f, D) /\ Total(g) = SumFunctionOnSet(g, D)
  BY DEF Total, SumFunction
<1>4. QED
  BY <1>2, <1>3

\* A count more in a table is one more in total.
LEMMA CountedOnce ==
  ASSUME NEW D, IsFiniteSet(D), NEW f \in [D -> Nat], NEW i \in D
  PROVE  /\ Counted(f, i) \in [D -> Nat]
         /\ OneMoreAt(i, f, Counted(f, i), D)
         /\ Total(f) \in Int /\ Total(Counted(f, i)) = Total(f) + 1
<1> DEFINE g == Counted(f, i)
<1>1. g \in [D -> Nat]
  BY DEF Counted
<1>2. OneMoreAt(i, f, g, D)
  BY DEF Counted, OneMoreAt
<1>3. f \in [D -> Int] /\ g \in [D -> Int]
  BY <1>1
<1> HIDE DEF g
<1>4. Total(f) \in Int /\ Total(g) = Total(f) + 1
  BY <1>2, <1>3, TotalOfOneMore
<1>5. QED
  BY <1>1, <1>2, <1>4 DEF g

\* The sum of every set that i is in has grown by one, and no other.
SetsGrow(f, g, D, i) ==
  \A S \in SUBSET D :
    /\ SumFunctionOnSet(f, S) \in Int
    /\ SumFunctionOnSet(g, S) = SumFunctionOnSet(f, S) + (IF i \in S THEN 1 ELSE 0)

\* A deal more is one more of every set of deals it is in.
LEMMA ActedOnce ==
  ASSUME NEW D, IsFiniteSet(D), NEW f \in [D -> Nat], NEW i \in D
  PROVE  SetsGrow(f, Counted(f, i), D, i)
<1> DEFINE g == Counted(f, i)
<1>1. OneMoreAt(i, f, g, D)
  BY CountedOnce
<1> HIDE DEF g
<1>2. ASSUME NEW S \in SUBSET D
      PROVE  /\ SumFunctionOnSet(f, S) \in Int
             /\ SumFunctionOnSet(g, S) = SumFunctionOnSet(f, S) + (IF i \in S THEN 1 ELSE 0)
  <2>1. Summable(f, S)
    BY FS_Subset DEF Summable
  <2>2. OneMoreAt(i, f, g, S)
    BY <1>1 DEF OneMoreAt
  <2>3. QED
    BY <2>1, <2>2, SumOfOneMore
<1>3. QED
  BY <1>2 DEF g, SetsGrow

\* The total of row r has grown by one, and of no other.
RowsGrow(f, g, R, C, r) ==
  \A q \in 0..R - 1 :
    /\ RowTotal(f, C, q) \in Int
    /\ RowTotal(g, C, q) = IF q = r THEN RowTotal(f, C, q) + 1 ELSE RowTotal(f, C, q)

\* The total of column c has grown by one, and of no other.
ColumnsGrow(f, g, R, C, c) ==
  \A q \in 0..C - 1 :
    /\ Total(Column(f, R, C, q)) \in Int
    /\ Total(Column(g, R, C, q)) =
         IF q = c THEN Total(Column(f, R, C, q)) + 1 ELSE Total(Column(f, R, C, q))

\* Where a cell is in a table kept row after row.
CellOf(r, c, C) == r * C + c

\* A count more in a cell of a table is one more in its row and its column,
\* and in no other.
LEMMA CellCounted ==
  ASSUME NEW R \in Nat, NEW C \in Nat, NEW f \in CellTables(R, C),
         NEW r \in 0..R - 1, NEW c \in 0..C - 1
  PROVE  /\ Counted(f, CellOf(r, c, C)) \in CellTables(R, C)
         /\ Total(f) \in Int /\ Total(Counted(f, CellOf(r, c, C))) = Total(f) + 1
         /\ RowsGrow(f, Counted(f, CellOf(r, c, C)), R, C, r)
         /\ ColumnsGrow(f, Counted(f, CellOf(r, c, C)), R, C, c)
<1> USE DEF CellTables, Counters, CellOf
<1> DEFINE g == Counted(f, r * C + c)
           D == 0..R * C - 1
<1>1. /\ R * C \in Nat /\ r * C + c \in D /\ IsFiniteSet(D)
      /\ \A a \in 0..R - 1, b \in 0..C - 1 :
           a * C + b \in D /\ (a * C + b = r * C + c => a = r /\ b = c)
  <2>1. R * C \in Nat
    BY Times
  <2>2. IsFiniteSet(D)
    <3> DEFINE N == R * C - 1
    <3>1. N \in Int
      BY <2>1
    <3> HIDE DEF N
    <3>2. IsFiniteSet(0..N)
      BY <3>1, FS_Interval, SMTT(30)
    <3>3. QED
      BY <3>2 DEF N
  <2>3. /\ \A a \in 0..R - 1, b \in 0..C - 1 : a * C + b \in D
        /\ \A a, k \in 0..R - 1, b, l \in 0..C - 1 : a * C + b = k * C + l => a = k /\ b = l
    BY CellsOfTable
  <2> HIDE DEF D
  <2>4. QED
    BY <2>1, <2>2, <2>3
<1>2. /\ g \in [D -> Nat] /\ Total(f) \in Int /\ Total(g) = Total(f) + 1
      /\ OneMoreAt(r * C + c, f, g, D)
  <2> HIDE DEF D
  <2>1. f \in [D -> Nat]
    BY DEF D
  <2>2. QED
    BY <1>1, <2>1, CountedOnce, Zenon DEF g
<1>3. \A a \in 0..R - 1, b \in 0..C - 1 :
        /\ f[a * C + b] \in Int
        /\ g[a * C + b] = IF a = r /\ b = c THEN f[a * C + b] + 1 ELSE f[a * C + b]
  <2> HIDE DEF D, g
  <2>1. f \in [D -> Nat]
    BY DEF D
  <2>2. \A x \in D : f[x] \in Int
    BY <2>1
  <2>3. \A a \in 0..R - 1, b \in 0..C - 1 : a * C + b = r * C + c <=> a = r /\ b = c
    BY <1>1
  <2>4. QED
    BY <1>1, <1>2, <2>2, <2>3 DEF OneMoreAt
<1> HIDE DEF g, D
<1>4. ASSUME NEW q \in 0..R - 1
      PROVE  /\ RowTotal(f, C, q) \in Int
             /\ RowTotal(g, C, q) = IF q = r THEN RowTotal(f, C, q) + 1 ELSE RowTotal(f, C, q)
  <2> DEFINE i == IF q = r THEN c ELSE -1
             fr == Row(f, C, q)
             gr == Row(g, C, q)
             Cs == 0..C - 1
  <2>1. \A x \in Cs :
          /\ f[q * C + x] \in Int
          /\ g[q * C + x] = IF q = r /\ x = c THEN f[q * C + x] + 1 ELSE f[q * C + x]
    BY <1>3, Zenon
  <2>6. \A x \in Cs : x = i <=> q = r /\ x = c
    OBVIOUS
  <2>7. /\ fr \in [Cs -> Int] /\ gr \in [Cs -> Int]
        /\ OneMoreAt(i, fr, gr, Cs)
    <3> HIDE DEF i, Cs
    <3>1. /\ fr = [x \in Cs |-> f[q * C + x]]
          /\ gr = [x \in Cs |-> g[q * C + x]]
      BY DEF Row, Cs
    <3>2. QED
      BY <2>1, <2>6, <3>1 DEF OneMoreAt
  <2>2. RowTotal(f, C, q) = Total(fr) /\ RowTotal(g, C, q) = Total(gr)
    BY DEF RowTotal, Row
  <2>3. (i \in Cs <=> q = r) /\ IsFiniteSet(Cs)
    BY FS_Interval, SMTT(30)
  <2> HIDE DEF fr, gr, i, Cs
  <2>4. Total(fr) \in Int /\ Total(gr) = IF i \in Cs THEN Total(fr) + 1 ELSE Total(fr)
    BY <2>3, <2>7, TotalOfOneMore
  <2>5. QED
    BY <2>2, <2>3, <2>4
<1>5. ASSUME NEW q \in 0..C - 1
      PROVE  /\ Total(Column(f, R, C, q)) \in Int
             /\ Total(Column(g, R, C, q)) =
                  IF q = c THEN Total(Column(f, R, C, q)) + 1 ELSE Total(Column(f, R, C, q))
  <2> DEFINE i == IF q = c THEN r ELSE -1
             fc == Column(f, R, C, q)
             gc == Column(g, R, C, q)
             Rs == 0..R - 1
  <2>1. \A x \in Rs :
          /\ f[x * C + q] \in Int
          /\ g[x * C + q] = IF x = r /\ q = c THEN f[x * C + q] + 1 ELSE f[x * C + q]
    BY <1>3, Zenon
  <2>2. \A x \in Rs : x = i <=> x = r /\ q = c
    OBVIOUS
  <2>3. /\ fc \in [Rs -> Int] /\ gc \in [Rs -> Int]
        /\ OneMoreAt(i, fc, gc, Rs)
    <3> HIDE DEF i, Rs
    <3>1. /\ fc = [x \in Rs |-> f[x * C + q]]
          /\ gc = [x \in Rs |-> g[x * C + q]]
      BY DEF Column, Rs
    <3>2. QED
      BY <2>1, <2>2, <3>1 DEF OneMoreAt
  <2>4. (i \in Rs <=> q = c) /\ IsFiniteSet(Rs)
    BY FS_Interval, SMTT(30)
  <2> HIDE DEF fc, gc, i, Rs
  <2>5. Total(fc) \in Int /\ Total(gc) = IF i \in Rs THEN Total(fc) + 1 ELSE Total(fc)
    BY <2>3, <2>4, TotalOfOneMore
  <2>6. QED
    BY <2>4, <2>5 DEF fc, gc
<1>6. QED
  <2>1. RowsGrow(f, g, R, C, r) /\ ColumnsGrow(f, g, R, C, c)
    BY <1>4, <1>5 DEF RowsGrow, ColumnsGrow
  <2>2. QED
    BY <1>2, <2>1 DEF g, D

-----------------------------------------------------------------------------
(* The totals that show_freq2D prints.                                     *)

\* What the total of a column is before the counter of the next row is added.
Kept(a, r, c, C) == IF c = (IF r = 1 THEN C - 1 ELSE C) THEN 0 ELSE a[r - 1][c]

\* The totals after each row follow the code.
AreTotals(a, f, R, C) ==
  a = [r \in 0..R |-> [c \in 0..C - 1 |-> IF r = 0 THEN 0 ELSE Kept(a, r, c, C) + f[(r - 1) * C + c]]]

\* The recursive function of ColTotals, chosen among those that follow the code.
LEMMA TotalsUnfolded ==
  ASSUME NEW R \in Nat, NEW C \in Nat, NEW f
  PROVE  ColTotals(f, R, C) = (CHOOSE a : AreTotals(a, f, R, C))[R]
BY DEF ColTotals, AreTotals, Kept

\* Clearing what is no total does no harm: each total is the sum of its column.
LEMMA ColTotalsAreSums ==
  ASSUME NEW R \in Nat, NEW C \in Nat, NEW f \in CellTables(R, C)
  PROVE  ColTotals(f, R, C) = [c \in 0..C - 1 |-> Total(Column(f, R, C, c))]
<1> USE DEF CellTables, Counters
<1> DEFINE col(c) == Column(f, R, C, c)
           w == [r \in 0..R |-> [c \in 0..C - 1 |-> SumFunctionOnSet(col(c), 0..r - 1)]]
<1>1. ASSUME NEW c \in 0..C - 1
      PROVE  /\ SumFunctionOnSet(col(c), 0..-1) = 0
             /\ \A r \in 1..R : SumFunctionOnSet(col(c), 0..r - 1)
                   = SumFunctionOnSet(col(c), 0..r - 2) + f[(r - 1) * C + c]
  <2> DEFINE h == col(c)
  <2>1. \A r \in 0..R - 1 : h[r] = f[r * C + c] /\ h[r] \in Int
    <3>1. \A r \in 0..R - 1 : r * C + c \in 0..R * C - 1
      BY CellsOfTable
    <3>2. \A r \in 0..R - 1 : h[r] = f[r * C + c]
      BY DEF Column
    <3> HIDE DEF h
    <3>3. QED
      BY <3>1, <3>2
  <2> HIDE DEF h
  <2>2. ASSUME NEW r \in 0..R PROVE Summable(h, 0..r - 1)
    <3>1. \A x \in 0..r - 1 : h[x] \in Int
      BY <2>1
    <3>2. IsFiniteSet(0..r - 1)
      BY FS_Interval, SMTT(30)
    <3>3. QED
      BY <3>1, <3>2 DEF Summable
  <2>3. SumFunctionOnSet(h, 0..-1) = 0
    <3>1. 0..-1 = {} /\ 0 - 1 = -1 /\ 0 \in 0..R
      OBVIOUS
    <3>2. Summable(h, 0..-1)
      BY <2>2, <3>1
    <3>3. QED
      BY <3>1, <3>2, SumOnSet
  <2>4. ASSUME NEW r \in 1..R
        PROVE  SumFunctionOnSet(h, 0..r - 1) = SumFunctionOnSet(h, 0..r - 2) + f[(r - 1) * C + c]
    <3> DEFINE D == 0..r - 1
               E == 0..r - 2
    <3>1. r - 1 \in D /\ D \ {r - 1} = E /\ r - 1 \in 0..R - 1
      OBVIOUS
    <3>2. Summable(h, D)
      BY <2>2
    <3>3. Summable(h, E)
      <4>1. r - 1 \in 0..R /\ (r - 1) - 1 = r - 2
        OBVIOUS
      <4>2. QED
        BY <2>2, <4>1
    <3> HIDE DEF D, E
    <3>4. SumFunctionOnSet(h, D) = h[r - 1] + SumFunctionOnSet(h, E)
      <4> DEFINE final == r - 1
      <4>1. final \in D /\ D \ {final} = E
        BY <3>1
      <4> HIDE DEF final
      <4>2. SumFunctionOnSet(h, D) = h[final] + SumFunctionOnSet(h, D \ {final})
        BY <3>2, <4>1, SumOnSet
      <4>3. QED
        BY <4>1, <4>2 DEF final
    <3>5. SumFunctionOnSet(h, E) \in Int
      BY <3>3, SumOnSet
    <3>6. h[r - 1] = f[(r - 1) * C + c] /\ h[r - 1] \in Int
      BY <2>1, <3>1
    <3>7. QED
      BY <3>4, <3>5, <3>6 DEF D, E
  <2>5. QED
    BY <2>3, <2>4 DEF h
<1>2. /\ \A c \in 0..C - 1 : w[0][c] = 0
      /\ \A r \in 1..R, c \in 0..C - 1 : w[r][c] = Kept(w, r, c, C) + f[(r - 1) * C + c]
  <2>1. \A c \in 0..C - 1 : w[0][c] = 0
    BY <1>1
  <2>2. ASSUME NEW r \in 1..R, NEW c \in 0..C - 1
        PROVE  w[r][c] = Kept(w, r, c, C) + f[(r - 1) * C + c]
    <3>1. r \in 0..R /\ r - 1 \in 0..R /\ (r - 1) - 1 = r - 2
      OBVIOUS
    <3>2. /\ w[r][c] = SumFunctionOnSet(col(c), 0..r - 1)
          /\ w[r - 1][c] = SumFunctionOnSet(col(c), 0..r - 2)
      BY <3>1
    <3>3. Kept(w, r, c, C) = w[r - 1][c]
      <4> HIDE DEF w
      <4>1. QED
        BY <2>1, <3>1 DEF Kept
    <3> HIDE DEF w
    <3>4. QED
      BY <1>1, <3>2, <3>3
  <2>3. QED
    BY <2>1, <2>2
<1>3. AreTotals(w, f, R, C)
  <2>1. w = [r \in 0..R |-> [c \in 0..C - 1 |-> w[r][c]]]
    OBVIOUS
  <2> HIDE DEF w
  <2>2. \A r \in 0..R, c \in 0..C - 1 :
          w[r][c] = IF r = 0 THEN 0 ELSE Kept(w, r, c, C) + f[(r - 1) * C + c]
    BY <1>2
  <2> DEFINE e(r, c) == IF r = 0 THEN 0 ELSE Kept(w, r, c, C) + f[(r - 1) * C + c]
  <2>3. \A r \in 0..R : [c \in 0..C - 1 |-> w[r][c]] = [c \in 0..C - 1 |-> e(r, c)]
    <3>1. \A r \in 0..R, c \in 0..C - 1 : w[r][c] = e(r, c)
      BY <2>2
    <3> HIDE DEF e
    <3>2. QED
      BY <3>1
  <2>4. [r \in 0..R |-> [c \in 0..C - 1 |-> w[r][c]]] = [r \in 0..R |-> [c \in 0..C - 1 |-> e(r, c)]]
    <3> DEFINE v(r) == [c \in 0..C - 1 |-> w[r][c]]
               u(r) == [c \in 0..C - 1 |-> e(r, c)]
    <3>1. \A r \in 0..R : v(r) = u(r)
      BY <2>3
    <3> HIDE DEF u, v
    <3>2. [r \in 0..R |-> v(r)] = [r \in 0..R |-> u(r)]
      BY <3>1
    <3>3. QED
      BY <3>2 DEF u, v
  <2>5. QED
    BY <2>1, <2>4 DEF AreTotals
<1> DEFINE a == CHOOSE b : AreTotals(b, f, R, C)
<1>4. AreTotals(a, f, R, C)
  BY <1>3
<1> HIDE DEF a
<1>5. /\ \A r \in 0..R : a[r] = [c \in 0..C - 1 |-> a[r][c]]
      /\ \A c \in 0..C - 1 : a[0][c] = 0
      /\ \A r \in 1..R, c \in 0..C - 1 : a[r][c] = Kept(a, r, c, C) + f[(r - 1) * C + c]
  <2> DEFINE e(r, c) == IF r = 0 THEN 0 ELSE Kept(a, r, c, C) + f[(r - 1) * C + c]
  <2>1. a = [r \in 0..R |-> [c \in 0..C - 1 |-> e(r, c)]]
    BY <1>4 DEF AreTotals
  <2>2. \A r \in 0..R : a[r] = [c \in 0..C - 1 |-> e(r, c)]
    <3> HIDE DEF e
    <3>1. QED
      BY <2>1
  <2>3. \A r \in 0..R, c \in 0..C - 1 : a[r][c] = e(r, c)
    <3> HIDE DEF e
    <3>1. QED
      BY <2>2
  <2>4. \A r \in 0..R : a[r] = [c \in 0..C - 1 |-> a[r][c]]
    <3> HIDE DEF e
    <3>1. QED
      BY <2>2, <2>3
  <2>5. \A c \in 0..C - 1 : a[0][c] = 0
    BY <2>3
  <2>6. ASSUME NEW r \in 1..R, NEW c \in 0..C - 1
        PROVE  a[r][c] = Kept(a, r, c, C) + f[(r - 1) * C + c]
    <3>1. r \in 0..R /\ r # 0
      OBVIOUS
    <3>2. a[r][c] = e(r, c)
      BY <2>3, <3>1, Zenon
    <3>3. QED
      BY <3>1, <3>2
  <2>7. QED
    BY <2>4, <2>5, <2>6
<1>6. \A r \in 0..R : \A c \in 0..C - 1 : a[r][c] = w[r][c]
  <2> DEFINE B == {r \in 0..R : \E c \in 0..C - 1 : a[r][c] # w[r][c]}
  <2> HIDE DEF w
  <2>1. SUFFICES ASSUME B # {} PROVE FALSE
    OBVIOUS
  <2>2. PICK r \in B : \A q \in B : r <= q
    <3>1. B \subseteq Nat
      OBVIOUS
    <3> HIDE DEF B
    <3>2. QED
      BY <2>1, <3>1, LeastElement
  <2>3. r # 0 /\ r \in 1..R
    BY <1>2, <1>5
  <2>4. r - 1 \notin B /\ r - 1 \in 0..R
    <3>1. ~(r <= r - 1) /\ r - 1 \in 0..R
      BY <2>3
    <3> HIDE DEF B
    <3>2. QED
      BY <2>2, <3>1
  <2>5. \A c \in 0..C - 1 : Kept(a, r, c, C) = Kept(w, r, c, C)
    BY <2>4 DEF Kept
  <2>6. \A c \in 0..C - 1 : a[r][c] = w[r][c]
    <3>1. ASSUME NEW c \in 0..C - 1 PROVE a[r][c] = w[r][c]
      <4>1. a[r][c] = Kept(a, r, c, C) + f[(r - 1) * C + c]
        BY <1>5, <2>3, Zenon
      <4>2. w[r][c] = Kept(w, r, c, C) + f[(r - 1) * C + c]
        BY <1>2, <2>3, Zenon
      <4>3. Kept(a, r, c, C) = Kept(w, r, c, C)
        BY <2>5
      <4>4. QED
        BY <4>1, <4>2, <4>3, Zenon
    <3>2. QED
      BY <3>1
  <2>7. QED
    BY <2>6
<1>7. \A c \in 0..C - 1 : w[R][c] = Total(Column(f, R, C, c))
  <2>1. \A c \in 0..C - 1 : DOMAIN col(c) = 0..R - 1
    BY DEF Column
  <2>2. \A c \in 0..C - 1 : w[R][c] = SumFunctionOnSet(col(c), 0..R - 1)
    OBVIOUS
  <2>3. QED
    BY <2>1, <2>2 DEF Total, SumFunction
<1>8. ColTotals(f, R, C) = a[R]
  BY TotalsUnfolded DEF a
<1> HIDE DEF w
<1>9. R \in 0..R
  OBVIOUS
<1>10. a[R] = [c \in 0..C - 1 |-> a[R][c]] /\ \A c \in 0..C - 1 : a[R][c] = Total(Column(f, R, C, c))
  BY <1>5, <1>6, <1>7, <1>9, Zenon
<1>11. QED
  BY <1>8, <1>10

-----------------------------------------------------------------------------
(* The inductive invariant.                                                *)

\* The sizes of the tables of the script.
Rows == FreqCols(script.low1, script.high1)
Cols == FreqCols(script.low2, script.high2)
Num1 == BktNum(script.low1, script.high1, script.sz1)
Num2 == BktNum(script.low2, script.high2, script.sz2)

\* How often deals of a set were acted on, and the sets of deals that share a counter.
Acts(S)       == SumFunctionOnSet(actedOn, S)
Equal(v)      == {d \in ReportDeals : d.expr1 = v}
Below(v)      == {d \in ReportDeals : d.expr1 < v}
Above(v)      == {d \in ReportDeals : d.expr1 > v}
From(v)       == {d \in ReportDeals : d.expr1 >= v}
Between(v, w) == {d \in ReportDeals : v <= d.expr1 /\ d.expr1 < w}

\* Every action has counted every deal.
AllCounted ==
  /\ average.count = Total(actedOn)
  /\ freq.uflow + freq.oflow + Total(freq.freqs) = Total(actedOn)
  /\ Total(freq2D) = Total(actedOn) /\ Total(bkt1D) = Total(actedOn)
  /\ Total(bkt2D) = Total(actedOn) /\ Total(trix) = Total(actedOn)

\* The counters of one expression have the deals that belong to them.
FreqsInPlace ==
  /\ \A v \in script.low1..script.high1 : freq.freqs[v - script.low1] = Acts(Equal(v))
  /\ freq.uflow = Acts(Below(script.low1))
  /\ freq.oflow = Acts(Above(script.high1))

BucketsInPlace ==
  LET Name(i) == BktName(script.low1, script.sz1, i) IN
  /\ \A i \in 1..Num1 - 2 : bkt1D[i] = Acts(Between(Name(i), Name(i + 1)))
  /\ bkt1D[0] = Acts(Below(script.low1))
  /\ bkt1D[Num1 - 1] = Acts(From(Name(Num1 - 1)))

\* The rows of the tables of two sum up to the counters of one.
RowsAgree ==
  /\ RowTotal(freq2D, Cols, 0) = freq.uflow
  /\ RowTotal(freq2D, Cols, Rows - 1) = freq.oflow
  /\ \A v \in script.low1..script.high1 :
       RowTotal(freq2D, Cols, v - script.low1 + 1) = freq.freqs[v - script.low1]
  /\ \A r \in 0..Num1 - 1 : RowTotal(bkt2D, Num2, r) = bkt1D[r]

\* The totals of the rows and those of the columns have the same sum.
RowTotals    == [r \in 0..Num1 - 1 |-> RowTotal(bkt2D, Num2, r)]
ColumnTotals == [c \in 0..Num2 - 1 |-> Total(Column(bkt2D, Num1, Num2, c))]
GrandTotals  == Total(RowTotals) = Total(actedOn) /\ Total(ColumnTotals) = Total(actedOn)

\* The tricks that make the contract, and the deals it is made on.
Good      == {t \in Tricks : t >= 6 + Level(script.coded)}
MadeDeals == {d \in ReportDeals : d.tricks >= 6 + Level(script.coded)}

\* The tricks counted are those of the deals, and score what the laws give.
TricksInPlace ==
  /\ nprod = Total(actedOn)
  /\ SumFunctionOnSet(trix, Good) = Acts(MadeDeals)
  /\ ScoreTotal = Total([d \in ReportDeals |-> LawfulScore(d) * actedOn[d]])

ReportsInv == /\ ReportsTypeOK /\ AllCounted /\ FreqsInPlace /\ BucketsInPlace /\ RowsAgree /\ GrandTotals
        /\ TricksInPlace

\* The sizes of the tables of a script.
LEMMA Sizes ==
  ASSUME script \in Scripts
  PROVE  /\ script.low1 \in Int /\ script.high1 \in Int /\ script.low1 <= script.high1
         /\ script.low2 \in Int /\ script.high2 \in Int /\ script.low2 <= script.high2
         /\ script.sz1 \in Nat \ {0} /\ script.sz2 \in Nat \ {0}
         /\ Num1 \in Nat /\ Num1 >= 3 /\ Num2 \in Nat /\ Num2 >= 3
         /\ Rows \in Nat /\ Rows >= 3 /\ Cols \in Nat /\ Cols >= 3
         /\ Rows - 1 = script.high1 - script.low1 + 2
<1>1. /\ script.low1 \in Int /\ script.high1 \in Int /\ script.low1 <= script.high1
      /\ script.low2 \in Int /\ script.high2 \in Int /\ script.low2 <= script.high2
      /\ script.sz1 \in Nat \ {0} /\ script.sz2 \in Nat \ {0}
  BY DEF ReportsAssumption
<1>2. Num1 \in Nat /\ Num1 >= 3 /\ Num2 \in Nat /\ Num2 >= 3
  BY <1>1, TableSizes DEF Num1, Num2
<1>3. Rows \in Nat /\ Rows >= 3 /\ Cols \in Nat /\ Cols >= 3 /\ Rows - 1 = script.high1 - script.low1 + 2
  BY <1>1 DEF Rows, Cols, FreqCols
<1>4. QED
  BY <1>1, <1>2, <1>3

\* The values in a frequency, and what one value more does to it.
FreqTotal(f) == f.uflow + f.oflow + Total(f.freqs)

FreqGrows(f, g, val, low, high) ==
  /\ g \in FreqTable(low, high)
  /\ g.uflow = IF val < low THEN f.uflow + 1 ELSE f.uflow
  /\ g.oflow = IF val > high THEN f.oflow + 1 ELSE f.oflow
  /\ \A v \in low..high : g.freqs[v - low] = IF v = val THEN f.freqs[v - low] + 1 ELSE f.freqs[v - low]
  /\ FreqTotal(f) \in Int /\ FreqTotal(g) = FreqTotal(f) + 1

\* One value more in a frequency.
LEMMA FreqCountedOnce ==
  ASSUME NEW low \in Int, NEW high \in Int, low <= high, NEW val \in Int,
         NEW f \in FreqTable(low, high)
  PROVE  FreqGrows(f, FreqCounted(f, val, low, high), val, low, high)
<1> USE DEF FreqTable, Counters
<1> DEFINE D == 0..high - low + 1 - 1
           g == FreqCounted(f, val, low, high)
<1>1. IsFiniteSet(D) /\ low - low \in D /\ \A v \in low..high : v - low \in D
  <2>1. D = 0..high - low
    OBVIOUS
  <2>2. high - low \in Int /\ 0 \in Int
    OBVIOUS
  <2>3. IsFiniteSet(0..high - low)
    BY <2>2, FS_Interval, Zenon
  <2> HIDE DEF D
  <2>4. IsFiniteSet(D)
    BY <2>1, <2>3, Zenon
  <2>5. low - low \in D /\ \A v \in low..high : v - low \in D
    BY <2>1
  <2>6. QED
    BY <2>4, <2>5, Zenon
<1> HIDE DEF D
<1>2. f.uflow \in Nat /\ f.oflow \in Nat /\ f.freqs \in [D -> Nat]
  BY DEF D
<1>3. \A x \in D : /\ Counted(f.freqs, x) \in [D -> Nat] /\ OneMoreAt(x, f.freqs, Counted(f.freqs, x), D)
                   /\ Total(f.freqs) \in Int /\ Total(Counted(f.freqs, x)) = Total(f.freqs) + 1
  BY <1>1, <1>2, CountedOnce
<1>4. Total(f.freqs) \in Int
  BY <1>1, <1>3
<1>5. /\ g \in [uflow : Nat, oflow : Nat, freqs : [D -> Nat]]
      /\ g.uflow = IF val < low THEN f.uflow + 1 ELSE f.uflow
      /\ g.oflow = IF val > high THEN f.oflow + 1 ELSE f.oflow
      /\ g.freqs = IF val \in low..high THEN Counted(f.freqs, val - low) ELSE f.freqs
  <2>1. CASE val < low
    <3>1. g = [f EXCEPT !.uflow = @ + 1]
      BY <2>1 DEF FreqCounted
    <3>2. QED
      BY <2>1, <3>1 DEF D
  <2>2. CASE val > high
    <3>1. g = [f EXCEPT !.oflow = @ + 1]
      BY <2>2 DEF FreqCounted
    <3>2. /\ g \in [uflow : Nat, oflow : Nat, freqs : [D -> Nat]]
          /\ g.uflow = f.uflow /\ g.oflow = f.oflow + 1 /\ g.freqs = f.freqs
      <4>1. f \in [uflow : Nat, oflow : Nat, freqs : [D -> Nat]]
        BY DEF D
      <4> HIDE DEF g
      <4>2. g.uflow = f.uflow /\ g.oflow = f.oflow + 1 /\ g.freqs = f.freqs
        BY <3>1, <4>1
      <4>3. g \in [uflow : Nat, oflow : Nat, freqs : [D -> Nat]]
        BY <1>2, <3>1, <4>1, SMTT(30)
      <4>4. QED
        BY <4>2, <4>3
    <3> HIDE DEF g
    <3>3. QED
      BY <2>2, <3>2
  <2>3. CASE ~(val < low) /\ ~(val > high)
    <3> DEFINE h == Counted(f.freqs, val - low)
    <3>1. g = [f EXCEPT !.freqs = h]
      BY <2>3 DEF FreqCounted
    <3>2. val \in low..high /\ val - low \in D /\ h \in [D -> Nat]
      <4>1. val \in low..high
        BY <2>3
      <4>2. QED
        BY <1>1, <1>3, <4>1
    <3> HIDE DEF h
    <3>3. g \in [uflow : Nat, oflow : Nat, freqs : [D -> Nat]] /\ g.uflow = f.uflow /\ g.oflow = f.oflow /\ g.freqs = h
      BY <3>1, <3>2 DEF D
    <3> HIDE DEF g
    <3>4. QED
      BY <2>3, <3>2, <3>3 DEF h
  <2>4. QED
    BY <2>1, <2>2, <2>3
<1> HIDE DEF g
<1>6. \A v \in low..high : g.freqs[v - low] = IF v = val THEN f.freqs[v - low] + 1 ELSE f.freqs[v - low]
  <2>1. CASE val \in low..high
    <3>1. OneMoreAt(val - low, f.freqs, g.freqs, D)
      BY <1>1, <1>3, <1>5, <2>1
    <3>2. \A v \in low..high : v - low = val - low <=> v = val
      BY <2>1
    <3>3. QED
      BY <1>1, <3>1, <3>2 DEF OneMoreAt
  <2>2. CASE val \notin low..high
    BY <1>5, <2>2
  <2>3. QED
    BY <2>1, <2>2
<1>7. g.uflow + g.oflow + Total(g.freqs) = f.uflow + f.oflow + Total(f.freqs) + 1
  <2>1. CASE val \in low..high
    <3>1. Total(g.freqs) = Total(f.freqs) + 1
      BY <1>1, <1>3, <1>5, <2>1
    <3>2. g.uflow = f.uflow /\ g.oflow = f.oflow
      BY <1>5, <2>1
    <3>3. QED
      BY <1>2, <1>4, <3>1, <3>2
  <2>2. CASE val \notin low..high
    <3>1. Total(g.freqs) = Total(f.freqs)
      BY <1>5, <2>2
    <3>2. (val < low /\ ~(val > high)) \/ (val > high /\ ~(val < low))
      BY <2>2
    <3>3. QED
      BY <1>2, <1>4, <1>5, <3>1, <3>2
  <2>3. QED
    BY <2>1, <2>2
<1>8. QED
  <2>1. g \in FreqTable(low, high)
    BY <1>5 DEF D
  <2>2. FreqTotal(f) \in Int /\ FreqTotal(g) = FreqTotal(f) + 1
    <3>1. FreqTotal(f) \in Int
      BY <1>2, <1>4 DEF FreqTotal
    <3>2. QED
      BY <1>7, <3>1 DEF FreqTotal
  <2> HIDE DEF FreqTable
  <2>3. FreqGrows(f, g, val, low, high)
    BY <1>5, <1>6, <2>1, <2>2 DEF FreqGrows
  <2>4. QED
    BY <2>3 DEF g

-----------------------------------------------------------------------------
(* The contract.                                                           *)

\* The contract of a script is decoded to that of the parser.
LEMMA TheContract ==
  ASSUME script \in Scripts
  PROVE  /\ Level(script.coded) \in Levels /\ Strain(script.coded) \in Denominations
         /\ Dbl(script.coded) \in Dbls /\ script.vul \in Vuls
         /\ script.coded = MakeContract(Level(script.coded), Strain(script.coded), Dbl(script.coded))
<1>1. script.coded \in Contracts /\ script.vul \in Vuls
  BY ReportsAssumption
<1>2. PICK level \in Levels, strain \in Denominations, dbl \in Dbls :
        script.coded = MakeContract(level, strain, dbl)
  BY <1>1 DEF Contracts
<1>3. Dbl(script.coded) = dbl /\ Strain(script.coded) = strain /\ Level(script.coded) = level
  BY <1>2, ContractDecoded
<1>4. QED
  BY <1>1, <1>2, <1>3

\* Each number of tricks scores what the laws give: more than nothing if it
\* makes the contract, and less if not.
LEMMA ScoreOfTricks ==
  ASSUME script \in Scripts, NEW t \in Tricks
  PROVE  /\ ContractScore(t) \in Int
         /\ ContractScore(t) = LawScore(script.vul, Level(script.coded), Strain(script.coded),
                                        Dbl(script.coded), t)
         /\ t >= 6 + Level(script.coded) => ContractScore(t) > 0
         /\ t < 6 + Level(script.coded) => ContractScore(t) < 0
<1> DEFINE level == Level(script.coded)
           strain == Strain(script.coded)
           dbl == Dbl(script.coded)
           vul == script.vul
<1>1. /\ level \in Levels /\ strain \in Denominations /\ dbl \in Dbls /\ vul \in Vuls
      /\ script.coded = MakeContract(level, strain, dbl)
  BY TheContract
<1>2. ContractScore(t) = Score(vul, script.coded, t)
  BY DEF ContractScore, Score
<1> HIDE DEF level, strain, dbl, vul
<1>3. /\ Score(vul, script.coded, t) = LawScore(vul, level, strain, dbl, t)
      /\ Score(vul, script.coded, t) \in Int
      /\ t >= 6 + level => Score(vul, script.coded, t) > 0
      /\ t < 6 + level => Score(vul, script.coded, t) < 0
  BY <1>1, ScoreIsOfTheLaws, MadeWithTheTricks
<1>4. QED
  BY <1>2, <1>3 DEF level, strain, dbl, vul

\* The total of a part of a table is its sum over the part.
LEMMA TotalOfPart ==
  ASSUME NEW f, NEW S, Summable(f, S)
  PROVE  Total([x \in S |-> f[x]]) = SumFunctionOnSet(f, S)
<1> DEFINE g == [x \in S |-> f[x]]
<1>1. DOMAIN g = S /\ \A x \in S : f[x] = g[x]
  OBVIOUS
<1> HIDE DEF g
<1>2. SumFunctionOnSet(f, S) = SumFunctionOnSet(g, S)
  BY <1>1, SameSum
<1>3. QED
  BY <1>1, <1>2 DEF Total, SumFunction, g

\* The total of a table whose counts each weigh something.
Weighted(w, f, D) == Total([x \in D |-> w[x] * f[x]])

\* A count more is its weight more of the weighted total.
LEMMA WeightedOnce ==
  ASSUME NEW D, IsFiniteSet(D), NEW f \in [D -> Nat], NEW i \in D, NEW w \in [D -> Int]
  PROVE  /\ Weighted(w, f, D) \in Int
         /\ Weighted(w, Counted(f, i), D) = Weighted(w, f, D) + w[i]
<1> DEFINE g == Counted(f, i)
           wf == [x \in D |-> w[x] * f[x]]
           wg == [x \in D |-> w[x] * g[x]]
<1>1. ASSUME NEW x \in D
      PROVE  w[x] * f[x] \in Int /\ w[x] * g[x] = IF x = i THEN w[x] * f[x] + w[i] ELSE w[x] * f[x]
  <2>1. OneMoreAt(i, f, g, D)
    BY CountedOnce
  <2>2. w[x] \in Int /\ f[x] \in Int /\ g[x] = IF x = i THEN f[x] + 1 ELSE f[x]
    BY <2>1 DEF OneMoreAt
  <2>3. \A a, b \in Int : a * b \in Int /\ a * (b + 1) = a * b + a
    OBVIOUS
  <2> HIDE DEF g
  <2>4. QED
    BY <2>2, <2>3
<1>2. w[i] \in Int
  OBVIOUS
<1> HIDE DEF g
<1>3. ASSUME NEW x \in D
      PROVE  wf[x] \in Int /\ wg[x] \in Int /\ wg[x] = IF x = i THEN wf[x] + w[i] ELSE wf[x]
  BY <1>1, <1>2
<1>4. Summable(wf, D) /\ DOMAIN wf = D /\ DOMAIN wg = D
  BY <1>3 DEF Summable
<1>5. Weighted(w, f, D) = Total(wf) /\ Weighted(w, g, D) = Total(wg)
  BY DEF Weighted
<1> HIDE DEF wf, wg
<1>6. KMoreAt(i, w[i], wf, wg, D)
  BY <1>2, <1>3, <1>4 DEF KMoreAt, MoreAt
<1>7. Total(wf) \in Int /\ Total(wg) = Total(wf) + w[i]
  BY <1>4, <1>6, TotalOfMore, Zenon
<1>8. QED
  BY <1>5, <1>7 DEF g

-----------------------------------------------------------------------------
(* One deal more.                                                          *)

\* What is where after a deal: every table has one count more, at its place.
LEMMA Acted ==
  ASSUME ReportsTypeOK, NEW d \in ReportDeals, ActOn(d)
  PROVE  /\ UNCHANGED script /\ nprod' \in 0..MaxProduce
         /\ average' \in [count : Nat, sum : Int, sqsum : Int] /\ average'.count = average.count + 1
         /\ freq' = FreqCounted(freq, d.expr1, script.low1, script.high1)
         /\ freq2D' = Counted(freq2D, CellOf(FreqIndex(d.expr1, script.low1, script.high1),
                                             FreqIndex(d.expr2, script.low2, script.high2), Cols))
         /\ bkt1D' = Counted(bkt1D, BktId1D(d.expr1, script.low1, script.high1, script.sz1))
         /\ bkt2D' = Counted(bkt2D, CellOf(BktId1D(d.expr1, script.low1, script.high1, script.sz1),
                                           BktId1D(d.expr2, script.low2, script.high2, script.sz2), Num2))
         /\ trix' = Counted(trix, d.tricks)
         /\ actedOn' = Counted(actedOn, d)
<1>1. script \in Scripts /\ d.expr1 \in Int /\ d.expr2 \in Int /\ average \in [count : Nat, sum : Int, sqsum : Int]
  BY DEF ReportsTypeOK, ReportsAssumption
<1>2. /\ UNCHANGED script /\ nprod' \in 0..MaxProduce
      /\ average' = [count |-> average.count + 1, sum |-> average.sum + d.expr1,
                     sqsum |-> average.sqsum + d.expr1 * d.expr1]
      /\ freq' = FreqCounted(freq, d.expr1, script.low1, script.high1)
      /\ freq2D' = Counted(freq2D, Cols * FreqIndex(d.expr1, script.low1, script.high1)
                                   + FreqIndex(d.expr2, script.low2, script.high2))
      /\ bkt1D' = Counted(bkt1D, BktId1D(d.expr1, script.low1, script.high1, script.sz1))
      /\ bkt2D' = Counted(bkt2D, FindBktId(d.expr1, script.low1, script.high1, script.sz1) * Num2
                                 + FindBktId(d.expr2, script.low2, script.high2, script.sz2))
      /\ trix' = Counted(trix, d.tricks)
      /\ actedOn' = Counted(actedOn, d)
  <2>1. nprod \in Nat /\ MaxProduce \in Nat
    BY DEF ReportsTypeOK, ReportsAssumption
  <2>2. QED
    BY <2>1 DEF ActOn, Cols, Num2
<1>3. average' \in [count : Nat, sum : Int, sqsum : Int] /\ average'.count = average.count + 1
  <2>1. d.expr1 * d.expr1 \in Int
    BY <1>1, Times
  <2>2. average.count \in Nat /\ average.sum \in Int /\ average.sqsum \in Int
    BY <1>1
  <2>3. QED
    BY <1>1, <1>2, <2>1, <2>2
<1>4. /\ FindBktId(d.expr1, script.low1, script.high1, script.sz1)
           = BktId1D(d.expr1, script.low1, script.high1, script.sz1)
      /\ FindBktId(d.expr2, script.low2, script.high2, script.sz2)
           = BktId1D(d.expr2, script.low2, script.high2, script.sz2)
  <2>1. /\ script.low1 \in Int /\ script.high1 \in Int /\ script.low1 <= script.high1
        /\ script.low2 \in Int /\ script.high2 \in Int /\ script.low2 <= script.high2
        /\ script.sz1 \in Nat \ {0} /\ script.sz2 \in Nat \ {0}
    BY <1>1, Sizes
  <2>2. FindBktId(d.expr1, script.low1, script.high1, script.sz1)
          = BktId1D(d.expr1, script.low1, script.high1, script.sz1)
    BY <1>1, <2>1, SameBuckets, SMTT(30)
  <2>3. FindBktId(d.expr2, script.low2, script.high2, script.sz2)
          = BktId1D(d.expr2, script.low2, script.high2, script.sz2)
    BY <1>1, <2>1, SameBuckets, SMTT(30)
  <2>4. QED
    BY <2>2, <2>3
<1>5. Cols * FreqIndex(d.expr1, script.low1, script.high1) = FreqIndex(d.expr1, script.low1, script.high1) * Cols
  <2>1. FreqIndex(d.expr1, script.low1, script.high1) \in Int /\ Cols \in Int
    BY <1>1, Sizes DEF FreqIndex
  <2>2. \A a, b \in Int : a * b = b * a
    OBVIOUS
  <2>3. QED
    BY <2>1, <2>2
<1>6. QED
  BY <1>2, <1>3, <1>4, <1>5, Zenon DEF CellOf

\* The values of a deal have their places in the tables.
LEMMA PlacesInTables ==
  ASSUME script \in Scripts, NEW d \in ReportDeals
  PROVE  /\ d.expr1 \in Int /\ d.expr2 \in Int /\ d.tricks \in 0..13
         /\ IsFreqOf(FreqIndex(d.expr1, script.low1, script.high1), d.expr1, script.low1, script.high1)
         /\ FreqIndex(d.expr1, script.low1, script.high1) \in 0..Rows - 1
         /\ FreqIndex(d.expr2, script.low2, script.high2) \in 0..Cols - 1
         /\ IsBucketOf(BktId1D(d.expr1, script.low1, script.high1, script.sz1), d.expr1,
                       script.low1, script.sz1, Num1 - 1)
         /\ BktId1D(d.expr1, script.low1, script.high1, script.sz1) \in 0..Num1 - 1
         /\ BktId1D(d.expr2, script.low2, script.high2, script.sz2) \in 0..Num2 - 1
<1>1. d.expr1 \in Int /\ d.expr2 \in Int /\ d.tricks \in 0..13
  BY DEF ReportsAssumption
<1>2. /\ IsFreqOf(FreqIndex(d.expr1, script.low1, script.high1), d.expr1, script.low1, script.high1)
      /\ IsFreqOf(FreqIndex(d.expr2, script.low2, script.high2), d.expr2, script.low2, script.high2)
  BY <1>1, Sizes, FreqIndexWhere
<1>3. IsBucketOf(BktId1D(d.expr1, script.low1, script.high1, script.sz1), d.expr1,
                 script.low1, script.sz1, Num1 - 1)
  BY <1>1, Sizes, BktId1DWhere DEF Num1
<1>4. IsBucketOf(BktId1D(d.expr2, script.low2, script.high2, script.sz2), d.expr2,
                 script.low2, script.sz2, Num2 - 1)
  BY <1>1, Sizes, BktId1DWhere DEF Num2
<1>5. QED
  BY <1>1, <1>2, <1>3, <1>4 DEF IsFreqOf, IsBucketOf, Rows, Cols

\* A deal more keeps the invariant.
LEMMA ActStep ==
  ASSUME ReportsInv, NEW d \in ReportDeals, ActOn(d)
  PROVE  ReportsInv'
<1> DEFINE f1 == FreqIndex(d.expr1, script.low1, script.high1)
           f2 == FreqIndex(d.expr2, script.low2, script.high2)
           b1 == BktId1D(d.expr1, script.low1, script.high1, script.sz1)
           b2 == BktId1D(d.expr2, script.low2, script.high2, script.sz2)
           low == script.low1
           high == script.high1
           Name(i) == BktName(script.low1, script.sz1, i)
           After(S) == SumFunctionOnSet(actedOn', S)
<1>1. /\ script \in Scripts /\ nprod \in 0..MaxProduce
      /\ average \in [count : Nat, sum : Int, sqsum : Int]
      /\ freq \in FreqTable(low, high)
      /\ freq2D \in CellTables(Rows, Cols) /\ bkt1D \in Counters(Num1)
      /\ bkt2D \in CellTables(Num1, Num2) /\ trix \in Counters(14)
      /\ actedOn \in [ReportDeals -> Nat]
  BY DEF ReportsInv, ReportsTypeOK, Rows, Cols, Num1, Num2
<1>2. /\ UNCHANGED script /\ nprod' \in 0..MaxProduce
      /\ average' \in [count : Nat, sum : Int, sqsum : Int] /\ average'.count = average.count + 1
      /\ freq' = FreqCounted(freq, d.expr1, low, high)
      /\ freq2D' = Counted(freq2D, CellOf(f1, f2, Cols))
      /\ bkt1D' = Counted(bkt1D, b1)
      /\ bkt2D' = Counted(bkt2D, CellOf(b1, b2, Num2))
      /\ trix' = Counted(trix, d.tricks)
      /\ actedOn' = Counted(actedOn, d)
  BY Acted DEF ReportsInv
<1>3. /\ d.expr1 \in Int /\ d.expr2 \in Int /\ d.tricks \in 0..13
      /\ IsFreqOf(f1, d.expr1, low, high) /\ f1 \in 0..Rows - 1 /\ f2 \in 0..Cols - 1
      /\ IsBucketOf(b1, d.expr1, low, script.sz1, Num1 - 1) /\ b1 \in 0..Num1 - 1 /\ b2 \in 0..Num2 - 1
  BY <1>1, PlacesInTables
<1> HIDE DEF f1, f2, b1, b2
<1>4. Rows' = Rows /\ Cols' = Cols /\ Num1' = Num1 /\ Num2' = Num2
  BY <1>2 DEF Rows, Cols, Num1, Num2
<1>5. /\ low \in Int /\ high \in Int /\ low <= high
      /\ Rows \in Nat /\ Cols \in Nat /\ Num1 \in Nat /\ Num2 \in Nat
      /\ Rows >= 3 /\ Cols >= 3 /\ Num1 >= 3 /\ Num2 >= 3 /\ Rows - 1 = high - low + 2
  BY <1>1, Sizes
\* The histories.
<1>6. /\ actedOn' \in [ReportDeals -> Nat]
      /\ Total(actedOn) \in Int /\ Total(actedOn') = Total(actedOn) + 1
  BY <1>1, <1>2, CountedOnce DEF ReportsAssumption
<1>7. \A S \in SUBSET ReportDeals : Acts(S) \in Int /\ After(S) = IF d \in S THEN Acts(S) + 1 ELSE Acts(S)
  <2>1. IsFiniteSet(ReportDeals)
    BY DEF ReportsAssumption
  <2>2. SetsGrow(actedOn, actedOn', ReportDeals, d)
    BY <1>1, <1>2, <2>1, ActedOnce
  <2>3. QED
    BY <2>2 DEF Acts, SetsGrow
<1> HIDE DEF After
\* The tables.
<1>8. FreqGrows(freq, freq', d.expr1, low, high)
  BY <1>1, <1>2, <1>3, <1>5, FreqCountedOnce
<1>9. /\ freq2D' \in CellTables(Rows, Cols) /\ Total(freq2D') = Total(freq2D) + 1
      /\ RowsGrow(freq2D, freq2D', Rows, Cols, f1)
  BY <1>1, <1>2, <1>3, <1>5, CellCounted
<1>10. /\ bkt1D' \in Counters(Num1) /\ Total(bkt1D') = Total(bkt1D) + 1
       /\ OneMoreAt(b1, bkt1D, bkt1D', 0..Num1 - 1)
  <2>1. 0 \in Int /\ Num1 - 1 \in Int
    BY <1>5
  <2>2. IsFiniteSet(0..Num1 - 1)
    BY <2>1, FS_Interval, Zenon
  <2>3. QED
    BY <1>1, <1>2, <1>3, <2>2, CountedOnce DEF Counters
<1>11. /\ bkt2D' \in CellTables(Num1, Num2) /\ Total(bkt2D') = Total(bkt2D) + 1
       /\ RowsGrow(bkt2D, bkt2D', Num1, Num2, b1) /\ ColumnsGrow(bkt2D, bkt2D', Num1, Num2, b2)
  BY <1>1, <1>2, <1>3, <1>5, CellCounted
<1>12. trix' \in Counters(14) /\ Total(trix') = Total(trix) + 1
  <2> DEFINE D == 0..14 - 1
  <2>1. IsFiniteSet(D) /\ d.tricks \in D
    <3>1. D = 0..13 /\ 0 \in Int /\ 13 \in Int
      OBVIOUS
    <3> HIDE DEF D
    <3>2. QED
      BY <1>3, <3>1, FS_Interval, Zenon
  <2> HIDE DEF D
  <2>2. trix \in [D -> Nat]
    BY <1>1 DEF Counters, D
  <2>3. trix' \in [D -> Nat] /\ Total(trix') = Total(trix) + 1
    BY <1>2, <2>1, <2>2, CountedOnce
  <2>4. QED
    BY <2>3 DEF Counters, D
\* The parts of the invariant.
<1>13. ReportsTypeOK'
  <2>1. freq' \in FreqTable(low, high)
    BY <1>8 DEF FreqGrows
  <2>2. /\ script' = script /\ script \in Scripts /\ nprod' \in 0..MaxProduce
        /\ average' \in [count : Nat, sum : Int, sqsum : Int]
        /\ freq2D' \in CellTables(Rows, Cols) /\ bkt1D' \in Counters(Num1)
        /\ bkt2D' \in CellTables(Num1, Num2) /\ trix' \in Counters(14)
        /\ actedOn' \in [ReportDeals -> Nat]
    BY <1>1, <1>2, <1>6, <1>9, <1>10, <1>11, <1>12
  <2>3. QED
    BY <2>1, <2>2 DEF ReportsTypeOK, Rows, Cols, Num1, Num2
<1>14. AllCounted'
  <2>1. FreqTotal(freq) \in Int /\ FreqTotal(freq') = FreqTotal(freq) + 1
    BY <1>8 DEF FreqGrows
  <2>2. /\ average.count = Total(actedOn) /\ FreqTotal(freq) = Total(actedOn)
        /\ Total(freq2D) = Total(actedOn) /\ Total(bkt1D) = Total(actedOn)
        /\ Total(bkt2D) = Total(actedOn) /\ Total(trix) = Total(actedOn)
    BY DEF ReportsInv, AllCounted, FreqTotal
  <2>3. /\ average'.count = Total(actedOn') /\ FreqTotal(freq') = Total(actedOn')
        /\ Total(freq2D') = Total(actedOn') /\ Total(bkt1D') = Total(actedOn')
        /\ Total(bkt2D') = Total(actedOn') /\ Total(trix') = Total(actedOn')
    BY <1>2, <1>6, <1>9, <1>10, <1>11, <1>12, <2>1, <2>2
  <2>4. QED
    BY <2>3 DEF AllCounted, FreqTotal
<1>15. FreqsInPlace'
  <2>1. /\ \A v \in low..high : freq.freqs[v - low] = Acts(Equal(v))
        /\ freq.uflow = Acts(Below(low)) /\ freq.oflow = Acts(Above(high))
    BY DEF ReportsInv, FreqsInPlace
  <2>2. /\ \A v \in low..high : Equal(v) \in SUBSET ReportDeals /\ (d \in Equal(v) <=> v = d.expr1)
        /\ Below(low) \in SUBSET ReportDeals /\ (d \in Below(low) <=> d.expr1 < low)
        /\ Above(high) \in SUBSET ReportDeals /\ (d \in Above(high) <=> d.expr1 > high)
    BY DEF Equal, Below, Above
  <2>3. \A v \in low..high : freq'.freqs[v - low] = After(Equal(v))
    <3>1. ASSUME NEW v \in low..high PROVE freq'.freqs[v - low] = After(Equal(v))
      <4>1. After(Equal(v)) = IF v = d.expr1 THEN Acts(Equal(v)) + 1 ELSE Acts(Equal(v))
        BY <1>7, <2>2
      <4>2. freq'.freqs[v - low] = IF v = d.expr1 THEN freq.freqs[v - low] + 1 ELSE freq.freqs[v - low]
        BY <1>8 DEF FreqGrows
      <4>3. QED
        BY <2>1, <4>1, <4>2
    <3>2. QED
      BY <3>1
  <2>4. freq'.uflow = After(Below(low)) /\ freq'.oflow = After(Above(high))
    <3>1. /\ After(Below(low)) = IF d.expr1 < low THEN Acts(Below(low)) + 1 ELSE Acts(Below(low))
          /\ After(Above(high)) = IF d.expr1 > high THEN Acts(Above(high)) + 1 ELSE Acts(Above(high))
      BY <1>7, <2>2
    <3>2. /\ freq'.uflow = IF d.expr1 < low THEN freq.uflow + 1 ELSE freq.uflow
          /\ freq'.oflow = IF d.expr1 > high THEN freq.oflow + 1 ELSE freq.oflow
      BY <1>8 DEF FreqGrows
    <3>3. QED
      BY <2>1, <3>1, <3>2
  <2>5. QED
    BY <1>2, <2>3, <2>4 DEF FreqsInPlace, Acts, After, Equal, Below, Above
<1>16. BucketsInPlace'
  <2>1. /\ \A i \in 1..Num1 - 2 : bkt1D[i] = Acts(Between(Name(i), Name(i + 1)))
        /\ bkt1D[0] = Acts(Below(low))
        /\ bkt1D[Num1 - 1] = Acts(From(Name(Num1 - 1)))
    BY DEF ReportsInv, BucketsInPlace
  <2>2. /\ \A v, w : /\ Between(v, w) \in SUBSET ReportDeals
                     /\ d \in Between(v, w) <=> v <= d.expr1 /\ d.expr1 < w
        /\ Below(low) \in SUBSET ReportDeals /\ (d \in Below(low) <=> d.expr1 < low)
        /\ \A v : From(v) \in SUBSET ReportDeals /\ (d \in From(v) <=> d.expr1 >= v)
    BY DEF Between, Below, From
  <2>3. \A i \in 0..Num1 - 1 : bkt1D'[i] = IF i = b1 THEN bkt1D[i] + 1 ELSE bkt1D[i]
    BY <1>10 DEF OneMoreAt
  <2>4. /\ b1 = 0 <=> d.expr1 < low
        /\ b1 = Num1 - 1 <=> d.expr1 >= Name(Num1 - 1)
        /\ \A i \in 1..Num1 - 1 - 1 : b1 = i <=> Name(i) <= d.expr1 /\ d.expr1 < Name(i + 1)
    BY <1>3 DEF IsBucketOf
  <2> HIDE DEF Name
  <2>5. ASSUME NEW i \in 1..Num1 - 2
        PROVE  bkt1D'[i] = After(Between(Name(i), Name(i + 1)))
    <3>1. i \in 0..Num1 - 1 /\ i \in 1..Num1 - 1 - 1
      BY <1>5
    <3>2. b1 = i <=> d \in Between(Name(i), Name(i + 1))
      BY <2>2, <2>4, <3>1
    <3>3. QED
      BY <1>7, <2>1, <2>2, <2>3, <3>1, <3>2
  <2>6. bkt1D'[0] = After(Below(low)) /\ bkt1D'[Num1 - 1] = After(From(Name(Num1 - 1)))
    <3>1. 0 \in 0..Num1 - 1 /\ Num1 - 1 \in 0..Num1 - 1
      BY <1>5
    <3>2. b1 = 0 <=> d \in Below(low)
      BY <2>2, <2>4
    <3>3. b1 = Num1 - 1 <=> d \in From(Name(Num1 - 1))
      BY <2>2, <2>4
    <3>4. QED
      BY <1>7, <2>1, <2>2, <2>3, <3>1, <3>2, <3>3
  <2>7. QED
    BY <1>2, <1>4, <2>5, <2>6 DEF BucketsInPlace, Name, Acts, After, Between, Below, From
<1>17. RowsAgree'
  <2>1. /\ RowTotal(freq2D, Cols, 0) = freq.uflow
        /\ RowTotal(freq2D, Cols, Rows - 1) = freq.oflow
        /\ \A v \in low..high : RowTotal(freq2D, Cols, v - low + 1) = freq.freqs[v - low]
        /\ \A q \in 0..Num1 - 1 : RowTotal(bkt2D, Num2, q) = bkt1D[q]
    BY DEF ReportsInv, RowsAgree
  <2>2. /\ \A q \in 0..Rows - 1 : RowTotal(freq2D', Cols, q) =
             IF q = f1 THEN RowTotal(freq2D, Cols, q) + 1 ELSE RowTotal(freq2D, Cols, q)
        /\ \A q \in 0..Num1 - 1 : RowTotal(bkt2D', Num2, q) =
             IF q = b1 THEN RowTotal(bkt2D, Num2, q) + 1 ELSE RowTotal(bkt2D, Num2, q)
    BY <1>9, <1>11 DEF RowsGrow
  <2>3. /\ f1 = 0 <=> d.expr1 < low
        /\ f1 = Rows - 1 <=> d.expr1 > high
        /\ \A v \in low..high : f1 = v - low + 1 <=> v = d.expr1
    BY <1>3 DEF IsFreqOf, Rows
  <2>4. /\ freq'.uflow = IF d.expr1 < low THEN freq.uflow + 1 ELSE freq.uflow
        /\ freq'.oflow = IF d.expr1 > high THEN freq.oflow + 1 ELSE freq.oflow
        /\ \A v \in low..high : freq'.freqs[v - low] =
             IF v = d.expr1 THEN freq.freqs[v - low] + 1 ELSE freq.freqs[v - low]
    BY <1>8 DEF FreqGrows
  <2>5. RowTotal(freq2D', Cols, 0) = freq'.uflow /\ RowTotal(freq2D', Cols, Rows - 1) = freq'.oflow
    <3>1. 0 \in 0..Rows - 1 /\ Rows - 1 \in 0..Rows - 1
      BY <1>5
    <3>2. QED
      BY <2>1, <2>2, <2>3, <2>4, <3>1
  <2>6. ASSUME NEW v \in low..high
        PROVE  RowTotal(freq2D', Cols, v - low + 1) = freq'.freqs[v - low]
    <3>1. v - low + 1 \in 0..Rows - 1
      BY <1>5
    <3>2. RowTotal(freq2D', Cols, v - low + 1) =
            IF v = d.expr1 THEN RowTotal(freq2D, Cols, v - low + 1) + 1 ELSE RowTotal(freq2D, Cols, v - low + 1)
      BY <2>2, <2>3, <3>1
    <3>3. QED
      BY <2>1, <2>4, <3>2
  <2>7. \A q \in 0..Num1 - 1 : RowTotal(bkt2D', Num2, q) = bkt1D'[q]
    BY <1>10, <2>1, <2>2 DEF OneMoreAt
  <2>8. QED
    BY <1>2, <1>4, <2>5, <2>6, <2>7 DEF RowsAgree
<1>18. GrandTotals'
  <2>1. Total(RowTotals) = Total(actedOn) /\ Total(ColumnTotals) = Total(actedOn)
    BY DEF ReportsInv, GrandTotals
  <2>2. Total(RowTotals') = Total(RowTotals) + 1
    <3> DEFINE D == 0..Num1 - 1
    <3>1. IsFiniteSet(D)
      BY <1>5, FS_Interval, SMTT(30)
    <3>2. RowTotals = [q \in D |-> RowTotal(bkt2D, Num2, q)] /\ RowTotals' = [q \in D |-> RowTotal(bkt2D', Num2, q)]
      BY <1>4 DEF RowTotals
    <3>3. b1 \in D
      BY <1>3
    <3> HIDE DEF D
    <3>4. \A q \in D : /\ RowTotal(bkt2D, Num2, q) \in Int
                       /\ RowTotal(bkt2D', Num2, q) =
                            IF q = b1 THEN RowTotal(bkt2D, Num2, q) + 1 ELSE RowTotal(bkt2D, Num2, q)
      BY <1>11 DEF RowsGrow, D
    <3>5. RowTotals \in [D -> Int] /\ RowTotals' \in [D -> Int] /\ OneMoreAt(b1, RowTotals, RowTotals', D)
      BY <3>2, <3>4 DEF OneMoreAt
    <3>6. QED
      BY <3>1, <3>3, <3>5, TotalOfOneMore
  <2>3. Total(ColumnTotals') = Total(ColumnTotals) + 1
    <3> DEFINE D == 0..Num2 - 1
               col(t, q) == Total(Column(t, Num1, Num2, q))
    <3>1. IsFiniteSet(D)
      <4>1. 0 \in Int /\ Num2 - 1 \in Int
        BY <1>5
      <4>2. QED
        BY <4>1, FS_Interval, Zenon
    <3>2. ColumnTotals = [q \in D |-> col(bkt2D, q)] /\ ColumnTotals' = [q \in D |-> col(bkt2D', q)]
      BY <1>4 DEF ColumnTotals
    <3>3. b2 \in D
      BY <1>3
    <3>4. \A q \in D : col(bkt2D, q) \in Int /\ col(bkt2D', q) = IF q = b2 THEN col(bkt2D, q) + 1 ELSE col(bkt2D, q)
      BY <1>11 DEF ColumnsGrow
    <3> HIDE DEF D, col
    <3>5. ColumnTotals \in [D -> Int] /\ ColumnTotals' \in [D -> Int] /\ OneMoreAt(b2, ColumnTotals, ColumnTotals', D)
      BY <3>2, <3>4 DEF OneMoreAt
    <3>6. QED
      BY <3>1, <3>3, <3>5, TotalOfOneMore
  <2>4. QED
    BY <1>6, <2>1, <2>2, <2>3 DEF GrandTotals
<1>19. TricksInPlace'
  <2> DEFINE w == [t \in 0..13 |-> ContractScore(t)]
             lw == [e \in ReportDeals |-> LawfulScore(e)]
             more == w[d.tricks]
  <2>1. trix \in [0..13 -> Nat] /\ IsFiniteSet(0..13) /\ IsFiniteSet(ReportDeals)
    <3>1. 0..14 - 1 = 0..13
      OBVIOUS
    <3>2. 0 \in Int /\ 13 \in Int
      OBVIOUS
    <3>3. IsFiniteSet(0..13)
      BY <3>2, FS_Interval, Zenon
    <3>4. trix \in [0..13 -> Nat]
      BY <1>1, <3>1 DEF Counters
    <3>5. QED
      BY <3>3, <3>4
  <2>2. \A t \in 0..13 : w[t] \in Int
    BY <1>1, ScoreOfTricks
  <2>3. \A e \in ReportDeals : e.tricks \in 0..13 /\ lw[e] = w[e.tricks]
    <3>1. ASSUME NEW e \in ReportDeals PROVE e.tricks \in 0..13 /\ LawfulScore(e) = ContractScore(e.tricks)
      <4>1. e.tricks \in 0..13
        OBVIOUS
      <4>2. QED
        BY <1>1, <4>1, ScoreOfTricks DEF LawfulScore
    <3>2. QED
      BY <3>1
  <2>4. \A t : ContractScore(t)' = ContractScore(t)
    BY <1>2 DEF ContractScore
  <2>5. \A e : LawfulScore(e)' = LawfulScore(e)
    BY <1>2 DEF LawfulScore
  <2>6. /\ ScoreTotal = Total([t \in 0..13 |-> w[t] * trix[t]])
        /\ ScoreTotal' = Total([t \in 0..13 |-> w[t] * Counted(trix, d.tricks)[t]])
    <3>1. [t \in 0..13 |-> ContractScore(t) * trix[t]] = [t \in 0..13 |-> w[t] * trix[t]]
      OBVIOUS
    <3>2. [t \in 0..13 |-> ContractScore(t)' * trix'[t]] = [t \in 0..13 |-> w[t] * trix'[t]]
      BY <2>4
    <3>3. QED
      BY <1>2, <3>1, <3>2 DEF ScoreTotal, Total
  <2> HIDE DEF w
  <2>7. w \in [0..13 -> Int]
    BY <2>2 DEF w
  <2>8. ScoreTotal \in Int /\ ScoreTotal' = ScoreTotal + more
    <3> DEFINE D == 0..13
               n == d.tricks
    <3>1. n \in D /\ IsFiniteSet(D) /\ trix \in [D -> Nat] /\ w \in [D -> Int]
      BY <1>3, <2>1, <2>7
    <3>2. ScoreTotal = Weighted(w, trix, D) /\ ScoreTotal' = Weighted(w, Counted(trix, n), D)
      BY <2>6 DEF Weighted
    <3> HIDE DEF D, n
    <3>3. Weighted(w, trix, D) \in Int /\ Weighted(w, Counted(trix, n), D) = Weighted(w, trix, D) + w[n]
      BY <3>1, WeightedOnce
    <3>4. QED
      BY <3>2, <3>3 DEF n
  <2> DEFINE LawTotal == Total([e \in ReportDeals |-> LawfulScore(e) * actedOn[e]])
             LawTotalAfter == Total([e \in ReportDeals |-> lw[e] * Counted(actedOn, d)[e]])
  <2>9. LawTotal = Total([e \in ReportDeals |-> lw[e] * actedOn[e]])
    <3>1. [e \in ReportDeals |-> LawfulScore(e) * actedOn[e]] = [e \in ReportDeals |-> lw[e] * actedOn[e]]
      OBVIOUS
    <3>2. QED
      BY <3>1
  <2>10. LawTotal' = LawTotalAfter
    <3>1. [e \in ReportDeals |-> LawfulScore(e)' * actedOn'[e]] = [e \in ReportDeals |-> lw[e] * actedOn'[e]]
      BY <2>5
    <3>2. QED
      BY <1>2, <3>1 DEF Total
  <2>11. lw \in [ReportDeals -> Int] /\ lw[d] = more
    BY <2>2, <2>3
  <2> HIDE DEF lw, more
  <2>12. LawTotalAfter = LawTotal + more
    <3>1. /\ d \in ReportDeals /\ IsFiniteSet(ReportDeals) /\ actedOn \in [ReportDeals -> Nat]
          /\ lw \in [ReportDeals -> Int]
      BY <1>1, <2>1, <2>11
    <3>2. Weighted(lw, Counted(actedOn, d), ReportDeals) = Weighted(lw, actedOn, ReportDeals) + lw[d]
      BY <3>1, WeightedOnce
    <3>3. LawTotal = Weighted(lw, actedOn, ReportDeals) /\ LawTotalAfter = Weighted(lw, Counted(actedOn, d), ReportDeals)
      BY <2>9 DEF Weighted
    <3>4. QED
      BY <2>11, <3>2, <3>3
  <2>13. ScoreTotal = LawTotal /\ nprod = Total(actedOn) /\ SumFunctionOnSet(trix, Good) = Acts(MadeDeals)
    BY DEF ReportsInv, TricksInPlace
  <2>14. ScoreTotal' = LawTotal'
    <3> HIDE DEF LawTotal, LawTotalAfter
    <3>1. QED
      BY <2>8, <2>10, <2>12, <2>13
  <2>15. SetsGrow(trix, trix', 0..13, d.tricks)
    BY <1>2, <1>3, <2>1, ActedOnce
  <2>16. /\ Good \in SUBSET (0..13) /\ MadeDeals \in SUBSET ReportDeals
         /\ (d.tricks \in Good <=> d \in MadeDeals)
         /\ Good' = Good /\ MadeDeals' = MadeDeals
    BY <1>2, <1>3 DEF Good, MadeDeals
  <2>17. SumFunctionOnSet(trix', Good) = After(MadeDeals)
    <3>1. /\ SumFunctionOnSet(trix, Good) \in Int
          /\ SumFunctionOnSet(trix', Good)
               = SumFunctionOnSet(trix, Good) + (IF d.tricks \in Good THEN 1 ELSE 0)
      BY <2>15, <2>16 DEF SetsGrow
    <3>2. /\ Acts(MadeDeals) \in Int
          /\ After(MadeDeals) = IF d \in MadeDeals THEN Acts(MadeDeals) + 1 ELSE Acts(MadeDeals)
      BY <1>7, <2>16
    <3>3. QED
      BY <2>13, <2>16, <3>1, <3>2
  <2>18. nprod' = Total(actedOn')
    BY <1>6, <2>13 DEF ActOn
  <2>19. (SumFunctionOnSet(trix, Good) = Acts(MadeDeals))'
    BY <2>16, <2>17 DEF Acts, After
  <2>20. QED
    BY <2>14, <2>18, <2>19 DEF TricksInPlace
<1>20. QED
  BY <1>13, <1>14, <1>15, <1>16, <1>17, <1>18, <1>19 DEF ReportsInv

\* Empty tables: their totals, their rows and their columns are 0.
LEMMA NoCounts ==
  ASSUME NEW R \in Nat, NEW C \in Nat
  PROVE  /\ Zeros(R) \in Counters(R) /\ Total(Zeros(R)) = 0 /\ \A i \in 0..R - 1 : Zeros(R)[i] = 0
         /\ Zeros(R * C) \in CellTables(R, C) /\ Total(Zeros(R * C)) = 0
         /\ \A r \in 0..R - 1 : RowTotal(Zeros(R * C), C, r) = 0
         /\ \A c \in 0..C - 1 : Total(Column(Zeros(R * C), R, C, c)) = 0
<1>1. ASSUME NEW n \in Nat
      PROVE  Zeros(n) \in Counters(n) /\ Total(Zeros(n)) = 0 /\ \A i \in 0..n - 1 : Zeros(n)[i] = 0
  <2> DEFINE D == 0..n - 1
             z == Zeros(n)
  <2>1. IsFiniteSet(D)
    <3>1. 0 \in Int /\ n - 1 \in Int
      OBVIOUS
    <3>2. QED
      BY <3>1, FS_Interval, Zenon
  <2>2. z \in Counters(n) /\ DOMAIN z = D /\ \A x \in D : z[x] = 0
    BY DEF Zeros, Counters
  <2> HIDE DEF D, z
  <2>3. Total(z) = 0
    BY <2>1, <2>2, NothingCounted
  <2>4. QED
    BY <2>2, <2>3 DEF z, D
<1>2. R * C \in Nat
  BY Times
<1> DEFINE N == R * C
           z == Zeros(N)
<1>3. \A r \in 0..R - 1, c \in 0..C - 1 : z[r * C + c] = 0
  <2>1. \A r \in 0..R - 1, c \in 0..C - 1 : r * C + c \in 0..N - 1
    BY CellsOfTable
  <2>2. \A x \in 0..N - 1 : z[x] = 0
    BY <1>1, <1>2
  <2> HIDE DEF z, N
  <2>3. QED
    BY <2>1, <2>2
<1>4. IsFiniteSet(0..R - 1) /\ IsFiniteSet(0..C - 1)
  BY FS_Interval, SMTT(30)
<1> HIDE DEF z
<1>5. ASSUME NEW r \in 0..R - 1 PROVE RowTotal(z, C, r) = 0
  <2> DEFINE D == 0..C - 1
             f == [c \in D |-> z[r * C + c]]
  <2>1. DOMAIN f = D /\ \A c \in D : f[c] = 0
    BY <1>3
  <2> HIDE DEF f
  <2>2. Total(f) = 0
    BY <1>4, <2>1, NothingCounted
  <2>3. QED
    BY <2>2 DEF f, RowTotal
<1>6. ASSUME NEW c \in 0..C - 1 PROVE Total(Column(z, R, C, c)) = 0
  <2> DEFINE D == 0..R - 1
             f == [r \in D |-> z[r * C + c]]
  <2>1. DOMAIN f = D /\ \A r \in D : f[r] = 0
    BY <1>3
  <2> HIDE DEF f
  <2>2. Total(f) = 0
    BY <1>4, <2>1, NothingCounted
  <2>3. QED
    BY <2>2 DEF f, Column
<1>7. z \in CellTables(R, C) /\ Total(z) = 0
  BY <1>1, <1>2 DEF z, CellTables
<1>8. QED
  BY <1>1, <1>5, <1>6, <1>7 DEF z

\* The tables of a run that begins satisfy the invariant.
LEMMA ReportsStart == ReportsInit => ReportsInv
<1>1. SUFFICES ASSUME ReportsInit PROVE ReportsInv
  OBVIOUS
<1>2. script \in Scripts
  BY <1>1 DEF ReportsInit
<1> DEFINE low == script.low1
           high == script.high1
           n == high - low + 1
<1>3. /\ low \in Int /\ high \in Int /\ low <= high
      /\ Rows \in Nat /\ Cols \in Nat /\ Num1 \in Nat /\ Num2 \in Nat
      /\ Rows >= 3 /\ Cols >= 3 /\ Num1 >= 3 /\ Num2 >= 3 /\ Rows - 1 = high - low + 2 /\ n \in Nat
  BY <1>2, Sizes
<1>4. /\ nprod = 0 /\ average = [count |-> 0, sum |-> 0, sqsum |-> 0]
      /\ freq = [uflow |-> 0, oflow |-> 0, freqs |-> Zeros(n)]
      /\ freq2D = Zeros(Rows * Cols) /\ bkt1D = Zeros(Num1) /\ bkt2D = Zeros(Num1 * Num2)
      /\ trix = Zeros(14) /\ actedOn = [d \in ReportDeals |-> 0]
  BY <1>1 DEF ReportsInit, Rows, Cols, Num1, Num2
<1> HIDE DEF n
<1>5. /\ freq2D \in CellTables(Rows, Cols) /\ Total(freq2D) = 0
      /\ \A r \in 0..Rows - 1 : RowTotal(freq2D, Cols, r) = 0
  BY <1>3, <1>4, NoCounts
<1>6. bkt1D \in Counters(Num1) /\ Total(bkt1D) = 0 /\ \A i \in 0..Num1 - 1 : bkt1D[i] = 0
  BY <1>3, <1>4, NoCounts
<1>7. /\ bkt2D \in CellTables(Num1, Num2) /\ Total(bkt2D) = 0
      /\ \A r \in 0..Num1 - 1 : RowTotal(bkt2D, Num2, r) = 0
      /\ \A c \in 0..Num2 - 1 : Total(Column(bkt2D, Num1, Num2, c)) = 0
  BY <1>3, <1>4, NoCounts
<1>8. trix \in Counters(14) /\ Total(trix) = 0
  BY <1>4, NoCounts
<1>9. /\ freq \in FreqTable(low, high) /\ freq.uflow = 0 /\ freq.oflow = 0
      /\ Total(freq.freqs) = 0 /\ \A v \in low..high : freq.freqs[v - low] = 0
  <2> DEFINE z == Zeros(n)
  <2>1. z \in Counters(n) /\ Total(z) = 0 /\ \A i \in 0..n - 1 : z[i] = 0
    BY <1>3, NoCounts
  <2>2. \A v \in low..high : v - low \in 0..n - 1
    BY <1>3 DEF n
  <2> HIDE DEF z
  <2>3. freq.uflow = 0 /\ freq.oflow = 0 /\ freq.freqs = z /\ freq \in [uflow : Nat, oflow : Nat, freqs : Counters(n)]
    BY <1>4, <2>1 DEF z
  <2>4. QED
    BY <2>1, <2>2, <2>3 DEF FreqTable, n
<1>10. /\ actedOn \in [ReportDeals -> Nat] /\ Total(actedOn) = 0
       /\ \A S \in SUBSET ReportDeals : Acts(S) = 0
  <2>1. IsFiniteSet(ReportDeals)
    OBVIOUS
  <2>2. DOMAIN actedOn = ReportDeals /\ \A d \in ReportDeals : actedOn[d] = 0
    BY <1>4
  <2>3. Total(actedOn) = 0
    BY <2>1, <2>2, NothingCounted
  <2>4. ASSUME NEW S \in SUBSET ReportDeals PROVE SumFunctionOnSet(actedOn, S) = 0
    <3>1. IsFiniteSet(S) /\ \A d \in S : actedOn[d] = 0
      BY <2>1, <2>2, FS_Subset
    <3>2. QED
      BY <3>1, SumOfZeros
  <2>5. QED
    BY <1>4, <2>3, <2>4 DEF Acts
<1>11. ReportsTypeOK
  <2>1. nprod \in 0..MaxProduce /\ average \in [count : Nat, sum : Int, sqsum : Int]
    BY <1>4
  <2>2. QED
    BY <1>2, <1>5, <1>6, <1>7, <1>8, <1>9, <1>10, <2>1 DEF ReportsTypeOK, Rows, Cols, Num1, Num2
<1>12. AllCounted
  BY <1>4, <1>5, <1>6, <1>7, <1>8, <1>9, <1>10 DEF AllCounted
<1>13. FreqsInPlace
  <2>1. /\ \A v : Equal(v) \in SUBSET ReportDeals
        /\ Below(low) \in SUBSET ReportDeals /\ Above(high) \in SUBSET ReportDeals
    BY DEF Equal, Below, Above
  <2>2. QED
    BY <1>9, <1>10, <2>1 DEF FreqsInPlace
<1>14. BucketsInPlace
  <2>1. /\ \A v, w : Between(v, w) \in SUBSET ReportDeals
        /\ Below(low) \in SUBSET ReportDeals /\ \A v : From(v) \in SUBSET ReportDeals
    BY DEF Between, Below, From
  <2>2. 0 \in 0..Num1 - 1 /\ Num1 - 1 \in 0..Num1 - 1 /\ \A i \in 1..Num1 - 2 : i \in 0..Num1 - 1
    BY <1>3
  <2>3. QED
    BY <1>6, <1>10, <2>1, <2>2 DEF BucketsInPlace
<1>15. RowsAgree
  <2>1. 0 \in 0..Rows - 1 /\ Rows - 1 \in 0..Rows - 1 /\ \A v \in low..high : v - low + 1 \in 0..Rows - 1
    BY <1>3
  <2>2. QED
    BY <1>5, <1>6, <1>7, <1>9, <2>1 DEF RowsAgree
<1>16. GrandTotals
  <2>1. Total(RowTotals) = 0
    <3> DEFINE D == 0..Num1 - 1
    <3>1. IsFiniteSet(D)
      BY <1>3, FS_Interval, SMTT(30)
    <3>2. DOMAIN RowTotals = D /\ \A r \in D : RowTotals[r] = 0
      BY <1>7 DEF RowTotals
    <3> HIDE DEF D
    <3>3. QED
      BY <3>1, <3>2, NothingCounted
  <2>2. Total(ColumnTotals) = 0
    <3> DEFINE D == 0..Num2 - 1
    <3>1. IsFiniteSet(D)
      BY <1>3, FS_Interval, SMTT(30)
    <3>2. DOMAIN ColumnTotals = D /\ \A c \in D : ColumnTotals[c] = 0
      BY <1>7 DEF ColumnTotals
    <3> HIDE DEF D
    <3>3. QED
      BY <3>1, <3>2, NothingCounted
  <2>3. QED
    BY <1>10, <2>1, <2>2 DEF GrandTotals
<1>17. TricksInPlace
  <2>1. \A t \in 0..13 : trix[t] = 0
    BY <1>4 DEF Zeros
  <2>2. SumFunctionOnSet(trix, Good) = 0
    <3>1. Good \subseteq 0..13 /\ IsFiniteSet(0..13)
      <4>1. 0 \in Int /\ 13 \in Int
        OBVIOUS
      <4>2. IsFiniteSet(0..13)
        BY <4>1, FS_Interval, Zenon
      <4>3. QED
        BY <4>2 DEF Good
    <3>2. IsFiniteSet(Good) /\ \A t \in Good : trix[t] = 0
      BY <2>1, <3>1, FS_Subset
    <3>3. QED
      BY <3>2, SumOfZeros
  <2>3. Acts(MadeDeals) = 0
    BY <1>10 DEF MadeDeals
  <2>4. ScoreTotal = 0
    <3> DEFINE f == [t \in Tricks |-> ContractScore(t) * trix[t]]
               D == 0..13
    <3>1. IsFiniteSet(D) /\ DOMAIN f = D
      <4>1. 0 \in Int /\ 13 \in Int
        OBVIOUS
      <4>2. IsFiniteSet(0..13)
        BY <4>1, FS_Interval, Zenon
      <4>3. QED
        BY <4>2
    <3>2. \A t \in D : ContractScore(t) * trix[t] = 0
      <4>1. \A t \in D : ContractScore(t) \in Int
        BY <1>2, ScoreOfTricks
      <4>2. \A a \in Int : a * 0 = 0
        OBVIOUS
      <4>3. QED
        BY <2>1, <4>1, <4>2
    <3>3. \A t \in D : f[t] = 0
      BY <3>2
    <3> HIDE DEF f, D
    <3>4. Total(f) = 0
      BY <3>1, <3>3, NothingCounted
    <3>5. QED
      BY <3>4 DEF f, ScoreTotal
  <2>5. Total([d \in ReportDeals |-> LawfulScore(d) * actedOn[d]]) = 0
    <3> DEFINE f == [d \in ReportDeals |-> LawfulScore(d) * actedOn[d]]
    <3>1. IsFiniteSet(ReportDeals) /\ DOMAIN f = ReportDeals
      OBVIOUS
    <3>2. \A d \in ReportDeals : LawfulScore(d) \in Int
      <4>1. \A d \in ReportDeals : d.tricks \in 0..13
        OBVIOUS
      <4>2. QED
        BY <1>2, <4>1, ScoreOfTricks DEF LawfulScore
    <3>3. \A d \in ReportDeals : f[d] = 0
      <4>1. \A a \in Int : a * 0 = 0
        OBVIOUS
      <4>2. QED
        BY <1>4, <3>2, <4>1
    <3> HIDE DEF f
    <3>4. Total(f) = 0
      BY <3>1, <3>3, NothingCounted
    <3>5. QED
      BY <3>4 DEF f
  <2>6. QED
    BY <1>4, <1>10, <2>2, <2>3, <2>4, <2>5 DEF TricksInPlace
<1>18. QED
  BY <1>11, <1>12, <1>13, <1>14, <1>15, <1>16, <1>17 DEF ReportsInv

\* A step that reports nothing changes no table.
LEMMA ReportsStutter ==
  ASSUME ReportsInv, UNCHANGED reportVars
  PROVE  ReportsInv'
<1> USE DEF reportVars
<1>1. (ReportsTypeOK /\ AllCounted)'
  BY DEF ReportsInv, ReportsTypeOK, AllCounted, Total
<1>2. (FreqsInPlace /\ BucketsInPlace)'
  BY DEF ReportsInv, FreqsInPlace, BucketsInPlace, Acts, Equal, Below, Above, From, Between, Num1
<1>3. (RowsAgree /\ GrandTotals)'
  BY DEF ReportsInv, RowsAgree, GrandTotals, RowTotals, ColumnTotals, RowTotal, Column, Total, Rows, Cols, Num1, Num2
<1>4. TricksInPlace'
  BY DEF ReportsInv, TricksInPlace, Good, MadeDeals, ScoreTotal, ContractScore, LawfulScore, Acts, Total
<1>5. QED
  BY <1>1, <1>2, <1>3, <1>4 DEF ReportsInv

\* The invariant holds of every run of the actions, whatever deals they act
\* on: what the tables count is what was acted on.
THEOREM ReportsIsInductive == ReportsSpec => []ReportsInv
<1>1. ReportsInv /\ [ReportsNext]_reportVars => ReportsInv'
  BY ActStep, ReportsStutter DEF ReportsNext
<1>2. QED
  BY ReportsStart, <1>1, PTL DEF ReportsSpec

\* Every counter is one of its table, of any bounds and size.
THEOREM ReportsTypeCorrect == ReportsSpec => []ReportsTypeOK
<1>1. ReportsInv => ReportsTypeOK
  BY DEF ReportsInv
<1>2. QED
  BY ReportsIsInductive, <1>1, PTL

-----------------------------------------------------------------------------
(* The properties.                                                         *)

\* Each action of the list counts every deal it acts on once, in the counter
\* printed beside its value (action, upd_bkt1D), for any bounds of the script.
THEOREM EveryDealInItsCounter == ReportsSpec => []CountedWhereItBelongs
<1>1. ReportsInv => CountedWhereItBelongs
  <2>1. SUFFICES ASSUME ReportsInv PROVE CountedWhereItBelongs
    OBVIOUS
  <2>2. /\ average.count = Total(actedOn)
        /\ freq.uflow + freq.oflow + Total(freq.freqs) = Total(actedOn)
        /\ Total(freq2D) = Total(actedOn) /\ Total(bkt1D) = Total(actedOn)
        /\ Total(bkt2D) = Total(actedOn) /\ Total(trix) = Total(actedOn)
    BY <2>1 DEF ReportsInv, AllCounted
  <2>3. /\ \A v \in script.low1..script.high1 : freq.freqs[v - script.low1] = Acts(Equal(v))
        /\ freq.uflow = Acts(Below(script.low1)) /\ freq.oflow = Acts(Above(script.high1))
    BY <2>1 DEF ReportsInv, FreqsInPlace
  <2>4. /\ \A i \in 1..Num1 - 2 : bkt1D[i] = Acts(Between(BktName(script.low1, script.sz1, i),
                                                          BktName(script.low1, script.sz1, i + 1)))
        /\ bkt1D[0] = Acts(Below(script.low1))
        /\ bkt1D[Num1 - 1] = Acts(From(BktName(script.low1, script.sz1, Num1 - 1)))
    BY <2>1 DEF ReportsInv, BucketsInPlace
  <2>5. (Num1 - 1) - 1 = Num1 - 2
    <3>1. script \in Scripts
      BY <2>1 DEF ReportsInv, ReportsTypeOK
    <3>2. QED
      BY <3>1, Sizes
  <2>6. QED
    BY <2>2, <2>3, <2>4, <2>5 DEF CountedWhereItBelongs, ActedOn, Acts, Equal, Below, Above, From, Between, Num1
<1>2. QED
  BY ReportsIsInductive, <1>1, PTL

\* The tables of two expressions have the tables of one for their margins, and
\* the totals that show_freq2D prints are those of the columns, with the grand
\* total of the rows.
THEOREM MarginsAgree == ReportsSpec => []TablesAgree
<1>1. ReportsInv => TablesAgree
  <2>1. SUFFICES ASSUME ReportsInv PROVE TablesAgree
    OBVIOUS
  <2>2. script \in Scripts /\ bkt2D \in CellTables(Num1, Num2) /\ bkt1D \in Counters(Num1)
    BY <2>1 DEF ReportsInv, ReportsTypeOK, Num1, Num2
  <2>3. /\ script.low1 \in Int /\ script.high1 \in Int /\ script.low1 <= script.high1
        /\ Num1 \in Nat /\ Num2 \in Nat /\ Rows \in Nat /\ Rows - 1 = script.high1 - script.low1 + 2
    BY <2>2, Sizes
  <2>4. ColTotals(bkt2D, Num1, Num2) = ColumnTotals
    BY <2>2, <2>3, ColTotalsAreSums DEF ColumnTotals
  <2>5. \A c \in 0..Num2 - 1 : ColumnTotals[c] = Total([r \in 0..Num1 - 1 |-> bkt2D[r * Num2 + c]])
    BY DEF ColumnTotals, Column
  <2>6. Total(ColumnTotals) = Total([r \in 0..Num1 - 1 |-> RowTotal(bkt2D, Num2, r)])
    BY <2>1 DEF ReportsInv, GrandTotals, RowTotals
  <2>7. /\ RowTotal(freq2D, Cols, 0) = freq.uflow
        /\ RowTotal(freq2D, Cols, Rows - 1) = freq.oflow
        /\ \A v \in script.low1..script.high1 :
             RowTotal(freq2D, Cols, v - script.low1 + 1) = freq.freqs[v - script.low1]
        /\ \A r \in 0..Num1 - 1 : RowTotal(bkt2D, Num2, r) = bkt1D[r]
    BY <2>1 DEF ReportsInv, RowsAgree
  <2>8. ASSUME NEW r \in 1..Rows - 2 PROVE RowTotal(freq2D, Cols, r) = freq.freqs[r - 1]
    <3> DEFINE v == r - 1 + script.low1
    <3>1. v \in script.low1..script.high1 /\ v - script.low1 = r - 1 /\ v - script.low1 + 1 = r
      BY <2>3
    <3>2. QED
      BY <2>7, <3>1
  <2>9. DOMAIN bkt1D = 0..Num1 - 1
    BY <2>2 DEF Counters
  <2>10. QED
    BY <2>4, <2>5, <2>6, <2>7, <2>8, <2>9 DEF TablesAgree, Rows, Cols, Num1, Num2
<1>2. QED
  BY ReportsIsInductive, <1>1, PTL

\* What scores more than the first row of the table is worth an IMP or more.
LEMMA WorthAnImp ==
  ASSUME NEW j \in Int, j > 10
  PROVE  Imps(j) \in Nat /\ Imps(j) >= 1
BY ImpRows DEF Imps, Abs

\* A loss of one or more each adds up to no less than their number.
LEMMA OneOrMoreEach ==
  ASSUME NEW S, IsFiniteSet(S), NEW f \in [S -> Nat], NEW m \in [S -> Nat], \A x \in S : m[x] >= 1
  PROVE  Total([x \in S |-> f[x] * m[x]]) >= Total([x \in S |-> f[x]])
<1> DEFINE a == [x \in S |-> f[x]]
           b == [x \in S |-> f[x] * m[x]]
<1>1. \A x \in S : f[x] \in Nat /\ f[x] * m[x] \in Nat /\ f[x] <= f[x] * m[x]
  <2>1. \A k, n \in Nat : n >= 1 => k * n \in Nat /\ k <= k * n
    OBVIOUS
  <2>2. QED
    BY <2>1
<1>2. /\ DOMAIN a = S /\ DOMAIN b = S
      /\ \A x \in S : a[x] \in Int /\ b[x] \in Int /\ a[x] <= b[x]
  BY <1>1
<1> HIDE DEF a, b
<1>3. Summable(a, S) /\ Summable(b, S)
  BY <1>2 DEF Summable
<1>4. /\ SumFunctionOnSet(a, S) \in Int /\ SumFunctionOnSet(b, S) \in Int
      /\ SumFunctionOnSet(a, S) <= SumFunctionOnSet(b, S)
  BY <1>2, <1>3, SumOnSet, SumsInOrder
<1>5. Total(b) >= Total(a)
  BY <1>2, <1>4 DEF Total, SumFunction
<1>6. QED
  BY <1>5 DEF a, b

\* The losses that showevalcontract reports for a game not bid are an IMP or
\* more for each deal on which it was missed.
LEMMA GamesMissed ==
  ASSUME ReportsInv
  PROVE  MissedGameImps >= MissedGames
<1> DEFINE s == Strain(script.coded)
           l == Level(script.coded)
           v == script.vul
           g == GameLevel(s)
           S == {n \in Tricks : n >= GameLevel(s) + 6}
           m == [t \in S |-> Imps(Gain(v, s, g, l, t))]
           table == [t \in S |-> trix[t]]
<1>1. script \in Scripts /\ trix \in [Tricks -> Nat]
  <2>1. 0..14 - 1 = Tricks
    BY DEF Tricks
  <2>2. QED
    BY <2>1 DEF ReportsInv, ReportsTypeOK, Counters
<1>2. l \in Levels /\ s \in Denominations /\ v \in Vuls
  BY <1>1, TheContract
<1>3. CASE l < g
  <2>1. IsFiniteSet(S) /\ S \subseteq Tricks
    <3>1. 0 \in Int /\ 13 \in Int
      OBVIOUS
    <3>2. IsFiniteSet(0..13)
      BY <3>1, FS_Interval, Zenon
    <3>3. QED
      BY <3>2, FS_Subset DEF Tricks
  <2>2. table \in [S -> Nat]
    BY <1>1, <2>1
  <2>3. ASSUME NEW t \in S PROVE Imps(Gain(v, s, g, l, t)) \in Nat /\ Imps(Gain(v, s, g, l, t)) >= 1
    <3>1. t \in Tricks /\ t >= g + 6
      OBVIOUS
    <3> HIDE DEF s, l, v
    <3>2. Gain(v, s, g, l, t) \in Int /\ Gain(v, s, g, l, t) > 10
      BY <1>2, <1>3, <3>1, BidMore
    <3> DEFINE won == Gain(v, s, g, l, t)
    <3> HIDE DEF won
    <3>3. won \in Int /\ won > 10
      BY <3>2 DEF won
    <3>4. Imps(won) \in Nat /\ Imps(won) >= 1
      BY <3>3, WorthAnImp
    <3>5. QED
      BY <3>4 DEF won
  <2>4. m \in [S -> Nat] /\ \A t \in S : m[t] >= 1
    BY <2>3
  <2>5. /\ MissedGames = Total([t \in S |-> table[t]])
        /\ MissedGameImps = Total([t \in S |-> table[t] * m[t]])
    <3>1. MissedGames = Total([t \in S |-> trix[t]])
      BY <1>3 DEF MissedGames
    <3>2. MissedGameImps = Total([t \in S |-> trix[t] * Imps(Gain(v, s, g, l, t))])
      BY <1>3 DEF MissedGameImps, Gain
    <3>3. /\ [t \in S |-> trix[t]] = [t \in S |-> table[t]]
          /\ [t \in S |-> trix[t] * Imps(Gain(v, s, g, l, t))] = [t \in S |-> table[t] * m[t]]
      OBVIOUS
    <3>4. QED
      BY <3>1, <3>2, <3>3
  <2> HIDE DEF S, m, table
  <2>6. Total([t \in S |-> table[t] * m[t]]) >= Total([t \in S |-> table[t]])
    BY <2>1, <2>2, <2>4, OneOrMoreEach
  <2>7. QED
    BY <2>5, <2>6
<1>4. CASE ~(l < g)
  BY <1>4 DEF MissedGames, MissedGameImps
<1>5. QED
  BY <1>3, <1>4

\* So are those for a slam not bid, on the deals with twelve tricks and with
\* thirteen.
LEMMA SlamsMissed ==
  ASSUME ReportsInv, Level(script.coded) < 6
  PROVE  MissedSlamImps >= trix[12] + trix[13]
<1> DEFINE s == Strain(script.coded)
           l == Level(script.coded)
           v == script.vul
           small == Imps(Gain(v, s, 6, l, 6 + 6))
           grand == Imps(Gain(v, s, 7, l, 6 + 7))
<1>1. script \in Scripts /\ trix[12] \in Nat /\ trix[13] \in Nat
  BY DEF ReportsInv, ReportsTypeOK, Counters
<1>2. l \in Levels /\ s \in Denominations /\ v \in Vuls
  BY <1>1, TheContract
<1>3. MissedSlamImps = trix[12] * small + trix[13] * grand
  BY DEF MissedSlamImps, Gain
<1>4. ASSUME NEW n \in 6..7
      PROVE  Imps(Gain(v, s, n, l, 6 + n)) \in Nat /\ Imps(Gain(v, s, n, l, 6 + n)) >= 1
  <2>1. l < 6
    OBVIOUS
  <2> DEFINE won == Gain(v, s, n, l, 6 + n)
  <2> HIDE DEF s, l, v
  <2>2. won \in Int /\ won > 10
    BY <1>2, <2>1, BidMore
  <2> HIDE DEF won
  <2>3. Imps(won) \in Nat /\ Imps(won) >= 1
    BY <2>2, WorthAnImp
  <2>4. QED
    BY <2>3 DEF won
<1> HIDE DEF s, l, v
<1>5. small \in Nat /\ small >= 1 /\ grand \in Nat /\ grand >= 1
  BY <1>4
<1> HIDE DEF small, grand
<1>6. \A k, n \in Nat : n >= 1 => k * n \in Nat /\ k <= k * n
  OBVIOUS
<1>7. /\ trix[12] * small \in Nat /\ trix[12] <= trix[12] * small
      /\ trix[13] * grand \in Nat /\ trix[13] <= trix[13] * grand
  BY <1>1, <1>5, <1>6
<1>8. QED
  BY <1>1, <1>3, <1>7

\* On each deal the contract is made or fails, it is made with the tricks it
\* needs, the total score is that of the laws, and what was not bid costs an
\* IMP or more each time (showevalcontract), whatever the contract.
THEOREM ContractsMakeOrFail == ReportsSpec => []MadeOrFailed
<1>1. ASSUME ReportsInv PROVE MadeOrFailed
  <2>1. script \in Scripts /\ trix \in [Tricks -> Nat] /\ Total(trix) = Total(actedOn)
    <3>1. 0..14 - 1 = Tricks
      BY DEF Tricks
    <3>2. QED
      BY <1>1, <3>1 DEF ReportsInv, ReportsTypeOK, Counters, AllCounted
  <2>2. Summable(trix, Tricks)
    <3>1. 0 \in Int /\ 13 \in Int
      OBVIOUS
    <3>2. IsFiniteSet(0..13)
      BY <3>1, FS_Interval, Zenon
    <3>3. QED
      BY <2>1, <3>2 DEF Summable, Tricks
  <2>3. Good \in SUBSET Tricks
    BY DEF Good
  <2>4. Successes = SumFunctionOnSet(trix, Good)
    <3>1. {n \in Tricks : ContractScore(n) > 0} = Good
      <4>1. \A n \in Tricks : ContractScore(n) > 0 <=> n >= 6 + Level(script.coded)
        BY <2>1, TheContract, ScoreOfTricks DEF Levels, Tricks
      <4>2. QED
        BY <4>1 DEF Good
    <3>2. Summable(trix, Good)
      BY <2>2, <2>3, SummableSubset
    <3>3. QED
      BY <3>1, <3>2, TotalOfPart DEF Successes
  <2> DEFINE Bad == Tricks \ Good
  <2>5. Failures = SumFunctionOnSet(trix, Bad)
    <3>1. {n \in Tricks : ContractScore(n) < 0} = Bad
      <4>1. \A n \in Tricks : ContractScore(n) < 0 <=> ~(n >= 6 + Level(script.coded))
        BY <2>1, TheContract, ScoreOfTricks DEF Levels, Tricks
      <4>2. QED
        BY <4>1 DEF Good
    <3>2. Summable(trix, Bad)
      BY <2>2, SummableSubset
    <3> HIDE DEF Bad
    <3>3. QED
      BY <3>1, <3>2, TotalOfPart DEF Failures
  <2>6. Successes + Failures = nprod
    <3>1. Good \cup Bad = Tricks /\ Good \cap Bad = {} /\ Bad \in SUBSET Tricks
      BY <2>3
    <3> HIDE DEF Bad
    <3>2. SumFunctionOnSet(trix, Tricks) = SumFunctionOnSet(trix, Good) + SumFunctionOnSet(trix, Bad)
      BY <2>2, <2>3, <3>1, SumOfBoth
    <3>3. Total(trix) = SumFunctionOnSet(trix, Tricks)
      BY <2>1 DEF Total, SumFunction
    <3>4. nprod = Total(actedOn)
      BY <1>1 DEF ReportsInv, TricksInPlace
    <3>5. QED
      BY <2>1, <2>4, <2>5, <3>2, <3>3, <3>4
  <2>7. /\ Successes = ActedOn(LAMBDA d : d.tricks >= 6 + Level(script.coded))
        /\ ScoreTotal = Total([d \in ReportDeals |-> LawfulScore(d) * actedOn[d]])
    BY <1>1, <2>4 DEF ReportsInv, TricksInPlace, ActedOn, Acts, MadeDeals
  <2>8. MissedGameImps >= MissedGames
    BY <1>1, GamesMissed
  <2>9. Level(script.coded) < 6 => MissedSlamImps >= trix[12] + trix[13]
    BY <1>1, SlamsMissed
  <2>10. QED
    BY <2>6, <2>7, <2>8, <2>9 DEF MadeOrFailed
<1>2. QED
  BY ReportsIsInductive, <1>1, PTL

-----------------------------------------------------------------------------
(* The answers of dop and GIB.                                             *)

HIDE ReportsAssumption DEF Tricks
USE CalcAssumption DEF CalcAssumption, Missing, Junk

-----------------------------------------------------------------------------
\* The right answer to a question of each kind.
LEMMA ResultOf ==
  /\ \A side \in Sides, f \in Fields : \A d :
        /\ <<"opc", side, f>> \in Questions
        /\ Result(<<"opc", side, f>>, d) = {Opc(side, f, d)}
  /\ \A h \in Hands, s \in Strains : \A d :
        /\ <<"tricks", h, s>> \in Questions /\ <<h, s>> \in Cells
        /\ Result(<<"tricks", h, s>>, d) = {<<h, s, d>>}
BY DEF Questions, Result, Cells

\* What is kept of a side or a hand has the type of what may be.
LEMMA ValueTypes ==
  ASSUME NEW d \in Int
  PROVE  /\ \A side \in Sides, f \in Fields : Opc(side, f, d) \in Int \X Int \X Int
         /\ NoValue \in Int \X Int \X Int
BY DEF Opc, NoValue, Sides, Fields

\* A run starts with empty caches for no deal.
LEMMA InitInv == Init => IInv
BY ValueTypes DEF Init, IInv, TypeOK, CachesCoherent, AnswerIsCurrent

\* dop was run: what it printed is of this deal, all of it unless it failed.
LEMMA Scanned ==
  ASSUME TypeOK, NEW side \in Sides, GetOpcVals(side)
  PROVE  /\ opcRes' \in [Fields -> Int \X Int \X Int]
         /\ failed' \in {failed, ngen}
         /\ failed' # ngen => \A f \in Fields : opcRes'[f] = Opc(side, f, ngen)
<1> USE DEF TypeOK
<1>1. PICK n \in 0..OpcFields :
        /\ opcRes' = [f \in Fields |-> IF f < n THEN Opc(side, f, ngen) ELSE opcRes[f]]
        /\ IF n = OpcFields THEN UNCHANGED failed ELSE CalcMayFail /\ failed' = ngen
  BY DEF GetOpcVals
<1>2. opcRes' \in [Fields -> Int \X Int \X Int]
  BY <1>1, ValueTypes
<1>3. n = OpcFields => \A f \in Fields : f < n
  BY DEF Fields
<1>4. QED
  BY <1>1, <1>2, <1>3

\* Asking for an opc value keeps the caches coherent.
LEMMA OpcStep ==
  ASSUME IInv, ngen > 0, NEW side \in Sides, NEW f \in Fields, OpcValue(side, f)
  PROVE  IInv' /\ (failed' # ngen => answer'.value = {Opc(side, f, ngen)})
<1> USE DEF IInv, TypeOK, CachesCoherent, Answered, opcVars, gibVars
<1>1. /\ answer' = [question |-> <<"opc", side, f>>, deal |-> ngen, value |-> {ss'[side].opc[f]}]
      /\ UNCHANGED <<ngen, cached_tricks, cached_ngen>>
  BY DEF OpcValue
<1>2. CASE OpcCached(side)
  <2>1. UNCHANGED <<opcRes, ss, opc_dealnum, calls, failed>>
    BY <1>2 DEF OpcValue
  <2>2. failed' # ngen => answer'.value = {Opc(side, f, ngen)}
    BY <1>1, <1>2, <2>1
  <2>3. AnswerIsCurrent'
    BY <1>1, <2>1, <2>2, ResultOf, ZenonT(60) DEF AnswerIsCurrent
  <2>4. QED
    BY <1>1, <2>1, <2>2, <2>3 DEF OpcCached
<1>3. CASE ~OpcCached(side)
  <2>1. /\ GetOpcVals(side)
        /\ ss' = [Discarded(side) EXCEPT ![side] = [ss_cached |-> 1, opc |-> opcRes']]
        /\ opc_dealnum' = ngen /\ calls' = calls + 1
    BY <1>3 DEF OpcValue
  <2>2. /\ opcRes' \in [Fields -> Int \X Int \X Int]
        /\ failed' \in {failed, ngen}
        /\ failed' # ngen => \A x \in Fields : opcRes'[x] = Opc(side, x, ngen)
    BY <2>1, Scanned
  <2>3. Discarded(side) \in [Sides -> [ss_cached : {0, 1}, opc : [Fields -> Int \X Int \X Int]]]
    BY DEF Discarded
  <2>4. TypeOK'
    BY <1>1, <2>1, <2>2, <2>3
  <2>5. ss'[side].opc = opcRes'
    BY <2>1, <2>3
  <2>6. failed' # ngen => answer'.value = {Opc(side, f, ngen)}
    BY <1>1, <2>2, <2>5
  <2>7. ASSUME failed' # ngen, NEW x \in Sides, OpcCached(x)', NEW y \in Fields
        PROVE  ss'[x].opc[y] = Opc(x, y, ngen)
    <3>1. CASE x = side
      BY <2>2, <2>5, <2>7, <3>1
    <3>2. CASE x # side
      <4>1. ss'[x] = Discarded(side)[x]
        BY <2>1, <2>3, <3>2
      <4>2. opc_dealnum = ngen /\ ss[x].ss_cached = 1 /\ ss'[x] = ss[x]
        BY <2>7, <4>1 DEF OpcCached, Discarded
      <4>3. failed # ngen
        BY <2>2, <2>7
      <4>4. QED
        BY <2>7, <4>2, <4>3 DEF OpcCached
    <3>3. QED
      BY <3>1, <3>2
  <2>8. CachesCoherent'
    BY <1>1, <2>1, <2>2, <2>7
  <2>9. AnswerIsCurrent'
    <3>1. answer'.question = <<"opc", side, f>> /\ answer'.deal = ngen
      BY <1>1
    <3>2. Result(<<"opc", side, f>>, ngen) = {Opc(side, f, ngen)}
      BY ResultOf
    <3>3. QED
      BY <2>6, <3>1, <3>2 DEF AnswerIsCurrent
  <2>10. QED
    BY <2>4, <2>6, <2>8, <2>9
<1>4. QED
  BY <1>2, <1>3

\* Asking for tricks keeps the caches coherent.
LEMMA DdStep ==
  ASSUME IInv, ngen > 0, NEW h \in Hands, NEW s \in Strains, Dd(h, s)
  PROVE  IInv' /\ (failed' # ngen => answer'.value = {<<h, s, ngen>>})
<1> USE DEF IInv, TypeOK, CachesCoherent, Answered, opcVars, gibVars
<1> DEFINE c == <<h, s>>
<1>1. c \in Cells
  BY DEF Cells
<1>2. /\ answer' = [question |-> <<"tricks", h, s>>, deal |-> ngen,
                    value |-> {<<h, s, cached_tricks'[c]>>}]
      /\ cached_ngen' = ngen
      /\ UNCHANGED <<ngen, opcRes, ss, opc_dealnum>>
  BY DEF Dd
<1>3. /\ GibTable \in [Cells -> Int]
      /\ failed # ngen => \A x \in Cells : GibTable[x] \in {Missing, ngen}
  BY DEF GibTable
<1>4. /\ cached_tricks' \in [Cells -> Int]
      /\ failed' \in {failed, ngen} /\ calls' \in Nat
      /\ failed' # ngen => /\ cached_tricks'[c] = ngen
                           /\ \A x \in Cells : cached_tricks'[x] \in {Missing, ngen}
  <2>1. CASE GibTable[c] # Missing
    BY <1>1, <1>3, <2>1 DEF Dd
  <2>2. CASE GibTable[c] = Missing
    <3>1. PICK t \in TrueDd : /\ cached_tricks' = [GibTable EXCEPT ![c] = t]
                              /\ failed' = IF t = ngen THEN failed ELSE ngen
      BY <2>2 DEF Dd
    <3>2. t \in Int /\ calls' = calls + 1
      BY <2>2 DEF TrueDd, Dd
    <3>3. QED
      BY <1>1, <1>3, <3>1, <3>2
  <2>3. QED
    BY <2>1, <2>2
<1> HIDE DEF c
<1>5. failed' # ngen => answer'.value = {<<h, s, ngen>>}
  BY <1>2, <1>4
<1>6. AnswerIsCurrent'
  BY <1>2, <1>5, ResultOf, ZenonT(60) DEF AnswerIsCurrent
<1>7. CachesCoherent'
  BY <1>2, <1>4 DEF OpcCached
<1>8. TypeOK'
  BY <1>2, <1>4
<1>9. QED
  BY <1>5, <1>6, <1>7, <1>8

\* Every step keeps the inductive invariant.
LEMMA StepInv == IInv /\ [Next]_calcVars => IInv'
<1> SUFFICES ASSUME IInv, [Next]_calcVars PROVE IInv'
  OBVIOUS
<1>1. CASE NextDeal
  BY <1>1 DEF NextDeal, IInv, TypeOK, CachesCoherent, AnswerIsCurrent, OpcCached,
              opcVars, gibVars
<1>2. CASE ngen > 0 /\ \E side \in Sides, f \in Fields : OpcValue(side, f)
  BY <1>2, OpcStep
<1>3. CASE ngen > 0 /\ \E h \in Hands, s \in Strains : Dd(h, s)
  BY <1>3, DdStep
<1>4. CASE UNCHANGED calcVars
  BY <1>4 DEF calcVars, IInv, TypeOK, CachesCoherent, AnswerIsCurrent, OpcCached
<1>5. QED
  BY <1>1, <1>2, <1>3, <1>4 DEF Next

-----------------------------------------------------------------------------
(* How often the calculators run.                                          *)

\* What a question more adds to what was asked, and to the count of it.
LEMMA AskedMore ==
  /\ IsFiniteSet(asked) =>
       /\ IsFiniteSet(SidesAsked) /\ IsFiniteSet(TricksAsked)
       /\ Cardinality(SidesAsked) \in Nat /\ Cardinality(TricksAsked) \in Nat
  /\ \A side, f : asked' = asked \cup {<<"opc", side, f>>} =>
       SidesAsked' = SidesAsked \cup {side} /\ TricksAsked' = TricksAsked
  /\ \A h, s : asked' = asked \cup {<<"tricks", h, s>>} =>
       SidesAsked' = SidesAsked /\ TricksAsked' = TricksAsked \cup {<<"tricks", h, s>>}
<1>1. ASSUME IsFiniteSet(asked)
      PROVE  IsFiniteSet(SidesAsked) /\ IsFiniteSet(TricksAsked)
  <2> DEFINE AskedOf == {x \in asked : x[1] = "opc"}
             second == [q \in AskedOf |-> q[2]]
  <2>1. AskedOf \in SUBSET asked /\ TricksAsked \in SUBSET asked
    BY DEF TricksAsked
  <2>2. IsFiniteSet(AskedOf) /\ IsFiniteSet(TricksAsked)
    BY <1>1, <2>1, FS_Subset, Zenon
  <2>3. second \in Surjection(AskedOf, SidesAsked)
    BY DEF SidesAsked, Surjection
  <2> HIDE DEF AskedOf, second
  <2>4. QED
    BY <2>2, <2>3, FS_Surjection
<1>2. ASSUME NEW side, NEW f, asked' = asked \cup {<<"opc", side, f>>}
      PROVE  SidesAsked' = SidesAsked \cup {side} /\ TricksAsked' = TricksAsked
  <2>1. TricksAsked' = TricksAsked
    BY <1>2 DEF TricksAsked
  <2>2. \A x \in SidesAsked' : x \in SidesAsked \cup {side}
    BY <1>2 DEF SidesAsked
  <2>3. SidesAsked \subseteq SidesAsked'
    BY <1>2 DEF SidesAsked
  <2>4. side \in SidesAsked'
    <3>1. <<"opc", side, f>> \in asked' /\ <<"opc", side, f>>[1] = "opc" /\ <<"opc", side, f>>[2] = side
      BY <1>2
    <3>2. QED
      BY <3>1 DEF SidesAsked
  <2>5. QED
    BY <2>1, <2>2, <2>3, <2>4
<1>3. ASSUME NEW h, NEW s, asked' = asked \cup {<<"tricks", h, s>>}
      PROVE  SidesAsked' = SidesAsked /\ TricksAsked' = TricksAsked \cup {<<"tricks", h, s>>}
  BY <1>3 DEF SidesAsked, TricksAsked
<1>4. QED
  BY <1>1, <1>2, <1>3, FS_CardinalityType

LEMMA RunsOfDop ==
  ASSUME IInv, RunsCounted, ngen > 0, NEW side \in Sides, NEW f \in Fields, OpcValue(side, f)
  PROVE  RunsCounted'
<1>1. /\ asked' = asked \cup {<<"opc", side, f>>} /\ IsFiniteSet(asked)
      /\ UNCHANGED <<ngen, cached_tricks, cached_ngen>>
  BY DEF OpcValue, Answered, gibVars, RunsCounted
<1>2. /\ SidesAsked' = SidesAsked \cup {side} /\ TricksAsked' = TricksAsked
      /\ IsFiniteSet(SidesAsked)
      /\ Cardinality(SidesAsked) \in Nat /\ Cardinality(TricksAsked) \in Nat
  BY <1>1, AskedMore
<1>3. IsFiniteSet(asked')
  BY <1>1, FS_AddElement
<1>4. failed' \in {failed, ngen}
  BY DEF OpcValue, GetOpcVals
<1>5. SUFFICES ASSUME failed' # ngen
               PROVE  /\ \A x \in Sides : OpcCached(x)' <=> x \in SidesAsked'
                      /\ calls' = Cardinality(SidesAsked') + Cardinality(TricksAsked')
  <2>1. \A h \in Hands, s \in Strains : <<"tricks", h, s>> \in asked' <=> <<"tricks", h, s>> \in asked
    BY <1>1
  <2>2. QED
    BY <1>1, <1>3, <1>4, <2>1 DEF RunsCounted
<1>6. /\ \A x \in Sides : OpcCached(x) <=> x \in SidesAsked
      /\ calls = Cardinality(SidesAsked) + Cardinality(TricksAsked)
  BY <1>4, <1>5 DEF RunsCounted
<1>7. CASE OpcCached(side)
  <2>1. UNCHANGED <<ss, opc_dealnum, calls>>
    BY <1>7 DEF OpcValue, opcVars
  <2>2. SidesAsked' = SidesAsked
    BY <1>2, <1>6, <1>7
  <2>3. QED
    BY <1>1, <1>2, <1>6, <2>1, <2>2 DEF OpcCached
<1>8. CASE ~OpcCached(side)
  <2>1. /\ ss' = [Discarded(side) EXCEPT ![side] = [ss_cached |-> 1, opc |-> opcRes']]
        /\ opc_dealnum' = ngen /\ calls' = calls + 1
    BY <1>8 DEF OpcValue
  <2>2. ss \in [Sides -> [ss_cached : {0, 1}, opc : [Fields -> Int \X Int \X Int]]]
    BY DEF IInv, TypeOK
  <2>3. /\ Discarded(side) \in [Sides -> [ss_cached : {0, 1}, opc : [Fields -> Int \X Int \X Int]]]
        /\ \A x \in Sides : Discarded(side)[x].ss_cached = 1 <=> OpcCached(x)
    <3>1. CASE opc_dealnum = ngen
      BY <2>2, <3>1 DEF Discarded, OpcCached
    <3>2. CASE opc_dealnum # ngen
      <4>1. /\ Discarded(side) = [x \in Sides |-> [ss[x] EXCEPT !.ss_cached = 0]]
            /\ \A x \in Sides : ~OpcCached(x)
        BY <3>2 DEF Discarded, OpcCached
      <4>2. ASSUME NEW x \in Sides
            PROVE  /\ [ss[x] EXCEPT !.ss_cached = 0]
                        \in [ss_cached : {0, 1}, opc : [Fields -> Int \X Int \X Int]]
                   /\ [ss[x] EXCEPT !.ss_cached = 0].ss_cached = 0
        BY <2>2
      <4>3. QED
        BY <4>1, <4>2, SMTT(30)
    <3>3. QED
      BY <3>1, <3>2
  <2>4. \A x \in Sides : OpcCached(x)' <=> x = side \/ OpcCached(x)
    BY <1>1, <2>1, <2>3 DEF OpcCached
  <2>5. Cardinality(SidesAsked \cup {side}) = Cardinality(SidesAsked) + 1
    BY <1>2, <1>6, <1>8, FS_AddElement
  <2>6. QED
    BY <1>2, <1>6, <2>1, <2>4, <2>5
<1>9. QED
  BY <1>7, <1>8

LEMMA RunsOfGib ==
  ASSUME IInv, RunsCounted, ngen > 0, NEW h \in Hands, NEW s \in Strains, Dd(h, s)
  PROVE  RunsCounted'
<1> DEFINE c == <<h, s>>
           q == <<"tricks", h, s>>
           KeptOfGib(x) == cached_ngen = ngen /\ cached_tricks[x] # Missing
<1>1. /\ asked' = asked \cup {q} /\ IsFiniteSet(asked)
      /\ cached_ngen' = ngen
      /\ UNCHANGED <<ngen, ss, opc_dealnum>>
  BY DEF Dd, Answered, opcVars, RunsCounted
<1>2. /\ SidesAsked' = SidesAsked /\ TricksAsked' = TricksAsked \cup {q}
      /\ IsFiniteSet(TricksAsked)
      /\ Cardinality(SidesAsked) \in Nat /\ Cardinality(TricksAsked) \in Nat
  BY <1>1, AskedMore
<1>3. IsFiniteSet(asked')
  BY <1>1, FS_AddElement
<1>4. failed' \in {failed, ngen}
  BY DEF Dd
<1>5. SUFFICES ASSUME failed' # ngen
               PROVE  /\ \A x \in Hands, y \in Strains :
                           cached_tricks'[<<x, y>>] # Missing <=> <<"tricks", x, y>> \in asked'
                      /\ calls' = Cardinality(SidesAsked') + Cardinality(TricksAsked')
  BY <1>1, <1>2, <1>3, <1>4 DEF RunsCounted, OpcCached
<1>6. /\ \A x \in Hands, y \in Strains : KeptOfGib(<<x, y>>) <=> <<"tricks", x, y>> \in asked
      /\ calls = Cardinality(SidesAsked) + Cardinality(TricksAsked)
  BY <1>4, <1>5 DEF RunsCounted
<1>7. /\ c \in Cells /\ GibTable \in [Cells -> Int]
      /\ \A x \in Cells : GibTable[x] # Missing <=> KeptOfGib(x)
  BY DEF GibTable, IInv, TypeOK, Cells
<1>8. \A x \in Hands, y \in Strains :
        /\ <<x, y>> \in Cells
        /\ <<"tricks", x, y>> = q <=> <<x, y>> = c
  BY DEF Cells
<1>9. q \in TricksAsked <=> q \in asked
  BY DEF TricksAsked
<1> HIDE DEF KeptOfGib, c, q
<1>10. CASE KeptOfGib(c)
  <2>1. cached_tricks' = GibTable /\ calls' = calls
    BY <1>7, <1>10 DEF Dd, c
  <2>2. q \in asked
    BY <1>6, <1>10 DEF c, q
  <2>3. asked' = asked /\ TricksAsked' = TricksAsked
    BY <1>1, <1>2, <1>9, <2>2
  <2>4. QED
    BY <1>2, <1>6, <1>7, <1>8, <2>1, <2>3
<1>11. CASE ~KeptOfGib(c)
  <2>1. PICK t \in TrueDd : /\ cached_tricks' = [GibTable EXCEPT ![c] = t]
                            /\ failed' = (IF t = ngen THEN failed ELSE ngen)
                            /\ calls' = calls + 1
    BY <1>7, <1>11 DEF Dd, c
  <2>2. t = ngen /\ t # Missing
    BY <1>5, <2>1
  <2>3. \A x \in Cells : cached_tricks'[x] # Missing <=> x = c \/ KeptOfGib(x)
    BY <1>7, <2>1, <2>2
  <2>4. q \notin asked
    BY <1>6, <1>11 DEF c, q
  <2>5. Cardinality(TricksAsked \cup {q}) = Cardinality(TricksAsked) + 1
    BY <1>2, <1>9, <2>4, FS_AddElement
  <2>6. calls' = Cardinality(SidesAsked') + Cardinality(TricksAsked')
    BY <1>2, <1>6, <2>1, <2>5
  <2>7. QED
    BY <1>1, <1>6, <1>8, <2>3, <2>6
<1>12. QED
  BY <1>10, <1>11

LEMMA RunsStep == IInv /\ RunsCounted /\ [Next]_calcVars => RunsCounted'
<1> SUFFICES ASSUME IInv, RunsCounted, [Next]_calcVars PROVE RunsCounted'
  OBVIOUS
<1>1. CASE NextDeal
  <2>1. /\ asked' = {} /\ calls' = 0 /\ ngen' = ngen + 1
        /\ UNCHANGED <<ss, opc_dealnum, cached_tricks, cached_ngen>>
    BY <1>1 DEF NextDeal, opcVars, gibVars
  <2>2. opc_dealnum # ngen' /\ cached_ngen # ngen'
    BY <2>1 DEF IInv, TypeOK, CachesCoherent
  <2>3. SidesAsked' = {} /\ TricksAsked' = {}
    BY <2>1 DEF SidesAsked, TricksAsked
  <2>4. QED
    BY <2>1, <2>2, <2>3, FS_EmptySet DEF RunsCounted, OpcCached
<1>2. CASE ngen > 0 /\ \E side \in Sides, f \in Fields : OpcValue(side, f)
  BY <1>2, RunsOfDop
<1>3. CASE ngen > 0 /\ \E h \in Hands, s \in Strains : Dd(h, s)
  BY <1>3, RunsOfGib
<1>4. CASE UNCHANGED calcVars
  BY <1>4 DEF calcVars, RunsCounted, SidesAsked, TricksAsked, OpcCached
<1>5. QED
  BY <1>1, <1>2, <1>3, <1>4 DEF Next

-----------------------------------------------------------------------------
\* The inductive invariant holds throughout every run.
THEOREM Safety == Spec => []IInv
<1>1. IInv /\ [Next]_calcVars => IInv'
  BY StepInv
<1>2. QED
  BY <1>1, InitInv, PTL DEF Spec

\* opc() and tricks() give the values of the current deal, whatever was asked
\* before, as long as no calculator fails on that deal.
THEOREM AnswersAreCurrent == Spec => []AnswerIsCurrent
<1>1. IInv => AnswerIsCurrent
  BY DEF IInv
<1>2. QED
  BY <1>1, Safety, PTL

\* opc_value and dd run dop and GIB no more often than they must: once for
\* every side, and every hand and strain, asked about on the deal, in whatever
\* order, unless one of them failed on it.
THEOREM NoRunTwice == Spec => []OneRunEach
<1>1. Init => RunsCounted
  BY FS_EmptySet DEF Init, RunsCounted
<1>2. IInv /\ RunsCounted /\ [Next]_calcVars => RunsCounted'
  BY RunsStep
<1>3. RunsCounted => OneRunEach
  BY DEF RunsCounted, OneRunEach
<1>4. QED
  BY <1>1, <1>2, <1>3, Safety, PTL DEF Spec

\* A step of the caches is a question answered with the right result (or on a
\* deal a calculator failed on), the next deal, or nothing.
LEMMA ResultsStep ==
  ASSUME IInv, [Next]_calcVars
  PROVE  [Results!Next]_Results!rvars
<1>1. CASE NextDeal
  BY <1>1 DEF NextDeal, Results!Next, Results!NextDeal
<1>2. ASSUME ngen > 0, NEW side \in Sides, NEW f \in Fields, OpcValue(side, f)
      PROVE  Results!Next
  <2>1. failed' = failed \/ (CalcMayFail /\ failed' = ngen)
    BY <1>2 DEF OpcValue, GetOpcVals
  <2>2. failed' # ngen => answer'.value = Result(<<"opc", side, f>>, ngen)
    <3>1. failed' # ngen => answer'.value = {Opc(side, f, ngen)}
      BY <1>2, OpcStep
    <3>2. Result(<<"opc", side, f>>, ngen) = {Opc(side, f, ngen)}
      BY <1>2, ResultOf
    <3>3. QED
      BY <3>1, <3>2
  <2>3. /\ answer' = [question |-> <<"opc", side, f>>, deal |-> ngen, value |-> answer'.value]
        /\ UNCHANGED ngen
    <3>1. /\ answer' = [question |-> <<"opc", side, f>>, deal |-> ngen,
                       value |-> {ss'[side].opc[f]}]
          /\ UNCHANGED ngen
      BY <1>2 DEF OpcValue, Answered
    <3>2. answer'.value = {ss'[side].opc[f]}
      BY <3>1
    <3>3. QED
      BY <3>1, <3>2
  <2>4. Results!AskAbout(<<"opc", side, f>>)
    BY <1>2, <2>1, <2>2, <2>3 DEF Results!AskAbout, Results!MaySolve
  <2>5. QED
    BY <2>4, ResultOf DEF Results!Next
<1>3. ASSUME ngen > 0, NEW h \in Hands, NEW s \in Strains, Dd(h, s)
      PROVE  Results!Next
  <2>1. failed' = failed \/ (CalcMayFail /\ failed' = ngen)
    BY <1>3 DEF Dd, TrueDd
  <2>2. failed' # ngen => answer'.value = Result(<<"tricks", h, s>>, ngen)
    <3>1. failed' # ngen => answer'.value = {<<h, s, ngen>>}
      BY <1>3, DdStep
    <3>2. Result(<<"tricks", h, s>>, ngen) = {<<h, s, ngen>>}
      BY <1>3, ResultOf
    <3>3. QED
      BY <3>1, <3>2
  <2>3. /\ answer' = [question |-> <<"tricks", h, s>>, deal |-> ngen, value |-> answer'.value]
        /\ UNCHANGED ngen
    <3>1. /\ answer' = [question |-> <<"tricks", h, s>>, deal |-> ngen,
                       value |-> {<<h, s, cached_tricks'[<<h, s>>]>>}]
          /\ UNCHANGED ngen
      BY <1>3 DEF Dd, Answered
    <3>2. answer'.value = {<<h, s, cached_tricks'[<<h, s>>]>>}
      BY <3>1
    <3>3. QED
      BY <3>1, <3>2
  <2>4. Results!AskAbout(<<"tricks", h, s>>)
    BY <1>3, <2>1, <2>2, <2>3 DEF Results!AskAbout, Results!MaySolve
  <2>5. QED
    BY <2>4, ResultOf DEF Results!Next
<1>4. CASE UNCHANGED calcVars
  BY <1>4 DEF calcVars, Results!rvars
<1>5. QED
  BY <1>1, <1>2, <1>3, <1>4 DEF Next

\* Nobody can tell the caches from calculators run afresh for every question.
THEOREM Implements == Spec => ImplementsResults
<1>1. Init => Results!Init
  BY DEF Init, Results!Init, Results!NothingAsked
<1>2. IInv /\ [Next]_calcVars => [Results!Next]_Results!rvars
  BY ResultsStep
<1>3. QED
  BY <1>1, <1>2, Safety, PTL DEF Spec, ImplementsResults, Results!Spec
=============================================================================
