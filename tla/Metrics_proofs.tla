---------------------------- MODULE Metrics_proofs ----------------------------
(***************************************************************************)
(* Proofs about Metrics for any deals of thirteen cards a hand, any tags,  *)
(* asked in any order and number: the choice of trumps, the results of a   *)
(* tag among those of others, the tables of short honours, one card less   *)
(* or higher, and the two hands of a side in each other's seat.            *)
(***************************************************************************)
EXTENDS Metrics, NumberFacts

-----------------------------------------------------------------------------
\* A hand, as the metrics see it.
HandType == [MetricSuits -> SUBSET CardRanks]
SideType == [Both -> HandType]

\* The honours of a suit and its cards are numbers.
LEMMA CountsOfHand ==
  ASSUME NEW h \in HandType
  PROVE  /\ \A s \in MetricSuits : /\ IsFiniteSet(h[s]) /\ Length(h, s) \in Nat
                                   /\ Points(h, s) \in Int
         /\ TotalPoints(h) \in Int
<1>1. ASSUME NEW s \in MetricSuits
      PROVE  IsFiniteSet(h[s]) /\ Length(h, s) \in Nat /\ Points(h, s) \in Int
  <2> DEFINE c == h[s]
             f == [r \in c |-> Given(r >= Jack, r - Ten)]
  <2>1. c \subseteq CardRanks
    BY DEF HandType
  <2>2. 0 \in Int /\ 12 \in Int
    OBVIOUS
  <2>3. IsFiniteSet(c)
    BY <2>1, <2>2, FS_Interval, FS_Subset DEF CardRanks
  <2>4. Summable(f, c)
    BY <2>1, <2>3 DEF Summable, CardRanks, Given, Jack, Ten
  <2>5. SumFunctionOnSet(f, c) \in Int
    BY <2>4, SumOnSet
  <2>6. Points(h, s) = SumFunctionOnSet(f, c)
    BY DEF Points, SumFunction
  <2>7. Length(h, s) \in Nat
    BY <2>3, FS_CardinalityType DEF Length
  <2>8. QED
    BY <2>3, <2>5, <2>6, <2>7
<1>2. TotalPoints(h) = Points(h, 0) + Points(h, 1) + Points(h, 2) + Points(h, 3)
  BY DEF TotalPoints, OverSuits
<1>3. QED
  BY <1>1, <1>2 DEF MetricSuits

\* What a fit is judged by, as numbers.
LEMMA CountsOfSide ==
  ASSUME NEW P \in SideType, NEW s \in MetricSuits
  PROVE  /\ FitLength(P, s) \in Nat /\ Uneven(P, s) \in Int /\ SuitPoints(P, s) \in Int
         /\ Major(s) \in BOOLEAN
<1>1. P[0] \in HandType /\ P[1] \in HandType
  BY DEF SideType, Both
<1>2. Length(P[0], s) \in Nat /\ Length(P[1], s) \in Nat /\ Points(P[0], s) \in Int /\ Points(P[1], s) \in Int
  BY <1>1, CountsOfHand
<1>3. QED
  BY <1>2 DEF FitLength, Uneven, SuitPoints, Major, MetricSuits

\* Earlier by the first element in which they differ.
Less(x, y) == \E k \in 1..4 : x[k] < y[k] /\ \A j \in 1..(k - 1) : x[j] = y[j]

\* The tests of the loop compare by the order of preference.
LEMMA BetterIsPreferred ==
  ASSUME NEW P \in SideType, NEW s \in MetricSuits, NEW t \in MetricSuits
  PROVE  Better(P, s, t) <=> Less(Preference(P, t), Preference(P, s))
<1> DEFINE x == Preference(P, t)
           y == Preference(P, s)
<1>0. /\ FitLength(P, s) \in Nat /\ Uneven(P, s) \in Int /\ SuitPoints(P, s) \in Int /\ Major(s) \in BOOLEAN
      /\ FitLength(P, t) \in Nat /\ Uneven(P, t) \in Int /\ SuitPoints(P, t) \in Int /\ Major(t) \in BOOLEAN
  BY CountsOfSide
<1>1. /\ x[1] = FitLength(P, t) /\ x[2] = (IF Major(t) THEN 1 ELSE 0)
      /\ x[3] = -Uneven(P, t) /\ x[4] = -SuitPoints(P, t)
      /\ y[1] = FitLength(P, s) /\ y[2] = (IF Major(s) THEN 1 ELSE 0)
      /\ y[3] = -Uneven(P, s) /\ y[4] = -SuitPoints(P, s)
  BY DEF Preference
<1> HIDE DEF x, y
<1>2. Less(x, y) <=> \/ x[1] < y[1]
                     \/ x[1] = y[1] /\ x[2] < y[2]
                     \/ x[1] = y[1] /\ x[2] = y[2] /\ x[3] < y[3]
                     \/ x[1] = y[1] /\ x[2] = y[2] /\ x[3] = y[3] /\ x[4] < y[4]
  <2>1. Less(x, y) <=> \/ x[1] < y[1] /\ \A j \in 1..0 : x[j] = y[j]
                       \/ x[2] < y[2] /\ \A j \in 1..1 : x[j] = y[j]
                       \/ x[3] < y[3] /\ \A j \in 1..2 : x[j] = y[j]
                       \/ x[4] < y[4] /\ \A j \in 1..3 : x[j] = y[j]
    <3>1. \A k \in 1..4 : k = 1 \/ k = 2 \/ k = 3 \/ k = 4
      OBVIOUS
    <3>2. 1 \in 1..4 /\ 2 \in 1..4 /\ 3 \in 1..4 /\ 4 \in 1..4 /\ 1 - 1 = 0 /\ 2 - 1 = 1 /\ 3 - 1 = 2 /\ 4 - 1 = 3
      OBVIOUS
    <3>3. QED
      BY <3>1, <3>2, Zenon DEF Less
  <2>2. /\ \A j \in 1..0 : x[j] = y[j]
        /\ (\A j \in 1..1 : x[j] = y[j]) <=> x[1] = y[1]
        /\ (\A j \in 1..2 : x[j] = y[j]) <=> x[1] = y[1] /\ x[2] = y[2]
        /\ (\A j \in 1..3 : x[j] = y[j]) <=> x[1] = y[1] /\ x[2] = y[2] /\ x[3] = y[3]
    OBVIOUS
  <2>3. QED
    BY <2>1, <2>2
<1>3. Better(P, s, t) <=> \/ x[1] < y[1]
                          \/ x[1] = y[1] /\ x[2] < y[2]
                          \/ x[1] = y[1] /\ x[2] = y[2] /\ x[3] < y[3]
                          \/ x[1] = y[1] /\ x[2] = y[2] /\ x[3] = y[3] /\ x[4] < y[4]
  BY <1>0, <1>1 DEF Better
<1>4. QED
  BY <1>2, <1>3 DEF x, y

\* A suit that is not better than the one kept is no better than what is better
\* than that.
LEMMA BetterOrders ==
  ASSUME NEW P \in SideType, NEW r \in MetricSuits, NEW s \in MetricSuits, NEW t \in MetricSuits,
         ~Better(P, r, t), Better(P, s, t)
  PROVE  ~Better(P, r, s)
<1>1. \A q \in MetricSuits : FitLength(P, q) \in Nat /\ Uneven(P, q) \in Int /\ SuitPoints(P, q) \in Int
                             /\ Major(q) \in BOOLEAN
  BY CountsOfSide
<1>2. QED
  BY <1>1 DEF Better

\* No suit is better than itself.
LEMMA BetterIsStrict ==
  ASSUME NEW P \in SideType, NEW t \in MetricSuits
  PROVE  ~Better(P, t, t)
BY CountsOfSide DEF Better

\* After some suits: the best fit among them, if any is one.
BestOf(P, t, seen) ==
  IF \E s \in seen : IsFit(P, s)
  THEN t \in seen /\ IsFit(P, t) /\ \A s \in seen : IsFit(P, s) => ~Better(P, s, t)
  ELSE t = NoSuit

\* The loop over one suit more keeps the best of those it has seen.
LEMMA OneMoreSuit ==
  ASSUME NEW P \in SideType, NEW seen \in SUBSET MetricSuits, NEW t, BestOf(P, t, seen),
         NEW s \in MetricSuits, s \notin seen
  PROVE  BestOf(P, IF IsFit(P, s) /\ (t = NoSuit \/ Better(P, s, t)) THEN s ELSE t, seen \cup {s})
<1>1. NoSuit \notin MetricSuits
  BY DEF NoSuit, MetricSuits
<1>2. CASE ~IsFit(P, s)
  BY <1>2, Zenon DEF BestOf
<1>3. CASE IsFit(P, s) /\ t = NoSuit
  <2>1. ~ \E q \in seen : IsFit(P, q)
    BY <1>1, <1>3, Zenon DEF BestOf
  <2>2. QED
    BY <1>3, <2>1, BetterIsStrict, Zenon DEF BestOf
<1>4. CASE IsFit(P, s) /\ t # NoSuit
  <2>1. t \in seen /\ IsFit(P, t) /\ \A q \in seen : IsFit(P, q) => ~Better(P, q, t)
    BY <1>4, Zenon DEF BestOf
  <2>2. CASE Better(P, s, t)
    <3>1. \A q \in seen : IsFit(P, q) => ~Better(P, q, s)
      BY <2>1, <2>2, BetterOrders, Zenon
    <3>2. QED
      BY <1>4, <2>2, <3>1, BetterIsStrict, Zenon DEF BestOf
  <2>3. CASE ~Better(P, s, t)
    BY <1>4, <2>1, <2>3, Zenon DEF BestOf
  <2>4. QED
    BY <2>2, <2>3
<1>5. QED
  BY <1>2, <1>3, <1>4

\* After the four suits: the best fit of all, or none.
LEMMA TrumpsOfFour ==
  ASSUME NEW P \in SideType
  PROVE  BestOf(P, SetTrumps(P), MetricSuits)
<1> DEFINE keep(t, s) == IF IsFit(P, s) /\ (t = NoSuit \/ Better(P, s, t)) THEN s ELSE t
           t0 == keep(NoSuit, 0)
           t1 == keep(t0, 1)
           t2 == keep(t1, 2)
           t3 == keep(t2, 3)
<1>0. /\ 0 \in MetricSuits /\ 1 \in MetricSuits /\ 2 \in MetricSuits /\ 3 \in MetricSuits
      /\ MetricSuits = {0} \cup {1} \cup {2} \cup {3}
      /\ {0} \in SUBSET MetricSuits /\ {0} \cup {1} \in SUBSET MetricSuits
      /\ {0} \cup {1} \cup {2} \in SUBSET MetricSuits
      /\ 1 \notin {0} /\ 2 \notin {0} \cup {1} /\ 3 \notin {0} \cup {1} \cup {2}
  BY DEF MetricSuits
<1>1. BestOf(P, NoSuit, {})
  BY DEF BestOf
<1>2. BestOf(P, t0, {0})
  <2>1. {} \in SUBSET MetricSuits /\ 0 \notin {} /\ {} \cup {0} = {0}
    OBVIOUS
  <2>2. BestOf(P, t0, {} \cup {0})
    BY <1>0, <1>1, <2>1, OneMoreSuit, Zenon
  <2>3. QED
    BY <2>1, <2>2
<1>3. BestOf(P, t1, {0} \cup {1})
  <2> HIDE DEF t0
  <2>1. QED
    BY <1>0, <1>2, OneMoreSuit
<1>4. BestOf(P, t2, {0} \cup {1} \cup {2})
  <2> HIDE DEF t1
  <2>1. QED
    BY <1>0, <1>3, OneMoreSuit
<1>5. BestOf(P, t3, {0} \cup {1} \cup {2} \cup {3})
  <2> HIDE DEF t2
  <2>1. QED
    BY <1>0, <1>4, OneMoreSuit
<1>6. SetTrumps(P) = t3
  BY DEF SetTrumps
<1>7. QED
  BY <1>0, <1>5, <1>6

\* The declarer has the longer trumps, and only of equal hands does the other
\* copy of the choice have another.
LEMMA DeclarerHasTrumps ==
  ASSUME NEW P \in SideType, NEW s \in MetricSuits
  PROVE  LET t == TrumpFit(P, s)
         IN  /\ t.tsuit = s
             /\ t.tlen[t.decl] >= t.tlen[t.dummy]
             /\ SetDeclarer(P, s) # t.decl =>
                  t.tlen[0] = t.tlen[1] /\ TotalPoints(P[0]) = TotalPoints(P[1])
<1>0. s # NoSuit
  BY DEF MetricSuits, NoSuit
<1>1. P[0] \in HandType /\ P[1] \in HandType
  BY DEF SideType, Both
<1>2. /\ Length(P[0], s) \in Nat /\ Length(P[1], s) \in Nat
      /\ TotalPoints(P[0]) \in Int /\ TotalPoints(P[1]) \in Int
  BY <1>1, CountsOfHand
<1> DEFINE t == TrumpFit(P, s)
<1>3. /\ t.tsuit = s /\ t.decl = Declares(P, s) /\ t.dummy = 1 - Declares(P, s)
      /\ t.tlen = [h \in Both |-> Length(P[h], s)]
  BY <1>0, Zenon DEF TrumpFit
<1>4. t.tlen[0] = Length(P[0], s) /\ t.tlen[1] = Length(P[1], s)
  BY <1>3 DEF Both
<1> HIDE DEF t
<1>5. /\ t.tlen[t.decl] >= t.tlen[t.dummy]
      /\ SetDeclarer(P, s) # t.decl => t.tlen[0] = t.tlen[1] /\ TotalPoints(P[0]) = TotalPoints(P[1])
  <2>1. CASE Declares(P, s) = 0
    <3>1. t.decl = 0 /\ t.dummy = 1
      BY <1>3, <2>1
    <3>2. QED
      BY <1>0, <1>2, <1>4, <2>1, <3>1 DEF Declares, SetDeclarer
  <2>2. CASE Declares(P, s) = 1
    <3>1. t.decl = 1 /\ t.dummy = 0
      BY <1>3, <2>2
    <3>2. QED
      BY <1>0, <1>2, <1>4, <2>2, <3>1 DEF Declares, SetDeclarer
  <2>3. QED
    BY <2>1, <2>2 DEF Declares
<1>6. QED
  BY <1>3, <1>5 DEF t

\* The hands of a side of a deal.
LEMMA SidesOfDeal ==
  ASSUME NEW d \in Deals, NEW side \in Sides
  PROVE  HandsOf(d, side) \in SideType
<1>1. d \in [Seats -> HandType]
  BY MetricsAssumption, Zenon DEF MetricsAssumption, HandType
<1>2. \A h \in Both : side + 2 * h \in Seats
  BY DEF Both, Sides, Seats
<1>3. QED
  BY <1>1, <1>2 DEF HandsOf, SideType

\* The property, for the hands of a side.
LEMMA TrumpsChosen ==
  ASSUME deal \in Deals
  PROVE  TrumpsAreBest
<1>1. SUFFICES ASSUME NEW side \in Sides,
                      NEW P, P = HandsOf(deal, side), NEW t, t = trump_fit_chk(P),
                      NEW fits, fits = {s \in MetricSuits : IsFit(P, s)}
               PROVE  IF fits = {} THEN t.tsuit = NoSuit
                      ELSE /\ t.tsuit \in fits
                           /\ \A s \in fits : ~Less(Preference(P, t.tsuit), Preference(P, s))
                           /\ t.tlen[t.decl] >= t.tlen[t.dummy]
                           /\ SetDeclarer(P, t.tsuit) # t.decl =>
                                t.tlen[0] = t.tlen[1] /\ TotalPoints(P[0]) = TotalPoints(P[1])
  BY Zenon DEF TrumpsAreBest, Less
<1>2. P \in SideType
  BY <1>1, SidesOfDeal
<1>3. BestOf(P, SetTrumps(P), MetricSuits)
  BY <1>2, TrumpsOfFour
<1>4. t = TrumpFit(P, SetTrumps(P))
  BY <1>1, Zenon DEF trump_fit_chk
<1>5. CASE fits = {}
  <2>1. SetTrumps(P) = NoSuit
    BY <1>1, <1>3, <1>5, Zenon DEF BestOf
  <2>2. QED
    BY <1>4, <1>5, <2>1, Zenon DEF TrumpFit
<1>6. CASE fits # {}
  <2>1. /\ SetTrumps(P) \in MetricSuits /\ SetTrumps(P) \in fits
        /\ \A s \in fits : ~Better(P, s, SetTrumps(P))
    BY <1>1, <1>3, <1>6, Zenon DEF BestOf
  <2>2. /\ t.tsuit = SetTrumps(P) /\ t.tlen[t.decl] >= t.tlen[t.dummy]
        /\ SetDeclarer(P, SetTrumps(P)) # t.decl =>
             t.tlen[0] = t.tlen[1] /\ TotalPoints(P[0]) = TotalPoints(P[1])
    BY <1>2, <1>4, <2>1, DeclarerHasTrumps, Zenon
  <2>3. \A s \in fits : ~Less(Preference(P, SetTrumps(P)), Preference(P, s))
    BY <1>1, <1>2, <2>1, BetterIsPreferred, Zenon
  <2>4. QED
    BY <1>6, <2>1, <2>2, <2>3, Zenon
<1>7. QED
  BY <1>5, <1>6

\* The server never writes the deal.
LEMMA DealStays == MetricsSpec => [](deal \in Deals)
<1>1. MetricsInit => deal \in Deals
  BY DEF MetricsInit
<1>2. deal \in Deals /\ [MetricsNext]_metricVars => (deal \in Deals)'
  BY DEF MetricsNext, UserFunc, metricVars
<1>3. QED
  BY <1>1, <1>2, PTL DEF MetricsSpec

\* For every deal, the suit that the search of trump_fit_chk leaves is the best of the
\* fits, and the hand it makes the declarer never has the shorter trumps.
THEOREM TrumpsAreTheBest == MetricsSpec => []TrumpsAreBest
<1>1. deal \in Deals => TrumpsAreBest
  BY TrumpsChosen
<1>2. QED
  BY <1>1, DealStays, PTL

-----------------------------------------------------------------------------
(* The runs of a tag, one after another over the same area.                *)

\* One run more.
Ran(acc, m, P, left) == Saves(acc, m, Calc(m, P, prolog(acc.sheet), left))

Fresh(st) == [sheet |-> st.sheet, area |-> st.area, after |-> <<>>]

\* f has what there is after each of the first k runs.
RunTo(f, k, ms, st, P, left) ==
  f = [n \in 0..k |-> IF n = 0 THEN Fresh(st) ELSE Ran(f[n - 1], ms[n], P, left)]

CanRun(k, ms, st, P, left) == \E f : RunTo(f, k, ms, st, P, left)

\* After k runs there can be one more.
LEMMA RunsGoOn ==
  ASSUME NEW k \in Nat, NEW ms, NEW st, NEW P, NEW left, CanRun(k, ms, st, P, left)
  PROVE  CanRun(k + 1, ms, st, P, left)
<1>1. PICK f : RunTo(f, k, ms, st, P, left)
  BY Zenon DEF CanRun
<1> DEFINE g == [n \in 0..k + 1 |-> IF n \in 0..k THEN f[n] ELSE Ran(f[k], ms[k + 1], P, left)]
<1>2. \A n \in 0..k + 1 : g[n] = IF n = 0 THEN Fresh(st) ELSE Ran(g[n - 1], ms[n], P, left)
  <2>1. \A n \in 0..k : f[n] = IF n = 0 THEN Fresh(st) ELSE Ran(f[n - 1], ms[n], P, left)
    BY <1>1 DEF RunTo
  <2>2. \A n \in 0..k : g[n] = f[n]
    OBVIOUS
  <2>3. g[k + 1] = Ran(f[k], ms[k + 1], P, left) /\ g[k] = f[k] /\ k + 1 - 1 = k /\ k + 1 # 0
    OBVIOUS
  <2>4. \A n \in 0..k + 1 : n \in 0..k \/ n = k + 1
    OBVIOUS
  <2>5. \A n \in 0..k + 1 : n = 0 \/ n - 1 \in 0..k
    OBVIOUS
  <2> HIDE DEF g
  <2>6. ASSUME NEW n \in 0..k
        PROVE  g[n] = IF n = 0 THEN Fresh(st) ELSE Ran(g[n - 1], ms[n], P, left)
    <3>1. n # 0 => n - 1 \in 0..k /\ n \in 0..k + 1
      BY <2>6
    <3>2. QED
      BY <2>1, <2>2, <2>6, <3>1, Zenon
  <2>7. g[k + 1] = IF k + 1 = 0 THEN Fresh(st) ELSE Ran(g[k + 1 - 1], ms[k + 1], P, left)
    BY <2>3
  <2>8. QED
    BY <2>4, <2>6, <2>7
<1>3. g = [n \in 0..k + 1 |-> IF n = 0 THEN Fresh(st) ELSE Ran(g[n - 1], ms[n], P, left)]
  <2>1. g = [n \in 0..k + 1 |-> g[n]]
    OBVIOUS
  <2> HIDE DEF g
  <2>2. QED
    BY <1>2, <2>1
<1>4. QED
  BY <1>3, Zenon DEF CanRun, RunTo

\* So there are the runs of any list of metrics.
LEMMA RunsExist ==
  ASSUME NEW ms, NEW st, NEW P, NEW left
  PROVE  \A k \in Nat : CanRun(k, ms, st, P, left)
<1> DEFINE B == {k \in Nat : ~CanRun(k, ms, st, P, left)}
<1>1. CanRun(0, ms, st, P, left)
  <2> DEFINE f == [n \in 0..0 |-> Fresh(st)]
  <2>1. f = [n \in 0..0 |-> IF n = 0 THEN Fresh(st) ELSE Ran(f[n - 1], ms[n], P, left)]
    OBVIOUS
  <2>2. QED
    BY <2>1, Zenon DEF CanRun, RunTo
<1>2. B = {}
  <2>1. SUFFICES ASSUME B # {} PROVE FALSE
    OBVIOUS
  <2>2. PICK k \in B : \A n \in B : k <= n
    BY <2>1, LeastElement
  <2>3. k # 0 /\ k - 1 \in Nat /\ k - 1 \notin B /\ k - 1 + 1 = k
    BY <1>1, <2>2
  <2>4. CanRun(k - 1, ms, st, P, left)
    BY <2>3
  <2>5. CanRun(k, ms, st, P, left)
    BY <2>3, <2>4, RunsGoOn
  <2>6. QED
    BY <2>2, <2>5
<1>3. QED
  BY <1>2

\* What RunAll returns is the last of what the runs left.
LEMMA RunAllIsLast ==
  ASSUME NEW ms, Len(ms) \in Nat, NEW d, NEW side, NEW st, NEW left
  PROVE  \E f : /\ RunTo(f, Len(ms), ms, st, HandsOf(d, side), left)
                /\ RunAll(ms, d, side, st, left) = f[Len(ms)]
<1> DEFINE f == CHOOSE g : RunTo(g, Len(ms), ms, st, HandsOf(d, side), left)
<1>1. RunTo(f, Len(ms), ms, st, HandsOf(d, side), left)
  BY RunsExist, Zenon DEF CanRun
<1>2. RunAll(ms, d, side, st, left) = f[Len(ms)]
  BY DEF RunAll, RunTo, Ran, Fresh
<1>3. QED
  BY <1>1, <1>2

\* Each run goes on from what the one before left.
LEMMA RunByRun ==
  ASSUME NEW f, NEW k \in Nat, NEW ms, NEW st, NEW P, NEW left, RunTo(f, k, ms, st, P, left)
  PROVE  /\ f[0] = Fresh(st)
         /\ \A n \in 1..k : f[n] = Ran(f[n - 1], ms[n], P, left)
<1>1. \A n \in 0..k : f[n] = IF n = 0 THEN Fresh(st) ELSE Ran(f[n - 1], ms[n], P, left)
  BY DEF RunTo
<1>2. 0 \in 0..k /\ \A n \in 1..k : n \in 0..k /\ n # 0
  OBVIOUS
<1>3. QED
  BY <1>1, <1>2, Zenon

\* What a run leaves.
Left(acc, m, P, left) == Saved(acc.area, Results(Calc(m, P, ZeroSheet, left)))

\* What a metric leaves does not depend on the sheet it finds: prolog cleared it.
LEMMA RanOnce ==
  ASSUME NEW acc, NEW m, NEW P, NEW left
  PROVE  /\ Ran(acc, m, P, left).area = Left(acc, m, P, left)
         /\ DOMAIN Ran(acc, m, P, left).after = DOMAIN acc.after \cup {m}
         /\ Ran(acc, m, P, left).after[m] = Left(acc, m, P, left)
         /\ \A x \in DOMAIN acc.after : x # m => Ran(acc, m, P, left).after[x] = acc.after[x]
BY DEF Ran, Saves, prolog, Left

-----------------------------------------------------------------------------
(* An area that was used before shows the answer of one that was not.      *)

Shows(a, first) == \A i \in Slots : first[i] # Nothing => a[i] = first[i]

\* So does what the runs leave, when they go on from it.
RunsShow(r, q) ==
  /\ Shows(r.area, q.area)
  /\ DOMAIN r.after = DOMAIN q.after
  /\ \A m \in DOMAIN q.after : Shows(r.after[m], q.after[m])

\* Results are saved over either area alike.
LEMMA SavedShows ==
  ASSUME NEW a, NEW b, NEW r, Shows(a, b)
  PROVE  Shows(Saved(a, r), Saved(b, r))
BY Zenon DEF Shows, Saved

\* So does a metric more, run over both areas.
LEMMA RanShows ==
  ASSUME NEW r, NEW q, NEW m, NEW P, NEW left, RunsShow(r, q)
  PROVE  RunsShow(Ran(r, m, P, left), Ran(q, m, P, left))
<1> DEFINE e == Results(Calc(m, P, ZeroSheet, left))
           r1 == Ran(r, m, P, left)
           q1 == Ran(q, m, P, left)
<1>1. Shows(Saved(r.area, e), Saved(q.area, e))
  BY SavedShows DEF RunsShow
<1>2. /\ r1.area = Saved(r.area, e) /\ r1.after[m] = Saved(r.area, e)
      /\ DOMAIN r1.after = DOMAIN r.after \cup {m}
      /\ \A x \in DOMAIN r.after : x # m => r1.after[x] = r.after[x]
  BY RanOnce DEF Left
<1>3. /\ q1.area = Saved(q.area, e) /\ q1.after[m] = Saved(q.area, e)
      /\ DOMAIN q1.after = DOMAIN q.after \cup {m}
      /\ \A x \in DOMAIN q.after : x # m => q1.after[x] = q.after[x]
  BY RanOnce DEF Left
<1> HIDE DEF e, r1, q1
<1>4. \A x \in DOMAIN q1.after : Shows(r1.after[x], q1.after[x])
  <2>1. ASSUME NEW x \in DOMAIN q1.after PROVE Shows(r1.after[x], q1.after[x])
    <3>1. CASE x = m
      BY <1>1, <1>2, <1>3, <3>1
    <3>2. CASE x # m
      <4>1. x \in DOMAIN q.after /\ x \in DOMAIN r.after
        BY <1>3, <2>1, <3>2 DEF RunsShow
      <4>2. Shows(r.after[x], q.after[x])
        BY <4>1 DEF RunsShow
      <4>3. QED
        BY <1>2, <1>3, <3>2, <4>1, <4>2
    <3>3. QED
      BY <3>1, <3>2
  <2>2. QED
    BY <2>1
<1>5. QED
  BY <1>1, <1>2, <1>3, <1>4 DEF RunsShow, r1, q1

\* So do all the runs of a tag.
LEMMA RunAllShows ==
  ASSUME NEW ms, Len(ms) \in Nat, NEW d, NEW side, NEW left, NEW st, NEW first,
         Shows(st.area, first.area)
  PROVE  RunsShow(RunAll(ms, d, side, st, left), RunAll(ms, d, side, first, left))
<1> DEFINE P == HandsOf(d, side)
           N == Len(ms)
<1>1. PICK f : RunTo(f, N, ms, st, P, left) /\ RunAll(ms, d, side, st, left) = f[N]
  BY RunAllIsLast
<1>2. PICK g : RunTo(g, N, ms, first, P, left) /\ RunAll(ms, d, side, first, left) = g[N]
  BY RunAllIsLast
<1>3. N \in Nat
  OBVIOUS
<1> HIDE DEF P, N
<1>4. /\ f[0] = Fresh(st) /\ g[0] = Fresh(first)
      /\ \A n \in 1..N : /\ f[n] = Ran(f[n - 1], ms[n], P, left)
                         /\ g[n] = Ran(g[n - 1], ms[n], P, left)
  BY <1>1, <1>2, <1>3, RunByRun
<1> DEFINE B == {n \in 0..N : ~RunsShow(f[n], g[n])}
<1>5. B = {}
  <2>1. SUFFICES ASSUME B # {} PROVE FALSE
    OBVIOUS
  <2>2. PICK k \in B : \A n \in B : k <= n
    <3>1. B \subseteq Nat
      OBVIOUS
    <3>2. QED
      BY <2>1, <3>1, LeastElement
  <2>3. RunsShow(f[0], g[0])
    BY <1>4 DEF RunsShow, Fresh
  <2>4. k \in 1..N /\ k - 1 \in 0..N /\ k - 1 \notin B
    BY <1>3, <2>2, <2>3
  <2>5. RunsShow(f[k - 1], g[k - 1])
    BY <2>4
  <2>6. RunsShow(f[k], g[k])
    BY <1>4, <2>4, <2>5, RanShows, ZenonT(30)
  <2>7. QED
    BY <2>2, <2>6
<1>6. QED
  BY <1>1, <1>2, <1>3, <1>5

\* After the runs there is the area of each of them.
LEMMA RunsDone ==
  ASSUME NEW ms, Len(ms) \in Nat, NEW d, NEW side, NEW left, NEW st
  PROVE  DOMAIN RunAll(ms, d, side, st, left).after = {ms[n] : n \in 1..Len(ms)}
<1> DEFINE P == HandsOf(d, side)
           N == Len(ms)
<1>1. PICK f : RunTo(f, N, ms, st, P, left) /\ RunAll(ms, d, side, st, left) = f[N]
  BY RunAllIsLast
<1>3. N \in Nat
  OBVIOUS
<1> HIDE DEF P, N
<1>4. f[0] = Fresh(st) /\ \A n \in 1..N : f[n] = Ran(f[n - 1], ms[n], P, left)
  BY <1>1, <1>3, RunByRun
<1> DEFINE Done(n) == DOMAIN f[n].after = {ms[k] : k \in 1..n}
           B == {n \in 0..N : ~Done(n)}
<1>5. B = {}
  <2>1. SUFFICES ASSUME B # {} PROVE FALSE
    OBVIOUS
  <2>2. PICK k \in B : \A n \in B : k <= n
    <3>1. B \subseteq Nat
      OBVIOUS
    <3>2. QED
      BY <2>1, <3>1, LeastElement
  <2>3. Done(0)
    <3>1. f[0].after = <<>> /\ DOMAIN <<>> = {}
      BY <1>4 DEF Fresh
    <3>2. QED
      BY <3>1
  <2>4. k \in 1..N /\ k - 1 \in 0..N /\ k - 1 \notin B
    <3> HIDE DEF Done
    <3>1. QED
      BY <1>3, <2>2, <2>3
  <2>5. Done(k - 1)
    BY <2>4
  <2>6. DOMAIN f[k].after = DOMAIN f[k - 1].after \cup {ms[k]}
    BY <1>4, <2>4, RanOnce
  <2>7. {ms[n] : n \in 1..k} = {ms[n] : n \in 1..k - 1} \cup {ms[k]}
    BY <2>4
  <2>8. QED
    BY <2>2, <2>5, <2>6, <2>7
<1>6. QED
  BY <1>1, <1>3, <1>5 DEF N

\* What each tag runs.
LEMMA RunsOfTag ==
  ASSUME NEW m
  PROVE  /\ Len(Runs(m)) \in Nat
         /\ m = 20 => KARPIN \in {Runs(m)[n] : n \in 1..Len(Runs(m))}
         /\ m = 21 => LAR \in {Runs(m)[n] : n \in 1..Len(Runs(m))}
<1>1. Len(Runs(m)) \in Nat
  <2>1. \/ Runs(m) = <<m>> \/ Runs(m) = <<KARPIN, JGM1>> \/ Runs(m) = <<LAR, MORSE>>
        \/ Runs(m) = set88 \/ Runs(m) = <<>>
    BY DEF Runs, SET88
  <2>2. Len(set88) = 12
    BY DEF set88
  <2>3. QED
    BY <2>1, <2>2
<1>2. CASE m = 20
  <2>1. Runs(m) = <<KARPIN, JGM1>>
    BY <1>2 DEF Runs, SET88
  <2>2. Len(Runs(m)) = 2 /\ Runs(m)[1] = KARPIN /\ 1 \in 1..2
    BY <2>1
  <2>3. QED
    BY <1>1, <1>2, <2>2
<1>3. CASE m = 21
  <2>1. Runs(m) = <<LAR, MORSE>>
    BY <1>3 DEF Runs, SET88
  <2>2. Len(Runs(m)) = 2 /\ Runs(m)[1] = LAR /\ 1 \in 1..2
    BY <2>1
  <2>3. QED
    BY <1>1, <1>3, <2>2
<1>4. QED
  BY <1>1, <1>2, <1>3

\* The same holds of the replies that move results about in the area.
LEMMA MixedShows ==
  ASSUME NEW r, NEW q, RunsShow(r, q), NEW m \in DOMAIN q.after
  PROVE  Shows(MixedCalc(r, m), MixedCalc(q, m))
<1>1. ASSUME NEW i \in Slots, MixedCalc(q, m)[i] # Nothing
      PROVE  MixedCalc(r, m)[i] = MixedCalc(q, m)[i]
  <2>1. CASE i \in 6..11
    <3>1. MixedCalc(r, m)[i] = r.after[m][i - 6] /\ MixedCalc(q, m)[i] = q.after[m][i - 6] /\ i - 6 \in Slots
      BY <1>1, <2>1 DEF MixedCalc, Slots
    <3>2. QED
      BY <1>1, <3>1 DEF RunsShow, Shows
  <2>2. CASE i \notin 6..11
    BY <1>1, <2>2 DEF MixedCalc, RunsShow, Shows
  <2>3. QED
    BY <2>1, <2>2
<1>2. QED
  BY <1>1 DEF Shows

\* set88_calc, over either area.
LEMMA SetShows ==
  ASSUME NEW r, NEW q, RunsShow(r, q)
  PROVE  Shows(set88_calc(r), set88_calc(q))
<1> DEFINE slot(x, m, i) == IF m \in DOMAIN x.after THEN x.after[m][i] ELSE 0
<1>1. ASSUME NEW m, NEW i \in Slots, slot(q, m, i) # Nothing
      PROVE  slot(r, m, i) = slot(q, m, i)
  BY <1>1 DEF RunsShow, Shows
<1>2. \A x : \A i \in Slots : set88_calc(x)[i] = CASE i < 20 -> slot(x, i, 3)
                                                  [] i \in 32..51 -> slot(x, i - 32, 0)
                                                  [] OTHER -> x.area[i]
  BY DEF set88_calc
<1>3. 0 \in Slots /\ 3 \in Slots
  BY DEF Slots
<1> HIDE DEF slot
<1>4. ASSUME NEW i \in Slots, set88_calc(q)[i] # Nothing
      PROVE  set88_calc(r)[i] = set88_calc(q)[i]
  <2>1. CASE i < 20
    BY <1>1, <1>2, <1>3, <1>4, <2>1
  <2>2. CASE ~(i < 20) /\ i \in 32..51
    BY <1>1, <1>2, <1>3, <1>4, <2>2
  <2>3. CASE ~(i < 20) /\ i \notin 32..51
    <3>1. set88_calc(r)[i] = r.area[i] /\ set88_calc(q)[i] = q.area[i]
      BY <1>2, <1>4, <2>3
    <3>2. QED
      BY <1>4, <3>1 DEF RunsShow, Shows
  <2>4. QED
    BY <2>1, <2>2, <2>3
<1>5. QED
  BY <1>4 DEF Shows

\* Every reply, over either area.
LEMMA AnswerShows ==
  ASSUME NEW m, NEW d, NEW r, NEW q, RunsShow(r, q), DOMAIN q.after = {Runs(m)[n] : n \in 1..Len(Runs(m))}
  PROVE  Shows(Answer(m, d, r), Answer(m, d, q))
<1>1. CASE m \in 0..13
  <2>1. Answer(m, d, r) = r.area /\ Answer(m, d, q) = q.area
    BY <1>1 DEF Answer, SET88, TSTALL
  <2>2. QED
    BY <2>1 DEF RunsShow
<1>2. CASE m = 20
  <2>1. Answer(m, d, r) = MixedCalc(r, KARPIN) /\ Answer(m, d, q) = MixedCalc(q, KARPIN)
    BY <1>2 DEF Answer, SET88, TSTALL
  <2>2. KARPIN \in DOMAIN q.after
    BY <1>2, RunsOfTag
  <2>3. QED
    BY <2>1, <2>2, MixedShows
<1>3. CASE m = 21
  <2>1. Answer(m, d, r) = MixedCalc(r, LAR) /\ Answer(m, d, q) = MixedCalc(q, LAR)
    BY <1>3 DEF Answer, SET88, TSTALL
  <2>2. LAR \in DOMAIN q.after
    BY <1>3, RunsOfTag
  <2>3. QED
    BY <2>1, <2>2, MixedShows
<1>4. CASE m = SET88
  <2>1. Answer(m, d, r) = set88_calc(r) /\ Answer(m, d, q) = set88_calc(q)
    BY <1>4 DEF Answer, SET88, TSTALL
  <2>2. QED
    BY <2>1, SetShows
<1>5. CASE m = TSTALL
  <2>1. Answer(m, d, r) = make_test_evals /\ Answer(m, d, q) = make_test_evals
    BY <1>5 DEF Answer, SET88, TSTALL
  <2>2. QED
    BY <2>1 DEF Shows
<1>6. CASE m \notin 0..13 /\ m # 20 /\ m # 21 /\ m # SET88 /\ m # TSTALL
  <2>1. Answer(m, d, r) = UnknownReply(d, r.area) /\ Answer(m, d, q) = UnknownReply(d, q.area)
    BY <1>6 DEF Answer
  <2>2. QED
    BY <2>1, SavedShows DEF UnknownReply, RunsShow
<1>7. QED
  BY <1>1, <1>2, <1>3, <1>4, <1>5, <1>6

\* A reply shows the answer of a server that was never asked anything else.
LEMMA ReplyShows ==
  ASSUME NEW tag, NEW d, NEW side, NEW st, NEW first, NEW left, Shows(st.area, first.area)
  PROVE  Shows(Reply(tag, d, side, st, left).area, Reply(tag, d, side, first, left).area)
<1> DEFINE m == MetricOf(tag)
           r == RunAll(Runs(m), d, side, st, left)
           q == RunAll(Runs(m), d, side, first, left)
<1>1. /\ Reply(tag, d, side, st, left).area = Answer(m, d, r)
      /\ Reply(tag, d, side, first, left).area = Answer(m, d, q)
  BY DEF Reply
<1>2. Len(Runs(m)) \in Nat
  BY RunsOfTag
<1>3. RunsShow(r, q) /\ DOMAIN q.after = {Runs(m)[n] : n \in 1..Len(Runs(m))}
  BY <1>2, RunAllShows, RunsDone
<1> HIDE DEF m, r, q
<1>4. QED
  BY <1>1, <1>3, AnswerShows

\* What the areas show, and nothing was lost.
AnswersInv ==
  /\ DOMAIN area = Sides /\ DOMAIN last = Sides
  /\ AnswersAsFirstAsked

\* A query answers as the first one would, and leaves the other side alone.
LEMMA AnswersOfStep ==
  ASSUME AnswersInv, [MetricsNext]_metricVars
  PROVE  AnswersInv'
<1>1. CASE UNCHANGED metricVars
  BY <1>1 DEF AnswersInv, AnswersAsFirstAsked, FirstAnswer, metricVars
<1>2. ASSUME NEW tag \in Tags, NEW side \in Sides, UserFunc(tag, side)
      PROVE  AnswersInv'
  <2>1. PICK left \in Leftovers :
          area' = [area EXCEPT ![side] = Reply(tag, deal, side, [sheet |-> sheet, area |-> area[side]], left).area]
    BY <1>2 DEF UserFunc
  <2>2. last' = [last EXCEPT ![side] = tag] /\ deal' = deal
    BY <1>2 DEF UserFunc
  <2>3. DOMAIN area' = Sides /\ DOMAIN last' = Sides
    BY <2>1, <2>2 DEF AnswersInv
  <2>4. ASSUME NEW s \in Sides, last'[s] # NoQuery
        PROVE  \E l \in Leftovers : Shows(area'[s], FirstAnswer(last[s], s, l)')
    <3>1. CASE s = side
      <4> DEFINE st == [sheet |-> sheet, area |-> area[side]]
                 first == [sheet |-> ZeroSheet, area |-> [i \in Slots |-> Nothing]]
      <4>1. area'[s] = Reply(tag, deal, side, st, left).area /\ last'[s] = tag
        BY <2>1, <2>2, <3>1 DEF AnswersInv
      <4>2. FirstAnswer(last[s], s, left)' = Reply(tag, deal, side, first, left).area
        BY <2>2, <3>1, <4>1 DEF FirstAnswer
      <4>3. Shows(st.area, first.area)
        BY DEF Shows
      <4> HIDE DEF st, first
      <4>4. Shows(area'[s], FirstAnswer(last[s], s, left)')
        BY <4>1, <4>2, <4>3, ReplyShows
      <4>5. QED
        BY <4>4
    <3>2. CASE s # side
      <4>1. area'[s] = area[s] /\ last'[s] = last[s]
        BY <2>1, <2>2, <3>2 DEF AnswersInv
      <4>2. PICK l \in Leftovers : Shows(area[s], FirstAnswer(last[s], s, l))
        BY <2>4, <4>1, Zenon DEF AnswersInv, AnswersAsFirstAsked, Shows
      <4>3. FirstAnswer(last[s], s, l)' = FirstAnswer(last[s], s, l)
        BY <2>2, <4>1 DEF FirstAnswer
      <4>4. QED
        BY <4>1, <4>2, <4>3
    <3>3. QED
      BY <3>1, <3>2
  <2>5. AnswersAsFirstAsked'
    BY <2>4, Zenon DEF AnswersAsFirstAsked, Shows
  <2>6. QED
    BY <2>3, <2>5 DEF AnswersInv
<1>3. QED
  BY <1>1, <1>2 DEF MetricsNext

\* Whatever was asked before, in any order and about either side, what a side's area
\* holds is the answer a fresh server gives to the last query about it (prolog,
\* userfunc): for any deals, tags and number of queries.
THEOREM AnswersStayTheirOwn == MetricsSpec => []AnswersAsFirstAsked
<1>1. MetricsInit => AnswersInv
  BY DEF MetricsInit, AnswersInv, AnswersAsFirstAsked, Sides
<1>2. AnswersInv /\ [MetricsNext]_metricVars => AnswersInv'
  BY AnswersOfStep
<1>3. AnswersInv => AnswersAsFirstAsked
  BY DEF AnswersInv
<1>4. QED
  BY <1>1, <1>2, <1>3, PTL DEF MetricsSpec

-----------------------------------------------------------------------------
(* The results of a metric come first, whatever the details after them.    *)

IsSequence(s) == \E S : s \in Seq(S)

\* The fields a metric reports are a sequence.
LEMMA FieldsAreSequence ==
  ASSUME NEW g, NEW names, Len(names) \in Nat
  PROVE  IsSequence(Fields(g, names))
<1> DEFINE n == 2 * Len(names)
           v(i) == g[names[1 + ((i - 1) % Len(names))]][(i - 1) \div Len(names)]
<1>1. n \in Nat
  OBVIOUS
<1>2. Fields(g, names) = [i \in 1..n |-> v(i)]
  BY DEF Fields
<1> HIDE DEF n, v
<1>3. [i \in 1..n |-> v(i)] \in Seq({v(i) : i \in 1..n})
  BY <1>1
<1>4. QED
  BY <1>2, <1>3, Zenon DEF IsSequence

\* So are two of them, one after the other.
LEMMA JoinedSequences ==
  ASSUME NEW s, NEW t, IsSequence(s), IsSequence(t)
  PROVE  IsSequence(s \o t)
<1>1. PICK S : s \in Seq(S)
  BY Zenon DEF IsSequence
<1>2. PICK T : t \in Seq(T)
  BY Zenon DEF IsSequence
<1>3. s \in Seq(S \cup T) /\ t \in Seq(S \cup T)
  BY <1>1, <1>2
<1>4. s \o t \in Seq(S \cup T)
  BY <1>3
<1>5. QED
  BY <1>4, Zenon DEF IsSequence

\* The first of two sequences joined comes first.
LEMMA FirstOfJoined ==
  ASSUME NEW T, NEW s \in Seq(T), NEW t \in Seq(T)
  PROVE  /\ Len(s \o t) = Len(s) + Len(t) /\ Len(s) \in Nat /\ Len(t) \in Nat
         /\ \A k \in 1..Len(s) : (s \o t)[k] = s[k]
OBVIOUS

\* The six results of a metric.
Six(e) == <<SideTotal(e.nt), e.nt[0], e.nt[1], SideTotal(e.suit), e.suit[0], e.suit[1]>>

\* The six results come first.
LEMMA SixComeFirst ==
  ASSUME NEW e, IsSequence(e.misc), NEW i \in 0..5
  PROVE  Len(Results(e)) > i /\ Results(e)[i + 1] = Six(e)[i + 1]
<1>1. PICK S : e.misc \in Seq(S)
  BY Zenon DEF IsSequence
<1>2. Results(e) = Six(e) \o e.misc
  BY DEF Results, Six
<1> DEFINE T == S \cup {Six(e)[k] : k \in 1..6}
<1>3. Six(e) \in Seq(T) /\ Len(Six(e)) = 6
  BY DEF Six
<1>4. e.misc \in Seq(T)
  BY <1>1
<1> HIDE DEF T
<1>5. /\ Len(Six(e) \o e.misc) = 6 + Len(e.misc) /\ Len(e.misc) \in Nat
      /\ \A k \in 1..6 : (Six(e) \o e.misc)[k] = Six(e)[k]
  <2>1. /\ Len(Six(e) \o e.misc) = Len(Six(e)) + Len(e.misc) /\ Len(e.misc) \in Nat
        /\ \A k \in 1..Len(Six(e)) : (Six(e) \o e.misc)[k] = Six(e)[k]
    BY <1>3, <1>4, FirstOfJoined, Zenon
  <2>2. QED
    BY <1>3, <2>1, Zenon
<1>6. QED
  BY <1>2, <1>5

\* The metrics that end with fields of their sheet.
LEMMA DetailsAreFields ==
  ASSUME NEW P, NEW t, NEW g
  PROVE  /\ IsSequence(bergen_calc(P, t, g).misc)
         /\ IsSequence(dkp_calc(P, t, g).misc)
         /\ IsSequence(goren_calc(P, t, g).misc)
         /\ IsSequence(jgm1_calc(P, t, g).misc)
         /\ IsSequence(kaplan_calc(P, t, g).misc)
         /\ IsSequence(karpin_calc(P, t, g).misc)
         /\ IsSequence(lar_calc(P, t, g).misc)
         /\ IsSequence(morse_calc(P, t, g).misc)
         /\ IsSequence(pav_calc(P, t, g).misc)
         /\ IsSequence(zarbasic_calc(P, g).misc)
<1>1. IsSequence(bergen_calc(P, t, g).misc)
  BY FieldsAreSequence DEF bergen_calc, Evaluation
<1>2. IsSequence(dkp_calc(P, t, g).misc)
  BY FieldsAreSequence DEF dkp_calc, Evaluation
<1>3. IsSequence(goren_calc(P, t, g).misc)
  BY FieldsAreSequence DEF goren_calc, Evaluation
<1>4. IsSequence(jgm1_calc(P, t, g).misc)
  BY FieldsAreSequence DEF jgm1_calc, Evaluation
<1>5. IsSequence(kaplan_calc(P, t, g).misc)
  BY FieldsAreSequence DEF kaplan_calc, Evaluation
<1>6. IsSequence(karpin_calc(P, t, g).misc)
  BY FieldsAreSequence DEF karpin_calc, Evaluation
<1>7. IsSequence(lar_calc(P, t, g).misc)
  BY FieldsAreSequence DEF lar_calc, LarEvals, Evaluation
<1>8. IsSequence(morse_calc(P, t, g).misc)
  BY FieldsAreSequence DEF morse_calc, LarEvals, Evaluation
<1>9. IsSequence(pav_calc(P, t, g).misc)
  BY FieldsAreSequence DEF pav_calc, Evaluation
<1>10. IsSequence(zarbasic_calc(P, g).misc)
  BY FieldsAreSequence DEF zarbasic_calc, Evaluation
<1>11. QED
  BY <1>1, <1>2, <1>3, <1>4, <1>5, <1>6, <1>7, <1>8, <1>9, <1>10

\* Lists of details are sequences.
LEMMA ListsAreSequences ==
  /\ \A a, b : IsSequence(<<a, b>>)
  /\ \A a, b, c : IsSequence(<<a, b, c>>)
  /\ \A a, b, c, d, e, f, g, h : IsSequence(<<a, b, c, d, e, f, g, h>>)
<1>1. ASSUME NEW a, NEW b PROVE IsSequence(<<a, b>>)
  <2>1. <<a, b>> \in Seq({a, b})
    OBVIOUS
  <2>2. QED
    BY <2>1, Zenon DEF IsSequence
<1>2. ASSUME NEW a, NEW b, NEW c PROVE IsSequence(<<a, b, c>>)
  <2>1. <<a, b, c>> \in Seq({a, b, c})
    OBVIOUS
  <2>2. QED
    BY <2>1, Zenon DEF IsSequence
<1>3. ASSUME NEW a, NEW b, NEW c, NEW d, NEW e, NEW f, NEW g, NEW h
      PROVE  IsSequence(<<a, b, c, d, e, f, g, h>>)
  <2>1. <<a, b, c, d, e, f, g, h>> \in Seq({a, b, c, d, e, f, g, h})
    OBVIOUS
  <2>2. QED
    BY <2>1, Zenon DEF IsSequence
<1>4. QED
  BY <1>1, <1>2, <1>3, Zenon

\* Bissell lists its suits, Kaplan and Rubens the parts of each hand, and
\* Sheinwold reports a field of its own.
LEMMA DetailsOfOthers ==
  ASSUME NEW P, NEW t, NEW g, NEW left
  PROVE  /\ IsSequence(bissell_calc(P, g, left).misc)
         /\ IsSequence(knr_calc(P, t, g).misc)
         /\ IsSequence(sheinw_calc(P, t, g).misc)
<1>1. IsSequence(bissell_calc(P, g, left).misc)
  <2> DEFINE suits(h) == [i \in 1..4 |-> BissellSuit(P[h], i - 1)]
             shape(h) == IF IsFlat(P[h]) THEN -1 ELSE left[h]
  <2>1. bissell_calc(P, g, left).misc = suits(0) \o suits(1) \o <<shape(0), shape(1)>>
    BY DEF bissell_calc, Evaluation
  <2>2. ASSUME NEW h PROVE IsSequence(suits(h))
    <3>1. suits(h) \in Seq({BissellSuit(P[h], i - 1) : i \in 1..4})
      OBVIOUS
    <3>2. QED
      BY <3>1, Zenon DEF IsSequence
  <2> HIDE DEF suits, shape
  <2>3. QED
    BY <2>1, <2>2, JoinedSequences, ListsAreSequences
<1>2. IsSequence(knr_calc(P, t, g).misc)
  <2> DEFINE p == Each(P, KnR_pts_all)
             short == [h \in Both |-> p[h].short]
             f == KnR_Trump_fit(t, short)
             m == KnrMisfit(P, t, short)
             final == [h \in Both |-> p[h].tot + f.dfit[h] + f.fn[h] + m[h]]
             details(h) == <<p[h].honor, p[h].short, p[h].qual, p[h].tot, f.dfit[h], f.fn[h], m[h], p[h].body>>
  <2>1. knr_calc(P, t, g).misc = <<SideTotal(final), final[0], final[1]>> \o details(0) \o details(1)
    BY DEF knr_calc, Evaluation
  <2>2. ASSUME NEW h PROVE IsSequence(details(h))
    BY ListsAreSequences, Zenon
  <2> HIDE DEF final, details
  <2>3. QED
    BY <2>1, <2>2, JoinedSequences, ListsAreSequences
<1>3. IsSequence(sheinw_calc(P, t, g).misc)
  BY FieldsAreSequence DEF sheinw_calc, Evaluation
<1>4. QED
  BY <1>1, <1>2, <1>3

\* The metrics that tags 20, 21 and 88 run: what two integers held that nothing
\* assigned is at most in the details.
Mixed == 0..12

\* Their details are a sequence, and their six results leave out what was left over.
LEMMA SixOfMetric ==
  ASSUME NEW m \in Mixed, NEW P, NEW g, NEW left
  PROVE  /\ IsSequence(Calc(m, P, g, left).misc)
         /\ \A other : Six(Calc(m, P, g, left)) = Six(Calc(m, P, g, other))
<1> DEFINE t == trump_fit_chk(P)
<1>1. \A l : Calc(m, P, g, l) = Metric(m, P, t, g, l)
  BY DEF Calc
<1> HIDE DEF t
<1> USE DEF BERGEN, BISSEL, DKP, GOREN, JGM1, KAPLAN, KARPIN, KNR, LAR, MORSE, PAV, SHEINW, ZARBAS, ZARFULL
<1>2. CASE m = BISSEL
  <2>1. \A l : Metric(m, P, t, g, l) = bissell_calc(P, g, l)
    BY <1>2 DEF Metric
  <2>2. ASSUME NEW l
        PROVE  /\ bissell_calc(P, g, l).nt = Each(P, LAMBDA h : OverSuits(LAMBDA s : BissellSuit(h, s)) - Given(IsFlat(h), 1))
               /\ bissell_calc(P, g, l).suit = bissell_calc(P, g, l).nt
    BY DEF bissell_calc, Evaluation
  <2>3. QED
    BY <1>1, <2>1, <2>2, DetailsOfOthers DEF Six
<1>3. CASE m # BISSEL
  <2>1. \A l : Metric(m, P, t, g, l) = Metric(m, P, t, g, left)
    BY <1>3 DEF Metric, Mixed
  <2>2. /\ m = BERGEN => Metric(m, P, t, g, left) = bergen_calc(P, t, g)
        /\ m = DKP => Metric(m, P, t, g, left) = dkp_calc(P, t, g)
        /\ m = GOREN => Metric(m, P, t, g, left) = goren_calc(P, t, g)
        /\ m = JGM1 => Metric(m, P, t, g, left) = jgm1_calc(P, t, g)
        /\ m = KAPLAN => Metric(m, P, t, g, left) = kaplan_calc(P, t, g)
        /\ m = KARPIN => Metric(m, P, t, g, left) = karpin_calc(P, t, g)
        /\ m = KNR => Metric(m, P, t, g, left) = knr_calc(P, t, g)
        /\ m = LAR => Metric(m, P, t, g, left) = lar_calc(P, t, g)
        /\ m = MORSE => Metric(m, P, t, g, left) = morse_calc(P, t, g)
        /\ m = PAV => Metric(m, P, t, g, left) = pav_calc(P, t, g)
        /\ m = SHEINW => Metric(m, P, t, g, left) = sheinw_calc(P, t, g)
        /\ m = ZARBAS => Metric(m, P, t, g, left) = zarbasic_calc(P, g)
    BY DEF Metric
  <2>3. IsSequence(Metric(m, P, t, g, left).misc)
    <3>1. \/ m = BERGEN \/ m = DKP \/ m = GOREN \/ m = JGM1 \/ m = KAPLAN \/ m = KARPIN
          \/ m = KNR \/ m = LAR \/ m = MORSE \/ m = PAV \/ m = SHEINW \/ m = ZARBAS
      BY <1>3 DEF Mixed
    <3>2. QED
      BY <2>2, <3>1, DetailsAreFields, DetailsOfOthers
  <2>4. QED
    BY <1>1, <2>1, <2>3 DEF Six
<1>4. QED
  BY <1>2, <1>3

-----------------------------------------------------------------------------
(* The results of a metric outlive the metrics that are run after it.      *)

\* The area a has the results of metric m.
Tells(a, m, P) == \A i \in 0..5 : a[i] = Results(Calc(m, P, ZeroSheet, Zeroes))[i + 1]

\* A metric leaves its own six results in the area.
LEMMA RanTells ==
  ASSUME NEW acc, NEW m \in Mixed, NEW P, NEW left
  PROVE  Tells(Left(acc, m, P, left), m, P)
<1> DEFINE e == Calc(m, P, ZeroSheet, left)
           z == Calc(m, P, ZeroSheet, Zeroes)
<1>1. IsSequence(e.misc) /\ IsSequence(z.misc) /\ Six(e) = Six(z)
  BY SixOfMetric
<1>2. \A i \in 0..5 : Left(acc, m, P, left)[i] = IF i < Len(Results(e)) THEN Results(e)[i + 1] ELSE acc.area[i]
  BY DEF Left, Saved, Slots
<1> HIDE DEF e, z
<1>3. ASSUME NEW i \in 0..5
      PROVE  Left(acc, m, P, left)[i] = Results(z)[i + 1]
  <2>1. i < Len(Results(e)) /\ Results(e)[i + 1] = Six(e)[i + 1] /\ Results(z)[i + 1] = Six(z)[i + 1]
    BY <1>1, SixComeFirst
  <2>2. QED
    BY <1>1, <1>2, <2>1
<1>4. QED
  BY <1>3 DEF Tells, z

\* After all the runs, the area that each left has its results, and the last area
\* those of the last.
LEMMA RunAllTells ==
  ASSUME NEW ms, Len(ms) \in Nat, \A n \in 1..Len(ms) : ms[n] \in Mixed,
         NEW d, NEW side, NEW left, NEW st
  PROVE  /\ \A n \in 1..Len(ms) : Tells(RunAll(ms, d, side, st, left).after[ms[n]], ms[n], HandsOf(d, side))
         /\ Len(ms) # 0 => Tells(RunAll(ms, d, side, st, left).area, ms[Len(ms)], HandsOf(d, side))
<1> DEFINE P == HandsOf(d, side)
           N == Len(ms)
<1>1. PICK f : RunTo(f, N, ms, st, P, left) /\ RunAll(ms, d, side, st, left) = f[N]
  BY RunAllIsLast
<1>3. N \in Nat /\ \A n \in 1..N : ms[n] \in Mixed
  OBVIOUS
<1> HIDE DEF P, N
<1>4. f[0] = Fresh(st) /\ \A n \in 1..N : f[n] = Ran(f[n - 1], ms[n], P, left)
  BY <1>1, <1>3, RunByRun
<1> DEFINE Done(n) == /\ \A k \in 1..n : ms[k] \in DOMAIN f[n].after /\ Tells(f[n].after[ms[k]], ms[k], P)
                      /\ n # 0 => Tells(f[n].area, ms[n], P)
           B == {n \in 0..N : ~Done(n)}
<1>5. B = {}
  <2>1. SUFFICES ASSUME B # {} PROVE FALSE
    OBVIOUS
  <2>2. PICK k \in B : \A n \in B : k <= n
    <3> HIDE DEF Done
    <3>1. B \subseteq Nat
      OBVIOUS
    <3>2. QED
      BY <2>1, <3>1, LeastElement
  <2>3. Done(0)
    OBVIOUS
  <2>4. k \in 1..N /\ k - 1 \in 0..N /\ k - 1 \notin B
    <3> HIDE DEF Done
    <3>1. QED
      BY <1>3, <2>2, <2>3
  <2>5. Done(k - 1)
    <3> HIDE DEF Done
    <3>1. QED
      BY <2>4
  <2>6. /\ f[k].area = Left(f[k - 1], ms[k], P, left)
        /\ DOMAIN f[k].after = DOMAIN f[k - 1].after \cup {ms[k]}
        /\ f[k].after[ms[k]] = Left(f[k - 1], ms[k], P, left)
        /\ \A x \in DOMAIN f[k - 1].after : x # ms[k] => f[k].after[x] = f[k - 1].after[x]
    BY <1>4, <2>4, RanOnce
  <2>7. Tells(Left(f[k - 1], ms[k], P, left), ms[k], P)
    BY <1>3, <2>4, RanTells
  <2>8. ASSUME NEW n \in 1..k
        PROVE  ms[n] \in DOMAIN f[k].after /\ Tells(f[k].after[ms[n]], ms[n], P)
    <3>1. CASE ms[n] = ms[k]
      BY <2>6, <2>7, <3>1
    <3>2. CASE ms[n] # ms[k]
      <4>1. n \in 1..k - 1
        BY <2>4, <2>8, <3>2
      <4>2. QED
        BY <2>5, <2>6, <3>2, <4>1
    <3>3. QED
      BY <3>1, <3>2
  <2>9. Done(k)
    BY <2>6, <2>7, <2>8
  <2>10. QED
    BY <2>2, <2>9
<1>6. Done(N)
  <2> HIDE DEF Done
  <2>1. QED
    BY <1>3, <1>5
<1>7. QED
  BY <1>1, <1>6 DEF N, P

\* The metrics that the tags 20, 21 and 88 run.
LEMMA RunsOfSets ==
  /\ Runs(20) = <<KARPIN, JGM1>> /\ Runs(21) = <<LAR, MORSE>> /\ Runs(SET88) = set88
  /\ \A tag \in {20, 21, SET88} :
       /\ MetricOf(tag) = tag /\ Len(Runs(tag)) \in Nat \ {0}
       /\ \A n \in 1..Len(Runs(tag)) : Runs(tag)[n] \in Mixed
       /\ ToSet(Runs(tag)) = {Runs(tag)[n] : n \in 1..Len(Runs(tag))}
  /\ ToSet(Runs(20)) = {KARPIN, JGM1} /\ Runs(20)[Len(Runs(20))] = JGM1
  /\ ToSet(Runs(21)) = {LAR, MORSE} /\ Runs(21)[Len(Runs(21))] = MORSE
<1> USE DEF KARPIN, JGM1, LAR, MORSE
<1>1. Runs(20) = <<KARPIN, JGM1>> /\ Runs(21) = <<LAR, MORSE>> /\ Runs(SET88) = set88
  BY DEF Runs, SET88
<1>2. Len(set88) = 12 /\ DOMAIN set88 = 1..12 /\ \A n \in 1..12 : set88[n] \in Mixed
  BY DEF set88, Mixed
<1>3. \A tag \in {20, 21, SET88} : MetricOf(tag) = tag
  BY DEF MetricOf, Aliases, SET88
<1>4. ASSUME NEW tag \in {20, 21, SET88}
      PROVE  /\ Len(Runs(tag)) \in Nat \ {0} /\ DOMAIN Runs(tag) = 1..Len(Runs(tag))
             /\ \A n \in 1..Len(Runs(tag)) : Runs(tag)[n] \in Mixed
  <2>1. CASE tag = 20 \/ tag = 21
    BY <1>1, <2>1 DEF Mixed
  <2>2. CASE tag = SET88
    <3>1. Runs(tag) = set88 /\ 12 \in Nat \ {0}
      BY <1>1, <2>2
    <3>2. QED
      BY <1>2, <3>1, Zenon
  <2>3. QED
    BY <2>1, <2>2
<1>5. /\ ToSet(<<KARPIN, JGM1>>) = {KARPIN, JGM1} /\ <<KARPIN, JGM1>>[Len(<<KARPIN, JGM1>>)] = JGM1
      /\ ToSet(<<LAR, MORSE>>) = {LAR, MORSE} /\ <<LAR, MORSE>>[Len(<<LAR, MORSE>>)] = MORSE
  BY DEF ToSet
<1>6. \A tag \in {20, 21, SET88} : ToSet(Runs(tag)) = {Runs(tag)[n] : n \in 1..Len(Runs(tag))}
  BY <1>4, Zenon DEF ToSet
<1>7. QED
  BY <1>1, <1>3, <1>4, <1>5, <1>6

\* Where the answers to the tags that run several metrics have their results.
Agrees(tag, m, a, P) ==
  /\ tag = SET88 => /\ a[m] = Results(Calc(m, P, ZeroSheet, Zeroes))[4]
                    /\ a[m + 32] = Results(Calc(m, P, ZeroSheet, Zeroes))[1]
  /\ tag \in {20, 21} =>
       \A i \in 0..5 : a[IF m \in {KARPIN, LAR} THEN i + 6 ELSE i]
                         = Results(Calc(m, P, ZeroSheet, Zeroes))[i + 1]

\* The reply to each of those tags gives every metric its results.
LEMMA ReplyAgrees ==
  ASSUME NEW tag \in {20, 21, SET88}, NEW d, NEW side, NEW st, NEW left, NEW m \in ToSet(Runs(tag))
  PROVE  Agrees(tag, m, Reply(tag, d, side, st, left).area, HandsOf(d, side))
<1> DEFINE P == HandsOf(d, side)
           r == RunAll(Runs(tag), d, side, st, left)
<1>1. MetricOf(tag) = tag
  BY RunsOfSets
<1>2. Reply(tag, d, side, st, left).area = Answer(tag, d, r)
  BY <1>1 DEF Reply
<1>3. /\ Len(Runs(tag)) \in Nat \ {0} /\ \A n \in 1..Len(Runs(tag)) : Runs(tag)[n] \in Mixed
      /\ ToSet(Runs(tag)) = {Runs(tag)[n] : n \in 1..Len(Runs(tag))}
  BY RunsOfSets
<1>4. DOMAIN r.after = ToSet(Runs(tag))
  BY <1>3, RunsDone
<1>5. /\ \A n \in 1..Len(Runs(tag)) : Tells(r.after[Runs(tag)[n]], Runs(tag)[n], P)
      /\ Tells(r.area, Runs(tag)[Len(Runs(tag))], P)
  BY <1>3, RunAllTells
<1> HIDE DEF r, P
<1>6. m \in Mixed /\ m \in DOMAIN r.after /\ Tells(r.after[m], m, P)
  BY <1>3, <1>4, <1>5
<1>7. CASE tag = SET88
  <2>1. Answer(tag, d, r) = set88_calc(r)
    BY <1>7 DEF Answer, SET88, TSTALL
  <2>2. m \in 0..12 /\ m \in Slots /\ m + 32 \in Slots /\ m + 32 \in 32..51 /\ m + 32 - 32 = m /\ m < 20
        /\ ~(m + 32 < 20)
    BY <1>6 DEF Mixed, Slots
  <2>3. set88_calc(r)[m] = r.after[m][3] /\ set88_calc(r)[m + 32] = r.after[m][0]
    BY <1>6, <2>2 DEF set88_calc
  <2>4. QED
    BY <1>2, <1>6, <1>7, <2>1, <2>3 DEF Agrees, Tells, P, SET88
<1>8. ASSUME NEW first, NEW second, first # second, tag \in {20, 21}, first \in {KARPIN, LAR}, second \notin {KARPIN, LAR},
             Answer(tag, d, r) = MixedCalc(r, first), ToSet(Runs(tag)) = {first, second},
             Runs(tag)[Len(Runs(tag))] = second
      PROVE  Agrees(tag, m, Answer(tag, d, r), P)
  <2>1. Tells(r.after[first], first, P) /\ Tells(r.area, second, P)
    <3>1. PICK n \in 1..Len(Runs(tag)) : first = Runs(tag)[n]
      <4>1. first \in ToSet(Runs(tag))
        BY <1>8, Zenon
      <4>2. QED
        BY <1>3, <4>1, Zenon
    <3>2. QED
      BY <1>5, <1>8, <3>1, Zenon
  <2>2. \A i \in 0..5 : /\ MixedCalc(r, first)[i + 6] = r.after[first][i]
                        /\ MixedCalc(r, first)[i] = r.area[i]
    BY DEF MixedCalc, Slots
  <2>3. CASE m = first
    BY <1>8, <2>1, <2>2, <2>3 DEF Agrees, Tells, SET88
  <2>4. CASE m = second
    BY <1>8, <2>1, <2>2, <2>4 DEF Agrees, Tells, SET88
  <2>5. QED
    BY <1>8, <2>3, <2>4
<1>9. CASE tag = 20
  <2>1. Answer(tag, d, r) = MixedCalc(r, KARPIN)
    BY <1>9 DEF Answer, SET88, TSTALL
  <2>2. KARPIN # JGM1 /\ KARPIN \in {KARPIN, LAR} /\ JGM1 \notin {KARPIN, LAR}
    BY DEF KARPIN, JGM1, LAR
  <2>3. ToSet(Runs(tag)) = {KARPIN, JGM1} /\ Runs(tag)[Len(Runs(tag))] = JGM1 /\ tag \in {20, 21}
    BY <1>9, RunsOfSets, Zenon
  <2>4. Agrees(tag, m, Answer(tag, d, r), P)
    BY <1>8, <2>1, <2>2, <2>3, Zenon
  <2>5. QED
    BY <1>2, <2>4, Zenon DEF P
<1>10. CASE tag = 21
  <2>1. Answer(tag, d, r) = MixedCalc(r, LAR)
    BY <1>10 DEF Answer, SET88, TSTALL
  <2>2. LAR # MORSE /\ LAR \in {KARPIN, LAR} /\ MORSE \notin {KARPIN, LAR}
    BY DEF KARPIN, MORSE, LAR
  <2>3. ToSet(Runs(tag)) = {LAR, MORSE} /\ Runs(tag)[Len(Runs(tag))] = MORSE /\ tag \in {20, 21}
    BY <1>10, RunsOfSets, Zenon
  <2>4. Agrees(tag, m, Answer(tag, d, r), P)
    BY <1>8, <2>1, <2>2, <2>3, Zenon
  <2>5. QED
    BY <1>2, <2>4, Zenon DEF P
<1>11. QED
  BY <1>7, <1>9, <1>10

SinglesInv ==
  /\ DOMAIN area = Sides /\ DOMAIN last = Sides
  /\ SetGivesTheSingles

\* The property, of one side.
SideGivesSingles(a, tag, P) ==
  tag \in {20, 21, SET88} => \A m \in ToSet(Runs(tag)) : Agrees(tag, m, a, P)

\* The property, side by side.
LEMMA SinglesBySide ==
  SetGivesTheSingles <=> \A s \in Sides : SideGivesSingles(area[s], last[s], HandsOf(deal, s))
BY Zenon DEF SetGivesTheSingles, SideGivesSingles, Agrees

\* A query keeps it: the area of its side is answered anew, the other is as it was.
LEMMA SinglesOfStep ==
  ASSUME SinglesInv, [MetricsNext]_metricVars
  PROVE  SinglesInv'
<1>1. CASE UNCHANGED metricVars
  BY <1>1 DEF SinglesInv, SetGivesTheSingles, metricVars
<1>2. ASSUME NEW tag \in Tags, NEW side \in Sides, UserFunc(tag, side)
      PROVE  SinglesInv'
  <2>1. PICK left \in Leftovers :
          area' = [area EXCEPT ![side] = Reply(tag, deal, side, [sheet |-> sheet, area |-> area[side]], left).area]
    BY <1>2 DEF UserFunc
  <2>2. last' = [last EXCEPT ![side] = tag] /\ deal' = deal
    BY <1>2 DEF UserFunc
  <2>3. DOMAIN area' = Sides /\ DOMAIN last' = Sides
    BY <2>1, <2>2 DEF SinglesInv
  <2>4. ASSUME NEW s \in Sides
        PROVE  SideGivesSingles(area'[s], last'[s], HandsOf(deal', s))
    <3>1. CASE s = side
      <4>1. area'[s] = Reply(tag, deal, side, [sheet |-> sheet, area |-> area[side]], left).area /\ last'[s] = tag
        BY <2>1, <2>2, <3>1 DEF SinglesInv
      <4>2. QED
        BY <2>2, <3>1, <4>1, ReplyAgrees DEF SideGivesSingles
    <3>2. CASE s # side
      <4>1. area'[s] = area[s] /\ last'[s] = last[s]
        BY <2>1, <2>2, <3>2 DEF SinglesInv
      <4>2. QED
        BY <2>2, <4>1, SinglesBySide DEF SinglesInv
    <3>3. QED
      BY <3>1, <3>2
  <2>5. SetGivesTheSingles'
    BY <2>4, Zenon DEF SetGivesTheSingles, SideGivesSingles, Agrees
  <2>6. QED
    BY <2>3, <2>5 DEF SinglesInv
<1>3. QED
  BY <1>1, <1>2 DEF MetricsNext

\* Tag 88 gives for each metric that is on, and tags 20 and 21 for both of theirs, what
\* the metric gives alone (set88_calc, mixed_JGM1calc, mixed_LARcalc), for any deals.
THEOREM SetsGiveTheSingles == MetricsSpec => []SetGivesTheSingles
<1>1. MetricsInit => SinglesInv
  BY DEF MetricsInit, SinglesInv, SetGivesTheSingles, Sides, NoQuery, SET88
<1>2. SinglesInv /\ [MetricsNext]_metricVars => SinglesInv'
  BY SinglesOfStep
<1>3. SinglesInv => SetGivesTheSingles
  BY DEF SinglesInv
<1>4. QED
  BY <1>1, <1>2, <1>3, PTL DEF MetricsSpec

-----------------------------------------------------------------------------
(* Pavlicek's short suits.                                                 *)

\* The honour points of a card.
Worth(r) == Given(r >= Jack, r - Ten)

\* The higher and the lower of two cards.
LEMMA ExtremesOfTwo ==
  ASSUME NEW a \in Int, NEW b \in Int, a >= b
  PROVE  /\ Max({a, b}) = a /\ Min({a, b}) = b
         /\ Max({b, a}) = a /\ Min({b, a}) = b
<1>1. \A x \in {a, b} : (\A y \in {a, b} : x >= y) => x = a
  OBVIOUS
<1>2. \A x \in {a, b} : (\A y \in {a, b} : x <= y) => x = b
  OBVIOUS
<1>3. (\A y \in {a, b} : a >= y) /\ (\A y \in {a, b} : b <= y) /\ {b, a} = {a, b}
  OBVIOUS
<1>4. QED
  BY <1>1, <1>2, <1>3 DEF Max, Min

\* A suit of one card, and of two.
LEMMA SuitOfOne ==
  ASSUME NEW h \in HandType, NEW s \in MetricSuits, Length(h, s) = 1
  PROVE  \E a \in CardRanks : h[s] = {a} /\ Points(h, s) = Worth(a)
<1> DEFINE c == h[s]
           f == [r \in c |-> Worth(r)]
<1>0. c \subseteq CardRanks
  BY DEF HandType
<1>1. IsFiniteSet(c) /\ Cardinality(c) = 1
  BY CountsOfHand DEF Length
<1>2. Points(h, s) = SumFunctionOnSet(f, c)
  BY DEF Points, SumFunction, Worth
<1> HIDE DEF c, f
<1>3. PICK a : c = {a}
  BY <1>1, FS_Singleton
<1>4. a \in CardRanks
  BY <1>0, <1>3
<1>5. Summable(f, {a}) /\ f[a] = Worth(a) /\ Worth(a) \in Int
  BY <1>1, <1>3, <1>4 DEF f, Summable, Worth, CardRanks, Given, Jack, Ten
<1>6. SumFunctionOnSet(f, {}) = 0
  <2>1. Summable(f, {})
    BY <1>5, SummableSubset
  <2>2. QED
    BY <2>1, SumOnSet
<1>7. SumFunctionOnSet(f, {a}) = f[a] + SumFunctionOnSet(f, {a} \ {a})
  BY <1>5, SumOnSet
<1>8. {a} \ {a} = {}
  OBVIOUS
<1>9. QED
  BY <1>2, <1>3, <1>4, <1>5, <1>6, <1>7, <1>8 DEF c

\* A doubleton has a higher and a lower card, and the points of both.
LEMMA SuitOfTwo ==
  ASSUME NEW h \in HandType, NEW s \in MetricSuits, Length(h, s) = 2
  PROVE  \E a, b \in CardRanks : a > b /\ h[s] = {a, b} /\ Points(h, s) = Worth(a) + Worth(b)
<1> DEFINE c == h[s]
           f == [r \in c |-> Worth(r)]
<1>0. c \subseteq CardRanks
  BY DEF HandType
<1>1. IsFiniteSet(c) /\ Cardinality(c) = 2
  BY CountsOfHand DEF Length
<1>2. Points(h, s) = SumFunctionOnSet(f, c)
  BY DEF Points, SumFunction, Worth
<1> HIDE DEF c, f
<1>3. PICK x \in c : TRUE
  BY <1>1, FS_EmptySet
<1>4. IsFiniteSet(c \ {x}) /\ Cardinality(c \ {x}) = 1
  BY <1>1, <1>3, FS_RemoveElement
<1>5. PICK y : c \ {x} = {y}
  BY <1>4, FS_Singleton
<1>6. c = {x, y} /\ x # y /\ x \in CardRanks /\ y \in CardRanks
  BY <1>0, <1>3, <1>5
<1>7. PICK a \in CardRanks, b \in CardRanks : a > b /\ c = {a, b}
  BY <1>6 DEF CardRanks
<1>8. /\ Summable(f, c) /\ f[a] = Worth(a) /\ f[b] = Worth(b)
      /\ a \in c /\ c \ {a} = {b} /\ {b} \ {b} = {} /\ Worth(a) \in Int /\ Worth(b) \in Int
  BY <1>0, <1>1, <1>7 DEF f, Summable, Worth, CardRanks, Given, Jack, Ten
<1>9. Summable(f, {b}) /\ Summable(f, {})
  BY <1>7, <1>8, SummableSubset
<1>10. /\ SumFunctionOnSet(f, c) = f[a] + SumFunctionOnSet(f, c \ {a})
       /\ SumFunctionOnSet(f, {b}) = f[b] + SumFunctionOnSet(f, {b} \ {b})
       /\ SumFunctionOnSet(f, {}) = 0
  BY <1>8, <1>9, SumOnSet
<1>11. SumFunctionOnSet(f, c) = Worth(a) + Worth(b)
  <2>1. SumFunctionOnSet(f, {b}) = Worth(b)
    BY <1>8, <1>10
  <2>2. SumFunctionOnSet(f, c) = Worth(a) + SumFunctionOnSet(f, {b})
    BY <1>8, <1>10, Zenon
  <2>3. QED
    BY <2>1, <2>2, Zenon
<1>12. QED
  BY <1>2, <1>7, <1>11, Zenon DEF c

\* The table of doubletons takes off a point where either counts.
LEMMA DoubletonTable ==
  \A i \in 1..16 : dbl_HH_adj(PAV)[i] = IF Doubletons[i] \in EitherNotBoth THEN -4 ELSE 0
<1> USE DEF Ace, King, Queen, Jack, Ten, Nine
<1>1. dbl_HH_adj(PAV) = <<0, 0, 0, 0, 0, -4, -4, 0, 0, -4, -4, -4, -4, -4, 0, 0>>
  BY DEF dbl_HH_adj, PAV, BERGEN, BISSEL, GOREN, SHEINW, JGM1, KAPLAN, KARPIN, LAR, MORSE, ZARBAS
<1>2. \A x, y : <<x, y>> \in EitherNotBoth <=>
        \/ x = King /\ y \in {Queen, Jack}
        \/ x = Queen /\ y \in {Jack, Ten, Nine}
        \/ x = Jack /\ y \in {Ten, Nine}
  BY DEF EitherNotBoth
<1>3. Doubletons[1] = <<Ace, King>>
  BY DEF Doubletons
<1>4. Doubletons[2] = <<Ace, Queen>>
  BY DEF Doubletons
<1>5. Doubletons[3] = <<Ace, Jack>>
  BY DEF Doubletons
<1>6. Doubletons[4] = <<Ace, Ten>>
  BY DEF Doubletons
<1>7. Doubletons[5] = <<Ace, Nine>>
  BY DEF Doubletons
<1>8. Doubletons[6] = <<King, Queen>>
  BY DEF Doubletons
<1>9. Doubletons[7] = <<King, Jack>>
  BY DEF Doubletons
<1>10. Doubletons[8] = <<King, Ten>>
  BY DEF Doubletons
<1>11. Doubletons[9] = <<King, Nine>>
  BY DEF Doubletons
<1>12. Doubletons[10] = <<Queen, Jack>>
  BY DEF Doubletons
<1>13. Doubletons[11] = <<Queen, Ten>>
  BY DEF Doubletons
<1>14. Doubletons[12] = <<Queen, Nine>>
  BY DEF Doubletons
<1>15. Doubletons[13] = <<Jack, Ten>>
  BY DEF Doubletons
<1>16. Doubletons[14] = <<Jack, Nine>>
  BY DEF Doubletons
<1>17. Doubletons[15] = <<Ten, Nine>>
  BY DEF Doubletons
<1>18. Doubletons[16] = <<Nine, Nine>>
  BY DEF Doubletons
<1>19. dbl_HH_adj(PAV)[1] = 0 /\ Doubletons[1] \notin EitherNotBoth
  BY <1>1, <1>2, <1>3
<1>20. dbl_HH_adj(PAV)[2] = 0 /\ Doubletons[2] \notin EitherNotBoth
  BY <1>1, <1>2, <1>4
<1>21. dbl_HH_adj(PAV)[3] = 0 /\ Doubletons[3] \notin EitherNotBoth
  BY <1>1, <1>2, <1>5
<1>22. dbl_HH_adj(PAV)[4] = 0 /\ Doubletons[4] \notin EitherNotBoth
  BY <1>1, <1>2, <1>6
<1>23. dbl_HH_adj(PAV)[5] = 0 /\ Doubletons[5] \notin EitherNotBoth
  BY <1>1, <1>2, <1>7
<1>24. dbl_HH_adj(PAV)[6] = -4 /\ Doubletons[6] \in EitherNotBoth
  BY <1>1, <1>2, <1>8
<1>25. dbl_HH_adj(PAV)[7] = -4 /\ Doubletons[7] \in EitherNotBoth
  BY <1>1, <1>2, <1>9
<1>26. dbl_HH_adj(PAV)[8] = 0 /\ Doubletons[8] \notin EitherNotBoth
  BY <1>1, <1>2, <1>10
<1>27. dbl_HH_adj(PAV)[9] = 0 /\ Doubletons[9] \notin EitherNotBoth
  BY <1>1, <1>2, <1>11
<1>28. dbl_HH_adj(PAV)[10] = -4 /\ Doubletons[10] \in EitherNotBoth
  BY <1>1, <1>2, <1>12
<1>29. dbl_HH_adj(PAV)[11] = -4 /\ Doubletons[11] \in EitherNotBoth
  BY <1>1, <1>2, <1>13
<1>30. dbl_HH_adj(PAV)[12] = -4 /\ Doubletons[12] \in EitherNotBoth
  BY <1>1, <1>2, <1>14
<1>31. dbl_HH_adj(PAV)[13] = -4 /\ Doubletons[13] \in EitherNotBoth
  BY <1>1, <1>2, <1>15
<1>32. dbl_HH_adj(PAV)[14] = -4 /\ Doubletons[14] \in EitherNotBoth
  BY <1>1, <1>2, <1>16
<1>33. dbl_HH_adj(PAV)[15] = 0 /\ Doubletons[15] \notin EitherNotBoth
  BY <1>1, <1>2, <1>17
<1>34. dbl_HH_adj(PAV)[16] = 0 /\ Doubletons[16] \notin EitherNotBoth
  BY <1>1, <1>2, <1>18
<1>35. \A i \in 1..16 : i = 1 \/ i = 2 \/ i = 3 \/ i = 4 \/ i = 5 \/ i = 6 \/ i = 7 \/ i = 8
                       \/ i = 9 \/ i = 10 \/ i = 11 \/ i = 12 \/ i = 13 \/ i = 14 \/ i = 15 \/ i = 16
  OBVIOUS
<1>36. QED
  BY <1>19, <1>20, <1>21, <1>22, <1>23, <1>24, <1>25, <1>26, <1>27, <1>28, <1>29, <1>30, <1>31, <1>32, <1>33, <1>34, <1>35

\* Every doubleton is in the list.
LEMMA DoubletonListed ==
  ASSUME NEW a \in CardRanks, NEW b \in CardRanks, a > b
  PROVE  LET i == CHOOSE k \in DOMAIN Doubletons : Doubletons[k] = <<OrSpot(a), OrSpot(b)>>
         IN  i \in 1..16 /\ Doubletons[i] = <<OrSpot(a), OrSpot(b)>>
<1> USE DEF Ace, King, Queen, Jack, Ten, Nine
<1>1. DOMAIN Doubletons = 1..16
  BY DEF Doubletons
<1>2. /\ Doubletons[1] = <<Ace, King>>
      /\ Doubletons[2] = <<Ace, Queen>>
      /\ Doubletons[3] = <<Ace, Jack>>
      /\ Doubletons[4] = <<Ace, Ten>>
      /\ Doubletons[5] = <<Ace, Nine>>
      /\ Doubletons[6] = <<King, Queen>>
      /\ Doubletons[7] = <<King, Jack>>
      /\ Doubletons[8] = <<King, Ten>>
      /\ Doubletons[9] = <<King, Nine>>
      /\ Doubletons[10] = <<Queen, Jack>>
      /\ Doubletons[11] = <<Queen, Ten>>
      /\ Doubletons[12] = <<Queen, Nine>>
      /\ Doubletons[13] = <<Jack, Ten>>
      /\ Doubletons[14] = <<Jack, Nine>>
      /\ Doubletons[15] = <<Ten, Nine>>
      /\ Doubletons[16] = <<Nine, Nine>>
  BY DEF Doubletons
<1>3. \/ OrSpot(a) = Ace /\ OrSpot(b) = King
      \/ OrSpot(a) = Ace /\ OrSpot(b) = Queen
      \/ OrSpot(a) = Ace /\ OrSpot(b) = Jack
      \/ OrSpot(a) = Ace /\ OrSpot(b) = Ten
      \/ OrSpot(a) = Ace /\ OrSpot(b) = Nine
      \/ OrSpot(a) = King /\ OrSpot(b) = Queen
      \/ OrSpot(a) = King /\ OrSpot(b) = Jack
      \/ OrSpot(a) = King /\ OrSpot(b) = Ten
      \/ OrSpot(a) = King /\ OrSpot(b) = Nine
      \/ OrSpot(a) = Queen /\ OrSpot(b) = Jack
      \/ OrSpot(a) = Queen /\ OrSpot(b) = Ten
      \/ OrSpot(a) = Queen /\ OrSpot(b) = Nine
      \/ OrSpot(a) = Jack /\ OrSpot(b) = Ten
      \/ OrSpot(a) = Jack /\ OrSpot(b) = Nine
      \/ OrSpot(a) = Ten /\ OrSpot(b) = Nine
      \/ OrSpot(a) = Nine /\ OrSpot(b) = Nine
  BY DEF OrSpot, CardRanks
<1>4. \E k \in 1..16 : Doubletons[k] = <<OrSpot(a), OrSpot(b)>>
  BY <1>2, <1>3
<1>5. QED
  BY <1>1, <1>4, Zenon

\* What Pavlicek takes off a singleton.
LEMMA StiffOfPav ==
  ASSUME NEW a \in CardRanks
  PROVE  Given(OrSpot(a) >= Ten, stiff_H_adj(PAV)[Ace + 1 - OrSpot(a)])
           = IF a = Jack THEN -4 ELSE IF a \in {King, Queen} THEN -8 ELSE 0
<1> USE DEF Ace, King, Queen, Jack, Ten, Nine
<1>1. stiff_H_adj(PAV) = <<0, -8, -8, -4, 0>>
  BY DEF stiff_H_adj, PAV, BERGEN, BISSEL, GOREN, SHEINW, JGM1, KAPLAN, KARPIN, LAR, MORSE, ZARBAS
<1>2. CASE a < Ten
  BY <1>2 DEF OrSpot, Given, CardRanks
<1>3. CASE a \in {Ten, Jack, Queen, King, Ace}
  BY <1>1, <1>3 DEF OrSpot, Given
<1>4. QED
  BY <1>2, <1>3 DEF CardRanks

\* Which holdings count for one thing alone.
LEMMA HoldingsInList ==
  /\ \A a : <<a>> \in EitherNotBoth <=> a \in {King, Queen, Jack}
  /\ \A a, b \in CardRanks :
       <<OrSpot(a), OrSpot(b)>> \in EitherNotBoth =>
         /\ OrSpot(a) = a /\ a >= Jack
BY DEF EitherNotBoth, OrSpot, Ace, King, Queen, Jack, Ten, Nine, CardRanks

\* The property, of a holding.
HoldingByTheBook(h, s) ==
  LET hcp == Points(h, s)
      dpts == DptsTable(Length(h, s))
      held == IF Length(h, s) = 1 THEN <<Max(h[s])>> ELSE <<OrSpot(Max(h[s])), OrSpot(Min(h[s]))>>
      worth == IF held \in EitherNotBoth THEN Max({hcp, dpts}) ELSE hcp + dpts
  IN  4 * hcp + shortHon_adj(h, s, PAV) + 4 * dpts = 4 * worth

\* A singleton, in the table stiff_H_adj.
LEMMA SingletonByTheBook ==
  ASSUME NEW h \in HandType, NEW s \in MetricSuits, Length(h, s) = 1
  PROVE  HoldingByTheBook(h, s)
<1>1. PICK a \in CardRanks : h[s] = {a} /\ Points(h, s) = Worth(a)
  BY SuitOfOne
<1>2. a \in Int /\ {a} = {a, a} /\ a >= a
  BY DEF CardRanks
<1>3. Max(h[s]) = a
  BY <1>1, <1>2, ExtremesOfTwo
<1>4. DptsTable(Length(h, s)) = 2
  BY DEF DptsTable, Given
<1>5. shortHon_adj(h, s, PAV) = IF a = Jack THEN -4 ELSE IF a \in {King, Queen} THEN -8 ELSE 0
  BY <1>3, StiffOfPav DEF shortHon_adj
<1>6. Worth(a) \in Int /\ Worth(a) = IF a = Ace THEN 4 ELSE IF a = King THEN 3 ELSE IF a = Queen THEN 2
                                     ELSE IF a = Jack THEN 1 ELSE 0
  BY DEF Worth, Given, CardRanks, Jack, Queen, King, Ace, Ten
<1>7. Max({Worth(a), 2}) = IF Worth(a) >= 2 THEN Worth(a) ELSE 2
  BY <1>6, ExtremesOfTwo
<1>8. <<a>> \in EitherNotBoth <=> a \in {King, Queen, Jack}
  BY HoldingsInList, Zenon
<1> DEFINE worth == IF <<a>> \in EitherNotBoth THEN Max({Worth(a), 2}) ELSE Worth(a) + 2
<1>9. 4 * Worth(a) + shortHon_adj(h, s, PAV) + 4 * 2 = 4 * worth
  BY <1>5, <1>6, <1>7, <1>8 DEF Jack, Queen, King, Ace
<1>10. QED
  BY <1>1, <1>3, <1>4, <1>9, Zenon DEF HoldingByTheBook

\* A doubleton, in the table dbl_HH_adj.
LEMMA DoubletonByTheBook ==
  ASSUME NEW h \in HandType, NEW s \in MetricSuits, Length(h, s) = 2
  PROVE  HoldingByTheBook(h, s)
<1>1. PICK a, b \in CardRanks : a > b /\ h[s] = {a, b} /\ Points(h, s) = Worth(a) + Worth(b)
  BY SuitOfTwo
<1>2. a \in Int /\ b \in Int /\ a >= b
  BY <1>1 DEF CardRanks
<1>3. Max(h[s]) = a /\ Min(h[s]) = b
  BY <1>1, <1>2, ExtremesOfTwo
<1>4. DptsTable(Length(h, s)) = 1
  BY DEF DptsTable, Given
<1> DEFINE i == CHOOSE k \in DOMAIN Doubletons : Doubletons[k] = <<OrSpot(a), OrSpot(b)>>
           held == <<OrSpot(a), OrSpot(b)>>
           hcp == Points(h, s)
<1>5. shortHon_adj(h, s, PAV) = dbl_HH_adj(PAV)[i]
  BY <1>3 DEF shortHon_adj
<1>6. i \in 1..16 /\ Doubletons[i] = held
  BY <1>1, DoubletonListed
<1> HIDE DEF i
<1>7. shortHon_adj(h, s, PAV) = IF held \in EitherNotBoth THEN -4 ELSE 0
  BY <1>5, <1>6, DoubletonTable, Zenon
<1>8. Worth(a) \in Nat /\ Worth(b) \in Nat /\ hcp \in Int
  BY <1>1 DEF Worth, Given, CardRanks, Jack, Ten
<1>9. held \in EitherNotBoth => hcp >= 1 /\ Max({hcp, 1}) = hcp
  <2>1. SUFFICES ASSUME held \in EitherNotBoth PROVE hcp >= 1 /\ Max({hcp, 1}) = hcp
    OBVIOUS
  <2>2. a >= Jack
    BY <2>1, HoldingsInList, Zenon
  <2>3. Worth(a) >= 1
    BY <1>2, <2>2 DEF Worth, Given, Jack, Ten
  <2>4. hcp >= 1
    BY <1>1, <1>8, <2>3
  <2>5. QED
    BY <1>8, <2>4, ExtremesOfTwo
<1> HIDE DEF held, hcp
<1> DEFINE worth == IF held \in EitherNotBoth THEN Max({hcp, 1}) ELSE hcp + 1
<1>10. 4 * hcp + shortHon_adj(h, s, PAV) + 4 * 1 = 4 * worth
  BY <1>7, <1>8, <1>9
<1>11. Length(h, s) # 1
  OBVIOUS
<1>12. QED
  BY <1>3, <1>4, <1>10, <1>11, Zenon DEF HoldingByTheBook, held, hcp

\* The tables of Pavlicek's adjustments for singletons and doubletons agree with the
\* comment on pav_calc in every entry, for every short suit of every deal.
THEOREM ShortSuitsByTheBook == MetricsSpec => []ShortHonoursByTheBook
<1>1. deal \in Deals => ShortHonoursByTheBook
  <2>1. SUFFICES ASSUME deal \in Deals, NEW p \in Seats, NEW s \in MetricSuits, Length(deal[p], s) \in 1..2
                 PROVE  HoldingByTheBook(deal[p], s)
    BY Zenon DEF ShortHonoursByTheBook, HoldingByTheBook
  <2>2. deal[p] \in HandType
    BY <2>1, MetricsAssumption, Zenon DEF MetricsAssumption, HandType
  <2>3. Length(deal[p], s) = 1 \/ Length(deal[p], s) = 2
    BY <2>1
  <2>4. QED
    BY <2>2, <2>3, SingletonByTheBook, DoubletonByTheBook
<1>2. QED
  BY <1>1, DealStays, PTL

-----------------------------------------------------------------------------
(* The four Cs of a suit, by its length and its cards from the eight up.   *)

HonorsOf(n, a, k, q, j, t, i) ==
  300 * a + Given(k = 1, IF n = 1 THEN 50 ELSE 200)
  + Given(q = 1 /\ n = 2, IF a + k > 0 THEN 50 ELSE 25)
  + Given(q = 1 /\ n >= 3, IF a + k > 0 THEN 100 ELSE 75)
  + Given(j = 1 /\ a + k + q \in 1..2, 25 * (a + k + q))
  + Given(t = 1 /\ (a + k + q + j = 2 \/ (a + k + q + j = 1 /\ i = 1)), 25)

\* The quality of a suit before its length, in fifties.
FiftiesOf(n, a, k, q, j, t, i, e) ==
  8 * a + 6 * k + 4 * q + 2 * j + t
  + Given(n = 7 /\ (q = 0 \/ j = 0), 2) + Given(n >= 8 /\ q = 0, 4)
  + Given(j = 0 /\ (n >= 9 \/ (n = 8 /\ q = 1)), 2)
  + Given(n <= 6, Given(t = 1 /\ (a + k + q + j > 1 \/ j = 1), 1)
                  + Given(i = 1 /\ (a + k + q + j = 2 \/ e = 1 \/ t = 1), 1))

FourCs(n, a, k, q, j, t, i, e) == HonorsOf(n, a, k, q, j, t, i) + 5 * (n * FiftiesOf(n, a, k, q, j, t, i, e))

\* Whether a card is there, when lo has been changed for hi.
Changed(v, r, lo, hi) == IF r = hi THEN 1 ELSE IF r = lo THEN 0 ELSE v

\* The cards there may be, and the change there may be of one of them.
CanChange(n, a, k, q, j, t, i, e, lo, hi) ==
  /\ n \in 1..13 /\ a \in 0..1 /\ k \in 0..1 /\ q \in 0..1 /\ j \in 0..1 /\ t \in 0..1 /\ i \in 0..1 /\ e \in 0..1
  /\ a + k + q + j + t + i + e <= n /\ n - (a + k + q + j + t + i + e) <= 6
  /\ lo \in 0..12 /\ hi \in 0..12 /\ lo < hi
  /\ (hi = 12 => a = 0) /\ (hi = 11 => k = 0) /\ (hi = 10 => q = 0) /\ (hi = 9 => j = 0)
  /\ (hi = 8 => t = 0) /\ (hi = 7 => i = 0) /\ (hi = 6 => e = 0)
  /\ (lo = 11 => k = 1) /\ (lo = 10 => q = 1) /\ (lo = 9 => j = 1) /\ (lo = 8 => t = 1)
  /\ (lo = 7 => i = 1) /\ (lo = 6 => e = 1)
  /\ lo < 6 => a + k + q + j + t + i + e < n
  /\ lo = 8 /\ hi = 9 => n < 5
  /\ lo = 8 /\ hi = 10 => n < 11

\* A higher card for a lower one, in numbers: for every length and all honours.
LEMMA ChangeCountsMore ==
  ASSUME NEW n, NEW a, NEW k, NEW q, NEW j, NEW t, NEW i, NEW e, NEW lo, NEW hi,
         CanChange(n, a, k, q, j, t, i, e, lo, hi)
  PROVE  FourCs(n, Changed(a, 12, lo, hi), Changed(k, 11, lo, hi), Changed(q, 10, lo, hi),
                Changed(j, 9, lo, hi), Changed(t, 8, lo, hi), Changed(i, 7, lo, hi), Changed(e, 6, lo, hi))
           >= FourCs(n, a, k, q, j, t, i, e)
<1> USE DEF CanChange, Changed, FourCs, HonorsOf, FiftiesOf, Given
<1>1. CASE hi = 12
  BY <1>1
<1>2. CASE hi = 11
  BY <1>2
<1>3. CASE hi = 10
  BY <1>3
<1>4. CASE hi = 9
  BY <1>4
<1>5. CASE hi = 8
  BY <1>5
<1>6. CASE hi = 7
  BY <1>6
<1>7. CASE hi = 6
  BY <1>7
<1>8. CASE hi < 6
  BY <1>8
<1> HIDE DEF Changed, FourCs, HonorsOf, FiftiesOf, Given
<1>9. QED
  BY <1>1, <1>2, <1>3, <1>4, <1>5, <1>6, <1>7, <1>8

\* Whether a suit has a card.
Has(c, r) == Given(r \in c, 1)

\* The cards above a rank are those above the next, and the next if it is held.
LEMMA OneMoreAbove ==
  ASSUME NEW c, IsFiniteSet(c), c \subseteq CardRanks, NEW r \in Int
  PROVE  /\ Higher(c, r) \in Nat
         /\ Higher(c, r) = Higher(c, r + 1) + Has(c, r + 1)
<1> DEFINE T(v) == {x \in c : x > v}
<1>1. \A v : IsFiniteSet(T(v)) /\ Cardinality(T(v)) \in Nat
  BY FS_Subset, FS_CardinalityType
<1>2. c \subseteq Int
  BY DEF CardRanks
<1>3. r + 1 \notin T(r + 1)
  OBVIOUS
<1>4. T(r) = IF r + 1 \in c THEN T(r + 1) \cup {r + 1} ELSE T(r + 1)
  <2>1. \A x \in c : x > r <=> x > r + 1 \/ x = r + 1
    BY <1>2
  <2>2. r + 1 > r
    OBVIOUS
  <2>3. QED
    BY <2>1, <2>2, Zenon
<1>5. Cardinality(T(r + 1) \cup {r + 1}) = Cardinality(T(r + 1)) + 1
  BY <1>1, <1>3, FS_AddElement
<1>6. Higher(c, r) = Cardinality(T(r)) /\ Higher(c, r + 1) = Cardinality(T(r + 1))
  BY DEF Higher
<1> HIDE DEF T
<1>7. QED
  BY <1>1, <1>4, <1>5, <1>6 DEF Has, Given

\* The cards from the eight up, and the spots below them.
LEMMA CardsAbove ==
  ASSUME NEW c, c \subseteq CardRanks
  PROVE  /\ Higher(c, Queen) = Has(c, Ace) + Has(c, King)
         /\ Higher(c, Jack) = Has(c, Ace) + Has(c, King) + Has(c, Queen)
         /\ Higher(c, Ten) = Has(c, Ace) + Has(c, King) + Has(c, Queen) + Has(c, Jack)
         /\ Higher(c, 5) = Has(c, Ace) + Has(c, King) + Has(c, Queen) + Has(c, Jack) + Has(c, Ten)
                           + Has(c, Nine) + Has(c, Eight)
         /\ IsFiniteSet(c) /\ Cardinality(c) \in 0..13
         /\ Higher(c, 5) <= Cardinality(c) /\ Cardinality(c) - Higher(c, 5) <= 6
         /\ (\E x \in c : x < 6) => Higher(c, 5) < Cardinality(c)
<1>1. IsFiniteSet(CardRanks) /\ Cardinality(CardRanks) = 13
  <2>1. 0 \in Int /\ 12 \in Int
    OBVIOUS
  <2>2. IsFiniteSet(CardRanks) /\ Cardinality(CardRanks) = IF 0 > 12 THEN 0 ELSE 12 - 0 + 1
    BY <2>1, FS_Interval, Zenon DEF CardRanks
  <2>3. QED
    BY <2>2
<1>2. IsFiniteSet(c) /\ Cardinality(c) \in 0..13
  <2>1. IsFiniteSet(c) /\ Cardinality(c) <= Cardinality(CardRanks) /\ Cardinality(c) \in Nat
    BY <1>1, FS_Subset, FS_CardinalityType
  <2>2. QED
    BY <1>1, <2>1
<1>3. Higher(c, 12) = 0
  <2>1. \A x \in c : ~(x > 12)
    BY DEF CardRanks
  <2>2. {x \in c : x > 12} = {}
    BY <2>1, Zenon
  <2>3. QED
    BY <2>2, FS_EmptySet DEF Higher
<1>4. /\ Higher(c, 11) = Higher(c, 12) + Has(c, 12)
      /\ Higher(c, 10) = Higher(c, 11) + Has(c, 11)
      /\ Higher(c, 9) = Higher(c, 10) + Has(c, 10)
      /\ Higher(c, 8) = Higher(c, 9) + Has(c, 9)
      /\ Higher(c, 7) = Higher(c, 8) + Has(c, 8)
      /\ Higher(c, 6) = Higher(c, 7) + Has(c, 7)
      /\ Higher(c, 5) = Higher(c, 6) + Has(c, 6)
      /\ Higher(c, 5) \in Nat
  <2>1. \A r \in Int : Higher(c, r) \in Nat /\ Higher(c, r) = Higher(c, r + 1) + Has(c, r + 1)
    BY <1>2, OneMoreAbove
  <2>2. \A r \in {5, 6, 7, 8, 9, 10, 11} : r \in Int
    OBVIOUS
  <2> HIDE DEF Has
  <2>3. QED
    BY <2>1, <2>2
<1> DEFINE U == {x \in c : x > 5}
           V == c \cap 0..5
<1>5. Cardinality(c) = Cardinality(U) + Cardinality(V)
  <2>1. c = U \cup V /\ U \cap V = {}
    <3>1. \A x \in c : x > 5 <=> ~(x \in 0..5)
      BY DEF CardRanks
    <3>2. QED
      BY <3>1, Zenon
  <2>2. IsFiniteSet(U) /\ IsFiniteSet(V)
    BY <1>2, FS_Subset
  <2>3. Cardinality(U \cup V) = Cardinality(U) + Cardinality(V) - Cardinality(U \cap V) /\ Cardinality(U) \in Nat
        /\ Cardinality(V) \in Nat
    BY <2>2, FS_Union, FS_CardinalityType
  <2>4. Cardinality(U \cap V) = 0
    BY <2>1, FS_EmptySet
  <2> HIDE DEF U, V
  <2>5. QED
    BY <2>1, <2>3, <2>4
<1>6. Cardinality(V) \in Nat /\ Cardinality(V) <= 6 /\ (V # {} => Cardinality(V) > 0)
  <2>1. IsFiniteSet(0..5) /\ Cardinality(0..5) = 6
    <3>1. 0 \in Int /\ 5 \in Int
      OBVIOUS
    <3>2. IsFiniteSet(0..5) /\ Cardinality(0..5) = IF 0 > 5 THEN 0 ELSE 5 - 0 + 1
      BY <3>1, FS_Interval, Zenon
    <3>3. QED
      BY <3>2
  <2>2. V \subseteq 0..5
    OBVIOUS
  <2> HIDE DEF V
  <2>3. IsFiniteSet(V) /\ Cardinality(V) <= Cardinality(0..5) /\ Cardinality(V) \in Nat
    BY <2>1, <2>2, FS_Subset, FS_CardinalityType
  <2>4. V # {} => Cardinality(V) # 0
    BY <2>3, FS_EmptySet
  <2>5. QED
    BY <2>1, <2>3, <2>4
<1>7. (\E x \in c : x < 6) => V # {}
  BY DEF CardRanks
<1>8. Higher(c, 5) = Cardinality(U)
  BY DEF Higher
<1> HIDE DEF U, V
<1>9. \A r : Has(c, r) \in 0..1
  BY DEF Has, Given
<1>10. QED
  BY <1>2, <1>3, <1>4, <1>5, <1>6, <1>7, <1>8, <1>9 DEF Ace, King, Queen, Jack, Ten, Nine, Eight

\* A sum with one of the set taken out of it, if it is there.
LEMMA OneTakenOut ==
  ASSUME NEW f, NEW S, Summable(f, S), NEW x, f[x] \in Int
  PROVE  /\ Summable(f, S \ {x})
         /\ SumFunctionOnSet(f, S) = f[x] * Has(S, x) + SumFunctionOnSet(f, S \ {x})
         /\ SumFunctionOnSet(f, S) \in Int
<1>1. Summable(f, S \ {x})
  BY SummableSubset
<1>2. SumFunctionOnSet(f, S) \in Int /\ SumFunctionOnSet(f, S \ {x}) \in Int
  BY <1>1, SumOnSet
<1>3. CASE x \in S
  <2>1. SumFunctionOnSet(f, S) = f[x] + SumFunctionOnSet(f, S \ {x})
    BY <1>3, SumOnSet
  <2>2. QED
    BY <1>1, <1>2, <1>3, <2>1 DEF Has, Given
<1>4. CASE x \notin S
  <2>1. S \ {x} = S
    BY <1>4, Zenon
  <2>2. SumFunctionOnSet(f, S \ {x}) = SumFunctionOnSet(f, S)
    BY <2>1, Zenon
  <2>3. Has(S, x) = 0
    BY <1>4 DEF Has, Given
  <2>4. QED
    BY <1>1, <1>2, <2>2, <2>3
<1>5. QED
  BY <1>3, <1>4

\* The points of a suit from its cards.
QualityPoints(r) == Given(r >= Jack, 100 * (r - Ten)) + Given(r = Ten, 50)

\* The honour points of suit_quality, card by card.
LEMMA PointsOfQuality ==
  ASSUME NEW c, c \subseteq CardRanks
  PROVE  SumFunction([r \in c |-> QualityPoints(r)])
           = 50 * (8 * Has(c, Ace) + 6 * Has(c, King) + 4 * Has(c, Queen) + 2 * Has(c, Jack) + Has(c, Ten))
<1> USE DEF Ace, King, Queen, Jack, Ten
<1> DEFINE g == [r \in CardRanks |-> QualityPoints(r)]
           A == c \ {12}
           K == A \ {11}
           Q == K \ {10}
           J == Q \ {9}
           T == J \ {8}
<1>1. Summable(g, c)
  <2>1. IsFiniteSet(c)
    BY CardsAbove
  <2>2. QED
    BY <2>1 DEF Summable, CardRanks, QualityPoints, Given
<1>2. SumFunction([r \in c |-> QualityPoints(r)]) = SumFunctionOnSet(g, c)
  <2>1. [r \in c |-> QualityPoints(r)] = [r \in c |-> g[r]]
    BY Zenon
  <2> HIDE DEF g
  <2>2. QED
    BY <1>1, <2>1, SumOfPart, Zenon
<1>3. g[12] = 400 /\ g[11] = 300 /\ g[10] = 200 /\ g[9] = 100 /\ g[8] = 50
  BY DEF CardRanks, QualityPoints, Given
<1>4. /\ Has(A, 11) = Has(c, 11) /\ Has(K, 10) = Has(c, 10) /\ Has(Q, 9) = Has(c, 9) /\ Has(J, 8) = Has(c, 8)
  BY DEF Has
<1>5. \A x \in T : g[x] = 0 /\ x \in CardRanks
  BY DEF CardRanks, QualityPoints, Given
<1> HIDE DEF g, A, K, Q, J, T
<1>6. Summable(g, A) /\ SumFunctionOnSet(g, c) = 400 * Has(c, 12) + SumFunctionOnSet(g, A)
  BY <1>1, <1>3, OneTakenOut DEF A
<1>7. Summable(g, K) /\ SumFunctionOnSet(g, A) = 300 * Has(A, 11) + SumFunctionOnSet(g, K)
  BY <1>3, <1>6, OneTakenOut DEF K
<1>8. Summable(g, Q) /\ SumFunctionOnSet(g, K) = 200 * Has(K, 10) + SumFunctionOnSet(g, Q)
  BY <1>3, <1>7, OneTakenOut DEF Q
<1>9. Summable(g, J) /\ SumFunctionOnSet(g, Q) = 100 * Has(Q, 9) + SumFunctionOnSet(g, J)
  BY <1>3, <1>8, OneTakenOut DEF J
<1>10. Summable(g, T) /\ SumFunctionOnSet(g, J) = 50 * Has(J, 8) + SumFunctionOnSet(g, T)
  BY <1>3, <1>9, OneTakenOut DEF T
<1>11. SumFunctionOnSet(g, T) = 0
  BY <1>5, <1>10, SumOfZeros DEF Summable
<1>12. \A r : Has(c, r) \in 0..1
  BY DEF Has, Given
<1>13. QED
  BY <1>2, <1>4, <1>6, <1>7, <1>8, <1>9, <1>10, <1>11, <1>12

\* The four Cs of a suit, as c4.c and KnR.c count them.
SuitCs(c) == KnrHonors(c) + suit_quality(c)

CsOf(c) == FourCs(Cardinality(c), Has(c, Ace), Has(c, King), Has(c, Queen), Has(c, Jack), Has(c, Ten),
                  Has(c, Nine), Has(c, Eight))

\* Both functions of c4.c and KnR.c, by the cards that are held.
LEMMA CsByCards ==
  ASSUME NEW c, c \subseteq CardRanks
  PROVE  KnrHonors(c) \in Int /\ suit_quality(c) \in Int /\ SuitCs(c) = CsOf(c)
<1> DEFINE n == Cardinality(c)
           a == Has(c, Ace)
           k == Has(c, King)
           q == Has(c, Queen)
           j == Has(c, Jack)
           t == Has(c, Ten)
           i == Has(c, Nine)
           e == Has(c, Eight)
<1>1. /\ Higher(c, Queen) = a + k /\ Higher(c, Jack) = a + k + q /\ Higher(c, Ten) = a + k + q + j
      /\ n \in 0..13
  BY CardsAbove
<1>2. /\ a \in 0..1 /\ k \in 0..1 /\ q \in 0..1 /\ j \in 0..1 /\ t \in 0..1 /\ i \in 0..1 /\ e \in 0..1
      /\ (Ace \in c <=> a = 1) /\ (King \in c <=> k = 1) /\ (Queen \in c <=> q = 1) /\ (Jack \in c <=> j = 1)
      /\ (Ten \in c <=> t = 1) /\ (Nine \in c <=> i = 1) /\ (Eight \in c <=> e = 1)
  BY DEF Has, Given
<1>3. SumFunction([r \in c |-> QualityPoints(r)]) = 50 * (8 * a + 6 * k + 4 * q + 2 * j + t)
  BY PointsOfQuality
<1>4. n = Cardinality(c)
  OBVIOUS
<1> HIDE DEF n, a, k, q, j, t, i, e
<1>5. KnrHonors(c) = HonorsOf(n, a, k, q, j, t, i) /\ KnrHonors(c) \in Int
  <2>1. KnrHonors(c) = HonorsOf(n, a, k, q, j, t, i)
    BY <1>1, <1>2, <1>4 DEF KnrHonors, HonorsOf, Given
  <2>2. HonorsOf(n, a, k, q, j, t, i) \in Int
    BY <1>1, <1>2 DEF HonorsOf, Given
  <2>3. QED
    BY <2>1, <2>2
<1> DEFINE F == FiftiesOf(n, a, k, q, j, t, i, e)
           spots == Given(n <= 6, WorkingSpots(c))
<1>6. F \in Int /\ 50 * F = 50 * (8 * a + 6 * k + 4 * q + 2 * j + t) + LongSuitPoints(c) + spots
  BY <1>1, <1>2, <1>4 DEF FiftiesOf, LongSuitPoints, WorkingSpots, Given
<1>7. suit_quality(c) = ((50 * F) * n) \div 10
  <2>1. suit_quality(c) = ((SumFunction([r \in c |-> QualityPoints(r)]) + LongSuitPoints(c) + spots) * n) \div 10
    BY <1>4, Zenon DEF suit_quality, QualityPoints
  <2> HIDE DEF F, spots
  <2>2. QED
    BY <1>3, <1>6, <2>1, Zenon
<1> HIDE DEF F
<1>8. suit_quality(c) = 5 * (n * F) /\ suit_quality(c) \in Int
  <2>1. n * F \in Int /\ (50 * F) * n = 50 * (n * F)
    BY <1>1, <1>6
  <2>2. \A x \in Int : (50 * x) \div 10 = 5 * x
    OBVIOUS
  <2>3. QED
    BY <1>7, <2>1, <2>2
<1>9. QED
  BY <1>4, <1>5, <1>8, Zenon DEF SuitCs, CsOf, FourCs, F, a, k, q, j, t, i, e

\* A higher card in place of a lower one.
Raised(c, lo, hi) == (c \ {lo}) \cup {hi}

CanRaise(c, lo, hi) ==
  /\ lo \in c /\ hi \in CardRanks \ c /\ lo < hi
  /\ lo = Ten /\ hi = Jack => Cardinality(c) < 5
  /\ lo = Ten /\ hi = Queen => Cardinality(c) < 11

\* A suit with a higher card for a lower one is as long and worth no less.
LEMMA RaisedSuit ==
  ASSUME NEW c, c \subseteq CardRanks, NEW lo, NEW hi, CanRaise(c, lo, hi)
  PROVE  /\ Raised(c, lo, hi) \subseteq CardRanks
         /\ Cardinality(Raised(c, lo, hi)) = Cardinality(c)
         /\ SuitCs(Raised(c, lo, hi)) >= SuitCs(c)
<1> DEFINE d == Raised(c, lo, hi)
           n == Cardinality(c)
<1>1. d \subseteq CardRanks /\ lo \in CardRanks /\ hi \in CardRanks /\ lo \in c /\ hi \notin c
  BY DEF CanRaise, Raised
<1>2. Cardinality(d) = n
  <2>1. IsFiniteSet(c)
    BY CardsAbove
  <2>2. IsFiniteSet(c \ {lo}) /\ Cardinality(c \ {lo}) = n - 1 /\ n \in Nat
    BY <1>1, <2>1, FS_RemoveElement, FS_CardinalityType
  <2>3. hi \notin c \ {lo}
    BY <1>1
  <2>4. Cardinality((c \ {lo}) \cup {hi}) = n - 1 + 1
    BY <2>2, <2>3, FS_AddElement, Zenon
  <2>5. QED
    BY <2>2, <2>4 DEF Raised
<1>3. \A r : Has(d, r) = Changed(Has(c, r), r, lo, hi)
  BY DEF Has, Given, Raised, Changed
<1>4. CanChange(n, Has(c, Ace), Has(c, King), Has(c, Queen), Has(c, Jack), Has(c, Ten), Has(c, Nine), Has(c, Eight), lo, hi)
  <2> DEFINE a == Has(c, Ace)
             k == Has(c, King)
             q == Has(c, Queen)
             j == Has(c, Jack)
             t == Has(c, Ten)
             i == Has(c, Nine)
             e == Has(c, Eight)
  <2>1. /\ a \in 0..1 /\ k \in 0..1 /\ q \in 0..1 /\ j \in 0..1 /\ t \in 0..1 /\ i \in 0..1 /\ e \in 0..1
        /\ (hi = 12 => a = 0) /\ (hi = 11 => k = 0) /\ (hi = 10 => q = 0) /\ (hi = 9 => j = 0)
        /\ (hi = 8 => t = 0) /\ (hi = 7 => i = 0) /\ (hi = 6 => e = 0)
        /\ (lo = 11 => k = 1) /\ (lo = 10 => q = 1) /\ (lo = 9 => j = 1) /\ (lo = 8 => t = 1)
        /\ (lo = 7 => i = 1) /\ (lo = 6 => e = 1)
    BY <1>1 DEF Has, Given, Ace, King, Queen, Jack, Ten, Nine, Eight
  <2>2. /\ Higher(c, 5) = a + k + q + j + t + i + e
        /\ n \in 0..13 /\ Higher(c, 5) <= n /\ n - Higher(c, 5) <= 6
        /\ (\E x \in c : x < 6) => Higher(c, 5) < n
    BY CardsAbove
  <2>3. n # 0
    <3>1. IsFiniteSet(c) /\ c # {}
      BY <1>1, CardsAbove
    <3>2. QED
      BY <3>1, FS_EmptySet
  <2>4. lo < hi /\ (lo = 8 /\ hi = 9 => n < 5) /\ (lo = 8 /\ hi = 10 => n < 11)
    BY DEF CanRaise, Ten, Jack, Queen
  <2>5. lo < 6 => Higher(c, 5) < n
    BY <1>1, <2>2
  <2>6. lo \in 0..12 /\ hi \in 0..12
    BY <1>1 DEF CardRanks
  <2> HIDE DEF a, k, q, j, t, i, e, n
  <2>7. CanChange(n, a, k, q, j, t, i, e, lo, hi)
    BY <2>1, <2>2, <2>3, <2>4, <2>5, <2>6 DEF CanChange
  <2>8. QED
    BY <2>7 DEF a, k, q, j, t, i, e
<1>5. CsOf(d) >= CsOf(c)
  <2>1. CsOf(d) = FourCs(n, Changed(Has(c, Ace), 12, lo, hi), Changed(Has(c, King), 11, lo, hi),
                         Changed(Has(c, Queen), 10, lo, hi), Changed(Has(c, Jack), 9, lo, hi),
                         Changed(Has(c, Ten), 8, lo, hi), Changed(Has(c, Nine), 7, lo, hi),
                         Changed(Has(c, Eight), 6, lo, hi))
    BY <1>2, <1>3 DEF CsOf, Ace, King, Queen, Jack, Ten, Nine, Eight
  <2> HIDE DEF n, d
  <2>2. QED
    BY <1>4, <2>1, ChangeCountsMore DEF CsOf, n
<1>6. SuitCs(d) = CsOf(d) /\ SuitCs(c) = CsOf(c)
  BY <1>1, CsByCards
<1>7. QED
  BY <1>1, <1>2, <1>5, <1>6

\* What a hand of the same lengths has besides the four Cs of its suits.
LEMMA CsOfHand ==
  ASSUME NEW h \in HandType, NEW g \in HandType, \A s \in MetricSuits : Length(g, s) = Length(h, s),
         \A s \in MetricSuits : SuitCs(g[s]) >= SuitCs(h[s])
  PROVE  eval_cccc(g) >= eval_cccc(h) /\ KnR_pts_all(g).tot >= KnR_pts_all(h).tot
<1>1. \A f \in HandType : \A s \in MetricSuits :
        /\ KnrHonors(f[s]) \in Int /\ suit_quality(f[s]) \in Int /\ SuitCs(f[s]) = KnrHonors(f[s]) + suit_quality(f[s])
        /\ ShapePoints(Length(f, s)) \in Int
  <2>1. ASSUME NEW f \in HandType, NEW s \in MetricSuits
        PROVE  /\ KnrHonors(f[s]) \in Int /\ suit_quality(f[s]) \in Int
               /\ ShapePoints(Length(f, s)) \in Int
    <3>1. f[s] \subseteq CardRanks
      BY DEF HandType
    <3>2. Length(f, s) \in Nat
      BY CountsOfHand
    <3>3. QED
      BY <3>1, <3>2, CsByCards DEF ShapePoints, Given
  <2>2. QED
    BY <2>1 DEF SuitCs
<1>2. \A n : WithLength(g, n) = WithLength(h, n)
  <2>1. \A n : {s \in MetricSuits : Length(g, s) = n} = {s \in MetricSuits : Length(h, s) = n}
    BY Zenon
  <2>2. QED
    BY <2>1, Zenon DEF WithLength
<1>3. SquareHand(g) <=> SquareHand(h)
  BY <1>2, Zenon DEF SquareHand
<1> DEFINE C(f, s) == SuitCs(f[s])
           S(f, s) == ShapePoints(Length(f, s))
<1>4. \A s \in MetricSuits : /\ C(g, s) >= C(h, s) /\ C(g, s) \in Int /\ C(h, s) \in Int
                             /\ S(g, s) = S(h, s) /\ S(h, s) \in Int
  BY <1>1
<1>5. eval_cccc(g) >= eval_cccc(h)
  <2> DEFINE less == Given(WithLength(h, 2) > 0, 100)
             square == Given(SquareHand(h), 50)
  <2>1. less \in Int /\ square \in Int
    BY DEF Given
  <2>2. Given(WithLength(g, 2) > 0, 100) = less
    BY <1>2, Zenon
  <2>3. Given(SquareHand(g), 50) = square
    BY <1>3, SMT DEF Given
  <2>4. eval_cccc(h) = ((C(h, 0) + S(h, 0)) + (C(h, 1) + S(h, 1)) + (C(h, 2) + S(h, 2)) + (C(h, 3) + S(h, 3))) - less - square
    BY Zenon DEF eval_cccc, OverSuits, SuitCs
  <2>5. eval_cccc(g) = ((C(g, 0) + S(g, 0)) + (C(g, 1) + S(g, 1)) + (C(g, 2) + S(g, 2)) + (C(g, 3) + S(g, 3)))
                         - Given(WithLength(g, 2) > 0, 100) - Given(SquareHand(g), 50)
    BY Zenon DEF eval_cccc, OverSuits, SuitCs
  <2> HIDE DEF C, S, less, square
  <2>6. QED
    BY <1>4, <2>1, <2>2, <2>3, <2>4, <2>5 DEF MetricSuits
<1>6. KnR_pts_all(g).tot >= KnR_pts_all(h).tot
  <2> DEFINE less(f) == Given(WithLength(f, 2) > 0 /\ WithLength(f, 1) = 0 /\ WithLength(f, 0) = 0, 100)
             adj(f) == Given(SquareHand(f), -50)
             H(f, s) == KnrHonors(f[s])
             Q(f, s) == suit_quality(f[s])
  <2>1. less(h) \in Int /\ adj(h) \in Int
    BY DEF Given
  <2>2. less(g) = less(h) /\ adj(g) = adj(h)
    <3>1. less(g) = less(h)
      BY <1>2, Zenon
    <3>2. adj(g) = adj(h)
      BY <1>3, SMT DEF Given
    <3>3. QED
      BY <3>1, <3>2
  <2>3. \A f : KnR_pts_all(f).tot = (H(f, 0) + H(f, 1) + H(f, 2) + H(f, 3))
                                   + ((S(f, 0) + S(f, 1) + S(f, 2) + S(f, 3)) - less(f))
                                   + (Q(f, 0) + Q(f, 1) + Q(f, 2) + Q(f, 3)) + adj(f)
    BY Zenon DEF KnR_pts_all, OverSuits, KnR_suit_quality
  <2>4. \A f \in HandType : \A s \in MetricSuits : H(f, s) \in Int /\ Q(f, s) \in Int /\ C(f, s) = H(f, s) + Q(f, s)
    BY <1>1
  <2> HIDE DEF C, S, H, Q, less, adj
  <2>5. QED
    BY <1>4, <2>1, <2>2, <2>3, <2>4 DEF MetricSuits
<1>7. QED
  BY <1>5, <1>6

\* A higher card for a lower one of a seat's hand: when the property speaks of it,
\* and what it says.
HandRaised(p, s, lo, hi) == [deal[p] EXCEPT ![s] = (deal[p][s] \ {lo}) \cup {hi}]
MayRaise(p, s, lo, hi) ==
  /\ lo < hi
  /\ lo = Ten /\ hi = Jack => Length(deal[p], s) < 5
  /\ lo = Ten /\ hi = Queen => Length(deal[p], s) < 11
WorthNoLess(p, s, lo, hi) ==
  /\ eval_cccc(HandRaised(p, s, lo, hi)) >= eval_cccc(deal[p])
  /\ KnR_pts_all(HandRaised(p, s, lo, hi)).tot >= KnR_pts_all(deal[p]).tot

\* The property, by those names.
LEMMA ByHandRaised ==
  (\A p \in Seats, s \in MetricSuits : \A lo \in deal[p][s], hi \in CardRanks \ deal[p][s] :
     MayRaise(p, s, lo, hi) => WorthNoLess(p, s, lo, hi))
  => HigherCardsCountMore
BY Zenon DEF HigherCardsCountMore, MayRaise, WorthNoLess, HandRaised

\* By eval_cccc and by KnR_pts_all alike, no hand of any deal is worth less with a
\* higher card for a lower one of the suit, but for the two exceptions of the ten.
THEOREM CardsCountTheirRank == MetricsSpec => []HigherCardsCountMore
<1>1. deal \in Deals => HigherCardsCountMore
  <2>1. SUFFICES ASSUME deal \in Deals
                 PROVE  HigherCardsCountMore
    OBVIOUS
  <2>2. ASSUME NEW p \in Seats, NEW s \in MetricSuits,
               NEW lo \in deal[p][s], NEW hi \in CardRanks \ deal[p][s], MayRaise(p, s, lo, hi)
        PROVE  WorthNoLess(p, s, lo, hi)
    <3> DEFINE h == deal[p]
               g == HandRaised(p, s, lo, hi)
    <3>1. h \in HandType
      BY <2>1, MetricsAssumption, Zenon DEF MetricsAssumption, HandType
    <3>2. h[s] \subseteq CardRanks
      BY <3>1 DEF HandType
    <3>3. CanRaise(h[s], lo, hi)
      BY <2>2, Zenon DEF CanRaise, MayRaise, Length
    <3>4. g[s] = Raised(h[s], lo, hi) /\ \A x \in MetricSuits : x # s => g[x] = h[x]
      BY <2>2, <3>1 DEF Raised, HandType, HandRaised
    <3>5. /\ g[s] \subseteq CardRanks /\ Cardinality(g[s]) = Cardinality(h[s])
          /\ SuitCs(g[s]) >= SuitCs(h[s])
      <4>1. /\ Raised(h[s], lo, hi) \subseteq CardRanks /\ Cardinality(Raised(h[s], lo, hi)) = Cardinality(h[s])
            /\ SuitCs(Raised(h[s], lo, hi)) >= SuitCs(h[s])
        BY <3>2, <3>3, RaisedSuit
      <4>2. QED
        BY <3>4, <4>1, Zenon
    <3>6. g \in HandType
      BY <2>2, <3>1, <3>4, <3>5 DEF HandType, HandRaised
    <3>7. \A x \in MetricSuits : SuitCs(h[x]) \in Int
      BY <3>1, CsByCards DEF HandType, SuitCs
    <3>8. \A x \in MetricSuits : Length(g, x) = Length(h, x) /\ SuitCs(g[x]) >= SuitCs(h[x])
      <4> HIDE DEF h, g
      <4>1. QED
        BY <3>4, <3>5, <3>7 DEF Length
    <3>9. eval_cccc(g) >= eval_cccc(h) /\ KnR_pts_all(g).tot >= KnR_pts_all(h).tot
      <4> HIDE DEF h, g
      <4>1. QED
        BY <3>1, <3>6, <3>8, CsOfHand, Zenon
    <3>10. QED
      BY <3>9, Zenon DEF WorthNoLess
  <2>3. QED
    BY <2>2, ByHandRaised, Zenon
<1>2. QED
  BY <1>1, DealStays, PTL

-----------------------------------------------------------------------------
(* The two hands of a side change places.                                  *)

\* What one hand has in a the other has in b.
Mirrored(b, a) == b[0] = a[1] /\ b[1] = a[0]

\* The trumps u of the hands Q are the trumps t of the hands P, which are the same
\* two hands in the other order.
IsTrump(t) == t = [tsuit |-> t.tsuit, fit_len |-> t.fit_len, tlen |-> t.tlen, ss_len |-> t.ss_len,
                   decl |-> t.decl, dummy |-> t.dummy]

Traded(Q, u, P, t) ==
  /\ Mirrored(Q, P)
  /\ IsTrump(t) /\ IsTrump(u)
  /\ u.tsuit = t.tsuit /\ u.fit_len = t.fit_len
  /\ Mirrored(u.tlen, t.tlen) /\ Mirrored(u.ss_len, t.ss_len)
  /\ IsFitted(t) => \/ t.decl = 0 /\ t.dummy = 1 /\ u.decl = 1 /\ u.dummy = 0
                    \/ t.decl = 1 /\ t.dummy = 0 /\ u.decl = 0 /\ u.dummy = 1

\* Fits are judged alike.
LEMMA FitsTrade ==
  ASSUME NEW P \in SideType, NEW Q \in SideType, Mirrored(Q, P)
  PROVE  /\ \A s \in MetricSuits :
              /\ FitLength(Q, s) = FitLength(P, s) /\ Uneven(Q, s) = Uneven(P, s)
              /\ SuitPoints(Q, s) = SuitPoints(P, s) /\ IsFit(Q, s) = IsFit(P, s)
         /\ \A s, t \in MetricSuits : Better(Q, s, t) = Better(P, s, t)
<1>1. ASSUME NEW s \in MetricSuits
      PROVE  /\ FitLength(Q, s) = FitLength(P, s) /\ Uneven(Q, s) = Uneven(P, s)
             /\ SuitPoints(Q, s) = SuitPoints(P, s) /\ IsFit(Q, s) = IsFit(P, s)
  <2> DEFINE a == Length(P[0], s)
             b == Length(P[1], s)
             x == Points(P[0], s)
             y == Points(P[1], s)
  <2>1. P[0] \in HandType /\ P[1] \in HandType
    BY DEF SideType, Both
  <2>2. a \in Nat /\ b \in Nat /\ x \in Int /\ y \in Int
    BY <2>1, CountsOfHand
  <2>3. Length(Q[0], s) = b /\ Length(Q[1], s) = a /\ Points(Q[0], s) = y /\ Points(Q[1], s) = x
    BY Zenon DEF Mirrored
  <2> HIDE DEF a, b, x, y
  <2>4. /\ FitLength(P, s) = a + b /\ FitLength(Q, s) = b + a
        /\ SuitPoints(P, s) = x + y /\ SuitPoints(Q, s) = y + x
    BY <2>3, Zenon DEF a, b, x, y, FitLength, SuitPoints
  <2>5. /\ Uneven(P, s) = LET d == a - b IN IF d < 0 THEN -d ELSE d
        /\ Uneven(Q, s) = LET d == b - a IN IF d < 0 THEN -d ELSE d
    BY <2>3, Zenon DEF a, b, Uneven
  <2>6. /\ IsFit(P, s) = (a + b > 7 \/ (a + b = 7 /\ a \in {2, 5}))
        /\ IsFit(Q, s) = (b + a > 7 \/ (b + a = 7 /\ b \in {2, 5}))
    BY <2>3, <2>4 DEF a, b, IsFit
  <2>7. QED
    BY <2>2, <2>4, <2>5, <2>6
<1>2. ASSUME NEW s \in MetricSuits, NEW t \in MetricSuits
      PROVE  Better(Q, s, t) = Better(P, s, t)
  <2>1. /\ FitLength(Q, s) = FitLength(P, s) /\ Uneven(Q, s) = Uneven(P, s)
        /\ FitLength(Q, t) = FitLength(P, t) /\ Uneven(Q, t) = Uneven(P, t)
        /\ SuitPoints(Q, s) = SuitPoints(P, s) /\ SuitPoints(Q, t) = SuitPoints(P, t)
    BY <1>1
  <2>2. QED
    BY <2>1 DEF Better
<1>3. QED
  BY <1>1, <1>2

\* So the search finds the same trumps,
LEMMA SearchTrades ==
  ASSUME NEW P \in SideType, NEW Q \in SideType, Mirrored(Q, P)
  PROVE  SetTrumps(Q) = SetTrumps(P)
<1> DEFINE keep(X, t, s) == IF IsFit(X, s) /\ (t = NoSuit \/ Better(X, s, t)) THEN s ELSE t
           Kept(t) == t = NoSuit \/ t \in MetricSuits
<1>1. ASSUME NEW t, NEW s \in MetricSuits, Kept(t)
      PROVE  keep(Q, t, s) = keep(P, t, s) /\ Kept(keep(P, t, s))
  <2>1. IsFit(Q, s) = IsFit(P, s)
    BY FitsTrade
  <2>2. t # NoSuit => Better(Q, s, t) = Better(P, s, t)
    BY <1>1, FitsTrade
  <2>3. keep(Q, t, s) = keep(P, t, s)
    BY <2>1, <2>2
  <2>4. QED
    BY <1>1, <2>3
<1>2. Kept(NoSuit) /\ 0 \in MetricSuits /\ 1 \in MetricSuits /\ 2 \in MetricSuits /\ 3 \in MetricSuits
  BY DEF MetricSuits
<1>3. \A X : SetTrumps(X) = keep(X, keep(X, keep(X, keep(X, NoSuit, 0), 1), 2), 3)
  BY Zenon DEF SetTrumps
<1> HIDE DEF keep, Kept
<1>4. QED
  BY <1>1, <1>2, <1>3

\* and, unless the hands are as strong, the same hand declares.
LEMMA TrumpsTrade ==
  ASSUME NEW P \in SideType, NEW Q \in SideType, Mirrored(Q, P), TotalPoints(P[0]) # TotalPoints(P[1])
  PROVE  Traded(Q, trump_fit_chk(Q), P, trump_fit_chk(P))
<1> DEFINE s == SetTrumps(P)
           t == trump_fit_chk(P)
           u == trump_fit_chk(Q)
<1>1. t = TrumpFit(P, s) /\ u = TrumpFit(Q, s)
  BY SearchTrades, Zenon DEF trump_fit_chk
<1>0. IsTrump(t) /\ IsTrump(u)
  BY <1>1 DEF TrumpFit, IsTrump
<1> HIDE DEF s, t, u
<1>2. 0 \in Both /\ 1 \in Both
  BY DEF Both
<1>3. CASE s = NoSuit
  <2>1. t = u /\ t.fit_len = -1 /\ t.tlen = [h \in Both |-> 0] /\ t.ss_len = [h \in Both |-> 0]
    BY <1>1, <1>3 DEF TrumpFit
  <2>2. ~IsFitted(t)
    BY <2>1 DEF IsFitted
  <2>3. QED
    BY <1>0, <1>2, <2>1, <2>2 DEF Traded, Mirrored, t, u
<1>4. CASE s # NoSuit
  <2>0. s \in MetricSuits
    BY <1>4, TrumpsOfFour, Zenon DEF BestOf, s
  <2>1. /\ t.tsuit = s /\ u.tsuit = s /\ t.fit_len = FitLength(P, s) /\ u.fit_len = FitLength(Q, s)
        /\ t.tlen = [h \in Both |-> Length(P[h], s)] /\ u.tlen = [h \in Both |-> Length(Q[h], s)]
        /\ t.ss_len = [h \in Both |-> ShortestSuit(P[h])] /\ u.ss_len = [h \in Both |-> ShortestSuit(Q[h])]
        /\ t.decl = Declares(P, s) /\ u.decl = Declares(Q, s)
        /\ t.dummy = 1 - Declares(P, s) /\ u.dummy = 1 - Declares(Q, s)
    BY <1>1, <1>4, Zenon DEF TrumpFit
  <2>2. u.fit_len = t.fit_len
    BY <2>0, <2>1, FitsTrade
  <2>3. Mirrored(u.tlen, t.tlen) /\ Mirrored(u.ss_len, t.ss_len)
    <3>1. /\ \A i \in Both : t.tlen[i] = Length(P[i], s) /\ u.tlen[i] = Length(Q[i], s)
          /\ \A i \in Both : t.ss_len[i] = ShortestSuit(P[i]) /\ u.ss_len[i] = ShortestSuit(Q[i])
      BY <2>1
    <3>2. QED
      BY <1>2, <3>1, Zenon DEF Mirrored
  <2>4. (Declares(P, s) = 0 /\ Declares(Q, s) = 1) \/ (Declares(P, s) = 1 /\ Declares(Q, s) = 0)
    <3> DEFINE a == Length(P[0], s)
               b == Length(P[1], s)
               x == TotalPoints(P[0])
               y == TotalPoints(P[1])
    <3>1. P[0] \in HandType /\ P[1] \in HandType
      BY DEF SideType, Both
    <3>2. a \in Nat /\ b \in Nat /\ x \in Int /\ y \in Int /\ x # y
      BY <2>0, <3>1, CountsOfHand
    <3>3. Length(Q[0], s) = b /\ Length(Q[1], s) = a /\ TotalPoints(Q[0]) = y /\ TotalPoints(Q[1]) = x
      BY Zenon DEF Mirrored
    <3> HIDE DEF a, b, x, y
    <3>4. /\ Declares(P, s) = IF a - b > 0 \/ (a - b = 0 /\ x > y) THEN 0 ELSE 1
          /\ Declares(Q, s) = IF b - a > 0 \/ (b - a = 0 /\ y > x) THEN 0 ELSE 1
      BY <3>3, Zenon DEF Declares, a, b, x, y
    <3>5. QED
      BY <3>2, <3>4
  <2>5. QED
    BY <1>0, <2>1, <2>2, <2>3, <2>4 DEF Traded, t, u
<1>5. QED
  BY <1>3, <1>4

\* What is added up for both hands, and rounded, is mirrored if its parts are.
LEMMA PairsTrade ==
  ASSUME NEW a, NEW b, Mirrored(b, a)
  PROVE  /\ Mirrored(Rounded(b), Rounded(a)) /\ Mirrored(Thirds(b), Thirds(a))
         /\ \A c, d : Mirrored(d, c) => Mirrored(b ++ d, a ++ c) /\ Mirrored(b -- d, a -- c)
<1>1. 0 \in Both /\ 1 \in Both
  BY DEF Both
<1>2. \A x, y : /\ (x ++ y)[0] = x[0] + y[0] /\ (x ++ y)[1] = x[1] + y[1]
                /\ (x -- y)[0] = x[0] - y[0] /\ (x -- y)[1] = x[1] - y[1]
  BY <1>1 DEF ++, --
<1>3. \A x : /\ Rounded(x)[0] = IF x[0] >= 0 THEN (x[0] + 2) \div 4 ELSE -((2 - x[0]) \div 4)
             /\ Rounded(x)[1] = IF x[1] >= 0 THEN (x[1] + 2) \div 4 ELSE -((2 - x[1]) \div 4)
             /\ Thirds(x)[0] = IF x[0] >= 0 THEN (x[0] + 1) \div 3 ELSE -((1 - x[0]) \div 3)
             /\ Thirds(x)[1] = IF x[1] >= 0 THEN (x[1] + 1) \div 3 ELSE -((1 - x[1]) \div 3)
  BY <1>1, Zenon DEF Rounded, Thirds
<1>4. b[0] = a[1] /\ b[1] = a[0]
  BY DEF Mirrored
<1>5. Mirrored(Rounded(b), Rounded(a)) /\ Mirrored(Thirds(b), Thirds(a))
  BY <1>3, <1>4, Zenon DEF Mirrored
<1>6. \A c, d : Mirrored(d, c) => Mirrored(b ++ d, a ++ c) /\ Mirrored(b -- d, a -- c)
  <2>1. SUFFICES ASSUME NEW c, NEW d, d[0] = c[1], d[1] = c[0]
                 PROVE  Mirrored(b ++ d, a ++ c) /\ Mirrored(b -- d, a -- c)
    BY Zenon DEF Mirrored
  <2>2. /\ (b ++ d)[0] = (a ++ c)[1] /\ (b ++ d)[1] = (a ++ c)[0]
        /\ (b -- d)[0] = (a -- c)[1] /\ (b -- d)[1] = (a -- c)[0]
    BY <1>2, <1>4, <2>1
  <2>3. QED
    BY <2>2, Zenon DEF Mirrored
<1>7. QED
  BY <1>5, <1>6

\* The points for ruffs depend on the trumps, and on the length of the dummy's
\* trumps and of its shortest suit; those for length on the declarer's.
LEMMA RuffsTrade ==
  ASSUME NEW t, NEW u, u.tsuit = t.tsuit, u.tlen[u.dummy] = t.tlen[t.dummy],
         u.ss_len[u.dummy] = t.ss_len[t.dummy]
  PROVE  \A h : /\ DfitBERG(h, u) = DfitBERG(h, t) /\ DfitSTD(h, u) = DfitSTD(h, t)
                /\ DfitKAPLAN(h, u) = DfitKAPLAN(h, t) /\ DfitPAV(h, u) = DfitPAV(h, t)
                /\ DfitGOREN(h, u) = DfitGOREN(h, t) /\ DfitSHEINW(h, u) = DfitSHEINW(h, t)
                /\ Hf_ptsGOREN(h, u) = Hf_ptsGOREN(h, t)
<1>1. \A h : DfitBERG(h, u) = DfitBERG(h, t) /\ DfitSTD(h, u) = DfitSTD(h, t)
  BY Zenon DEF DfitBERG, DfitSTD, RuffPoints, OverSide, SideSuits
<1>2. \A h : DfitKAPLAN(h, u) = DfitKAPLAN(h, t) /\ DfitPAV(h, u) = DfitPAV(h, t)
  BY Zenon DEF DfitKAPLAN, DfitPAV, OverSide, SideSuits, OverSuits
<1>3. \A h : DfitGOREN(h, u) = DfitGOREN(h, t) /\ DfitSHEINW(h, u) = DfitSHEINW(h, t)
  BY Zenon DEF DfitGOREN, DfitSHEINW, OverSide, SideSuits
<1>4. \A h : Hf_ptsGOREN(h, u) = Hf_ptsGOREN(h, t)
  BY Zenon DEF Hf_ptsGOREN
<1>5. QED
  BY <1>1, <1>2, <1>3, <1>4, Zenon

\* So do the points for length, on the trumps of the declarer.
LEMMA LengthsTrade ==
  ASSUME NEW t, NEW u, u.tsuit = t.tsuit, u.fit_len = t.fit_len, u.tlen[u.decl] = t.tlen[t.decl]
  PROVE  \A h : /\ Fn_ptsBERG(h, u) = Fn_ptsBERG(h, t) /\ Fn_ptsGOREN(h, u) = Fn_ptsGOREN(h, t)
                /\ Fn_ptsPAV(h, u) = Fn_ptsPAV(h, t)
<1>1. \A h : Fn_ptsBERG(h, u) = Fn_ptsBERG(h, t) /\ Fn_ptsGOREN(h, u) = Fn_ptsGOREN(h, t)
  BY Zenon DEF Fn_ptsBERG, Fn_ptsGOREN
<1>2. \A h : Fn_ptsPAV(h, u) = Fn_ptsPAV(h, t)
  BY Zenon DEF Fn_ptsPAV
<1>3. QED
  BY <1>1, <1>2, Zenon

\* Do_Trump_fit gives each hand what it gave it in the other seat.
LEMMA FitPointsTrade ==
  ASSUME NEW Q, NEW u, NEW P, NEW t, Traded(Q, u, P, t), NEW m \in {BERGEN, DKP}
  PROVE  /\ Mirrored(Do_Trump_fit(Q, m, u).df, Do_Trump_fit(P, m, t).df)
         /\ Mirrored(Do_Trump_fit(Q, m, u).fn, Do_Trump_fit(P, m, t).fn)
<1> DEFINE seen(x, h) == IF h = x.dummy THEN x ELSE [x EXCEPT !.decl = x.dummy, !.dummy = x.decl]
           even(x) == x.tlen[0] = x.tlen[1]
           df(X, x, h) == Given(IsFitted(x) /\ (h = x.dummy \/ even(x)), Dfit(m, X[h], seen(x, h)))
           fn(X, x, h) == Given(IsFitted(x) /\ h = x.decl /\ ~even(x), Fn_pts(m, X[h], x))
<1>1. 0 \in Both /\ 1 \in Both
  BY DEF Both
<1>2. ASSUME NEW X, NEW x
      PROVE  /\ Do_Trump_fit(X, m, x).df[0] = df(X, x, 0) /\ Do_Trump_fit(X, m, x).df[1] = df(X, x, 1)
             /\ Do_Trump_fit(X, m, x).fn[0] = fn(X, x, 0) /\ Do_Trump_fit(X, m, x).fn[1] = fn(X, x, 1)
  <2>1. /\ Do_Trump_fit(X, m, x).df = [h \in Both |-> df(X, x, h)]
        /\ Do_Trump_fit(X, m, x).fn = [h \in Both |-> fn(X, x, h)]
    BY Zenon DEF Do_Trump_fit
  <2> HIDE DEF df, fn
  <2>2. QED
    BY <1>1, <2>1
<1>3. \A h, x : /\ Dfit(m, h, x) = IF m = BERGEN THEN DfitBERG(h, x) ELSE DfitSTD(h, x)
                /\ Fn_pts(m, h, x) = IF m = BERGEN THEN Fn_ptsBERG(h, x) ELSE 0
  BY DEF Dfit, Fn_pts, Fn_ptsNONE, BERGEN, DKP, JGM1, KARPIN, LAR, MORSE
<1>4. IsFitted(u) <=> IsFitted(t)
  BY DEF Traded, IsFitted
<1>5. CASE ~IsFitted(t)
  <2>1. df(Q, u, 0) = 0 /\ df(Q, u, 1) = 0 /\ df(P, t, 0) = 0 /\ df(P, t, 1) = 0
    BY <1>4, <1>5 DEF Given
  <2>2. fn(Q, u, 0) = 0 /\ fn(Q, u, 1) = 0 /\ fn(P, t, 0) = 0 /\ fn(P, t, 1) = 0
    BY <1>4, <1>5 DEF Given
  <2> HIDE DEF df, fn
  <2>3. QED
    BY <1>2, <2>1, <2>2 DEF Mirrored
<1>6. ASSUME IsFitted(t), NEW h \in Both, NEW k \in Both, h # k
      PROVE  df(Q, u, k) = df(P, t, h) /\ fn(Q, u, k) = fn(P, t, h)
  <2>1. (h = 0 /\ k = 1) \/ (h = 1 /\ k = 0)
    BY <1>6 DEF Both
  <2>2. /\ Q[k] = P[h] /\ u.tlen[k] = t.tlen[h] /\ u.ss_len[k] = t.ss_len[h]
        /\ u.tlen[h] = t.tlen[k] /\ u.ss_len[h] = t.ss_len[k]
    BY <2>1 DEF Traded, Mirrored
  <2>3. /\ even(u) <=> even(t)
        /\ k = u.dummy <=> h = t.dummy
        /\ k = u.decl <=> h = t.decl
    BY <1>6, <2>1 DEF Traded, Mirrored
  <2>4. /\ seen(t, h).tsuit = t.tsuit /\ seen(t, h).tlen = t.tlen /\ seen(t, h).ss_len = t.ss_len
        /\ seen(t, h).dummy = h
    BY <1>6, <2>1 DEF Traded, IsTrump
  <2>5. /\ seen(u, k).tsuit = u.tsuit /\ seen(u, k).tlen = u.tlen /\ seen(u, k).ss_len = u.ss_len
        /\ seen(u, k).dummy = k
    BY <1>6, <2>1 DEF Traded, IsTrump
  <2> HIDE DEF seen, even
  <2>6. Dfit(m, Q[k], seen(u, k)) = Dfit(m, P[h], seen(t, h))
    <3>1. /\ seen(u, k).tsuit = seen(t, h).tsuit
          /\ seen(u, k).tlen[seen(u, k).dummy] = seen(t, h).tlen[seen(t, h).dummy]
          /\ seen(u, k).ss_len[seen(u, k).dummy] = seen(t, h).ss_len[seen(t, h).dummy]
      BY <2>2, <2>4, <2>5 DEF Traded
    <3> DEFINE v == seen(u, k)
               w == seen(t, h)
    <3> HIDE DEF v, w
    <3>2. \A g : DfitBERG(g, v) = DfitBERG(g, w) /\ DfitSTD(g, v) = DfitSTD(g, w)
      BY <3>1, RuffsTrade DEF v, w
    <3>3. Dfit(m, Q[k], v) = Dfit(m, P[h], w)
      BY <1>3, <2>2, <3>2
    <3>4. QED
      BY <3>3 DEF v, w
  <2>7. h = t.decl => Fn_pts(m, Q[k], u) = Fn_pts(m, P[h], t)
    <3>1. u.tsuit = t.tsuit /\ u.fit_len = t.fit_len /\ (h = t.decl => u.tlen[u.decl] = t.tlen[t.decl])
      BY <2>2, <2>3 DEF Traded
    <3>2. h = t.decl => \A g : Fn_ptsBERG(g, u) = Fn_ptsBERG(g, t)
      BY <3>1, LengthsTrade
    <3>3. QED
      BY <1>3, <2>2, <3>2
  <2>8. df(Q, u, k) = df(P, t, h)
    BY <1>4, <2>3, <2>6 DEF Given
  <2>9. fn(Q, u, k) = fn(P, t, h)
    BY <1>4, <2>3, <2>7 DEF Given
  <2>10. QED
    BY <2>8, <2>9
<1>7. CASE IsFitted(t)
  <2> HIDE DEF df, fn
  <2>1. df(Q, u, 0) = df(P, t, 1) /\ df(Q, u, 1) = df(P, t, 0) /\ fn(Q, u, 0) = fn(P, t, 1) /\ fn(Q, u, 1) = fn(P, t, 0)
    BY <1>1, <1>6, <1>7
  <2>2. QED
    BY <1>2, <2>1, Zenon DEF Mirrored
<1>8. QED
  BY <1>5, <1>7

\* A misfit is one from either seat, and the short hand keeps its shortness.
LEMMA MisfitsTrade ==
  ASSUME NEW P \in SideType, NEW Q \in SideType, Mirrored(Q, P)
  PROVE  /\ \A s \in MetricSuits :
              /\ misfit_chk(Q, s).type = misfit_chk(P, s).type
              /\ misfit_chk(P, s).type \in Nat
              /\ misfit_chk(P, s).type > 0 =>
                   \/ misfit_chk(P, s).short_hand = 0 /\ misfit_chk(Q, s).short_hand = 1
                   \/ misfit_chk(P, s).short_hand = 1 /\ misfit_chk(Q, s).short_hand = 0
         /\ SomeMisfit(Q) <=> SomeMisfit(P)
<1>1. ASSUME NEW s \in MetricSuits
      PROVE  /\ misfit_chk(Q, s).type = misfit_chk(P, s).type
             /\ misfit_chk(P, s).type \in Nat
             /\ misfit_chk(P, s).type > 0 =>
                  \/ misfit_chk(P, s).short_hand = 0 /\ misfit_chk(Q, s).short_hand = 1
                  \/ misfit_chk(P, s).short_hand = 1 /\ misfit_chk(Q, s).short_hand = 0
  <2> DEFINE a == Length(P[0], s)
             b == Length(P[1], s)
             worth(n) == Min({n, 5})
  <2>1. P[0] \in HandType /\ P[1] \in HandType
    BY DEF SideType, Both
  <2>2. a \in Nat /\ b \in Nat
    BY <2>1, CountsOfHand
  <2>3. Length(Q[0], s) = b /\ Length(Q[1], s) = a
    BY Zenon DEF Mirrored
  <2>4. \A n \in Nat : worth(n) \in Nat
    <3>1. ASSUME NEW n \in Nat
          PROVE  \E x \in {n, 5} : \A y \in {n, 5} : y >= x
      OBVIOUS
    <3>2. QED
      BY <3>1 DEF Min
  <2> HIDE DEF a, b, worth
  <2>5. CASE a > b
    <3>1. misfit_chk(P, s) = [type |-> Given(b < 2 /\ a >= 3, worth(a)), short_hand |-> IF b < 2 THEN 1 ELSE 0]
      <4>1. a >= b /\ 1 - 0 = 1
        BY <2>2, <2>5
      <4>2. QED
        BY <4>1 DEF misfit_chk, a, b, worth
    <3>2. misfit_chk(Q, s) = [type |-> Given(b < 2 /\ a >= 3, worth(a)), short_hand |-> IF b < 2 THEN 0 ELSE 0]
      <4>1. ~(b >= a) /\ 1 - 1 = 0
        BY <2>2, <2>5
      <4>2. QED
        BY <2>3, <4>1 DEF misfit_chk, a, b, worth
    <3>3. QED
      BY <2>2, <2>4, <3>1, <3>2 DEF Given
  <2>6. CASE b > a
    <3>1. misfit_chk(P, s) = [type |-> Given(a < 2 /\ b >= 3, worth(b)), short_hand |-> IF a < 2 THEN 0 ELSE 0]
      <4>1. ~(a >= b) /\ 1 - 1 = 0
        BY <2>2, <2>6
      <4>2. QED
        BY <4>1 DEF misfit_chk, a, b, worth
    <3>2. misfit_chk(Q, s) = [type |-> Given(a < 2 /\ b >= 3, worth(b)), short_hand |-> IF a < 2 THEN 1 ELSE 0]
      <4>1. b >= a /\ 1 - 0 = 1
        BY <2>2, <2>6
      <4>2. QED
        BY <2>3, <4>1 DEF misfit_chk, a, b, worth
    <3>3. QED
      BY <2>2, <2>4, <3>1, <3>2 DEF Given
  <2>7. CASE a = b
    <3>1. ~(a < 2 /\ a >= 3) /\ a >= b /\ b >= a /\ 1 - 0 = 1
      BY <2>2, <2>7
    <3>2. misfit_chk(P, s).type = 0 /\ misfit_chk(Q, s).type = 0
      BY <2>3, <2>7, <3>1 DEF misfit_chk, a, b, Given
    <3>3. QED
      BY <3>2
  <2>8. QED
    BY <2>2, <2>5, <2>6, <2>7
<1>2. SomeMisfit(Q) <=> SomeMisfit(P)
  BY <1>1, Zenon DEF SomeMisfit, HoldsMisfit
<1>3. QED
  BY <1>1, <1>2, Zenon

-----------------------------------------------------------------------------
(* What the sheet counts for both hands, and the points each metric makes of it. *)

Honors(P, m)      == Each(P, LAMBDA h : OverSuits(LAMBDA s : calc_alt_hcp(h, s, m)))
Deducted(P, m)    == Each(P, LAMBDA h : OverSuits(LAMBDA s : shortHon_adj(h, s, m)))
Lpts(P, n, cap)   == Each(P, LAMBDA h : LptsOver(h, n, cap))
Square(P, v)      == Each(P, LAMBDA h : IfSquare(h, v))
Shortness(P)      == Each(P, Dpts)
FitOf(P, m, t)    == IF IsFitted(t) THEN Do_Trump_fit(P, m, t).df ELSE Zeroes

\* Each hand has its own of these.
LEMMA CountsTrade ==
  ASSUME NEW P, NEW Q, Mirrored(Q, P)
  PROVE  /\ \A m : Mirrored(Honors(Q, m), Honors(P, m)) /\ Mirrored(Deducted(Q, m), Deducted(P, m))
         /\ \A n, cap : Mirrored(Lpts(Q, n, cap), Lpts(P, n, cap))
         /\ \A v : Mirrored(Square(Q, v), Square(P, v))
         /\ Mirrored(Shortness(Q), Shortness(P))
         /\ Mirrored(Zeroes, Zeroes)
<1>1. 0 \in Both /\ 1 \in Both
  BY DEF Both
<1>2. Q[0] = P[1] /\ Q[1] = P[0]
  BY DEF Mirrored
<1>3. \A m : Mirrored(Honors(Q, m), Honors(P, m)) /\ Mirrored(Deducted(Q, m), Deducted(P, m))
  BY <1>1, <1>2, Zenon DEF Honors, Deducted, Each, Mirrored, OverSuits
<1>4. /\ \A n, cap : Mirrored(Lpts(Q, n, cap), Lpts(P, n, cap))
      /\ \A v : Mirrored(Square(Q, v), Square(P, v))
  BY <1>1, <1>2, Zenon DEF Lpts, Square, Each, Mirrored
<1>5. Mirrored(Shortness(Q), Shortness(P)) /\ Mirrored(Zeroes, Zeroes)
  BY <1>1, <1>2, Zenon DEF Shortness, Zeroes, Each, Mirrored
<1>6. QED
  BY <1>3, <1>4, <1>5

\* With a fit or without.
LEMMA FitOfTrade ==
  ASSUME NEW Q, NEW u, NEW P, NEW t, Traded(Q, u, P, t), NEW m \in {BERGEN, DKP}
  PROVE  Mirrored(FitOf(Q, m, u), FitOf(P, m, t))
<1>1. IsFitted(u) <=> IsFitted(t)
  BY DEF Traded, IsFitted
<1>2. Mirrored(Zeroes, Zeroes)
  BY DEF Mirrored, Zeroes, Both
<1>3. QED
  BY <1>1, <1>2, FitPointsTrade DEF FitOf

-----------------------------------------------------------------------------
\* Bergen.
BergenNt(P) ==
  Rounded((Zeroes ++ Honors(P, BERGEN)) ++ (Zeroes ++ Deducted(P, BERGEN)))
  ++ (Zeroes ++ Each(P, LAMBDA h : OverSuits(LAMBDA s : SynBERG(h, s)))) ++ (Zeroes ++ Lpts(P, 4, 13))
  ++ (Zeroes ++ Each(P, Adjust3)) ++ Square(P, -1)
BergenHf(P) == [h \in Both |-> Hf_ptsBERG(P, h)]

\* The two results of Bergen, as sums over the hands.
LEMMA BergenPoints ==
  ASSUME NEW P, NEW t
  PROVE  /\ bergen_calc(P, t, ZeroSheet).nt = IF SomeMisfit(P) THEN BergenNt(P) -- (Zeroes ++ Lpts(P, 4, 13))
                                              ELSE BergenNt(P)
         /\ bergen_calc(P, t, ZeroSheet).suit = BergenNt(P) ++ BergenHf(P) ++ Do_Trump_fit(P, BERGEN, t).df
                                                ++ Do_Trump_fit(P, BERGEN, t).fn
BY SMTT(30) DEF bergen_calc, Evaluation, BothCounted, WithLpts, ZeroSheet, Honors, Deducted, Lpts, Square,
           BergenNt, BergenHf

\* Each of the sums is mirrored.
LEMMA BergenTrades ==
  ASSUME NEW P \in SideType, NEW Q \in SideType, NEW u, NEW t, Traded(Q, u, P, t)
  PROVE  /\ Mirrored(bergen_calc(Q, u, ZeroSheet).nt, bergen_calc(P, t, ZeroSheet).nt)
         /\ Mirrored(bergen_calc(Q, u, ZeroSheet).suit, bergen_calc(P, t, ZeroSheet).suit)
<1>1. Mirrored(Q, P)
  BY DEF Traded
<1>2. SomeMisfit(Q) <=> SomeMisfit(P)
  BY <1>1, MisfitsTrade
<1>3. 0 \in Both /\ 1 \in Both
  BY DEF Both
<1> DEFINE Syn(X) == Each(X, LAMBDA h : OverSuits(LAMBDA s : SynBERG(h, s)))
           Body(X) == Each(X, Adjust3)
<1>4. Mirrored(Syn(Q), Syn(P)) /\ Mirrored(Body(Q), Body(P))
  BY <1>1, <1>3, Zenon DEF Each, OverSuits, Mirrored
<1>5. Mirrored(BergenNt(Q), BergenNt(P))
  <2>1. BergenNt(Q) = Rounded((Zeroes ++ Honors(Q, BERGEN)) ++ (Zeroes ++ Deducted(Q, BERGEN)))
                      ++ (Zeroes ++ Syn(Q)) ++ (Zeroes ++ Lpts(Q, 4, 13)) ++ (Zeroes ++ Body(Q)) ++ Square(Q, -1)
    BY Zenon DEF BergenNt
  <2>2. BergenNt(P) = Rounded((Zeroes ++ Honors(P, BERGEN)) ++ (Zeroes ++ Deducted(P, BERGEN)))
                      ++ (Zeroes ++ Syn(P)) ++ (Zeroes ++ Lpts(P, 4, 13)) ++ (Zeroes ++ Body(P)) ++ Square(P, -1)
    BY Zenon DEF BergenNt
  <2> HIDE DEF Syn, Body
  <2>3. QED
    BY <1>1, <1>4, <2>1, <2>2, CountsTrade, PairsTrade, Zenon

<1>6. Mirrored(BergenHf(Q), BergenHf(P))
  <2> DEFINE fits(X, hf, s) == \/ FitLength(X, s) >= 8
                               \/ Length(X[1 - hf], s) >= 5 /\ FitLength(X, s) >= 7
             some(X, hf) == {s \in MetricSuits : Points(X[hf], s) \in 1..3 /\ fits(X, hf, s)}
  <2>1. \A X, hf : Hf_ptsBERG(X, hf) = Min({2, Cardinality(some(X, hf))})
    BY Zenon DEF Hf_ptsBERG
  <2>2. \A s \in MetricSuits : FitLength(Q, s) = FitLength(P, s)
    BY <1>1, FitsTrade
  <2>3. Q[0] = P[1] /\ Q[1] = P[0] /\ 1 - 0 = 1 /\ 1 - 1 = 0
    BY <1>1 DEF Mirrored
  <2>4. some(Q, 0) = some(P, 1) /\ some(Q, 1) = some(P, 0)
    BY <2>2, <2>3, Zenon
  <2> HIDE DEF some
  <2>5. Hf_ptsBERG(Q, 0) = Hf_ptsBERG(P, 1) /\ Hf_ptsBERG(Q, 1) = Hf_ptsBERG(P, 0)
    BY <2>1, <2>4
  <2>6. QED
    BY <1>3, <2>5 DEF BergenHf, Mirrored
<1>7. /\ Mirrored(Do_Trump_fit(Q, BERGEN, u).df, Do_Trump_fit(P, BERGEN, t).df)
      /\ Mirrored(Do_Trump_fit(Q, BERGEN, u).fn, Do_Trump_fit(P, BERGEN, t).fn)
  BY FitPointsTrade
<1>8. Mirrored(bergen_calc(Q, u, ZeroSheet).suit, bergen_calc(P, t, ZeroSheet).suit)
  BY <1>5, <1>6, <1>7, BergenPoints, PairsTrade, Zenon
<1>9. Mirrored(bergen_calc(Q, u, ZeroSheet).nt, bergen_calc(P, t, ZeroSheet).nt)
  BY <1>1, <1>2, <1>5, BergenPoints, CountsTrade, PairsTrade
<1>10. QED
  BY <1>8, <1>9

-----------------------------------------------------------------------------
\* Bissell, and Kleinman.
LEMMA BissellTrades ==
  ASSUME NEW P, NEW Q, Mirrored(Q, P), NEW left
  PROVE  /\ Mirrored(bissell_calc(Q, ZeroSheet, left).nt, bissell_calc(P, ZeroSheet, left).nt)
         /\ Mirrored(bissell_calc(Q, ZeroSheet, left).suit, bissell_calc(P, ZeroSheet, left).suit)
<1> DEFINE pts(X) == Each(X, LAMBDA h : OverSuits(LAMBDA s : BissellSuit(h, s)) - Given(IsFlat(h), 1))
<1>1. \A X : bissell_calc(X, ZeroSheet, left).nt = pts(X) /\ bissell_calc(X, ZeroSheet, left).suit = pts(X)
  BY DEF bissell_calc, Evaluation
<1>2. 0 \in Both /\ 1 \in Both
  BY DEF Both
<1>3. Mirrored(pts(Q), pts(P))
  BY <1>2, Zenon DEF Mirrored, Each, OverSuits
<1> HIDE DEF pts
<1>4. QED
  BY <1>1, <1>3

AdjOfDKP(P) == Each(P, LAMBDA h : OverSuits(LAMBDA s : AdjDKP(h, s)))
SynOfDKP(P) == Each(P, LAMBDA h : OverSuits(LAMBDA s : SynDKP(h, s)))
DkpNt(P) ==
  Thirds((Zeroes ++ Honors(P, DKP)) ++ (Zeroes ++ AdjOfDKP(P)) ++ SynOfDKP(P) ++ (Zeroes ++ Square(P, -2)))
  ++ (Zeroes ++ Lpts(P, 4, 3))

\* The results of Kleinman.
LEMMA DkpPoints ==
  ASSUME NEW P, NEW t
  PROVE  /\ dkp_calc(P, t, ZeroSheet).nt = DkpNt(P)
         /\ dkp_calc(P, t, ZeroSheet).suit = DkpNt(P) ++ FitOf(P, DKP, t)
<1>1. CASE IsFitted(t)
  BY <1>1, SMTT(30) DEF dkp_calc, Evaluation, Fitted, WithLpts, ZeroSheet, Honors, Lpts, Square, AdjOfDKP, SynOfDKP,
                   DkpNt, FitOf
<1>2. CASE ~IsFitted(t)
  BY <1>2, SMTT(30) DEF dkp_calc, Evaluation, Fitted, WithLpts, ZeroSheet, Honors, Lpts, Square, AdjOfDKP, SynOfDKP,
                   DkpNt, FitOf
<1>3. QED
  BY <1>1, <1>2

\* They are mirrored.
LEMMA DkpTrades ==
  ASSUME NEW P, NEW Q, NEW u, NEW t, Traded(Q, u, P, t)
  PROVE  /\ Mirrored(dkp_calc(Q, u, ZeroSheet).nt, dkp_calc(P, t, ZeroSheet).nt)
         /\ Mirrored(dkp_calc(Q, u, ZeroSheet).suit, dkp_calc(P, t, ZeroSheet).suit)
<1>1. Mirrored(Q, P)
  BY DEF Traded
<1>2. 0 \in Both /\ 1 \in Both
  BY DEF Both
<1>3. Mirrored(AdjOfDKP(Q), AdjOfDKP(P)) /\ Mirrored(SynOfDKP(Q), SynOfDKP(P))
  BY <1>1, <1>2, Zenon DEF Each, OverSuits, Mirrored, AdjOfDKP, SynOfDKP
<1>4. Mirrored(DkpNt(Q), DkpNt(P))
  BY <1>1, <1>3, CountsTrade, PairsTrade, Zenon DEF DkpNt
<1>5. Mirrored(FitOf(Q, DKP, u), FitOf(P, DKP, t))
  BY FitOfTrade
<1>6. QED
  BY <1>4, <1>5, DkpPoints, PairsTrade

-----------------------------------------------------------------------------
\* Kaplan.
KaplanHf(P) == [h \in Both |-> Hf_ptsKAPLAN(P, h)]
KaplanNt(P) ==
  Rounded(Zeroes ++ Honors(P, KAPLAN)) ++ Rounded(Zeroes ++ Deducted(P, KAPLAN)) ++ (Zeroes ++ Lpts(P, 4, 13))
  ++ KaplanHf(P)
KaplanFit(P, t) == Each(P, LAMBDA h : DfitKAPLAN(h, t))

\* The results of Kaplan.
LEMMA KaplanPoints ==
  ASSUME NEW P, NEW t
  PROVE  /\ kaplan_calc(P, t, ZeroSheet).nt = KaplanNt(P)
         /\ kaplan_calc(P, t, ZeroSheet).suit = IF IsFitted(t) THEN KaplanNt(P) ++ KaplanFit(P, t) ELSE KaplanNt(P)
<1>1. CASE IsFitted(t)
  BY <1>1, SMTT(30) DEF kaplan_calc, Evaluation, BothCounted, WithLpts, AdjRounded, ZeroSheet, Honors, Deducted, Lpts,
                   KaplanHf, KaplanNt, KaplanFit
<1>2. CASE ~IsFitted(t)
  BY <1>2, SMTT(30) DEF kaplan_calc, Evaluation, BothCounted, WithLpts, AdjRounded, ZeroSheet, Honors, Deducted, Lpts,
                   KaplanHf, KaplanNt, KaplanFit
<1>3. QED
  BY <1>1, <1>2

\* They are mirrored.
LEMMA KaplanTrades ==
  ASSUME NEW P, NEW Q, NEW u, NEW t, Traded(Q, u, P, t)
  PROVE  /\ Mirrored(kaplan_calc(Q, u, ZeroSheet).nt, kaplan_calc(P, t, ZeroSheet).nt)
         /\ Mirrored(kaplan_calc(Q, u, ZeroSheet).suit, kaplan_calc(P, t, ZeroSheet).suit)
<1>1. Mirrored(Q, P)
  BY DEF Traded
<1>2. 0 \in Both /\ 1 \in Both /\ 1 - 0 = 1 /\ 1 - 1 = 0
  BY DEF Both
<1>3. Mirrored(KaplanHf(Q), KaplanHf(P))
  <2>1. Hf_ptsKAPLAN(Q, 0) = Hf_ptsKAPLAN(P, 1) /\ Hf_ptsKAPLAN(Q, 1) = Hf_ptsKAPLAN(P, 0)
    BY <1>1, <1>2, Zenon DEF Hf_ptsKAPLAN, OverSuits, Mirrored
  <2>2. QED
    BY <1>2, <2>1 DEF KaplanHf, Mirrored
<1>4. Mirrored(KaplanNt(Q), KaplanNt(P))
  BY <1>1, <1>3, CountsTrade, PairsTrade, Zenon DEF KaplanNt
<1>5. Mirrored(KaplanFit(Q, u), KaplanFit(P, t))
  <2>1. \A h : DfitKAPLAN(h, u) = DfitKAPLAN(h, t)
    <3>1. u.tsuit = t.tsuit
      BY DEF Traded
    <3>2. QED
      BY <3>1, Zenon DEF DfitKAPLAN, OverSide, SideSuits
  <2>2. QED
    BY <1>1, <1>2, <2>1, Zenon DEF KaplanFit, Each, Mirrored
<1>6. IsFitted(u) <=> IsFitted(t)
  BY DEF Traded, IsFitted
<1>7. QED
  BY <1>4, <1>5, <1>6, KaplanPoints, PairsTrade

-----------------------------------------------------------------------------
\* Zar, without the points for fits.
ZarPoints(P) ==
  Rounded((Zeroes ++ Honors(P, ZARBAS)) ++ (Zeroes ++ Deducted(P, ZARBAS))) ++ Each(P, Controls) ++ Each(P, ZarDist)
  ++ Each(P, SynZAR)
ZarSpades(P) == [h \in Both |-> Given(ZarPoints(P)[h] = 25 /\ Length(P[h], 3) >= 4, 1)]

\* The results of Zar.
LEMMA ZarBasicPoints ==
  ASSUME NEW P
  PROVE  /\ zarbasic_calc(P, ZeroSheet).nt = ZarPoints(P) ++ ZarSpades(P)
         /\ zarbasic_calc(P, ZeroSheet).suit = ZarPoints(P) ++ ZarSpades(P)
BY SMTT(30) DEF zarbasic_calc, Evaluation, BothCounted, AdjRounded, ZeroSheet, Honors, Deducted, ZarPoints, ZarSpades

\* They are mirrored.
LEMMA ZarBasicTrades ==
  ASSUME NEW P, NEW Q, Mirrored(Q, P)
  PROVE  /\ Mirrored(zarbasic_calc(Q, ZeroSheet).nt, zarbasic_calc(P, ZeroSheet).nt)
         /\ Mirrored(zarbasic_calc(Q, ZeroSheet).suit, zarbasic_calc(P, ZeroSheet).suit)
<1>1. 0 \in Both /\ 1 \in Both
  BY DEF Both
<1> DEFINE C(X) == Each(X, Controls)
           D(X) == Each(X, ZarDist)
           S(X) == Each(X, SynZAR)
<1>2. Mirrored(C(Q), C(P)) /\ Mirrored(D(Q), D(P)) /\ Mirrored(S(Q), S(P))
  BY <1>1, Zenon DEF Each, Mirrored
<1>3. Mirrored(ZarPoints(Q), ZarPoints(P))
  <2>1. \A X : ZarPoints(X) = Rounded((Zeroes ++ Honors(X, ZARBAS)) ++ (Zeroes ++ Deducted(X, ZARBAS)))
                              ++ C(X) ++ D(X) ++ S(X)
    BY Zenon DEF ZarPoints
  <2> HIDE DEF C, D, S
  <2>2. QED
    BY <1>2, <2>1, CountsTrade, PairsTrade, Zenon
<1>4. Mirrored(ZarSpades(Q), ZarSpades(P))
  BY <1>1, <1>3, Zenon DEF ZarSpades, Mirrored
<1>5. QED
  BY <1>3, <1>4, ZarBasicPoints, PairsTrade

-----------------------------------------------------------------------------
\* Kaplan and Rubens: p has the points of each hand.
KnrShort(p) == [h \in Both |-> p[h].short]
KnrFinal(P, p, t) ==
  [h \in Both |-> p[h].tot + KnR_Trump_fit(t, KnrShort(p)).dfit[h] + KnR_Trump_fit(t, KnrShort(p)).fn[h]
                  + KnrMisfit(P, t, KnrShort(p))[h]]

\* The results of Kaplan and Rubens, rounded.
LEMMA KnrPoints ==
  ASSUME NEW P, NEW t
  PROVE  LET p == Each(P, KnR_pts_all)
         IN  /\ knr_calc(P, t, ZeroSheet).nt = [h \in Both |-> p[h].rounded]
             /\ knr_calc(P, t, ZeroSheet).suit = [h \in Both |-> KnR_Round(p[h].body, KnrFinal(P, p, t)[h])]
BY SMTT(30) DEF knr_calc, Evaluation, KnrFinal, KnrShort

\* What dummy and declarer get for their shortness.
LEMMA KnrFitTrades ==
  ASSUME NEW P, NEW Q, NEW u, NEW t, Traded(Q, u, P, t), NEW a, NEW b, Mirrored(b, a)
  PROVE  /\ Mirrored(KnR_Trump_fit(u, b).dfit, KnR_Trump_fit(t, a).dfit)
         /\ Mirrored(KnR_Trump_fit(u, b).fn, KnR_Trump_fit(t, a).fn)
<1> DEFINE share(x, v, eight, nine) ==
             CASE x.fit_len = 8 -> v \div eight [] x.fit_len = 9 -> v \div nine [] OTHER -> v
           dfit(x, short, h) == Given(IsFitted(x) /\ h = x.dummy, share(x, short[h], 2, 1))
           fn(x, short, h) == Given(IsFitted(x) /\ h = x.decl, share(x, short[h], 4, 2))
<1>1. 0 \in Both /\ 1 \in Both
  BY DEF Both
<1>2. ASSUME NEW x, NEW short
      PROVE  /\ KnR_Trump_fit(x, short).dfit[0] = dfit(x, short, 0)
             /\ KnR_Trump_fit(x, short).dfit[1] = dfit(x, short, 1)
             /\ KnR_Trump_fit(x, short).fn[0] = fn(x, short, 0)
             /\ KnR_Trump_fit(x, short).fn[1] = fn(x, short, 1)
  <2>1. /\ KnR_Trump_fit(x, short).dfit = [h \in Both |-> dfit(x, short, h)]
        /\ KnR_Trump_fit(x, short).fn = [h \in Both |-> fn(x, short, h)]
    BY Zenon DEF KnR_Trump_fit
  <2> HIDE DEF dfit, fn
  <2>2. QED
    BY <1>1, <2>1
<1>3. IsFitted(u) <=> IsFitted(t)
  BY DEF Traded, IsFitted
<1>4. \A v, eight, nine : share(u, v, eight, nine) = share(t, v, eight, nine)
  BY DEF Traded
<1> HIDE DEF share
<1>5. b[0] = a[1] /\ b[1] = a[0]
  BY DEF Mirrored
<1>6. CASE IsFitted(t)
  <2>1. /\ dfit(u, b, 0) = dfit(t, a, 1) /\ dfit(u, b, 1) = dfit(t, a, 0)
        /\ fn(u, b, 0) = fn(t, a, 1) /\ fn(u, b, 1) = fn(t, a, 0)
    BY <1>3, <1>4, <1>5, <1>6 DEF Traded, Given
  <2> HIDE DEF dfit, fn
  <2>2. QED
    BY <1>2, <2>1 DEF Mirrored
<1>7. CASE ~IsFitted(t)
  <2>1. /\ dfit(u, b, 0) = dfit(t, a, 1) /\ dfit(u, b, 1) = dfit(t, a, 0)
        /\ fn(u, b, 0) = fn(t, a, 1) /\ fn(u, b, 1) = fn(t, a, 0)
    BY <1>3, <1>7 DEF Given
  <2> HIDE DEF dfit, fn
  <2>2. QED
    BY <1>2, <2>1 DEF Mirrored
<1>8. QED
  BY <1>6, <1>7

\* What a misfit costs each of them.
LEMMA KnrMisfitTrades ==
  ASSUME NEW P \in SideType, NEW Q \in SideType, NEW u, NEW t, Traded(Q, u, P, t), NEW a, NEW b, Mirrored(b, a)
  PROVE  Mirrored(KnrMisfit(Q, u, b), KnrMisfit(P, t, a))
<1> DEFINE bad(X) == {s \in MetricSuits : misfit_chk(X, s).type >= 5}
           costs(X, h, s) == Given(misfit_chk(X, s).short_hand = h, IF Length(X[h], s) = 0 THEN 300 ELSE 200)
           table(X, h) == [s \in bad(X) |-> costs(X, h, s)]
           pts(X, x, short, h) == IF bad(X) = {} \/ IsFitted(x) THEN 0
                                  ELSE IF x.fit_len = 7 THEN -SumFunction(table(X, h))
                                  ELSE -short[h]
<1>1. 0 \in Both /\ 1 \in Both
  BY DEF Both
<1>2. \A X, x, short : KnrMisfit(X, x, short) = [h \in Both |-> pts(X, x, short, h)]
  BY Zenon DEF KnrMisfit
<1>3. Mirrored(Q, P) /\ Q[0] = P[1] /\ Q[1] = P[0]
  BY DEF Traded, Mirrored
<1>4. bad(Q) = bad(P)
  BY <1>3, MisfitsTrade
<1>5. \A s \in bad(P) : costs(Q, 0, s) = costs(P, 1, s) /\ costs(Q, 1, s) = costs(P, 0, s)
  <2>1. SUFFICES ASSUME NEW s \in bad(P)
                 PROVE  costs(Q, 0, s) = costs(P, 1, s) /\ costs(Q, 1, s) = costs(P, 0, s)
    BY Zenon
  <2>2. \/ misfit_chk(P, s).short_hand = 0 /\ misfit_chk(Q, s).short_hand = 1
        \/ misfit_chk(P, s).short_hand = 1 /\ misfit_chk(Q, s).short_hand = 0
    BY <1>3, MisfitsTrade
  <2>3. QED
    BY <1>3, <2>2 DEF Given
<1> HIDE DEF costs
<1>6. table(Q, 0) = table(P, 1) /\ table(Q, 1) = table(P, 0)
  <2> HIDE DEF bad
  <2>1. QED
    BY <1>4, <1>5
<1>7. IsFitted(u) <=> IsFitted(t)
  BY DEF Traded, IsFitted
<1> HIDE DEF table, bad
<1>8. pts(Q, u, b, 0) = pts(P, t, a, 1) /\ pts(Q, u, b, 1) = pts(P, t, a, 0)
  BY <1>4, <1>6, <1>7 DEF Traded, Mirrored
<1> HIDE DEF pts
<1>9. QED
  BY <1>1, <1>2, <1>8 DEF Mirrored

\* They are mirrored.
LEMMA KnrTrades ==
  ASSUME NEW P \in SideType, NEW Q \in SideType, NEW u, NEW t, Traded(Q, u, P, t)
  PROVE  /\ Mirrored(knr_calc(Q, u, ZeroSheet).nt, knr_calc(P, t, ZeroSheet).nt)
         /\ Mirrored(knr_calc(Q, u, ZeroSheet).suit, knr_calc(P, t, ZeroSheet).suit)
<1> DEFINE p == Each(P, KnR_pts_all)
           q == Each(Q, KnR_pts_all)
<1>1. 0 \in Both /\ 1 \in Both
  BY DEF Both
<1>2. Mirrored(q, p)
  BY <1>1, Zenon DEF Traded, Mirrored, Each
<1>3. /\ knr_calc(P, t, ZeroSheet).nt = [h \in Both |-> p[h].rounded]
      /\ knr_calc(P, t, ZeroSheet).suit = [h \in Both |-> KnR_Round(p[h].body, KnrFinal(P, p, t)[h])]
      /\ knr_calc(Q, u, ZeroSheet).nt = [h \in Both |-> q[h].rounded]
      /\ knr_calc(Q, u, ZeroSheet).suit = [h \in Both |-> KnR_Round(q[h].body, KnrFinal(Q, q, u)[h])]
  BY KnrPoints
<1> HIDE DEF p, q
<1>4. q[0] = p[1] /\ q[1] = p[0]
  BY <1>2 DEF Mirrored
<1>5. Mirrored(KnrShort(q), KnrShort(p))
  BY <1>1, <1>4 DEF KnrShort, Mirrored
<1>6. Mirrored(KnrFinal(Q, q, u), KnrFinal(P, p, t))
  <2>1. /\ Mirrored(KnR_Trump_fit(u, KnrShort(q)).dfit, KnR_Trump_fit(t, KnrShort(p)).dfit)
        /\ Mirrored(KnR_Trump_fit(u, KnrShort(q)).fn, KnR_Trump_fit(t, KnrShort(p)).fn)
    BY <1>5, KnrFitTrades
  <2>2. Mirrored(KnrMisfit(Q, u, KnrShort(q)), KnrMisfit(P, t, KnrShort(p)))
    BY <1>5, KnrMisfitTrades
  <2>3. QED
    BY <1>1, <1>4, <2>1, <2>2, Zenon DEF KnrFinal, Mirrored
<1>7. QED
  BY <1>1, <1>3, <1>4, <1>6 DEF Mirrored

-----------------------------------------------------------------------------
\* Goren.
GorenSheet(P) ==
  [BothCounted(P, GOREN, ZeroSheet) EXCEPT
     !.dpts = @ ++ Each(P, Dpts), !.body = Each(P, GorenBody),
     !.hand = [h \in Both |-> IF SquareHand(P[h]) THEN -1 ELSE @[h]]]
GorenFitted(P, t) ==
  [GorenSheet(P) EXCEPT !.dfit[t.dummy] = DfitGOREN(P[t.dummy], t), !.fn[t.decl] = Fn_ptsGOREN(P[t.decl], t),
                        !.hand[t.decl] = 0, !.hf[t.dummy] = Hf_ptsGOREN(P[t.dummy], t)]
GorenHand(P) == [h \in Both |-> IF SquareHand(P[h]) THEN -1 ELSE Zeroes[h]]
GorenPoints(P) ==
  Rounded((Zeroes ++ Honors(P, GOREN)) ++ (Zeroes ++ Deducted(P, GOREN))) ++ Each(P, GorenBody)
GorenSuit(P, t, du, dc) ==
  [GorenPoints(P) EXCEPT ![du] = @ + DfitGOREN(P[du], t) + GorenHand(P)[du] + Hf_ptsGOREN(P[du], t),
                         ![dc] = @ + Fn_ptsGOREN(P[dc], t)]

\* The sheet when only the honours have been counted.
LEMMA HonorsOnSheet ==
  ASSUME NEW P, NEW m
  PROVE  BothCounted(P, m, ZeroSheet) =
           [fhcp |-> Zeroes ++ Honors(P, m), fadj |-> Zeroes ++ Deducted(P, m), hcp_adj |-> Zeroes,
            dpts |-> Zeroes, lpts |-> Zeroes, syn |-> Zeroes, hf |-> Zeroes, dfit |-> Zeroes, fn |-> Zeroes,
            hand |-> Zeroes, body |-> Zeroes]
<1>1. BothCounted(P, m, ZeroSheet) = [ZeroSheet EXCEPT !.fhcp = @ ++ Honors(P, m), !.fadj = @ ++ Deducted(P, m)]
  BY Zenon DEF BothCounted, Honors, Deducted
<1>2. QED
  BY <1>1 DEF ZeroSheet

\* What Goren has on the sheet before the fit.
LEMMA GorenFields ==
  ASSUME NEW P
  PROVE  LET g == GorenSheet(P)
         IN  /\ g.fhcp = Zeroes ++ Honors(P, GOREN) /\ g.fadj = Zeroes ++ Deducted(P, GOREN)
             /\ g.dpts = Zeroes ++ Shortness(P) /\ g.body = Each(P, GorenBody) /\ g.hand = GorenHand(P)
             /\ g.dfit = Zeroes /\ g.fn = Zeroes /\ g.hf = Zeroes
<1> DEFINE b == BothCounted(P, GOREN, ZeroSheet)
<1>1. /\ b.dpts = Zeroes /\ b.hand = Zeroes
      /\ DOMAIN b = {"fhcp", "fadj", "hcp_adj", "dpts", "lpts", "syn", "hf", "dfit", "fn", "hand", "body"}
      /\ b.fhcp = Zeroes ++ Honors(P, GOREN) /\ b.fadj = Zeroes ++ Deducted(P, GOREN)
      /\ b.dfit = Zeroes /\ b.fn = Zeroes /\ b.hf = Zeroes
  BY HonorsOnSheet
<1> HIDE DEF b
<1>2. GorenSheet(P) = [b EXCEPT !.dpts = @ ++ Shortness(P), !.body = Each(P, GorenBody),
                                !.hand = [h \in Both |-> IF SquareHand(P[h]) THEN -1 ELSE @[h]]]
  BY Zenon DEF GorenSheet, b, Shortness
<1>3. GorenSheet(P) = [b EXCEPT !.dpts = Zeroes ++ Shortness(P), !.body = Each(P, GorenBody), !.hand = GorenHand(P)]
  BY <1>1, <1>2, SMT DEF GorenHand
<1>4. QED
  BY <1>1, <1>3

\* The results of Goren from the sheet before the fit and after.
LEMMA GorenResults ==
  ASSUME NEW P, NEW t
  PROVE  LET g == GorenSheet(P)
             f == IF IsFitted(t) THEN GorenFitted(P, t) ELSE g
             pts == Rounded(g.fhcp ++ g.fadj) ++ g.body
             du == t.dummy
             dc == t.decl
             e == goren_calc(P, t, ZeroSheet)
         IN  /\ e.nt = pts ++ g.hand
             /\ e.suit = IF IsFitted(t)
                         THEN [pts EXCEPT ![du] = @ + f.dfit[du] + f.hand[du] + f.hf[du], ![dc] = @ + f.fn[dc]]
                         ELSE IF SomeMisfit(P) THEN pts -- f.dpts ELSE pts
BY Zenon DEF goren_calc, Evaluation, GorenSheet, GorenFitted

\* What the fit adds: to the dummy for shortness, its shape and honours, to the
\* declarer for trumps.
LEMMA GorenAdds ==
  ASSUME NEW P, NEW t, t.dummy \in Both, t.decl \in Both, t.dummy # t.decl
  PROVE  LET f == GorenFitted(P, t)
         IN  /\ f.dfit[t.dummy] = DfitGOREN(P[t.dummy], t) /\ f.hf[t.dummy] = Hf_ptsGOREN(P[t.dummy], t)
             /\ f.fn[t.decl] = Fn_ptsGOREN(P[t.decl], t) /\ f.hand[t.dummy] = GorenHand(P)[t.dummy]
<1> DEFINE g == GorenSheet(P)
           d == DfitGOREN(P[t.dummy], t)
           n == Fn_ptsGOREN(P[t.decl], t)
           k == Hf_ptsGOREN(P[t.dummy], t)
           f == [g EXCEPT !.dfit[t.dummy] = d, !.fn[t.decl] = n, !.hand[t.decl] = 0, !.hf[t.dummy] = k]
<1>1. g.hand = GorenHand(P) /\ g.dfit = Zeroes /\ g.fn = Zeroes /\ g.hf = Zeroes
  BY GorenFields
<1>2. {"dfit", "fn", "hand", "hf"} \subseteq DOMAIN g
  BY SMT DEF GorenSheet, BothCounted, ZeroSheet
<1>3. DOMAIN GorenHand(P) = Both /\ DOMAIN Zeroes = Both
  BY DEF GorenHand, Zeroes
<1>4. GorenFitted(P, t) = f
  BY Zenon DEF GorenFitted
<1> HIDE DEF g, d, n, k
<1>5. f.dfit[t.dummy] = d /\ f.hf[t.dummy] = k /\ f.fn[t.decl] = n /\ f.hand[t.dummy] = GorenHand(P)[t.dummy]
  BY <1>1, <1>2, <1>3
<1>6. QED
  BY <1>4, <1>5, Zenon DEF d, n, k

\* They are mirrored: what the dummy and the declarer get follows the hand.
LEMMA GorenTrades ==
  ASSUME NEW P \in SideType, NEW Q \in SideType, NEW u, NEW t, Traded(Q, u, P, t)
  PROVE  /\ Mirrored(goren_calc(Q, u, ZeroSheet).nt, goren_calc(P, t, ZeroSheet).nt)
         /\ Mirrored(goren_calc(Q, u, ZeroSheet).suit, goren_calc(P, t, ZeroSheet).suit)
<1>1. 0 \in Both /\ 1 \in Both
  BY DEF Both
<1>2. Mirrored(Q, P) /\ Q[0] = P[1] /\ Q[1] = P[0]
  BY DEF Traded, Mirrored
<1>3. IsFitted(u) <=> IsFitted(t)
  BY DEF Traded, IsFitted
<1>4. SomeMisfit(Q) <=> SomeMisfit(P)
  BY <1>2, MisfitsTrade
<1>5. Mirrored(GorenHand(Q), GorenHand(P))
  BY <1>1, <1>2, Zenon DEF GorenHand, Zeroes, Mirrored
<1>6. Mirrored(GorenPoints(Q), GorenPoints(P))
  <2> DEFINE Body(X) == Each(X, GorenBody)
  <2>1. Mirrored(Body(Q), Body(P))
    BY <1>1, <1>2, Zenon DEF Each, Mirrored
  <2>2. \A X : GorenPoints(X) = Rounded((Zeroes ++ Honors(X, GOREN)) ++ (Zeroes ++ Deducted(X, GOREN))) ++ Body(X)
    BY Zenon DEF GorenPoints
  <2> HIDE DEF Body
  <2>3. QED
    BY <1>2, <2>1, <2>2, CountsTrade, PairsTrade, Zenon
<1>7. ASSUME NEW X, NEW x
      PROVE  /\ goren_calc(X, x, ZeroSheet).nt = GorenPoints(X) ++ GorenHand(X)
             /\ ~IsFitted(x) => goren_calc(X, x, ZeroSheet).suit =
                                  IF SomeMisfit(X) THEN GorenPoints(X) -- (Zeroes ++ Shortness(X)) ELSE GorenPoints(X)
             /\ IsFitted(x) /\ x.dummy \in Both /\ x.decl \in Both /\ x.dummy # x.decl =>
                  goren_calc(X, x, ZeroSheet).suit = GorenSuit(X, x, x.dummy, x.decl)
  <2> DEFINE g == GorenSheet(X)
             pts == Rounded(g.fhcp ++ g.fadj) ++ g.body
             e == goren_calc(X, x, ZeroSheet)
             f == GorenFitted(X, x)
  <2>1. g.hand = GorenHand(X) /\ g.dpts = Zeroes ++ Shortness(X)
    BY GorenFields
  <2>2. pts = GorenPoints(X)
    <3>1. /\ g.fhcp = Zeroes ++ Honors(X, GOREN) /\ g.fadj = Zeroes ++ Deducted(X, GOREN)
          /\ g.body = Each(X, GorenBody)
      BY GorenFields
    <3>2. QED
      BY <3>1, Zenon DEF GorenPoints
  <2>3. /\ e.nt = pts ++ g.hand
        /\ ~IsFitted(x) => e.suit = IF SomeMisfit(X) THEN pts -- g.dpts ELSE pts
        /\ IsFitted(x) => e.suit = [pts EXCEPT ![x.dummy] = @ + f.dfit[x.dummy] + f.hand[x.dummy] + f.hf[x.dummy],
                                               ![x.decl] = @ + f.fn[x.decl]]
    BY GorenResults
  <2> HIDE DEF pts, g, e, f
  <2>4. e.nt = GorenPoints(X) ++ GorenHand(X)
    BY <2>1, <2>2, <2>3
  <2>5. ~IsFitted(x) => e.suit = IF SomeMisfit(X) THEN GorenPoints(X) -- (Zeroes ++ Shortness(X)) ELSE GorenPoints(X)
    BY <2>1, <2>2, <2>3
  <2>6. ASSUME IsFitted(x), x.dummy \in Both, x.decl \in Both, x.dummy # x.decl
        PROVE  e.suit = GorenSuit(X, x, x.dummy, x.decl)
    <3>1. /\ f.dfit[x.dummy] = DfitGOREN(X[x.dummy], x) /\ f.hf[x.dummy] = Hf_ptsGOREN(X[x.dummy], x)
          /\ f.fn[x.decl] = Fn_ptsGOREN(X[x.decl], x) /\ f.hand[x.dummy] = GorenHand(X)[x.dummy]
      BY <2>6, GorenAdds DEF f
    <3>2. QED
      BY <2>2, <2>3, <2>6, <3>1, Zenon DEF GorenSuit
  <2>7. QED
    BY <2>4, <2>5, <2>6 DEF e
<1>8. CASE ~IsFitted(t)
  BY <1>2, <1>3, <1>4, <1>5, <1>6, <1>7, <1>8, CountsTrade, PairsTrade
<1>9. CASE IsFitted(t)
  <2>1. /\ t.dummy \in Both /\ t.decl \in Both /\ t.dummy # t.decl
        /\ u.dummy \in Both /\ u.decl \in Both /\ u.dummy # u.decl
    BY <1>1, <1>9 DEF Traded
  <2>2. /\ goren_calc(P, t, ZeroSheet).suit = GorenSuit(P, t, t.dummy, t.decl)
        /\ goren_calc(Q, u, ZeroSheet).suit = GorenSuit(Q, u, u.dummy, u.decl)
    BY <1>3, <1>7, <1>9, <2>1
  <2>3. /\ DfitGOREN(Q[u.dummy], u) = DfitGOREN(P[t.dummy], t)
        /\ Hf_ptsGOREN(Q[u.dummy], u) = Hf_ptsGOREN(P[t.dummy], t)
        /\ Fn_ptsGOREN(Q[u.decl], u) = Fn_ptsGOREN(P[t.decl], t)
        /\ GorenHand(Q)[u.dummy] = GorenHand(P)[t.dummy]
    <3>1. Q[u.dummy] = P[t.dummy] /\ Q[u.decl] = P[t.decl] /\ GorenHand(Q)[u.dummy] = GorenHand(P)[t.dummy]
      BY <1>2, <1>5, <1>9 DEF Traded, Mirrored
    <3>2. /\ u.tsuit = t.tsuit /\ u.fit_len = t.fit_len /\ u.tlen[u.dummy] = t.tlen[t.dummy]
          /\ u.ss_len[u.dummy] = t.ss_len[t.dummy] /\ u.tlen[u.decl] = t.tlen[t.decl]
      BY <1>9 DEF Traded, Mirrored
    <3>3. QED
      BY <3>1, <3>2, RuffsTrade, LengthsTrade
  <2> DEFINE d == DfitGOREN(P[t.dummy], t)
             k == Hf_ptsGOREN(P[t.dummy], t)
             n == Fn_ptsGOREN(P[t.decl], t)
             m == GorenHand(P)[t.dummy]
             suit(pts, du, dc) == [pts EXCEPT ![du] = @ + d + m + k, ![dc] = @ + n]
  <2>4. /\ GorenSuit(P, t, t.dummy, t.decl) = suit(GorenPoints(P), t.dummy, t.decl)
        /\ GorenSuit(Q, u, u.dummy, u.decl) = suit(GorenPoints(Q), u.dummy, u.decl)
    BY <2>3, Zenon DEF GorenSuit
  <2>5. DOMAIN GorenPoints(P) = Both /\ DOMAIN GorenPoints(Q) = Both
    BY Zenon DEF GorenPoints, ++
  <2> HIDE DEF d, k, n, m
  <2>6. Mirrored(suit(GorenPoints(Q), u.dummy, u.decl), suit(GorenPoints(P), t.dummy, t.decl))
    BY <1>1, <1>6, <1>9, <2>5 DEF Traded, Mirrored
  <2>7. Mirrored(goren_calc(Q, u, ZeroSheet).nt, goren_calc(P, t, ZeroSheet).nt)
    BY <1>5, <1>6, <1>7, PairsTrade
  <2>8. QED
    BY <2>2, <2>4, <2>6, <2>7
<1>10. QED
  BY <1>8, <1>9

-----------------------------------------------------------------------------
\* Pavlicek.
PavLpts(P) == [h \in Both |-> IF LptsPAV(P)[h] = 1 THEN 1 ELSE Zeroes[h]]
PavBody(P) == Each(P, LAMBDA h : (HowMany(h, Ace) + HowMany(h, Ten)) \div 4)
PavSheet(P) ==
  [BothCounted(P, PAV, ZeroSheet) EXCEPT
     !.dpts = @ ++ Each(P, Dpts), !.body = Each(P, LAMBDA h : (HowMany(h, Ace) + HowMany(h, Ten)) \div 4),
     !.lpts = [h \in Both |-> IF LptsPAV(P)[h] = 1 THEN 1 ELSE @[h]]]
PavBare(P, t) == SquareHand(P[t.dummy]) /\ HowMany(P[t.dummy], Ace) = 0 /\ t.tlen[t.dummy] < 4
PavFitted(P, t) ==
  [PavSheet(P) EXCEPT !.dfit[t.dummy] = DfitPAV(P[t.dummy], t), !.fn[t.decl] = Fn_ptsPAV(P[t.decl], t),
                      !.hand[t.dummy] = IF PavBare(P, t) THEN -1 ELSE @]
PavWasted(P) ==
  [h \in Both |-> OverSuits(LAMBDA s : Given(HoldsMisfit(P, s) /\ misfit_chk(P, s).short_hand = h,
                                             DptsTable(Length(P[h], s))))]
PavPoints(P) ==
  Rounded((Zeroes ++ Honors(P, PAV)) ++ (Zeroes ++ Deducted(P, PAV))) ++ PavBody(P)
PavLong(P) == PavPoints(P) ++ (Zeroes ++ Shortness(P))
PavSuit(P, t, du, dc) ==
  [PavLong(P) EXCEPT ![du] = @ + DfitPAV(P[du], t) + (IF PavBare(P, t) THEN -1 ELSE 0),
                     ![dc] = @ + Fn_ptsPAV(P[dc], t)]

\* What Pavlicek has on the sheet before the fit.
LEMMA PavFields ==
  ASSUME NEW P
  PROVE  LET g == PavSheet(P)
         IN  /\ g.fhcp = Zeroes ++ Honors(P, PAV) /\ g.fadj = Zeroes ++ Deducted(P, PAV)
             /\ g.dpts = Zeroes ++ Shortness(P) /\ g.body = PavBody(P) /\ g.lpts = PavLpts(P)
             /\ g.dfit = Zeroes /\ g.fn = Zeroes /\ g.hand = Zeroes
             /\ {"dfit", "fn", "hand"} \subseteq DOMAIN g
<1> DEFINE b == BothCounted(P, PAV, ZeroSheet)
<1>1. /\ b.dpts = Zeroes /\ b.hand = Zeroes
      /\ DOMAIN b = {"fhcp", "fadj", "hcp_adj", "dpts", "lpts", "syn", "hf", "dfit", "fn", "hand", "body"}
      /\ b.fhcp = Zeroes ++ Honors(P, PAV) /\ b.fadj = Zeroes ++ Deducted(P, PAV)
      /\ b.dfit = Zeroes /\ b.fn = Zeroes /\ b.lpts = Zeroes
  BY HonorsOnSheet
<1> HIDE DEF b
<1>2. PavSheet(P) = [b EXCEPT !.dpts = @ ++ Shortness(P), !.body = PavBody(P),
                              !.lpts = [h \in Both |-> IF LptsPAV(P)[h] = 1 THEN 1 ELSE @[h]]]
  BY Zenon DEF PavSheet, b, Shortness, PavBody
<1>3. PavSheet(P) = [b EXCEPT !.dpts = Zeroes ++ Shortness(P), !.body = PavBody(P), !.lpts = PavLpts(P)]
  BY <1>1, <1>2, SMT DEF PavLpts
<1>4. QED
  BY <1>1, <1>3

\* What the fit adds, and what it leaves.
LEMMA PavAdds ==
  ASSUME NEW P, NEW t, t.dummy \in Both, t.decl \in Both, t.dummy # t.decl
  PROVE  LET f == PavFitted(P, t)
             g == PavSheet(P)
         IN  /\ f.dfit[t.dummy] = DfitPAV(P[t.dummy], t) /\ f.fn[t.decl] = Fn_ptsPAV(P[t.decl], t)
             /\ f.hand[t.dummy] = IF PavBare(P, t) THEN -1 ELSE 0
             /\ f.fhcp = g.fhcp /\ f.fadj = g.fadj /\ f.dpts = g.dpts /\ f.body = g.body /\ f.lpts = g.lpts
<1> DEFINE g == PavSheet(P)
           d == DfitPAV(P[t.dummy], t)
           n == Fn_ptsPAV(P[t.decl], t)
           bare == PavBare(P, t)
           f == [g EXCEPT !.dfit[t.dummy] = d, !.fn[t.decl] = n, !.hand[t.dummy] = IF bare THEN -1 ELSE @]
<1>1. g.hand = Zeroes /\ g.dfit = Zeroes /\ g.fn = Zeroes
  BY PavFields
<1>2. {"dfit", "fn", "hand"} \subseteq DOMAIN g
  BY PavFields
<1>3. DOMAIN Zeroes = Both /\ Zeroes[t.dummy] = 0
  BY DEF Zeroes
<1>4. PavFitted(P, t) = f
  BY Zenon DEF PavFitted
<1> HIDE DEF g, d, n, bare
<1>5. /\ f.dfit[t.dummy] = d /\ f.fn[t.decl] = n /\ f.hand[t.dummy] = IF bare THEN -1 ELSE 0
      /\ f.fhcp = g.fhcp /\ f.fadj = g.fadj /\ f.dpts = g.dpts /\ f.body = g.body /\ f.lpts = g.lpts
  BY <1>1, <1>2, <1>3
<1>6. QED
  BY <1>4, <1>5, Zenon DEF d, n, bare, g

\* The results of Pavlicek from the sheet.
LEMMA PavResults ==
  ASSUME NEW P, NEW t
  PROVE  LET f == IF IsFitted(t) THEN PavFitted(P, t) ELSE PavSheet(P)
             pts == Rounded(f.fhcp ++ f.fadj) ++ f.body
             du == t.dummy
             dc == t.decl
             e == pav_calc(P, t, ZeroSheet)
         IN  /\ e.nt = pts ++ f.lpts
             /\ e.suit = IF IsFitted(t)
                         THEN [(pts ++ f.dpts) EXCEPT ![du] = @ + f.dfit[du] + f.hand[du], ![dc] = @ + f.fn[dc]]
                         ELSE (pts ++ f.dpts) -- PavWasted(P)
BY Zenon DEF pav_calc, Evaluation, PavSheet, PavFitted, PavBare, PavWasted

\* The hand that counts a long suit is the weaker one, from either seat.
LEMMA PavLptsTrade ==
  ASSUME NEW P \in SideType, NEW Q, Mirrored(Q, P), TotalPoints(P[0]) # TotalPoints(P[1])
  PROVE  Mirrored(PavLpts(Q), PavLpts(P))
<1> DEFINE weak(X) == IF TotalPoints(X[0]) <= TotalPoints(X[1]) THEN 0 ELSE 1
           long(h) == \E s \in MetricSuits : Length(h, s) >= 5
           pts(X, h) == Given(h = weak(X) /\ long(X[h]), 1)
<1>1. 0 \in Both /\ 1 \in Both
  BY DEF Both
<1>2. Q[0] = P[1] /\ Q[1] = P[0]
  BY DEF Mirrored
<1>3. (weak(P) = 0 /\ weak(Q) = 1) \/ (weak(P) = 1 /\ weak(Q) = 0)
  <2>1. P[0] \in HandType /\ P[1] \in HandType
    BY DEF SideType, Both
  <2>2. TotalPoints(P[0]) \in Int /\ TotalPoints(P[1]) \in Int
    BY <2>1, CountsOfHand
  <2>3. QED
    BY <1>2, <2>2
<1>4. \A X : LptsPAV(X) = [h \in Both |-> pts(X, h)]
  BY Zenon DEF LptsPAV
<1> HIDE DEF weak, long
<1>5. pts(Q, 0) = pts(P, 1) /\ pts(Q, 1) = pts(P, 0)
  BY <1>2, <1>3 DEF Given
<1> HIDE DEF pts
<1>6. LptsPAV(Q)[0] = LptsPAV(P)[1] /\ LptsPAV(Q)[1] = LptsPAV(P)[0]
  BY <1>1, <1>4, <1>5
<1>7. QED
  BY <1>1, <1>6 DEF PavLpts, Mirrored, Zeroes

\* What is wasted opposite a misfit is wasted from either seat.
LEMMA PavWastedTrades ==
  ASSUME NEW P \in SideType, NEW Q \in SideType, Mirrored(Q, P)
  PROVE  Mirrored(PavWasted(Q), PavWasted(P))
<1> DEFINE cost(X, h, s) == Given(HoldsMisfit(X, s) /\ misfit_chk(X, s).short_hand = h, DptsTable(Length(X[h], s)))
<1>1. 0 \in Both /\ 1 \in Both
  BY DEF Both
<1>2. Q[0] = P[1] /\ Q[1] = P[0]
  BY DEF Mirrored
<1>3. \A X : PavWasted(X) = [h \in Both |-> OverSuits(LAMBDA s : cost(X, h, s))]
  BY Zenon DEF PavWasted
<1>4. \A s \in MetricSuits : cost(Q, 0, s) = cost(P, 1, s) /\ cost(Q, 1, s) = cost(P, 0, s)
  <2>1. SUFFICES ASSUME NEW s \in MetricSuits
                 PROVE  cost(Q, 0, s) = cost(P, 1, s) /\ cost(Q, 1, s) = cost(P, 0, s)
    BY Zenon
  <2>2. /\ misfit_chk(Q, s).type = misfit_chk(P, s).type
        /\ misfit_chk(P, s).type \in Nat
        /\ misfit_chk(P, s).type > 0 =>
             \/ misfit_chk(P, s).short_hand = 0 /\ misfit_chk(Q, s).short_hand = 1
             \/ misfit_chk(P, s).short_hand = 1 /\ misfit_chk(Q, s).short_hand = 0
    BY MisfitsTrade
  <2>3. QED
    BY <1>2, <2>2 DEF Given, HoldsMisfit
<1> HIDE DEF cost
<1>5. 0 \in MetricSuits /\ 1 \in MetricSuits /\ 2 \in MetricSuits /\ 3 \in MetricSuits
  BY DEF MetricSuits
<1>6. /\ OverSuits(LAMBDA s : cost(Q, 0, s)) = OverSuits(LAMBDA s : cost(P, 1, s))
      /\ OverSuits(LAMBDA s : cost(Q, 1, s)) = OverSuits(LAMBDA s : cost(P, 0, s))
  BY <1>4, <1>5, Zenon DEF OverSuits
<1>7. QED
  BY <1>1, <1>3, <1>6, Zenon DEF Mirrored

\* The results of Pavlicek are mirrored.
LEMMA PavTrades ==
  ASSUME NEW P \in SideType, NEW Q \in SideType, NEW u, NEW t, Traded(Q, u, P, t),
         TotalPoints(P[0]) # TotalPoints(P[1])
  PROVE  /\ Mirrored(pav_calc(Q, u, ZeroSheet).nt, pav_calc(P, t, ZeroSheet).nt)
         /\ Mirrored(pav_calc(Q, u, ZeroSheet).suit, pav_calc(P, t, ZeroSheet).suit)
<1>1. 0 \in Both /\ 1 \in Both
  BY DEF Both
<1>2. Mirrored(Q, P) /\ Q[0] = P[1] /\ Q[1] = P[0]
  BY DEF Traded, Mirrored
<1>3. IsFitted(u) <=> IsFitted(t)
  BY DEF Traded, IsFitted
<1>4. Mirrored(PavWasted(Q), PavWasted(P)) /\ Mirrored(PavLpts(Q), PavLpts(P))
  BY <1>2, PavWastedTrades, PavLptsTrade
<1>5. Mirrored(PavBody(Q), PavBody(P))
  BY <1>1, <1>2, Zenon DEF Each, Mirrored, PavBody
<1>6. Mirrored(PavPoints(Q), PavPoints(P))
  BY <1>2, <1>5, CountsTrade, PairsTrade, Zenon DEF PavPoints
<1>7. Mirrored(PavLong(Q), PavLong(P))
  BY <1>2, <1>6, CountsTrade, PairsTrade, Zenon DEF PavLong
<1>8. ASSUME NEW X, NEW x, IsFitted(x) => x.dummy \in Both /\ x.decl \in Both /\ x.dummy # x.decl
      PROVE  /\ pav_calc(X, x, ZeroSheet).nt = PavPoints(X) ++ PavLpts(X)
             /\ pav_calc(X, x, ZeroSheet).suit = IF IsFitted(x) THEN PavSuit(X, x, x.dummy, x.decl)
                                                 ELSE PavLong(X) -- PavWasted(X)
  <2> DEFINE f == IF IsFitted(x) THEN PavFitted(X, x) ELSE PavSheet(X)
             pts == Rounded(f.fhcp ++ f.fadj) ++ f.body
             e == pav_calc(X, x, ZeroSheet)
  <2>1. /\ f.fhcp = Zeroes ++ Honors(X, PAV) /\ f.fadj = Zeroes ++ Deducted(X, PAV)
        /\ f.dpts = Zeroes ++ Shortness(X) /\ f.body = PavBody(X) /\ f.lpts = PavLpts(X)
    <3>1. CASE IsFitted(x)
      BY <1>8, <3>1, PavFields, PavAdds
    <3>2. CASE ~IsFitted(x)
      BY <3>2, PavFields
    <3>3. QED
      BY <3>1, <3>2
  <2>2. /\ e.nt = pts ++ f.lpts
        /\ e.suit = IF IsFitted(x)
                    THEN [(pts ++ f.dpts) EXCEPT ![x.dummy] = @ + f.dfit[x.dummy] + f.hand[x.dummy],
                                                 ![x.decl] = @ + f.fn[x.decl]]
                    ELSE (pts ++ f.dpts) -- PavWasted(X)
    BY PavResults
  <2>3. IsFitted(x) => /\ f.dfit[x.dummy] = DfitPAV(X[x.dummy], x) /\ f.fn[x.decl] = Fn_ptsPAV(X[x.decl], x)
                       /\ f.hand[x.dummy] = IF PavBare(X, x) THEN -1 ELSE 0
    BY <1>8, PavAdds
  <2> HIDE DEF f, e
  <2>4. pts = PavPoints(X) /\ pts ++ f.dpts = PavLong(X)
    BY <2>1, Zenon DEF PavPoints, PavLong
  <2> HIDE DEF pts
  <2>5. e.nt = PavPoints(X) ++ PavLpts(X)
    BY <2>1, <2>2, <2>4
  <2>6. e.suit = IF IsFitted(x) THEN PavSuit(X, x, x.dummy, x.decl) ELSE PavLong(X) -- PavWasted(X)
    BY <2>2, <2>3, <2>4, Zenon DEF PavSuit
  <2>7. QED
    BY <2>5, <2>6 DEF e
<1>9. IsFitted(t) => /\ t.dummy \in Both /\ t.decl \in Both /\ t.dummy # t.decl
                     /\ u.dummy \in Both /\ u.decl \in Both /\ u.dummy # u.decl
  BY <1>1 DEF Traded
<1>10. Mirrored(pav_calc(Q, u, ZeroSheet).nt, pav_calc(P, t, ZeroSheet).nt)
  BY <1>3, <1>4, <1>6, <1>8, <1>9, PairsTrade
<1>11. CASE ~IsFitted(t)
  BY <1>3, <1>4, <1>7, <1>8, <1>10, <1>11, PairsTrade
<1>12. CASE IsFitted(t)
  <2>1. /\ pav_calc(P, t, ZeroSheet).suit = PavSuit(P, t, t.dummy, t.decl)
        /\ pav_calc(Q, u, ZeroSheet).suit = PavSuit(Q, u, u.dummy, u.decl)
    BY <1>3, <1>8, <1>9, <1>12
  <2>2. Q[u.dummy] = P[t.dummy] /\ Q[u.decl] = P[t.decl]
    BY <1>2, <1>12 DEF Traded
  <2>3. /\ u.tsuit = t.tsuit /\ u.fit_len = t.fit_len /\ u.tlen[u.dummy] = t.tlen[t.dummy]
        /\ u.ss_len[u.dummy] = t.ss_len[t.dummy] /\ u.tlen[u.decl] = t.tlen[t.decl]
    BY <1>12 DEF Traded, Mirrored
  <2>4. /\ DfitPAV(Q[u.dummy], u) = DfitPAV(P[t.dummy], t)
        /\ Fn_ptsPAV(Q[u.decl], u) = Fn_ptsPAV(P[t.decl], t)
    BY <2>2, <2>3, RuffsTrade, LengthsTrade
  <2>5. PavBare(Q, u) <=> PavBare(P, t)
    BY <2>2, <2>3 DEF PavBare
  <2> DEFINE d == DfitPAV(P[t.dummy], t)
             m == IF PavBare(P, t) THEN -1 ELSE 0
             n == Fn_ptsPAV(P[t.decl], t)
             suit(pts, du, dc) == [pts EXCEPT ![du] = @ + d + m, ![dc] = @ + n]
  <2>6. /\ PavSuit(P, t, t.dummy, t.decl) = suit(PavLong(P), t.dummy, t.decl)
        /\ PavSuit(Q, u, u.dummy, u.decl) = suit(PavLong(Q), u.dummy, u.decl)
    BY <2>4, <2>5, Zenon DEF PavSuit
  <2>7. DOMAIN PavLong(P) = Both /\ DOMAIN PavLong(Q) = Both
    BY Zenon DEF PavLong, ++
  <2> HIDE DEF d, m, n
  <2>8. Mirrored(suit(PavLong(Q), u.dummy, u.decl), suit(PavLong(P), t.dummy, t.decl))
    BY <1>1, <1>7, <1>12, <2>7 DEF Traded, Mirrored
  <2>9. QED
    BY <1>10, <2>1, <2>6, <2>8
<1>13. QED
  BY <1>11, <1>12

-----------------------------------------------------------------------------
\* Sheinwold.
SheinwHcp(P) == Each(P, LAMBDA h : 4 * TotalPoints(h))
SheinwLess(P) == [h \in Both |-> OverSuits(LAMBDA s : SheinwAdj(P, h, s))]
SheinwSheet(P) == SheinwCounted(P, ZeroSheet)
SheinwPoints(P) ==
  Rounded((Zeroes ++ SheinwHcp(P)) ++ (Zeroes ++ SheinwLess(P))) ++ Each(P, SheinwBody)
SheinwShort(P) == Zeroes ++ Shortness(P)
SheinwNt(P, t) ==
  [SheinwPoints(P) EXCEPT ![t.decl] = @ + Fn_ptsSHEINW(P, t), ![t.dummy] = @ + Hf_ptsSHEINW(P, t)]
SheinwSuit(P, t) ==
  [(SheinwPoints(P) ++ SheinwShort(P)) EXCEPT
     ![t.dummy] = @ - SheinwShort(P)[t.dummy] + DfitSHEINW(P[t.dummy], t) + Hf_ptsSHEINW(P, t),
     ![t.decl] = @ + Fn_ptsSHEINW(P, t)]

\* What Sheinwold has on the sheet before the fit.
LEMMA SheinwFields ==
  ASSUME NEW P
  PROVE  LET g == SheinwSheet(P)
         IN  /\ g.fhcp = Zeroes ++ SheinwHcp(P) /\ g.fadj = Zeroes ++ SheinwLess(P)
             /\ g.dpts = SheinwShort(P) /\ g.body = Each(P, SheinwBody)
             /\ g.dfit = Zeroes /\ g.fn = Zeroes /\ g.hf = Zeroes
             /\ {"dfit", "fn", "hf"} \subseteq DOMAIN g
<1> DEFINE b == Each(P, SheinwBody)
<1>1. SheinwSheet(P) = [ZeroSheet EXCEPT !.fhcp = @ ++ SheinwHcp(P), !.fadj = @ ++ SheinwLess(P),
                                         !.dpts = @ ++ Shortness(P), !.body = b]
  BY Zenon DEF SheinwSheet, SheinwCounted, SheinwHcp, SheinwLess, Shortness
<1> HIDE DEF b
<1>2. /\ SheinwSheet(P).fhcp = Zeroes ++ SheinwHcp(P) /\ SheinwSheet(P).fadj = Zeroes ++ SheinwLess(P)
      /\ SheinwSheet(P).dpts = SheinwShort(P) /\ SheinwSheet(P).body = b
      /\ SheinwSheet(P).dfit = Zeroes /\ SheinwSheet(P).fn = Zeroes /\ SheinwSheet(P).hf = Zeroes
      /\ {"dfit", "fn", "hf"} \subseteq DOMAIN SheinwSheet(P)
  BY <1>1 DEF ZeroSheet, SheinwShort
<1>3. QED
  BY <1>2 DEF b

\* What the fit adds, and what it leaves.
LEMMA SheinwAdds ==
  ASSUME NEW P, NEW t, IsFitted(t), t.dummy \in Both, t.decl \in Both, t.dummy # t.decl
  PROVE  LET f == SheinwFitted(P, t, SheinwSheet(P))
             g == SheinwSheet(P)
         IN  /\ f.dfit[t.dummy] = DfitSHEINW(P[t.dummy], t) /\ f.fn[t.decl] = Fn_ptsSHEINW(P, t)
             /\ f.hf[t.dummy] = Hf_ptsSHEINW(P, t)
             /\ f.fhcp = g.fhcp /\ f.fadj = g.fadj /\ f.dpts = g.dpts /\ f.body = g.body
<1> DEFINE g == SheinwSheet(P)
           d == DfitSHEINW(P[t.dummy], t)
           n == Fn_ptsSHEINW(P, t)
           k == Hf_ptsSHEINW(P, t)
           f == [g EXCEPT !.fn[t.decl] = n, !.hf[t.dummy] = k, !.dfit[t.dummy] = d]
<1>1. g.hf = Zeroes /\ g.dfit = Zeroes /\ g.fn = Zeroes /\ {"dfit", "fn", "hf"} \subseteq DOMAIN g
  BY SheinwFields
<1>2. DOMAIN Zeroes = Both
  BY DEF Zeroes
<1>3. SheinwFitted(P, t, g) = f
  BY Zenon DEF SheinwFitted
<1> HIDE DEF g, d, n, k
<1>4. /\ f.dfit[t.dummy] = d /\ f.fn[t.decl] = n /\ f.hf[t.dummy] = k
      /\ f.fhcp = g.fhcp /\ f.fadj = g.fadj /\ f.dpts = g.dpts /\ f.body = g.body
  BY <1>1, <1>2
<1>5. QED
  BY <1>3, <1>4, Zenon DEF d, n, k, g

\* The results of Sheinwold, for the hand that is taken to declare.
LEMMA SheinwResults ==
  ASSUME NEW P, NEW t
  PROVE  LET g == SheinwSheet(P)
             f == SheinwFitted(P, t, g)
             pts == Rounded(g.fhcp ++ g.fadj) ++ g.body
             all == pts ++ f.dpts
             dc == IF IsFitted(t) THEN t.decl ELSE IF pts[0] >= pts[1] THEN 0 ELSE 1
             e == sheinw_calc(P, t, ZeroSheet)
         IN  /\ e.nt = [pts EXCEPT ![dc] = @ + f.fn[dc], ![1 - dc] = @ + f.hf[1 - dc]]
             /\ e.suit = IF IsFitted(t)
                         THEN [all EXCEPT ![1 - dc] = @ - f.dpts[1 - dc] + f.dfit[1 - dc] + f.hf[1 - dc],
                                          ![dc] = @ + f.fn[dc]]
                         ELSE all
BY Zenon DEF sheinw_calc, Evaluation, SheinwSheet

\* What each hand counts, and what the fit adds, depends on the two hands alone.
LEMMA SheinwCountsTrade ==
  ASSUME NEW P \in SideType, NEW Q \in SideType, Mirrored(Q, P)
  PROVE  Mirrored(SheinwPoints(Q), SheinwPoints(P)) /\ Mirrored(SheinwShort(Q), SheinwShort(P))
<1> DEFINE Body(X) == Each(X, SheinwBody)
<1>1. 0 \in Both /\ 1 \in Both
  BY DEF Both
<1>2. Q[0] = P[1] /\ Q[1] = P[0]
  BY DEF Mirrored
<1>3. Mirrored(Body(Q), Body(P)) /\ Mirrored(SheinwHcp(Q), SheinwHcp(P))
  BY <1>1, <1>2, Zenon DEF Each, Mirrored, SheinwHcp
<1>4. \A s \in MetricSuits : SheinwAdj(Q, 0, s) = SheinwAdj(P, 1, s) /\ SheinwAdj(Q, 1, s) = SheinwAdj(P, 0, s)
  <2>1. \A s \in MetricSuits : FitLength(Q, s) = FitLength(P, s)
    BY FitsTrade
  <2>2. QED
    BY <1>2, <2>1, Zenon DEF SheinwAdj
<1>5. 0 \in MetricSuits /\ 1 \in MetricSuits /\ 2 \in MetricSuits /\ 3 \in MetricSuits
  BY DEF MetricSuits
<1>6. /\ OverSuits(LAMBDA s : SheinwAdj(Q, 0, s)) = OverSuits(LAMBDA s : SheinwAdj(P, 1, s))
      /\ OverSuits(LAMBDA s : SheinwAdj(Q, 1, s)) = OverSuits(LAMBDA s : SheinwAdj(P, 0, s))
  BY <1>4, <1>5, Zenon DEF OverSuits
<1>7. Mirrored(SheinwLess(Q), SheinwLess(P))
  BY <1>1, <1>6, Zenon DEF SheinwLess, Mirrored
<1>8. \A X : SheinwPoints(X) = Rounded((Zeroes ++ SheinwHcp(X)) ++ (Zeroes ++ SheinwLess(X))) ++ Body(X)
  BY Zenon DEF SheinwPoints
<1> HIDE DEF Body
<1>9. Mirrored(SheinwPoints(Q), SheinwPoints(P))
  BY <1>3, <1>7, <1>8, CountsTrade, PairsTrade, Zenon
<1>10. Mirrored(SheinwShort(Q), SheinwShort(P))
  BY CountsTrade, PairsTrade, Zenon DEF SheinwShort
<1>11. QED
  BY <1>9, <1>10

\* Points for a fit depend on the hands of declarer and dummy, wherever they sit.
LEMMA SheinwFitTrades ==
  ASSUME NEW P, NEW Q, NEW t, NEW u, u.tsuit = t.tsuit, Q[u.dummy] = P[t.dummy], Q[u.decl] = P[t.decl],
         u.tlen[u.decl] = t.tlen[t.decl]
  PROVE  Fn_ptsSHEINW(Q, u) = Fn_ptsSHEINW(P, t) /\ Hf_ptsSHEINW(Q, u) = Hf_ptsSHEINW(P, t)
<1>1. Fn_ptsSHEINW(Q, u) = Fn_ptsSHEINW(P, t)
  BY Zenon DEF Fn_ptsSHEINW, OverSide, SideSuits
<1>2. Hf_ptsSHEINW(Q, u) = Hf_ptsSHEINW(P, t)
  BY Zenon DEF Hf_ptsSHEINW, OverSide, SideSuits
<1>3. QED
  BY <1>1, <1>2

\* The results of Sheinwold are mirrored.
LEMMA SheinwTrades ==
  ASSUME NEW P \in SideType, NEW Q \in SideType, NEW u, NEW t, Traded(Q, u, P, t)
  PROVE  /\ Mirrored(sheinw_calc(Q, u, ZeroSheet).nt, sheinw_calc(P, t, ZeroSheet).nt)
         /\ Mirrored(sheinw_calc(Q, u, ZeroSheet).suit, sheinw_calc(P, t, ZeroSheet).suit)
<1>1. 0 \in Both /\ 1 \in Both /\ 1 - 0 = 1 /\ 1 - 1 = 0
  BY DEF Both
<1>2. Mirrored(Q, P)
  BY DEF Traded
<1>3. IsFitted(u) <=> IsFitted(t)
  BY DEF Traded, IsFitted
<1>4. Mirrored(SheinwPoints(Q), SheinwPoints(P)) /\ Mirrored(SheinwShort(Q), SheinwShort(P))
  BY <1>2, SheinwCountsTrade
<1>5. Mirrored(SheinwPoints(Q) ++ SheinwShort(Q), SheinwPoints(P) ++ SheinwShort(P))
  BY <1>4, PairsTrade
<1>6. \A X : DOMAIN SheinwPoints(X) = Both /\ DOMAIN (SheinwPoints(X) ++ SheinwShort(X)) = Both
  BY Zenon DEF SheinwPoints, ++
<1>7. ASSUME NEW X
      PROVE  /\ Rounded(SheinwSheet(X).fhcp ++ SheinwSheet(X).fadj) ++ SheinwSheet(X).body = SheinwPoints(X)
             /\ SheinwSheet(X).dpts = SheinwShort(X) /\ SheinwSheet(X).fn = Zeroes /\ SheinwSheet(X).hf = Zeroes
  <2>1. /\ SheinwSheet(X).fhcp = Zeroes ++ SheinwHcp(X) /\ SheinwSheet(X).fadj = Zeroes ++ SheinwLess(X)
        /\ SheinwSheet(X).body = Each(X, SheinwBody)
    BY SheinwFields
  <2>2. Rounded(SheinwSheet(X).fhcp ++ SheinwSheet(X).fadj) ++ SheinwSheet(X).body = SheinwPoints(X)
    BY <2>1, Zenon DEF SheinwPoints
  <2>3. QED
    BY <2>2, SheinwFields
<1>8. ASSUME NEW X, NEW x, ~IsFitted(x)
      PROVE  /\ sheinw_calc(X, x, ZeroSheet).nt[0] = SheinwPoints(X)[0] + 0
             /\ sheinw_calc(X, x, ZeroSheet).nt[1] = SheinwPoints(X)[1] + 0
             /\ sheinw_calc(X, x, ZeroSheet).suit = SheinwPoints(X) ++ SheinwShort(X)
  <2> DEFINE pts == SheinwPoints(X)
             dc == IF pts[0] >= pts[1] THEN 0 ELSE 1
             e == sheinw_calc(X, x, ZeroSheet)
             g == SheinwSheet(X)
  <2>1. SheinwFitted(X, x, g) = g
    BY <1>8 DEF SheinwFitted
  <2>2. /\ e.nt = [pts EXCEPT ![dc] = @ + g.fn[dc], ![1 - dc] = @ + g.hf[1 - dc]]
        /\ e.suit = pts ++ g.dpts
    <3> DEFINE own == Rounded(g.fhcp ++ g.fadj) ++ g.body
               who == IF IsFitted(x) THEN x.decl ELSE IF own[0] >= own[1] THEN 0 ELSE 1
               f == SheinwFitted(X, x, g)
    <3>1. /\ e.nt = [own EXCEPT ![who] = @ + f.fn[who], ![1 - who] = @ + f.hf[1 - who]]
          /\ ~IsFitted(x) => e.suit = own ++ f.dpts
      BY SheinwResults, Zenon
    <3>2. own = pts /\ f = g
      BY <1>7, <2>1
    <3> HIDE DEF own, f, g, pts, e
    <3>3. who = dc
      BY <1>8, <3>2
    <3> HIDE DEF who, dc
    <3>4. QED
      BY <1>8, <3>1, <3>2, <3>3
  <2>3. g.dpts = SheinwShort(X) /\ g.fn = Zeroes /\ g.hf = Zeroes
    BY <1>7
  <2>4. DOMAIN pts = Both /\ Zeroes[0] = 0 /\ Zeroes[1] = 0
    BY <1>1, <1>6 DEF Zeroes
  <2>5. (dc = 0 /\ 1 - dc = 1) \/ (dc = 1 /\ 1 - dc = 0)
    OBVIOUS
  <2> HIDE DEF dc, e, g, pts
  <2>6. e.nt[0] = pts[0] + 0 /\ e.nt[1] = pts[1] + 0
    BY <1>1, <2>2, <2>3, <2>4, <2>5
  <2>7. QED
    BY <2>2, <2>3, <2>6 DEF pts, e
<1>9. ASSUME NEW X, NEW x, IsFitted(x), x.dummy \in Both, x.decl \in Both, x.dummy = 1 - x.decl, x.dummy # x.decl
      PROVE  sheinw_calc(X, x, ZeroSheet).nt = SheinwNt(X, x) /\ sheinw_calc(X, x, ZeroSheet).suit = SheinwSuit(X, x)
  <2> DEFINE pts == SheinwPoints(X)
             all == pts ++ SheinwShort(X)
             e == sheinw_calc(X, x, ZeroSheet)
             g == SheinwSheet(X)
             f == SheinwFitted(X, x, g)
  <2>1. /\ f.dfit[x.dummy] = DfitSHEINW(X[x.dummy], x) /\ f.fn[x.decl] = Fn_ptsSHEINW(X, x)
        /\ f.hf[x.dummy] = Hf_ptsSHEINW(X, x) /\ f.dpts = g.dpts
    BY <1>9, SheinwAdds
  <2>2. g.dpts = SheinwShort(X)
    BY <1>7
  <2>3. /\ e.nt = [pts EXCEPT ![x.decl] = @ + f.fn[x.decl], ![1 - x.decl] = @ + f.hf[1 - x.decl]]
        /\ e.suit = [(pts ++ f.dpts) EXCEPT
                       ![1 - x.decl] = @ - f.dpts[1 - x.decl] + f.dfit[1 - x.decl] + f.hf[1 - x.decl],
                       ![x.decl] = @ + f.fn[x.decl]]
    <3> DEFINE own == Rounded(g.fhcp ++ g.fadj) ++ g.body
               who == IF IsFitted(x) THEN x.decl ELSE IF own[0] >= own[1] THEN 0 ELSE 1
               sum == own ++ f.dpts
    <3>1. /\ e.nt = [own EXCEPT ![who] = @ + f.fn[who], ![1 - who] = @ + f.hf[1 - who]]
          /\ IsFitted(x) => e.suit = [sum EXCEPT ![1 - who] = @ - f.dpts[1 - who] + f.dfit[1 - who] + f.hf[1 - who],
                                                ![who] = @ + f.fn[who]]
      BY SheinwResults, Zenon
    <3>2. own = pts
      BY <1>7
    <3>3. who = x.decl
      BY <1>9
    <3> HIDE DEF own, who, f, g, pts, e
    <3>4. QED
      BY <1>9, <3>1, <3>2, <3>3
  <2> HIDE DEF e, g, f
  <2>4. e.nt = SheinwNt(X, x) /\ e.suit = SheinwSuit(X, x)
    BY <1>9, <2>1, <2>2, <2>3, Zenon DEF SheinwNt, SheinwSuit
  <2>5. QED
    BY <2>4 DEF e
<1>10. CASE ~IsFitted(t)
  <2>1. Mirrored(sheinw_calc(Q, u, ZeroSheet).nt, sheinw_calc(P, t, ZeroSheet).nt)
    BY <1>3, <1>4, <1>8, <1>10 DEF Mirrored
  <2>2. QED
    BY <1>3, <1>5, <1>8, <1>10, <2>1
<1>11. CASE IsFitted(t)
  <2>1. /\ t.dummy \in Both /\ t.decl \in Both /\ t.dummy # t.decl /\ t.dummy = 1 - t.decl
        /\ u.dummy \in Both /\ u.decl \in Both /\ u.dummy # u.decl /\ u.dummy = 1 - u.decl
    BY <1>1, <1>11 DEF Traded
  <2>2. /\ sheinw_calc(P, t, ZeroSheet).nt = SheinwNt(P, t) /\ sheinw_calc(P, t, ZeroSheet).suit = SheinwSuit(P, t)
        /\ sheinw_calc(Q, u, ZeroSheet).nt = SheinwNt(Q, u) /\ sheinw_calc(Q, u, ZeroSheet).suit = SheinwSuit(Q, u)
    BY <1>3, <1>9, <1>11, <2>1
  <2>3. Q[u.dummy] = P[t.dummy] /\ Q[u.decl] = P[t.decl] /\ SheinwShort(Q)[u.dummy] = SheinwShort(P)[t.dummy]
    BY <1>2, <1>4, <1>11 DEF Traded, Mirrored
  <2>4. /\ u.tsuit = t.tsuit /\ u.fit_len = t.fit_len /\ u.tlen[u.dummy] = t.tlen[t.dummy]
        /\ u.ss_len[u.dummy] = t.ss_len[t.dummy] /\ u.tlen[u.decl] = t.tlen[t.decl]
    BY <1>11 DEF Traded, Mirrored
  <2>5. /\ DfitSHEINW(Q[u.dummy], u) = DfitSHEINW(P[t.dummy], t)
        /\ Fn_ptsSHEINW(Q, u) = Fn_ptsSHEINW(P, t) /\ Hf_ptsSHEINW(Q, u) = Hf_ptsSHEINW(P, t)
    BY <2>3, <2>4, RuffsTrade, SheinwFitTrades
  <2> DEFINE d == DfitSHEINW(P[t.dummy], t)
             n == Fn_ptsSHEINW(P, t)
             k == Hf_ptsSHEINW(P, t)
             m == SheinwShort(P)[t.dummy]
             all(X) == SheinwPoints(X) ++ SheinwShort(X)
             nt(pts, du, dc) == [pts EXCEPT ![dc] = @ + n, ![du] = @ + k]
             suit(pts, du, dc) == [pts EXCEPT ![du] = @ - m + d + k, ![dc] = @ + n]
  <2>6. /\ SheinwNt(P, t) = nt(SheinwPoints(P), t.dummy, t.decl)
        /\ SheinwNt(Q, u) = nt(SheinwPoints(Q), u.dummy, u.decl)
        /\ SheinwSuit(P, t) = suit(all(P), t.dummy, t.decl)
        /\ SheinwSuit(Q, u) = suit(all(Q), u.dummy, u.decl)
    BY <2>3, <2>5, Zenon DEF SheinwNt, SheinwSuit
  <2> HIDE DEF d, n, k, m
  <2>7. Mirrored(nt(SheinwPoints(Q), u.dummy, u.decl), nt(SheinwPoints(P), t.dummy, t.decl))
    BY <1>1, <1>4, <1>6, <1>11 DEF Traded, Mirrored
  <2>8. DOMAIN all(P) = Both /\ DOMAIN all(Q) = Both /\ Mirrored(all(Q), all(P))
    BY <1>5, <1>6
  <2> HIDE DEF all
  <2>9. Mirrored(suit(all(Q), u.dummy, u.decl), suit(all(P), t.dummy, t.decl))
    BY <1>1, <1>11, <2>8 DEF Traded, Mirrored
  <2>10. QED
    BY <2>2, <2>6, <2>7, <2>9
<1>12. QED
  BY <1>10, <1>11

-----------------------------------------------------------------------------
\* Each of the metrics that treat the two hands alike.
LEMMA MetricsTrade ==
  ASSUME NEW P \in SideType, NEW Q \in SideType, NEW u, NEW t, Traded(Q, u, P, t),
         TotalPoints(P[0]) # TotalPoints(P[1]), NEW m \in EvenHanded
  PROVE  /\ Mirrored(Metric(m, Q, u, ZeroSheet, Zeroes).nt, Metric(m, P, t, ZeroSheet, Zeroes).nt)
         /\ Mirrored(Metric(m, Q, u, ZeroSheet, Zeroes).suit, Metric(m, P, t, ZeroSheet, Zeroes).suit)
<1>1. ASSUME NEW X, NEW x
      PROVE  /\ m = BERGEN => Metric(m, X, x, ZeroSheet, Zeroes) = bergen_calc(X, x, ZeroSheet)
             /\ m = BISSEL => Metric(m, X, x, ZeroSheet, Zeroes) = bissell_calc(X, ZeroSheet, Zeroes)
             /\ m = DKP => Metric(m, X, x, ZeroSheet, Zeroes) = dkp_calc(X, x, ZeroSheet)
             /\ m = GOREN => Metric(m, X, x, ZeroSheet, Zeroes) = goren_calc(X, x, ZeroSheet)
             /\ m = KAPLAN => Metric(m, X, x, ZeroSheet, Zeroes) = kaplan_calc(X, x, ZeroSheet)
             /\ m = KNR => Metric(m, X, x, ZeroSheet, Zeroes) = knr_calc(X, x, ZeroSheet)
             /\ m = PAV => Metric(m, X, x, ZeroSheet, Zeroes) = pav_calc(X, x, ZeroSheet)
             /\ m = SHEINW => Metric(m, X, x, ZeroSheet, Zeroes) = sheinw_calc(X, x, ZeroSheet)
             /\ m = ZARBAS => Metric(m, X, x, ZeroSheet, Zeroes) = zarbasic_calc(X, ZeroSheet)
  <2> USE DEF BERGEN, BISSEL, DKP, GOREN, JGM1, KAPLAN, KARPIN, KNR, LAR, MORSE, PAV, SHEINW, ZARBAS, ZARFULL
  <2>1. m = BERGEN => Metric(m, X, x, ZeroSheet, Zeroes) = bergen_calc(X, x, ZeroSheet)
    BY DEF Metric
  <2>2. m = BISSEL => Metric(m, X, x, ZeroSheet, Zeroes) = bissell_calc(X, ZeroSheet, Zeroes)
    BY DEF Metric
  <2>3. m = DKP => Metric(m, X, x, ZeroSheet, Zeroes) = dkp_calc(X, x, ZeroSheet)
    BY DEF Metric
  <2>4. m = GOREN => Metric(m, X, x, ZeroSheet, Zeroes) = goren_calc(X, x, ZeroSheet)
    BY DEF Metric
  <2>5. m = KAPLAN => Metric(m, X, x, ZeroSheet, Zeroes) = kaplan_calc(X, x, ZeroSheet)
    BY DEF Metric
  <2>6. m = KNR => Metric(m, X, x, ZeroSheet, Zeroes) = knr_calc(X, x, ZeroSheet)
    BY DEF Metric
  <2>7. m = PAV => Metric(m, X, x, ZeroSheet, Zeroes) = pav_calc(X, x, ZeroSheet)
    BY DEF Metric
  <2>8. m = SHEINW => Metric(m, X, x, ZeroSheet, Zeroes) = sheinw_calc(X, x, ZeroSheet)
    BY DEF Metric
  <2>9. m = ZARBAS => Metric(m, X, x, ZeroSheet, Zeroes) = zarbasic_calc(X, ZeroSheet)
    BY DEF Metric
  <2>10. QED
    BY <2>1, <2>2, <2>3, <2>4, <2>5, <2>6, <2>7, <2>8, <2>9, Zenon
<1>2. Mirrored(Q, P)
  BY DEF Traded
<1>3. m = BERGEN \/ m = BISSEL \/ m = DKP \/ m = GOREN \/ m = KAPLAN \/ m = KNR \/ m = PAV \/ m = SHEINW \/ m = ZARBAS
  BY DEF EvenHanded
<1>4. CASE m = BERGEN
  BY <1>1, <1>4, BergenTrades
<1>5. CASE m = BISSEL
  BY <1>1, <1>2, <1>5, BissellTrades
<1>6. CASE m = DKP
  BY <1>1, <1>6, DkpTrades
<1>7. CASE m = GOREN
  BY <1>1, <1>7, GorenTrades
<1>8. CASE m = KAPLAN
  BY <1>1, <1>8, KaplanTrades
<1>9. CASE m = KNR
  BY <1>1, <1>9, KnrTrades
<1>10. CASE m = PAV
  BY <1>1, <1>10, PavTrades
<1>11. CASE m = SHEINW
  BY <1>1, <1>11, SheinwTrades
<1>12. CASE m = ZARBAS
  BY <1>1, <1>2, <1>12, ZarBasicTrades
<1>13. QED
  BY <1>3, <1>4, <1>5, <1>6, <1>7, <1>8, <1>9, <1>10, <1>11, <1>12

\* For every deal and every side whose hands are not as strong, each of those metrics
\* gives a hand the same points in either seat.
THEOREM SeatsKeepTheirPoints == MetricsSpec => []SeatsTradePlaces
<1> DEFINE Even(d, side) ==
             LET P == HandsOf(d, side)
                 traded(e, f) == \A h \in Both : e.nt[h] = f.nt[1 - h] /\ e.suit[h] = f.suit[1 - h]
             IN  TotalPoints(P[0]) # TotalPoints(P[1]) =>
                   \A m \in EvenHanded : traded(Calc(m, P, ZeroSheet, Zeroes),
                                               Calc(m, [h \in Both |-> P[1 - h]], ZeroSheet, Zeroes))
<1>1. ASSUME NEW d \in Deals, NEW side \in Sides
      PROVE  Even(d, side)
  <2> DEFINE P == HandsOf(d, side)
             Q == [h \in Both |-> P[1 - h]]
  <2>1. P \in SideType
    BY SidesOfDeal
  <2>2. Q \in SideType /\ Mirrored(Q, P)
    <3> HIDE DEF P
    <3>1. /\ \A h \in Both : 1 - h \in Both
          /\ 0 \in Both /\ 1 \in Both /\ 1 - 0 = 1 /\ 1 - 1 = 0
      BY DEF Both
    <3>2. QED
      BY <2>1, <3>1 DEF SideType, Mirrored
  <2> HIDE DEF P, Q
  <2>3. SUFFICES ASSUME TotalPoints(P[0]) # TotalPoints(P[1]), NEW m \in EvenHanded, NEW h \in Both
                 PROVE  /\ Calc(m, P, ZeroSheet, Zeroes).nt[h] = Calc(m, Q, ZeroSheet, Zeroes).nt[1 - h]
                        /\ Calc(m, P, ZeroSheet, Zeroes).suit[h] = Calc(m, Q, ZeroSheet, Zeroes).suit[1 - h]
    BY Zenon DEF P, Q
  <2> DEFINE e == Calc(m, P, ZeroSheet, Zeroes)
             f == Calc(m, Q, ZeroSheet, Zeroes)
  <2>4. Traded(Q, trump_fit_chk(Q), P, trump_fit_chk(P))
    BY <2>1, <2>2, <2>3, TrumpsTrade
  <2>5. Mirrored(f.nt, e.nt) /\ Mirrored(f.suit, e.suit)
    BY <2>1, <2>2, <2>3, <2>4, MetricsTrade DEF Calc
  <2> HIDE DEF e, f
  <2>6. (h = 0 /\ 1 - h = 1) \/ (h = 1 /\ 1 - h = 0)
    BY DEF Both
  <2>7. QED
    BY <2>5, <2>6 DEF Mirrored, e, f
<1>2. deal \in Deals => SeatsTradePlaces
  BY <1>1, Zenon DEF SeatsTradePlaces
<1>3. QED
  BY <1>2, DealStays, PTL
=============================================================================
