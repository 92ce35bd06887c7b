--------------------------------- MODULE Knr ---------------------------------
(***************************************************************************)
(* The count of four Cs, after Kaplan and Rubens, as dealer's action cccc  *)
(* computes it (src/src/c4.c) and as DealerServer does for the metric KnR  *)
(* (src/UserEval/src/KnR.c).  All points are hundredths, as in the code.   *)
(* A hand is the set of ranks it holds in each suit.                       *)
(***************************************************************************)
EXTENDS Integers, FiniteSets, Functions

MetricSuits == 0..3      \* clubs to spades
CardRanks   == 0..12     \* the two to the ace
Both        == 0..1      \* the hands of a side: N and S, or E and W

Eight == 6
Nine  == 7
Ten   == 8
Jack  == 9
Queen == 10
King  == 11
Ace   == 12

Given(c, v) == IF c THEN v ELSE 0

\* The statistics of a hand that the metrics read.
Length(h, s)    == Cardinality(h[s])
Higher(c, r)    == Cardinality({x \in c : x > r})
Top(h, s, n)    == Higher(h[s], Ace - n)
Points(h, s)    == SumFunction([r \in h[s] |-> Given(r >= Jack, r - Ten)])
OverSuits(f(_)) == f(0) + f(1) + f(2) + f(3)
TotalPoints(h)  == LET f(s) == Points(h, s) IN OverSuits(f)
HowMany(h, r)   == Cardinality({s \in MetricSuits : r \in h[s]})
Controls(h)     == 2 * HowMany(h, Ace) + HowMany(h, King)
WithLength(h, n) == Cardinality({s \in MetricSuits : Length(h, s) = n})
SquareHand(h)   == WithLength(h, 4) = 1 /\ WithLength(h, 3) = 3

-----------------------------------------------------------------------------
\* Fault: the two values of a king are exchanged.
KnrHonorsKing(c) ==
  LET n == Cardinality(c)
  IN  Given(Ace \in c, 300) + Given(King \in c, IF n = 1 THEN 200 ELSE 50)
      + Given(Queen \in c /\ n >= 3, IF Higher(c, Queen) > 0 THEN 100 ELSE 75)

\* Ace, king and queen, then jack and ten of one suit: each honour is worth
\* what it is among the cards above it.
KnrHonors(c) ==
  LET n == Cardinality(c)
  IN  Given(Ace \in c, 300)
      + Given(King \in c, IF n = 1 THEN 50 ELSE 200)
      + Given(Queen \in c /\ n = 2, IF Higher(c, Queen) > 0 THEN 50 ELSE 25)
      + Given(Queen \in c /\ n >= 3, IF Higher(c, Queen) > 0 THEN 100 ELSE 75)
      + Given(Jack \in c /\ Higher(c, Jack) \in 1..2, 25 * Higher(c, Jack))
      + Given(Ten \in c /\ (Higher(c, Ten) = 2 \/ (Higher(c, Ten) = 1 /\ Nine \in c)), 25)

\* A long suit needs no queen or jack of its own.
LongSuitPoints(c) ==
  LET n == Cardinality(c)
      noQueen == Queen \notin c
      noJack  == Jack \notin c
  IN  Given(n = 7 /\ (noQueen \/ noJack), 100)
      + Given(n >= 8 /\ noQueen, 200)
      + Given(noJack /\ (n >= 9 \/ (n = 8 /\ ~noQueen)), 100)

\* A ten or a nine that works with its neighbours, in a suit of six or less.
WorkingSpots(c) ==
  LET higher == Higher(c, Ten)
  IN  Given(Ten \in c /\ (higher > 1 \/ Jack \in c), 50)
      + Given(Nine \in c /\ (higher = 2 \/ Eight \in c \/ Ten \in c), 50)

\* The quality of a suit, in c4.c and, word for word, in KnR.c.
suit_quality(c) ==
  LET qhcp == SumFunction([r \in c |-> Given(r >= Jack, 100 * (r - Ten)) + Given(r = Ten, 50)])
              + LongSuitPoints(c)
              + Given(Cardinality(c) <= 6, WorkingSpots(c))
  IN  (qhcp * Cardinality(c)) \div 10

KnR_suit_quality(c) == suit_quality(c)

ShapePoints(n) == Given(n < 3, 100 * (3 - n))

\* cccc: whatever else is short, the first doubleton counts nothing.
eval_cccc(h) ==
  LET suit(s) == KnrHonors(h[s]) + suit_quality(h[s]) + ShapePoints(Length(h, s))
  IN  OverSuits(suit) - Given(WithLength(h, 2) > 0, 100) - Given(SquareHand(h), 50)

\* KnR_Body: what decides a rounding.
KnR_Body(h) == HowMany(h, Eight) + 2 * HowMany(h, Nine) + 3 * HowMany(h, Ten)

\* C's division and remainder: towards zero.
Quot(a, b) == IF a >= 0 THEN a \div b ELSE -((-a) \div b)
Rem(a, b)  == a - b * Quot(a, b)

KnR_Round(body, pts) ==
  LET fraction == Rem(pts, 100)
  IN  Quot(pts, 100) + Given(fraction >= 60 \/ (fraction >= 45 /\ body >= 12), 1)

\* KnR_pts_all: the first doubleton counts unless nothing else is short.
KnR_pts_all(h) ==
  LET honors(s) == KnrHonors(h[s])
      qual(s)   == KnR_suit_quality(h[s])
      shape(s)  == ShapePoints(Length(h, s))
      short == OverSuits(shape)
               - Given(WithLength(h, 2) > 0 /\ WithLength(h, 1) = 0 /\ WithLength(h, 0) = 0, 100)
      adj   == Given(SquareHand(h), -50)
      total == OverSuits(honors) + short + OverSuits(qual) + adj
  IN  [honor |-> OverSuits(honors), short |-> short, qual |-> OverSuits(qual), adj |-> adj,
       tot |-> total, body |-> KnR_Body(h), rounded |-> KnR_Round(KnR_Body(h), total)]
=============================================================================
