------------------------------- MODULE HandStat -------------------------------
(***************************************************************************)
(* The statistics of one hand (src/src/dealeval_subs.c: analyze,           *)
(* upd_topcards, countltc), as the cards of the hand are read.  A deal is  *)
(* sorted only if an action asked for it, so the cards come in any order.  *)
(* Here a hand is counted in two tables, the points and the controls;      *)
(* analyze treats all of them alike (Expressions counts in all of them).   *)
(***************************************************************************)
EXTENDS Integers, FiniteSets, Functions

CONSTANTS
  Cards,       \* the cards that hands are made of: pairs of a suit and a rank
  HandSize     \* cards in a hand, 13 in the code

CardSuits == 0..3
Ranks     == 0..12

ASSUME HandStatAssumption ==
  /\ Cards \subseteq CardSuits \X Ranks
  /\ HandSize \in Nat

VARIABLES
  hs,       \* the handstat of the hand
  hand,     \* the cards read of the hand
  phase     \* "reading", "counted" or "aborted"

handVars == <<hs, hand, phase>>

LTC_VOID_WEIGHT == 128

LtcWeight(r) == CASE r = 12 -> 64 [] r = 11 -> 32 [] r = 10 -> 16 [] r = 9 -> 8 [] r = 8 -> 4 [] OTHER -> 1

(* The tables of card values: pt0 to pt9 and their copy of the points, which *)
(* a script may redefine, the points, and the controls.                      *)
idxHcp   == 10
POINTS   == 11
CONTROLS == 12

\* Ten to ace; lower cards are worth nothing.
HonourValues == <<
  <<1, 0, 0, 0, 0>>, <<0, 1, 0, 0, 0>>, <<0, 0, 1, 0, 0>>, <<0, 0, 0, 1, 0>>, <<0, 0, 0, 0, 1>>,
  <<0, 0, 0, 1, 1>>, <<0, 0, 1, 1, 1>>, <<0, 1, 1, 1, 1>>, <<1, 1, 1, 1, 1>>, <<0, 1, 2, 4, 6>>,
  <<0, 1, 2, 3, 4>>, <<0, 1, 2, 3, 4>>, <<0, 0, 0, 1, 2>>>>

tblPointcount ==
  [t \in 0..CONTROLS |-> [r \in Ranks |-> IF r < 8 THEN 0 ELSE HonourValues[t + 1][r - 7]]]

HandTables == [t \in {POINTS, CONTROLS} |-> tblPointcount[t]]

-----------------------------------------------------------------------------
\* One weight more among the three highest of a suit, in the order of the tests.
TopThree(top, w) ==
  IF top[1] = LTC_VOID_WEIGHT THEN <<w, top[2], top[3]>>
  ELSE IF top[1] < w THEN <<w, top[1], top[2]>>
  ELSE IF top[2] = LTC_VOID_WEIGHT THEN <<top[1], w, top[3]>>
  ELSE IF top[2] < w THEN <<top[1], w, top[2]>>
  ELSE IF top[3] = LTC_VOID_WEIGHT \/ top[3] < w THEN <<top[1], top[2], w>>
  ELSE top

TopWeight(top) == top[1] + top[2] + top[3]

\* The rows of the switch in countltc: the sums that have this ltc and losers.
LtcRows == {
  [ltc |-> 0,   losers |-> 0, sums |-> {384, 320, 224, 112}],
  [ltc |-> 50,  losers |-> 1, sums |-> {288, 208, 104, 88}],
  [ltc |-> 100, losers |-> 1, sums |-> {49, 52, 56, 81, 84, 97, 100, 161, 164, 168, 176, 193, 196,
                                        200, 257, 260, 264, 272}],
  [ltc |-> 150, losers |-> 2, sums |-> {44, 76}],
  [ltc |-> 200, losers |-> 2, sums |-> {25, 28, 34, 37, 41, 66, 69, 73, 130, 133, 137, 140, 145,
                                        148, 152}],
  [ltc |-> 250, losers |-> 2, sums |-> {18, 21}],
  [ltc |-> 300, losers |-> 3, sums |-> {3, 6, 10, 13}]}

LtcRow(w)    == CHOOSE row \in LtcRows : w \in row.sums
KnownWeight(w) == \E row \in LtcRows : w \in row.sums

-----------------------------------------------------------------------------
\* memset and init_tops, of a hand to be counted in these tables.
Cleared(tbl) ==
  [length |-> [s \in CardSuits |-> 0],
   counts |-> [t \in DOMAIN tbl |-> [s \in CardSuits |-> 0]], totalcounts |-> [t \in DOMAIN tbl |-> 0],
   topcards |-> [s \in CardSuits |-> <<LTC_VOID_WEIGHT, LTC_VOID_WEIGHT, LTC_VOID_WEIGHT>>],
   ltc |-> [s \in CardSuits |-> 0], totalltc |-> 0,
   loser |-> [s \in CardSuits |-> 0], totalloser |-> 0]

\* One card more.
WithCard(h, s, r, tbl) ==
  [h EXCEPT !.length[s] = @ + 1,
            !.counts = [t \in DOMAIN tbl |-> [h.counts[t] EXCEPT ![s] = @ + tbl[t][r]]],
            !.totalcounts = [t \in DOMAIN tbl |-> h.totalcounts[t] + tbl[t][r]],
            !.topcards[s] = TopThree(@, LtcWeight(r))]

\* countltc: its assert wants a weight it knows in every suit.
LtcKnown(h) == \A s \in CardSuits : KnownWeight(TopWeight(h.topcards[s]))

WithLtc(h) ==
  LET row    == [s \in CardSuits |-> LtcRow(TopWeight(h.topcards[s]))]
      ltc    == [s \in CardSuits |-> row[s].ltc]
      losers == [s \in CardSuits |-> row[s].losers]
  IN  [h EXCEPT !.ltc = ltc, !.totalltc = SumFunction(ltc),
                !.loser = losers, !.totalloser = @ + SumFunction(losers)]

HandStatInit == hs = Cleared(HandTables) /\ hand = {} /\ phase = "reading"

ReadCard(s, r) ==
  /\ phase = "reading" /\ Cardinality(hand) < HandSize
  /\ <<s, r>> \notin hand
  /\ hand' = hand \cup {<<s, r>>}
  /\ hs' = WithCard(hs, s, r, HandTables)
  /\ UNCHANGED phase

CountLtc ==
  /\ phase = "reading" /\ Cardinality(hand) = HandSize
  /\ IF LtcKnown(hs) THEN phase' = "counted" /\ hs' = WithLtc(hs)
     ELSE phase' = "aborted" /\ UNCHANGED hs
  /\ UNCHANGED hand

\* Fault: totalloser is not among what is cleared; countltc clears only totalltc.
NextHandKeepsTotal ==
  /\ phase = "counted"
  /\ hs' = [Cleared(HandTables) EXCEPT !.totalloser = hs.totalloser]
  /\ hand' = {} /\ phase' = "reading"

\* The next hand, of this deal or another.
NextHand ==
  /\ phase = "counted"
  /\ hs' = Cleared(HandTables)
  /\ hand' = {} /\ phase' = "reading"

HandStatNext == (\E c \in Cards : ReadCard(c[1], c[2])) \/ CountLtc \/ NextHand

HandStatSpec == HandStatInit /\ [][HandStatNext]_handVars

-----------------------------------------------------------------------------
RanksOf(cards, s) == {c[2] : c \in {d \in cards : d[1] = s}}
Held(cards, s, n) == Cardinality(RanksOf(cards, s)) >= n
Highest(cards, s, n) ==
  CHOOSE r \in RanksOf(cards, s) : Cardinality({q \in RanksOf(cards, s) : q > r}) = n - 1

\* countltc knows the sum of the weights of any three cards: its assert holds.
\* The losers of a suit, which it finds by that sum, are those of the user
\* guide: one for each ace, king or queen missing from the first three cards;
\* the modern count differs by half a loser at most.
LosersAreMissingHonours ==
  /\ phase # "aborted"
  /\ phase = "counted" =>
       \A s \in CardSuits :
         /\ hs.loser[s] = Cardinality({n \in 1..3 : Held(hand, s, n) /\ (13 - n) \notin RanksOf(hand, s)})
         /\ hs.ltc[s] - 100 * hs.loser[s] \in {-50, 0, 50}

\* The counts are of the cards of this hand alone, and each total is the
\* sum over the suits: nothing is left of the hand analyzed before.  The three
\* weights kept of a suit are those of its three highest cards, whatever order
\* they are read in, and those of voids beyond its length; and once the hand is
\* counted, its losers are those of the user guide.
StatsOfThisHand ==
  /\ \A s \in CardSuits, n \in 1..3 :
       hs.topcards[s][n] = IF Held(hand, s, n) THEN LtcWeight(Highest(hand, s, n)) ELSE LTC_VOID_WEIGHT
  /\ \A t \in DOMAIN HandTables :
       /\ hs.counts[t] = [s \in CardSuits |-> SumFunction([r \in RanksOf(hand, s) |-> HandTables[t][r]])]
       /\ hs.totalcounts[t] = SumFunction(hs.counts[t])
  /\ hs.length = [s \in CardSuits |-> Cardinality(RanksOf(hand, s))]
  /\ hs.totalltc = SumFunction(hs.ltc)
  /\ hs.totalloser = SumFunction(hs.loser)
  /\ LosersAreMissingHonours
=============================================================================
