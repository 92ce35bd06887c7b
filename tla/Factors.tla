------------------------------- MODULE Factors -------------------------------
(***************************************************************************)
(* What the metrics of DealerServer are built from: adjustments for short  *)
(* honours, the choice of trumps and declarer, and the points for a fit    *)
(* (src/UserEval/src/factors_subs.c and metrics_util_subs.c).  P stands    *)
(* for the two hands of the side and trump for what trump_fit_chk finds;   *)
(* fractions of a point are quarters, those of DKP thirds.                 *)
(***************************************************************************)
EXTENDS Knr, FiniteSetsExt, SequencesExt

BERGEN == 0
BISSEL == 1
DKP == 2
GOREN == 3
JGM1 == 4
KAPLAN == 5
KARPIN == 6
KNR == 7
LAR == 8
MORSE == 9
PAV == 10
SHEINW == 11
ZARBAS == 12
ZARFULL == 13

-----------------------------------------------------------------------------
\* stiff_H_adj: a singleton ace, king, queen, jack, ten.
stiff_H_adj(m) ==
  CASE m = BERGEN -> <<-2, -4, -4, -4, 0>>
    [] m \in {BISSEL, KARPIN, LAR, SHEINW} -> <<0, -4, -4, -4, 0>>
    [] m \in {GOREN, PAV} -> <<0, -8, -8, -4, 0>>
    [] m \in {JGM1, MORSE} -> <<0, -4, -4, -3, -1>>
    [] m = KAPLAN -> <<0, 0, -8, -4, 0>>
    [] m = ZARBAS -> <<-4, -4, -4, -4, 0>>

Doubletons == <<<<Ace, King>>, <<Ace, Queen>>, <<Ace, Jack>>, <<Ace, Ten>>, <<Ace, Nine>>,
                <<King, Queen>>, <<King, Jack>>, <<King, Ten>>, <<King, Nine>>,
                <<Queen, Jack>>, <<Queen, Ten>>, <<Queen, Nine>>,
                <<Jack, Ten>>, <<Jack, Nine>>, <<Ten, Nine>>, <<Nine, Nine>>>>

\* Fault: a king and queen cost nothing in any metric.
dbl_HH_adjKingQueen(m) == <<0, 0, 0, 0, 0, 0, -4, 0, 0, -4, -4, -4, -4, -4, 0, 0>>

\* dbl_HH_adj: a doubleton, in the order of Doubletons; Nine stands for any spot.
dbl_HH_adj(m) ==
  CASE m = BERGEN -> <<0, 0, -2, 0, 0, -2, -2, 0, 0, -4, -4, -4, -4, -4, 0, 0>>
    [] m \in {BISSEL, GOREN, SHEINW} -> <<0, 0, 0, 0, 0, 0, 0, 0, 0, -4, -4, -4, -4, -4, 0, 0>>
    [] m = JGM1 -> <<-4, -4, -2, 0, 0, -4, 0, 0, 0, -4, -4, -4, -4, -3, -1, 0>>
    [] m = KAPLAN -> <<0, 0, 0, 0, 0, 0, 0, 0, 0, -4, 0, 0, 0, 0, 0, 0>>
    [] m \in {KARPIN, PAV} -> <<0, 0, 0, 0, 0, -4, -4, 0, 0, -4, -4, -4, -4, -4, 0, 0>>
    [] m = LAR -> <<0, 0, 0, 0, 0, -4, 0, 0, 0, -4, 0, 0, 0, 0, 0, 0>>
    [] m = MORSE -> <<0, -2, -1, 0, 0, 0, 0, 0, 0, -1, -1, -2, -2, -3, -1, 0>>
    [] m = ZARBAS -> <<0, 0, -4, 0, 0, -4, -4, 0, 0, -4, -4, -4, -4, -4, 0, 0>>

OrSpot(r) == IF r < Ten THEN Nine ELSE r

shortHon_adj(h, s, m) ==
  LET hi == OrSpot(Max(h[s]))
      lo == OrSpot(Min(h[s]))
  IN  IF Length(h, s) = 1 THEN Given(hi >= Ten, stiff_H_adj(m)[Ace + 1 - hi])
      ELSE IF Length(h, s) = 2
           THEN dbl_HH_adj(m)[CHOOSE i \in DOMAIN Doubletons : Doubletons[i] = <<hi, lo>>]
      ELSE 0

\* calc_alt_hcp: the count of the metric, and what Morse adds for honours in company.
hcp_val(m) == CASE m = DKP -> <<0, 2, 5, 9, 13>>
                [] m \in {JGM1, MORSE} -> <<1, 3, 6, 12, 18>>
                [] OTHER -> <<0, 4, 8, 12, 16>>

calc_alt_hcp(h, s, m) ==
  LET c == h[s]
  IN  SumFunction([r \in c |-> Given(r >= Ten, hcp_val(m)[r + 1 - Ten])])
      + Given(m = MORSE /\ Length(h, s) >= 3,
              Given(Queen \in c /\ (Ace \in c \/ King \in c), 2)
              + Given(Jack \in c /\ (Queen \in c \/ Ten \in c), 1)
              + Given(Ten \in c /\ (Jack \in c \/ Nine \in c), 1))

AdjDKP(h, s) ==
  LET tops == Top(h, s, 4)
      n    == Length(h, s)
  IN  Given(\/ n > 0 /\ tops = n
            \/ Queen \in h[s] /\ n = 2
            \/ Jack \in h[s] /\ tops = 1 /\ n <= 3, -1)

\* QuickTricks_suit, in halves of a trick, from the two top cards.
QuickTricks_suit(h, s) ==
  LET c == h[s]
      x == Length(h, s) >= 2
  IN  CASE Ace \in c /\ King \in c -> 4
        [] Ace \in c /\ Queen \in c -> 3
        [] Ace \in c -> 2
        [] King \in c /\ Queen \in c -> 2
        [] King \in c /\ x -> 1
        [] OTHER -> 0

-----------------------------------------------------------------------------
\* Major, balanced and weak: how a suit compares with the best so far, as a fit.
FitLength(P, s) == Length(P[0], s) + Length(P[1], s)
Major(s) == s >= 2
Uneven(P, s) == LET d == Length(P[0], s) - Length(P[1], s) IN IF d < 0 THEN -d ELSE d
SuitPoints(P, s) == Points(P[0], s) + Points(P[1], s)
IsFit(P, s) == \/ FitLength(P, s) > 7
               \/ FitLength(P, s) = 7 /\ Length(P[0], s) \in {2, 5}

\* Fault: of two fits as long, of the same rank and as even, the stronger.
BetterIfStrong(P, s, t) ==
  LET n == FitLength(P, s) m == FitLength(P, t) u == Uneven(P, s) v == Uneven(P, t)
  IN  \/ n > m
      \/ n = m /\ Major(s) /\ ~Major(t)
      \/ n = m /\ Major(s) = Major(t) /\ u < v
      \/ n = m /\ Major(s) = Major(t) /\ u = v /\ SuitPoints(P, s) > SuitPoints(P, t)

\* The tests of the loop, suit s against t that it has kept.
Better(P, s, t) ==
  LET n == FitLength(P, s) m == FitLength(P, t) u == Uneven(P, s) v == Uneven(P, t)
  IN  \/ n > m
      \/ n = m /\ Major(s) /\ ~Major(t)
      \/ n = m /\ Major(s) = Major(t) /\ u < v
      \/ n = m /\ Major(s) = Major(t) /\ u = v /\ SuitPoints(P, s) < SuitPoints(P, t)

NoSuit == -1

\* SetTrumps: the suit that is left after the four.
SetTrumps(P) ==
  LET keep(t, s) == IF IsFit(P, s) /\ (t = NoSuit \/ Better(P, s, t)) THEN s ELSE t
  IN  keep(keep(keep(keep(NoSuit, 0), 1), 2), 3)

ShortestSuit(h) == Min({Length(h, s) : s \in MetricSuits})

\* The longer trumps declare, then the stronger hand, then the second.
Declares(P, t) ==
  LET d == Length(P[0], t) - Length(P[1], t)
  IN  IF d > 0 \/ (d = 0 /\ TotalPoints(P[0]) > TotalPoints(P[1])) THEN 0 ELSE 1

TrumpFit(P, t) ==
  IF t = NoSuit
  THEN [tsuit |-> NoSuit, fit_len |-> -1, tlen |-> [h \in Both |-> 0],
        ss_len |-> [h \in Both |-> 0], decl |-> 1, dummy |-> 0]
  ELSE [tsuit |-> t, fit_len |-> FitLength(P, t), tlen |-> [h \in Both |-> Length(P[h], t)],
        ss_len |-> [h \in Both |-> ShortestSuit(P[h])],
        decl |-> Declares(P, t), dummy |-> 1 - Declares(P, t)]

\* trump_fit_chk, whose loop is that of SetTrumps.
trump_fit_chk(P) == TrumpFit(P, SetTrumps(P))
IsFitted(t) == t.fit_len >= 8

\* SetDeclarer: as Declares, but of two hands as long and as strong, the first.
SetDeclarer(P, t) ==
  LET d == IF t = NoSuit THEN 0 ELSE Length(P[0], t) - Length(P[1], t)
  IN  IF d > 0 \/ (d = 0 /\ TotalPoints(P[0]) >= TotalPoints(P[1])) THEN 0 ELSE 1

\* Fault: only shortness in the second hand is a misfit.
misfit_chkOfFirst(P, s) ==
  [type |-> Given(Length(P[1], s) < 2 /\ Length(P[0], s) >= 3, Min({Length(P[0], s), 5})),
   short_hand |-> Given(Length(P[1], s) < 2, 1)]

\* misfit_chk: shortness opposite a suit of three, four, five or more.
misfit_chk(P, s) ==
  LET lh == IF Length(P[0], s) >= Length(P[1], s) THEN 0 ELSE 1
      n  == Length(P[lh], s)
      isShort == Length(P[1 - lh], s) < 2
  IN  [type |-> Given(isShort /\ n >= 3, Min({n, 5})),
       short_hand |-> IF isShort THEN 1 - lh ELSE 0]

-----------------------------------------------------------------------------
\* Points of the dummy (or of either hand, when the trumps are as long): h is
\* that hand, and du its index.  RuffPoints: for the shortest suit alone.
SideSuits(t) == MetricSuits \ {t.tsuit}
OverSide(t, f(_)) == SumFunction([s \in SideSuits(t) |-> f(s)])

RuffPoints(t) ==
  LET n == t.ss_len[t.dummy]
  IN  Given(n < 3, IF t.tlen[t.dummy] = 3 THEN 3 - n ELSE <<5, 3, 1>>[n + 1])

DfitNONE(h, t) == 0
DfitSTD(h, t)  == Given(t.tlen[t.dummy] > 2, RuffPoints(t))
DfitLAR(h, t)  == Given(t.tlen[t.dummy] > 2 /\ t.tlen[0] + t.tlen[1] >= 9, RuffPoints(t))

DfitBERG(h, t) ==
  LET n == t.tlen[t.dummy]
      ruffs(s) == Given(Length(h, s) = 0, n) + Given(Length(h, s) = 1, IF n = 3 THEN 2 ELSE 3)
                  + Given(Length(h, s) = 2, 1)
  IN  Given(n > 2, OverSide(t, ruffs))

DfitKAPLAN(h, t) ==
  LET ruffs(s) == Given(Length(h, s) < 3, 3 - Length(h, s))
  IN  Given(Length(h, t.tsuit) > 2, OverSide(t, ruffs))

\* The row of Karpin's table goes by the index of the hand.
DfitKARPIN(h, t) ==
  LET ruffs(s) == Given(Length(h, s) < 3, 2 + t.dummy - Length(h, s))
  IN  Given(t.tlen[t.dummy] > 2, OverSide(t, ruffs))

\* All four suits; the trumps are too long to count.
DfitPAV(h, t) ==
  LET ruffs(s) == Given(Length(h, s) < 3, 2 - Length(h, s))
  IN  Given(t.tlen[t.dummy] > 3, OverSuits(ruffs))

DfitGOREN(h, t) ==
  LET ruffs(s) == Given(Length(h, s) < 2, 2 - Length(h, s))
  IN  Given(t.tlen[t.dummy] > 3, OverSide(t, ruffs))

DfitSHEINW(h, t) ==
  LET n == t.tlen[t.dummy]
      ruffs(s) == Given(Length(h, s) < 3, <<5, 3, 1>>[Min({Length(h, s), 2}) + 1] - Given(n = 3, 1))
  IN  Given(n > 2, OverSide(t, ruffs))

\* Points of the declarer.  Extra: for trumps beyond the fifth.
Extra(n) == Given(n > 5, 2 * (n - 5))

Fn_ptsNONE(h, t) == 0

Fn_ptsBERG(h, t) ==
  LET n == t.tlen[t.decl]
      ruffs(s) == Given(Length(h, s) < 2, 3 - Length(h, s))
  IN  Given(n >= 5, 1) + Extra(n) + OverSuits(ruffs) + Given(WithLength(h, 2) >= 2, 1)

Fn_ptsKARPIN(h, t) ==
  LET n == t.tlen[t.decl]
      ruffs(s) == IF n = 5 THEN Given(Length(h, s) < 2, 2 - Length(h, s))
                  ELSE Given(n > 5 /\ Length(h, s) < 3, 3 - Length(h, s))
  IN  OverSide(t, ruffs)

\* A long side suit counts for a length beyond three; with four trumps it costs
\* one for each suit, and one at the end, while there is something to take.
LongSides(h, tsuit, n) ==
  LET less(v) == IF n = 4 /\ v > 0 THEN v - 1 ELSE v
      add(v, s) == less(v + Given(s # tsuit /\ Length(h, s) > 3, Length(h, s) - 3))
  IN  less(FoldLeft(add, 0, <<0, 1, 2, 3>>))

Fn_ptsPAV(h, t) ==
  LET n == t.tlen[t.decl]
  IN  Extra(n) + Given(t.fit_len >= 9, 1) + LongSides(h, t.tsuit, n)

Fn_ptsGOREN(h, t) == LET n == t.tlen[t.decl] IN Given(n >= 5, 1) + Extra(n)

Fn_ptsSHEINW(P, t) ==
  LET dc == P[t.decl]
      n == t.tlen[t.decl]
      suit(s) == Given(Top(dc, s, 4) = 4 /\ Length(dc, s) >= 5, 1)
                 + Given(Length(dc, s) >= 5 /\ Length(P[t.dummy], s) >= 3, 1 + 2 * (Length(dc, s) - 5))
  IN  Given(n >= 5, 1) + Extra(n) + OverSide(t, suit)

\* Points for honours in the suit of partner.
Hf_ptsBERG(P, hf) ==
  LET fits(s) == \/ FitLength(P, s) >= 8
                 \/ Length(P[1 - hf], s) >= 5 /\ FitLength(P, s) >= 7
  IN  Min({2, Cardinality({s \in MetricSuits : Points(P[hf], s) \in 1..3 /\ fits(s)})})

Hf_ptsKAPLAN(P, hf) ==
  LET suit(s) == Given(Length(P[hf], s) = 1 /\ Length(P[1 - hf], s) >= 4,
                       Given(Queen \in P[hf][s], 2) + Given(Jack \in P[hf][s], 1))
  IN  OverSuits(suit)

Hf_ptsGOREN(h, t) == Given(Points(h, t.tsuit) \in 1..3, 1)

Hf_ptsSHEINW(P, t) ==
  LET weak(h) == Given(Points(h, t.tsuit) <= 3 /\ h[t.tsuit] \cap {Queen, Jack} # {}, 1)
      du == P[t.dummy]
      suit(s) == Given(/\ Length(P[t.decl], s) >= 4 /\ Length(du, s) >= 2
                       /\ Top(du, s, 3) = 1 /\ Queen \in du[s], 1)
  IN  weak(du) + weak(P[t.decl]) + OverSide(t, suit)

\* Synergy: honours in company.
SynBERG(h, s) == Given(Length(h, s) >= 4 /\ Top(h, s, 5) >= 3, 1)

SynDKP(h, s) ==
  LET c == h[s]
      tops == Top(h, s, 4)
  IN  Given(King \in c /\ Ace \in c, 1)
      + Given(Queen \in c /\ c \cap {Ace, King} # {}, 1)
      + Given(Jack \in c /\ c \cap {Ace, King} # {}, 1)
      + Given(Ten \in c, IF tops >= 2 \/ (tops = 1 /\ Nine \in c) THEN 2
                         ELSE Given(tops = 1 \/ (Nine \in c /\ Length(h, s) > 2), 1))

SynLAR(h) ==
  LET good == {s \in MetricSuits : Top(h, s, 2) >= 1 /\ Top(h, s, 4) >= 2 /\ Length(h, s) >= 3}
  IN  Given(Cardinality(good) >= 2, Min({Cardinality(good), 3}) - 1)

SynZAR(h) ==
  LET n == Cardinality({s \in MetricSuits : Points(h, s) > 0})
      total == TotalPoints(h)
  IN  Given((total \in 11..14 /\ n <= 2) \/ (total >= 14 /\ n <= 3), 1)

DptsTable(n) == Given(n < 3, 3 - n)
LptsOver(h, n, cap) == LET over(s) == Given(Length(h, s) > n, Min({cap, Length(h, s) - n})) IN OverSuits(over)
LptsPAV(P) ==
  LET du == IF TotalPoints(P[0]) <= TotalPoints(P[1]) THEN 0 ELSE 1
  IN  [h \in Both |-> Given(h = du /\ \E s \in MetricSuits : Length(P[h], s) >= 5, 1)]

-----------------------------------------------------------------------------
\* The functions that the metrics hand to Do_Trump_fit.
Dfit(m, h, t) ==
  CASE m = BERGEN          -> DfitBERG(h, t)
    [] m \in {JGM1, KARPIN} -> DfitKARPIN(h, t)
    [] m \in {LAR, MORSE}   -> DfitLAR(h, t)
    [] OTHER               -> DfitSTD(h, t)

Fn_pts(m, h, t) ==
  CASE m = BERGEN            -> Fn_ptsBERG(h, t)
    [] m \in {JGM1, KARPIN} -> Fn_ptsKARPIN(h, t)
    [] OTHER                 -> Fn_ptsNONE(h, t)

\* Do_Trump_fit: with an eight card fit, the points of the dummy and of the
\* declarer; with trumps as long in both hands, those of the dummy for both.
Do_Trump_fit(P, m, t) ==
  LET seen(h) == IF h = t.dummy THEN t ELSE [t EXCEPT !.decl = t.dummy, !.dummy = t.decl]
      even == t.tlen[0] = t.tlen[1]
  IN  [df |-> [h \in Both |-> Given(IsFitted(t) /\ (h = t.dummy \/ even), Dfit(m, P[h], seen(h)))],
       fn |-> [h \in Both |-> Given(IsFitted(t) /\ h = t.decl /\ ~even, Fn_pts(m, P[h], t))]]

\* Zar: another fit, an excess of trumps, honours in a suit of partner's.
Fn_ptsZar(P, trump) ==
  LET longest == Max({FitLength(P, s) : s \in MetricSuits \ {trump}})
  IN  Given(longest >= 8, Min({longest, 9}) - 7)

DfitZAR(P, t, dc) ==
  LET du == 1 - dc
      len(h) == Length(P[h], t)
      excess == [h \in Both |-> Max({0, len(h) - (IF h = dc THEN 5 ELSE 3)})]
      fit == IF t = NoSuit THEN -1 ELSE FitLength(P, t)
      ruff == len(du) - ShortestSuit(P[dc])
  IN  [h \in Both |-> IF fit > 8 THEN excess[h] * (3 - ShortestSuit(P[h]))
                      ELSE Given(h = du /\ fit = 8 /\ len(du) >= 3 /\ ruff >= 2, ruff)]

\* The hand whose honours in suit s face the length: the shorter, then the one
\* with fewer, then with weaker ones.
ZarFacing(P, s) ==
  LET n == Length(P[0], s) - Length(P[1], s)
      k == Top(P[0], s, 5) - Top(P[1], s, 5)
      p == Points(P[0], s) - Points(P[1], s)
  IN  IF n > 0 \/ (n = 0 /\ k > 0) \/ (n = 0 /\ k = 0 /\ p > 0) THEN 1 ELSE 0

\* Hf_ptsZar: what a short suit lost is given back, through a variable that
\* a longer suit leaves as it is: left is what it holds before the first.
Hf_ptsZar(P, left) ==
  LET step(acc, s) ==
        LET h == ZarFacing(P, s)
            temp == IF Length(P[h], s) < 3 THEN shortHon_adj(P[h], s, ZARBAS) \div 4 ELSE acc.temp
        IN  IF Length(P[0], s) < 4 /\ Length(P[1], s) < 4 THEN acc
            ELSE [acc EXCEPT !.temp = temp, !.suit[h][s] = Min({2, Top(P[h], s, 5)}) - temp]
      all == FoldLeft(step, [temp |-> left, suit |-> [h \in Both |-> [s \in MetricSuits |-> 0]]],
                      <<0, 1, 2, 3>>).suit
      bestTwo(f) == Max({f[x[1]] + f[x[2]] : x \in {y \in MetricSuits \X MetricSuits : y[1] # y[2]}})
  IN  [h \in Both |-> bestTwo(all[h])]
=============================================================================
