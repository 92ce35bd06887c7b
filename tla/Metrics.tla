------------------------------- MODULE Metrics -------------------------------
(***************************************************************************)
(* DealerServer evaluates the hands of a side in the way the query tag     *)
(* names, and leaves up to 64 results in the area of that side of the page *)
(* it shares with dealer (src/UserEval/src/metrics_calcs.c, and userfunc   *)
(* with its replies in UserServer.c).  The metrics share one set of global *)
(* work variables, the sheet, which each clears before it starts, and the  *)
(* areas, which are never cleared.                                         *)
(***************************************************************************)
EXTENDS Factors, TLC

CONSTANTS
  Deals,        \* the deals: four hands, north to west
  Tags,         \* the query tags that scripts ask for
  Leftovers,    \* what two integers hold, one a hand, that were never assigned
  MaxQueries    \* bound: queries about one deal

SET88  == 88
TSTALL == 99
Sides  == 0..1
Seats  == 0..3
Slots  == 0..63

ASSUME MetricsAssumption ==
  /\ \A d \in Deals : /\ d \in [Seats -> [MetricSuits -> SUBSET CardRanks]]
                      /\ \A p \in Seats : OverSuits(LAMBDA s : Length(d[p], s)) = 13
  /\ Leftovers \subseteq [Both -> Int] /\ Leftovers # {}
  /\ MaxQueries \in Nat

VARIABLES
  deal,         \* the deal in the page
  sheet,        \* the work variables of the last metric
  area,         \* the results of each side: u.res[0 .. 63] of nsres and ewres
  last,         \* the tag of the last query of each side
  asked         \* the queries so far

metricVars == <<deal, sheet, area, last, asked>>

-----------------------------------------------------------------------------
\* The sheet: each field holds the points of the two hands.
Zeroes == [h \in Both |-> 0]
ZeroSheet == [fhcp |-> Zeroes, fadj |-> Zeroes, hcp_adj |-> Zeroes, dpts |-> Zeroes, lpts |-> Zeroes,
              syn |-> Zeroes, hf |-> Zeroes, dfit |-> Zeroes, fn |-> Zeroes, hand |-> Zeroes,
              body |-> Zeroes]

a ++ b == [h \in Both |-> a[h] + b[h]]
a -- b == [h \in Both |-> a[h] - b[h]]
Each(P, f(_)) == [h \in Both |-> f(P[h])]
SideTotal(a) == a[0] + a[1]

\* roundf of quarters and of thirds: to the nearest, halves away from zero.
Rounded(a) == [h \in Both |-> IF a[h] >= 0 THEN (a[h] + 2) \div 4 ELSE -((2 - a[h]) \div 4)]
Thirds(a)  == [h \in Both |-> IF a[h] >= 0 THEN (a[h] + 1) \div 3 ELSE -((1 - a[h]) \div 3)]

\* The honours of both hands in the count of the metric, and what it deducts.
BothCounted(P, m, g) ==
  [g EXCEPT !.fhcp = @ ++ Each(P, LAMBDA h : OverSuits(LAMBDA s : calc_alt_hcp(h, s, m))),
            !.fadj = @ ++ Each(P, LAMBDA h : OverSuits(LAMBDA s : shortHon_adj(h, s, m)))]

\* Length points: for the cards beyond n of a suit, as many as cap.
WithLpts(P, n, cap, g) == [g EXCEPT !.lpts = @ ++ Each(P, LAMBDA h : LptsOver(h, n, cap))]
AdjRounded(g) == [g EXCEPT !.hcp_adj = Rounded(g.fadj)]

\* Do_Trump_fit leaves the points it finds on the sheet, if there is a fit.
Fitted(P, m, t, g) ==
  LET found(tf) == [g EXCEPT !.dfit = tf.df, !.fn = tf.fn]
  IN  IF IsFitted(t) THEN found(Do_Trump_fit(P, m, t)) ELSE g

\* The fields of the sheet that a metric reports, of one hand and then the other.
Fields(g, names) ==
  [i \in 1..2 * Len(names) |-> g[names[1 + ((i - 1) % Len(names))]][(i - 1) \div Len(names)]]

Evaluation(g, nt, suit, misc) == [sheet |-> g, nt |-> nt, suit |-> suit, misc |-> misc]

HoldsMisfit(P, s) == misfit_chk(P, s).type > 3
SomeMisfit(P) == \E s \in MetricSuits : HoldsMisfit(P, s)
Dpts(h) == OverSuits(LAMBDA s : DptsTable(Length(h, s)))
IfSquare(h, v) == Given(SquareHand(h), v)

-----------------------------------------------------------------------------
\* Bergen: an excess of aces and tens over queens and jacks is the body; with
\* a misfit the length does not count at no trumps.
Adjust3(h) ==
  LET n == HowMany(h, Ten) + HowMany(h, Ace) - HowMany(h, Queen) - HowMany(h, Jack)
  IN  IF n <= -6 THEN -2 ELSE IF n <= -3 THEN -1 ELSE IF n >= 6 THEN 2 ELSE Given(n >= 3, 1)

bergen_calc(P, t, g0) ==
  LET judged(g) ==
        [g EXCEPT !.syn = @ ++ Each(P, LAMBDA h : OverSuits(LAMBDA s : SynBERG(h, s))),
                  !.body = @ ++ Each(P, Adjust3),
                  !.hand = Each(P, LAMBDA h : IfSquare(h, -1)),
                  !.hf = [h \in Both |-> Hf_ptsBERG(P, h)]]
      fitted(g, tf) == [g EXCEPT !.dfit = tf.df, !.fn = tf.fn]
      evals(g, nt) ==
        Evaluation(g, IF SomeMisfit(P) THEN nt -- g.lpts ELSE nt, nt ++ g.hf ++ g.dfit ++ g.fn,
          Fields(g, <<"hcp_adj", "lpts", "body", "syn", "dpts", "dfit", "fn", "hf", "hand">>))
      done(g) == evals(g, Rounded(g.fhcp ++ g.fadj) ++ g.syn ++ g.lpts ++ g.body ++ g.hand)
  IN  done(fitted(judged(WithLpts(P, 4, 13, BothCounted(P, BERGEN, g0))), Do_Trump_fit(P, BERGEN, t)))

\* Bissell: an honour is worth three less the higher ones missing.
BissellSuit(h, s) ==
  LET c == h[s]
      n == Length(h, s)
      worth(r) == Max({0, 3 - ((Ace - r) - Higher(c, r))})
      honors == SumFunction([r \in c |-> Given(r >= Ten, worth(r))])
      length == IF n = 4 THEN 1 ELSE Given(n > 4, 3 * (n - 4))
  IN  Min({3 * n, honors + shortHon_adj(h, s, BISSEL) \div 4 + length})

IsFlat(h) == \/ SquareHand(h) \/ WithLength(h, 4) = 3
             \/ WithLength(h, 4) = 2 /\ WithLength(h, 0) = 0

\* The deduction for shape of a hand that has none is what the stack held.
bissell_calc(P, g0, left) ==
  LET shape(h) == IF IsFlat(P[h]) THEN -1 ELSE left[h]
      suits(h) == [i \in 1..4 |-> BissellSuit(P[h], i - 1)]
      evals(pts) == Evaluation(g0, pts, pts, suits(0) \o suits(1) \o <<shape(0), shape(1)>>)
  IN  evals(Each(P, LAMBDA h : OverSuits(LAMBDA s : BissellSuit(h, s)) - Given(IsFlat(h), 1)))

\* Kleinman: Little Jack points, a third of a point each.
dkp_calc(P, t, g0) ==
  LET counted ==
        [g0 EXCEPT !.fhcp = @ ++ Each(P, LAMBDA h : OverSuits(LAMBDA s : calc_alt_hcp(h, s, DKP))),
                   !.fadj = @ ++ Each(P, LAMBDA h : OverSuits(LAMBDA s : AdjDKP(h, s))),
                   !.hand = @ ++ Each(P, LAMBDA h : IfSquare(h, -2)),
                   !.syn = Each(P, LAMBDA h : OverSuits(LAMBDA s : SynDKP(h, s)))]
      adjusted(g) == [g EXCEPT !.hcp_adj = g.fadj]
      evals(g, nt) ==
        Evaluation(g, nt, nt ++ g.dfit, Fields(g, <<"hcp_adj", "lpts", "syn", "hand", "dfit", "fn">>))
      done(g) == evals(g, Thirds(g.fhcp ++ g.fadj ++ g.syn ++ g.hand) ++ g.lpts)
  IN  done(Fitted(P, DKP, t, adjusted(WithLpts(P, 4, 3, counted))))

\* Goren: four aces or none; without a fit a misfit costs both hands all their
\* shortness.
GorenBody(h) == Given(HowMany(h, Ace) = 4, 1) - Given(HowMany(h, Ace) = 0, 1)

goren_calc(P, t, g0) ==
  LET du == t.dummy
      dc == t.decl
      judged(g) == [g EXCEPT !.dpts = @ ++ Each(P, Dpts), !.body = Each(P, GorenBody),
                             !.hand = [h \in Both |-> IF SquareHand(P[h]) THEN -1 ELSE @[h]]]
      fitted(g) == IF IsFitted(t)
                   THEN [g EXCEPT !.dfit[du] = DfitGOREN(P[du], t), !.fn[dc] = Fn_ptsGOREN(P[dc], t),
                                  !.hand[dc] = 0, !.hf[du] = Hf_ptsGOREN(P[du], t)]
                   ELSE g
      suit(g, pts) == IF IsFitted(t)
                      THEN [pts EXCEPT ![du] = @ + g.dfit[du] + g.hand[du] + g.hf[du], ![dc] = @ + g.fn[dc]]
                      ELSE IF SomeMisfit(P) THEN pts -- g.dpts ELSE pts
      evals(g, pts, hand) ==
        Evaluation(g, pts ++ hand, suit(g, pts),
                   Fields(AdjRounded(g), <<"hcp_adj", "body", "dpts", "dfit", "fn", "hf", "hand">>))
      done(g) == evals(fitted(g), Rounded(g.fhcp ++ g.fadj) ++ g.body, g.hand)
  IN  done(judged(BothCounted(P, GOREN, g0)))

\* Karpin, and with another count of honours JGM1: length until there is a fit.
jgm1_calc(P, t, g0) ==
  LET evals(g, nt) ==
        Evaluation(g, nt, nt ++ g.dfit ++ g.fn, Fields(g, <<"hcp_adj", "lpts", "dfit", "fn">>))
      done(g) == evals(g, Rounded(g.fhcp ++ g.fadj) ++ g.lpts)
  IN  done(Fitted(P, JGM1, t, AdjRounded(WithLpts(P, 4, 13, BothCounted(P, JGM1, g0)))))

karpin_calc(P, t, g0) ==
  LET evals(g, nt) ==
        Evaluation(g, nt, nt ++ g.dfit ++ g.fn, Fields(g, <<"hcp_adj", "lpts", "dfit", "fn">>))
      done(g) == evals(g, g.lpts ++ g.hcp_adj ++ Rounded(g.fhcp))
      fresh == [g0 EXCEPT !.fhcp = Zeroes]
  IN  done(Fitted(P, KARPIN, t, AdjRounded(WithLpts(P, 4, 13, BothCounted(P, KARPIN, fresh)))))

\* Kaplan: with a fit both hands count their shortness.
kaplan_calc(P, t, g0) ==
  LET faced(g) == [g EXCEPT !.hf = [h \in Both |-> Hf_ptsKAPLAN(P, h)]]
      fitted(g) == IF IsFitted(t) THEN [g EXCEPT !.dfit = Each(P, LAMBDA h : DfitKAPLAN(h, t))] ELSE g
      evals(g, nt) == Evaluation(g, nt, IF IsFitted(t) THEN nt ++ g.dfit ELSE nt,
                                 Fields(g, <<"hcp_adj", "lpts", "hf", "dfit">>))
      done(g) == evals(g, Rounded(g.fhcp) ++ g.hcp_adj ++ g.lpts ++ g.hf)
  IN  done(fitted(faced(AdjRounded(WithLpts(P, 4, 13, BothCounted(P, KAPLAN, g0))))))

-----------------------------------------------------------------------------
\* KnR_Trump_fit: a half or all of the shortness of the dummy, a quarter, a
\* half or all of that of the declarer.
KnR_Trump_fit(t, short) ==
  LET share(v, eight, nine) == CASE t.fit_len = 8 -> v \div eight [] t.fit_len = 9 -> v \div nine [] OTHER -> v
  IN  [dfit |-> [h \in Both |-> Given(IsFitted(t) /\ h = t.dummy, share(short[h], 2, 1))],
       fn   |-> [h \in Both |-> Given(IsFitted(t) /\ h = t.decl, share(short[h], 4, 2))]]

\* Shortness opposite five cards: with a fit of seven it costs its own points,
\* with none all the points for shortness of both hands.
KnrMisfit(P, t, short) ==
  LET bad == {s \in MetricSuits : misfit_chk(P, s).type >= 5}
      costs(h, s) == Given(misfit_chk(P, s).short_hand = h, IF Length(P[h], s) = 0 THEN 300 ELSE 200)
  IN  [h \in Both |-> IF bad = {} \/ IsFitted(t) THEN 0
                      ELSE IF t.fit_len = 7 THEN -SumFunction([s \in bad |-> costs(h, s)])
                      ELSE -short[h]]

\* Only the six results of the others come back on the sheet.
knr_calc(P, t, g0) ==
  LET details(p, f, m, h) ==
        <<p[h].honor, p[h].short, p[h].qual, p[h].tot, f.dfit[h], f.fn[h], m[h], p[h].body>>
      evals(p, f, m, final) ==
        Evaluation(g0, [h \in Both |-> p[h].rounded], [h \in Both |-> KnR_Round(p[h].body, final[h])],
                   <<SideTotal(final), final[0], final[1]>> \o details(p, f, m, 0) \o details(p, f, m, 1))
      summed(p, f, m) == evals(p, f, m, [h \in Both |-> p[h].tot + f.dfit[h] + f.fn[h] + m[h]])
      done(p, short) == summed(p, KnR_Trump_fit(t, short), KnrMisfit(P, t, short))
      all(p) == done(p, [h \in Both |-> p[h].short])
  IN  all(Each(P, KnR_pts_all))

-----------------------------------------------------------------------------
\* Larsson and Morse count the nines of both hands together for the second.
Nines(P, h) == HowMany(P[0], Nine) + Given(h = 1, HowMany(P[1], Nine))

LarBody(P, h) ==
  Given(HowMany(P[h], Ten) >= 2 \/ (HowMany(P[h], Ten) = 1 /\ Nines(P, h) >= 2), 1)

WithLarsson(P, g) ==
  AdjRounded([WithLpts(P, 5, 3, g) EXCEPT
                !.syn = Each(P, SynLAR), !.body = [h \in Both |-> IF LarBody(P, h) = 1 THEN 1 ELSE @[h]]])

LarEvals(g, nt) ==
  Evaluation(g, nt, nt ++ g.dfit ++ g.fn, Fields(g, <<"hcp_adj", "lpts", "body", "syn", "dfit">>))

lar_calc(P, t, g0) ==
  LET fresh == [g0 EXCEPT !.fhcp = Zeroes]
      done(g) == LarEvals(g, Rounded(g.fhcp) ++ g.hcp_adj ++ g.body ++ g.syn ++ g.lpts)
  IN  done(Fitted(P, LAR, t, WithLarsson(P, BothCounted(P, LAR, fresh))))

\* Morse reports the body and does not count it.
morse_calc(P, t, g0) ==
  LET done(g) == LarEvals(g, Rounded(g.fhcp ++ g.fadj) ++ g.syn ++ g.lpts)
  IN  done(Fitted(P, MORSE, t, WithLarsson(P, BothCounted(P, MORSE, g0))))

-----------------------------------------------------------------------------
\* Pavlicek: shortness counts in a suit contract, except opposite a misfit.
pav_calc(P, t, g0) ==
  LET du == t.dummy
      dc == t.decl
      judged(g) == [g EXCEPT !.dpts = @ ++ Each(P, Dpts),
                             !.body = Each(P, LAMBDA h : (HowMany(h, Ace) + HowMany(h, Ten)) \div 4),
                             !.lpts = [h \in Both |-> IF LptsPAV(P)[h] = 1 THEN 1 ELSE @[h]]]
      bare == SquareHand(P[du]) /\ HowMany(P[du], Ace) = 0 /\ t.tlen[du] < 4
      fitted(g) == IF IsFitted(t)
                   THEN [g EXCEPT !.dfit[du] = DfitPAV(P[du], t), !.fn[dc] = Fn_ptsPAV(P[dc], t),
                                  !.hand[du] = IF bare THEN -1 ELSE @]
                   ELSE g
      wasted(h) == OverSuits(LAMBDA s : Given(HoldsMisfit(P, s) /\ misfit_chk(P, s).short_hand = h,
                                              DptsTable(Length(P[h], s))))
      suit(g, pts) == IF IsFitted(t)
                      THEN [pts EXCEPT ![du] = @ + g.dfit[du] + g.hand[du], ![dc] = @ + g.fn[dc]]
                      ELSE pts -- [h \in Both |-> wasted(h)]
      evals(g, pts) ==
        Evaluation(g, pts ++ g.lpts, suit(g, pts ++ g.dpts),
                   Fields(AdjRounded(g), <<"hcp_adj", "body", "lpts", "fn", "dpts", "dfit", "hand">>))
      done(g) == evals(g, Rounded(g.fhcp ++ g.fadj) ++ g.body)
  IN  done(fitted(judged(BothCounted(P, PAV, g0))))

\* Sheinwold: an unsupported queen or jack is worth half a point less, unless
\* it is in a fit.
SheinwAdj(P, h, s) ==
  LET hd == P[h]
  IN  IF /\ Length(hd, s) >= 3 /\ FitLength(P, s) < 8
         /\ \/ Queen \in hd[s] /\ Top(hd, s, 4) = 1
            \/ Jack \in hd[s] /\ Top(hd, s, 3) = 0
      THEN -2 ELSE shortHon_adj(hd, s, SHEINW)

SheinwBody(h) == Given(HowMany(h, Ace) >= 3, 1) - Given(HowMany(h, Ace) = 0, 1)

SheinwCounted(P, g) ==
  [g EXCEPT !.fhcp = @ ++ Each(P, LAMBDA h : 4 * TotalPoints(h)),
            !.fadj = @ ++ [h \in Both |-> OverSuits(LAMBDA s : SheinwAdj(P, h, s))],
            !.dpts = @ ++ Each(P, Dpts), !.body = Each(P, SheinwBody)]

SheinwFitted(P, t, g) ==
  IF IsFitted(t)
  THEN [g EXCEPT !.fn[t.decl] = Fn_ptsSHEINW(P, t), !.hf[t.dummy] = Hf_ptsSHEINW(P, t),
                 !.dfit[t.dummy] = DfitSHEINW(P[t.dummy], t)]
  ELSE g

sheinw_calc(P, t, g0) ==
  LET suit(g, pts, dc) ==
        IF IsFitted(t)
        THEN [pts EXCEPT ![1 - dc] = @ - g.dpts[1 - dc] + g.dfit[1 - dc] + g.hf[1 - dc],
                         ![dc] = @ + g.fn[dc]]
        ELSE pts
      tricks == Each(P, LAMBDA h : 50 * OverSuits(LAMBDA s : QuickTricks_suit(h, s)))
      evals(g, pts, dc) ==
        Evaluation(g, [pts EXCEPT ![dc] = @ + g.fn[dc], ![1 - dc] = @ + g.hf[1 - dc]],
                   suit(g, pts ++ g.dpts, dc),
                   Fields(AdjRounded(g) @@ [qtrix |-> tricks],
                          <<"hcp_adj", "body", "hf", "fn", "dpts", "dfit", "qtrix">>))
      declared(g, pts) == evals(g, pts, IF IsFitted(t) THEN t.decl ELSE IF pts[0] >= pts[1] THEN 0 ELSE 1)
      done(g) == declared(SheinwFitted(P, t, g), Rounded(g.fhcp ++ g.fadj) ++ g.body)
  IN  done(SheinwCounted(P, g0))

\* Zar: honours, controls and the lengths of the longest, second and shortest
\* suits; a hand that reaches 25 with four spades counts 26.
ZarDist(h) ==
  LET pairs == {x \in MetricSuits \X MetricSuits : x[1] # x[2]}
      longest == Max({Length(h, s) : s \in MetricSuits})
  IN  longest + Max({Length(h, x[1]) + Length(h, x[2]) : x \in pairs}) - ShortestSuit(h)

zarbasic_calc(P, g0) ==
  LET ctls == Each(P, Controls)
      dist == Each(P, ZarDist)
      spades(pts) == [h \in Both |-> Given(pts[h] = 25 /\ Length(P[h], 3) >= 4, 1)]
      evals(g, pts, extra) ==
        Evaluation(g, pts ++ extra, pts ++ extra,
          Fields([g EXCEPT !.syn = Each(P, SynZAR) ++ extra] @@ [ctls |-> ctls, dist |-> dist],
                 <<"hcp_adj", "ctls", "dist", "syn">>))
      upgraded(g, pts) == evals(g, pts, spades(pts))
      done(g) == upgraded(g, Rounded(g.fhcp ++ g.fadj) ++ ctls ++ dist ++ Each(P, SynZAR))
  IN  done(AdjRounded(BothCounted(P, ZARBAS, g0)))

\* With fits: the points for a second fit always go to the second hand.
zarfull_calc(P, g0, left) ==
  LET fitted(g, t) == [g EXCEPT !.fn[1] = Fn_ptsZar(P, t), !.hf = Hf_ptsZar(P, left[0]),
                                !.dfit = DfitZAR(P, t, SetDeclarer(P, t))]
      evals(b, g) == Evaluation(g, b.nt, b.suit ++ g.hf ++ g.dfit ++ [h \in Both |-> Given(h = 1, g.fn[1])],
                                b.misc \o Fields(g, <<"fn", "hf", "dfit">>))
      done(b) == evals(b, fitted(b.sheet, SetTrumps(P)))
  IN  done(zarbasic_calc(P, g0))

-----------------------------------------------------------------------------
\* Fault: a metric goes on with the length points of the one before.
PrologKeepingLength(g) == [ZeroSheet EXCEPT !.lpts = g.lpts]

\* zero_globals
prolog(g) == ZeroSheet

\* prolog: the hands of the side.
HandsOf(d, side) == [h \in Both |-> d[side + 2 * h]]

\* p_cfunc, for the hands of the side and the trumps they choose.
Metric(m, P, t, g, left) ==
  CASE m = BERGEN  -> bergen_calc(P, t, g)
    [] m = BISSEL  -> bissell_calc(P, g, left)
    [] m = DKP     -> dkp_calc(P, t, g)
    [] m = GOREN   -> goren_calc(P, t, g)
    [] m = JGM1    -> jgm1_calc(P, t, g)
    [] m = KAPLAN  -> kaplan_calc(P, t, g)
    [] m = KARPIN  -> karpin_calc(P, t, g)
    [] m = KNR     -> knr_calc(P, t, g)
    [] m = LAR     -> lar_calc(P, t, g)
    [] m = MORSE   -> morse_calc(P, t, g)
    [] m = PAV     -> pav_calc(P, t, g)
    [] m = SHEINW  -> sheinw_calc(P, t, g)
    [] m = ZARBAS  -> zarbasic_calc(P, g)
    [] m = ZARFULL -> zarfull_calc(P, g, left)

Calc(m, P, g, left) == Metric(m, P, trump_fit_chk(P), g, left)

\* SaveUserVals: the six results of every metric, then its details.
Results(e) == <<SideTotal(e.nt), e.nt[0], e.nt[1], SideTotal(e.suit), e.suit[0], e.suit[1]>> \o e.misc
Saved(a, r) == [i \in Slots |-> IF i < Len(r) THEN r[i + 1] ELSE a[i]]

\* The metrics that a tag runs, one after another over the same area; those of
\* mixed_JGM1calc and mixed_LARcalc, and the ones that are on in set88.
set88 == <<0, 1, 2, 3, 4, 5, 6, 7, 8, 9, 10, 12>>
Runs(m) == CASE m \in 0..13 -> <<m>>
             [] m = 20 -> <<KARPIN, JGM1>>
             [] m = 21 -> <<LAR, MORSE>>
             [] m = SET88 -> set88
             [] OTHER -> <<>>

\* The sheet and the area after the runs, and the area each of them left.
Saves(acc, m, e) ==
  LET left == Saved(acc.area, Results(e))
  IN  [sheet |-> e.sheet, area |-> left,
       after |-> [n \in DOMAIN acc.after \cup {m} |-> IF n = m THEN left ELSE acc.after[n]]]

RunAll(ms, d, side, st, left) ==
  LET save(acc, m) == Saves(acc, m, Calc(m, HandsOf(d, side), prolog(acc.sheet), left))
      run[n \in 0..Len(ms)] == IF n = 0 THEN [sheet |-> st.sheet, area |-> st.area, after |-> <<>>]
                               ELSE save(run[n - 1], ms[n])
  IN  run[Len(ms)]

\* set88_calc: the totals of each; those that are off get the zero that C gives
\* to the rest of an initialiser.
set88_calc(r) ==
  LET slot(m, i) == IF m \in DOMAIN r.after THEN r.after[m][i] ELSE 0
  IN  [i \in Slots |-> CASE i < 20 -> slot(i, 3) [] i \in 32..51 -> slot(i - 32, 0) [] OTHER -> r.area[i]]

\* Fault: the results of the metric that is run first are not kept.
MixedLast(r, first) == r.area

\* mixed_JGM1calc and mixed_LARcalc: the metric that is run second comes first.
MixedCalc(r, first) == [i \in Slots |-> IF i \in 6..11 THEN r.after[first][i - 6] ELSE r.area[i]]

\* make_test_evals: a code for the place of each slot in the detailed results.
make_test_evals ==
  [i \in Slots |->
     CASE i < 16 -> -(i + 1)
       [] i \in 16..31 -> 100 * ((i - 16) \div 4 + 1) + (i % 4)
       [] i \in 32..47 -> 1000 * ((i - 32) \div 8 + 1) + (i % 8)
       [] OTHER -> 1000 * ((i - 48) \div 8 + 1) + 100 * ((i % 8) \div 2 + 1) + (i % 2)]

\* unk_reply, to a tag the switch does not have: the points of north, negated.
UnknownReply(d, a) == Saved(a, [i \in 1..4 |-> -Points(d[0], i - 1)])

\* The letters of the alphabet that userfunc takes for a metric.
Aliases == [c \in {66, 98, 68, 71, 74, 69, 75, 107, 76, 77, 80, 83, 122, 90} |->
  CASE c = 66 -> BERGEN [] c = 98 -> BISSEL [] c = 68 -> DKP [] c = 71 -> GOREN [] c = 74 -> JGM1
    [] c = 69 -> KAPLAN [] c = 75 -> KARPIN [] c = 107 -> KNR [] c = 76 -> LAR [] c = 77 -> MORSE
    [] c = 80 -> PAV [] c = 83 -> SHEINW [] c = 122 -> ZARBAS [] c = 90 -> ZARFULL]

MetricOf(tag) == IF tag \in DOMAIN Aliases THEN Aliases[tag] ELSE tag

\* What the replies leave in the area after the runs.
Answer(m, d, r) ==
  CASE m \in 0..13 -> r.area
    [] m = 20 -> MixedCalc(r, KARPIN)
    [] m = 21 -> MixedCalc(r, LAR)
    [] m = SET88 -> set88_calc(r)
    [] m = TSTALL -> make_test_evals
    [] OTHER -> UnknownReply(d, r.area)

\* Only the test reply clears the sheet without a metric.
Reply(tag, d, side, st, left) ==
  LET m == MetricOf(tag)
      answered(r) == [sheet |-> IF m = TSTALL THEN prolog(r.sheet) ELSE r.sheet, area |-> Answer(m, d, r)]
  IN  answered(RunAll(Runs(m), d, side, st, left))

-----------------------------------------------------------------------------
NoQuery == -2

MetricsInit ==
  /\ deal \in Deals
  /\ sheet = ZeroSheet
  /\ area = [side \in Sides |-> [i \in Slots |-> 0]]
  /\ last = [side \in Sides |-> NoQuery]
  /\ asked = 0

\* userfunc, for any tag but the one that ends the server.
UserFunc(tag, side) ==
  /\ asked < MaxQueries
  /\ \E left \in Leftovers :
       LET answered(r) == /\ sheet' = r.sheet
                          /\ area' = [area EXCEPT ![side] = r.area]
       IN  answered(Reply(tag, deal, side, [sheet |-> sheet, area |-> area[side]], left))
  /\ last' = [last EXCEPT ![side] = tag]
  /\ asked' = asked + 1
  /\ UNCHANGED deal

MetricsNext == \E tag \in Tags, side \in Sides : UserFunc(tag, side)

MetricsSpec == MetricsInit /\ [][MetricsNext]_metricVars
-----------------------------------------------------------------------------
\* What a server that was never asked anything else answers; nothing where the
\* metric writes nothing.
Nothing == -99999
FirstAnswer(tag, side, left) ==
  Reply(tag, deal, side, [sheet |-> ZeroSheet, area |-> [i \in Slots |-> Nothing]], left).area

\* A side's area holds the answer to the last query about that side, whatever
\* was asked before and whatever was asked about the other side in between:
\* no metric reads what another one left in the global work variables.
AnswersAsFirstAsked ==
  \A side \in Sides : last[side] # NoQuery =>
    \E left \in Leftovers :
      LET isIn(a, first) == \A i \in Slots : first[i] # Nothing => a[i] = first[i]
      IN  isIn(area[side], FirstAnswer(last[side], side, left))

\* Tag 88 answers for each metric what the metric answers alone, and tags 20 and
\* 21 give both their metrics in full, although every metric run on the way
\* writes its own results over the area of the side.
SetGivesTheSingles ==
  \A side \in Sides :
    LET a == area[side]
        agrees(m, alone) ==
          /\ last[side] = SET88 => a[m] = alone[4] /\ a[m + 32] = alone[1]
          /\ last[side] \in {20, 21} =>
               \A i \in 0..5 : a[IF m \in {KARPIN, LAR} THEN i + 6 ELSE i] = alone[i + 1]
    IN  last[side] \in {20, 21, SET88} =>
          \A m \in ToSet(Runs(last[side])) :
            agrees(m, Results(Calc(m, HandsOf(deal, side), ZeroSheet, Zeroes)))

\* The metrics that treat the two hands alike: Karpin and JGM1 look dummies up
\* by the index of the hand, Larsson and Morse count nines on, ZarFull gives
\* the second fit to the second hand.
EvenHanded == {BERGEN, BISSEL, DKP, GOREN, KAPLAN, KNR, PAV, SHEINW, ZARBAS}

\* Which of the two hands comes first does not matter: with the hands of a side
\* exchanged, each gets the points it had, unless they are equally strong and
\* the choice of the declarer falls back on the order of the seats.
SeatsTradePlaces ==
  asked = 0 =>
    \A side \in Sides :
      LET P == HandsOf(deal, side)
          traded(e, f) == \A h \in Both : e.nt[h] = f.nt[1 - h] /\ e.suit[h] = f.suit[1 - h]
      IN  TotalPoints(P[0]) # TotalPoints(P[1]) =>
            \A m \in EvenHanded : traded(Calc(m, P, ZeroSheet, Zeroes),
                                        Calc(m, [h \in Both |-> P[1 - h]], ZeroSheet, Zeroes))

\* The order of preference that the comment on trump_fit_chk gives: the longest
\* fit, a major, the more even one, the one with fewer points.
Preference(P, s) ==
  <<FitLength(P, s), IF Major(s) THEN 1 ELSE 0, -Uneven(P, s), -SuitPoints(P, s)>>

\* The suit that is left after the four have been looked at is the best of all
\* by that order; the declarer never has the shorter trumps; and the two copies
\* of the search and of the choice of declarer agree but for equal hands.
TrumpsAreBest ==
  asked = 0 =>
    \A side \in Sides :
      LET P == HandsOf(deal, side)
          t == trump_fit_chk(P)
          fits == {s \in MetricSuits : IsFit(P, s)}
          less(x, y) == \E k \in 1..4 : x[k] < y[k] /\ \A j \in 1..(k - 1) : x[j] = y[j]
      IN  IF fits = {} THEN t.tsuit = NoSuit
          ELSE /\ t.tsuit \in fits
               /\ \A s \in fits : ~less(Preference(P, t.tsuit), Preference(P, s))
               /\ t.tlen[t.decl] >= t.tlen[t.dummy]
               /\ SetDeclarer(P, t.tsuit) # t.decl =>
                    t.tlen[0] = t.tlen[1] /\ TotalPoints(P[0]) = TotalPoints(P[1])

\* The points of Pavlicek for a short suit, as the comment on pav_calc has them:
\* for K, Q, J, KQ, KJ, QJ, Qx and Jx the honours or the shortness count, and
\* for every other holding both.
EitherNotBoth == {<<King>>, <<Queen>>, <<Jack>>, <<King, Queen>>, <<King, Jack>>, <<Queen, Jack>>,
                  <<Queen, Ten>>, <<Queen, Nine>>, <<Jack, Ten>>, <<Jack, Nine>>}

ShortHonoursByTheBook ==
  asked = 0 =>
    \A p \in Seats, s \in MetricSuits :
      LET h == deal[p]
          hcp == Points(h, s)
          dpts == DptsTable(Length(h, s))
          held == IF Length(h, s) = 1 THEN <<Max(h[s])>> ELSE <<OrSpot(Max(h[s])), OrSpot(Min(h[s]))>>
          worth == IF held \in EitherNotBoth THEN Max({hcp, dpts}) ELSE hcp + dpts
      IN  Length(h, s) \in 1..2 => 4 * hcp + shortHon_adj(h, s, PAV) + 4 * dpts = 4 * worth

\* The four Cs, in either program: a higher card of the suit in place of a lower
\* one never makes a hand worth less.  Of a ten that works with two higher cards
\* there are exceptions, a jack for it in five cards or more, and a queen for it
\* in eleven or more: each copy of the many cases, for the length of the suit
\* and the honours above, has to agree with the next.
HigherCardsCountMore ==
  asked = 0 =>
    \A p \in Seats, s \in MetricSuits :
      LET h == deal[p]
          with(lo, hi) == [h EXCEPT ![s] = (@ \ {lo}) \cup {hi}]
      IN  \A lo \in h[s], hi \in CardRanks \ h[s] :
            /\ lo < hi
            /\ lo = Ten /\ hi = Jack => Length(h, s) < 5
            /\ lo = Ten /\ hi = Queen => Length(h, s) < 11
            => /\ eval_cccc(with(lo, hi)) >= eval_cccc(h)
               /\ KnR_pts_all(with(lo, hi)).tot >= KnR_pts_all(h).tot

\* What goren_calc says of its suit points once they are done: shortness, honours
\* less their deductions, body, and what a fit adds.
GorenCountsShortness ==
  \A side \in Sides : last[side] = GOREN =>
    LET P == HandsOf(deal, side)
        details(h) == 6 + 7 * h
        sum(h) == SumFunction([i \in details(h)..(details(h) + 6) |-> area[side][i]])
    IN  IsFitted(trump_fit_chk(P)) => \A h \in Both : area[side][4 + h] = TotalPoints(P[h]) + sum(h)
=============================================================================
