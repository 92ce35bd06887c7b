------------------------------- MODULE Reports -------------------------------
(***************************************************************************)
(* The actions that report at the end of a run (src/src/dealaction_subs.c, *)
(* src/src/deal_bktfreq_subs.c): average, frequency and bktfreq, of one    *)
(* and of two expressions, and evalcontract.  The script has one of each,  *)
(* over the same expressions.  A deal that meets the condition is the      *)
(* values of the two expressions and the tricks of the contract on it.     *)
(***************************************************************************)
EXTENDS Scoring, Functions

CONSTANTS
  ReportDeals,   \* deals: records of expr1, expr2 and tricks
  Scripts,       \* the bounds and the contract of the actions
  MaxProduce     \* the deals produced

ASSUME ReportsAssumption ==
  /\ IsFiniteSet(ReportDeals)
  /\ \A d \in ReportDeals : d.expr1 \in Int /\ d.expr2 \in Int /\ d.tricks \in Tricks
  /\ \A sc \in Scripts : /\ {sc.low1, sc.high1, sc.low2, sc.high2} \subseteq Int
                         /\ {sc.sz1, sc.sz2} \subseteq Nat \ {0}
                         /\ sc.low1 <= sc.high1 /\ sc.low2 <= sc.high2
                         /\ sc.coded \in Contracts /\ sc.vul \in Vuls
  /\ MaxProduce \in Nat

VARIABLES
  script,    \* [low1, high1, sz1, low2, high2, sz2, coded, vul]
  nprod,     \* deals produced
  average,   \* acuavg: count, sum, sqsum
  freq,      \* acu_f: uflow, oflow, freqs
  freq2D,    \* acu_f2d: counters in rows, one after another
  bkt1D,     \* acu_bf
  bkt2D,     \* acu_bf2d
  trix,      \* acucontract.trix
  actedOn    \* history: how often each deal was acted on

reportVars == <<script, nprod, average, freq, freq2D, bkt1D, bkt2D, trix, actedOn>>

-----------------------------------------------------------------------------
(* The tables.  A frequency counts single values, a bktfreq counts         *)
(* buckets of a size; both have a counter below and one above.             *)
FreqCols(low, high)   == high - low + 3
BktNum(low, high, sz) == 3 + (high - low) \div sz
BktName(low, sz, i)   == low + (i - 1) * sz

\* Where ACT_FREQUENCY2D counts a value.
FreqIndex(val, low, high) ==
  IF val > high THEN high - low + 2 ELSE IF val - low + 1 < 0 THEN 0 ELSE val - low + 1

\* upd_bkt1D
BktId1D(val, low, high, sz) ==
  LET num == BktNum(low, high, sz)
  IN  IF val < low THEN 0 ELSE IF val >= low + (num - 2) * sz THEN num - 1 ELSE 1 + (val - low) \div sz

\* find_bkt_id, of the two dimensional table: overflow is tested one bucket later.
FindBktId(val, low, high, sz) ==
  LET oflow == BktNum(low, high, sz) - 1
  IN  IF val < low THEN 0 ELSE IF val >= low + oflow * sz THEN oflow ELSE 1 + (val - low) \div sz

Counted(counters, i) == [counters EXCEPT ![i] = @ + 1]
Zeros(n)             == [i \in 0..n - 1 |-> 0]

\* Fault: a value at the upper bound is counted as above it.
FreqCountedOpen(f, val, low, high) ==
  IF val < low THEN [f EXCEPT !.uflow = @ + 1]
  ELSE IF val >= high THEN [f EXCEPT !.oflow = @ + 1]
  ELSE [f EXCEPT !.freqs = Counted(@, val - low)]

\* ACT_FREQUENCY
FreqCounted(f, val, low, high) ==
  IF val < low THEN [f EXCEPT !.uflow = @ + 1]
  ELSE IF val > high THEN [f EXCEPT !.oflow = @ + 1]
  ELSE [f EXCEPT !.freqs = Counted(@, val - low)]

-----------------------------------------------------------------------------
\* newaction and setup_action
ReportsInit ==
  /\ script \in Scripts
  /\ nprod = 0
  /\ average = [count |-> 0, sum |-> 0, sqsum |-> 0]
  /\ freq = [uflow |-> 0, oflow |-> 0, freqs |-> Zeros(script.high1 - script.low1 + 1)]
  /\ freq2D = Zeros(FreqCols(script.low1, script.high1) * FreqCols(script.low2, script.high2))
  /\ bkt1D = Zeros(BktNum(script.low1, script.high1, script.sz1))
  /\ bkt2D = Zeros(BktNum(script.low1, script.high1, script.sz1)
                   * BktNum(script.low2, script.high2, script.sz2))
  /\ trix = Zeros(14)
  /\ actedOn = [d \in ReportDeals |-> 0]

\* action(), for a deal that met the condition.
ActOn(d) ==
  LET sc    == script
      cols  == FreqCols(sc.low2, sc.high2)
      a_num == BktNum(sc.low2, sc.high2, sc.sz2)
  IN  /\ nprod < MaxProduce
      /\ nprod' = nprod + 1
      /\ average' = [count |-> average.count + 1, sum |-> average.sum + d.expr1,
                     sqsum |-> average.sqsum + d.expr1 * d.expr1]
      /\ freq' = FreqCounted(freq, d.expr1, sc.low1, sc.high1)
      /\ freq2D' = Counted(freq2D, cols * FreqIndex(d.expr1, sc.low1, sc.high1)
                                   + FreqIndex(d.expr2, sc.low2, sc.high2))
      /\ bkt1D' = Counted(bkt1D, BktId1D(d.expr1, sc.low1, sc.high1, sc.sz1))
      /\ bkt2D' = Counted(bkt2D, FindBktId(d.expr1, sc.low1, sc.high1, sc.sz1) * a_num
                                 + FindBktId(d.expr2, sc.low2, sc.high2, sc.sz2))
      /\ trix' = Counted(trix, d.tricks)
      /\ actedOn' = Counted(actedOn, d)
      /\ UNCHANGED script

ReportsNext == \E d \in ReportDeals : ActOn(d)

ReportsSpec == ReportsInit /\ [][ReportsNext]_reportVars

-----------------------------------------------------------------------------
(* What is printed at the end of the run.                                  *)
Total(f) == SumFunction(f)

\* Fault: the total cleared before each row is the last one.
ColTotalsCleared(counters, rows, cols) ==
  LET after[r \in 0..rows] ==
        [c \in 0..cols - 1 |->
          IF r = 0 THEN 0
          ELSE (IF c = cols - 1 THEN 0 ELSE after[r - 1][c]) + counters[(r - 1) * cols + c]]
  IN  after[rows]

\* The totals of the columns as show_freq2D keeps them, after each row.
\* Before each row it clears the total that c is at: the last one before the
\* first row, and after that one past the end, which is not a total.
ColTotals(counters, rows, cols) ==
  LET cleared(r) == IF r = 1 THEN cols - 1 ELSE cols
      after[r \in 0..rows] ==
        [c \in 0..cols - 1 |->
          IF r = 0 THEN 0
          ELSE (IF c = cleared(r) THEN 0 ELSE after[r - 1][c]) + counters[(r - 1) * cols + c]]
  IN  after[rows]

RowTotal(counters, cols, r) == Total([c \in 0..cols - 1 |-> counters[r * cols + c]])

\* Fault: the score of a doubled contract is that of the contract undoubled.
ContractScoreUndoubled(tricks) ==
  UndbledScore(script.vul, Strain(script.coded), Level(script.coded), tricks)

\* showevalcontract: the score of the contract for each number of tricks.
ContractScore(tricks) ==
  IF Dbl(script.coded) = 0
  THEN UndbledScore(script.vul, Strain(script.coded), Level(script.coded), tricks)
  ELSE Score(script.vul, script.coded, tricks)

ScoreTotal == Total([t \in Tricks |-> ContractScore(t) * trix[t]])
Successes  == Total([t \in {n \in Tricks : ContractScore(n) > 0} |-> trix[t]])
Failures   == Total([t \in {n \in Tricks : ContractScore(n) < 0} |-> trix[t]])

MissedGames ==
  LET s == Strain(script.coded)
  IN  IF Level(script.coded) < GameLevel(s)
      THEN Total([t \in {n \in Tricks : n >= GameLevel(s) + 6} |-> trix[t]])
      ELSE 0

MissedGameImps ==
  LET s == Strain(script.coded)  l == Level(script.coded)
      missed(t) == Imps(UndbledScore(script.vul, s, GameLevel(s), t) - UndbledScore(script.vul, s, l, t))
  IN  IF l < GameLevel(s)
      THEN Total([t \in {n \in Tricks : n >= GameLevel(s) + 6} |-> trix[t] * missed(t)])
      ELSE 0

MissedSlamImps ==
  LET s == Strain(script.coded)  l == Level(script.coded)
      missed(level) == Imps(UndbledScore(script.vul, s, level, 6 + level)
                            - UndbledScore(script.vul, s, l, 6 + level))
  IN  IF l < 6 THEN trix[12] * missed(6) + trix[13] * missed(7) ELSE 0

-----------------------------------------------------------------------------
Counters(n)            == [0..n - 1 -> Nat]
FreqTable(low, high)   == [uflow : Nat, oflow : Nat, freqs : Counters(high - low + 1)]
CellTables(rows, cols) == Counters(rows * cols)

\* Every counter is one of its table.
ReportsTypeOK ==
  LET num1 == BktNum(script.low1, script.high1, script.sz1)
      num2 == BktNum(script.low2, script.high2, script.sz2)
  IN  /\ script \in Scripts /\ nprod \in 0..MaxProduce
      /\ average \in [count : Nat, sum : Int, sqsum : Int]
      /\ freq \in FreqTable(script.low1, script.high1)
      /\ freq2D \in CellTables(FreqCols(script.low1, script.high1), FreqCols(script.low2, script.high2))
      /\ bkt1D \in Counters(num1) /\ bkt2D \in CellTables(num1, num2)
      /\ trix \in Counters(14)
      /\ actedOn \in [ReportDeals -> Nat]

\* How many of the deals acted on are such.
ActedOn(P(_)) == SumFunctionOnSet(actedOn, {d \in ReportDeals : P(d)})

\* No deal is lost or counted twice by any action of the list, whatever
\* bounds it has.  A counter holds the deals whose value is the one it is printed
\* beside: from the name of the bucket on and below that of the next.
CountedWhereItBelongs ==
  LET low == script.low1  high == script.high1  sz == script.sz1
      last == BktNum(low, high, sz) - 1
  IN  /\ \A n \in {average.count, freq.uflow + freq.oflow + Total(freq.freqs),
                   Total(freq2D), Total(bkt1D), Total(bkt2D), Total(trix)} : n = Total(actedOn)
      /\ \A v \in low..high : freq.freqs[v - low] = ActedOn(LAMBDA d : d.expr1 = v)
      /\ freq.uflow = ActedOn(LAMBDA d : d.expr1 < low)
      /\ freq.oflow = ActedOn(LAMBDA d : d.expr1 > high)
      /\ \A i \in 1..last - 1 :
           bkt1D[i] = ActedOn(LAMBDA d : BktName(low, sz, i) <= d.expr1
                                         /\ d.expr1 < BktName(low, sz, i + 1))
      /\ bkt1D[0] = ActedOn(LAMBDA d : d.expr1 < low)
      /\ bkt1D[last] = ActedOn(LAMBDA d : d.expr1 >= BktName(low, sz, last))

\* The two dimensional tables sum up to the tables of one expression, though
\* the code finds the counters another way, and the totals that show_freq2D
\* prints are theirs ("CANT HAPPEN: Row Grand Total is NOT EQUAL to Col Grand
\* Total").
TablesAgree ==
  LET rows == FreqCols(script.low1, script.high1)
      cols == FreqCols(script.low2, script.high2)
      a_num == BktNum(script.low2, script.high2, script.sz2)
      d_num == BktNum(script.low1, script.high1, script.sz1)
      totals == ColTotals(bkt2D, d_num, a_num)
  IN  /\ \A c \in 0..a_num - 1 : totals[c] = Total([r \in 0..d_num - 1 |-> bkt2D[r * a_num + c]])
      /\ Total(totals) = Total([r \in 0..d_num - 1 |-> RowTotal(bkt2D, a_num, r)])
      /\ RowTotal(freq2D, cols, 0) = freq.uflow
      /\ RowTotal(freq2D, cols, rows - 1) = freq.oflow
      /\ \A r \in 1..rows - 2 : RowTotal(freq2D, cols, r) = freq.freqs[r - 1]
      /\ \A r \in DOMAIN bkt1D : RowTotal(bkt2D, a_num, r) = bkt1D[r]

LawfulScore(d) ==
  LawScore(script.vul, Level(script.coded), Strain(script.coded), Dbl(script.coded), d.tricks)

\* "There is no such thing as a score of zero in bridge!": a contract is made
\* or fails on each deal, it is made with the tricks it needs, and the total
\* is that of the laws; a game or slam missed is a loss of an IMP or more.
MadeOrFailed ==
  LET level == Level(script.coded)
  IN  /\ Successes + Failures = nprod
      /\ Successes = ActedOn(LAMBDA d : d.tricks >= 6 + level)
      /\ ScoreTotal = Total([d \in ReportDeals |-> LawfulScore(d) * actedOn[d]])
      /\ MissedGameImps >= MissedGames
      /\ level < 6 => MissedSlamImps >= trix[12] + trix[13]
=============================================================================
