------------------------------- MODULE Scoring -------------------------------
(***************************************************************************)
(* Contracts, scores and IMPs (src/src/dealparse_subs.c, make_contract;    *)
(* src/src/dealeval_subs.c, score and imps), as the evaluator asks for     *)
(* them: score(vul, contract, tricks) and imps(difference) of a script.    *)
(*                                                                         *)
(* Beside them the scoring laws of duplicate bridge, in the form the laws  *)
(* have: so much per trick, and premiums.                                  *)
(***************************************************************************)
EXTENDS Integers, Sequences, FiniteSets, Functions

CONSTANT Differences   \* score differences asked of imps()

ASSUME ScoringAssumption == Differences \subseteq Int

VARIABLES
  query,    \* what was asked
  result    \* what was answered

scoringVars == <<query, result>>

Clubs == 0  Diamonds == 1  Hearts == 2  Spades == 3  NT == 4
Denominations == Clubs..NT
Levels  == 1..7
Dbls    == 0..2       \* undoubled, doubled, redoubled
Vuls    == 0..1
Tricks  == 0..13

-----------------------------------------------------------------------------
\* A contract is one number: the doubling in units of 40, the level of 5.
MakeContract(level, strain, dbl) == level * 5 + strain + 40 * dbl

Contracts == {MakeContract(c[1], c[2], c[3]) : c \in Levels \X Denominations \X Dbls}

Dbl(coded)    == coded \div 40
Strain(coded) == (coded % 40) % 5
Level(coded)  == (coded % 40) \div 5

TrickScore(strain, tricks) ==
  (IF strain >= Hearts THEN 30 ELSE 20) * (tricks - 6) + (IF strain = NT THEN 10 ELSE 0)

GameLevel(strain) ==
  CASE strain = NT -> 3
    [] strain \in {Hearts, Spades} -> 4
    [] OTHER -> 5

SlamBonus(level, vul) ==
  CASE level = 6 -> 500 + 250 * vul
    [] level = 7 -> 1000 + 500 * vul
    [] OTHER -> 0

\* undbled_score
UndbledScore(vul, strain, level, tricks) ==
  IF tricks < 6 + level
  THEN -50 * (1 + vul) * (6 + level - tricks)
  ELSE TrickScore(strain, tricks) + 50
       + (IF level >= GameLevel(strain) THEN 250 + 200 * vul ELSE 0)
       + SlamBonus(level, vul)

Undertricks(utricks, vul, dbl) ==
  -dbl * (IF vul = 1 THEN 300 * utricks - 100
          ELSE IF utricks <= 3 THEN 200 * utricks - 100
          ELSE 300 * utricks - 400)

\* Fault: the game bonus is given by the level, as without a double.
DbledMakingByLevel(dbl, vul, strain, ctricks) ==
  LET t0 == TrickScore(strain, ctricks) * (IF dbl = 1 THEN 2 ELSE 4)
  IN  t0 + (IF ctricks - 6 >= GameLevel(strain) THEN 300 + 200 * vul ELSE 50)
      + 50 * dbl + SlamBonus(ctricks - 6, vul)

DbledMaking(dbl, vul, strain, ctricks) ==
  LET t0 == TrickScore(strain, ctricks) * (IF dbl = 1 THEN 2 ELSE 4)
  IN  t0 + (IF t0 >= 100 THEN 300 + 200 * vul ELSE 50)
      + 50 * dbl + SlamBonus(ctricks - 6, vul)

Score(vul, coded, tricks) ==
  LET dbl == Dbl(coded)  strain == Strain(coded)  level == Level(coded)
      ctricks == 6 + level
  IN  CASE dbl = 0 -> UndbledScore(vul, strain, level, tricks)
        [] dbl > 0 /\ ctricks > tricks -> Undertricks(ctricks - tricks, vul, dbl)
        [] OTHER -> DbledMaking(dbl, vul, strain, ctricks)
                    + (tricks - ctricks) * 100 * (1 + vul) * dbl

Abs(n) == IF n < 0 THEN -n ELSE n

imp_tbl == <<10, 40, 80, 120, 160, 210, 260, 310, 360, 410, 490, 590, 740, 890,
             1090, 1190, 1490, 1740, 1990, 2240, 2490, 2990, 3490, 3990>>

\* The first row that reaches the difference, counted from 0; 24 past the end.
ImpRow(j) == Cardinality({i \in DOMAIN imp_tbl : imp_tbl[i] < j})

Imps(scorediff) == IF scorediff < 0 THEN -ImpRow(Abs(scorediff)) ELSE ImpRow(Abs(scorediff))

-----------------------------------------------------------------------------
ScoringInit == query = <<"none">> /\ result = 0

\* TRT_SCORE
AskScore(vul, level, strain, dbl, tricks) ==
  /\ query' = <<"score", vul, level, strain, dbl, tricks>>
  /\ result' = Score(vul, MakeContract(level, strain, dbl), tricks)

\* TRT_IMPS
AskImps(scorediff) ==
  /\ query' = <<"imps", scorediff>>
  /\ result' = Imps(scorediff)

ScoringNext ==
  \/ \E vul \in Vuls, level \in Levels, strain \in Denominations, dbl \in Dbls, tricks \in Tricks :
       AskScore(vul, level, strain, dbl, tricks)
  \/ \E d \in Differences : AskImps(d)

ScoringSpec == ScoringInit /\ [][ScoringNext]_scoringVars

-----------------------------------------------------------------------------
(* The laws.                                                               *)
OddTrick(strain, n) == IF strain \in {Clubs, Diamonds} THEN 20
                       ELSE IF strain = NT /\ n = 1 THEN 40 ELSE 30

LawPenalty(dbl, vul, n) ==
  IF dbl = 0 THEN 50 * (1 + vul)
  ELSE dbl * (CASE n = 1 -> 100 * (1 + vul)
                [] n \in {2, 3} -> 200 + 100 * vul
                [] OTHER -> 300)

LawExtra(strain, dbl, vul, n) == IF dbl = 0 THEN OddTrick(strain, n) ELSE 100 * dbl * (1 + vul)

\* The tricks bid and made, those made beyond the level, and those missing.
LawBid(strain, level)              == SumFunction([n \in 1..level |-> OddTrick(strain, n)])
LawOver(strain, dbl, vul, level, made) ==
  SumFunction([n \in level + 1..made |-> LawExtra(strain, dbl, vul, n)])
LawDown(dbl, vul, down)            == SumFunction([n \in 1..down |-> LawPenalty(dbl, vul, n)])

LawScore(vul, level, strain, dbl, tricks) ==
  LET bid == <<1, 2, 4>>[dbl + 1] * LawBid(strain, level)
  IN  IF tricks < 6 + level
      THEN -LawDown(dbl, vul, 6 + level - tricks)
      ELSE bid
           + LawOver(strain, dbl, vul, level, tricks - 6)
           + (IF bid < 100 THEN 50 ELSE IF vul = 1 THEN 500 ELSE 300)
           + (CASE level = 6 -> IF vul = 1 THEN 750 ELSE 500
                [] level = 7 -> IF vul = 1 THEN 1500 ELSE 1000
                [] OTHER -> 0)
           + 50 * dbl

\* The least difference of each row of the IMP table of the laws.
LawImpRows == <<20, 50, 90, 130, 170, 220, 270, 320, 370, 430, 500, 600, 750, 900,
                1100, 1300, 1500, 1750, 2000, 2250, 2500, 3000, 3500, 4000>>

LawImps(d) == (IF d < 0 THEN -1 ELSE 1) * Cardinality({i \in DOMAIN LawImpRows : LawImpRows[i] <= Abs(d)})

\* score() is what the laws of duplicate bridge give, for every contract,
\* doubled or not, vulnerable or not, and any number of tricks: a coded
\* contract is decoded to the one it was made of, and premiums, over- and
\* undertricks are those of the laws.  So is imps() of a difference that scores
\* can have, a multiple of ten, but for 420 and 1200 to 1290 points: two rows of
\* the table are wrong.
ScoringIsLawful ==
  /\ query[1] = "score" =>
       result = LawScore(query[2], query[3], query[4], query[5], query[6])
  /\ query[1] = "imps" /\ query[2] % 10 = 0 /\ Abs(query[2]) \notin {420} \cup 1200..1290 =>
       result = LawImps(query[2])

\* User guide, imps(): "Translates a score-difference into IMPs
\* (International Match Points)".
ImpsAreLawful == query[1] = "imps" => result = LawImps(query[2])
=============================================================================
