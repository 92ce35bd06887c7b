------------------------------ MODULE MCReports ------------------------------
(* The parts of a run that only compute, each checked alone: a behaviour   *)
(* is one of hand analysis, of scoring (one question), of the reports, or  *)
(* of a script and the deals its condition is evaluated on.                *)
EXTENDS Reports, Expressions

VARIABLE part

MCCards == {0, 1} \X {0, 1, 2, 8, 9, 10, 11, 12}
MCDifferences == {10 * n : n \in -420..420}
MCImpsOnly == {10 * n : n \in 0..130}

MCReportDeals ==
  [expr1 : {0, 1, 2, 3, 7, 8, 9, 10}, expr2 : {-2, 1, 3}, tricks : {10}]
  \cup [expr1 : {2}, expr2 : {1}, tricks : {7, 12, 13}]

\* Buckets as in the comment on fill_bkt_names, and of a size that does not
\* divide the range; a part score, a doubled game and a redoubled slam.
MCScripts == {
  [low1 |-> 2, high1 |-> 8, sz1 |-> 2, low2 |-> 0, high2 |-> 1, sz2 |-> 1,
   coded |-> MakeContract(2, Hearts, 0), vul |-> 1],
  [low1 |-> 1, high1 |-> 8, sz1 |-> 3, low2 |-> -1, high2 |-> 2, sz2 |-> 2,
   coded |-> MakeContract(4, Diamonds, 1), vul |-> 0],
  [low1 |-> 3, high1 |-> 3, sz1 |-> 5, low2 |-> 0, high2 |-> 2, sz2 |-> 3,
   coded |-> MakeContract(6, NT, 2), vul |-> 1]}

InOrder(lines) ==
  [p \in Seats |-> FlattenSeq([s \in 1..4 |-> SetToSeq({<<s - 1, r>> : r \in lines[p + 1][s]})])]

\* A hand a line, its clubs first.  The tricks and par are any that differ.
MCExprDeals == {
  [hands |-> InOrder(<<
     <<{10, 9}, {3, 2, 0}, {12, 11, 4}, {12, 7, 4, 3, 1}>>,
     <<{8, 3, 1, 0}, {12, 9, 4, 1}, {5, 3, 2, 0}, {5}>>,
     <<{12, 7, 6, 4, 2}, {}, {10, 7, 1}, {10, 9, 8, 6, 0}>>,
     <<{11, 5}, {11, 10, 8, 7, 6, 5}, {9, 8, 6}, {11, 2}>>>>),
   tricks |-> [p \in Seats |-> [strain \in Denominations |-> 6 + p + (strain % 2)]], par |-> <<>> @@ (0 :> 420) @@ (1 :> -50)],
  [hands |-> InOrder(<<
     <<{12, 11, 10, 9}, {11, 4, 3}, {12, 7, 2}, {9, 8, 0}>>,
     <<{6, 5, 3}, {9, 1, 0}, {11, 9, 8}, {10, 5, 4, 3}>>,
     <<{2, 1}, {10, 8, 7, 6, 5, 2}, {3, 1, 0}, {11, 7}>>,
     <<{8, 7, 4, 0}, {12}, {10, 6, 5, 4}, {12, 6, 2, 1}>>>>),
   tricks |-> [p \in Seats |-> [strain \in Denominations |-> 9 - p]], par |-> (0 :> -100) @@ (1 :> 0)]}

Hand(op, p)        == Node(op, p, AllSuits, 0, <<>>)
InSuit(op, p, s)   == Node(op, p, s, 0, <<>>)
Count(t, p, s)     == Node("count", p, s, t, <<>>)
Op(op, args)       == Node(op, 0, 0, 0, args)
N(n)               == NumberNode(n)
Ident(n)           == Node("ident", 0, 0, n, <<>>)

MCTrees == {
  <<Count(POINTS, 0, AllSuits), N(9), Op("cmpgt", <<1, 2>>), Node("hascard", 3, 3, 12, <<>>), Op("and2", <<3, 4>>)>>,
  <<Count(POINTS, 1, AllSuits), N(-20), Count(POINTS, 1, 3), Op("ardivide", <<2, 3>>), N(2),
    Op("cmpgt", <<4, 5>>), Op("and2", <<1, 6>>)>>,
  <<Count(POINTS, 3, 3), Count(0, 2, AllSuits), Op("cmple", <<1, 2>>), InSuit("length", 2, 1),
    Count(CONTROLS, 3, AllSuits), Op("armod", <<4, 5>>), Op("or2", <<3, 6>>)>>,
  <<Node("hascard", 1, 1, 12, <<>>), Hand("loser", 1), Hand("cccc", 0), InSuit("quality", 2, 3), Hand("ltc", 2),
    Op("artimes", <<4, 5>>), Op("arplus", <<3, 6>>), Op("if", <<1, 2, 7>>)>>,
  <<InSuit("dds", 2, NT), Node("score", 1, 0, MakeContract(3, NT, 0), <<1>>), Hand("par", 0),
    Op("arminus", <<2, 3>>), Op("imps", <<4>>)>>,
  <<Ident(0), N(4), Op("rnd", <<2>>), Op("cmpne", <<1, 3>>), Op("not", <<4>>), Ident(0), InSuit("loser", 0, 2),
    Op("cmpge", <<6, 7>>), Op("or2", <<5, 8>>)>>,
  <<Hand("par", 1), N(0), Op("cmpeq", <<1, 2>>), Ident(1), InSuit("ltc", 1, 0), Op("cmplt", <<4, 5>>),
    Op("and2", <<3, 6>>)>>}

Element(any, neg, shape) == [any |-> any, neg |-> neg, shape |-> shape]
x == AnyLength

MCStatements ==
  [kind : {"condition"}, tree : MCTrees]
  \cup [kind : {"variable"}, num : {0}, tree : {<<Count(9, 2, AllSuits)>>, <<Ident(1)>>}]
  \cup {[kind |-> "shape", num |-> 1, hand |-> 0, list |-> <<Element(TRUE, FALSE, <<4, 3, 3, 3>>),
                                                           Element(TRUE, FALSE, <<5, x, x, 2>>)>>],
        [kind |-> "shape", num |-> 0, hand |-> 3, list |-> <<Element(FALSE, FALSE, <<x, x, x, 4>>),
                                                           Element(FALSE, TRUE, <<4, 4, 1, 4>>)>>],
        [kind |-> "shape", num |-> 0, hand |-> 1, list |-> <<Element(FALSE, FALSE, <<5, 5, 3, 1>>)>>],
        [kind |-> "pointcount", list |-> <<6, 4, 2, 1>>],
        [kind |-> "altcount", num |-> 0, list |-> <<3, 2>>],
        [kind |-> "altcount", num |-> idxHcp, list |-> [n \in 1..13 |-> n]],
        [kind |-> "altcount", num |-> 9, list |-> [n \in 1..14 |-> 1]]}

Init ==
  /\ part \in {"hand", "score", "report", "script"}
  /\ HandStatInit /\ ScoringInit /\ ReportsInit /\ ExpressionsInit
  /\ part # "report" => script.vul = 0

HandStep   == part = "hand" /\ HandStatNext /\ UNCHANGED <<part, scoringVars, reportVars, exprVars>>
ScoreStep  == part = "score" /\ query[1] = "none" /\ ScoringNext /\ UNCHANGED <<part, handVars, reportVars, exprVars>>
ReportStep == part = "report" /\ ReportsNext /\ UNCHANGED <<part, handVars, scoringVars, exprVars>>
ScriptStep == part = "script" /\ ExpressionsNext /\ UNCHANGED <<part, handVars, scoringVars, reportVars>>

Next == HandStep \/ ScoreStep \/ ReportStep \/ ScriptStep

Spec == Init /\ [][Next]_<<part, handVars, scoringVars, reportVars, exprVars>>
=============================================================================
