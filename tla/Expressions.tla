----------------------------- MODULE Expressions -----------------------------
(***************************************************************************)
(* From a script to the value of its condition on a deal: what the parser  *)
(* keeps of the statements (src/src/dealyacc.y, src/src/dealparse_subs.c), *)
(* the analysis of the hands it saw mentioned (analyze), and the walk over *)
(* the tree (evaltree, both in src/src/dealeval_subs.c).                   *)
(*                                                                         *)
(* The tree of a statement is the sequence of its nodes, each after its    *)
(* operands, as newtree makes them; an operand is named by its place.  All *)
(* trees lie in one sequence, nodes, and a pointer is a place in it.  The  *)
(* solvers and the server answer for the deal (DealResults), so a deal     *)
(* comes with its tricks and par.                                          *)
(***************************************************************************)
EXTENDS HandStat, Scoring, SequencesExt

CONSTANTS
  ExprDeals,      \* deals: hands (seat to cards), tricks (seat, strain), par (side)
  Statements,     \* the statements of scripts: records of their kind
  MaxStatements,  \* bound: statements of a script
  MaxShapes       \* shape() lists that a script may not reach, 32 in the code

Seats == 0..3
Partnerships == 0..1
AllSuits == 4       \* where a suit may stand: the whole hand
AnyLength == -1     \* the x of a shape
NoDeal == [hands |-> <<>>]

\* Nodes: newtree, with the hand or side, the suit, and a number that it is about.
Node(op, hnd, suit, num, args) == [op |-> op, hand |-> hnd, suit |-> suit, num |-> num, args |-> args]
NumberNode(n) == Node("number", 0, 0, n, <<>>)

\* The nodes without operands, but for the name of a variable.
Leaves == {"number", "length", "count", "loser", "ltc", "shape", "hascard", "cccc", "quality", "dds", "par"}

IsTree(tree) ==
  /\ tree # <<>> /\ tree \in Seq(Range(tree))
  /\ \A i \in 1..Len(tree) :
       LET t == tree[i]
       IN  /\ t = Node(t.op, t.hand, t.suit, t.num, t.args)
           /\ t.hand \in Seats /\ t.args \in Seq(1..(i - 1))
           /\ t.op # "shape"     \* a statement of its own
           /\ t.op = "ident" => t.args = <<>>
           /\ t.args = <<>> => t.op \in Leaves \cup {"ident"}

ASSUME ExpressionsAssumption ==
  /\ \A d \in ExprDeals :
       /\ DOMAIN d.hands = Seats
       /\ \A p \in Seats : /\ d.hands[p] \in Seq(CardSuits \X Ranks) /\ Len(d.hands[p]) = 13
                           /\ \A i, j \in 1..13 : d.hands[p][i] = d.hands[p][j] => i = j
  /\ \A st \in Statements :
       /\ st.kind \in {"condition", "variable"} => IsTree(st.tree)
       /\ st.kind = "shape" => st.hand \in Seats /\ st.list \in Seq(Range(st.list))
       /\ st.kind \in {"pointcount", "altcount"} => st.list \in Seq(Int)
       /\ st.kind = "altcount" => st.num \in 0..idxHcp
  /\ MaxStatements \in Nat /\ MaxShapes \in Nat

VARIABLES
  read,         \* history: the statements read
  stage,        \* "parsing", "running" or "stopped"
  tables,       \* points, tblPointcount and the table of controls
  nodes,        \* the nodes newtree made
  vars,         \* the variables of the script: number to the root of a tree
  distr,        \* distrbitmaps: for each shape number the lengths that have its bit
  use_compass,  \* the hands to analyse
  use_side,     \* the sides to analyse
  decisiontree,
  curdeal,
  handstat,     \* the global array of handstat, one a seat
  drawn,        \* history: what rnd() drew on this deal, in quarters
  interesting   \* the value of the condition on this deal: <<v>>, or <<>> if that ended the run

exprVars == <<read, stage, tables, nodes, vars, distr, use_compass, use_side, decisiontree, curdeal,
              handstat, drawn, interesting>>

C4 == INSTANCE Knr
Given(c, v) == IF c THEN v ELSE 0

-----------------------------------------------------------------------------
\* What the grammar calls a compass, and a side: the others name no hand, or
\* like hascard a seat that is not marked.
ByCompass == {"length", "count", "loser", "ltc", "cccc", "quality", "shape", "dds"}
BySide    == {"par"}

Compasses(tree) == {tree[i].hand : i \in {j \in 1..Len(tree) : tree[j].op \in ByCompass}}
SidesOf(tree)   == {tree[i].hand : i \in {j \in 1..Len(tree) : tree[j].op \in BySide}}
Idents(tree)    == {tree[i].num : i \in {j \in 1..Len(tree) : tree[j].op = "ident"}}

-----------------------------------------------------------------------------
(* Shapes.  An element of a list is four lengths, spades first, to be set   *)
(* or after a minus cleared, as they stand or in any order.                 *)
Lengths(cards) == [s \in CardSuits |-> Cardinality(RanksOf(cards, s))]
HandLengths == {Lengths(ToSet(d.hands[p])) : d \in ExprDeals, p \in Seats}

BadShape(el) ==
  LET known == SumFunction([i \in 1..4 |-> Given(el.shape[i] # AnyLength, el.shape[i])])
  IN  IF \E i \in 1..4 : el.shape[i] = AnyLength THEN known > 13 ELSE known # 13

Fits(el, l) ==
  \E perm \in IF el.any THEN Permutations(1..4) ELSE {[i \in 1..4 |-> i]} :
    \A i \in 1..4 : el.shape[perm[i]] \in {AnyLength, l[4 - i]}

\* insertshape and setshapebit, for each element of a list in turn.
InsertShape(set, el) ==
  LET these == {l \in HandLengths : Fits(el, l)}
  IN  IF el.neg THEN set \ these ELSE set \cup these

Inserted(list) ==
  LET upto[n \in 0..Len(list)] == IF n = 0 THEN {} ELSE InsertShape(upto[n - 1], list[n])
  IN  upto[Len(list)]

-----------------------------------------------------------------------------
\* The statements.
Stop ==
  stage' = "stopped" /\ UNCHANGED <<tables, nodes, vars, distr, use_compass, use_side, decisiontree>>

\* A tree takes the places after those there are.  The name of a variable
\* stands for the root of its tree: var_lookup.
Operands(t) == IF t.op = "ident" THEN <<vars[t.num]>> ELSE [j \in 1..Len(t.args) |-> Len(nodes) + t.args[j]]
Grown(tree) == nodes \o [i \in 1..Len(tree) |-> [tree[i] EXCEPT !.args = Operands(tree[i])]]

Marked(tree) ==
  /\ use_compass' = [p \in Seats |-> use_compass[p] \/ p \in Compasses(tree)]
  /\ use_side' = [s \in Partnerships |-> use_side[s] \/ s \in SidesOf(tree)]

Known(tree) == Idents(tree) \subseteq DOMAIN vars

\* The last condition is the one that counts.
ReadCondition(st) ==
  IF Known(st.tree)
  THEN /\ Marked(st.tree) /\ nodes' = Grown(st.tree) /\ decisiontree' = Len(nodes')
       /\ UNCHANGED <<stage, tables, vars, distr>>
  ELSE Stop

\* new_var
Define(name, tree) ==
  /\ Marked(tree) /\ nodes' = Grown(tree)
  /\ vars' = [n \in DOMAIN vars \cup {name} |-> IF n = name THEN Len(nodes') ELSE vars[n]]

ReadVariable(st) ==
  IF Known(st.tree) /\ st.num \notin DOMAIN vars
  THEN Define(st.num, st.tree) /\ UNCHANGED <<stage, tables, distr, decisiontree>>
  ELSE Stop

\* A variable that is one shape(), whose list gets the next bit.
ShapeNode(st, n) == Node("shape", st.hand, 0, n, <<>>)

ReadShape(st) ==
  IF \/ \E i \in 1..Len(st.list) : BadShape(st.list[i])
     \/ Len(distr) + 1 >= MaxShapes \/ st.num \in DOMAIN vars
  THEN Stop
  ELSE /\ distr' = Append(distr, Inserted(st.list))
       /\ Define(st.num, <<ShapeNode(st, Len(distr))>>)
       /\ UNCHANGED <<stage, tables, decisiontree>>

\* The values of a table from the ace down, the rest zero.
TableOf(list) == [r \in Ranks |-> IF 13 - r <= Len(list) THEN list[13 - r] ELSE 0]

\* clearpointcount and pointcount, the points and their copy.
Pointcount(st) == [tables EXCEPT ![POINTS] = TableOf(st.list), ![idxHcp] = TableOf(st.list)]

\* clearpointcount_alt and pointcount
Altcount(st) == [tables EXCEPT ![st.num] = TableOf(st.list)]

ReadCounts(st) ==
  IF Len(st.list) > 13 THEN Stop
  ELSE /\ tables' = IF st.kind = "pointcount" THEN Pointcount(st) ELSE Altcount(st)
       /\ UNCHANGED <<stage, nodes, vars, distr, use_compass, use_side, decisiontree>>

ReadScript(st) ==
  /\ stage = "parsing" /\ Len(read) < MaxStatements
  /\ read' = Append(read, st)
  /\ \/ st.kind = "condition" /\ ReadCondition(st)
     \/ st.kind = "variable" /\ ReadVariable(st)
     \/ st.kind = "shape" /\ ReadShape(st)
     \/ st.kind \in {"pointcount", "altcount"} /\ ReadCounts(st)
  /\ UNCHANGED <<curdeal, handstat, drawn, interesting>>

\* finalize_options: a side is both its hands.
FinalizeSides == use_compass' = [p \in Seats |-> use_compass[p] \/ use_side[p % 2]]

\* init_runtime: points, which hcp counts with, follows the table that both
\* pointcount and altcount may have set.
SyncPoints == tables' = [tables EXCEPT ![POINTS] = tables[idxHcp]]

\* From the script to the first deal.
BeginRun ==
  /\ stage = "parsing"
  /\ stage' = "running"
  /\ FinalizeSides /\ SyncPoints
  /\ UNCHANGED <<read, nodes, vars, distr, use_side, decisiontree, curdeal, handstat, drawn, interesting>>

-----------------------------------------------------------------------------
\* fill_Has_card, of one hand.
HasCards(cards) == [s \in CardSuits |-> {cards[i][2] : i \in {j \in 1..Len(cards) : cards[j][1] = s}}]

\* The loop over the cards of a hand.
HandCounts(cards) ==
  LET upto[n \in 0..Len(cards)] ==
        IF n = 0 THEN Cleared(tables) ELSE WithCard(upto[n - 1], cards[n][1], cards[n][2], tables)
  IN  upto[Len(cards)]

Bits(l) == {n \in 0..Len(distr) - 1 : l \in distr[n + 1]}

\* One hand: a hand nobody mentioned keeps its counts of an earlier deal.
Analyzed(p, cards) ==
  LET counts == WithLtc(HandCounts(cards))
  IN  IF use_compass[p]
      THEN [counts |-> counts, bits |-> Bits(counts.length), Has_card |-> HasCards(cards)]
      ELSE [handstat[p] EXCEPT !.Has_card = HasCards(cards)]

\* Fault: a hand nobody mentioned keeps its cards as well.
AnalyzeMentioned(d) ==
  [p \in Seats |-> IF use_compass[p] THEN Analyzed(p, d.hands[p]) ELSE handstat[p]]

analyze(d) == [p \in Seats |-> Analyzed(p, d.hands[p])]

-----------------------------------------------------------------------------
Dead == <<>>        \* a division by zero ends the run

OfSuit(inSuits, total, suit) == IF suit = AllSuits THEN total ELSE inSuits[suit]

\* A node without operands.
Leaf(t, hss, d) ==
  LET h == hss[t.hand]
      c == h.counts
  IN  CASE t.op = "number"  -> t.num
        [] t.op = "length"  -> c.length[t.suit]
        [] t.op = "count"   -> OfSuit(c.counts[t.num], c.totalcounts[t.num], t.suit)
        [] t.op = "loser"   -> OfSuit(c.loser, c.totalloser, t.suit)
        [] t.op = "ltc"     -> OfSuit(c.ltc, c.totalltc, t.suit)
        [] t.op = "shape"   -> Given(t.num \in h.bits, 1)
        [] t.op = "hascard" -> Given(t.num \in h.Has_card[t.suit], 1)
        [] t.op = "cccc"    -> C4!eval_cccc(h.Has_card)
        [] t.op = "quality" -> C4!suit_quality(h.Has_card[t.suit])
        [] t.op = "dds"     -> d.tricks[t.hand][t.suit]
        [] t.op = "par"     -> d.par[t.hand]

\* C's division, towards zero.
Quotient(a, b) == (IF (a < 0) # (b < 0) THEN -1 ELSE 1) * (Abs(a) \div Abs(b))

\* The operators that need both operands.
Binary(op, a, b) ==
  CASE op = "arplus"  -> <<a + b>>
    [] op = "arminus" -> <<a - b>>
    [] op = "artimes" -> <<a * b>>
    [] op = "ardivide" -> IF b = 0 THEN Dead ELSE <<Quotient(a, b)>>
    [] op = "armod"   -> IF b = 0 THEN Dead ELSE <<a - b * Quotient(a, b)>>
    [] op = "cmpeq"   -> <<Given(a = b, 1)>>
    [] op = "cmpne"   -> <<Given(a # b, 1)>>
    [] op = "cmplt"   -> <<Given(a < b, 1)>>
    [] op = "cmple"   -> <<Given(a <= b, 1)>>
    [] op = "cmpgt"   -> <<Given(a > b, 1)>>
    [] op = "cmpge"   -> <<Given(a >= b, 1)>>

\* The operators of one operand; score is of a vulnerability and a contract.
Unary(t, a, draw) ==
  CASE t.op = "not"   -> Given(a = 0, 1)
    [] t.op = "score" -> Score(t.hand, t.num, a)
    [] t.op = "imps"  -> Imps(a)
    [] t.op = "rnd"   -> Quotient(a * draw, 4)

\* The value of a node, val those of its operands: the second and third are
\* asked for when the first does not decide.
Walk(t, val, hss, d, draw) ==
  LET truth(v) == IF v = Dead THEN Dead ELSE <<Given(v[1] # 0, 1)>>
  IN  IF t.op = "ident" THEN val[1]
      ELSE IF t.args = <<>> THEN <<Leaf(t, hss, d)>>
      ELSE IF val[1] = Dead THEN Dead
      ELSE CASE t.op = "and2" -> IF val[1][1] = 0 THEN <<0>> ELSE truth(val[2])
             [] t.op = "or2"  -> IF val[1][1] # 0 THEN <<1>> ELSE truth(val[2])
             [] t.op = "if"   -> IF val[1][1] # 0 THEN val[2] ELSE val[3]
             [] Len(t.args) = 1 -> <<Unary(t, val[1][1], draw)>>
             [] OTHER -> IF val[2] = Dead THEN Dead ELSE Binary(t.op, val[1][1], val[2][1])

evaltree(root, hss, d, draw) ==
  LET value[i \in 1..Len(nodes)] ==
        Walk(nodes[i], [j \in 1..Len(nodes[i].args) |-> value[nodes[i].args[j]]], hss, d, draw)
  IN  value[root]

\* What a script with an rnd() in it may draw, at either end.
Draws == IF \E i \in 1..Len(nodes) : nodes[i].op = "rnd" THEN {0, 3} ELSE {0}

\* A round of the main loop: analyze, and interesting().
EvaluateDeal(d, draw) ==
  /\ stage = "running"
  /\ curdeal' = d /\ drawn' = draw
  /\ handstat' = analyze(d)
  /\ interesting' = evaltree(decisiontree, handstat', d, draw)
  /\ stage' = IF interesting' = Dead THEN "stopped" ELSE stage
  /\ UNCHANGED <<read, tables, nodes, vars, distr, use_compass, use_side, decisiontree>>

ExpressionsInit ==
  /\ read = <<>> /\ stage = "parsing"
  /\ tables = tblPointcount
  /\ vars = <<>> /\ distr = <<>>
  /\ use_compass = [p \in Seats |-> FALSE] /\ use_side = [s \in Partnerships |-> FALSE]
  /\ nodes = <<NumberNode(1)>> /\ decisiontree = 1   \* defaulttree
  /\ curdeal = NoDeal
  /\ handstat = [p \in Seats |-> [counts |-> Cleared(tblPointcount), bits |-> {},
                                  Has_card |-> [s \in CardSuits |-> {}]]]
  /\ drawn = 0 /\ interesting = Dead

ExpressionsNext ==
  \/ \E st \in Statements : ReadScript(st)
  \/ BeginRun
  \/ \E d \in ExprDeals, draw \in Draws : EvaluateDeal(d, draw)

ExpressionsSpec == ExpressionsInit /\ [][ExpressionsNext]_exprVars

-----------------------------------------------------------------------------
(* What the script says of a deal, from its statements and the cards alone. *)
Of(kinds) == {k \in 1..Len(read) : read[k].kind \in kinds}
LastOf(K) == CHOOSE k \in K : \A j \in K : j <= k

\* The tree of a statement.  A shape is that of its list, whatever its number.
TreeOf(k) ==
  CASE read[k].kind \in {"condition", "variable"} -> read[k].tree
    [] read[k].kind = "shape" -> <<ShapeNode(read[k], k)>>
    [] OTHER -> <<>>

Defining(name) == CHOOSE k \in Of({"variable", "shape"}) : read[k].num = name

Places == {x \in (1..Len(read)) \X (1..Len(nodes)) : x[2] <= Len(TreeOf(x[1]))}
Root(k) == <<k, Len(TreeOf(k))>>

\* A name means what the statement says that defines it.
Meaning(hss, d, draw) ==
  LET means[x \in Places] ==
        LET t == TreeOf(x[1])[x[2]]
            val == IF t.op = "ident" THEN <<means[Root(Defining(t.num))]>>
                   ELSE [j \in 1..Len(t.args) |-> means[<<x[1], t.args[j]>>]]
        IN  Walk(t, val, hss, d, draw)
  IN  IF Of({"condition"}) = {} THEN <<1>> ELSE means[Root(LastOf(Of({"condition"})))]

\* The points that hcp counts are those of the last statement about them,
\* pointcount or altcount with the number of their table.
TableMeant(t) ==
  LET about == IF t = POINTS THEN idxHcp ELSE t
      redefine == {k \in Of({"pointcount", "altcount"}) :
                     about = IF read[k].kind = "pointcount" THEN idxHcp ELSE read[k].num}
  IN  IF redefine = {} THEN tblPointcount[about] ELSE TableOf(read[LastOf(redefine)].list)

\* The last element of the list that the hand fits decides.
HasShape(list, l) ==
  LET fitting == {i \in 1..Len(list) : Fits(list[i], l)}
  IN  fitting # {} /\ ~list[LastOf(fitting)].neg

\* countltc has no other definition than its table; the losers have one.
WeightsOf(cards, s) ==
  [n \in 1..3 |-> IF Held(cards, s, n) THEN LtcWeight(Highest(cards, s, n)) ELSE LTC_VOID_WEIGHT]
LosersOf(cards, s) ==
  Cardinality({n \in 1..3 : Held(cards, s, n) /\ (13 - n) \notin RanksOf(cards, s)})

AsDealt(hnd) ==
  LET cards  == ToSet(hnd)
      ltc    == [s \in CardSuits |-> LtcRow(TopWeight(WeightsOf(cards, s))).ltc]
      losers == [s \in CardSuits |-> LosersOf(cards, s)]
      inSuit == [t \in DOMAIN tables |->
                   [s \in CardSuits |-> SumFunction([r \in RanksOf(cards, s) |-> TableMeant(t)[r]])]]
  IN  [counts |-> [length |-> Lengths(cards), counts |-> inSuit,
                   totalcounts |-> [t \in DOMAIN tables |-> SumFunction(inSuit[t])],
                   ltc |-> ltc, totalltc |-> SumFunction(ltc),
                   loser |-> losers, totalloser |-> SumFunction(losers)],
       bits |-> {k \in Of({"shape"}) : HasShape(read[k].list, Lengths(cards))},
       Has_card |-> [s \in CardSuits |-> RanksOf(cards, s)]]

\* The condition has the value that the script gives it on the deal in hand:
\* no count is read of a hand that was not analysed on this deal, or counted
\* with another table than the script's, whichever statements come first; a
\* shape is what its list says, exceptions included.
ConditionIsOfThisDeal ==
  stage = "running" /\ curdeal # NoDeal =>
    interesting = Meaning([p \in Seats |-> AsDealt(curdeal.hands[p])], curdeal, drawn)
=============================================================================
