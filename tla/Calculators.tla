----------------------------- MODULE Calculators -----------------------------
(***************************************************************************)
(* The two calculators that are programs of their own, run once per        *)
(* question through popen or system: dop, for opc() (src/src/              *)
(* dealeval_subs.c, opc_value), and GIB, for tricks() (dd).  A run of dop  *)
(* gives all the values of a side; they are kept in ss[side], for the deal *)
(* opc_dealnum.  A run of GIB gives the tricks of a hand in a strain, kept *)
(* in cached_tricks, for the deal cached_ngen.                             *)
(*                                                                         *)
(* A value is abstracted to what it is the right value of.  A file or pipe *)
(* that GIB needs and that cannot be opened ends the program: left out.    *)
(***************************************************************************)
EXTENDS Integers, FiniteSets

CONSTANTS
  OpcFields,     \* values of a side that dop prints: one per strain, the longest fit
  Hands, Strains,\* of which tricks are asked
  MaxGen,        \* bounds the number of deals
  CalcMayFail,   \* dop or GIB may fail
  MaxCalls       \* bounds the runs on a deal that leave a count Missing

ASSUME CalcAssumption ==
  /\ OpcFields \in Nat \ {0}
  /\ MaxGen \in Nat
  /\ CalcMayFail \in BOOLEAN
  /\ MaxCalls \in Nat

Sides == {0, 1}
Fields == 0..(OpcFields - 1)
Cells == Hands \X Strains

Missing == -1    \* cached_tricks before a run of GIB
Junk    == -3    \* tricks of no deal
NoValue == <<-1, -1, 0>>

VARIABLES
  ngen,           \* number of the current deal
  opcRes,         \* struct the output of dop is scanned into
  ss,             \* sidestat: values of each side, and whether they are cached
  opc_dealnum,    \* the deal they are for
  cached_tricks, cached_ngen,  \* statics of dd
  calls,          \* history: runs of the calculators on this deal
  asked,          \* history: questions asked on this deal
  failed,         \* history: the last deal on which one of them failed
  answer          \* the last answer, with the question and the deal it is for

opcVars == <<opcRes, ss, opc_dealnum>>
gibVars == <<cached_tricks, cached_ngen>>
calcVars == <<ngen, opcRes, ss, opc_dealnum, cached_tricks, cached_ngen, calls, asked, failed, answer>>

Questions == {<<"opc", side, f>> : side \in Sides, f \in Fields}
             \cup {<<"tricks", h, s>> : h \in Hands, s \in Strains}

Opc(side, f, d) == <<side, f, d>>

\* The right answer to a question about deal d.
Result(q, d) == IF q[1] = "opc" THEN {Opc(q[2], q[3], d)} ELSE {<<q[2], q[3], d>>}

Answered(q, value) ==
  /\ answer' = [question |-> q, deal |-> ngen, value |-> value]
  /\ asked' = asked \cup {q}

Init ==
  /\ ngen = 0
  /\ opcRes = [f \in Fields |-> NoValue]
  /\ ss = [side \in Sides |-> [ss_cached |-> 0, opc |-> opcRes]]
  /\ opc_dealnum = -1
  /\ cached_tricks = [c \in Cells |-> Missing]
  /\ cached_ngen = -1
  /\ calls = 0
  /\ asked = {}
  /\ failed = 0
  /\ answer = [question |-> <<"none">>, deal |-> 0, value |-> {}]

-----------------------------------------------------------------------------
\* get_opc_vals: the fields that dop printed are scanned in order.  What it did
\* not print, or popen failed to give, stays as the last run left it.
GetOpcVals(side) ==
  \E n \in 0..OpcFields :
    /\ opcRes' = [f \in Fields |-> IF f < n THEN Opc(side, f, ngen) ELSE opcRes[f]]
    /\ IF n = OpcFields THEN UNCHANGED failed ELSE CalcMayFail /\ failed' = ngen

\* Fault: only the values of the side asked about are discarded.
DiscardedOwn(side) ==
  IF opc_dealnum # ngen THEN [ss EXCEPT ![side].ss_cached = 0] ELSE ss

\* The values of both sides are discarded when they are of another deal.
Discarded(side) ==
  IF opc_dealnum # ngen THEN [x \in Sides |-> [ss[x] EXCEPT !.ss_cached = 0]] ELSE ss

\* Fault: the values are taken to be current without a look at the deal.
OpcCachedAnyDeal(side) == ss[side].ss_cached = 1

OpcCached(side) == opc_dealnum = ngen /\ ss[side].ss_cached = 1

\* opc_value(side, strain).
OpcValue(side, f) ==
  /\ IF OpcCached(side)
     THEN UNCHANGED <<opcVars, calls, failed>>
     ELSE /\ GetOpcVals(side)
          /\ ss' = [Discarded(side) EXCEPT ![side] = [ss_cached |-> 1, opc |-> opcRes']]
          /\ opc_dealnum' = ngen
          /\ calls' = calls + 1
  /\ Answered(<<"opc", side, f>>, {ss'[side].opc[f]})
  /\ UNCHANGED <<ngen, gibVars>>

-----------------------------------------------------------------------------
\* true_dd: the tricks GIB prints.  When it prints none the variable they are
\* read into has no value, and 13 less such a value may look like Missing.
TrueDd ==
  {ngen} \cup {t \in {Missing, Junk} : CalcMayFail /\ (t = Junk \/ calls < MaxCalls)}

\* Fault: the counts of other deals are kept until a cell is asked again.
GibTableKept == cached_tricks

\* The counts of another deal are discarded.
GibTable == IF ngen # cached_ngen THEN [c \in Cells |-> Missing] ELSE cached_tricks

\* dd(deal, hand, strain).
Dd(h, s) ==
  LET c == <<h, s>> IN
  /\ cached_ngen' = ngen
  /\ IF GibTable[c] # Missing
     THEN cached_tricks' = GibTable /\ UNCHANGED <<calls, failed>>
     ELSE /\ \E t \in TrueDd : /\ cached_tricks' = [GibTable EXCEPT ![c] = t]
                               /\ failed' = IF t = ngen THEN failed ELSE ngen
          /\ calls' = calls + 1
  /\ Answered(<<"tricks", h, s>>, {<<h, s, cached_tricks'[c]>>})
  /\ UNCHANGED <<ngen, opcVars>>

-----------------------------------------------------------------------------
\* The main loop goes on; the caches are not told.
NextDeal ==
  /\ ngen < MaxGen
  /\ ngen' = ngen + 1
  /\ calls' = 0 /\ asked' = {}
  /\ UNCHANGED <<opcVars, gibVars, failed, answer>>

Next ==
  \/ NextDeal
  \/ /\ ngen > 0
     /\ \/ \E side \in Sides, f \in Fields : OpcValue(side, f)
        \/ \E h \in Hands, s \in Strains : Dd(h, s)

Spec == Init /\ [][Next]_calcVars

-----------------------------------------------------------------------------
SidesAsked  == {q[2] : q \in {x \in asked : x[1] = "opc"}}
TricksAsked == {q \in asked : q[1] = "tricks"}

\* However the questions of a condition follow each other: as long as no
\* calculator failed on the deal, dop runs once for each side asked about, for
\* all its strains, and GIB once for each hand and strain.
OneRunEach ==
  failed # ngen =>
    calls = Cardinality(SidesAsked) + Cardinality(TricksAsked)

\* The value of opc() or tricks() is that of the deal, the side or hand and the
\* strain asked about, unless a calculator failed on this very deal; what a
\* failed run left behind is never taken for the value of a later deal.
AnswerIsCurrent ==
  answer.deal > 0 /\ answer.deal # failed =>
    answer.value = Result(answer.question, answer.deal)

-----------------------------------------------------------------------------
TypeOK ==
  /\ ngen \in Nat /\ failed \in Nat /\ calls \in Nat
  /\ opc_dealnum \in Int /\ cached_ngen \in Int
  /\ opcRes \in [Fields -> Int \X Int \X Int]
  /\ ss \in [Sides -> [ss_cached : {0, 1}, opc : [Fields -> Int \X Int \X Int]]]
  /\ cached_tricks \in [Cells -> Int]

(***************************************************************************)
(* The inductive invariant: no cache is for a deal to come; one that is    *)
(* for the current deal, on which no calculator failed, holds its values.  *)
(***************************************************************************)
CachesCoherent ==
  /\ opc_dealnum <= ngen /\ cached_ngen <= ngen /\ failed <= ngen
  /\ ngen = 0 => opc_dealnum = -1 /\ cached_ngen = -1 /\ answer.deal = 0
  /\ failed # ngen =>
       /\ \A side \in Sides : OpcCached(side) =>
            \A f \in Fields : ss[side].opc[f] = Opc(side, f, ngen)
       /\ cached_ngen = ngen => \A c \in Cells : cached_tricks[c] \in {Missing, ngen}

IInv == TypeOK /\ CachesCoherent /\ AnswerIsCurrent

\* What OneRunEach needs: what is cached is what was asked on this deal.
RunsCounted ==
  /\ IsFiniteSet(asked)
  /\ failed # ngen =>
       /\ \A side \in Sides : OpcCached(side) <=> side \in SidesAsked
       /\ \A h \in Hands, s \in Strains :
            cached_ngen = ngen /\ cached_tricks[<<h, s>>] # Missing <=> <<"tricks", h, s>> \in asked
       /\ calls = Cardinality(SidesAsked) + Cardinality(TricksAsked)

\* Nobody can tell the caches from calculators run afresh for every question.
Results == INSTANCE DealResults WITH deal <- ngen, MayFail <- CalcMayFail
ImplementsResults == Results!Spec
=============================================================================
