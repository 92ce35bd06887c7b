----------------------------- MODULE DealerMain -----------------------------
(***************************************************************************)
(* A run of dealerv2: limits and the source of the deals are settled, then *)
(* the main loop makes a deal, evaluates the condition and acts, until it  *)
(* has generated or produced enough (src/src/dealerv2.c), with deals that  *)
(* are dealt or come from the library (RPLib).                             *)
(***************************************************************************)
EXTENDS RPLib, Sequences, FiniteSets

CONSTANTS
  Limits,         \* values of -g, generate and produce; 0: not given
  ProduceOpts,    \* values of -p; 0: not given
  Seeds,          \* values of the seed
  LibModes,       \* {TRUE}, {FALSE} or both: -L given
  DefaultGenerate, DefaultProduce   \* 10000000 and 40

VARIABLES
  pc,             \* where main is
  libmode,        \* opts->rplib_mode = 1
  seed,
  maxgenerate, maxproduce,   \* the limits of the loop
  opt_produce,    \* opts->max_produce
  ngen, nprod,    \* number of the deal in hand, deals produced
  dealt           \* history: the deals that were evaluated

runVars == <<libmode, seed, maxgenerate, maxproduce, opt_produce>>
mainVars == <<pc, runVars, ngen, nprod, dealt>>
vars == <<libVars, mainVars>>

ASSUME MainAssumption ==
  /\ Limits \subseteq Nat /\ ProduceOpts \subseteq Nat /\ Seeds \subseteq Nat
  /\ LibModes \subseteq BOOLEAN
  /\ DefaultGenerate \in Nat \ {0} /\ DefaultProduce \in Nat \ {0}

PC == {"start", "loop", "reading", "dealt", "over", "done"}

Init ==
  /\ LibInit
  /\ pc = "start"
  /\ libmode = FALSE
  /\ seed = 0
  /\ maxgenerate = 0 /\ maxproduce = 0 /\ opt_produce = 0
  /\ ngen = 1 /\ nprod = 0
  /\ dealt = <<>>

-----------------------------------------------------------------------------
OrElse(a, b) == IF a > 0 THEN a ELSE b

\* A library does not give more deals than it has records.
Clipped(limit) == limit > Recs

\* get_options, the scanner, finalize_options and init_runtime, as far as the
\* limits go: optg and optp are -g and -p, srcg and srcp what the script says.
\* The action list says whether the script prints, which has a default limit.
Start(lib, s, optg, optp, srcg, srcp, prints) ==
  LET g == OrElse(optg, srcg)
      clip == lib /\ Clipped(g)
      p == IF clip /\ optp > Recs THEN Recs ELSE optp
  IN
  /\ pc = "start"
  /\ libmode' = lib
  /\ seed' = s
  /\ maxgenerate' = OrElse(IF clip THEN Recs ELSE g, DefaultGenerate)
  /\ opt_produce' = p
  /\ maxproduce' = OrElse(OrElse(p, srcp), IF prints THEN DefaultProduce ELSE maxgenerate')
  /\ IF lib THEN Seek(s) ELSE UNCHANGED libVars
  /\ pc' = "loop"
  /\ UNCHANGED <<ngen, nprod, dealt>>

MoreWanted == ngen <= maxgenerate /\ nprod < maxproduce

\* deal_cards: a new deal, which no record of a library is.
DealCards ==
  /\ pc = "loop" /\ MoreWanted
  /\ ~libmode
  /\ pc' = "dealt"
  /\ UNCHANGED <<libVars, runVars, ngen, nprod, dealt>>

\* Fault: the end of the library is noticed a pass later.
ScannedEnoughLate == wrap_cnt' >= 3

\* "All records in Library file scanned".
ScannedEnough == wrap_cnt' >= 2

\* get_rpdeal, and the test for the end of the library after it.
GetRpdeal ==
  /\ pc = "reading" \/ (pc = "loop" /\ MoreWanted)
  /\ libmode
  /\ GetRecord(opt_produce, pc = "loop")
  /\ pc' = IF ~Decoded THEN "reading"
           ELSE IF ScannedEnough THEN "over"
           ELSE "dealt"
  /\ UNCHANGED <<runVars, ngen, nprod, dealt>>

\* analyze, interesting, and action when the condition holds.
Evaluate(keephand) ==
  /\ pc = "dealt"
  /\ dealt' = Append(dealt, curdeal)
  /\ nprod' = IF keephand THEN nprod + 1 ELSE nprod
  /\ ngen' = ngen + 1
  /\ pc' = "loop"
  /\ UNCHANGED <<libVars, runVars>>

\* Fault: only the number of deals produced ends the run.
EndLoopProduced ==
  /\ pc = "loop" /\ ~MoreWanted
  /\ pc' = IF nprod >= maxproduce THEN "over" ELSE "loop"
  /\ UNCHANGED <<libVars, runVars, ngen, nprod, dealt>>

EndLoop ==
  /\ pc = "loop" /\ ~MoreWanted
  /\ pc' = "over"
  /\ UNCHANGED <<libVars, runVars, ngen, nprod, dealt>>

\* Fault: the correction for the increment after the last deal is forgotten.
CorrectedNever == ngen

\* ngen, corrected for the "Generated n hands" of the statistics.
Corrected == IF ngen >= maxgenerate THEN maxgenerate
             ELSE IF ngen >= 2 THEN ngen - 1
             ELSE ngen

EndRun ==
  /\ pc = "over"
  /\ ngen' = Corrected
  /\ pc' = "done"
  /\ UNCHANGED <<libVars, runVars, nprod, dealt>>

Next ==
  \/ \E lib \in LibModes, s \in Seeds, prints \in BOOLEAN,
        optg \in Limits, optp \in ProduceOpts, srcg \in Limits, srcp \in Limits :
       Start(lib, s, optg, optp, srcg, srcp, prints)
  \/ DealCards \/ GetRpdeal
  \/ \E keephand \in BOOLEAN : Evaluate(keephand)
  \/ EndLoop \/ EndRun
  \/ pc = "done" /\ UNCHANGED vars

Spec == Init /\ [][Next]_vars

\* One process that never waits: whatever it can do next, it does.
FairSpec == Spec /\ WF_vars(Next)

-----------------------------------------------------------------------------
TimesDealt(r) == Cardinality({i \in DOMAIN dealt : dealt[i] = r})

\* As long as the file can be wrapped around, no record is evaluated three
\* times: a condition that no record satisfies does not keep the run going.
AtMostTwoPasses ==
  libmode /\ lastread # "nothing" => \A r \in 1..Recs : TimesDealt(r) <= 2

\* The statistics: the number of deals generated is the number evaluated, and
\* the records read are those and the one the scan ended with.  (One deal too
\* many is reported when one less than the limit was generated: the last deal
\* wanted is the last but one allowed, or the library ended just there.)
CountsAreReported ==
  pc = "done" =>
    /\ \/ ngen = Len(dealt)
       \/ /\ ngen = maxgenerate /\ Len(dealt) = maxgenerate - 1
          /\ nprod = maxproduce \/ wrap_cnt >= 2
    /\ libmode => rp_cnt = Len(dealt) + (IF wrap_cnt >= 2 THEN 1 ELSE 0)

\* Only separators are found from now on: the file has no deal, or it is not
\* wrapped around and a separator is what its end leaves in the buffer.
NoDealToCome ==
  /\ pc = "reading"
  /\ \/ 1..FileEnd \subseteq separators
     \/ pos = FileEnd /\ rp_cnt >= opt_produce /\ IsSeparator(rec)

\* The run ends, however rare the deals it looks for and whatever the limits,
\* unless get_rpdeal comes to where it finds separators only: there it goes
\* round for ever, and never comes back.
RunEnds == <>[](pc = "done") \/ <>[]NoDealToCome

\* User guide, -L: "If the program reaches the end of the file before being
\* able to produce the required number of records, it will wrap-around".
EndOfFileWraps == lastread = "nothing" => nprod >= maxproduce

-----------------------------------------------------------------------------
\* A library of whole records, and a -p no less than the deals to generate.
Scanning == libmode /\ ~cutshort /\ opt_produce >= maxgenerate

\* What a library is for: its deals one after the other.
Scan == INSTANCE LibraryScan WITH
          at <- IF ~Scanning THEN 0 ELSE IF curdeal = 0 THEN StartPos(seed) ELSE curdeal,
          started <- Scanning
ImplementsScan == Scan!Spec

-----------------------------------------------------------------------------
Records == 1..Recs
Contents == (1..Recs + 1) \cup {Junk, Nulls}   \* of the buffer

TypeOK ==
  /\ cutshort \in BOOLEAN /\ separators \subseteq 1..Recs + 1
  /\ pos \in 0..FileEnd /\ lastread \in Reads
  /\ rec \in Contents /\ curdeal \in Contents \cup {0}
  /\ rp_cnt \in Nat /\ wrap_cnt \in Nat
  /\ pc \in PC /\ libmode \in BOOLEAN /\ seed \in Nat
  /\ maxgenerate \in Nat /\ maxproduce \in Nat /\ opt_produce \in Nat
  /\ ngen \in Nat /\ nprod \in Nat
  /\ dealt \in Seq(Contents \cup {0})

(***************************************************************************)
(* The inductive invariant.  Counting: what the counters of main and of    *)
(* the library have to do with the deals evaluated.  Passing: a record was *)
(* evaluated as often as the file was read past it, and get_rpdeal goes on *)
(* reading after separators only.  Skipping: between the deal in hand and  *)
(* the position in the file there are only separators.                     *)
(***************************************************************************)
BeforeStart ==
  pc = "start" => /\ ~libmode
                  /\ pos = 0 /\ lastread = "none" /\ rp_cnt = 0 /\ wrap_cnt = 0
                  /\ curdeal = 0 /\ ngen = 1 /\ nprod = 0 /\ dealt = <<>>

Counting ==
  /\ pc # "done" => ngen = Len(dealt) + 1
  /\ pc # "start" => maxgenerate >= 1 /\ maxproduce >= 1 /\ nprod <= maxproduce
  /\ nprod <= Len(dealt)
  /\ pc # "start" /\ pc # "done" => ngen <= maxgenerate + 1
  /\ pc \in {"reading", "dealt"} => MoreWanted
  /\ pc = "reading" => libmode
  /\ pc = "over" => Len(dealt) >= 1 /\ (~MoreWanted \/ wrap_cnt >= 2)
  /\ libmode =>
       /\ pc \in {"loop", "reading"} => rp_cnt = Len(dealt)
       /\ pc = "dealt" => rp_cnt = Len(dealt) + 1
       /\ pc \in {"loop", "dealt"} => wrap_cnt <= 1
       /\ pc = "over" => rp_cnt = Len(dealt) + (IF wrap_cnt >= 2 THEN 1 ELSE 0)
       /\ wrap_cnt > 0 => opt_produce > 0
  /\ ~libmode => wrap_cnt = 0 /\ lastread = "none"

Passed(r) == IF r <= pos /\ ~(pc = "dealt" /\ r = curdeal) THEN wrap_cnt + 1 ELSE wrap_cnt

Passing ==
  libmode =>
    /\ pc = "dealt" /\ lastread # "nothing" => curdeal \in {Junk, pos}
    /\ pc = "reading" => IsSeparator(rec)
    /\ lastread = "nothing" => pos = FileEnd /\ rp_cnt >= opt_produce
    /\ lastread # "nothing" => \A r \in Records : TimesDealt(r) <= 2 /\ TimesDealt(r) <= Passed(r)
    /\ dealt = <<>> /\ pc \in {"loop", "reading"} =>
         /\ pc = "loop" => wrap_cnt = 0 /\ pos < Recs
         /\ wrap_cnt > 0 => 1..pos \subseteq separators
         /\ wrap_cnt > 1 => 1..FileEnd \subseteq separators

At == IF curdeal = 0 THEN StartPos(seed) ELSE curdeal

Skipping ==
  Scanning /\ pc \in {"loop", "reading", "dealt"} =>
    /\ At \in 0..Recs
    /\ \/ At <= pos /\ At + 1..pos \subseteq separators
       \/ (At + 1..Recs) \cup (1..pos) \subseteq separators

IInv == TypeOK /\ BeforeStart /\ Counting /\ Passing /\ Skipping /\ CountsAreReported
=============================================================================
