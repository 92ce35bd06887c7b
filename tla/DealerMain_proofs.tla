-------------------------- MODULE DealerMain_proofs --------------------------
(***************************************************************************)
(* Proofs about DealerMain, for libraries of any size with separators at   *)
(* any places, and any limits, seeds and sizes of blocks.                  *)
(***************************************************************************)
EXTENDS DealerMain, NumberFacts

USE LibAssumption, MainAssumption DEF Junk, Nulls

-----------------------------------------------------------------------------
(* The start of a scan.                                                    *)

\* The block chosen by a seed is one of the file's whole blocks, or the first.
LEMMA StartPosInFile ==
  ASSUME NEW s \in Nat
  PROVE  StartPos(s) \in 0..Recs - 1
<1> DEFINE b == rplib_blk_sz
           q == Recs \div b
<1>1. b \in Nat \ {0}
  BY DEF rplib_blk_sz
<1>2. q \in Nat /\ q * b <= Recs
  <2>1. \A n \in Nat, d \in Nat \ {0} : n \div d \in Nat /\ (n \div d) * d <= n
    OBVIOUS
  <2>2. QED
    BY <1>1, <2>1
<1>3. LastBlock \in Int /\ LastBlock <= q - 1
  <2>1. CASE Recs >= PartialLib
    <3>1. b = FullBlock
      BY <2>1 DEF rplib_blk_sz
    <3>2. q = Recs \div FullBlock
      BY <3>1
    <3>3. LastBlock = IF MaxSeed < q THEN MaxSeed ELSE q - 1
      BY <2>1, <3>2 DEF LastBlock
    <3> HIDE DEF q
    <3>4. QED
      BY <1>2, <3>3
  <2>2. CASE ~(Recs >= PartialLib)
    <3>1. LastBlock = q - 1
      BY <2>2 DEF LastBlock
    <3> HIDE DEF q
    <3>2. QED
      BY <1>2, <3>1
  <2>3. QED
    BY <2>1, <2>2
<1>4. StartBlock(s) = 0 \/ (StartBlock(s) \in Nat /\ StartBlock(s) <= q - 1)
  <2> HIDE DEF q
  <2>1. QED
    BY <1>2, <1>3 DEF StartBlock
<1>5. \A k \in Nat : k <= q - 1 => k * b \in 0..Recs - 1
  <2> HIDE DEF b, q
  <2>1. TAKE k \in Nat
  <2>2. HAVE k <= q - 1
  <2>3. k * b \in Nat /\ k * b <= (q - 1) * b
    BY <1>1, <1>2, <2>2
  <2>4. (q - 1) * b = q * b - b
    BY <1>1, <1>2
  <2>5. q * b \in Nat /\ (q - 1) * b \in Int
    BY <1>1, <1>2
  <2>6. QED
    BY <1>1, <1>2, <2>3, <2>4, <2>5
<1>6. CASE StartBlock(s) = 0
  <2>1. StartPos(s) = 0
    <3> HIDE DEF b
    <3>1. StartPos(s) = 0 * b
      BY <1>6 DEF StartPos, b
    <3>2. QED
      BY <1>1, <3>1
  <2>2. QED
    BY <2>1
<1>7. CASE StartBlock(s) \in Nat /\ StartBlock(s) <= q - 1
  BY <1>5, <1>7 DEF StartPos
<1>8. QED
  BY <1>4, <1>6, <1>7

-----------------------------------------------------------------------------
(* How often a record was dealt.                                           *)

\* One more deal is one more time for its record and no other.
LEMMA TimesOfLonger ==
  ASSUME dealt \in Seq(Contents \cup {0}), NEW d \in Contents \cup {0},
         dealt' = Append(dealt, d), NEW r
  PROVE  /\ TimesDealt(r) \in Nat
         /\ TimesDealt(r)' = IF r = d THEN TimesDealt(r) + 1 ELSE TimesDealt(r)
<1> DEFINE I == {n \in DOMAIN dealt : dealt[n] = r}
           J == {n \in DOMAIN dealt' : dealt'[n] = r}
           k == Len(dealt)
<1>1. k \in Nat /\ DOMAIN dealt = 1..k
  OBVIOUS
<1>2. IsFiniteSet(I) /\ Cardinality(I) \in Nat /\ k + 1 \notin I
  <2>1. IsFiniteSet(1..k)
    BY <1>1, FS_Interval
  <2>2. I \in SUBSET (1..k)
    BY <1>1
  <2>3. IsFiniteSet(I)
    BY <2>1, <2>2, FS_Subset, Zenon
  <2>4. QED
    BY <1>1, <2>2, <2>3, FS_CardinalityType
<1>3. J = IF r = d THEN I \cup {k + 1} ELSE I
  OBVIOUS
<1>4. TimesDealt(r) = Cardinality(I) /\ TimesDealt(r)' = Cardinality(J)
  BY DEF TimesDealt
<1> HIDE DEF I, J, k
<1>5. Cardinality(I \cup {k + 1}) = Cardinality(I) + 1
  BY <1>2, FS_AddElement
<1>6. QED
  BY <1>2, <1>3, <1>4, <1>5

\* Before the first deal no record was dealt.
LEMMA TimesOfNone ==
  ASSUME dealt = <<>>, NEW r
  PROVE  TimesDealt(r) = 0
<1>1. {n \in DOMAIN dealt : dealt[n] = r} = {}
  OBVIOUS
<1>2. QED
  BY <1>1, FS_EmptySet DEF TimesDealt

-----------------------------------------------------------------------------
(* The inductive invariant.                                                *)

LEMMA InitInv == Init => IInv
<1> SUFFICES ASSUME Init PROVE IInv
  OBVIOUS
<1> USE DEF Init, LibInit
<1>1. TypeOK
  <2>1. cutshort \in BOOLEAN /\ separators \subseteq 1..Recs + 1 /\ FileEnd \in Nat
    BY DEF FileEnd
  <2>2. dealt \in Seq(Contents \cup {0})
    OBVIOUS
  <2>3. /\ pos \in 0..FileEnd /\ lastread \in Reads /\ rec \in Contents
        /\ curdeal \in Contents \cup {0}
    BY <2>1 DEF Reads, Contents
  <2>4. /\ rp_cnt \in Nat /\ wrap_cnt \in Nat /\ pc \in PC
        /\ libmode \in BOOLEAN /\ seed \in Nat
        /\ maxgenerate \in Nat /\ maxproduce \in Nat /\ opt_produce \in Nat
        /\ ngen \in Nat /\ nprod \in Nat
    BY DEF PC
  <2>5. QED
    BY <2>1, <2>2, <2>3, <2>4 DEF TypeOK
<1>2. Len(dealt) = 0
  OBVIOUS
<1>3. QED
  BY <1>1, <1>2 DEF IInv, BeforeStart, Counting, MoreWanted, Passing, Skipping, Scanning,
     CountsAreReported

\* What the options and the script settle.
LEMMA StartStep ==
  ASSUME IInv, NEW lib \in LibModes, NEW s \in Seeds, NEW prints \in BOOLEAN,
         NEW optg \in Limits, NEW optp \in ProduceOpts, NEW srcg \in Limits, NEW srcp \in Limits,
         Start(lib, s, optg, optp, srcg, srcp, prints)
  PROVE  IInv'
<1> USE DEF IInv
<1>1. /\ pc = "start" /\ pc' = "loop" /\ libmode' = lib /\ seed' = s
      /\ UNCHANGED <<ngen, nprod, dealt, cutshort, separators, rec, lastread, rp_cnt, wrap_cnt, curdeal>>
  BY DEF Start, Seek, libVars
<1>2. /\ ngen = 1 /\ nprod = 0 /\ dealt = <<>> /\ Len(dealt) = 0 /\ curdeal = 0
      /\ rp_cnt = 0 /\ wrap_cnt = 0 /\ lastread = "none" /\ pos = 0
  BY <1>1 DEF BeforeStart
<1>3. /\ maxgenerate' \in Nat \ {0} /\ maxproduce' \in Nat \ {0} /\ opt_produce' \in Nat
  <2> DEFINE g == OrElse(optg, srcg)
             clip == lib /\ Clipped(g)
             p == IF clip /\ optp > Recs THEN Recs ELSE optp
  <2>1. g \in Nat /\ p \in Nat /\ srcp \in Nat
    BY DEF OrElse
  <2>2. /\ maxgenerate' = OrElse(IF clip THEN Recs ELSE g, DefaultGenerate)
        /\ opt_produce' = p
        /\ maxproduce' = OrElse(OrElse(p, srcp), IF prints THEN DefaultProduce ELSE maxgenerate')
    BY DEF Start
  <2> HIDE DEF g, clip, p
  <2>3. maxgenerate' \in Nat \ {0}
    BY <2>1, <2>2 DEF OrElse
  <2>4. QED
    BY <2>1, <2>2, <2>3 DEF OrElse
<1>4. pos' \in 0..Recs - 1 /\ (lib => pos' = StartPos(s))
  <2>1. StartPos(s) \in 0..Recs - 1
    BY StartPosInFile
  <2>2. CASE lib
    BY <2>1, <2>2 DEF Start, Seek
  <2>3. CASE ~lib
    BY <1>2, <2>3 DEF Start, libVars, TypeOK
  <2>4. QED
    BY <2>2, <2>3
<1>5. TypeOK'
  BY <1>1, <1>2, <1>3, <1>4 DEF TypeOK, FileEnd, PC
<1>6. (BeforeStart /\ Counting /\ CountsAreReported)'
  <2>1. /\ ngen' = 1 /\ nprod' = 0 /\ Len(dealt') = 0 /\ rp_cnt' = 0 /\ wrap_cnt' = 0
        /\ lastread' = "none"
    BY <1>1, <1>2
  <2>2. BeforeStart' /\ CountsAreReported'
    BY <1>1 DEF BeforeStart, CountsAreReported
  <2>3. Counting'
    <3>1. /\ maxgenerate' >= 1 /\ maxproduce' >= 1 /\ 0 <= maxproduce' /\ 1 <= maxgenerate' + 1
      <4>1. \A n \in Nat \ {0} : n >= 1 /\ 0 <= n /\ 1 <= n + 1
        OBVIOUS
      <4>2. QED
        BY <1>3, <4>1, Zenon
    <3>2. 1 = 0 + 1 /\ 0 <= 0 /\ 0 <= 1 /\ ~(0 > 0)
      OBVIOUS
    <3>3. QED
      BY <1>1, <2>1, <3>1, <3>2, Zenon DEF Counting
  <2>4. QED
    BY <2>2, <2>3
<1>7. Passing'
  <2>1. \A r : TimesDealt(r)' = 0
    BY <1>1, <1>2, TimesOfNone DEF TimesDealt
  <2>2. \A r \in Records : Passed(r)' \in Nat
    BY <1>1, <1>2 DEF Passed
  <2>3. pos' < Recs
    BY <1>4
  <2>4. QED
    BY <1>1, <1>2, <2>1, <2>2, <2>3 DEF Passing
<1>8. Skipping'
  <2>1. CASE lib
    <3>1. At' = pos'
      BY <1>1, <1>2, <1>4, <2>1 DEF At, StartPos, StartBlock
    <3>2. pos' \in 0..Recs /\ At' \in 0..Recs /\ At' <= pos' /\ At' + 1..pos' = {}
      <4>1. \A n \in 0..Recs - 1 : n \in 0..Recs /\ n <= n /\ n + 1..n = {}
        OBVIOUS
      <4>2. QED
        BY <1>4, <3>1, <4>1, Zenon
    <3>3. QED
      BY <3>2 DEF Skipping
  <2>2. CASE ~lib
    BY <1>1, <2>2 DEF Skipping, Scanning
  <2>3. QED
    BY <2>1, <2>2
<1>9. QED
  BY <1>5, <1>6, <1>7, <1>8

\* A deal is dealt, evaluated, and the run ends: the file is not touched.
LEMMA DealCardsStep ==
  ASSUME IInv, DealCards
  PROVE  IInv'
<1> USE DEF IInv, DealCards, libVars, runVars
<1>1. TypeOK'
  BY DEF TypeOK, FileEnd, PC
<1>2. (BeforeStart /\ Counting /\ CountsAreReported)'
  BY DEF BeforeStart, Counting, MoreWanted, CountsAreReported
<1>3. (Passing /\ Skipping)'
  BY DEF Passing, Skipping, Scanning
<1>4. QED
  BY <1>1, <1>2, <1>3

LEMMA EvaluateStep ==
  ASSUME IInv, NEW keephand \in BOOLEAN, Evaluate(keephand)
  PROVE  IInv'
<1> USE DEF IInv, Evaluate, libVars, runVars
<1>1. /\ dealt \in Seq(Contents \cup {0}) /\ curdeal \in Contents \cup {0}
      /\ Len(dealt) \in Nat /\ ngen \in Nat /\ nprod \in Nat /\ maxproduce \in Nat
      /\ maxgenerate \in Nat /\ rp_cnt \in Nat /\ wrap_cnt \in Nat
  BY DEF TypeOK
<1>2. dealt' \in Seq(Contents \cup {0}) /\ Len(dealt') = Len(dealt) + 1 /\ dealt' # <<>>
  BY <1>1
<1>3. TypeOK'
  BY <1>2 DEF TypeOK, FileEnd, PC
<1>4. (BeforeStart /\ Counting /\ CountsAreReported)'
  BY <1>1, <1>2 DEF BeforeStart, Counting, MoreWanted, CountsAreReported
<1>5. Passing'
  <2> SUFFICES ASSUME libmode PROVE Passing'
    BY DEF Passing
  <2>1. ASSUME lastread # "nothing", NEW r \in Records
        PROVE  TimesDealt(r)' <= 2 /\ TimesDealt(r)' <= Passed(r)'
    <3>1. /\ TimesDealt(r) \in Nat
          /\ TimesDealt(r)' = IF r = curdeal THEN TimesDealt(r) + 1 ELSE TimesDealt(r)
      BY <1>1, TimesOfLonger
    <3>2. /\ TimesDealt(r) <= 2 /\ TimesDealt(r) <= Passed(r)
          /\ wrap_cnt <= 1 /\ curdeal \in {Junk, pos}
      BY <2>1 DEF Passing, Counting
    <3>3. CASE r = curdeal
      <4>1. r = pos /\ Passed(r) = wrap_cnt /\ Passed(r)' = wrap_cnt + 1
        BY <1>1, <3>2, <3>3 DEF Passed, Records
      <4>2. QED
        BY <1>1, <3>1, <3>2, <3>3, <4>1
    <3>4. CASE r # curdeal
      <4>1. Passed(r)' = Passed(r)
        BY <3>4 DEF Passed
      <4>2. QED
        BY <3>1, <3>2, <3>4, <4>1
    <3>5. QED
      BY <3>3, <3>4
  <2>2. QED
    BY <1>2, <2>1 DEF Passing, FileEnd
<1>6. Skipping'
  BY DEF Skipping, Scanning, At, StartPos
<1>7. QED
  BY <1>3, <1>4, <1>5, <1>6

LEMMA EndStep ==
  ASSUME IInv, EndLoop \/ EndRun \/ UNCHANGED vars
  PROVE  IInv'
<1> USE DEF IInv, libVars, runVars
<1>1. CASE EndLoop
  <2> USE <1>1 DEF EndLoop
  <2>1. TypeOK'
    BY DEF TypeOK, FileEnd, PC
  <2>2. (BeforeStart /\ Counting /\ CountsAreReported)'
    <3>1. Len(dealt) \in Nat /\ ngen \in Nat /\ nprod \in Nat /\ wrap_cnt \in Nat
      BY DEF TypeOK
    <3>2. Len(dealt) >= 1
      BY <3>1 DEF Counting, MoreWanted, TypeOK
    <3>3. QED
      BY <3>1, <3>2 DEF BeforeStart, Counting, MoreWanted, CountsAreReported
  <2>3. (Passing /\ Skipping)'
    BY DEF Passing, Skipping, TimesDealt, Passed, FileEnd
  <2>4. QED
    BY <2>1, <2>2, <2>3
<1>2. CASE EndRun
  <2> USE <1>2 DEF EndRun
  <2>1. /\ Len(dealt) \in Nat /\ ngen \in Nat /\ nprod \in Nat /\ wrap_cnt \in Nat
        /\ maxgenerate \in Nat /\ maxproduce \in Nat
    BY DEF TypeOK
  <2>2. TypeOK'
    <3>1. ngen' \in Nat
      BY <2>1 DEF Corrected
    <3>2. QED
      BY <3>1 DEF TypeOK, FileEnd, PC
  <2>3. (BeforeStart /\ Counting)'
    BY DEF BeforeStart, Counting, MoreWanted
  <2>4. CountsAreReported'
    BY <2>1 DEF CountsAreReported, Corrected, Counting, MoreWanted
  <2>5. (Passing /\ Skipping)'
    BY DEF Passing, Skipping, TimesDealt, Passed, FileEnd
  <2>6. QED
    BY <2>2, <2>3, <2>4, <2>5
<1>3. CASE UNCHANGED vars
  <2> USE <1>3 DEF vars, mainVars
  <2>1. TypeOK' /\ (BeforeStart /\ Counting /\ CountsAreReported)'
    BY DEF TypeOK, FileEnd, BeforeStart, Counting, MoreWanted, CountsAreReported
  <2>2. (Passing /\ Skipping)'
    BY DEF IsSeparator, Passing, Skipping, Scanning, TimesDealt, Passed, FileEnd, At, StartPos
  <2>3. QED
    BY <2>1, <2>2
<1>4. QED
  BY <1>1, <1>2, <1>3

-----------------------------------------------------------------------------
(* Reading the library.                                                    *)

\* The four ways in which a read moves in the file.
Moved ==
  \/ /\ pos < Recs /\ pos' = pos + 1 /\ rec' = pos + 1
     /\ lastread' = "record" /\ wrap_cnt' = wrap_cnt
  \/ /\ pos = Recs /\ pos < FileEnd /\ pos' = pos + 1
     /\ rec' = pos + 1 \/ (rec' = Junk /\ pc = "loop")
     /\ lastread' = "short" /\ wrap_cnt' = wrap_cnt
  \/ /\ pos = FileEnd /\ rp_cnt < opt_produce /\ pos' = 1 /\ rec' = 1
     /\ lastread' = "wrap" /\ wrap_cnt' \in Nat
     /\ wrap_cnt' = wrap_cnt + 1 \/ (wrap_cnt >= 2 /\ wrap_cnt' = wrap_cnt)
  \/ /\ pos = FileEnd /\ rp_cnt >= opt_produce /\ pos' = pos /\ rec' \in {rec, Junk, Nulls}
     /\ lastread' = "nothing" /\ wrap_cnt' = wrap_cnt

\* What a read does, in the types of the variables.
LEMMA Read ==
  ASSUME IInv, GetRpdeal
  PROVE  /\ libmode /\ pc \in {"loop", "reading"} /\ MoreWanted
         /\ rp_cnt = Len(dealt) /\ Len(dealt) \in Nat /\ wrap_cnt \in Nat
         /\ opt_produce \in Nat /\ pos \in Nat /\ FileEnd \in {Recs, Recs + 1}
         /\ UNCHANGED <<cutshort, separators, FileEnd, libmode, seed, maxgenerate, maxproduce,
                       opt_produce, ngen, nprod, dealt>>
         /\ Moved
         /\ rec' \in Contents /\ pos' \in 0..FileEnd
         /\ IF IsSeparator(rec')
            THEN pc' = "reading" /\ UNCHANGED <<rp_cnt, curdeal>>
            ELSE /\ pc' = IF wrap_cnt' >= 2 THEN "over" ELSE "dealt"
                 /\ rp_cnt' = rp_cnt + 1 /\ curdeal' = rec'
<1> USE DEF IInv
<1>1. /\ libmode /\ pc \in {"loop", "reading"}
      /\ UNCHANGED <<runVars, ngen, nprod, dealt, cutshort, separators>>
      /\ \/ ReadRecord \/ ReadShort(pc = "loop")
         \/ WrapAround(opt_produce) \/ ReadNothing(opt_produce, pc = "loop")
  BY DEF GetRpdeal, GetRecord
<1>2. MoreWanted /\ rp_cnt = Len(dealt)
  BY <1>1 DEF GetRpdeal, Counting
<1>3. /\ Len(dealt) \in Nat /\ wrap_cnt \in Nat /\ opt_produce \in Nat
      /\ pos \in 0..FileEnd /\ rec \in Contents
      /\ FileEnd \in {Recs, Recs + 1} /\ (FileEnd = Recs + 1 <=> cutshort)
  BY DEF TypeOK, FileEnd
<1>4. UNCHANGED <<FileEnd, libmode, seed, maxgenerate, maxproduce, opt_produce>>
  BY <1>1 DEF runVars, FileEnd
<1>5. Moved /\ rec' \in Contents /\ pos' \in 0..FileEnd
  <2>1. CASE ReadRecord
    BY <1>3, <2>1 DEF ReadRecord, Moved, Contents
  <2>2. CASE ReadShort(pc = "loop")
    BY <1>3, <2>2 DEF ReadShort, Moved, Contents
  <2>3. CASE WrapAround(opt_produce)
    BY <1>3, <2>3 DEF WrapAround, Moved, Contents
  <2>4. CASE ReadNothing(opt_produce, pc = "loop")
    BY <1>3, <2>4 DEF ReadNothing, Moved, Contents
  <2>5. QED
    BY <1>1, <2>1, <2>2, <2>3, <2>4
<1>6. IF IsSeparator(rec')
      THEN pc' = "reading" /\ UNCHANGED <<rp_cnt, curdeal>>
      ELSE /\ pc' = IF wrap_cnt' >= 2 THEN "over" ELSE "dealt"
           /\ rp_cnt' = rp_cnt + 1 /\ curdeal' = rec'
  <2>1. IsSeparator(rec') \in BOOLEAN
    BY DEF IsSeparator
  <2>2. QED
    BY <2>1 DEF GetRpdeal, GetRecord, Decoded, ScannedEnough
<1>7. QED
  BY <1>1, <1>2, <1>3, <1>4, <1>5, <1>6

\* A number of the file is a separator when the library says so.
LEMMA SeparatorInFile ==
  ASSUME NEW r \in Nat
  PROVE  IsSeparator(r) <=> r \in separators
BY DEF IsSeparator

\* When no deal was evaluated yet, a second wrap-around finds no deal.
LEMMA EmptyFile ==
  ASSUME IInv, GetRpdeal, dealt = <<>>
  PROVE  /\ ~IsSeparator(rec') => wrap_cnt' <= 1
         /\ IsSeparator(rec') =>
              /\ wrap_cnt' > 0 => 1..pos' \subseteq separators
              /\ wrap_cnt' > 1 => 1..FileEnd \subseteq separators
<1>1. /\ libmode /\ pc \in {"loop", "reading"} /\ rp_cnt = 0 /\ wrap_cnt \in Nat
      /\ pos \in Nat /\ pos <= FileEnd /\ opt_produce \in Nat
      /\ FileEnd \in {Recs, Recs + 1} /\ Moved
  BY Read DEF IInv, TypeOK, FileEnd
<1>2. /\ pc = "loop" => wrap_cnt = 0 /\ pos < Recs
      /\ wrap_cnt > 0 => 1..pos \subseteq separators /\ opt_produce > 0
      /\ wrap_cnt > 1 => 1..FileEnd \subseteq separators
  BY <1>1 DEF IInv, Passing, Counting
<1>3. CASE wrap_cnt = 0
  <2>1. wrap_cnt' \in {0, 1} /\ (wrap_cnt' = 1 => pos' = 1 /\ rec' = 1)
    BY <1>1, <1>3 DEF Moved
  <2>2. wrap_cnt' = 1 => 1..pos' = {1}
    BY <2>1
  <2>3. IsSeparator(rec') /\ wrap_cnt' = 1 => 1..pos' \subseteq separators
    BY <2>1, <2>2, SeparatorInFile
  <2>4. QED
    BY <2>1, <2>3
<1>4. CASE wrap_cnt > 0
  <2>1. rp_cnt < opt_produce /\ pc = "reading" /\ 1..pos \subseteq separators
    BY <1>1, <1>2, <1>4
  <2>2. CASE pos < FileEnd
    <3>1. pos' = pos + 1 /\ rec' = pos + 1 /\ wrap_cnt' = wrap_cnt
      BY <1>1, <2>1, <2>2 DEF Moved
    <3>2. 1..pos' = (1..pos) \cup {pos + 1} /\ pos + 1 \in 1..FileEnd
      BY <1>1, <2>2, <3>1
    <3>3. IsSeparator(rec') <=> pos + 1 \in separators
      BY <1>1, <3>1, SeparatorInFile
    <3>4. QED
      BY <1>1, <1>2, <2>1, <3>1, <3>2, <3>3
  <2>3. CASE pos = FileEnd
    <3>1. pos' = 1 /\ rec' = 1 /\ 1..FileEnd \subseteq separators
      BY <1>1, <2>1, <2>3 DEF Moved
    <3>2. 1 \in 1..FileEnd /\ 1..pos' = {1}
      BY <1>1, <3>1
    <3>3. IsSeparator(rec')
      BY <3>1, <3>2, SeparatorInFile
    <3>4. QED
      BY <3>1, <3>2, <3>3
  <2>4. QED
    BY <1>1, <2>2, <2>3
<1>5. QED
  BY <1>1, <1>3, <1>4

\* A record that is read lies between the one before it and the deals that
\* follow, round the file: the deal after the one in hand.
LEMMA ScanStep ==
  ASSUME IInv, GetRpdeal, Scanning
  PROVE  /\ Scanning' /\ separators' = separators /\ rec' \in Nat
         /\ At \in 0..Recs /\ At' \in 0..Recs
         /\ IF rec' \in separators
            THEN /\ At' = At
                 /\ \/ At' <= pos' /\ At' + 1..pos' \subseteq separators
                    \/ (At' + 1..Recs) \cup (1..pos') \subseteq separators
            ELSE At' = rec' /\ pos' = rec' /\ Scan!IsNext(At, rec')
<1>1. /\ ~cutshort /\ rp_cnt < opt_produce /\ pos \in 0..Recs /\ FileEnd = Recs
      /\ rp_cnt \in Nat /\ opt_produce \in Nat
  <2>1. ~cutshort /\ opt_produce >= maxgenerate
    BY DEF Scanning
  <2>2. rp_cnt \in Nat /\ opt_produce \in Nat /\ maxgenerate \in Nat /\ ngen \in Nat /\ pos \in 0..FileEnd
    BY DEF IInv, TypeOK
  <2>3. ngen <= maxgenerate /\ rp_cnt = Len(dealt) /\ ngen = Len(dealt) + 1
    BY Read DEF IInv, Counting, MoreWanted
  <2>4. QED
    BY <2>1, <2>2, <2>3 DEF FileEnd
<1>2. /\ At \in 0..Recs
      /\ \/ At <= pos /\ At + 1..pos \subseteq separators
         \/ (At + 1..Recs) \cup (1..pos) \subseteq separators
  BY Read DEF IInv, Skipping
<1>3. Scanning' /\ seed' = seed /\ Moved /\ separators' = separators
  BY Read DEF Scanning
<1>4. \/ pos < Recs /\ pos' = pos + 1 /\ rec' = pos'
      \/ pos = Recs /\ pos' = 1 /\ rec' = pos'
  BY <1>1, <1>3 DEF Moved
<1>5. rec' \in Nat /\ (IF rec' \in separators THEN curdeal' = curdeal ELSE curdeal' = rec')
  BY <1>1, <1>4, Read, SeparatorInFile
<1>6. rec' \in separators => At' = At
  BY <1>3, <1>5 DEF At, StartPos, StartBlock
<1>7. rec' \notin separators => At' = rec'
  <2>1. rec' # 0
    BY <1>1, <1>4
  <2>2. QED
    BY <1>5, <2>1 DEF At
<1> DEFINE a == At
           q == pos'
<1>8. a \in 0..Recs /\ q \in 1..Recs /\ rec' = q /\ rec' \in Records
  BY <1>1, <1>2, <1>4 DEF Records
<1>9. /\ \/ a <= pos /\ a + 1..pos \subseteq separators
         \/ (a + 1..Recs) \cup (1..pos) \subseteq separators
      /\ \/ pos < Recs /\ q = pos + 1
         \/ pos = Recs /\ q = 1
      /\ pos \in 0..Recs
  BY <1>1, <1>2, <1>4
<1> HIDE DEF a, q
<1>10. CASE rec' \in separators
  <2>1. q \in separators
    BY <1>8, <1>10
  <2>2. CASE pos < Recs /\ q = pos + 1
    <3>1. 1..q = (1..pos) \cup {q} /\ (a <= pos => a + 1..q = (a + 1..pos) \cup {q} /\ a <= q)
      BY <1>8, <1>9, <2>2
    <3>2. \/ a <= q /\ a + 1..q \subseteq separators
          \/ (a + 1..Recs) \cup (1..q) \subseteq separators
      BY <1>9, <2>1, <3>1
    <3>3. QED
      BY <1>3, <1>6, <1>8, <1>10, <3>2 DEF a, q
  <2>3. CASE pos = Recs /\ q = 1
    <3>1. 1..q = {q}
      BY <2>3
    <3>2. (a + 1..Recs) \cup (1..q) \subseteq separators
      BY <1>9, <2>1, <2>3, <3>1
    <3>3. QED
      BY <1>3, <1>6, <1>8, <1>10, <3>2 DEF a, q
  <2>4. QED
    BY <1>9, <2>2, <2>3
<1>11. CASE rec' \notin separators
  <2>1. q \in 1..Recs /\ q \notin separators
    BY <1>8, <1>11
  <2>2. ASSUME NEW t \in (1..Recs) \ separators
        PROVE  Scan!Distance(a, q) <= Scan!Distance(a, t)
    <3>1. CASE q > a
      <4>1. CASE t > a
        <5>1. t >= q
          BY <1>8, <1>9, <3>1, <4>1, <2>1
        <5>2. QED
          BY <1>8, <3>1, <4>1, <5>1 DEF Scan!Distance
      <4>2. CASE ~(t > a)
        BY <1>8, <3>1, <4>2 DEF Scan!Distance
      <4>3. QED
        BY <4>1, <4>2
    <3>2. CASE ~(q > a)
      <4>1. t >= q /\ ~(t > a)
        BY <1>8, <1>9, <3>2, <2>1
      <4>2. QED
        BY <1>8, <3>2, <4>1 DEF Scan!Distance
    <3>3. QED
      BY <3>1, <3>2
  <2>3. Scan!IsNext(a, q)
    BY <2>1, <2>2 DEF Scan!IsNext, Scan!Deals
  <2>4. QED
    BY <1>3, <1>7, <1>8, <1>11, <2>3 DEF a, q
<1>12. QED
  BY <1>10, <1>11

LEMMA ReadStep ==
  ASSUME IInv, GetRpdeal
  PROVE  IInv'
<1>1. TypeOK'
  <2>1. wrap_cnt' \in Nat /\ rp_cnt' \in Nat /\ curdeal' \in Contents \cup {0}
        /\ pc' \in PC /\ lastread' \in Reads
    BY Read, SMTT(30) DEF IInv, TypeOK, Moved, PC, Reads
  <2>2. QED
    BY <2>1, Read DEF IInv, TypeOK
<1>2. wrap_cnt' \in {wrap_cnt, wrap_cnt + 1} /\ wrap_cnt' \in Nat
  BY Read DEF Moved
<1>3. Counting' /\ BeforeStart' /\ CountsAreReported'
  <2>1. dealt = <<>> => pc' # "over"
    BY <1>2, Read, EmptyFile
  <2>2. pc' = "over" => Len(dealt') >= 1
    BY <2>1, Read DEF IInv, TypeOK
  <2>3. wrap_cnt' > 0 => opt_produce > 0
    <3>1. wrap_cnt > 0 => opt_produce > 0
      BY Read DEF IInv, Counting
    <3>2. wrap_cnt' > wrap_cnt => opt_produce > rp_cnt
      BY Read DEF Moved
    <3>3. QED
      BY <1>2, <3>1, <3>2, Read
  <2>4. QED
    BY <1>2, <2>2, <2>3, Read, SMTT(30) DEF IInv, TypeOK, Counting, MoreWanted, BeforeStart, CountsAreReported
<1>4. Passing'
  <2>1. pc' = "dealt" /\ lastread' # "nothing" => curdeal' \in {Junk, pos'}
    BY Read DEF Moved
  <2>2. lastread' = "nothing" => pos' = FileEnd' /\ rp_cnt' >= opt_produce'
    BY Read DEF Moved
  <2>3. ASSUME lastread' # "nothing", NEW r \in Records
        PROVE  TimesDealt(r)' <= 2 /\ TimesDealt(r)' <= Passed(r)'
    <3>1. lastread # "nothing"
      BY <2>3, Read DEF IInv, Passing, Moved
    <3>2. TimesDealt(r) <= 2 /\ TimesDealt(r) <= Passed(r) /\ TimesDealt(r)' = TimesDealt(r)
      BY <3>1, Read DEF IInv, Passing, TimesDealt
    <3>3. TimesDealt(r) \in Nat
      <4>1. Len(dealt) \in Nat /\ DOMAIN dealt = 1..Len(dealt)
        BY DEF IInv, TypeOK
      <4>2. {n \in DOMAIN dealt : dealt[n] = r} \in SUBSET (1..Len(dealt)) /\ IsFiniteSet(1..Len(dealt))
        BY <4>1, FS_Interval
      <4>3. IsFiniteSet({n \in DOMAIN dealt : dealt[n] = r})
        BY <4>2, FS_Subset, Zenon
      <4>4. QED
        BY <4>3, FS_CardinalityType DEF TimesDealt
    <3>4. (Passed(r) <= Passed(r)' \/ 2 <= Passed(r)') /\ Passed(r) \in Nat /\ Passed(r)' \in Nat
      <4>1. Passed(r) = IF r <= pos THEN wrap_cnt + 1 ELSE wrap_cnt
        BY Read DEF Passed
      <4>2. Passed(r)' = IF r <= pos' /\ ~(pc' = "dealt" /\ r = curdeal') THEN wrap_cnt' + 1 ELSE wrap_cnt'
        BY DEF Passed
      <4>3. r \in Int /\ r >= 1 /\ r <= Recs
        BY DEF Records
      <4>4. QED
        BY <2>3, <4>1, <4>2, <4>3, Read, SMTT(30) DEF Moved
    <3>5. QED
      BY <3>2, <3>3, <3>4
  <2>4. dealt' = <<>> /\ pc' \in {"loop", "reading"} =>
          /\ pc' = "reading"
          /\ wrap_cnt' > 0 => 1..pos' \subseteq separators'
          /\ wrap_cnt' > 1 => 1..FileEnd' \subseteq separators'
    BY Read, EmptyFile
  <2>5. pc' = "reading" => IsSeparator(rec)'
    BY Read DEF IsSeparator
  <2>6. QED
    BY <2>1, <2>2, <2>3, <2>4, <2>5 DEF Passing
<1>5. Skipping'
  <2>1. CASE ~Scanning
    BY <2>1, Read DEF Skipping, Scanning
  <2>2. CASE Scanning
    <3>1. rec' \notin separators => At' + 1..pos' = {} /\ At' <= pos'
      <4>1. \A n \in 0..Recs : n + 1..n = {} /\ n <= n
        OBVIOUS
      <4>2. QED
        BY <2>2, <4>1, ScanStep, Zenon
    <3>2. QED
      BY <2>2, <3>1, ScanStep DEF Skipping
  <2>3. QED
    BY <2>1, <2>2
<1>6. QED
  BY <1>1, <1>3, <1>4, <1>5 DEF IInv

LEMMA NextInv == IInv /\ [Next]_vars => IInv'
<1> SUFFICES ASSUME IInv, [Next]_vars PROVE IInv'
  OBVIOUS
<1>1. CASE \E lib \in LibModes, s \in Seeds, prints \in BOOLEAN,
             optg \in Limits, optp \in ProduceOpts, srcg \in Limits, srcp \in Limits :
             Start(lib, s, optg, optp, srcg, srcp, prints)
  BY <1>1, StartStep
<1>2. CASE DealCards
  BY <1>2, DealCardsStep
<1>3. CASE GetRpdeal
  BY <1>3, ReadStep
<1>4. CASE \E keephand \in BOOLEAN : Evaluate(keephand)
  BY <1>4, EvaluateStep
<1>5. CASE EndLoop \/ EndRun \/ UNCHANGED vars
  BY <1>5, EndStep
<1>6. QED
  BY <1>1, <1>2, <1>3, <1>4, <1>5 DEF Next

THEOREM Invariant == Spec => []IInv
BY InitInv, NextInv, PTL DEF Spec

-----------------------------------------------------------------------------
(* What the run promises.                                                  *)

\* Every variable stays in its type.
THEOREM TypeCorrect == Spec => []TypeOK
<1>1. IInv => TypeOK
  BY DEF IInv
<1>2. QED
  BY <1>1, Invariant, PTL

\* Of a library that can be wrapped around, whatever its length, its
\* separators and the block the seed chose, no record is evaluated three times.
THEOREM TwoPasses == Spec => []AtMostTwoPasses
<1>1. IInv => AtMostTwoPasses
  BY DEF IInv, Passing, AtMostTwoPasses, Records
<1>2. QED
  BY <1>1, Invariant, PTL

\* The statistics tell how many deals were evaluated, whatever ended the run.
THEOREM StatisticsAreRight == Spec => []CountsAreReported
<1>1. IInv => CountsAreReported
  BY DEF IInv
<1>2. QED
  BY <1>1, Invariant, PTL

\* Once there are only separators to come, get_rpdeal never returns: a run that
\* gets there never ends.
THEOREM NoDealIsForGood == Spec => [](NoDealToCome => []NoDealToCome)
<1>1. IInv /\ NoDealToCome /\ [Next]_vars => NoDealToCome'
  <2> SUFFICES ASSUME IInv, NoDealToCome, [Next]_vars PROVE NoDealToCome'
    OBVIOUS
  <2>1. pc = "reading"
    BY DEF NoDealToCome
  <2>2. CASE UNCHANGED vars
    BY <2>2 DEF vars, libVars, mainVars, runVars, NoDealToCome, FileEnd, IsSeparator
  <2>3. CASE GetRpdeal
    <3>1. /\ UNCHANGED <<separators, FileEnd, opt_produce>> /\ Moved
          /\ FileEnd \in {Recs, Recs + 1} /\ pos \in Nat /\ pos <= FileEnd
          /\ rec' \in {rec} \cup (1..FileEnd)
          /\ IsSeparator(rec') => pc' = "reading" /\ rp_cnt' = rp_cnt
      <4>1. /\ UNCHANGED <<separators, FileEnd, opt_produce>> /\ Moved
            /\ FileEnd \in {Recs, Recs + 1} /\ pos \in Nat /\ pos <= FileEnd
            /\ IsSeparator(rec') => pc' = "reading" /\ rp_cnt' = rp_cnt
        BY <2>3, Read DEF IInv, TypeOK
      <4>2. lastread' # "nothing" => rec' \in 1..FileEnd
        BY <2>1, <4>1 DEF Moved
      <4>3. lastread' = "nothing" => rec' = rec
        BY <2>1, <2>3 DEF GetRpdeal, GetRecord, ReadRecord, ReadShort, WrapAround, ReadNothing
      <4>4. QED
        BY <4>1, <4>2, <4>3
    <3>2. CASE pos = FileEnd /\ rp_cnt >= opt_produce /\ IsSeparator(rec)
      <4>1. rp_cnt \in Nat /\ opt_produce \in Nat
        BY DEF IInv, TypeOK
      <4>2. pos' = pos /\ rec' = rec
        BY <2>1, <2>3, <3>1, <3>2, <4>1
           DEF GetRpdeal, GetRecord, ReadRecord, ReadShort, WrapAround, ReadNothing
      <4>3. IsSeparator(rec')
        BY <3>1, <3>2, <4>2 DEF IsSeparator
      <4>4. QED
        BY <3>1, <3>2, <4>2, <4>3 DEF NoDealToCome, IsSeparator
    <3>3. CASE 1..FileEnd \subseteq separators
      <4>1. IsSeparator(rec)
        BY <2>1, <2>3, Read DEF IInv, Passing
      <4>2. IsSeparator(rec')
        BY <3>1, <3>3, <4>1 DEF IsSeparator
      <4>3. QED
        BY <3>1, <3>3, <4>2 DEF NoDealToCome
    <3>4. QED
      BY <3>2, <3>3 DEF NoDealToCome
  <2>4. QED
    BY <2>1, <2>2, <2>3 DEF Next, Start, DealCards, Evaluate, EndLoop, EndRun
<1>2. QED
  BY <1>1, Invariant, PTL DEF Spec

\* The deals of the library come one after the other, in the order of the
\* file, from the record the seed chose on, and after the last again the first.
LEMMA ScanInit == Init => Scan!Init
BY DEF Init, LibInit, Scan!Init, Scanning

LEMMA ScanNext == IInv /\ [Next]_vars => [Scan!Next]_(Scan!svars)
<1> SUFFICES ASSUME IInv, [Next]_vars PROVE [Scan!Next]_(Scan!svars)
  OBVIOUS
<1> DEFINE at == IF ~Scanning THEN 0 ELSE IF curdeal = 0 THEN StartPos(seed) ELSE curdeal
<1>0. at = IF ~Scanning THEN 0 ELSE At
  BY DEF At
<1> HIDE DEF at
<1>1. ASSUME NEW lib \in LibModes, NEW s \in Seeds, NEW prints \in BOOLEAN,
             NEW optg \in Limits, NEW optp \in ProduceOpts, NEW srcg \in Limits, NEW srcp \in Limits,
             Start(lib, s, optg, optp, srcg, srcp, prints)
      PROVE  [Scan!Next]_(Scan!svars)
  <2>1. ~Scanning /\ seed' = s /\ curdeal' = 0 /\ separators' = separators
    BY <1>1 DEF Start, Seek, libVars, IInv, BeforeStart, Scanning
  <2>2. StartPos(s) \in 0..Recs - 1
    BY StartPosInFile
  <2>3. QED
    BY <2>1, <2>2 DEF Scan!Next, Scan!Start, Scan!svars, Scanning
<1>2. CASE GetRpdeal
  <2>1. CASE Scanning
    <3>1. Scanning' /\ separators' = separators /\ at = At /\ at' = At'
      BY <1>0, <1>2, <2>1, ScanStep DEF at, At
    <3>2. CASE rec' \in separators
      <4>1. at' = at /\ Scanning' = Scanning
        BY <1>2, <2>1, <3>1, <3>2, ScanStep DEF Scanning
      <4>2. QED
        BY <3>1, <4>1 DEF Scan!svars, at
    <3>3. CASE rec' \notin separators
      <4>1. Scan!IsNext(at, at') /\ Scanning' = Scanning
        BY <1>2, <2>1, <3>1, <3>3, ScanStep DEF Scanning
      <4>2. QED
        BY <2>1, <3>1, <4>1 DEF Scan!Next, Scan!NextDeal, at
    <3>4. QED
      BY <3>2, <3>3
  <2>2. CASE ~Scanning
    <3>1. ~Scanning' /\ Scanning' = Scanning /\ separators' = separators
      BY <1>2, <2>2, Read DEF Scanning
    <3>2. QED
      BY <2>2, <3>1 DEF Scan!svars
  <2>3. QED
    BY <2>1, <2>2
<1>3. CASE DealCards \/ (\E keephand \in BOOLEAN : Evaluate(keephand)) \/ EndLoop \/ EndRun \/ UNCHANGED vars
  <2>1. UNCHANGED <<libVars, runVars>>
    BY <1>3 DEF DealCards, Evaluate, EndLoop, EndRun, vars, mainVars
  <2>2. QED
    BY <2>1 DEF libVars, runVars, Scanning, Scan!svars, StartPos, StartBlock
<1>4. QED
  BY <1>1, <1>2, <1>3 DEF Next

THEOREM LibraryIsScanned == Spec => ImplementsScan
BY Invariant, ScanInit, ScanNext, PTL DEF Spec, ImplementsScan, Scan!Spec
=============================================================================
