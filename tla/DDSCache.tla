------------------------------ MODULE DDSCache ------------------------------
(***************************************************************************)
(* The double dummy results of the current deal, as dealdds_subs.c keeps   *)
(* them: one global DDSRES_k with 20 trick counts and a par score, the     *)
(* number of the deal it belongs to, and two ways to fill it (one board at *)
(* a time, or the whole table).  par() and csvrpt(trix()) switch to the    *)
(* table for good.  In library mode get_rpdeal fills the table.            *)
(*                                                                         *)
(* A trick count is abstracted to the number of the deal whose result for  *)
(* that hand and strain it is; the par score to the deal it was computed   *)
(* from and the side it is for.                                            *)
(***************************************************************************)
EXTENDS Integers

CONSTANTS
  Hands, Strains,  \* of which a script asks results
  FirstCell,       \* <<hand, strain>> dds_parscore tests: North, clubs
  LastCell,        \* <<hand, strain>> csv_trix tests: South, notrump
  Masks,           \* sets of hands a csvrpt may ask the tricks of
  StartModes,      \* values of dds_mode after the options: BOARD, TABLE
  LibModes,        \* {TRUE}, {FALSE} or both: -L given
  MaxGen,          \* bounds the number of deals
  DDSMayFail,      \* CalcDDtable or SidesParBin may return an error
  MaxCalls         \* bounds the calls that do

BOARD == 1         \* DDS_BOARD_MODE
TABLE == 2         \* DDS_TABLE_MODE

Cells == Hands \X Strains
Sides == {0, 1}    \* NS (north, south), EW

\* What a cell may hold besides the number of the deal it is right for.
Invalid == -1      \* INV_TRIX
Wild    == -2      \* outside 0..13, so that the assert of CheckCache fails
Junk    == -3      \* 0..13, but the result of no deal
NoPar   == 0       \* the parScore of a memset struct

NoFault == 1       \* RETURN_NO_FAULT

ASSUME ConstantsAssumption ==
  /\ FirstCell \in Cells /\ LastCell \in Cells
  /\ Masks \subseteq SUBSET Hands
  /\ StartModes \subseteq {BOARD, TABLE}
  /\ LibModes \subseteq BOOLEAN
  /\ MaxGen \in Nat
  /\ DDSMayFail \in BOOLEAN
  /\ MaxCalls \in Nat

VARIABLES
  libmode,   \* rplib_mode = 1
  ngen,      \* number of the current deal
  mode,      \* dds_mode
  dealnum,   \* dds_dealnum: the deal the cache is for
  tricks,    \* dds_res_bin.tricks
  par,       \* dds_res_bin.parScore_NS
  errcode,   \* dds_res_bin.errcode
  calls,     \* dbg_dds_lib_calls
  faulty,    \* history: the last deal for which the solver returned an error
  answer,    \* last result returned, with the question and the deal it is for
  aborted    \* an assert has failed

cacheVars == <<dealnum, tricks, par, errcode, calls, faulty>>
vars == <<libmode, ngen, mode, dealnum, tricks, par, errcode, calls, faulty, answer, aborted>>

Questions == {<<"tricks", h, s>> : h \in Hands, s \in Strains}
             \cup {<<"par", side>> : side \in Sides}
             \cup {<<"csv", m>> : m \in Masks}

\* What is reported: counts for hands and strains, or a par score for a side.
Counts(cells, table)  == {<<c[1], c[2], table[c]>> : c \in cells}
ParScore(side, score) == {<<side, score>>}

\* The right answer to a question about deal d.
Result(q, d) ==
  CASE q[1] = "tricks" -> Counts({<<q[2], q[3]>>}, [c \in Cells |-> d])
    [] q[1] = "par"    -> ParScore(q[2], d)
    [] q[1] = "csv"    -> Counts(q[2] \X Strains, [c \in Cells |-> d])

Answered(q, value) ==
  answer' = [question |-> q, deal |-> ngen, value |-> value]

Init ==
  /\ libmode \in LibModes
  /\ ngen = 0
  /\ mode \in IF libmode THEN {TABLE} ELSE StartModes
  /\ dealnum = -1
  /\ tricks = [c \in Cells |-> Invalid]
  /\ par = NoPar
  /\ errcode = 0
  /\ calls = 0
  /\ faulty = 0
  /\ answer = [question |-> <<"none">>, deal |-> 0, value |-> {}]
  /\ aborted = FALSE

-----------------------------------------------------------------------------
\* Faults: the deal number is not compared, or is off by one.
IsCurrentAnyDeal(c)  == tricks[c] # Invalid
IsCurrentOffByOne(c) == dealnum = ngen + 1 /\ tricks[c] # Invalid

\* CheckCache: the cell needs no call of the solver.  The assert on the range
\* of a count is CheckFails.
IsCurrent(c)  == dealnum = ngen /\ tricks[c] # Invalid
CheckFails(c) == dealnum = ngen /\ tricks[c] = Wild

\* true_CalcTable: 20 counts and the par score.  On an error the counts come
\* from a struct nobody has filled, and the return code is set to success.
CalcTable ==
  /\ dealnum' = ngen
  /\ errcode' = NoFault
  /\ calls' = calls + 1
  /\ \/ /\ tricks' = [c \in Cells |-> ngen]
        /\ par' = ngen
        /\ UNCHANGED faulty
     \/ /\ DDSMayFail /\ calls < MaxCalls
        /\ tricks' \in [Cells -> {Invalid, Wild, Junk}]
        /\ par' = Junk
        /\ faulty' = ngen

\* Fault: the other cells keep what they have.
SolveBoardKeeps(c) ==
  /\ dealnum' = ngen
  /\ calls' = calls + 1
  /\ tricks' = [tricks EXCEPT ![c] = ngen]
  /\ UNCHANGED <<par, errcode, faulty>>

\* ZeroCache empties a cache that is for another deal.
Emptied == IF dealnum = ngen THEN tricks ELSE [c \in Cells |-> Invalid]

\* true_SolveBoard.
SolveBoard(c) ==
  /\ dealnum' = ngen
  /\ calls' = calls + 1
  /\ tricks' = [Emptied EXCEPT ![c] = ngen]
  /\ par' = IF dealnum = ngen THEN par ELSE NoPar
  /\ errcode' = IF dealnum = ngen THEN errcode ELSE 0
  /\ UNCHANGED faulty

\* dds_tricks(compass, strain).
DdsTricks(h, s) ==
  LET c == <<h, s>> IN
  /\ ~CheckFails(c)
  /\ IF IsCurrent(c)       THEN UNCHANGED cacheVars
     ELSE IF mode = TABLE  THEN CalcTable
     ELSE SolveBoard(c)
  /\ Answered(<<"tricks", h, s>>, Counts({c}, tricks'))
  /\ UNCHANGED <<libmode, ngen, mode, aborted>>

\* In board mode an error of the solver is fatal: assert(0).
BoardFails(h, s) ==
  /\ DDSMayFail
  /\ mode = BOARD
  /\ ~CheckFails(<<h, s>>) /\ ~IsCurrent(<<h, s>>)
  /\ calls' = calls + 1
  /\ tricks' = Emptied
  /\ faulty' = ngen
  /\ aborted' = TRUE
  /\ UNCHANGED <<libmode, ngen, mode, dealnum, par, errcode, answer>>

\* rplib_Par: the par score from the trick counts of the library record.
RplibPar(side) ==
  /\ libmode
  /\ dealnum' = ngen
  /\ errcode' = NoFault
  /\ \/ /\ par' = IF \A c \in Cells : tricks[c] = ngen THEN ngen ELSE Junk
        /\ UNCHANGED faulty
     \/ /\ DDSMayFail
        /\ par' = Junk
        /\ faulty' = ngen
  /\ Answered(<<"par", side>>, ParScore(side, par'))
  /\ UNCHANGED <<libmode, ngen, mode, tricks, calls, aborted>>

\* Fault: the results of single boards pass for a table.
NeedsTableKeep(c) == ~IsCurrent(c)

\* The table has to be there: in board mode the switch forgets the cache.
NeedsTable(c) == mode # TABLE \/ ~IsCurrent(c)

\* dds_parscore(compass), from the solver.
DdsParscore(side) ==
  /\ ~libmode
  /\ ~(mode = TABLE /\ CheckFails(FirstCell))
  /\ mode' = TABLE
  /\ IF NeedsTable(FirstCell) THEN CalcTable ELSE UNCHANGED cacheVars
  /\ Answered(<<"par", side>>, ParScore(side, par'))
  /\ UNCHANGED <<libmode, ngen, aborted>>

\* csv_trix(buff, h_mask).
CsvTrix(mask) ==
  /\ ~(mode = TABLE /\ CheckFails(LastCell))
  /\ mode' = TABLE
  /\ IF NeedsTable(LastCell) THEN CalcTable ELSE UNCHANGED cacheVars
  /\ Answered(<<"csv", mask>>, Counts(mask \X Strains, tricks'))
  /\ UNCHANGED <<libmode, ngen, aborted>>

\* The assert of CheckCache ends the program.
AssertFails ==
  /\ \E c \in Cells : CheckFails(c)
  /\ aborted' = TRUE
  /\ UNCHANGED <<libmode, ngen, mode, cacheVars, answer>>

\* Fault: get_rpdeal marks the cache before it counts the deal.
NextDealEarlyMark ==
  /\ ngen < MaxGen
  /\ ngen' = ngen + 1
  /\ IF libmode
     THEN /\ tricks' = [c \in Cells |-> ngen']
          /\ par' = NoPar
          /\ errcode' = NoFault
          /\ dealnum' = ngen
          /\ UNCHANGED <<calls, faulty>>
     ELSE UNCHANGED cacheVars
  /\ UNCHANGED <<libmode, mode, answer, aborted>>

\* The main loop goes on to the next deal; in library mode get_rpdeal fills
\* the table with the results of the record.
NextDeal ==
  /\ ngen < MaxGen
  /\ ngen' = ngen + 1
  /\ IF libmode
     THEN /\ tricks' = [c \in Cells |-> ngen']
          /\ par' = NoPar
          /\ errcode' = NoFault
          /\ dealnum' = ngen'
          /\ UNCHANGED <<calls, faulty>>
     ELSE UNCHANGED cacheVars
  /\ UNCHANGED <<libmode, mode, answer, aborted>>

Query ==
  \/ \E h \in Hands, s \in Strains : DdsTricks(h, s) \/ BoardFails(h, s)
  \/ \E side \in Sides : RplibPar(side) \/ DdsParscore(side)
  \/ \E mask \in Masks : CsvTrix(mask)
  \/ AssertFails

Next ==
  /\ ~aborted
  /\ NextDeal \/ (ngen > 0 /\ Query)

Spec == Init /\ [][Next]_vars

-----------------------------------------------------------------------------
TypeOK ==
  /\ libmode \in BOOLEAN
  /\ ngen \in Nat
  /\ mode \in {BOARD, TABLE}
  /\ dealnum \in Int
  /\ tricks \in [Cells -> Int]
  /\ par \in Int
  /\ errcode \in Int
  /\ calls \in Nat
  /\ faulty \in Nat
  /\ aborted \in BOOLEAN

\* Whatever was asked before, in whatever mode: the result returned is that of
\* the deal, the hand and the strain (or the side) asked about, unless the
\* solver failed on this very deal.
AnswerIsCurrent ==
  answer.deal > 0 /\ answer.deal # faulty =>
    answer.value = Result(answer.question, answer.deal)

\* A failure leaves no trace on the deals after it, nor does the assert end a
\* run for a deal the solver did not fail on.
FailureStaysWithItsDeal ==
  /\ dealnum = ngen /\ ngen # faulty => \A c \in Cells : tricks[c] \in {Invalid, ngen}
  /\ aborted => faulty = ngen

\* No call of the solver is wasted: it finds a count that was not known for
\* this deal, or the par score that only the whole table gives.
NoCallWasted ==
  [][calls' # calls /\ faulty' # ngen =>
       \/ mode' # mode
       \/ \E c \in Cells : ~(dealnum = ngen /\ tricks[c] = ngen) /\ tricks'[c] = ngen]_vars

\* A library record brings all that tricks(), par() and trix() need: the solver
\* is never called, which the reader of a library of 10 million solved deals
\* counts on.
LibraryNeedsNoSolver == libmode => calls = 0

-----------------------------------------------------------------------------
(***************************************************************************)
(* The inductive invariant: while the cache is for the current deal, and   *)
(* the solver did not fail on it, every count is right or missing; in      *)
(* table mode none is missing and, solved or not yet asked, the par score  *)
(* is the one of the deal.                                                 *)
(***************************************************************************)
CacheCoherent ==
  /\ dealnum <= ngen
  /\ faulty <= ngen
  /\ dealnum = ngen /\ ngen # faulty =>
       /\ \A c \in Cells : tricks[c] \in {Invalid, ngen}
       /\ mode = TABLE => /\ \A c \in Cells : tricks[c] = ngen
                          /\ ~libmode => par = ngen
  /\ mode = BOARD /\ ~aborted => faulty = 0
  /\ libmode /\ ngen > 0 => dealnum = ngen
  /\ libmode => mode = TABLE /\ \A c \in Cells : ngen > 0 => tricks[c] = ngen
  /\ ngen = 0 => dealnum = -1 /\ answer.deal = 0

IInv == TypeOK /\ CacheCoherent /\ AnswerIsCurrent /\ FailureStaysWithItsDeal
        /\ LibraryNeedsNoSolver

Results == INSTANCE DealResults WITH
             deal <- ngen, failed <- faulty, MayFail <- DDSMayFail
ImplementsResults == Results!Spec
=============================================================================
