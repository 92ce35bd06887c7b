--------------------------- MODULE DDSCache_proofs ---------------------------
(***************************************************************************)
(* Proofs about DDSCache for any hands and strains, any number of deals,   *)
(* either mode, with and without a library, and with failing calls.        *)
(***************************************************************************)
EXTENDS DDSCache, TLAPS

USE ConstantsAssumption DEF ConstantsAssumption, BOARD, TABLE, Invalid, Wild, Junk,
  NoPar, NoFault

-----------------------------------------------------------------------------
\* Two tables that agree on some cells report the same counts for them.
LEMMA CountsAgree ==
  ASSUME NEW cells, NEW t, NEW u, \A c \in cells : t[c] = u[c]
  PROVE  Counts(cells, t) = Counts(cells, u)
BY DEF Counts

\* A table that is right for deal d gives the right counts of one cell, and of
\* all strains of a set of hands.
LEMMA RightCounts ==
  ASSUME NEW t, NEW d, NEW h \in Hands, NEW s \in Strains, t[<<h, s>>] = d
  PROVE  Counts({<<h, s>>}, t) = Result(<<"tricks", h, s>>, d)
<1>1. <<h, s>> \in Cells
  BY DEF Cells
<1>2. Counts({<<h, s>>}, t) = Counts({<<h, s>>}, [c \in Cells |-> d])
  BY <1>1, CountsAgree
<1>3. QED
  BY <1>2 DEF Result

\* The same for the strains of a set of hands.
LEMMA RightTable ==
  ASSUME NEW t, NEW d, NEW m \in Masks, \A c \in Cells : t[c] = d
  PROVE  Counts(m \X Strains, t) = Result(<<"csv", m>>, d)
<1>1. m \X Strains \subseteq Cells
  BY DEF Cells
<1>2. Counts(m \X Strains, t) = Counts(m \X Strains, [c \in Cells |-> d])
  BY <1>1, CountsAgree
<1>3. QED
  BY <1>2 DEF Result

\* The par score of a deal answers the question for either side.
LEMMA RightPar ==
  ASSUME NEW d, NEW side \in Sides
  PROVE  ParScore(side, d) = Result(<<"par", side>>, d)
<1> DEFINE q == <<"par", side>>
<1>1. q[1] = "par" /\ q[2] = side
  OBVIOUS
<1> HIDE DEF q
<1>2. Result(q, d) = ParScore(q[2], d)
  BY <1>1 DEF Result
<1>3. QED
  BY <1>1, <1>2 DEF q

-----------------------------------------------------------------------------
\* A run starts with an empty cache for no deal.
LEMMA InitInv == Init => IInv
<1> SUFFICES ASSUME Init PROVE IInv
  OBVIOUS
<1> USE DEF Init
<1>1. aborted \in BOOLEAN
  BY Zenon
<1>2. TypeOK
  BY <1>1 DEF TypeOK
<1>3. libmode => mode = TABLE
  OBVIOUS
<1>4. CacheCoherent
  BY <1>3 DEF CacheCoherent
<1>5. AnswerIsCurrent /\ FailureStaysWithItsDeal /\ LibraryNeedsNoSolver
  BY DEF AnswerIsCurrent, FailureStaysWithItsDeal, LibraryNeedsNoSolver
<1>6. QED
  BY <1>2, <1>4, <1>5 DEF IInv

\* A question answered from the table leaves the invariant true.
LEMMA TableStep ==
  ASSUME IInv, ngen > 0, ~aborted, NEW c \in Cells, ~(mode = TABLE /\ CheckFails(c)),
         mode' = TABLE, IF NeedsTable(c) THEN CalcTable ELSE UNCHANGED cacheVars,
         UNCHANGED <<libmode, ngen, aborted>>,
         NEW q \in Questions, NEW value, Answered(q, value),
         (\A x \in Cells : tricks'[x] = ngen) /\ par' = ngen => value = Result(q, ngen),
         libmode => q[1] = "csv",
         q[1] = "csv" /\ (\A x \in Cells : tricks'[x] = ngen) => value = Result(q, ngen)
  PROVE  IInv'
<1> USE DEF IInv, TypeOK, CacheCoherent, FailureStaysWithItsDeal, LibraryNeedsNoSolver,
      IsCurrent, CheckFails, NeedsTable, cacheVars
<1>1. dealnum' = ngen /\ faulty' <= ngen
  BY DEF CalcTable
<1>2. TypeOK'
  <2>1. CASE CalcTable
    BY <2>1 DEF CalcTable
  <2>2. CASE UNCHANGED cacheVars
    BY <2>2
  <2>3. QED
    BY <2>1, <2>2
<1>3. libmode => UNCHANGED cacheVars
  OBVIOUS
<1>4. faulty' # ngen => \A x \in Cells : tricks'[x] = ngen
  BY DEF CalcTable
<1>5. faulty' # ngen /\ ~libmode => par' = ngen
  BY DEF CalcTable
<1>6. CacheCoherent'
  BY <1>1, <1>2, <1>3, <1>4, <1>5
<1>7. AnswerIsCurrent'
  BY <1>4, <1>5 DEF Answered, AnswerIsCurrent
<1>8. FailureStaysWithItsDeal' /\ LibraryNeedsNoSolver'
  BY <1>3, <1>4
<1>9. QED
  BY <1>2, <1>6, <1>7, <1>8

\* dds_tricks keeps the invariant: in board mode the cell asked becomes right
\* and the others are emptied when they are for another deal.
LEMMA TricksStep ==
  ASSUME IInv, ngen > 0, ~aborted, NEW h \in Hands, NEW s \in Strains, DdsTricks(h, s)
  PROVE  IInv'
<1> DEFINE c == <<h, s>>
           q == <<"tricks", h, s>>
<1>0. tricks'[c] = ngen => Counts({c}, tricks') = Result(q, ngen)
  BY RightCounts
<1> USE DEF IInv, TypeOK, CacheCoherent, FailureStaysWithItsDeal, LibraryNeedsNoSolver,
      IsCurrent, CheckFails, cacheVars
<1>1. c \in Cells
  BY DEF Cells
<1>2. UNCHANGED <<libmode, ngen, mode, aborted>> /\ Answered(q, Counts({c}, tricks'))
  BY DEF DdsTricks
<1>4. CASE IsCurrent(c) /\ UNCHANGED cacheVars
  <2>1. faulty # ngen => tricks'[c] = ngen
    BY <1>1, <1>4
  <2>2. AnswerIsCurrent'
    BY <1>0, <1>2, <1>4, <2>1 DEF Answered, AnswerIsCurrent
  <2>3. QED
    BY <1>2, <1>4, <2>2 DEF Answered
<1>5. CASE ~IsCurrent(c) /\ mode = TABLE /\ CalcTable
  <2>1. ~libmode
    BY <1>1, <1>5
  <2>2. TypeOK' /\ dealnum' = ngen /\ faulty' <= ngen
    BY <1>2, <1>5 DEF CalcTable
  <2>3. faulty' # ngen => par' = ngen /\ \A x \in Cells : tricks'[x] = ngen
    BY <1>5 DEF CalcTable
  <2>4. AnswerIsCurrent'
    BY <1>0, <1>1, <1>2, <2>3 DEF Answered, AnswerIsCurrent
  <2>5. QED
    BY <1>2, <1>5, <2>1, <2>2, <2>3, <2>4
<1>6. CASE ~IsCurrent(c) /\ mode = BOARD /\ SolveBoard(c)
  <2>1. ~libmode
    BY <1>6
  <2>2. TypeOK' /\ dealnum' = ngen /\ UNCHANGED faulty
    BY <1>1, <1>2, <1>6 DEF SolveBoard, Emptied
  <2>3. tricks'[c] = ngen
    BY <1>1, <1>6 DEF SolveBoard, Emptied
  <2>4. ngen # faulty => \A x \in Cells : tricks'[x] \in {Invalid, ngen}
    BY <1>1, <1>6 DEF SolveBoard, Emptied
  <2>5. AnswerIsCurrent'
    BY <1>0, <1>2, <2>3 DEF Answered, AnswerIsCurrent
  <2>6. QED
    BY <1>2, <1>6, <2>1, <2>2, <2>4, <2>5
<1>7. QED
  BY <1>4, <1>5, <1>6 DEF DdsTricks

\* Every step keeps the invariant.
LEMMA StepInv == IInv /\ [Next]_vars => IInv'
<1> SUFFICES ASSUME IInv, [Next]_vars PROVE IInv'
  OBVIOUS
<1> USE DEF IInv, TypeOK, CacheCoherent, FailureStaysWithItsDeal, LibraryNeedsNoSolver,
      AnswerIsCurrent, cacheVars
<1>1. ASSUME NEW h \in Hands, NEW s \in Strains, ngen > 0, ~aborted, DdsTricks(h, s)
      PROVE  IInv'
  BY <1>1, TricksStep
<1>2. ASSUME NEW h \in Hands, NEW s \in Strains, ngen > 0, ~aborted, BoardFails(h, s)
      PROVE  IInv'
  <2>1. ~libmode
    BY <1>2 DEF BoardFails
  <2>2. aborted' \in BOOLEAN
    BY <1>2, Zenon DEF BoardFails
  <2>3. TypeOK'
    BY <1>2, <2>2 DEF BoardFails, Emptied
  <2>4. UNCHANGED <<libmode, ngen, mode, dealnum, par, answer>> /\ faulty' = ngen
    BY <1>2 DEF BoardFails
  <2>5. AnswerIsCurrent'
    BY <1>2, <2>4 DEF BoardFails
  <2>6. aborted' /\ ngen > 0
    BY <1>2 DEF BoardFails
  <2>7. QED
    BY <2>1, <2>3, <2>4, <2>5, <2>6
<1>3. ASSUME NEW side \in Sides, ngen > 0, ~aborted, RplibPar(side)
      PROVE  IInv'
  <2> DEFINE q == <<"par", side>>
  <2>1. /\ libmode /\ dealnum' = ngen /\ errcode' = NoFault
        /\ UNCHANGED <<libmode, ngen, mode, tricks, calls, aborted>>
        /\ Answered(q, ParScore(side, par'))
    BY <1>3 DEF RplibPar
  <2>2. par' \in Int /\ (faulty' = faulty \/ faulty' = ngen)
    BY <1>3 DEF RplibPar
  <2>3. faulty' # ngen => par' = ngen
    BY <1>3 DEF RplibPar
  <2>4. ParScore(side, ngen) = Result(q, ngen)
    BY RightPar
  <2>5. AnswerIsCurrent'
    BY <2>1, <2>3, <2>4 DEF Answered
  <2>6. QED
    BY <1>3, <2>1, <2>2, <2>5
<1>4. ASSUME NEW side \in Sides, ngen > 0, ~aborted, DdsParscore(side)
      PROVE  IInv'
  <2> DEFINE q == <<"par", side>>
  <2>1. q \in Questions /\ q[1] # "csv"
    BY DEF Questions
  <2>2. ParScore(side, ngen) = Result(q, ngen)
    BY RightPar
  <2>3. QED
    BY <1>4, <2>1, <2>2, TableStep DEF DdsParscore
<1>5. ASSUME NEW mask \in Masks, ngen > 0, ~aborted, CsvTrix(mask)
      PROVE  IInv'
  <2> DEFINE q == <<"csv", mask>>
  <2>1. q \in Questions /\ q[1] = "csv"
    BY DEF Questions
  <2>2. (\A x \in Cells : tricks'[x] = ngen)
        => Counts(mask \X Strains, tricks') = Result(q, ngen)
    BY RightTable
  <2>3. QED
    BY <1>5, <2>1, <2>2, TableStep DEF CsvTrix
<1>6. ASSUME AssertFails
      PROVE  IInv'
  <2>1. aborted' \in BOOLEAN
    BY <1>6, Zenon DEF AssertFails
  <2>2. ngen = faulty
    BY <1>6 DEF AssertFails, CheckFails
  <2>3. QED
    BY <1>6, <2>1, <2>2 DEF AssertFails
<1>7. ASSUME NextDeal, ~aborted
      PROVE  IInv'
  <2>1. CASE libmode
    <3>1. TypeOK'
      BY <1>7, <2>1 DEF NextDeal
    <3>2. QED
      BY <1>7, <2>1, <3>1 DEF NextDeal
  <2>2. CASE ~libmode
    <3>1. ngen' = ngen + 1 /\ dealnum' < ngen' /\ faulty' < ngen'
      BY <1>7, <2>2 DEF NextDeal
    <3>2. QED
      BY <1>7, <2>2, <3>1 DEF NextDeal
  <2>3. QED
    BY <2>1, <2>2
<1>8. CASE UNCHANGED vars
  BY <1>8 DEF vars
<1>9. QED
  BY <1>1, <1>2, <1>3, <1>4, <1>5, <1>6, <1>7, <1>8 DEF Next, Query

-----------------------------------------------------------------------------
\* The inductive invariant holds throughout every run.
THEOREM Safety == Spec => []IInv
<1>1. Init => IInv
  BY InitInv
<1>2. IInv /\ [Next]_vars => IInv'
  BY StepInv
<1>3. QED
  BY <1>1, <1>2, PTL DEF Spec

\* dds_tricks, dds_parscore and csv_trix return results of the current deal,
\* whatever was asked before and whatever the mode, as long as the solver does
\* not fail on that deal.
THEOREM AnswersAreCurrent == Spec => []AnswerIsCurrent
<1>1. IInv => AnswerIsCurrent
  BY DEF IInv
<1>2. QED
  BY <1>1, Safety, PTL

\* A failing call of the solver spoils the results of its own deal only.
THEOREM FailuresAreContained == Spec => []FailureStaysWithItsDeal
<1>1. IInv => FailureStaysWithItsDeal
  BY DEF IInv
<1>2. QED
  BY <1>1, Safety, PTL

\* A run over a library never calls the solver.
THEOREM LibraryRunsSolveNothing == Spec => []LibraryNeedsNoSolver
<1>1. IInv => LibraryNeedsNoSolver
  BY DEF IInv
<1>2. QED
  BY <1>1, Safety, PTL

\* The step form of NoCallWasted.
LEMMA CallStep ==
  ASSUME IInv, [Next]_vars, calls' # calls, faulty' # ngen
  PROVE  \/ mode' # mode
         \/ \E c \in Cells : ~(dealnum = ngen /\ tricks[c] = ngen) /\ tricks'[c] = ngen
<1> USE DEF IInv, TypeOK, CacheCoherent, FailureStaysWithItsDeal, IsCurrent, CheckFails,
      cacheVars
<1>1. ASSUME NEW c \in Cells, ~IsCurrent(c), tricks'[c] = ngen
      PROVE  \E x \in Cells : ~(dealnum = ngen /\ tricks[x] = ngen) /\ tricks'[x] = ngen
  BY <1>1
<1>2. ASSUME NEW h \in Hands, NEW s \in Strains, DdsTricks(h, s)
      PROVE  <<h, s>> \in Cells /\ ~IsCurrent(<<h, s>>) /\ tricks'[<<h, s>>] = ngen
  <2>1. <<h, s>> \in Cells
    BY DEF Cells
  <2>2. QED
    BY <1>2, <2>1 DEF DdsTricks, CalcTable, SolveBoard, Emptied
<1>3. ASSUME NEW c \in Cells, mode' = mode, mode' = TABLE,
             IF NeedsTable(c) THEN CalcTable ELSE UNCHANGED cacheVars
      PROVE  ~IsCurrent(c) /\ tricks'[c] = ngen
  BY <1>3 DEF NeedsTable, CalcTable
<1>4. CASE \E h \in Hands, s \in Strains : DdsTricks(h, s)
  BY <1>1, <1>2, <1>4
<1>5. CASE \E side \in Sides : DdsParscore(side)
  BY <1>1, <1>3, <1>5 DEF DdsParscore
<1>6. CASE \E mask \in Masks : CsvTrix(mask)
  BY <1>1, <1>3, <1>6 DEF CsvTrix
<1>7. CASE \/ \E h \in Hands, s \in Strains : BoardFails(h, s)
           \/ \E side \in Sides : RplibPar(side)
           \/ AssertFails \/ NextDeal \/ UNCHANGED vars
  BY <1>7 DEF BoardFails, RplibPar, AssertFails, NextDeal, vars
<1>8. QED
  BY <1>4, <1>5, <1>6, <1>7 DEF Next, Query

\* The caches never call the solver for what they already hold.
THEOREM CallsAreNeeded == Spec => NoCallWasted
<1>1. IInv /\ [Next]_vars =>
        [calls' # calls /\ faulty' # ngen =>
           \/ mode' # mode
           \/ \E c \in Cells :
                ~(dealnum = ngen /\ tricks[c] = ngen) /\ tricks'[c] = ngen]_vars
  BY CallStep
<1>2. QED
  BY <1>1, Safety, PTL DEF Spec, NoCallWasted

\* A step of the cache is a question answered with the right result (or on a
\* deal the solver failed on), a failure, the next deal, or nothing the
\* evaluation sees.
LEMMA ResultsStep ==
  ASSUME IInv, IInv', [Next]_vars
  PROVE  [Results!Next]_Results!rvars
<1> USE DEF Results!rvars
<1>a. ASSUME CalcTable PROVE Results!MaySolve
  BY <1>a DEF CalcTable, Results!MaySolve
<1>b. ASSUME NEW c \in Cells, SolveBoard(c) PROVE Results!MaySolve
  BY <1>b DEF SolveBoard, Results!MaySolve
<1>c. ASSUME UNCHANGED cacheVars PROVE Results!MaySolve
  BY <1>c DEF cacheVars, Results!MaySolve
<1>1. ASSUME NEW q \in Questions, NEW value, ngen > 0, ngen' = ngen, Answered(q, value),
             Results!MaySolve
      PROVE  Results!Next
  <2>1. answer' = [question |-> q, deal |-> ngen, value |-> value]
    BY <1>1 DEF Answered
  <2>2. faulty' # ngen => value = Result(q, ngen)
    BY <1>1, <2>1 DEF IInv, AnswerIsCurrent
  <2>3. Results!AskAbout(q)
    BY <1>1, <2>1, <2>2 DEF Results!AskAbout
  <2>4. QED
    BY <2>3 DEF Results!Next
<1>2. ASSUME NEW h \in Hands, NEW s \in Strains, ngen > 0, DdsTricks(h, s)
      PROVE  Results!Next
  <2>1. <<"tricks", h, s>> \in Questions /\ <<h, s>> \in Cells
    BY DEF Questions, Cells
  <2>2. Results!MaySolve
    BY <1>a, <1>b, <1>c, <1>2, <2>1 DEF DdsTricks
  <2>3. QED
    BY <1>1, <1>2, <2>1, <2>2 DEF DdsTricks
<1>3. ASSUME NEW side \in Sides, ngen > 0, RplibPar(side) \/ DdsParscore(side)
      PROVE  Results!Next
  <2>1. <<"par", side>> \in Questions
    BY DEF Questions
  <2>2. Results!MaySolve
    BY <1>a, <1>b, <1>c, <1>3 DEF RplibPar, DdsParscore, Results!MaySolve
  <2>3. QED
    BY <1>1, <1>3, <2>1, <2>2 DEF RplibPar, DdsParscore
<1>4. ASSUME NEW mask \in Masks, ngen > 0, CsvTrix(mask)
      PROVE  Results!Next
  <2>1. <<"csv", mask>> \in Questions
    BY DEF Questions
  <2>2. Results!MaySolve
    BY <1>a, <1>b, <1>c, <1>4 DEF CsvTrix
  <2>3. QED
    BY <1>1, <1>4, <2>1, <2>2 DEF CsvTrix
<1>5. ASSUME NextDeal
      PROVE  Results!Next
  <2>1. Results!NextDeal
    BY <1>5 DEF NextDeal, Results!NextDeal, cacheVars
  <2>2. QED
    BY <2>1 DEF Results!Next
<1>6. ASSUME NEW h \in Hands, NEW s \in Strains, BoardFails(h, s)
      PROVE  Results!Next
  <2>1. Results!Fail
    BY <1>6 DEF BoardFails, Results!Fail
  <2>2. QED
    BY <2>1 DEF Results!Next
<1>7. CASE AssertFails \/ UNCHANGED vars
  BY <1>7 DEF AssertFails, vars, cacheVars
<1>8. QED
  BY <1>2, <1>3, <1>4, <1>5, <1>6, <1>7 DEF Next, Query

\* Nobody can tell the caches, the two modes and the library from a solver
\* asked afresh about every deal.
THEOREM Implements == Spec => ImplementsResults
<1>1. Init => Results!Init
  BY DEF Init, Results!Init, Results!NothingAsked
<1>2. IInv /\ IInv' /\ [Next]_vars => [Results!Next]_Results!rvars
  BY ResultsStep
<1>3. QED
  BY <1>1, <1>2, Safety, PTL DEF Spec, ImplementsResults, Results!Spec
=============================================================================
