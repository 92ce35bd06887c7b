---------------------------- MODULE Startup_proofs ----------------------------
(***************************************************************************)
(* Proofs about Startup, for command lines and scripts of any length with  *)
(* any values: the settings in force are the ones that were wanted.        *)
(***************************************************************************)
EXTENDS Startup, NumberFacts

USE StartupAssumption DEF BOARD, TABLE, NoPar, NotGiven, Numbered, Keywords

-----------------------------------------------------------------------------
(* What one more switch or statement does to the value of a name.          *)

\* The last value of a name in a longer sequence is that of the new element,
\* if it has the name.
LEMMA LastOfLonger ==
  ASSUME NEW S, NEW seq \in Seq(S), NEW e \in S, NEW name, NEW d
  PROVE  LastValue(Append(seq, e), name, d) =
           IF e[1] = name THEN e[2] ELSE LastValue(seq, name, d)
<1> DEFINE I == {n \in 1..Len(seq) : seq[n][1] = name}
           J == {n \in 1..Len(Append(seq, e)) : Append(seq, e)[n][1] = name}
<1>0. /\ LastValue(seq, name, d) = IF I = {} THEN d ELSE Value(seq, Max(I), d)
      /\ LastValue(Append(seq, e), name, d) =
           IF J = {} THEN d ELSE Value(Append(seq, e), Max(J), d)
  BY DEF LastValue, Value, SelectLastInSeq
<1>1. J = IF e[1] = name THEN I \cup {Len(seq) + 1} ELSE I
  OBVIOUS
<1>2. /\ Len(seq) \in Nat /\ I \subseteq Int
      /\ \A n \in I : n # 0 /\ n <= Len(seq) /\ Append(seq, e)[n] = seq[n]
      /\ Append(seq, e)[Len(seq) + 1] = e
  OBVIOUS
<1> HIDE DEF I, J
<1>3. CASE e[1] = name
  <2>1. J = I \cup {Len(seq) + 1}
    BY <1>1, <1>3
  <2>2. Max(J) = Len(seq) + 1
    BY <1>2, <2>1 DEF Max
  <2>3. QED
    BY <1>0, <1>2, <1>3, <2>1, <2>2 DEF Value
<1>4. CASE e[1] # name
  <2>1. J = I
    BY <1>1, <1>4
  <2>2. I # {} => Max(I) \in I
    <3>1. I # {} => \E m \in I : \A n \in I : n <= m
      <4>1. I \subseteq Int /\ Len(seq) \in Int /\ \A n \in I : n <= Len(seq)
        BY <1>2
      <4>2. QED
        BY <4>1, GreatestElement, Zenon
    <3>2. QED
      BY <1>2, <3>1 DEF Max
  <2>3. QED
    BY <1>0, <1>2, <1>4, <2>1, <2>2 DEF Value
<1>5. QED
  BY <1>3, <1>4

\* The first value of a name that is not 0 is not changed by later elements.
LEMMA FirstOfLonger ==
  ASSUME NEW S, NEW seq \in Seq(S), NEW e \in S, NEW name
  PROVE  FirstValue(Append(seq, e), name) =
           IF FirstValue(seq, name) = 0 /\ e[1] = name THEN e[2]
           ELSE FirstValue(seq, name)
<1> DEFINE I == {n \in 1..Len(seq) : seq[n][1] = name /\ seq[n][2] # 0}
           J == {n \in 1..Len(Append(seq, e)) :
                   Append(seq, e)[n][1] = name /\ Append(seq, e)[n][2] # 0}
<1>0. /\ FirstValue(seq, name) = IF I = {} THEN 0 ELSE Value(seq, Min(I), 0)
      /\ FirstValue(Append(seq, e), name) =
           IF J = {} THEN 0 ELSE Value(Append(seq, e), Min(J), 0)
  BY DEF FirstValue, Value, SelectInSeq
<1>1. J = IF e[1] = name /\ e[2] # 0 THEN I \cup {Len(seq) + 1} ELSE I
  BY SMTT(60)
<1>2. /\ Len(seq) \in Nat /\ I \subseteq Nat
      /\ \A n \in I : /\ n # 0 /\ n <= Len(seq) /\ Append(seq, e)[n] = seq[n]
                      /\ seq[n][2] # 0
      /\ Append(seq, e)[Len(seq) + 1] = e
  OBVIOUS
<1> HIDE DEF I, J
<1>3. CASE I # {}
  <2>1. PICK m \in I : \A n \in I : m <= n
    BY <1>2, <1>3, LeastElement
  <2>2. Min(I) = m
    BY <1>2, <2>1 DEF Min
  <2>3. m \in J /\ \A n \in J : m <= n
    BY <1>1, <1>2, <2>1
  <2>4. Min(J) = m
    <3>1. J \subseteq Nat
      BY <1>1, <1>2
    <3>2. QED
      BY <2>3, <3>1 DEF Min
  <2>5. QED
    BY <1>0, <1>2, <1>3, <2>1, <2>2, <2>3, <2>4 DEF Value
<1>4. CASE I = {} /\ e[1] = name /\ e[2] # 0
  <2>1. J = {Len(seq) + 1}
    BY <1>1, <1>4
  <2>2. Min(J) = Len(seq) + 1
    BY <1>2, <2>1 DEF Min
  <2>3. QED
    BY <1>0, <1>2, <1>4, <2>1, <2>2 DEF Value
<1>5. CASE I = {} /\ ~(e[1] = name /\ e[2] # 0)
  BY <1>0, <1>1, <1>5
<1>6. QED
  BY <1>3, <1>4, <1>5

\* An empty sequence gives no name a value.
LEMMA NoValues ==
  /\ \A name, d : LastValue(<<>>, name, d) = d
  /\ \A name : FirstValue(<<>>, name) = 0
BY DEF LastValue, FirstValue, Value, SelectLastInSeq, SelectInSeq

\* What a longer command line has of a letter, apart from its value.
LEMMA GivenInLonger ==
  ASSUME argv \in Seq(Switches), NEW e \in Switches, argv' = Append(argv, e), NEW l
  PROVE  Given(l)' <=> (e[1] = l \/ Given(l))
<1>1. /\ DOMAIN argv' = DOMAIN argv \cup {Len(argv) + 1}
      /\ \A n \in DOMAIN argv : argv'[n] = argv[n]
      /\ argv'[Len(argv) + 1] = e
  OBVIOUS
<1>2. QED
  BY <1>1 DEF Given

\* A name has no value without an element of that name.
LEMMA NotGivenNoValue ==
  ASSUME NEW S, NEW seq \in Seq(S), NEW name, NEW d,
         ~ \E n \in DOMAIN seq : seq[n][1] = name
  PROVE  LastValue(seq, name, d) = d
<1>1. {n \in 1..Len(seq) : seq[n][1] = name} = {}
  OBVIOUS
<1>2. QED
  BY <1>1 DEF LastValue, Value, SelectLastInSeq

\* With one, the value is not the default.
LEMMA GivenHasValue ==
  ASSUME NEW S, NEW seq \in Seq(S), NEW name, NEW c, NEW d,
         \E n \in DOMAIN seq : seq[n][1] = name
  PROVE  LastValue(seq, name, c) = LastValue(seq, name, d)
<1> DEFINE I == {n \in 1..Len(seq) : seq[n][1] = name}
<1>1. I # {} /\ I \subseteq Int /\ Len(seq) \in Int /\ \A n \in I : n <= Len(seq)
  OBVIOUS
<1>2. 0 \notin I
  OBVIOUS
<1>3. \A x : LastValue(seq, name, x) = Value(seq, Max(I), x)
  BY <1>1 DEF LastValue, Value, SelectLastInSeq
<1> HIDE DEF I
<1>4. \E m \in I : \A n \in I : n <= m
  BY <1>1, GreatestElement, Zenon
<1>5. Max(I) \in I
  BY <1>1, <1>4 DEF Max
<1>6. QED
  BY <1>2, <1>3, <1>5 DEF Value

-----------------------------------------------------------------------------
(* The inductive invariant.                                                *)

\* Initially nothing is said and everything has its default.
LEMMA InitInv == Init => IInv
<1> SUFFICES ASSUME Init PROVE IInv
  OBVIOUS
<1>1. TypeOK
  BY DEF Init, TypeOK, Names
<1>2. \A l, d : LastSwitch(l, d) = d /\ LastStatement(l, d) = d /\ FirstLimit(l) = 0 /\ ~Given(l)
  BY NoValues DEF Init, LastSwitch, LastStatement, FirstLimit, Given
<1>3. StructHoldsSwitches /\ GlobalsHoldBoth
  BY <1>2 DEF Init, StructHoldsSwitches, GlobalsHoldBoth, Wanted
<1>4. QED
  BY <1>1, <1>2, <1>3 DEF Init, IInv, Library, CommandLineTakesPrecedence,
     PrintedSeedReproduces, LibraryOverrules, SolverIsReady

OptsType == [error : 0..2, max_generate : Int, max_produce : Int, seed : Int,
             seed_provided : {NotGiven, 1}, title : Names, opc_opener : Names,
             rplib_mode : {0, 1}, rplib_seed : Int]
GlobType == [maxgenerate : Int, maxproduce : Int, seed : Int,
             seed_provided : {NotGiven, 1}, title : Names, Opener : Names,
             swapping : Int, dds_mode : {BOARD, TABLE}, nThreads : Int,
             par_vuln : Int, will_print : BOOLEAN]

\* A switch of letter l and value v keeps the types of the settings and sets
\* those it is for.
SwitchSets(l, v) ==
  /\ opts' \in OptsType /\ glob' \in GlobType
  /\ opts'.max_generate = IF l = "g" THEN v ELSE opts.max_generate
  /\ opts'.max_produce = IF l = "p" THEN v ELSE opts.max_produce
  /\ opts'.seed = IF l = "s" THEN v ELSE opts.seed
  /\ opts'.seed_provided = IF l = "s" THEN 1 ELSE opts.seed_provided
  /\ opts'.title = IF l = "T" THEN v ELSE opts.title
  /\ opts'.rplib_mode = IF l = "L" THEN 1 ELSE opts.rplib_mode
  /\ glob'.maxgenerate = IF l = "g" THEN v ELSE glob.maxgenerate
  /\ glob'.maxproduce = IF l = "p" THEN v ELSE glob.maxproduce
  /\ glob'.seed = IF l = "s" THEN v ELSE glob.seed
  /\ glob'.title = IF l = "T" THEN v ELSE glob.title

LEMMA SwitchSetsItsOwn ==
  ASSUME opts \in OptsType, glob \in GlobType,
         NEW s \in Switches, SetOption(s[1], s[2])
  PROVE  SwitchSets(s[1], s[2])
<1> DEFINE l == s[1]  v == s[2]
<1>1. /\ l \in {"T", "O"} => v \in Names
      /\ l \in Numbered => v \in Int
  BY DEF Names
<1> HIDE DEF l, v
<1>2. CASE l = "g"
  <2>1. opts' = [opts EXCEPT !.max_generate = v] /\ glob' = [glob EXCEPT !.maxgenerate = v]
    BY <1>2 DEF SetOption, l, v
  <2>2. QED
    BY <1>1, <1>2, <2>1 DEF SwitchSets, OptsType, GlobType, l, v
<1>3. CASE l = "p"
  <2>1. opts' = [opts EXCEPT !.max_produce = v] /\ glob' = [glob EXCEPT !.maxproduce = v]
    BY <1>3 DEF SetOption, l, v
  <2>2. QED
    BY <1>1, <1>3, <2>1 DEF SwitchSets, OptsType, GlobType, l, v
<1>4. CASE l = "s"
  <2>1. /\ opts' = [opts EXCEPT !.seed = v, !.seed_provided = 1, !.rplib_seed = v]
        /\ glob' = [glob EXCEPT !.seed = v, !.seed_provided = 1]
    BY <1>4 DEF SetOption, l, v
  <2>2. QED
    BY <1>1, <1>4, <2>1 DEF SwitchSets, OptsType, GlobType, l, v
<1>5. CASE l = "T"
  <2>1. opts' = [opts EXCEPT !.title = v] /\ glob' = [glob EXCEPT !.title = v]
    BY <1>5 DEF SetOption, l, v
  <2>2. QED
    BY <1>1, <1>5, <2>1 DEF SwitchSets, OptsType, GlobType, l, v
<1>6. CASE l = "O"
  <2>1. opts' = [opts EXCEPT !.opc_opener = v] /\ glob' = glob
    BY <1>6 DEF SetOption, l, v
  <2>2. QED
    BY <1>1, <1>6, <2>1 DEF SwitchSets, OptsType, GlobType, l, v
<1>7. CASE l = "x"
  <2>1. opts' = opts /\ glob' = [glob EXCEPT !.swapping = v]
    BY <1>7 DEF SetOption, l, v
  <2>2. QED
    BY <1>1, <1>7, <2>1 DEF SwitchSets, OptsType, GlobType, l, v
<1>8. CASE l = "P"
  <2>1. opts' = opts /\ glob' = [glob EXCEPT !.par_vuln = v]
    BY <1>8 DEF SetOption, l, v
  <2>2. QED
    BY <1>1, <1>8, <2>1 DEF SwitchSets, OptsType, GlobType, l, v
<1>9. CASE l = "M"
  <2>1. /\ opts' = opts
        /\ glob' = [glob EXCEPT !.dds_mode = IF v \in {BOARD, TABLE} THEN v ELSE @]
    BY <1>9 DEF SetOption, l, v
  <2>2. QED
    BY <1>1, <1>9, <2>1 DEF SwitchSets, OptsType, GlobType, l, v
<1>10. CASE l = "R"
  <2>1. /\ opts' = [opts EXCEPT !.error = IF v > MaxThreads THEN 2 ELSE @]
        /\ glob' = [glob EXCEPT !.nThreads = IF v > MaxThreads THEN 9 ELSE v]
    BY <1>10 DEF SetOption, l, v
  <2>2. QED
    BY <1>1, <1>10, <2>1 DEF SwitchSets, OptsType, GlobType, l, v
<1>11. CASE l = "L"
  <2> DEFINE block == IF opts.seed_provided > 0 THEN opts.seed ELSE 0
  <2>1. opts' = [opts EXCEPT !.rplib_mode = 1, !.rplib_seed = block] /\ glob' = glob
    BY <1>11 DEF SetOption, l, v
  <2>2. block \in Int
    BY DEF OptsType
  <2> HIDE DEF block
  <2>3. QED
    BY <1>1, <1>11, <2>1, <2>2 DEF SwitchSets, OptsType, GlobType, l, v
<1>12. CASE l \notin {"g", "p", "s", "T", "O", "x", "P", "M", "R", "L"}
  <2>1. opts' = [opts EXCEPT !.error = 1] /\ glob' = glob
    BY <1>12 DEF SetOption, l, v
  <2>2. QED
    BY <1>1, <1>12, <2>1 DEF SwitchSets, OptsType, GlobType, l, v
<1>13. QED
  BY <1>2, <1>3, <1>4, <1>5, <1>6, <1>7, <1>8, <1>9, <1>10, <1>11, <1>12

\* A switch is the last of its letter, and its setting its value.
LEMMA GetOptionStep == IInv /\ GetOption => IInv'
<1> SUFFICES ASSUME IInv, GetOption PROVE IInv'
  OBVIOUS
<1>1. PICK s \in Switches : argv' = Append(argv, s) /\ SetOption(s[1], s[2])
  BY DEF GetOption
<1>2. /\ phase = "options" /\ script = <<>>
      /\ UNCHANGED <<phase, script, resources, rng, startblock>>
      /\ TypeOK /\ StructHoldsSwitches /\ GlobalsHoldBoth
  BY DEF GetOption, IInv
<1>3. SwitchSets(s[1], s[2])
  BY <1>1, <1>2, SwitchSetsItsOwn DEF TypeOK, OptsType, GlobType
<1>4. argv \in Seq(Switches) /\ argv' \in Seq(Switches)
  BY <1>1, <1>2 DEF TypeOK
<1>5. TypeOK'
  BY <1>2, <1>3, <1>4 DEF TypeOK, SwitchSets, OptsType, GlobType
<1>6. \A l, d : LastSwitch(l, d)' = IF s[1] = l THEN s[2] ELSE LastSwitch(l, d)
  BY <1>1, <1>4, LastOfLonger DEF LastSwitch
<1>7. \A l : Given(l)' <=> (s[1] = l \/ Given(l))
  BY <1>1, <1>4, GivenInLonger
<1>8. \A k, d : /\ LastStatement(k, d) = d /\ LastStatement(k, d)' = d
                /\ FirstLimit(k) = 0 /\ FirstLimit(k)' = 0
  BY <1>2, NoValues DEF LastStatement, FirstLimit
<1>9. StructHoldsSwitches'
  <2>1. opts'.seed_provided > 0 <=> (s[1] = "s" \/ opts.seed_provided > 0)
    BY <1>2, <1>3 DEF SwitchSets, TypeOK
  <2>2. opts'.seed_provided > 0 <=> Given("s")'
    BY <1>2, <1>7, <2>1 DEF StructHoldsSwitches
  <2>3. QED
    BY <1>2, <1>3, <1>6, <2>2 DEF StructHoldsSwitches, SwitchSets
<1>10. GlobalsHoldBoth'
  BY <1>2, <1>3, <1>6, <1>8 DEF GlobalsHoldBoth, Wanted, SwitchSets
<1>11. (opts.rplib_mode = 1 <=> Library)'
  BY <1>3, <1>7 DEF IInv, Library, SwitchSets
<1>12. QED
  BY <1>2, <1>5, <1>9, <1>10, <1>11 DEF IInv, CommandLineTakesPrecedence,
     PrintedSeedReproduces, LibraryOverrules, SolverIsReady

\* A statement of keyword k and value v does the same to the globals, except
\* that a limit stays what it is once it is not 0.
StatementSets(k, v) ==
  /\ glob' \in GlobType
  /\ glob'.maxgenerate = IF k = "generate" /\ glob.maxgenerate = 0 THEN v ELSE glob.maxgenerate
  /\ glob'.maxproduce = IF k = "produce" /\ glob.maxproduce = 0 THEN v ELSE glob.maxproduce
  /\ glob'.seed = IF k = "seed" THEN v ELSE glob.seed
  /\ glob'.title = IF k = "title" THEN v ELSE glob.title

LEMMA StatementSetsItsOwn ==
  ASSUME glob \in GlobType, NEW s \in Statements, SetGlobal(s[1], s[2])
  PROVE  StatementSets(s[1], s[2])
<1> DEFINE k == s[1]  v == s[2]
<1>1. /\ k \in {"generate", "produce", "seed", "title", "opener", "average"}
      /\ k \in {"title", "opener"} => v \in Names
      /\ k \in {"generate", "produce", "seed"} => v \in Int
  BY DEF Names
<1> HIDE DEF k, v
<1>2. CASE k = "generate"
  <2>1. glob' = [glob EXCEPT !.maxgenerate = IF @ = 0 THEN v ELSE @]
    BY <1>2 DEF SetGlobal, k, v
  <2>2. QED
    BY <1>1, <1>2, <2>1 DEF StatementSets, GlobType, k, v
<1>3. CASE k = "produce"
  <2>1. glob' = [glob EXCEPT !.maxproduce = IF @ = 0 THEN v ELSE @]
    BY <1>3 DEF SetGlobal, k, v
  <2>2. QED
    BY <1>1, <1>3, <2>1 DEF StatementSets, GlobType, k, v
<1>4. CASE k = "seed"
  <2>1. glob' = [glob EXCEPT !.seed = v, !.seed_provided = 1]
    BY <1>4 DEF SetGlobal, k, v
  <2>2. QED
    BY <1>1, <1>4, <2>1 DEF StatementSets, GlobType, k, v
<1>5. CASE k = "title"
  <2>1. glob' = [glob EXCEPT !.title = v]
    BY <1>5 DEF SetGlobal, k, v
  <2>2. QED
    BY <1>1, <1>5, <2>1 DEF StatementSets, GlobType, k, v
<1>6. CASE k = "opener"
  <2>1. glob' = [glob EXCEPT !.Opener = v]
    BY <1>6 DEF SetGlobal, k, v
  <2>2. QED
    BY <1>1, <1>6, <2>1 DEF StatementSets, GlobType, k, v
<1>7. CASE k = "average"
  <2>1. glob' = [glob EXCEPT !.will_print = FALSE]
    BY <1>7 DEF SetGlobal, k, v
  <2>2. QED
    BY <1>1, <1>7, <2>1 DEF StatementSets, GlobType, k, v
<1>8. QED
  BY <1>1, <1>2, <1>3, <1>4, <1>5, <1>6, <1>7

\* A statement of the script gives the globals what the switches left open.
LEMMA ReadStatementStep == IInv /\ ReadStatement => IInv'
<1> SUFFICES ASSUME IInv, ReadStatement PROVE IInv'
  OBVIOUS
<1>1. PICK s \in Statements : script' = Append(script, s) /\ SetGlobal(s[1], s[2])
  BY DEF ReadStatement
<1>2. /\ phase = "script"
      /\ UNCHANGED <<phase, argv, opts, resources, rng, startblock>>
      /\ TypeOK /\ StructHoldsSwitches /\ GlobalsHoldBoth
  BY DEF ReadStatement, IInv
<1>3. StatementSets(s[1], s[2])
  BY <1>1, <1>2, StatementSetsItsOwn DEF TypeOK, GlobType
<1>4. script \in Seq(Statements)
  BY <1>2 DEF TypeOK
<1>5. \A k, d : LastStatement(k, d)' = IF s[1] = k THEN s[2] ELSE LastStatement(k, d)
  BY <1>1, <1>4, LastOfLonger DEF LastStatement
<1>6. \A k : FirstLimit(k)' = IF FirstLimit(k) = 0 /\ s[1] = k THEN s[2] ELSE FirstLimit(k)
  BY <1>1, <1>4, FirstOfLonger DEF FirstLimit
<1>7. /\ \A l, d : LastSwitch(l, d)' = LastSwitch(l, d)
      /\ \A l : Given(l)' = Given(l)
  BY <1>2 DEF LastSwitch, Given
<1>8. TypeOK'
  BY <1>1, <1>2, <1>3, <1>4 DEF TypeOK, StatementSets, GlobType
<1>9. StructHoldsSwitches'
  BY <1>2, <1>7 DEF StructHoldsSwitches
<1>10. GlobalsHoldBoth'
  BY <1>1, <1>2, <1>3, <1>5, <1>6, <1>7 DEF GlobalsHoldBoth, Wanted, StatementSets
<1>11. QED
  BY <1>2, <1>7, <1>8, <1>9, <1>10 DEF IInv, Library, CommandLineTakesPrecedence,
     PrintedSeedReproduces, LibraryOverrules, SolverIsReady

\* The phases that only end keep what was read; an invalid switch ends it all.
LEMMA EndOptionsStep == IInv /\ EndOptions => IInv'
<1> SUFFICES ASSUME IInv, EndOptions PROVE IInv'
  OBVIOUS
<1>1. /\ phase = "options" /\ phase' \in {"exit", "script"}
      /\ UNCHANGED <<argv, script, opts, glob, resources, rng, startblock>>
  BY DEF EndOptions
<1>2. TypeOK'
  BY <1>1 DEF IInv, TypeOK
<1>3. (opts.rplib_mode = 1 <=> Library)' /\ StructHoldsSwitches' /\ GlobalsHoldBoth'
  BY <1>1 DEF IInv, Library, Given, StructHoldsSwitches, GlobalsHoldBoth, Wanted,
     LastSwitch, LastStatement, FirstLimit
<1>4. QED
  BY <1>1, <1>2, <1>3 DEF IInv, CommandLineTakesPrecedence,
     PrintedSeedReproduces, LibraryOverrules, SolverIsReady

LEMMA EndScriptStep == IInv /\ EndScript => IInv'
<1> SUFFICES ASSUME IInv, EndScript PROVE IInv'
  OBVIOUS
<1>1. /\ phase = "script" /\ phase' = "finalize"
      /\ UNCHANGED <<argv, script, opts, glob, resources, rng, startblock>>
  BY DEF EndScript
<1>2. TypeOK'
  BY <1>1 DEF IInv, TypeOK
<1>3. (opts.rplib_mode = 1 <=> Library)' /\ StructHoldsSwitches' /\ GlobalsHoldBoth'
  BY <1>1 DEF IInv, Library, Given, StructHoldsSwitches, GlobalsHoldBoth, Wanted,
     LastSwitch, LastStatement, FirstLimit
<1>4. QED
  BY <1>1, <1>2, <1>3 DEF IInv, CommandLineTakesPrecedence,
     PrintedSeedReproduces, LibraryOverrules, SolverIsReady

\* What finalize_options takes from struct and globals is what was wanted.
LEMMA InForceIsWanted ==
  ASSUME TypeOK, StructHoldsSwitches, GlobalsHoldBoth
  PROVE  /\ SeedInForce.seed = WantedSeed
         /\ SeedInForce.seed \in Int /\ SeedInForce.seed_provided \in {NotGiven, 1}
         /\ TitleInForce = WantedTitle /\ TitleInForce \in Names
         /\ GenerateInForce = Wanted("g", "generate") /\ GenerateInForce \in Int
<1>1. argv \in Seq(Switches)
  BY DEF TypeOK
<1>2. SeedInForce.seed = WantedSeed
  <2>1. CASE Given("s")
    <3>1. LastSwitch("s", 0) = LastSwitch("s", LastStatement("seed", 0))
      BY <1>1, <2>1, GivenHasValue DEF Given, LastSwitch
    <3>2. QED
      BY <2>1, <3>1 DEF StructHoldsSwitches, SeedInForce, WantedSeed
  <2>2. CASE ~Given("s")
    <3>1. \A d : LastSwitch("s", d) = d
      BY <1>1, <2>2, NotGivenNoValue DEF Given, LastSwitch
    <3>2. QED
      BY <2>2, <3>1 DEF StructHoldsSwitches, GlobalsHoldBoth, SeedInForce, WantedSeed
  <2>3. QED
    BY <2>1, <2>2
<1>3. SeedInForce.seed \in Int /\ SeedInForce.seed_provided \in {NotGiven, 1}
  BY DEF TypeOK, SeedInForce
<1>4. TitleInForce = WantedTitle
  BY DEF StructHoldsSwitches, GlobalsHoldBoth, TitleInForce, WantedTitle
<1>5. TitleInForce \in Names
  BY DEF TypeOK, TitleInForce
<1>6. GenerateInForce = Wanted("g", "generate")
  <2>1. /\ opts.max_generate \in Int /\ opts.max_generate = LastSwitch("g", 0)
        /\ glob.maxgenerate = Wanted("g", "generate")
    BY DEF TypeOK, StructHoldsSwitches, GlobalsHoldBoth
  <2>2. QED
    BY <2>1 DEF GenerateInForce, Wanted
<1>7. GenerateInForce \in Int
  BY DEF TypeOK, GenerateInForce
<1>8. QED
  BY <1>2, <1>3, <1>4, <1>5, <1>6, <1>7

\* finalize_options settles what is wanted.
LEMMA FinalizeStep == IInv /\ FinalizeOptions => IInv'
<1> SUFFICES ASSUME IInv, FinalizeOptions PROVE IInv'
  OBVIOUS
<1> DEFINE limits == LimitsInForce
           lib == opts.rplib_mode = 1
           mode == IF ParSwitchesMode \/ lib THEN TABLE ELSE glob.dds_mode
           threads == IF ParSwitchesMode THEN Threads(TABLE, glob.nThreads) ELSE glob.nThreads
           maxgen == IF limits.generate > 0 THEN limits.generate ELSE opts.max_generate
           swap == IF lib THEN 0 ELSE glob.swapping
           newOpts == [opts EXCEPT !.title = TitleInForce, !.max_generate = maxgen,
                                   !.seed = SeedInForce.seed,
                                   !.seed_provided = SeedInForce.seed_provided,
                                   !.rplib_seed = SeedInForce.seed]
           newGlob == [glob EXCEPT !.title = TitleInForce,
                                   !.maxgenerate = limits.generate,
                                   !.maxproduce = limits.produce,
                                   !.seed = SeedInForce.seed,
                                   !.seed_provided = SeedInForce.seed_provided,
                                   !.Opener = OpenerInForce,
                                   !.swapping = swap,
                                   !.dds_mode = mode,
                                   !.nThreads = threads]
<1>1. /\ phase = "finalize" /\ phase' = "runtime"
      /\ UNCHANGED <<argv, script, rng>>
      /\ startblock' = IF lib THEN StartBlock ELSE 0
      /\ resources' = IF ParSwitchesMode THEN threads ELSE resources
      /\ opts' = newOpts /\ glob' = newGlob
  BY DEF FinalizeOptions
<1>2. TypeOK /\ StructHoldsSwitches /\ GlobalsHoldBoth /\ (lib <=> Library)
  BY <1>1 DEF IInv
<1>3. /\ limits.generate = IF lib /\ GenerateInForce > LibRecs THEN LibRecs ELSE GenerateInForce
      /\ limits.generate \in Int /\ limits.produce \in Int
      /\ ~lib => limits.produce = glob.maxproduce
  BY <1>2, InForceIsWanted DEF LimitsInForce, TypeOK
<1>4. maxgen \in Int /\ threads \in Int /\ mode \in {BOARD, TABLE} /\ swap \in Int
  <2>1. maxgen \in Int
    BY <1>2, <1>3 DEF TypeOK
  <2>2. threads \in Int
    BY <1>2 DEF TypeOK, Threads
  <2>3. mode \in {BOARD, TABLE} /\ swap \in Int
    BY <1>2 DEF TypeOK
  <2>4. QED
    BY <2>1, <2>2, <2>3
<1>5. OpenerInForce \in Names
  BY <1>2 DEF TypeOK, OpenerInForce
<1>6. opts \in OptsType /\ glob \in GlobType
  BY <1>2 DEF TypeOK, OptsType, GlobType
<1>7. /\ newOpts \in OptsType /\ newOpts.rplib_mode = opts.rplib_mode
      /\ newOpts.seed = SeedInForce.seed
  <2> HIDE DEF maxgen
  <2>1. QED
    BY <1>2, <1>4, <1>6, InForceIsWanted DEF OptsType
<1>8. /\ newGlob \in GlobType
      /\ newGlob.title = TitleInForce
      /\ newGlob.maxgenerate = limits.generate /\ newGlob.maxproduce = limits.produce
      /\ newGlob.swapping = swap /\ newGlob.dds_mode = mode
      /\ newGlob.par_vuln = glob.par_vuln
  <2> HIDE DEF limits, mode, threads, swap
  <2>1. QED
    BY <1>2, <1>3, <1>4, <1>5, <1>6, InForceIsWanted DEF GlobType
<1>9. startblock' = IF lib THEN StartBlockOf(WantedSeed) ELSE 0
  BY <1>1, <1>2, InForceIsWanted DEF StartBlock
<1>10. TypeOK'
  <2>1. startblock' \in Int
    BY <1>1, <1>2, InForceIsWanted DEF StartBlock, StartBlockOf
  <2>2. QED
    BY <1>1, <1>2, <1>4, <1>7, <1>8, <2>1 DEF TypeOK, OptsType, GlobType
<1>11. /\ Library' = Library /\ WantedSeed' = WantedSeed /\ WantedTitle' = WantedTitle
       /\ \A l, k : Wanted(l, k)' = Wanted(l, k)
  BY <1>1 DEF Library, Given, WantedSeed, WantedTitle, Wanted, LastSwitch,
     LastStatement, FirstLimit
<1>12. Settled'
  <2>1. opts'.seed = WantedSeed /\ glob'.title = WantedTitle
    BY <1>1, <1>2, <1>7, <1>8, InForceIsWanted
  <2>2. ASSUME ~Library
        PROVE  /\ glob'.maxgenerate = Wanted("g", "generate")
               /\ glob'.maxproduce = Wanted("p", "produce")
               /\ glob'.par_vuln # NoPar => glob'.dds_mode = TABLE
    BY <1>1, <1>2, <1>3, <1>8, <2>2, InForceIsWanted DEF GlobalsHoldBoth, ParSwitchesMode, TypeOK
  <2>3. ASSUME Library
        PROVE  /\ glob'.swapping = 0 /\ glob'.dds_mode = TABLE
               /\ glob'.maxgenerate <= LibRecs
               /\ Wanted("g", "generate") # 0 => glob'.maxgenerate # 0
    BY <1>1, <1>2, <1>3, <1>8, <2>3, InForceIsWanted
  <2>4. QED
    BY <1>2, <1>9, <1>11, <2>1, <2>2, <2>3 DEF Settled
<1>13. QED
  BY <1>1, <1>2, <1>7, <1>10, <1>11, <1>12 DEF IInv, CommandLineTakesPrecedence,
     PrintedSeedReproduces, LibraryOverrules, SolverIsReady

\* However the kernel answers, the numbers are started from a seed that is not
\* 0: the one wanted, or one of the kernel's; without a library by srand48.
LEMMA StartedFrom ==
  ASSUME NEW k1 \in KernelSeeds, NEW k2 \in KernelSeeds, opts.seed \in Int
  PROVE  LET r == FinalStart(k1, k2)
         IN  /\ r[2] \in Int
             /\ opts.seed # 0 => r[2] = opts.seed
             /\ opts.seed = 0 => r[2] \in KernelSeeds
             /\ opts.rplib_mode # 1 => r = <<"srand48", r[2]>>
BY DEF FinalStart, Started

\* When deals are made the settings are the ones wanted, with their defaults.
LEMMA InitRuntimeStep == IInv /\ InitRuntime => IInv'
<1> SUFFICES ASSUME IInv, InitRuntime PROVE IInv'
  OBVIOUS
<1> DEFINE lib == opts.rplib_mode = 1
           threads == IF lib THEN glob.nThreads ELSE Threads(glob.dds_mode, glob.nThreads)
           limit == Limit
           maxprod == IF glob.maxproduce # 0 THEN glob.maxproduce
                      ELSE IF glob.will_print THEN DefaultProduce ELSE limit
           newGlob(r) == [glob EXCEPT !.seed = r, !.nThreads = threads,
                                      !.maxgenerate = limit, !.maxproduce = maxprod]
<1>1. PICK k1 \in KernelSeeds, k2 \in KernelSeeds :
        /\ rng' = FinalStart(k1, k2)
        /\ opts' = [opts EXCEPT !.seed = rng'[2]]
        /\ glob' = newGlob(rng'[2])
  BY DEF InitRuntime
<1>2. /\ phase = "runtime" /\ phase' = "run"
      /\ resources' = SolverSetup
      /\ UNCHANGED <<argv, script, startblock>>
      /\ TypeOK /\ Settled /\ (lib <=> Library)
  BY DEF InitRuntime, IInv
<1>3. opts \in OptsType /\ glob \in GlobType
  BY <1>2 DEF TypeOK, OptsType, GlobType
<1>4. /\ rng'[2] \in Int
      /\ opts.seed # 0 => rng'[2] = opts.seed
      /\ opts.seed = 0 => rng'[2] \in KernelSeeds
      /\ ~lib => rng' = <<"srand48", rng'[2]>>
  <2>1. opts.seed \in Int
    BY <1>3 DEF OptsType
  <2>2. QED
    BY <1>1, <2>1, StartedFrom
<1>5. /\ limit \in Int
      /\ glob.maxgenerate # 0 => limit = glob.maxgenerate
  BY <1>3 DEF GlobType, Limit, MaxRecs
<1>6. /\ threads \in Int
      /\ ~lib /\ glob.dds_mode = TABLE => threads > 1
      /\ ~lib => SolverSetup = threads
  BY <1>3 DEF GlobType, Threads, SolverSetup
<1>7. /\ maxprod \in Int
      /\ glob.maxproduce # 0 => maxprod = glob.maxproduce
  BY <1>3, <1>5 DEF GlobType
<1> HIDE DEF limit, threads, maxprod
<1>8. opts' \in OptsType /\ opts'.rplib_mode = opts.rplib_mode
  BY <1>1, <1>3, <1>4 DEF OptsType
<1>9. /\ glob' \in GlobType
      /\ glob'.seed = rng'[2] /\ glob'.nThreads = threads
      /\ glob'.maxgenerate = limit /\ glob'.maxproduce = maxprod
      /\ glob'.title = glob.title /\ glob'.swapping = glob.swapping
      /\ glob'.dds_mode = glob.dds_mode /\ glob'.par_vuln = glob.par_vuln
  BY <1>1, <1>3, <1>4, <1>5, <1>6, <1>7 DEF GlobType
<1>10. TypeOK'
  <2>1. resources' \in Int
    BY <1>2, <1>3, <1>6 DEF SolverSetup, TypeOK
  <2>2. QED
    BY <1>2, <1>8, <1>9, <2>1 DEF TypeOK, OptsType, GlobType
<1>11. /\ Library' = Library /\ WantedSeed' = WantedSeed /\ WantedTitle' = WantedTitle
       /\ \A l, k : Wanted(l, k)' = Wanted(l, k)
  BY <1>2 DEF Library, Given, WantedSeed, WantedTitle, Wanted, LastSwitch,
     LastStatement, FirstLimit
<1>12. CommandLineTakesPrecedence'
  BY <1>2, <1>4, <1>5, <1>7, <1>9, <1>11 DEF Settled, CommandLineTakesPrecedence
<1>13. PrintedSeedReproduces'
  BY <1>2, <1>4, <1>9, <1>11 DEF PrintedSeedReproduces
<1>14. LibraryOverrules'
  <2>1. WantedSeed \in Int
    BY <1>2, <1>3 DEF Settled, OptsType
  <2>2. ASSUME Library
        PROVE  /\ glob'.swapping = 0 /\ glob'.dds_mode = TABLE
               /\ startblock' = StartBlockOf(WantedSeed)
               /\ Wanted("g", "generate") # 0 => glob'.maxgenerate <= LibRecs
    BY <1>2, <1>5, <1>9, <2>2 DEF Settled
  <2>3. QED
    BY <1>11, <2>1, <2>2 DEF LibraryOverrules, StartBlockOf
<1>15. SolverIsReady'
  BY <1>2, <1>6, <1>9, <1>11 DEF Settled, SolverIsReady
<1>16. QED
  BY <1>2, <1>8, <1>10, <1>11, <1>12, <1>13, <1>14, <1>15 DEF IInv

\* A step that changes nothing.
LEMMA StutterStep == IInv /\ UNCHANGED vars => IInv'
BY DEF vars, IInv, TypeOK, StructHoldsSwitches, GlobalsHoldBoth, Settled, StartBlockOf,
   CommandLineTakesPrecedence, PrintedSeedReproduces, LibraryOverrules, SolverIsReady,
   Library, Given, WantedSeed, WantedTitle, Wanted, LastSwitch, LastStatement, FirstLimit

LEMMA Inductive == Spec => []IInv
<1>1. IInv /\ [Next]_vars => IInv'
  BY GetOptionStep, EndOptionsStep, ReadStatementStep, EndScriptStep, FinalizeStep,
     InitRuntimeStep, StutterStep DEF Next, Stay
<1>2. QED
  BY InitInv, <1>1, PTL DEF Spec

-----------------------------------------------------------------------------
(* What follows of it.                                                     *)

\* Every setting has its type in every reachable state.
THEOREM TypeCorrect == Spec => []TypeOK
<1>1. IInv => TypeOK
  BY DEF IInv
<1>2. QED
  BY Inductive, <1>1, PTL

\* The limits, the seed and the title in force when deals are made are those of
\* the command line or, without one there, of the script, whatever the order,
\* the number and the values of the switches and statements.
THEOREM PrecedenceHolds == Spec => []CommandLineTakesPrecedence
<1>1. IInv => CommandLineTakesPrecedence
  BY DEF IInv
<1>2. QED
  BY Inductive, <1>1, PTL

\* The seed that is printed makes the same deals when it is given with -s.
THEOREM SeedReproduces == Spec => []PrintedSeedReproduces
<1>1. IInv => PrintedSeedReproduces
  BY DEF IInv
<1>2. QED
  BY Inductive, <1>1, PTL

\* A library settles swapping, the solver's mode, the block and the limits.
THEOREM LibraryHasItsWay == Spec => []LibraryOverrules
<1>1. IInv => LibraryOverrules
  BY DEF IInv
<1>2. QED
  BY Inductive, <1>1, PTL

\* The solver has the threads and the mode its uses need.
THEOREM SolverHasThreads == Spec => []SolverIsReady
<1>1. IInv => SolverIsReady
  BY DEF IInv
<1>2. QED
  BY Inductive, <1>1, PTL
=============================================================================
