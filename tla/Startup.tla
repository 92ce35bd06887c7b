------------------------------ MODULE Startup ------------------------------
(***************************************************************************)
(* From the command line to the first deal (src/src/mainsubs.c,            *)
(* dealflex.l, dealinit_subs.c): get_options fills a struct of options and *)
(* most of the globals, the lexer of the script sets globals, then         *)
(* finalize_options settles which of the two is in force and init_runtime  *)
(* seeds the random numbers and gives the solver its threads.              *)
(*                                                                         *)
(* opts is the struct, glob the globals.  What every assignment sets in    *)
(* both (swapping, dds_mode, nThreads, par_vuln) is in glob only.          *)
(* Predealing is in Dealing, the limits of a library in DealerMain.        *)
(***************************************************************************)
EXTENDS Integers, Sequences, SequencesExt

CONSTANTS
  Switches,        \* what the command line may hold: <<letter, value>>
  Statements,      \* what the script may hold: <<keyword, value>>
  MaxSwitches, MaxStatements,  \* bound the command line and the script
  NoTitle,         \* the empty string
  KernelSeeds,     \* what getrandom returns; 0 (one in 2^48) is left out
  LibRecs,         \* records of the library, if -L is given
  LibMaxSeed,      \* rplib_max_seed
  DefaultGenerate, \* 10000000
  DefaultProduce,  \* 40
  MaxThreads,      \* of -R: 10
  TblModeThreads   \* 9

Numbered == {"g", "p", "s", "x", "P", "M", "R"}   \* switches read with atoi and atol
Keywords == {"generate", "produce", "seed", "title", "opener", "average"}

ASSUME StartupAssumption ==
  /\ MaxSwitches \in Nat /\ MaxStatements \in Nat
  /\ KernelSeeds \subseteq Int \ {0} /\ KernelSeeds # {}
  /\ LibRecs \in Nat \ {0} /\ LibMaxSeed \in Nat
  /\ DefaultGenerate \in Nat \ {0} /\ DefaultProduce \in Nat \ {0}
  /\ TblModeThreads \in Nat /\ TblModeThreads > 1 /\ MaxThreads \in Nat \ {0}
  /\ \A s \in Switches : /\ s = <<s[1], s[2]>>
                         /\ s[1] \in Numbered => s[2] \in Int
  /\ \A s \in Statements : /\ s = <<s[1], s[2]>> /\ s[1] \in Keywords
                           /\ s[1] \in {"generate", "produce", "seed"} => s[2] \in Int

BOARD == 1          \* DDS_BOARD_MODE
TABLE == 2          \* DDS_TABLE_MODE
Nul   == "nul"      \* the character 0
NoPar == -1         \* no par calculations
NotGiven == -1      \* seed_provided
MaxRecs == 10485760 \* rplib_recs, which nothing sets to the size of the file

VARIABLES
  phase,      \* of main: "options", "script", "finalize", "runtime", "run", "exit"
  argv,       \* the switches given so far
  script,     \* the statements read so far
  opts,       \* struct options_st
  glob,       \* the globals of the same names
  resources,  \* threads of the last SetResources, 0 before the first
  rng,        \* how the random numbers were started: function and seed
  startblock  \* the block the library is read from

vars == <<phase, argv, script, opts, glob, resources, rng, startblock>>

Init ==
  /\ phase = "options"
  /\ argv = <<>> /\ script = <<>>
  /\ opts = [error |-> 0, max_generate |-> 0, max_produce |-> 0,
             seed |-> 0, seed_provided |-> NotGiven, title |-> NoTitle,
             opc_opener |-> "W", rplib_mode |-> 0, rplib_seed |-> 0]
  /\ glob = [maxgenerate |-> 0, maxproduce |-> 0, seed |-> 0,
             seed_provided |-> NotGiven, title |-> NoTitle, Opener |-> "W",
             swapping |-> 0, dds_mode |-> BOARD, nThreads |-> 1, par_vuln |-> NoPar,
             will_print |-> TRUE]
  /\ resources = 0
  /\ rng = <<"none", 0>>
  /\ startblock = 0

-----------------------------------------------------------------------------
\* get_options, one switch.
SetOption(l, v) ==
  CASE l = "g" -> /\ opts' = [opts EXCEPT !.max_generate = v]
                  /\ glob' = [glob EXCEPT !.maxgenerate = v]
    [] l = "p" -> /\ opts' = [opts EXCEPT !.max_produce = v]
                  /\ glob' = [glob EXCEPT !.maxproduce = v]
    [] l = "s" -> /\ opts' = [opts EXCEPT !.seed = v, !.seed_provided = 1, !.rplib_seed = v]
                  /\ glob' = [glob EXCEPT !.seed = v, !.seed_provided = 1]
    [] l = "T" -> /\ opts' = [opts EXCEPT !.title = v]
                  /\ glob' = [glob EXCEPT !.title = v]
    [] l = "O" -> /\ opts' = [opts EXCEPT !.opc_opener = v]
                  /\ UNCHANGED glob
    [] l = "x" -> UNCHANGED opts /\ glob' = [glob EXCEPT !.swapping = v]
    [] l = "P" -> UNCHANGED opts /\ glob' = [glob EXCEPT !.par_vuln = v]
    [] l = "M" -> /\ UNCHANGED opts
                  /\ glob' = [glob EXCEPT !.dds_mode = IF v \in {BOARD, TABLE} THEN v ELSE @]
    [] l = "R" -> /\ opts' = [opts EXCEPT !.error = IF v > MaxThreads THEN 2 ELSE @]
                  /\ glob' = [glob EXCEPT !.nThreads = IF v > MaxThreads THEN 9 ELSE v]
    [] l = "L" -> /\ opts' = [opts EXCEPT
                                !.rplib_mode = 1,
                                !.rplib_seed = IF opts.seed_provided > 0 THEN opts.seed ELSE 0]
                  /\ UNCHANGED glob
    [] OTHER   -> opts' = [opts EXCEPT !.error = 1] /\ UNCHANGED glob

GetOption ==
  /\ phase = "options"
  /\ Len(argv) < MaxSwitches
  /\ \E s \in Switches : argv' = Append(argv, s) /\ SetOption(s[1], s[2])
  /\ UNCHANGED <<phase, script, resources, rng, startblock>>

\* An invalid switch ends the program, whatever the others are.
EndOptions ==
  /\ phase = "options"
  /\ phase' = IF opts.error # 0 THEN "exit" ELSE "script"
  /\ UNCHANGED <<argv, script, opts, glob, resources, rng, startblock>>

-----------------------------------------------------------------------------
\* The lexer, one statement.  An action list of averages alone prints no deal.
SetGlobal(k, v) ==
  CASE k = "generate" -> glob' = [glob EXCEPT !.maxgenerate = IF @ = 0 THEN v ELSE @]
    [] k = "produce"  -> glob' = [glob EXCEPT !.maxproduce = IF @ = 0 THEN v ELSE @]
    [] k = "seed"     -> glob' = [glob EXCEPT !.seed = v, !.seed_provided = 1]
    [] k = "title"    -> glob' = [glob EXCEPT !.title = v]
    [] k = "opener"   -> glob' = [glob EXCEPT !.Opener = v]
    [] k = "average"  -> glob' = [glob EXCEPT !.will_print = FALSE]

ReadStatement ==
  /\ phase = "script"
  /\ Len(script) < MaxStatements
  /\ \E s \in Statements : script' = Append(script, s) /\ SetGlobal(s[1], s[2])
  /\ UNCHANGED <<phase, argv, opts, resources, rng, startblock>>

EndScript ==
  /\ phase = "script"
  /\ phase' = "finalize"
  /\ UNCHANGED <<argv, script, opts, glob, resources, rng, startblock>>

-----------------------------------------------------------------------------
\* finalize_options: the seed of the command line, even 0, or else that of the
\* script.  seed_provided starts at -1, so that the code's third case, no seed
\* at all, is the second with the seed 0.
SeedInForce ==
  IF opts.seed_provided > 0 THEN [seed |-> opts.seed, seed_provided |-> opts.seed_provided]
  ELSE [seed |-> glob.seed, seed_provided |-> glob.seed_provided]

\* The opener of the command line if there is one.  get_options starts from the
\* default W, not from Nul, so there always is one.
OpenerInForce == IF opts.opc_opener # Nul THEN opts.opc_opener ELSE glob.Opener

\* Fault: the title of the script, read last, stays.
TitleInForceScript == IF glob.title # NoTitle THEN glob.title ELSE opts.title

TitleInForce == IF opts.title # NoTitle THEN opts.title ELSE glob.title

GenerateInForce ==
  IF opts.max_generate > 0 THEN opts.max_generate ELSE glob.maxgenerate

\* A library bounds what is to be generated, and then produced, if that was
\* said on the command line or, for the first, in the script.
LimitsInForce ==
  LET clipped == opts.rplib_mode = 1 /\ GenerateInForce > LibRecs
  IN  [generate |-> IF clipped THEN LibRecs ELSE GenerateInForce,
       produce  |-> IF clipped /\ opts.max_produce > LibRecs THEN LibRecs ELSE glob.maxproduce]

\* setup_dds_mode: the table needs threads, one board needs no more than one.
Threads(mode, n) == IF mode = TABLE /\ n < 2 THEN TblModeThreads ELSE n

\* Par scores need the table; the solver is set up at once.
ParSwitchesMode == glob.par_vuln # NoPar /\ glob.dds_mode # TABLE

\* seek_rpdd_pos: the block a seed stands for.
StartBlockOf(s) == IF s <= 0 THEN 0 ELSE IF s < LibMaxSeed THEN s ELSE LibMaxSeed

\* Fault: the seed of -L, taken when the switch was met, is not corrected.
StartBlockAsMet == StartBlockOf(opts.rplib_seed)

\* In library mode the seed is the block of the file to start from.
StartBlock == StartBlockOf(SeedInForce.seed)

FinalizeOptions ==
  /\ phase = "finalize"
  /\ phase' = "runtime"
  /\ opts' = [opts EXCEPT !.title = TitleInForce,
                          !.max_generate = IF LimitsInForce.generate > 0
                                           THEN LimitsInForce.generate ELSE @,
                          !.seed = SeedInForce.seed,
                          !.seed_provided = SeedInForce.seed_provided,
                          !.rplib_seed = SeedInForce.seed]
  /\ LET mode == IF ParSwitchesMode \/ opts.rplib_mode = 1 THEN TABLE ELSE glob.dds_mode
         threads == IF ParSwitchesMode THEN Threads(TABLE, glob.nThreads) ELSE glob.nThreads
     IN  /\ glob' = [glob EXCEPT !.title = TitleInForce,
                                 !.maxgenerate = LimitsInForce.generate,
                                 !.maxproduce = LimitsInForce.produce,
                                 !.seed = SeedInForce.seed,
                                 !.seed_provided = SeedInForce.seed_provided,
                                 !.Opener = OpenerInForce,
                                 !.swapping = IF opts.rplib_mode = 1 THEN 0 ELSE @,
                                 !.dds_mode = mode,
                                 !.nThreads = threads]
         /\ resources' = IF ParSwitchesMode THEN threads ELSE resources
  /\ startblock' = IF opts.rplib_mode = 1 THEN StartBlock ELSE 0
  /\ UNCHANGED <<argv, script, rng>>

-----------------------------------------------------------------------------
\* init_rand48(s): 0 asks the kernel for a seed, and uses all its 48 bits.
Started(s, k) == IF s # 0 THEN <<"srand48", s>> ELSE <<"seed48", k>>

\* Fault: the random numbers are started once.
FinalStartOnce(k1, k2) == Started(opts.seed, k1)

\* setup_rng runs before and, with the seed the first returned, after the
\* solver, the deal and the server are set up; in library mode only after.
FinalStart(k1, k2) ==
  IF opts.rplib_mode = 1 THEN Started(opts.seed, k2)
  ELSE Started(Started(opts.seed, k1)[2], k2)

\* Fault: the solver is set up only when par scores asked for it.
SolverSetupForPar == resources

\* setup_dds_mode is called, also when par scores called it before.
SolverSetup == IF opts.rplib_mode = 1 THEN resources ELSE Threads(glob.dds_mode, glob.nThreads)

Limit == IF glob.maxgenerate # 0 THEN glob.maxgenerate
         ELSE IF opts.rplib_mode = 1 /\ DefaultGenerate > MaxRecs THEN MaxRecs
         ELSE DefaultGenerate

InitRuntime ==
  /\ phase = "runtime"
  /\ phase' = "run"
  /\ \E k1, k2 \in KernelSeeds :
       /\ rng' = FinalStart(k1, k2)
       /\ opts' = [opts EXCEPT !.seed = rng'[2]]
       /\ glob' = [glob EXCEPT !.seed = rng'[2],
                               !.nThreads = IF opts.rplib_mode = 1 THEN @
                                            ELSE Threads(glob.dds_mode, @),
                               !.maxgenerate = Limit,
                               !.maxproduce = IF @ # 0 THEN @
                                              ELSE IF glob.will_print THEN DefaultProduce
                                              ELSE Limit]
  /\ resources' = SolverSetup
  /\ UNCHANGED <<argv, script, startblock>>

\* The main loop runs, or the program has ended.
Stay == phase \in {"run", "exit"} /\ UNCHANGED vars

Next == GetOption \/ EndOptions \/ ReadStatement \/ EndScript
        \/ FinalizeOptions \/ InitRuntime \/ Stay

Spec == Init /\ [][Next]_vars

-----------------------------------------------------------------------------
\* What the command line and the script say: the last value of a switch or
\* keyword, the first value that is not 0 of a keyword.
Value(seq, i, default) == IF i = 0 THEN default ELSE seq[i][2]
LastValue(seq, name, default) ==
  Value(seq, SelectLastInSeq(seq, LAMBDA s : s[1] = name), default)
FirstValue(seq, name) ==
  Value(seq, SelectInSeq(seq, LAMBDA s : s[1] = name /\ s[2] # 0), 0)

LastSwitch(l, default)    == LastValue(argv, l, default)
LastStatement(k, default) == LastValue(script, k, default)
FirstLimit(k)             == FirstValue(script, k)
Given(l)                  == \E i \in DOMAIN argv : argv[i][1] = l

Wanted(l, k) == IF LastSwitch(l, 0) # 0 THEN LastSwitch(l, 0) ELSE FirstLimit(k)
WantedSeed == LastSwitch("s", LastStatement("seed", 0))
WantedTitle == IF LastSwitch("T", NoTitle) # NoTitle THEN LastSwitch("T", NoTitle)
               ELSE LastStatement("title", NoTitle)
Library == Given("L")

\* Once the deals are made: the limits, the seed and the title are those of the
\* last such switch of the command line or, without one, of the script (the
\* first limits, the last seed and title), in whatever order the switches
\* came.  A seed of 0 on the command line beats one in the script; a limit of 0
\* and an empty title count as not given.
CommandLineTakesPrecedence ==
  phase = "run" =>
    /\ ~Library => LET g == Wanted("g", "generate")  p == Wanted("p", "produce")
                   IN  /\ g # 0 => glob.maxgenerate = g
                       /\ p # 0 => glob.maxproduce = p
    /\ WantedSeed # 0 => glob.seed = WantedSeed
    /\ WantedSeed = 0 => glob.seed \in KernelSeeds
    /\ glob.title = WantedTitle

\* The seed printed at the end of a run, given to the next one with -s, makes
\* the same deals: the random numbers were started from it, by srand48, also
\* when it came from the kernel, which starts seed48.
PrintedSeedReproduces ==
  phase = "run" /\ ~Library => rng = <<"srand48", glob.seed>>

\* -L before or after the other switches: the file is read from the block of
\* the seed in force (the first for a seed below 0), nothing is swapped, the
\* table of results is in use, and no more deals than a pass over the file are
\* made of those asked for.
LibraryOverrules ==
  phase = "run" /\ Library =>
    /\ glob.swapping = 0
    /\ glob.dds_mode = TABLE
    /\ startblock = CASE WantedSeed < 0           -> 0
                      [] WantedSeed > LibMaxSeed -> LibMaxSeed
                      [] OTHER                   -> WantedSeed
    /\ Wanted("g", "generate") # 0 => glob.maxgenerate <= LibRecs

\* When deals are made, the solver has the threads the globals say, more than
\* one if it computes tables, as it must for par scores.
SolverIsReady ==
  phase = "run" /\ ~Library =>
    /\ resources = glob.nThreads
    /\ glob.dds_mode = TABLE => glob.nThreads > 1
    /\ glob.par_vuln # NoPar => glob.dds_mode = TABLE

-----------------------------------------------------------------------------
\* Titles and openers.
Names == {NoTitle, "W"} \cup {s[2] : s \in {x \in Switches \cup Statements :
                                        x[1] \in {"T", "O", "title", "opener"}}}

TypeOK ==
  /\ phase \in {"options", "script", "finalize", "runtime", "run", "exit"}
  /\ argv \in Seq(Switches) /\ script \in Seq(Statements)
  /\ opts \in [error : 0..2, max_generate : Int, max_produce : Int, seed : Int,
               seed_provided : {NotGiven, 1}, title : Names, opc_opener : Names,
               rplib_mode : {0, 1}, rplib_seed : Int]
  /\ glob \in [maxgenerate : Int, maxproduce : Int, seed : Int,
               seed_provided : {NotGiven, 1}, title : Names, Opener : Names,
               swapping : Int, dds_mode : {BOARD, TABLE}, nThreads : Int,
               par_vuln : Int, will_print : BOOLEAN]
  /\ resources \in Int /\ startblock \in Int

(***************************************************************************)
(* The inductive invariant.  Until finalize_options, the struct holds what *)
(* the switches say and the globals what both say, the script last except  *)
(* where it gives way; after it they agree on what was wanted.             *)
(***************************************************************************)
StructHoldsSwitches ==
  /\ opts.max_generate = LastSwitch("g", 0)
  /\ opts.max_produce = LastSwitch("p", 0)
  /\ opts.seed = LastSwitch("s", 0)
  /\ opts.seed_provided > 0 <=> Given("s")
  /\ opts.title = LastSwitch("T", NoTitle)

GlobalsHoldBoth ==
  /\ glob.maxgenerate = Wanted("g", "generate")
  /\ glob.maxproduce = Wanted("p", "produce")
  /\ glob.seed = LastStatement("seed", LastSwitch("s", 0))
  /\ glob.title = LastStatement("title", LastSwitch("T", NoTitle))

Settled ==
  /\ opts.seed = WantedSeed
  /\ glob.title = WantedTitle
  /\ ~Library => /\ glob.maxgenerate = Wanted("g", "generate")
                 /\ glob.maxproduce = Wanted("p", "produce")
                 /\ glob.par_vuln # NoPar => glob.dds_mode = TABLE
  /\ Library => /\ glob.swapping = 0 /\ glob.dds_mode = TABLE
                /\ startblock = StartBlockOf(WantedSeed)
                /\ glob.maxgenerate <= LibRecs
                /\ Wanted("g", "generate") # 0 => glob.maxgenerate # 0

IInv ==
  /\ TypeOK
  /\ opts.rplib_mode = 1 <=> Library
  /\ phase = "options" => script = <<>>
  /\ phase \in {"options", "script", "finalize"} => StructHoldsSwitches /\ GlobalsHoldBoth
  /\ phase = "runtime" => Settled
  /\ CommandLineTakesPrecedence /\ PrintedSeedReproduces
  /\ LibraryOverrules /\ SolverIsReady

=============================================================================
