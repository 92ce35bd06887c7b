# DealerV2 in TLA+

DealerV2 (`src/src/`) generates bridge deals, keeps those that satisfy a
condition written in a script, and reports on them.  It is a loop around a
deal: make one (shuffled, re-arranged by swapping, or read from a library of
solved deals), analyse it, evaluate the condition, run the actions.  The hard
parts are around that loop: results that are expensive to get and are cached
per deal, a second process that computes some of them, a library file that ends
before the run does, two places that set the same option, and long sequences of
legal calls on one global state.

File names below without a directory are in `src/src/`.

## 1. The system

| Component | Code | State | Operations | Here |
|---|---|---|---|---|
| `usereval()` | `dealServer_subs.c`, `UserEval/src/UserServer.c` | mmap page, two named semaphores, cache per side | query, reply, start, shutdown | `UserEvalIPC` |
| Double dummy results | `dealdds_subs.c` | `dds_res_bin`, `dds_dealnum`, `dds_mode` | `tricks()`, `par()`, `trix()`; fill by board, by table, from the library | `DDSCache` |
| External calculators | `dealeval_subs.c` 561-635 (GIB), 916-1000 (dop) | a cache each | one run of a program per question | `Calculators` |
| Main loop | `dealerv2.c` 163-252 | `ngen`, `nprod`, limits | make a deal, analyse, evaluate, act, stop | `DealerMain` |
| Library reader | `dealrpdd_subs.c` | file position, record buffer, `rp_cnt`, `wrap_cnt` | seek by seed, read a record, wrap, decode | `RPLib` |
| Dealing | `dealcard_subs.c`, predeal in `dealparse_subs.c` | `curdeal`, `stacked_pack`, `small_pack`, `swapindex` | predeal, shuffle, merge, swap, sort | `Dealing` |
| Options and start-up | `mainsubs.c`, `dealinit_subs.c`, settings in `dealflex.l` | options struct, globals | parse, resolve, initialise | `Startup` |
| Hand analysis | `dealeval_subs.c` 95-362 | `handstat` per hand, the tables of card values | counts, losers, controls, shapes | `HandStat`, `Expressions` |
| Expressions | `dealeval_subs.c` 366-555 | decision tree | evaluate | `Expressions` |
| CCCC and suit quality | `c4.c` | none | evaluate a hand | `Knr` |
| Scoring | `dealeval_subs.c` 630-790, `dealparse_subs.c` 100-156 | none | contract score, IMPs | `Scoring` |
| Actions | `dealaction_subs.c` | accumulators of averages, frequencies, contracts | per deal and end of run | `Reports` |
| Bucket frequencies | `deal_bktfreq_subs.c` | bucket tables | count in a bucket | `Reports` |
| Metrics of the server | `UserEval/src/metrics_*.c`, `factors_subs.c`, `KnR.c`, `pav_calc.c` | global work variables, a results area per side | 14 point counts, sets of them | `Metrics`, `Factors`, `Knr` |
| Script parser | `dealyacc.y`, `dealparse_subs.c` | trees, variables, marks, tables, shapes | parse | `Expressions`, partly |
| Formats of a deal | `Dealer_DDS_IF.c` | none | conversions for the solver | no |
| Debug output | `dealdebug_subs.c` | none | print | no |
| `dop`, preprocessor, demonstrations, utilities, regression, installation | `DOP/`, `PreProcessor/`, `DDS_Demo/`, `Utils/`, `Regression/` | | other programs | no |

The main loop calls dealing or the library reader, then hand analysis, then the
evaluator, which asks the caches, which ask the solver, the calculators or the
server.  Everything but the server runs in one process and one thread, on global
variables; the deal number `ngen` is the only thing that tells a cache which
deal its results belong to.

### What is hard

* *Two processes and a page.*  Query, deal and results share one page with no
  lock but the two semaphores.  Either process may die, neither wait has a
  timeout, and both ends unlink the names.
* *Stale results.*  Three caches (`usereval`, double dummy, dop/GIB) are keyed by
  `ngen` in three different ways; the par score and the counts live in one
  struct that three functions fill to different degrees; a failed calculator
  leaves the values of its last run.
* *The end of the library.*  Separators, a block chosen by a seed, a last record
  cut short, the wrap-around and its limits, and a "two passes" stop interact, and
  the loop that skips separators has no way out but a deal.
* *Protocols on global state.*  Predeal, then set up, then shuffle and merge; swap
  a number of times, then shuffle; and the actions sort the deal in between.
* *Work variables that nobody owns.*  Fourteen metrics share one set of globals,
  which each clears in part; some call others and keep their results aside.  The
  analysis of a deal leaves out the hands that the script does not mention.
* *Precedence.*  Command line, script, library and defaults all set the limits and
  the seed, part of them into a struct and part into globals.

### What makes each part correct

* `usereval`: an answer is the metric asked, of the side and deal asked; the page
  has one user; each query is answered unless a process dies; shutdown ends and
  leaves no name.
* Double dummy and calculators: nobody can tell the cache from a solver asked
  afresh; a failure spoils its own deal at most; no call is wasted; a library run
  needs no solver.
* Main loop and library: deals come in file order, once round; a run that looks for
  what no deal has ends all the same, as long as there are deals to read; the numbers reported are those
  that happened.
* Dealing: every deal is the full pack, with the predealt cards where they belong;
  a group of swapped deals has every arrangement once.
* Start-up: what the user gave on the command line wins; the seed that is printed
  reproduces the run.
* Hand analysis and expressions: the losers are those of the user guide whatever order
  the cards come in, nothing is left of the hand before, and a condition has the value
  that its script gives it on the deal in hand.
* Metrics: an answer depends on the query and the deal alone; hands that trade places
  trade points; the trumps are the best the side has; a set of metrics answers
  what each answers alone; a higher card is never worth less.
* Scoring: the laws of duplicate
  bridge.  Reports: the counters of every action add up to the deals it saw, and
  tables of the same values agree.

## 2. Modules

`DealerMain` extends `RPLib`: the loop and its source of deals are one state
machine.  `DDSCache` and `Calculators` each instantiate `DealResults`,
`UserEvalIPC` instantiates `UserEvalService` and `DealerMain` instantiates
`LibraryScan`: those three are the abstract specifications.  `MC*` modules give
the constants of an instance, `*_proofs` hold the theorems, and `NumberFacts` the
facts about sums and whole division that several of them need.  Definitions called
"Fault" in a comment are bugs the real definition could have had; they show that
each property can fail.

### UserEvalIPC (and UserEvalService)

`dpc` and `spc` are the places of the dealer and of the server where the other
can interfere: between writing the query and posting it, waiting, woken, and
during shutdown.  `query` and `res` are the page; a metric's result is a record of
what it is the metric of, so an answer tells whether it is the right one.
`AskCached`, `AskStale`, `WriteQuery`, `PostQuery`, `WakeReply`, `ReturnReply` are
`ask_query` and `true_ask_query`; `WriteQuit` to `Cleanup` are
`kill_userserver` and what follows; `StartServer` to `EojUnlink` are the server's
`main`.  A metric fills in only part of the results area (`Writes`).
`LeftOver` is what a semaphore of that name may hold before the run: `sem_open`
has no `O_EXCL`.  `UserEvalService` has requests and replies only, and no page.

### DDSCache and Calculators (and DealResults)

`tricks`, `par`, `errcode`, `dealnum`, `mode` are the fields of the global struct
and its keys.  A count is the number of the deal it is right for, or one of three
kinds of wrong value, which differ in whether the code can notice.  `DdsTricks`,
`DdsParscore` and `CsvTrix` are the three queries with both modes and the calls they make;
`NextDeal` is the next round of the main loop, which in library mode fills the
table.  `faulty` is the last deal on which the solver failed.  `Calculators` is
the same for dop, whose one run gives the values of a side, and for GIB, with a cache of
its own; a run may stop half-way.  `DealResults` has a deal in hand, and answers.

### RPLib and DealerMain (and LibraryScan)

A record is its place in the file; a part of a record at the end has the number after
the last.  `GetRecord` is one round of the loop in
`get_rpdeal`, with `get_rprec`'s four outcomes: a record, a short one, the
wrap-around, and nothing.  On nothing the buffer stays, or is whatever the stack
holds when the function was just entered: `Nulls` if its first bytes are null, `Junk` if not.
`IsSeparator` looks at those bytes alone, as the code does, whoever put them
there: `separators` says of which records of the library they are null, the part record included.
`Start` is the limits as the options and
the script give them, clipped for a library.  `dealt` records what was evaluated.
`NoDealToCome` says where `get_rpdeal` finds separators only: in a file that holds nothing else, or
at an end that is not wrapped around with a separator in the buffer.  The loop (`dealrpdd_subs.c`
175-191) ends only with a deal, so there it goes round for ever.  `rp_recnum` is only printed and is left out.
`LibraryScan` says: from some record on, the next one that is not a separator,
going round.

### Dealing

A deal maps slots to cards.  `Predeal` moves a card from the full pack to the
stacked one; `SetupDeal` prepares what is left; `DealCards` starts a deal, which
`SwapHands` makes at once, or `ShuffleDeal` a slot at a time, or `ShuffleSmall`
and then `MergeDeal`; in `EndDeal` the actions may sort all hands, or two.
`wanted` and `group` are histories: what was asked, and the deals since the last
shuffle.

### Startup

`opts` and `glob` are the options struct and the globals of the same names.
`GetOption` is `get_options`, `ReadStatement` the settings of the scanner,
`FinalizeOptions` and `InitRuntime` the functions of those names.  `argv` and
`script` are histories, so that a property can say what the user asked for.

### HandStat and Expressions

`HandStat` reads the cards of a hand one by one (`ReadCard`), then finds the losers of
each suit by the sum of the weights of its three highest cards (`CountLtc`, the
switch as the set `LtcRows`).  `Expressions` extends it to a run: `ReadScript` is
the parser on one statement, with what it marks (`Marked`: the grammar's `compass` and
`side` set flags, `hascard` does not), `BeginRun` what happens to these between the script and the first
deal: `finalize_options` makes a side two hands (`FinalizeSides`), and `init_runtime` copies the
table that `pointcount` and `altcount 10` may both have set to `points`, which `hcp()` counts with
(`SyncPoints`).  `EvaluateDeal` is one round of the main loop,
`analyze` and then `evaltree`.  The tree of a statement is the sequence of its nodes, each
after its operands, as `newtree` is called; all trees lie one behind the other in `nodes`, a pointer
is a place there, and a name in an expression is a node whose operand is the root
that `vars` has for it (in the code it is that root).  A shape list is the
set of lengths that have its bit.  `read` and `drawn`
are histories.  The property compares the walk with `Meaning`, which has no `nodes`, `vars`, `tables` or
`distr`: it follows a name to the statement that defines it, finds a table in the last statement
that sets it, a shape in the last element of its list that the hand fits, and what a hand
holds from its cards (`AsDealt`).  A deal brings its tricks and par: that the caches answer for the
deal in hand is `DealResults`.

### Metrics, Factors and Knr

`Knr` is the count of four Cs, which dealer (`c4.c`) and the server (`KnR.c`) each
have a program for, with the hand as the set of ranks it holds in each suit.  `Factors` has what the metrics
are built from: the choice of trumps and declarer (`trump_fit_chk`,
`SetTrumps`), misfits, honours in short suits, and the points for fit, distribution,
synergy and honours of each method.  In `Metrics` each `..._calc` is one operator that takes the
work variables (`sheet`) and returns them with the two evaluations of both hands and the details.
`Metric` is the table `p_cfunc`, with `prolog` before and `SaveUserVals` after;
`set88_calc` and `MixedCalc` run several and keep what they need aside.  The one action, `UserFunc`, is `userfunc`
on a query; `area` is the results of each side, of which a metric writes as much as it
has.  `left` (in `Leftovers`) is what two local variables hold that the code reads in
some cases without having assigned them: the shape points of Bissell and the honours lost in
ZarFull.  Points in quarters, thirds and hundredths are integers, rounded as the code rounds.

### Scoring and Reports

`Scoring` has `score()` and `imps()` as operators and,
beside them, the laws: a sum of so much for each trick bid, over or down, and premiums (`LawScore`),
and the number of rows of the scale that are reached (`LawImps`).
`Reports` extends it: `ActOn` is one round of `action()` with one action of each
kind, and the operators after it are what `cleanup_action` adds up.  `actedOn` is a
history: how often each deal was acted on.

## 3. Runs

| Run | What it shows |
|---|---|
| `user_eval` | Answers current, one user of the page, names clean, refinement of the service; queries answered, run and shutdown end.  Two deals, three tags (one is the server's own end-of-job tag), both sides, two parts of the results area, both processes may fail at any point. |
| `dds` | Refinement of `DealResults`, failures contained, no wasted call, no solver for a library.  Two hands by two strains, two deals, both modes, at most three failing calls. |
| `calculators` | The same for dop and GIB, and no second run for a known answer. |
| `main` | File order, two passes at most, numbers that agree; a run ends, or has come to where there are only separators and stays there.  With dealt deals and with four libraries of five records, whole or cut short. |
| `dealing` | Full pack, predeal kept, groups complete without repeats. |
| `startup` | Precedence, reproduction, library rules, solver set up before it is used. |
| `parts` | Hand analysis, scoring, reports and scripts, a behaviour being one of them: the statistics of a hand by its cards for every order they come in, losers by the definition; the condition of a script by its statements and the deal in hand; `score()` and `imps()` by the laws; tables that agree with each other and with the deals. |
| `metrics` | Every tag, twice, about either side: answers that do not depend on what was asked before; sets and mixed tags that give what the metrics give alone; hands that trade places; the choice of trumps by its comment; Pavlicek's short honours by theirs; both programs for four Cs never worth less for a higher card. |
| `imps` | *Violated*: two rows of the IMP table are wrong (420, and 1200 to 1290 points). |
| `user_eval_quit` | *Violated*: tag 81 (`Q`) in a script ends the server; nothing is filled in. |
| `main_wraps` | *Violated*: without `-p` the library does not wrap around, the last record is used again. |
| `metrics_goren` | *Violated*: the suit points of Goren never get the shortness that three comments say they include. |

The violated runs state what a comment or the user guide says; the findings of
`PROJECT.json` quote it.

### Bounds, and why they are enough

* Two deals: a cache can hold a result of this deal or of another; with a third
  deal nothing new can be told apart.  Two sides are all there are; two hands and two
  strains give the first and last cell, which the code tests, and others.
* `MaxCalls`, `MaxGen` and `MaxShuffles` only cut off repetition.  A failing
  solver leaves at most three kinds of wrong value and is asked again.
* The server's tags are one that fills part of the results area, one that fills it all and
  the one that quits: all a side's cache can see.
* Hands of two cards: swapping moves whole hands and the predeal needs a hand that
  can overflow (three requests for one player) and a card asked for twice.  Two outcomes of
  the draw let a shuffle meet a slot of a predealt card and one that is free.
* A library of five records (three for the violated run) with blocks of two has a start inside the file;
  the sizes at which blocks change are constants and are scaled down with it.  Of five-record libraries
  there are four, each whole or cut short: with a separator inside, met on the first and on the
  second pass; with the last record a separator too; with a part record that looks like one; and without any deal.
  Each of them has runs that never end, so `<>(pc = "done")` alone would be false of all four: the first when the
  file is not wrapped around and the bytes on the stack happen to be null, the others also by what is in the file.
* `MaxWraps` of three: `main` tells none, one and two wraps apart, and the third is where a test for
  the end of the library that comes too late would stop.  A file of separators is wrapped around
  without end, and the count stays at the bound.
* Three switches and two statements: a precedence question needs one of each and a
  repetition; the alphabets hold each switch with the values on both sides of the
  tests in the code: limits above and below the size of the library, seeds of 0, below it, in the
  library and past its last block, and a title that is there and empty.
* Two hands and one strain for GIB, and two values a side for dop: the first, which the code tests,
  and one that a run cut short leaves out.
* The swappings are those of the guide, 0, 2 and 3; `NoRepeatsInGroup` speaks of these alone: with
  `-x 1`, which the code accepts and does not know, the index grows past the last exchange and the deal is repeated.
* Hands of eight cards of two suits, two to four, ten to ace: the code tells apart ten, the
  four honours and the others, so every kind of suit of up to eight cards is there, and void ones.
* Scripts of three statements: a definition, one that uses it or replaces it, and a condition.
  `MaxShapes` is 2 for the 32 bits of the code; two deals of 13 cards a hand, evaluated in any order.
  The trees have every operator, an unguarded and a guarded division, marked and unmarked hands.
* Metrics: 15 deals, found by a search through random ones for every length of fit, fits as good as one another,
  misfits with and without a fit, every short holding with an honour, square hands and equal partners, dealt so
  that any two hands are a side in either order; three of them are asked about, twice
  (`MaxQueries`), which is what one metric can do to another.  A metric is a function of two hands, which bounds the
  rest; two `Leftovers` tell a value that was never assigned from a zero.
* Contracts, doubles, vulnerability and tricks are complete; score differences are multiples of
  ten, as scores are, past both ends of the table.
* Three deals in a report, each any of 27, with values below, at, between and above the bounds of
  tables whose bucket size divides the range, does not, or exceeds it.

### Fairness

`FairSpec` of `UserEvalIPC`: each process runs on while it is not blocked (weak
fairness of its own steps).  The dealer's evaluation of one deal is finite, so it
comes to the next deal or to the end of the run again and again (strong fairness
of `NextDeal \/ WriteQuit`: asking more questions in between does not count as
progress).  Failures are never assumed to happen.  `DealerMain` is one process that never waits: `WF(Next)`.
The other modules state no liveness.

## 4. Proofs

All for every value of the constants, subject to what is named here.

* `UserEvalIPC_proofs`, for `LeftOver = {0}`.  The inductive invariant says whose
  turn it is (`Turns`: of the query semaphore, a working server and the reply
  semaphore exactly one holds it while the dealer waits), that the query in the
  page is the one asked and a posted reply is filled (`Exchange`), that a cache key tells the
  truth about its results area except while the server replaces it (`CacheCoherent`), and what is
  linked (`Names`).  No one of them is inductive alone: a current answer needs a
  coherent cache, that needs exclusion on the page, and that needs the turns.  Proved:
  type correctness, `AnswerIsCurrent`, `PageHasOneUser`, `NamesInOrder` (no name is left when the run ends, and none
  is unlinked that the other end still has to open), and that the conversation implements `UserEvalService`.  `RepliesAreFilled` needs
  `QuitTags = {}` as well: with a quit tag it is false, which is the finding.
* `DDSCache_proofs`, solver failures included.  A table that belongs to the deal in hand
  is right wherever it is filled, unless the solver failed on this deal.  Proved: current
  answers, contained failures, no solver in library mode, no wasted call (an
  action property), and refinement of `DealResults`.
* `Startup_proofs`, for any switches and statements in any number and order.  Until `finalize_options`
  the struct holds the last value of each switch (`StructHoldsSwitches`) and the globals what the
  switches and the script say together (`GlobalsHoldBoth`: the last to speak for the seed and the
  title, the first that is not 0 for the limits); from then on all have what was wanted (`Settled`).
  The lemmas under it say how the last and the first value of a name change when a sequence
  grows.  Proved: all four properties of the run.
* `DealerMain_proofs`, for a library of any length, with separators anywhere, cut short or not, and any
  limits and seeds.  `Counting` ties the counters of the loop and of the library to the deals
  evaluated, `Passing` says that a record was evaluated at most as often as the file was read past it,
  `Skipping` that only separators lie between the deal in hand and the position in the
  file.  Proved: `AtMostTwoPasses`, `CountsAreReported`, that the reader implements
  `LibraryScan`, and the safety half of `RunEnds`: where there is no deal to come there never will be one
  (`NoDealIsForGood`).  Two passes need `Passing` to speak of the library before its first deal as well:
  only one of separators alone can be wrapped around twice without a deal.  The numbers reported
  are wrong in one corner, which `CountsAreReported` names: one deal too many is counted when the
  run stops with one deal fewer than its limit, whether it has all the deals it wanted or has come to
  the end of the library for the second time.
* `Dealing_proofs`, for hands of any size, any predeal and any draws.  `Predealing` and `SetUp` say
  that the packs share out the cards and are counted; `Merging`, that behind the place the merge has
  come to there is a card of the small pack in every hole, so that its index never runs past
  them and the asserts hold; `Grouping`, which of the `Turns` of the hands a deal of a group
  is.  The turns are shown to be the permutations of three hands, and that the hands of a full
  deal differ makes the deals of a group differ.  A hand is sorted by some permutation
  that puts it in order; that there is one, for hands of any size, is proved by induction.
  Proved: `FullDeal`, `PredealKept`, `GroupIsComplete`, `NoRepeatsInGroup`.
* `Parts_proofs`, in five parts.
  - `HandStat`, for hands of any cards and size, read in any order.  `CountsInPlace` says that the
    three weights of a suit are those of its three highest cards (`HighestAre`, which `upd_topcards`
    keeps whatever card comes next), and that lengths and counts are sums over the cards read;
    `TotalsInPlace`, that the totals are sums over the suits.  For each combination of three
    weights the row of the switch is found, and its losers compared with the honours
    missing: no combination is unknown, so `countltc` never aborts.  Proved: `StatsOfThisHand`.
  - `Expressions`, for scripts of any statements in any number, any deals and any draws.  The invariant
    `ExprInv` has the script in place until the run stops (`ScriptInPlace`): the tables but `points` are those the
    statements ask for, and from the first deal on `points` is in step with its copy (`PointsInStep`), each tree lies behind the earlier ones with its
    operands before it, a name is defined once and by an earlier statement than those that use it, each shape number has
    the lengths of its list, and every hand that a node counts is marked.  From it: a marked hand is analysed into what `AsDealt` says (`CountsAsDealt`, `CardsAsDealt`, `BitsAsDealt`, the
    loop over the cards being that of `HandStat`), and, by induction over the places of
    `nodes`, a node has the value that its statement means, with shape numbers turned into
    statements.  That a list's last fitting element decides is an induction over the list.  The condition alone is no
    invariant: its value depends on marks and trees made long before the deal.  Proved:
    `ConditionIsOfThisDeal`.
  - `Scoring`, for every contract and result.  The sums of the laws are worked out trick by trick and
    compared with the code's formulas.  Proved: `ScoringIsLawful`; of `imps()`, outside the two wrong rows.
  - `Reports`, for any bounds, bucket sizes, contract and deals.  The invariant has each counter equal
    to the number of times a deal of its values was acted on (`FreqsInPlace`, `BucketsInPlace`,
    `TricksInPlace`), and the tables of two expressions have those of one as their margins
    (`RowsAgree`).  The two ways of finding a bucket agree because a quotient is unique; the
    loop that carries column totals along is shown to leave the sums.  Proved:
    `CountedWhereItBelongs`, `TablesAgree`, `MadeOrFailed`.
  - `Calculators`, failures included: as for `DDSCache`, with dop and GIB for the solver.  The invariant
    has the sides' values tied to the deal they are for only while they are marked
    cached, as one deal number serves two sides.  `OneRunEach` needs a second invariant on top of it
    (`RunsCounted`): the runs are counted by the sides and the hands and strains that are marked, so
    that a question either finds its mark or adds one to both.
* `Metrics_proofs`, for any deals of thirteen cards a hand, any tags, any number of queries in any order
  and whatever the unassigned variables hold.
  - `TrumpsAreBest`: the tests of the loop are the lexicographic order of the comment
    (`BetterIsPreferred`), which is strict and total up to ties, so that each of the four steps keeps a suit
    that none before it beats (`OneMoreSuit`).
  - `AnswersAsFirstAsked`: two servers side by side, one that has answered anything before and one that was
    just started.  `prolog` makes the sheets the same (`RanOnce`), so the slots that have been
    written agree after each run, after the sequence of runs of a tag, and after the replies that move
    results about (`RanShows`, `RunAllShows`, `MixedShows`, `SetShows`).  The invariant says it of both
    sides, since a query about one leaves the area of the other alone.
  - `SetGivesTheSingles`: each run of a set leaves its six results (`RanTells`), which outlive the later runs
    because they are copied aside; `ReplyAgrees` follows them into the places of the answer.
  - `ShortHonoursByTheBook`: a singleton and a doubleton are their one and two cards; what
    is left is the two tables, entry by entry.
  - `HigherCardsCountMore`: both programs become arithmetic on the length of a suit and on which
    of its cards from the eight up are held (`CsByCards`); `ChangeCountsMore` compares the two sums for every
    length, pair of ranks and set of the other honours.
  - `SeatsTradePlaces`: with the hands exchanged, fits, misfits, the trumps and, of hands of
    different strength, the declarer go with the hand (`FitsTrade`, `TrumpsTrade`, `MisfitsTrade`).
    Then each of the nine metrics is reduced to its two results as sums over the parts of the sheet
    (`GorenResults`, `PavResults`, ...), and every part is shown to be mirrored.
* `NumberFacts`: the sum over a finite set does not depend on the order in which the library's
  definition takes the elements.  That definition is a recursive function by CHOOSE; its
  existence, and the step from a set to one with an element less, are proved by induction on
  the size (as a least counterexample, since the induction theorems of the library cannot be
  instantiated).  From it: sums of functions that differ in one place, of parts, of zeros, and sums
  known step by step.

The assumptions on the constants are the types of what they stand for and these: the library's size
limits are in order (`SmallLib <= PartialLib`), and it has a record; the deals of a
report are a finite set; a report's tables have upper bounds not below the lower and positive
bucket sizes, and its contract is one the grammar knows; dop prints a value at least; the kernel's
seeds are not 0; the metrics are asked about hands of thirteen cards, and a condition about hands of
thirteen different ones; the operands of a node in a script come before it, a node without any is
one that has none in the grammar, `shape()` is the whole expression of its variable, and
`altcount` names a table there is.

The recursive functions (the loop over a hand, the walk over a tree, the list of a shape) are
unfolded from the existence of a function that satisfies the recursion, proved as a least counterexample
too.

Model-checked only: the liveness properties (`QueryAnswered`, `ShutdownCompletes`, both `RunEnds`),
which are out of the prover's reach.

## 5. Not modelled, and what was abstracted

* Values.  In the caches and the conversation a metric, a trick count or points are what they are the right
  value of; what the metrics compute is in `Metrics`, without the floating point: `roundf` of quarters and
  thirds is integer rounding.
* `c4.c` reads lengths and the square hand from `handstat`; `Knr` finds them from the cards.  They are of the
  same deal, since `cccc` and `quality` mark their hand.
* The order in which C evaluates the operands of `+` and the like is not fixed; no operand changes
  what another one reads, so it makes no difference.  Products that overflow an `int` are left out.
* The bytes of a library record are its number; the compression of deals is left out.
* Tables of a report whose upper bound is below the lower, or whose bucket size is not positive:
  the parser lets them through, and a size of zero divides by zero while it parses
  (`ReportsAssumption` leaves them out).  Products that overflow in the sum of squares.
* Scanning, syntax errors, the table that `altcount` with a number above 10 would write past, biased deals
  (parsed and never read), debug levels, output formats, file names.
* The solver library, `dop` and GIB are seen from outside: they answer or fail.
* The programs outside `src/src` and `src/UserEval` share nothing with a run.

Seen while modelling, and not the subject of a run: "Generated n hands" is one too many when
the last deal wanted is the last but one allowed, or the library ends there for the second time
(`dealerv2.c` 214); after a crash the semaphores
keep their values for the next run (`LeftOver`); `dealdds_subs.c` 247-248 marks a
result successful in spite of an error code; a record number that does not match
is reported and used; a seed of 10485 is clipped to 10484; `-x 1` is accepted and is not one of the swappings the
code knows; `rplib_recs` keeps its default, never the size of the file
(`dealinit_subs.c` 311); `show_freq2D` clears one element past its column totals
(`deal_bktfreq_subs.c` 203); in a suit of eleven or twelve cards with ace, king, jack and ten, the queen
in place of the ten makes the hand worth a twentieth or a tenth of a point less, as a missing queen counts as much there as
one that is held, and the jack counts only with exactly two higher honours (`c4.c` 112, 215): `HigherCardsCountMore` had only the exception of the jack until the
attempt to prove it.

Disagreements with a comment or the guide that no run is spent on: `opener` in a script is overwritten with West
(`dealinit_subs.c` 160-164); the shuffle called Knuth's draws from all the slots each time
(`dealcard_subs.c` 28-34); "only 32 allowed" of shapes refuses the 32nd
(`dealyacc.y` 358-361); Larsson and Morse count the nines of both hands for the second (`metrics_calcs.c` 815, 843);
the set of tag 88 leaves out Sheinwold though `UserServer.c` 250 says all metrics there is code for, and reports 0, not the -1 of its
comment, for what it leaves out (`metrics_calcs.c` 1393); `Fill_side_fitstat` adds the length of the first hand to itself
(`metrics_util_subs.c` 870), in a total that nothing reads.

## 6. Plan

Done, in order: `UserEvalIPC`, `DDSCache`, `RPLib`/`DealerMain`, `Dealing`,
`Startup`, `Calculators`, `HandStat`, `Scoring`, `Reports`,
`Metrics` with `Factors` and `Knr`, `Expressions`.

Left of the modelling: the composition of the main loop with the caches over one `ngen`, a run after an
aborted one with what it left behind (`LeftOver` is its constant), and the rest of the actions.

Theorems proved, in order: the three caches, `Startup`, `DealerMain`, `Dealing`, `OneRunEach`,
`Reports`, `Scoring`, `HandStat`, `Metrics`, `Expressions`.  Every safety property that a run checks is a
theorem.

To prove next: that the pages of `UserEvalIPC` and the keys of the caches stay right when one `ngen` drives
all of them, once that composition is modelled.
