---------------------------- MODULE UserEvalIPC ----------------------------
(***************************************************************************)
(* The conversation between a dealer process and the DealerServer process  *)
(* it forks for usereval() queries (src/src/dealServer_subs.c and          *)
(* src/UserEval/src/UserServer.c).  The two share one mmap page and two    *)
(* named semaphores: the dealer posts qsem when a query is in the page,    *)
(* the server posts rsem when the results are.                             *)
(*                                                                         *)
(* What a metric computes is abstracted: the number the metric tag gives   *)
(* to slot k of the results of a side on deal d is the record              *)
(* Metric(tag, side, d), so that an answer tells which query, and which    *)
(* deal, it really belongs to.                                             *)
(***************************************************************************)
EXTENDS Integers

CONSTANTS
  Tags,          \* query tags a script may use in usereval()
  QuitTags,      \* those userfunc takes as the end of the job ('Q', 81)
  Slots,         \* groups of entries of the 64 entry results area of a side
  Writes,        \* Writes[tag]: the slots the metric of the tag fills in
  MaxGen,        \* maxgenerate: bounds the number of deals
  LeftOver,      \* values a semaphore of that name may hold before the run
  ServerMayFail, \* the server may die, or its execve fail
  DealerMayAbort \* the dealer may end without cleanup (assert, exit, signal)

Side   == {0, 1}          \* SIDE_NS, SIDE_EW
NoTag  == -1              \* initial qtag of the cache, tag of a NO_MORE_QUERY
NoDeal == -1

Metric(tag, side, deal) == [tag |-> tag, side |-> side, deal |-> deal]
NoMetric == Metric(NoTag, 0, NoDeal)
NoAnswer == [tag |-> NoTag, side |-> 0, slot |-> NoTag,
             deal |-> NoDeal, value |-> NoMetric]

ASSUME ConstantsAssumption ==
  /\ QuitTags \subseteq Tags
  /\ NoTag \notin Tags
  /\ NoTag \notin Slots
  /\ Writes \in [Tags -> SUBSET Slots]
  /\ MaxGen \in Nat
  /\ LeftOver \subseteq Nat
  /\ ServerMayFail \in BOOLEAN
  /\ DealerMayAbort \in BOOLEAN

VARIABLES
  dpc,      \* where the dealer is
  ngen,     \* number of the deal the dealer is evaluating
  ask,      \* arguments of the ask_query call in progress
  answer,   \* the last result ask_query returned, with what was asked
  cache,    \* UEVAL_CACHE_k: deal number and tag of each side's results
  query,    \* page: query_type_k and the deal data written beside it
  res,      \* page: USER_VALUES_k of each side
  qsem,     \* value of the query semaphore
  rsem,     \* value of the reply semaphore
  linked,   \* the names of the semaphores still exist
  spc       \* where the server is

dealerVars == <<dpc, ngen, ask, answer, cache>>
vars == <<dpc, ngen, ask, answer, cache, query, res, qsem, rsem, linked, spc>>

DealerPC == {"setup", "ready", "stale", "copied", "waiting", "woken",
             "killing", "reaping", "closing", "done", "aborted"}
\* "lost": the server opened names the dealer had unlinked, so its
\* semaphores are new ones that nobody else has.
ServerPC == {"none", "forked", "idle", "busy", "computed", "eoj", "unlinking",
             "exited", "lost"}

Value == [tag : Tags \cup {NoTag}, side : Side, deal : Int]
Ask   == [tag : Tags \cup {NoTag}, side : Side, slot : Slots \cup {NoTag}]
NoAsk == [tag |-> NoTag, side |-> 0, slot |-> NoTag]

Init ==
  /\ dpc = "setup"
  /\ ngen = 1
  /\ ask = NoAsk
  /\ answer = NoAnswer
  /\ cache = [s \in Side |-> [tag |-> NoTag, deal |-> NoDeal]]
  /\ query = NoMetric
  /\ res = [s \in Side |-> [k \in Slots |-> NoMetric]]
  /\ qsem \in LeftOver
  /\ rsem \in LeftOver
  /\ linked = FALSE
  /\ spc = "none"

-----------------------------------------------------------------------------
(* The dealer.                                                             *)

\* setup_userserver: the page and the two semaphores are created (sem_open
\* without O_EXCL keeps the value of a semaphore that already exists), the
\* cache is emptied and the server forked.
SetupUserserver ==
  /\ dpc = "setup"
  /\ dpc' = "ready"
  /\ linked' = TRUE
  /\ cache' = [s \in Side |-> [tag |-> NoTag, deal |-> NoDeal]]
  /\ spc' = "forked"
  /\ UNCHANGED <<ngen, ask, answer, query, res, qsem, rsem>>

\* Faults: the cache test forgets the deal, or the tag.
CacheOKAnyDeal(tag, side) == cache[side].tag = tag
CacheOKAnyTag(tag, side)  == cache[side].deal = ngen

CacheOK(tag, side) == cache[side] = [tag |-> tag, deal |-> ngen]

ReadResult(tag, side, slot) ==
  answer' = [tag |-> tag, side |-> side, slot |-> slot,
             deal |-> ngen, value |-> res[side][slot]]

\* ask_query answers from the results area when the cache is current.
AskCached(tag, side, slot) ==
  /\ dpc = "ready"
  /\ CacheOK(tag, side)
  /\ ReadResult(tag, side, slot)
  /\ UNCHANGED <<dpc, ngen, ask, cache, query, res, qsem, rsem, linked, spc>>

\* ask_query finds the cache stale and calls true_ask_query.
AskStale(tag, side, slot) ==
  /\ dpc = "ready"
  /\ ~CacheOK(tag, side)
  /\ ask' = [tag |-> tag, side |-> side, slot |-> slot]
  /\ dpc' = "stale"
  /\ UNCHANGED <<ngen, answer, cache, query, res, qsem, rsem, linked, spc>>

\* true_ask_query puts the query and a copy of the deal in the page.
WriteQuery ==
  /\ dpc = "stale"
  /\ query' = [tag |-> ask.tag, side |-> ask.side, deal |-> ngen]
  /\ dpc' = "copied"
  /\ UNCHANGED <<ngen, ask, answer, cache, res, qsem, rsem, linked, spc>>

PostQuery ==
  /\ dpc = "copied"
  /\ qsem' = qsem + 1
  /\ dpc' = "waiting"
  /\ UNCHANGED <<ngen, ask, answer, cache, query, res, rsem, linked, spc>>

\* sem_wait(p_rsem), which has no timeout.
WakeReply ==
  /\ dpc = "waiting"
  /\ rsem > 0
  /\ rsem' = rsem - 1
  /\ dpc' = "woken"
  /\ UNCHANGED <<ngen, ask, answer, cache, query, res, qsem, linked, spc>>

\* cache_upd, and the rest of ask_query.
ReturnReply ==
  /\ dpc = "woken"
  /\ cache' = [cache EXCEPT ![ask.side] = [tag |-> ask.tag, deal |-> ngen]]
  /\ ReadResult(ask.tag, ask.side, ask.slot)
  /\ ask' = NoAsk
  /\ dpc' = "ready"
  /\ UNCHANGED <<ngen, query, res, qsem, rsem, linked, spc>>

\* The next round of the main loop generates another deal.
NextDeal ==
  /\ dpc = "ready"
  /\ ngen < MaxGen
  /\ ngen' = ngen + 1
  /\ UNCHANGED <<dpc, ask, answer, cache, query, res, qsem, rsem, linked, spc>>

\* kill_userserver: the run is over, the page gets a NO_MORE_QUERY query.
WriteQuit ==
  /\ dpc = "ready"
  /\ query' = [query EXCEPT !.tag = NoTag]
  /\ dpc' = "killing"
  /\ UNCHANGED <<ngen, ask, answer, cache, res, qsem, rsem, linked, spc>>

\* Fault: the semaphore is not posted.
PostQuitForgotten ==
  /\ dpc = "killing"
  /\ dpc' = "reaping"
  /\ UNCHANGED <<ngen, ask, answer, cache, query, res, qsem, rsem, linked, spc>>

PostQuit ==
  /\ dpc = "killing"
  /\ qsem' = qsem + 1
  /\ dpc' = "reaping"
  /\ UNCHANGED <<ngen, ask, answer, cache, query, res, rsem, linked, spc>>

\* waitfor_server: waitpid blocks until the server has exited.
WaitForServer ==
  /\ dpc = "reaping"
  /\ spc = "exited"
  /\ dpc' = "closing"
  /\ UNCHANGED <<ngen, ask, answer, cache, query, res, qsem, rsem, linked, spc>>

\* Fault: unlinking the names is left to the server.
CleanupByServer ==
  /\ dpc = "closing"
  /\ dpc' = "done"
  /\ UNCHANGED <<ngen, ask, answer, cache, query, res, qsem, rsem, linked, spc>>

\* cleanup_userserver: close and unlink the semaphores and the mmap file.
Cleanup ==
  /\ dpc = "closing"
  /\ linked' = FALSE
  /\ dpc' = "done"
  /\ UNCHANGED <<ngen, ask, answer, cache, query, res, qsem, rsem, spc>>

\* die, exit, a failed assert or a signal: nothing is cleaned up.
Abort ==
  /\ DealerMayAbort
  /\ dpc \notin {"setup", "done", "aborted"}
  /\ dpc' = "aborted"
  /\ UNCHANGED <<ngen, ask, answer, cache, query, res, qsem, rsem, linked, spc>>

-----------------------------------------------------------------------------
(* The server.                                                             *)

\* link_mmap and open_semaphore: opening by name creates what is not there.
StartServer ==
  /\ spc = "forked"
  /\ spc' = IF linked THEN "idle" ELSE "lost"
  /\ linked' = TRUE
  /\ UNCHANGED <<dealerVars, query, res, qsem, rsem>>

\* execve failed and the child calls die.
ExecFails ==
  /\ ServerMayFail
  /\ spc = "forked"
  /\ spc' = "exited"
  /\ UNCHANGED <<dealerVars, query, res, qsem, rsem, linked>>

\* Faults: the server polls (sem_trywait, result ignored); it posts the reply
\* before it works on the query.
WakeQueryPolls ==
  /\ spc = "idle"
  /\ qsem' = qsem - 1
  /\ spc' = IF query.tag = NoTag THEN "eoj" ELSE "busy"
  /\ UNCHANGED <<dealerVars, query, res, rsem, linked>>

WakeQueryRepliesFirst ==
  /\ spc = "idle"
  /\ qsem > 0
  /\ qsem' = qsem - 1
  /\ rsem' = rsem + 1
  /\ spc' = IF query.tag = NoTag THEN "eoj" ELSE "busy"
  /\ UNCHANGED <<dealerVars, query, res, linked>>

\* sem_wait(p_qsem) returns; a negative tag ends the main loop.
WakeQuery ==
  /\ spc = "idle"
  /\ qsem > 0
  /\ qsem' = qsem - 1
  /\ spc' = IF query.tag = NoTag THEN "eoj" ELSE "busy"
  /\ UNCHANGED <<dealerVars, query, res, rsem, linked>>

\* userfunc: the metric of the tag fills in its slots for the side asked.
UserFunc ==
  /\ spc = "busy"
  /\ query.tag \notin QuitTags \cup {NoTag}
  /\ res' = [res EXCEPT ![query.side] =
               [k \in Slots |-> IF k \in Writes[query.tag]
                                THEN Metric(query.tag, query.side, query.deal)
                                ELSE @[k]]]
  /\ spc' = "computed"
  /\ UNCHANGED <<dealerVars, query, qsem, rsem, linked>>

\* userfunc: the Quit cases of the switch.
UserFuncQuit ==
  /\ spc = "busy"
  /\ query.tag \in QuitTags \cup {NoTag}
  /\ spc' = "eoj"
  /\ UNCHANGED <<dealerVars, query, res, qsem, rsem, linked>>

\* Fault: the reply is not posted.
PostReplyForgotten ==
  /\ spc = "computed"
  /\ spc' = "idle"
  /\ UNCHANGED <<dealerVars, query, res, qsem, rsem, linked>>

PostReply ==
  /\ spc = "computed"
  /\ rsem' = rsem + 1
  /\ spc' = "idle"
  /\ UNCHANGED <<dealerVars, query, res, qsem, linked>>

\* Fault: the server goes back to its loop instead of ending.
EojPostGoesOn ==
  /\ spc = "eoj"
  /\ rsem' = rsem + 1
  /\ spc' = "idle"
  /\ UNCHANGED <<dealerVars, query, res, qsem, linked>>

\* server_eoj: post "in case the client is still waiting" ...
EojPost ==
  /\ spc = "eoj"
  /\ rsem' = rsem + 1
  /\ spc' = "unlinking"
  /\ UNCHANGED <<dealerVars, query, res, qsem, linked>>

\* ... then eoj_mutex unlinks the names, and exit.
EojUnlink ==
  /\ spc = "unlinking"
  /\ linked' = FALSE
  /\ spc' = "exited"
  /\ UNCHANGED <<dealerVars, query, res, qsem, rsem>>

\* The server is killed, or dies in a metric.
ServerDies ==
  /\ ServerMayFail
  /\ spc \in {"idle", "busy", "computed", "eoj", "unlinking", "lost"}
  /\ spc' = "exited"
  /\ UNCHANGED <<dealerVars, query, res, qsem, rsem, linked>>

-----------------------------------------------------------------------------
\* The run is over: both processes have ended.
Terminated ==
  /\ dpc = "done"
  /\ spc = "exited"
  /\ UNCHANGED vars

DealerNext ==
  \/ SetupUserserver
  \/ \E tag \in Tags, side \in Side, slot \in Slots :
        AskCached(tag, side, slot) \/ AskStale(tag, side, slot)
  \/ WriteQuery \/ PostQuery \/ WakeReply \/ ReturnReply
  \/ NextDeal
  \/ WriteQuit \/ PostQuit \/ WaitForServer \/ Cleanup
  \/ Abort

ServerNext ==
  \/ StartServer \/ ExecFails \/ WakeQuery \/ UserFunc \/ UserFuncQuit \/ PostReply
  \/ EojPost \/ EojUnlink \/ ServerDies

Next == DealerNext \/ ServerNext \/ Terminated

Spec == Init /\ [][Next]_vars

(***************************************************************************)
(* Fairness.  Both processes run until they block; a metric and the        *)
(* evaluation of one deal are finite computations, so the main loop always *)
(* comes to the end of a deal (strong fairness: asking again in the middle *)
(* of a deal is allowed, for ever it is not).  Failures are never forced.  *)
(***************************************************************************)
DealerSteps ==
  \/ SetupUserserver \/ WriteQuery \/ PostQuery \/ WakeReply \/ ReturnReply
  \/ PostQuit \/ WaitForServer \/ Cleanup

ServerSteps ==
  \/ StartServer \/ WakeQuery \/ UserFunc \/ UserFuncQuit \/ PostReply
  \/ EojPost \/ EojUnlink

Fairness ==
  /\ WF_vars(DealerSteps)
  /\ WF_vars(ServerSteps)
  /\ SF_vars(NextDeal \/ WriteQuit)

FairSpec == Spec /\ Fairness

-----------------------------------------------------------------------------
\* Every variable keeps to the values the declarations of the code allow.
TypeOK ==
  /\ dpc \in DealerPC
  /\ ngen \in Nat /\ ngen >= 1
  /\ ask \in Ask
  /\ answer \in [tag : Tags \cup {NoTag}, side : Side, slot : Slots \cup {NoTag},
                 deal : Int, value : Value]
  /\ cache \in [Side -> [tag : Tags \cup {NoTag}, deal : Int]]
  /\ query \in Value
  /\ res \in [Side -> [Slots -> Value]]
  /\ qsem \in Nat /\ rsem \in Nat
  /\ linked \in BOOLEAN
  /\ spc \in ServerPC

\* An answer of ask_query, cached or fresh, is the metric that was asked, of
\* the side and of the deal being evaluated, for every entry that metric
\* fills in.  (No promise for a tag the server takes as its end of job.)
AnswerIsCurrent ==
  answer.tag \in Tags \ QuitTags /\ answer.slot \in Writes[answer.tag] =>
    answer.value = Metric(answer.tag, answer.side, answer.deal)

\* dealServer_subs.c:448 on return from sem_wait(p_rsem): "server has answered
\* our query .. by filling in the results fields in the mmap".
ServerHasAnswered ==
  dpc = "woken" =>
    \A k \in Writes[ask.tag] : res[ask.side][k] = Metric(ask.tag, ask.side, ngen)

\* The page has one user at a time: while the server works on a query the
\* dealer neither rewrites the query and the deal nor reads the results.
PageHasOneUser ==
  spc \in {"busy", "computed"} => dpc \in {"waiting", "aborted"}

\* The server never opens names that are gone, which would leave it waiting
\* on a semaphore of its own for ever.
ServerNotLost == spc # "lost"

\* A finished run leaves no semaphore name behind, whatever became of the server.
NoNamesLeft == dpc = "done" => ~linked

\* The two together: names are unlinked by both processes, in time and not too soon.
NamesInOrder == ServerNotLost /\ NoNamesLeft

\* Every query that is posted is answered, unless a process ends: sem_wait has
\* no timeout.
QueryAnswered ==
  dpc = "waiting" ~> dpc \in {"ready", "aborted"} \/ spc = "exited"

\* The run comes to its end, and so does the server it has: the only way not
\* to is to wait for a server that has ended.
RunEnds ==
  <>(\/ dpc = "done" /\ spc = "exited"
     \/ dpc = "aborted"
     \/ dpc = "waiting" /\ spc = "exited")

\* Once the dealer starts its shutdown it completes it, even when the server
\* died before or dies during it (unless the dealer is killed too).
ShutdownCompletes == dpc = "killing" ~> dpc \in {"done", "aborted"}

-----------------------------------------------------------------------------
(***************************************************************************)
(* Why it works: an inductive invariant (for LeftOver = {0}).  The dealer  *)
(* only leaves "ready" with both semaphores at zero; from then on exactly  *)
(* one of qsem, the working server and rsem holds the turn.                *)
(***************************************************************************)
Alive == dpc # "aborted"
Resting == {"forked", "idle", "unlinking", "exited"}

Filled(tag, side, deal) ==
  tag \in Tags \ QuitTags =>
    \A k \in Writes[tag] : res[side][k] = Metric(tag, side, deal)

\* Whose turn it is, at every point of the dealer's program.
Turns ==
  /\ dpc = "setup" => qsem = 0 /\ rsem = 0 /\ spc = "none"
  /\ dpc \in {"ready", "stale", "copied", "woken", "killing"} =>
       qsem = 0 /\ rsem = 0 /\ spc \in Resting
  /\ dpc = "waiting" =>
       \/ qsem = 1 /\ rsem = 0 /\ spc \in Resting
       \/ qsem = 0 /\ rsem = 0 /\ spc \in {"busy", "computed", "eoj", "exited"}
       \/ qsem = 0 /\ rsem = 1 /\ spc \in {"idle", "unlinking", "exited"}
  /\ dpc = "reaping" => spc \in Resting \cup {"eoj"} /\ query.tag = NoTag
  /\ dpc \in {"closing", "done"} => spc = "exited"

\* The query in the page is the one the dealer is asking, and once it is
\* answered its results are in the page.
Exchange ==
  /\ dpc \in {"stale", "copied", "waiting", "woken"} =>
       ask.tag \in Tags /\ ask.slot \in Slots
  /\ Alive /\ dpc \notin {"stale", "copied", "waiting", "woken"} => ask = NoAsk
  /\ dpc \in {"copied", "waiting"} => query = Metric(ask.tag, ask.side, ngen)
  /\ dpc \in {"killing", "reaping"} => query.tag = NoTag
  /\ dpc = "waiting" /\ spc = "eoj" => ask.tag \in QuitTags
  /\ dpc = "woken" \/ (dpc = "waiting" /\ (spc = "computed" \/ rsem = 1)) =>
       Filled(ask.tag, ask.side, ngen)

\* The cache key of a side tells what its results area holds, except for the
\* side being asked about, whose results the server is replacing.
CacheCoherent ==
  \A s \in Side :
    /\ cache[s].deal <= ngen
    /\ Alive /\ ~(dpc \in {"waiting", "woken"} /\ ask.side = s)
       /\ cache[s].deal = ngen => Filled(cache[s].tag, s, ngen)

Names == (spc = "forked" => linked) /\ ServerNotLost /\ NoNamesLeft

IInv == TypeOK /\ Turns /\ Exchange /\ CacheCoherent /\ Names /\ PageHasOneUser
        /\ AnswerIsCurrent

\* The service this implements.
Service == INSTANCE UserEvalService WITH
             deal <- ngen, pending <- ask, reply <- answer
ImplementsService == Service!Spec
=============================================================================
