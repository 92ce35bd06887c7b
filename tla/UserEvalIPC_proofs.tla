------------------------- MODULE UserEvalIPC_proofs -------------------------
(***************************************************************************)
(* Proofs about UserEvalIPC for any tags, any number of deals, with and    *)
(* without failures, when the semaphores start at zero: an answer is       *)
(* always that of the current deal, the page has one user at a time, and   *)
(* the conversation implements UserEvalService.                            *)
(***************************************************************************)
EXTENDS UserEvalIPC, TLAPS

USE ConstantsAssumption DEF ConstantsAssumption

\* A run starts with semaphores at zero, empty caches and no server.
LEMMA InitInv == ASSUME LeftOver = {0} PROVE Init => IInv
<1> SUFFICES ASSUME Init PROVE IInv
  OBVIOUS
<1> USE DEF Init, NoTag, NoDeal, NoAsk, Side
<1>1. qsem = 0 /\ rsem = 0
  OBVIOUS
<1>2. TypeOK
  <2>1. linked \in BOOLEAN
    BY Zenon
  <2>2. answer \in [tag : Tags \cup {NoTag}, side : Side, slot : Slots \cup {NoTag},
                   deal : Int, value : Value]
    BY DEF NoAnswer, NoMetric, Metric, Value
  <2>3. query \in Value /\ res \in [Side -> [Slots -> Value]]
    BY DEF NoMetric, Metric, Value
  <2>4. QED
    BY <1>1, <2>1, <2>2, <2>3 DEF TypeOK, Ask, DealerPC, ServerPC
<1>3. Turns /\ Names /\ PageHasOneUser
  BY <1>1 DEF Turns, Names, ServerNotLost, NoNamesLeft, PageHasOneUser
<1>4. Exchange
  BY <1>1 DEF Exchange
<1>5. CacheCoherent /\ AnswerIsCurrent
  BY DEF CacheCoherent, AnswerIsCurrent, NoAnswer
<1>6. QED
  BY <1>2, <1>3, <1>4, <1>5 DEF IInv

\* No step of either process takes a variable out of its type.
LEMMA TypeStep == IInv /\ [Next]_vars => TypeOK'
<1> SUFFICES ASSUME IInv, [Next]_vars PROVE TypeOK'
  OBVIOUS
<1> USE DEF IInv, TypeOK, dealerVars, DealerPC, ServerPC, Value, Ask, Metric, NoTag, NoAsk, Side
<1>1. CASE SetupUserserver  BY <1>1 DEF SetupUserserver, NoDeal
<1>2. ASSUME NEW tag \in Tags, NEW side \in Side, NEW slot \in Slots,
             AskCached(tag, side, slot) \/ AskStale(tag, side, slot)
      PROVE  TypeOK'
  <2>1. CASE AskCached(tag, side, slot) BY <2>1 DEF AskCached, ReadResult
  <2>2. CASE AskStale(tag, side, slot)  BY <2>2 DEF AskStale
  <2>3. QED BY <1>2, <2>1, <2>2
<1>3. CASE WriteQuery       BY <1>3 DEF WriteQuery
<1>4. CASE PostQuery        BY <1>4 DEF PostQuery
<1>5. CASE WakeReply        BY <1>5 DEF WakeReply
<1>6. CASE ReturnReply
  <2>1. ask.tag \in Tags /\ ask.slot \in Slots
    BY <1>6 DEF ReturnReply, IInv, Exchange
  <2>2. QED BY <1>6, <2>1 DEF ReturnReply, ReadResult
<1>7. CASE NextDeal         BY <1>7 DEF NextDeal
<1>8. CASE WriteQuit
  <2>1. query' \in Value
    BY <1>8 DEF WriteQuit
  <2>2. QED BY <1>8, <2>1 DEF WriteQuit
<1>9. CASE PostQuit         BY <1>9 DEF PostQuit
<1>10. CASE WaitForServer   BY <1>10 DEF WaitForServer
<1>11. CASE Cleanup
  <2>1. linked' \in BOOLEAN
    BY <1>11, Zenon DEF Cleanup
  <2>2. QED BY <1>11, <2>1 DEF Cleanup
<1>12. CASE Abort           BY <1>12 DEF Abort
<1>13. CASE StartServer     BY <1>13 DEF StartServer
<1>14. CASE ExecFails       BY <1>14 DEF ExecFails
<1>15. CASE WakeQuery       BY <1>15 DEF WakeQuery
<1>16. CASE UserFunc
  <2>1. Metric(query.tag, query.side, query.deal) \in Value
    BY <1>16
  <2>2. query.side \in Side /\ query.tag \in Tags
    BY <1>16 DEF UserFunc
  <2>3. [k \in Slots |-> IF k \in Writes[query.tag]
                         THEN Metric(query.tag, query.side, query.deal)
                         ELSE res[query.side][k]] \in [Slots -> Value]
    BY <2>1, <2>2 DEF Side
  <2>4. QED BY <1>16, <2>2, <2>3 DEF UserFunc
<1>17. CASE UserFuncQuit    BY <1>17 DEF UserFuncQuit
<1>18. CASE PostReply       BY <1>18 DEF PostReply
<1>19. CASE EojPost         BY <1>19 DEF EojPost
<1>20. CASE EojUnlink
  <2>1. linked' \in BOOLEAN
    BY <1>20, Zenon DEF EojUnlink
  <2>2. QED BY <1>20, <2>1 DEF EojUnlink
<1>21. CASE ServerDies      BY <1>21 DEF ServerDies
<1>22. CASE UNCHANGED vars  BY <1>22 DEF vars
<1>23. QED
  BY <1>1, <1>2, <1>3, <1>4, <1>5, <1>6, <1>7, <1>8, <1>9, <1>10, <1>11, <1>12, <1>13,
     <1>14, <1>15, <1>16, <1>17, <1>18, <1>19, <1>20, <1>21, <1>22
  DEF Next, DealerNext, ServerNext, Terminated

\* A step hands the turn over: qsem, the working server and rsem never hold it
\* together.
LEMMA TurnsStep == IInv /\ [Next]_vars => Turns'
<1> SUFFICES ASSUME IInv, [Next]_vars PROVE Turns'
  OBVIOUS
<1> USE DEF IInv, TypeOK, dealerVars, NoTag, NoDeal, Side, Turns, Exchange, Names, ServerNotLost, Resting, Metric
<1>1. CASE SetupUserserver BY <1>1 DEF SetupUserserver
<1>2. ASSUME NEW tag \in Tags, NEW side \in Side, NEW slot \in Slots,
             AskCached(tag, side, slot) \/ AskStale(tag, side, slot)
      PROVE  Turns'
  BY <1>2 DEF AskCached, AskStale, CacheOK, ReadResult
<1>3. CASE WriteQuery BY <1>3 DEF WriteQuery
<1>4. CASE PostQuery BY <1>4 DEF PostQuery
<1>5. CASE WakeReply BY <1>5 DEF WakeReply
<1>6. CASE ReturnReply BY <1>6 DEF ReturnReply, ReadResult
<1>7. CASE NextDeal BY <1>7 DEF NextDeal
<1>8. CASE WriteQuit BY <1>8 DEF WriteQuit
<1>9. CASE PostQuit BY <1>9 DEF PostQuit
<1>10. CASE WaitForServer BY <1>10 DEF WaitForServer
<1>11. CASE Cleanup BY <1>11 DEF Cleanup
<1>12. CASE Abort BY <1>12 DEF Abort
<1>13. CASE StartServer BY <1>13 DEF StartServer
<1>14. CASE ExecFails BY <1>14 DEF ExecFails
<1>15. CASE WakeQuery BY <1>15 DEF WakeQuery
<1>16. CASE UserFunc BY <1>16 DEF UserFunc
<1>17. CASE UserFuncQuit BY <1>17 DEF UserFuncQuit
<1>18. CASE PostReply BY <1>18 DEF PostReply
<1>19. CASE EojPost BY <1>19 DEF EojPost
<1>20. CASE EojUnlink BY <1>20 DEF EojUnlink
<1>21. CASE ServerDies BY <1>21 DEF ServerDies
<1>22. CASE UNCHANGED vars BY <1>22 DEF vars
<1>23. QED
  BY <1>1, <1>2, <1>3, <1>4, <1>5, <1>6, <1>7, <1>8, <1>9, <1>10, <1>11, <1>12,
     <1>13, <1>14, <1>15, <1>16, <1>17, <1>18, <1>19, <1>20, <1>21, <1>22
  DEF Next, DealerNext, ServerNext, Terminated

\* A step never unlinks the names before the server it forked has opened them.
LEMMA NamesStep == IInv /\ [Next]_vars => Names'
<1> SUFFICES ASSUME IInv, [Next]_vars PROVE Names'
  OBVIOUS
<1> USE DEF IInv, TypeOK, dealerVars, NoTag, NoDeal, Side, Names, ServerNotLost, NoNamesLeft, Turns, Resting
<1>1. CASE SetupUserserver BY <1>1 DEF SetupUserserver
<1>2. ASSUME NEW tag \in Tags, NEW side \in Side, NEW slot \in Slots,
             AskCached(tag, side, slot) \/ AskStale(tag, side, slot)
      PROVE  Names'
  BY <1>2 DEF AskCached, AskStale, CacheOK, ReadResult
<1>3. CASE WriteQuery BY <1>3 DEF WriteQuery
<1>4. CASE PostQuery BY <1>4 DEF PostQuery
<1>5. CASE WakeReply BY <1>5 DEF WakeReply
<1>6. CASE ReturnReply BY <1>6 DEF ReturnReply, ReadResult
<1>7. CASE NextDeal BY <1>7 DEF NextDeal
<1>8. CASE WriteQuit BY <1>8 DEF WriteQuit
<1>9. CASE PostQuit BY <1>9 DEF PostQuit
<1>10. CASE WaitForServer BY <1>10 DEF WaitForServer
<1>11. CASE Cleanup BY <1>11 DEF Cleanup
<1>12. CASE Abort BY <1>12 DEF Abort
<1>13. CASE StartServer BY <1>13 DEF StartServer
<1>14. CASE ExecFails BY <1>14 DEF ExecFails
<1>15. CASE WakeQuery BY <1>15 DEF WakeQuery
<1>16. CASE UserFunc BY <1>16 DEF UserFunc
<1>17. CASE UserFuncQuit BY <1>17 DEF UserFuncQuit
<1>18. CASE PostReply BY <1>18 DEF PostReply
<1>19. CASE EojPost BY <1>19 DEF EojPost
<1>20. CASE EojUnlink BY <1>20 DEF EojUnlink
<1>21. CASE ServerDies BY <1>21 DEF ServerDies
<1>22. CASE UNCHANGED vars BY <1>22 DEF vars
<1>23. QED
  BY <1>1, <1>2, <1>3, <1>4, <1>5, <1>6, <1>7, <1>8, <1>9, <1>10, <1>11, <1>12,
     <1>13, <1>14, <1>15, <1>16, <1>17, <1>18, <1>19, <1>20, <1>21, <1>22
  DEF Next, DealerNext, ServerNext, Terminated

\* A step never lets one process into the page while the other uses it.
LEMMA PageStep == IInv /\ [Next]_vars => PageHasOneUser'
<1> SUFFICES ASSUME IInv, [Next]_vars PROVE PageHasOneUser'
  OBVIOUS
<1> USE DEF IInv, TypeOK, dealerVars, NoTag, NoDeal, Side, PageHasOneUser, Turns, Resting, DealerPC
<1>1. CASE SetupUserserver BY <1>1 DEF SetupUserserver
<1>2. ASSUME NEW tag \in Tags, NEW side \in Side, NEW slot \in Slots,
             AskCached(tag, side, slot) \/ AskStale(tag, side, slot)
      PROVE  PageHasOneUser'
  BY <1>2 DEF AskCached, AskStale, CacheOK, ReadResult
<1>3. CASE WriteQuery BY <1>3 DEF WriteQuery
<1>4. CASE PostQuery BY <1>4 DEF PostQuery
<1>5. CASE WakeReply BY <1>5 DEF WakeReply
<1>6. CASE ReturnReply BY <1>6 DEF ReturnReply, ReadResult
<1>7. CASE NextDeal BY <1>7 DEF NextDeal
<1>8. CASE WriteQuit BY <1>8 DEF WriteQuit
<1>9. CASE PostQuit BY <1>9 DEF PostQuit
<1>10. CASE WaitForServer BY <1>10 DEF WaitForServer
<1>11. CASE Cleanup BY <1>11 DEF Cleanup
<1>12. CASE Abort BY <1>12 DEF Abort
<1>13. CASE StartServer BY <1>13 DEF StartServer
<1>14. CASE ExecFails BY <1>14 DEF ExecFails
<1>15. CASE WakeQuery BY <1>15 DEF WakeQuery
<1>16. CASE UserFunc BY <1>16 DEF UserFunc
<1>17. CASE UserFuncQuit BY <1>17 DEF UserFuncQuit
<1>18. CASE PostReply BY <1>18 DEF PostReply
<1>19. CASE EojPost BY <1>19 DEF EojPost
<1>20. CASE EojUnlink BY <1>20 DEF EojUnlink
<1>21. CASE ServerDies BY <1>21 DEF ServerDies
<1>22. CASE UNCHANGED vars BY <1>22 DEF vars
<1>23. QED
  BY <1>1, <1>2, <1>3, <1>4, <1>5, <1>6, <1>7, <1>8, <1>9, <1>10, <1>11, <1>12,
     <1>13, <1>14, <1>15, <1>16, <1>17, <1>18, <1>19, <1>20, <1>21, <1>22
  DEF Next, DealerNext, ServerNext, Terminated

\* A step keeps the query in the page the one the dealer asks, and its results
\* there from the reply on.
LEMMA ExchangeStep == IInv /\ [Next]_vars => Exchange'
<1> SUFFICES ASSUME IInv, [Next]_vars PROVE Exchange'
  OBVIOUS
<1> USE DEF IInv, TypeOK, dealerVars, NoTag, NoDeal, Side, Exchange, Turns, Resting, Filled, Metric, NoAsk, Alive
<1>1. CASE SetupUserserver BY <1>1 DEF SetupUserserver
<1>2. ASSUME NEW tag \in Tags, NEW side \in Side, NEW slot \in Slots,
             AskCached(tag, side, slot) \/ AskStale(tag, side, slot)
      PROVE  Exchange'
  BY <1>2 DEF AskCached, AskStale, CacheOK, ReadResult
<1>3. CASE WriteQuery BY <1>3 DEF WriteQuery
<1>4. CASE PostQuery BY <1>4 DEF PostQuery
<1>5. CASE WakeReply BY <1>5 DEF WakeReply
<1>6. CASE ReturnReply BY <1>6 DEF ReturnReply, ReadResult
<1>7. CASE NextDeal BY <1>7 DEF NextDeal
<1>8. CASE WriteQuit BY <1>8 DEF WriteQuit
<1>9. CASE PostQuit BY <1>9 DEF PostQuit
<1>10. CASE WaitForServer BY <1>10 DEF WaitForServer
<1>11. CASE Cleanup BY <1>11 DEF Cleanup
<1>12. CASE Abort BY <1>12 DEF Abort
<1>13. CASE StartServer BY <1>13 DEF StartServer
<1>14. CASE ExecFails BY <1>14 DEF ExecFails
<1>15. CASE WakeQuery
  <2>1. UNCHANGED <<dealerVars, query, res, rsem>> /\ spc = "idle"
    BY <1>15 DEF WakeQuery
  <2>2. dpc = "waiting" => spc' = "busy" /\ rsem = 0
    BY <1>15 DEF WakeQuery
  <2>3. dpc = "woken" \/ (dpc = "waiting" /\ (spc' = "computed" \/ rsem = 1))
        => Filled(ask.tag, ask.side, ngen)'
    BY <2>1, <2>2
  <2>4. QED
    BY <2>1, <2>2, <2>3
<1>16. CASE UserFunc
  <2>1. /\ query.side \in Side /\ query.tag \in Tags
        /\ \A k \in Writes[query.tag] :
             res'[query.side][k] = Metric(query.tag, query.side, query.deal)
    BY <1>16 DEF UserFunc, ConstantsAssumption, Value
  <2>2. UNCHANGED <<dealerVars, query, rsem>> /\ spc' = "computed" /\ spc = "busy"
    BY <1>16 DEF UserFunc
  <2>3. dpc = "waiting" => Filled(ask.tag, ask.side, ngen)'
    BY <2>1, <2>2
  <2>4. QED
    BY <2>2, <2>3
<1>17. CASE UserFuncQuit BY <1>17 DEF UserFuncQuit
<1>18. CASE PostReply BY <1>18 DEF PostReply
<1>19. CASE EojPost BY <1>19 DEF EojPost
<1>20. CASE EojUnlink BY <1>20 DEF EojUnlink
<1>21. CASE ServerDies BY <1>21 DEF ServerDies
<1>22. CASE UNCHANGED vars BY <1>22 DEF vars
<1>23. QED
  BY <1>1, <1>2, <1>3, <1>4, <1>5, <1>6, <1>7, <1>8, <1>9, <1>10, <1>11, <1>12,
     <1>13, <1>14, <1>15, <1>16, <1>17, <1>18, <1>19, <1>20, <1>21, <1>22
  DEF Next, DealerNext, ServerNext, Terminated

\* A step keeps the cache key of a side true of its results area.
LEMMA CacheStep == IInv /\ [Next]_vars => CacheCoherent'
<1> SUFFICES ASSUME IInv, [Next]_vars PROVE CacheCoherent'
  OBVIOUS
<1> USE DEF IInv, TypeOK, dealerVars, NoTag, NoDeal, Side, CacheCoherent, Exchange, Turns, Resting, Filled, Metric, NoAsk, Alive
<1>1. CASE SetupUserserver BY <1>1 DEF SetupUserserver
<1>2. ASSUME NEW tag \in Tags, NEW side \in Side, NEW slot \in Slots,
             AskCached(tag, side, slot) \/ AskStale(tag, side, slot)
      PROVE  CacheCoherent'
  BY <1>2 DEF AskCached, AskStale, CacheOK, ReadResult
<1>3. CASE WriteQuery BY <1>3 DEF WriteQuery
<1>4. CASE PostQuery BY <1>4 DEF PostQuery
<1>5. CASE WakeReply BY <1>5 DEF WakeReply
<1>6. CASE ReturnReply BY <1>6 DEF ReturnReply, ReadResult
<1>7. CASE NextDeal BY <1>7 DEF NextDeal
<1>8. CASE WriteQuit BY <1>8 DEF WriteQuit
<1>9. CASE PostQuit BY <1>9 DEF PostQuit
<1>10. CASE WaitForServer BY <1>10 DEF WaitForServer
<1>11. CASE Cleanup BY <1>11 DEF Cleanup
<1>12. CASE Abort BY <1>12 DEF Abort
<1>13. CASE StartServer BY <1>13 DEF StartServer
<1>14. CASE ExecFails BY <1>14 DEF ExecFails
<1>15. CASE WakeQuery BY <1>15 DEF WakeQuery
<1>16. CASE UserFunc
  <2>1. \A s \in Side : s # query.side => res'[s] = res[s]
    BY <1>16 DEF UserFunc
  <2>2. UNCHANGED <<dealerVars, query>> /\ spc = "busy"
    BY <1>16 DEF UserFunc
  <2>3. Alive => dpc = "waiting" /\ query.side = ask.side
    BY <2>2 DEF PageHasOneUser
  <2>4. QED
    BY <2>1, <2>2, <2>3
<1>17. CASE UserFuncQuit BY <1>17 DEF UserFuncQuit
<1>18. CASE PostReply BY <1>18 DEF PostReply
<1>19. CASE EojPost BY <1>19 DEF EojPost
<1>20. CASE EojUnlink BY <1>20 DEF EojUnlink
<1>21. CASE ServerDies BY <1>21 DEF ServerDies
<1>22. CASE UNCHANGED vars BY <1>22 DEF vars
<1>23. QED
  BY <1>1, <1>2, <1>3, <1>4, <1>5, <1>6, <1>7, <1>8, <1>9, <1>10, <1>11, <1>12,
     <1>13, <1>14, <1>15, <1>16, <1>17, <1>18, <1>19, <1>20, <1>21, <1>22
  DEF Next, DealerNext, ServerNext, Terminated

\* A step of ask_query that returns, from the cache or not, returns a current
\* metric.
LEMMA AnswerStep == IInv /\ [Next]_vars => AnswerIsCurrent'
<1> SUFFICES ASSUME IInv, [Next]_vars PROVE AnswerIsCurrent'
  OBVIOUS
<1> USE DEF IInv, TypeOK, dealerVars, NoTag, NoDeal, Side, AnswerIsCurrent, CacheCoherent, Exchange, Turns, Filled, Alive
<1>1. CASE SetupUserserver BY <1>1 DEF SetupUserserver
<1>2. ASSUME NEW tag \in Tags, NEW side \in Side, NEW slot \in Slots,
             AskCached(tag, side, slot) \/ AskStale(tag, side, slot)
      PROVE  AnswerIsCurrent'
  BY <1>2 DEF AskCached, AskStale, CacheOK, ReadResult
<1>3. CASE WriteQuery BY <1>3 DEF WriteQuery
<1>4. CASE PostQuery BY <1>4 DEF PostQuery
<1>5. CASE WakeReply BY <1>5 DEF WakeReply
<1>6. CASE ReturnReply BY <1>6 DEF ReturnReply, ReadResult
<1>7. CASE NextDeal BY <1>7 DEF NextDeal
<1>8. CASE WriteQuit BY <1>8 DEF WriteQuit
<1>9. CASE PostQuit BY <1>9 DEF PostQuit
<1>10. CASE WaitForServer BY <1>10 DEF WaitForServer
<1>11. CASE Cleanup BY <1>11 DEF Cleanup
<1>12. CASE Abort BY <1>12 DEF Abort
<1>13. CASE StartServer BY <1>13 DEF StartServer
<1>14. CASE ExecFails BY <1>14 DEF ExecFails
<1>15. CASE WakeQuery BY <1>15 DEF WakeQuery
<1>16. CASE UserFunc BY <1>16 DEF UserFunc
<1>17. CASE UserFuncQuit BY <1>17 DEF UserFuncQuit
<1>18. CASE PostReply BY <1>18 DEF PostReply
<1>19. CASE EojPost BY <1>19 DEF EojPost
<1>20. CASE EojUnlink BY <1>20 DEF EojUnlink
<1>21. CASE ServerDies BY <1>21 DEF ServerDies
<1>22. CASE UNCHANGED vars BY <1>22 DEF vars
<1>23. QED
  BY <1>1, <1>2, <1>3, <1>4, <1>5, <1>6, <1>7, <1>8, <1>9, <1>10, <1>11, <1>12,
     <1>13, <1>14, <1>15, <1>16, <1>17, <1>18, <1>19, <1>20, <1>21, <1>22
  DEF Next, DealerNext, ServerNext, Terminated

\* The inductive invariant holds throughout every run that starts with the
\* semaphores at zero, whatever fails.
THEOREM Safety == ASSUME LeftOver = {0} PROVE Spec => []IInv
<1>1. Init => IInv
  BY InitInv
<1>2. IInv /\ [Next]_vars => IInv'
  BY TypeStep, TurnsStep, NamesStep, PageStep, ExchangeStep, CacheStep, AnswerStep DEF IInv
<1>3. QED
  BY <1>1, <1>2, PTL DEF Spec

\* Type correctness.
THEOREM TypeCorrect == ASSUME LeftOver = {0} PROVE Spec => []TypeOK
<1>1. IInv => TypeOK
  BY DEF IInv
<1>2. QED
  BY <1>1, Safety, PTL

\* ask_query never returns the metric of another tag, side or deal, cached or
\* not, for an entry the metric fills in.
THEOREM AnswersAreCurrent == ASSUME LeftOver = {0} PROVE Spec => []AnswerIsCurrent
<1>1. IInv => AnswerIsCurrent
  BY DEF IInv
<1>2. QED
  BY <1>1, Safety, PTL

\* The dealer and the server are never in the shared page together.
THEOREM PageIsExclusive == ASSUME LeftOver = {0} PROVE Spec => []PageHasOneUser
<1>1. IInv => PageHasOneUser
  BY DEF IInv
<1>2. QED
  BY <1>1, Safety, PTL

\* The server never waits on semaphores of its own, and a finished run leaves
\* no names behind.
THEOREM NamesAreClean ==
  ASSUME LeftOver = {0} PROVE Spec => []NamesInOrder
<1>1. IInv => NamesInOrder
  BY DEF IInv, Names, NamesInOrder
<1>2. QED
  BY <1>1, Safety, PTL

\* When no script uses a tag that ends the server, the dealer never returns
\* from its wait without the results it asked for.
THEOREM RepliesAreFilled ==
  ASSUME LeftOver = {0}, QuitTags = {} PROVE Spec => []ServerHasAnswered
<1>1. IInv => ServerHasAnswered
  BY DEF IInv, Exchange, Filled, ServerHasAnswered
<1>2. QED
  BY <1>1, Safety, PTL

-----------------------------------------------------------------------------
\* A step of the conversation is a step of the service or leaves it alone.
LEMMA ServiceStep == IInv /\ IInv' /\ [Next]_vars => [Service!Next]_Service!svars
<1> SUFFICES ASSUME IInv, IInv', [Next]_vars PROVE [Service!Next]_Service!svars
  OBVIOUS
<1> USE DEF dealerVars, NoTag, NoDeal, NoAsk, Service!svars, Service!Idle
<1>1. ASSUME NEW tag \in Tags, NEW side \in Side, NEW slot \in Slots,
             AskCached(tag, side, slot)
      PROVE  Service!Next
  <2> DEFINE r == [tag |-> tag, side |-> side, slot |-> slot]
  <2>1. r \in [tag : Tags, side : {0, 1}, slot : Slots]
    BY DEF Side
  <2>2. ask = NoAsk
    BY <1>1 DEF AskCached, IInv, Exchange, Alive
  <2>3. Service!Answers(r)
    BY <1>1 DEF AskCached, ReadResult, Service!Answers, IInv, AnswerIsCurrent, Metric
  <2>4. Service!ReplyAtOnce(r)
    BY <1>1, <2>2, <2>3 DEF AskCached, Service!ReplyAtOnce
  <2>5. QED
    BY <2>1, <2>4 DEF Service!Next
<1>2. ASSUME NEW tag \in Tags, NEW side \in Side, NEW slot \in Slots,
             AskStale(tag, side, slot)
      PROVE  Service!Next
  <2> DEFINE r == [tag |-> tag, side |-> side, slot |-> slot]
  <2>1. r \in [tag : Tags, side : {0, 1}, slot : Slots]
    BY DEF Side
  <2>2. ask = NoAsk
    BY <1>2 DEF AskStale, IInv, Exchange, Alive
  <2>3. Service!Request(r)
    BY <1>2, <2>2 DEF AskStale, Service!Request
  <2>4. QED
    BY <2>1, <2>3 DEF Service!Next
<1>3. ASSUME ReturnReply PROVE Service!Next
  <2>1. ask.tag \in Tags
    BY <1>3 DEF ReturnReply, IInv, Exchange
  <2>2. Service!Answers(ask)
    BY <1>3, <2>1 DEF ReturnReply, ReadResult, Service!Answers, IInv, AnswerIsCurrent,
      Metric
  <2>3. Service!Reply
    BY <1>3, <2>1, <2>2 DEF ReturnReply, Service!Reply
  <2>4. QED
    BY <2>3 DEF Service!Next
<1>4. ASSUME NextDeal PROVE Service!Next
  <2>1. ask = NoAsk
    BY <1>4 DEF NextDeal, IInv, Exchange, Alive
  <2>2. Service!NextDeal
    BY <1>4, <2>1 DEF NextDeal, Service!NextDeal
  <2>3. QED
    BY <2>2 DEF Service!Next
<1>5. CASE SetupUserserver \/ WriteQuery \/ PostQuery \/ WakeReply \/ WriteQuit
           \/ PostQuit \/ WaitForServer \/ Cleanup \/ Abort
  BY <1>5 DEF SetupUserserver, WriteQuery, PostQuery, WakeReply, WriteQuit, PostQuit,
    WaitForServer, Cleanup, Abort
<1>6. CASE ServerNext
  BY <1>6 DEF ServerNext, StartServer, ExecFails, WakeQuery, UserFunc, UserFuncQuit,
    PostReply, EojPost, EojUnlink, ServerDies
<1>7. CASE UNCHANGED vars
  BY <1>7 DEF vars
<1>8. QED
  BY <1>1, <1>2, <1>3, <1>4, <1>5, <1>6, <1>7 DEF Next, DealerNext, Terminated

\* The two processes with their page, cache and semaphores implement the
\* service: every request is answered, with the right metric, before the deal
\* changes.
THEOREM Implements == ASSUME LeftOver = {0} PROVE Spec => ImplementsService
<1>1. Init => Service!Init
  BY DEF Init, Service!Init, Service!Idle, NoAsk, NoAnswer, NoTag, NoDeal, NoMetric, Metric
<1>2. QED
  BY <1>1, Safety, ServiceStep, PTL DEF Spec, ImplementsService, Service!Spec
=============================================================================
