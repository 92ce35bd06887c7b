----------------------------- MODULE DealResults -----------------------------
(***************************************************************************)
(* What the evaluation of a deal expects of a solver: any number of        *)
(* questions about the deal in hand, each answered at once with the result *)
(* for that deal, unless the solver fails on that deal.  The caches in     *)
(* front of the solvers must not show.                                     *)
(***************************************************************************)
EXTENDS Integers

CONSTANTS
  Questions,     \* what may be asked about a deal
  Result(_, _),  \* Result(q, d): the answer to q for deal d
  MayFail        \* the solver may fail

VARIABLES
  deal,          \* number of the deal in hand, 0 before the first
  failed,        \* the last deal the solver failed on
  answer         \* the last answer, with the question and the deal it is for

rvars == <<deal, failed, answer>>

NothingAsked == [question |-> <<"none">>, deal |-> 0, value |-> {}]

Init == deal = 0 /\ failed = 0 /\ answer = NothingAsked

NextDeal == deal' = deal + 1 /\ UNCHANGED <<failed, answer>>

MaySolve == failed' = failed \/ (MayFail /\ failed' = deal)

AskAbout(q) ==
  /\ deal > 0
  /\ MaySolve
  /\ answer'.question = q /\ answer'.deal = deal
  /\ failed' # deal => answer' = [question |-> q, deal |-> deal, value |-> Result(q, deal)]
  /\ UNCHANGED deal

\* A failure that ends the run.
Fail == MayFail /\ failed' = deal /\ UNCHANGED <<deal, answer>>

Next == NextDeal \/ Fail \/ \E q \in Questions : AskAbout(q)

Spec == Init /\ [][Next]_rvars
=============================================================================
