---------------------------- MODULE LibraryScan ----------------------------
(***************************************************************************)
(* What the user of a library expects: from some record on, the deals of   *)
(* the file in their order, and after the last again the first.            *)
(***************************************************************************)
EXTENDS Integers

CONSTANT Recs

VARIABLES
  separators,   \* the records that are no deals, different for each library
  at,        \* the record of the deal in hand, or the one before the first
  started

svars == <<separators, at, started>>

Deals == (1..Recs) \ separators

\* How far record s is after record r, going round the file.
Distance(r, s) == IF s > r THEN s - r ELSE s - r + Recs

IsNext(r, s) == s \in Deals /\ \A t \in Deals : Distance(r, s) <= Distance(r, t)

Init == started = FALSE /\ at = 0 /\ separators \subseteq 1..Recs + 1

Start == /\ ~started
         /\ started' = TRUE
         /\ at' \in 0..Recs - 1
         /\ UNCHANGED separators

NextDeal == /\ started
            /\ IsNext(at, at')
            /\ UNCHANGED <<started, separators>>

Next == Start \/ NextDeal

Spec == Init /\ [][Next]_svars
=============================================================================
