---------------------------- MODULE MCDealerMain ----------------------------
(* The instances of DealerMain that TLC checks.                            *)
EXTENDS DealerMain

\* One inside the library; the last record as well; the part of a record that
\* follows the last; and a library with no deal in it.
MCSeparatorSets == {{2}, {2, Recs}, {Recs + 1}, 1..Recs + 1}

NoSeparators == {{}}
=============================================================================
