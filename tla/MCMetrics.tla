------------------------------ MODULE MCMetrics ------------------------------
(* Deals for the metrics, four lines each, a hand a line and its clubs first: *)
(* from a search through random deals, flat ones and wild ones, for those     *)
(* that between them have every length of fit, fits as good as one another,   *)
(* misfits with and without a fit, every short holding with an honour, square *)
(* hands, long suits, one of them of eleven cards with the ten and no queen,  *)
(* and partners as strong as each other.                                      *)
EXTENDS Metrics

\* Dealt to the seats so that any two hands sit east and west, in either order.
MCDealt == {
  <<<<{11, 10, 9, 8, 7, 5, 3, 1}, {3}, {10, 3, 1}, {10}>>,
    <<{0}, {8, 7, 6, 5, 4, 1, 0}, {12, 11}, {11, 9, 4}>>,
    <<{6, 4}, {12, 11, 10, 9, 2}, {9, 7, 6, 5, 2, 0}, {}>>,
    <<{12, 2}, {}, {8, 4}, {12, 8, 7, 6, 5, 3, 2, 1, 0}>>>>,
  <<<<{6}, {12, 7, 3}, {4, 3, 2, 1, 0}, {10, 7, 1, 0}>>,
    <<{8, 5, 2, 0}, {5, 2}, {9, 7, 6, 5}, {11, 6, 2}>>,
    <<{9, 1}, {10, 8, 6, 1}, {11, 10}, {12, 8, 5, 4, 3}>>,
    <<{12, 11, 10, 7, 4, 3}, {11, 9, 4, 0}, {12, 8}, {9}>>>>,
  <<<<{10, 9}, {3, 2, 0}, {12, 11, 4}, {12, 7, 4, 3, 1}>>,
    <<{8, 3, 1, 0}, {12, 9, 4, 1}, {5, 3, 2, 0}, {5}>>,
    <<{12, 7, 6, 4, 2}, {}, {10, 7, 1}, {10, 9, 8, 6, 0}>>,
    <<{11, 5}, {11, 10, 8, 7, 6, 5}, {9, 8, 6}, {11, 2}>>>>,
  <<<<{5}, {7, 6}, {10, 9, 8, 7, 6, 5, 4, 2, 0}, {8}>>,
    <<{2}, {4, 1}, {11, 1}, {11, 9, 7, 6, 4, 3, 2, 1}>>,
    <<{12, 11, 10, 9, 8, 7, 6, 4, 1, 0}, {9}, {}, {5, 0}>>,
    <<{3}, {12, 11, 10, 8, 5, 3, 2, 0}, {12, 3}, {12, 10}>>>>,
  <<<<{10, 0}, {8, 7, 6}, {10, 8, 7, 6, 1}, {10, 8, 2}>>,
    <<{12, 11, 9, 3}, {11, 4, 3}, {12, 3, 2}, {12, 4, 1}>>,
    <<{8, 7, 5, 2, 1}, {2, 0}, {11}, {7, 6, 5, 3, 0}>>,
    <<{6, 4}, {12, 10, 9, 5, 1}, {9, 5, 4, 0}, {11, 9}>>>>,
  <<<<{11, 10, 9, 7, 5, 2, 1}, {12, 8}, {5, 2}, {4, 3}>>,
    <<{4, 0}, {11, 10, 7, 4, 3, 1, 0}, {11, 9, 8, 0}, {}>>,
    <<{12}, {9, 6, 5, 2}, {12, 10, 7, 6, 4, 3, 1}, {0}>>,
    <<{8, 6, 3}, {}, {}, {12, 11, 10, 9, 8, 7, 6, 5, 2, 1}>>>>,
  <<<<{8, 7, 1}, {12, 10, 7, 4}, {6, 0}, {12, 10, 3, 1}>>,
    <<{}, {8, 6, 2, 1}, {11, 10, 9, 8, 1}, {11, 8, 7, 0}>>,
    <<{9, 6, 5, 4, 3, 2}, {11, 9, 0}, {2}, {6, 5, 4}>>,
    <<{12, 11, 10, 0}, {5, 3}, {12, 7, 5, 4, 3}, {9, 2}>>>>,
  <<<<{12, 11, 10, 9}, {11, 4, 3}, {12, 7, 2, 0}, {9, 8}>>,
    <<{6, 5, 3}, {9, 1, 0}, {11, 9, 8}, {10, 5, 4, 3}>>,
    <<{2, 1}, {10, 8, 7, 6, 5, 2}, {3, 1}, {11, 7, 1}>>,
    <<{8, 7, 4, 0}, {12}, {10, 6, 5, 4}, {12, 6, 2, 0}>>>>,
  <<<<{11, 8}, {11, 10, 5, 3, 0}, {7, 6, 3, 1, 0}, {5}>>,
    <<{12, 6, 1, 0}, {12, 4, 1}, {12}, {12, 7, 4, 2, 1}>>,
    <<{10, 9, 7, 5, 4, 3}, {6}, {8, 5, 4}, {6, 3, 0}>>,
    <<{2}, {9, 8, 7, 2}, {11, 10, 9, 2}, {11, 10, 9, 8}>>>>,
  <<<<{11, 8, 0}, {11, 9, 6, 3, 1}, {2, 1, 0}, {7, 5}>>,
    <<{5, 4, 2, 1}, {12, 7, 4, 2}, {12, 11, 6}, {9, 6}>>,
    <<{10, 7, 6, 3}, {10, 8}, {9, 8, 4, 3}, {11, 1, 0}>>,
    <<{12, 9}, {5, 0}, {10, 7, 5}, {12, 10, 8, 4, 3, 2}>>>>,
  <<<<{11, 9, 7, 5, 2, 0}, {9, 8}, {8, 6}, {9, 8, 7}>>,
    <<{10, 8, 6, 3, 1}, {11, 7, 6, 4}, {11, 9}, {6, 3}>>,
    <<{4}, {12, 5, 3}, {10, 7, 4, 3, 2}, {10, 4, 2, 1}>>,
    <<{12}, {10, 2, 1, 0}, {12, 5, 1, 0}, {12, 11, 5, 0}>>>>,
  <<<<{}, {11, 10}, {}, {12, 11, 9, 8, 6, 5, 4, 3, 2, 1, 0}>>,
    <<{9, 4, 2}, {8, 7, 6, 1}, {12, 10, 9, 6, 4}, {7}>>,
    <<{12, 8, 6, 5, 0}, {12, 5, 4, 0}, {11, 5, 2, 0}, {}>>,
    <<{11, 10, 7, 3, 1}, {9, 3, 2}, {8, 7, 3, 1}, {10}>>>>}

\* Asked about as well: a misfit and a fit of eight, a fit with trumps as long
\* and a misfit with seven, and two fits of nine, one with a misfit beside it.
MCAsked == {
  <<<<{9, 8, 5, 2}, {12, 10, 8, 4, 3, 1}, {9, 4}, {2}>>,
    <<{11, 4, 3}, {7, 6, 2}, {10, 7, 6, 5, 3, 1}, {6}>>,
    <<{12, 7, 0}, {11}, {12, 8, 0}, {12, 10, 7, 5, 1, 0}>>,
    <<{10, 6, 1}, {9, 5, 0}, {11, 2}, {11, 9, 8, 4, 3}>>>>,
  <<<<{9, 1, 0}, {7, 5}, {11, 4, 3, 1}, {12, 10, 7, 0}>>,
    <<{11, 10, 7, 4, 3, 2}, {9, 6, 3, 0}, {10}, {9, 8}>>,
    <<{12, 8, 6}, {12, 11, 10, 8}, {12, 9, 7, 2}, {11, 3}>>,
    <<{5}, {4, 2, 1}, {8, 6, 5, 0}, {6, 5, 4, 2, 1}>>>>,
  <<<<{10, 7, 5, 4, 1}, {9}, {6}, {8, 5, 4, 2, 1, 0}>>,
    <<{12, 3, 0}, {11, 8, 3, 2, 1}, {12, 10, 7, 3}, {7}>>,
    <<{9, 6, 2}, {12, 10, 4, 0}, {11, 5, 4}, {11, 6, 3}>>,
    <<{11, 8}, {7, 6, 5}, {9, 8, 2, 1, 0}, {12, 10, 9}>>>>}

AtSeats(x, order) == [p \in Seats |-> [s \in MetricSuits |-> x[order[p + 1]][s + 1]]]
MCAskedDeals == {AtSeats(x, <<1, 2, 3, 4>>) : x \in MCAsked}
MCDeals == {AtSeats(x, order) : x \in MCDealt \cup MCAsked,
                                order \in {o \in Permutations(1..4) : o[1] < o[3]}}

\* Every metric, two of them by their letters, the set, both mixed tags, the
\* test reply, and a tag nothing answers to.
MCTags == 0..13 \cup {20, 21, 75, 90, SET88, TSTALL, 50}

MCLeftovers == {[h \in Both |-> 0], [h \in Both |-> 7 - 10 * h]}

Next == deal \in MCAskedDeals /\ MetricsNext

Spec == MetricsInit /\ [][Next]_metricVars
=============================================================================
