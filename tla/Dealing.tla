------------------------------ MODULE Dealing ------------------------------
(***************************************************************************)
(* How dealerv2 makes its deals (src/src/dealcard_subs.c): cards predealt  *)
(* to a player by the script or the command line are moved from the full   *)
(* pack to a stacked pack; each deal then is the whole pack shuffled, or   *)
(* the remaining cards shuffled and merged with the stacked pack, or, with *)
(* swapping, the previous deal with two hands exchanged.                   *)
(*                                                                         *)
(* A deal is a function from slots to cards; hand p has the slots          *)
(* p*HandSize + 1 to (p+1)*HandSize.  The ace of spades is the greatest    *)
(* card, and NoCard, 0x7F in the code, is greater than any.                *)
(***************************************************************************)
EXTENDS Integers, Sequences, FiniteSets, Functions

CONSTANTS
  HandSize,     \* 13
  Draws,        \* outcomes of gen_rand_slot, as slots
  Swappings,    \* values of -x
  Requests,     \* <<player, card>> that scripts and options predeal
  MaxShuffles   \* bounds the deals that are not made by swapping

Players  == 0..3
DeckSize == 4 * HandSize
Slot     == 1..DeckSize
Cards    == 1..DeckSize
NoCard   == DeckSize + 1

ASSUME DealingAssumption ==
  /\ HandSize \in Nat \ {0}
  /\ Draws \subseteq Slot
  /\ Swappings \subseteq Nat
  /\ Requests \subseteq Players \X Cards
  /\ MaxShuffles \in Nat

VARIABLES
  pc,             \* where the program is
  fullpack,       \* the pack, less the predealt cards
  stacked_pack,   \* the predealt cards, in a slot of their player
  small_pack,     \* the cards that are left
  curdeal,        \* the deal in hand
  stacked_size, small_size,
  swapping, swapindex,
  i, j,           \* loop variables of Shuffle and merge_deal
  nshuffles,      \* shuffles done
  wanted,         \* history: <<player, card>> predealt
  group           \* history: the deals since the last shuffle

packs == <<fullpack, stacked_pack, stacked_size, wanted>>
vars == <<pc, packs, small_pack, small_size, curdeal, swapping, swapindex,
          i, j, nshuffles, group>>

PC == {"parse", "options", "merge_setup", "ready", "shuffle", "shuffle_small",
       "merge", "dealt", "exit", "aborted"}

SlotsOf(p) == p * HandSize + 1 .. (p + 1) * HandSize
Hand(d, p) == {d[s] : s \in SlotsOf(p)}
HandsOf(d) == [p \in Players |-> Hand(d, p)]

newpack == [s \in Slot |-> DeckSize + 1 - s]
Empty   == [s \in Slot |-> NoCard]
Filled(d) == {s \in Slot : d[s] # NoCard}

Init ==
  /\ pc = "parse"
  /\ fullpack = newpack /\ small_pack = newpack
  /\ stacked_pack = Empty /\ curdeal = Empty
  /\ stacked_size = 0 /\ small_size = DeckSize
  /\ swapping \in Swappings /\ swapindex = 0
  /\ i = 1 /\ j = 1
  /\ nshuffles = 0
  /\ wanted = {}
  /\ group = <<>>

-----------------------------------------------------------------------------
(* Predealing.                                                             *)

FreeSlots(player) == {s \in SlotsOf(player) : stacked_pack[s] = NoCard}

\* predeal(player, onecard), from the script or the command line; yyerror ends
\* the program.
Predeal(player, onecard) ==
  /\ pc \in {"parse", "options"}
  /\ IF \E s \in Slot : fullpack[s] = onecard
     THEN /\ fullpack' = [s \in Slot |-> IF fullpack[s] = onecard THEN NoCard
                                         ELSE fullpack[s]]
          /\ IF FreeSlots(player) # {}
             THEN \E s \in FreeSlots(player) :
                    /\ \A t \in FreeSlots(player) : s <= t
                    /\ stacked_pack' = [stacked_pack EXCEPT ![s] = onecard]
                    /\ stacked_size' = stacked_size + 1
                    /\ wanted' = wanted \cup {<<player, onecard>>}
                    /\ UNCHANGED pc
             ELSE pc' = "exit" /\ UNCHANGED <<stacked_pack, stacked_size, wanted>>
     ELSE pc' = "exit" /\ UNCHANGED packs
  /\ UNCHANGED <<small_pack, small_size, curdeal, swapping, swapindex, i, j, nshuffles, group>>

init_cards ==
  /\ fullpack' = newpack /\ small_pack' = newpack
  /\ stacked_pack' = Empty /\ curdeal' = Empty
  /\ stacked_size' = 0 /\ small_size' = DeckSize

\* finalize_options: predealing on the command line undoes that of the script.
PredealOptions ==
  /\ pc = "parse"
  /\ init_cards
  /\ wanted' = {}
  /\ pc' = "options"
  /\ UNCHANGED <<swapping, swapindex, i, j, nshuffles, group>>

PlayerOf(s) == CHOOSE p \in Players : s \in SlotsOf(p)

\* sortHand: the order of the slots of a hand in which its greatest card is first.
sortHand(d, p) ==
  CHOOSE order \in Bijection(SlotsOf(p), SlotsOf(p)) :
    \A s, t \in SlotsOf(p) : s < t => d[order[s]] >= d[order[t]]

\* sortHand on the hands of some players.
sortHands(d, players) ==
  [s \in Slot |-> IF PlayerOf(s) \in players THEN d[sortHand(d, PlayerOf(s))[s]] ELSE d[s]]

sortDeal(d) == sortHands(d, Players)

\* The cards left in fullpack, in their order.
PlaceLeft(s) == Cardinality({t \in Filled(fullpack) : t <= s})

Leftover ==
  [n \in Slot |-> IF n <= Cardinality(Filled(fullpack))
                  THEN fullpack[CHOOSE s \in Filled(fullpack) : PlaceLeft(s) = n]
                  ELSE small_pack[n]]

\* setup_deal, up to its call of merge_deal, with its asserts.
SetupDeal ==
  /\ pc \in {"parse", "options"}
  /\ IF stacked_size = 0
     THEN /\ curdeal' = fullpack
          /\ small_pack' = fullpack
          /\ stacked_pack' = Empty
          /\ small_size' = DeckSize
          /\ pc' = "ready"
     ELSE /\ stacked_pack' = sortDeal(stacked_pack)
          /\ curdeal' = stacked_pack'
          /\ small_pack' = Leftover
          /\ small_size' = Cardinality(Filled(fullpack))
          /\ pc' = IF Cardinality(Filled(stacked_pack')) = stacked_size
                      /\ small_size' + stacked_size = DeckSize
                   THEN "merge_setup" ELSE "aborted"
  /\ i' = 1 /\ j' = 1
  /\ UNCHANGED <<fullpack, stacked_size, wanted, swapping, swapindex, nshuffles, group>>

-----------------------------------------------------------------------------
(* Dealing.                                                                *)

\* Fault: only one of the hands is copied.
swap2OneWay(d, p1, p2) ==
  [s \in Slot |-> IF s \in SlotsOf(p1) THEN d[s + (p2 - p1) * HandSize] ELSE d[s]]

swap2(d, p1, p2) ==
  [s \in Slot |-> IF s \in SlotsOf(p1) THEN d[s + (p2 - p1) * HandSize]
                  ELSE IF s \in SlotsOf(p2) THEN d[s + (p1 - p2) * HandSize]
                  ELSE d[s]]

\* Fault: the fourth exchange is that of the other hands.
SwappedWrong(d, index) ==
  CASE index \in {1}       -> swap2(d, 1, 3)
    [] index \in {2, 4, 5} -> swap2(d, 2, 3)
    [] index = 3           -> swap2(d, 1, 2)
    [] OTHER               -> d

\* The switch on swapindex.
Swapped(d, index) ==
  CASE index \in {1, 4} -> swap2(d, 1, 3)
    [] index \in {2, 5} -> swap2(d, 2, 3)
    [] index = 3        -> swap2(d, 1, 2)
    [] OTHER            -> d

\* Fault: the group is one deal too long.
NextIndexLate ==
  IF swapping = 0 THEN swapindex
  ELSE IF (swapping = 2 /\ swapindex > 1) \/ (swapping = 3 /\ swapindex > 5) THEN 0
  ELSE swapindex + 1

NextIndex ==
  IF swapping = 0 THEN swapindex
  ELSE IF (swapping = 2 /\ swapindex + 1 > 1) \/ (swapping = 3 /\ swapindex + 1 > 5) THEN 0
  ELSE swapindex + 1

Made(deals) == pc' = "dealt" /\ group' = deals

\* Fault: the predealt cards are shuffled too.
DealCardsForgetsStack ==
  /\ pc = "ready" /\ nshuffles < MaxShuffles
  /\ stacked_size > 0 \/ swapping = 0 \/ swapindex = 0
  /\ pc' = "shuffle"
  /\ i' = 1 /\ j' = 1
  /\ nshuffles' = nshuffles + 1
  /\ UNCHANGED <<packs, small_pack, small_size, curdeal, swapping, swapindex, group>>

\* deal_cards, up to its call of Shuffle.
DealCards ==
  /\ pc = "ready" /\ nshuffles < MaxShuffles
  /\ stacked_size > 0 \/ swapping = 0 \/ swapindex = 0
  /\ IF stacked_size > 0
     THEN curdeal' = stacked_pack /\ pc' = "shuffle_small"
     ELSE pc' = "shuffle" /\ UNCHANGED curdeal
  /\ i' = 1 /\ j' = 1
  /\ nshuffles' = nshuffles + 1
  /\ UNCHANGED <<packs, small_pack, small_size, swapping, swapindex, group>>

\* deal_cards, exchanging two hands of the last deal.
SwapHands ==
  /\ pc = "ready"
  /\ stacked_size = 0 /\ swapping # 0 /\ swapindex # 0
  /\ curdeal' = Swapped(curdeal, swapindex)
  /\ swapindex' = NextIndex
  /\ Made(Append(group, HandsOf(curdeal')))
  /\ UNCHANGED <<packs, small_pack, small_size, swapping, i, j, nshuffles>>

Exchanged(deck, s, t) == [deck EXCEPT ![s] = deck[t], ![t] = deck[s]]

\* One round of Shuffle(curdeal, 52), and the end of deal_cards after the last.
ShuffleDeal ==
  /\ pc = "shuffle"
  /\ \E slot \in Draws : curdeal' = Exchanged(curdeal, i, slot)
  /\ IF i < DeckSize
     THEN i' = i + 1 /\ UNCHANGED <<pc, swapindex, group>>
     ELSE /\ Made(<<HandsOf(curdeal')>>)
          /\ swapindex' = NextIndex
          /\ UNCHANGED i
  /\ UNCHANGED <<packs, small_pack, small_size, swapping, j, nshuffles>>

\* One round of Shuffle(small_pack, small_size).
ShuffleSmall ==
  /\ pc = "shuffle_small"
  /\ IF i <= small_size
     THEN /\ \E slot \in Draws \cap 1..small_size :
               small_pack' = Exchanged(small_pack, i, slot)
          /\ i' = i + 1
          /\ UNCHANGED pc
     ELSE pc' = "merge" /\ i' = 1 /\ UNCHANGED small_pack
  /\ UNCHANGED <<packs, small_size, curdeal, swapping, swapindex, j, nshuffles, group>>

\* One round of merge_deal, and the assert after the last.
MergeDeal ==
  /\ pc \in {"merge", "merge_setup"}
  /\ IF curdeal[i] = NoCard
     THEN curdeal' = [curdeal EXCEPT ![i] = small_pack[j]] /\ j' = j + 1
     ELSE UNCHANGED <<curdeal, j>>
  /\ IF i < DeckSize
     THEN i' = i + 1 /\ UNCHANGED <<pc, group>>
     ELSE /\ UNCHANGED i
          /\ IF j' # small_size + 1
             THEN pc' = "aborted" /\ UNCHANGED group
             ELSE IF pc = "merge" THEN Made(<<HandsOf(curdeal')>>)
             ELSE pc' = "ready" /\ UNCHANGED group
  /\ UNCHANGED <<packs, small_pack, small_size, swapping, swapindex, nshuffles>>

\* The condition is evaluated, which sorts the hands of a side whose opc() dop
\* is asked for (fmt_side); if it holds action() sorts the whole deal.
EndDeal(keephand, sides) ==
  /\ pc = "dealt"
  /\ curdeal' = IF keephand THEN sortDeal(curdeal) ELSE sortHands(curdeal, UNION sides)
  /\ pc' = "ready"
  /\ UNCHANGED <<packs, small_pack, small_size, swapping, swapindex, i, j, nshuffles, group>>

Next ==
  \/ \E request \in Requests : Predeal(request[1], request[2])
  \/ PredealOptions \/ SetupDeal
  \/ DealCards \/ SwapHands \/ ShuffleDeal \/ ShuffleSmall \/ MergeDeal
  \/ \E keephand \in BOOLEAN, sides \in SUBSET {{0, 2}, {1, 3}} : EndDeal(keephand, sides)

Spec == Init /\ [][Next]_vars

-----------------------------------------------------------------------------
\* Every deal, shuffled, merged or swapped, sorted or not by the actions on
\* the deal before, has all the cards of the pack, each once; and no assert of
\* the set up and the merge (dealcard_subs.c:55, 148, 165) fails.
FullDeal ==
  /\ pc # "aborted"
  /\ pc \in {"ready", "dealt"} => {curdeal[s] : s \in Slot} = Cards

\* Every deal gives each player the cards predealt to him: those of the
\* command line if it has any, otherwise those of the script.
PredealKept ==
  pc \in {"ready", "dealt"} => \A w \in wanted : w[2] \in Hand(curdeal, w[1])

\* User guide, -x: "-x2 keeps the N/S hands the same while exchanging the E/W
\* hands. -x3 keeps the North hand the same while permuting the other 3 hands
\* in every way possible": when a group ends it has every such deal.
Arrangements(hands) ==
  IF swapping = 2
  THEN {hands, [hands EXCEPT ![1] = hands[3], ![3] = hands[1]]}
  ELSE {[p \in Players |-> IF p = 0 THEN hands[0] ELSE hands[perm[p]]] :
          perm \in Bijection(1..3, 1..3)}

GroupIsComplete ==
  pc = "dealt" /\ swapping \in {2, 3} /\ stacked_size = 0 /\ swapindex = 0 =>
    {group[n] : n \in DOMAIN group} = Arrangements(group[1])

\* dealcard_subs.c:78 "Swapindex gets set to zero after each swapping group so
\* we gen a new random deal": no deal is evaluated twice in a group.
NoRepeatsInGroup ==
  swapping \in {0, 2, 3} => \A m, n \in DOMAIN group : m # n => group[m] # group[n]
-----------------------------------------------------------------------------
Packs == [Slot -> Cards \cup {NoCard}]

TypeOK ==
  /\ pc \in PC
  /\ fullpack \in Packs /\ stacked_pack \in Packs /\ small_pack \in Packs /\ curdeal \in Packs
  /\ stacked_size \in Nat /\ small_size \in Nat
  /\ swapping \in Swappings /\ swapindex \in Nat
  /\ i \in 1..DeckSize + 1 /\ j \in 1..DeckSize + 1
  /\ nshuffles \in Nat
  /\ wanted \subseteq Players \X Cards
  /\ group \in Seq([Players -> SUBSET (Cards \cup {NoCard})])

(***************************************************************************)
(* The inductive invariant.  Predealing: every card is in the full pack or *)
(* in the stacked one, and they are counted.  SetUp: the same of the small *)
(* pack.  Merging: what is done of the merge, with a card of the small     *)
(* pack in every hole passed.  Grouping: where in its group a deal is.     *)
(***************************************************************************)
Predealing ==
  pc # "exit" =>
    /\ \A s \in Slot : fullpack[s] \in {newpack[s], NoCard}
    /\ Cardinality(Filled(stacked_pack)) = stacked_size
    /\ Cardinality(Filled(fullpack)) + stacked_size = DeckSize
    /\ \A c \in Cards : \E s \in Slot : fullpack[s] = c \/ stacked_pack[s] = c
    /\ \A w \in wanted : w[2] \in Hand(stacked_pack, w[1])

SetUp ==
  pc \notin {"parse", "options", "exit"} =>
    /\ small_size + stacked_size = DeckSize
    /\ stacked_size > 0 =>
         /\ \A n \in 1..small_size : small_pack[n] \in Cards
         /\ \A c \in Cards : \/ \E n \in 1..small_size : small_pack[n] = c
                             \/ \E s \in Slot : stacked_pack[s] = c

Holes(k) == {s \in 1..k : stacked_pack[s] = NoCard}

Merging ==
  /\ pc = "shuffle_small" => curdeal = stacked_pack /\ i <= small_size + 1 /\ j = 1
  /\ pc \in {"merge", "merge_setup"} =>
       /\ i <= DeckSize
       /\ \A s \in Slot : curdeal[s] = stacked_pack[s] \/ (stacked_pack[s] = NoCard /\ s < i)
       /\ \A s \in 1..i - 1 : curdeal[s] \in Cards
       /\ \A n \in 1..j - 1 : \E s \in 1..i - 1 : curdeal[s] = small_pack[n]
       /\ Cardinality(Holes(i - 1)) = j - 1
  /\ pc \in {"shuffle_small", "merge", "merge_setup"} => stacked_size > 0
  /\ pc = "shuffle" => stacked_size = 0 /\ i <= DeckSize /\ {curdeal[s] : s \in Slot} = Cards

\* Whose hands of the first deal of the group the players other than North
\* have in its first, second ... deal.
Turns == <<<<1, 2, 3>>, <<3, 2, 1>>, <<3, 1, 2>>, <<1, 3, 2>>, <<2, 3, 1>>, <<2, 1, 3>>>>

GroupSize == CASE swapping = 2 -> 2 [] swapping = 3 -> 6 [] OTHER -> 1

Turned(hands, n) == [p \in Players |-> IF p = 0 THEN hands[0] ELSE hands[Turns[n][p]]]

Grouping ==
  swapping \in {0, 2, 3} =>
    /\ Len(group) <= GroupSize
    /\ stacked_size > 0 => Len(group) <= 1
    /\ stacked_size = 0 => swapindex = (IF Len(group) = GroupSize THEN 0 ELSE Len(group))
    /\ pc \in {"parse", "options", "shuffle"} => swapindex = 0
    /\ pc \in {"parse", "options", "merge_setup"} => group = <<>>
    /\ pc = "dealt" => group # <<>>
    /\ group # <<>> =>
         /\ \A n \in 1..Len(group) : group[n] = Turned(group[1], n)
         /\ group[1][1] # group[1][2] /\ group[1][1] # group[1][3] /\ group[1][2] # group[1][3]
         /\ pc \in {"ready", "dealt"} /\ stacked_size = 0 => group[Len(group)] = HandsOf(curdeal)

IInv == TypeOK /\ Predealing /\ SetUp /\ Merging /\ FullDeal /\ PredealKept /\ Grouping
=============================================================================
