--------------------------- MODULE Dealing_proofs ---------------------------
(***************************************************************************)
(* Proofs about Dealing, for hands of any size, any cards predealt and any *)
(* choice of random slots.                                                 *)
(***************************************************************************)
EXTENDS Dealing, NumberFacts, FunctionTheorems

USE DealingAssumption DEF Players, DeckSize, Slot, Cards, NoCard

-----------------------------------------------------------------------------
(* The slots of the players.                                               *)

LEMMA SlotsOfPlayers ==
  /\ SlotsOf(0) = 1..HandSize
  /\ SlotsOf(1) = HandSize + 1 .. 2 * HandSize
  /\ SlotsOf(2) = 2 * HandSize + 1 .. 3 * HandSize
  /\ SlotsOf(3) = 3 * HandSize + 1 .. 4 * HandSize
<1>1. /\ 0 * HandSize = 0 /\ (0 + 1) * HandSize = HandSize /\ 1 * HandSize = HandSize
      /\ (1 + 1) * HandSize = 2 * HandSize /\ (2 + 1) * HandSize = 3 * HandSize
      /\ (3 + 1) * HandSize = 4 * HandSize
  OBVIOUS
<1>2. QED
  BY <1>1 DEF SlotsOf

\* The hands of the players share out the slots.
LEMMA PlayersOfSlots ==
  /\ \A p \in Players : SlotsOf(p) \subseteq Slot /\ SlotsOf(p) # {}
  /\ \A p, q \in Players : p # q => SlotsOf(p) \cap SlotsOf(q) = {}
  /\ \A s \in Slot : PlayerOf(s) \in Players /\ s \in SlotsOf(PlayerOf(s))
  /\ \A p \in Players : \A s \in SlotsOf(p) : PlayerOf(s) = p
<1>1. HandSize \in Nat /\ HandSize >= 1 /\ Players = {0, 1, 2, 3}
  OBVIOUS
<1>2. \A p \in Players : SlotsOf(p) \subseteq Slot /\ SlotsOf(p) # {}
  <2>1. \A p \in Players : SlotsOf(p) \subseteq Slot
    BY <1>1, SlotsOfPlayers
  <2>2. /\ 1 \in SlotsOf(0) /\ HandSize + 1 \in SlotsOf(1)
        /\ 2 * HandSize + 1 \in SlotsOf(2) /\ 3 * HandSize + 1 \in SlotsOf(3)
    BY <1>1, SlotsOfPlayers
  <2>3. QED
    BY <1>1, <2>1, <2>2
<1>3. \A p, q \in Players : p # q => SlotsOf(p) \cap SlotsOf(q) = {}
  BY <1>1, SlotsOfPlayers, SMTT(30)
<1>4. \A s \in Slot : \E p \in Players : s \in SlotsOf(p)
  BY <1>1, SlotsOfPlayers
<1>5. QED
  BY <1>2, <1>3, <1>4 DEF PlayerOf

-----------------------------------------------------------------------------
(* Deals that are rearrangements of others.                                *)

SameCards(e, d) == e \in Packs /\ {e[s] : s \in Slot} = {d[s] : s \in Slot}

\* A rearranged deal has the same cards, and as many of them.
LEMMA Rearranged ==
  ASSUME NEW d \in Packs, NEW e \in Packs, NEW f \in Bijection(Slot, Slot),
         \A s \in Slot : e[s] = d[f[s]]
  PROVE  /\ {e[s] : s \in Slot} = {d[s] : s \in Slot}
         /\ Cardinality(Filled(e)) = Cardinality(Filled(d))
<1>1. /\ f \in [Slot -> Slot]
      /\ \A s, t \in Slot : f[s] = f[t] => s = t
      /\ \A t \in Slot : \E s \in Slot : f[s] = t
  <2> HIDE DEF Slot
  <2>1. QED
    BY Fun_BijectionProperties
<1>2. {e[s] : s \in Slot} = {d[s] : s \in Slot}
  <2> HIDE DEF Slot
  <2>1. QED
    BY <1>1
<1>3. Filled(e) \subseteq Slot /\ Filled(d) \subseteq Slot /\ IsFiniteSet(Filled(e))
  <2>1. IsFiniteSet(Slot)
    BY FS_Interval
  <2>2. Filled(e) \in SUBSET Slot
    BY DEF Filled
  <2>3. IsFiniteSet(Filled(e))
    BY <2>1, <2>2, FS_Subset, Zenon
  <2>4. QED
    BY <2>2, <2>3 DEF Filled
<1> DEFINE g == [s \in Filled(e) |-> f[s]]
<1>4. /\ g \in [Filled(e) -> Filled(d)]
      /\ \A s, t \in Filled(e) : g[s] = g[t] => s = t
      /\ \A t \in Filled(d) : \E s \in Filled(e) : g[s] = t
  BY <1>1 DEF Filled
<1> HIDE DEF g
<1>5. g \in Bijection(Filled(e), Filled(d))
  BY <1>4, Fun_IsBij
<1>6. ExistsBijection(Filled(e), Filled(d))
  BY <1>5, Fun_ExistsBij
<1>7. Cardinality(Filled(e)) = Cardinality(Filled(d))
  BY <1>3, <1>6, FS_Bijection
<1>8. QED
  BY <1>2, <1>7

\* A deal rearranged within the hands keeps the hands.
LEMMA RearrangedHand ==
  ASSUME NEW d, NEW f \in [Slot -> Slot], NEW e, e = [s \in Slot |-> d[f[s]]],
         NEW p \in Players, NEW q \in Players,
         \A s \in SlotsOf(p) : f[s] \in SlotsOf(q),
         \A t \in SlotsOf(q) : \E s \in SlotsOf(p) : f[s] = t
  PROVE  Hand(e, p) = Hand(d, q)
<1>1. SlotsOf(p) \subseteq Slot /\ SlotsOf(q) \subseteq Slot
  BY PlayersOfSlots
<1>2. QED
  BY <1>1 DEF Hand

-----------------------------------------------------------------------------
(* The sort.                                                               *)

Sortable(a, n) ==
  \A f \in [a + 1 .. a + n -> Nat] :
    \E order \in Bijection(a + 1 .. a + n, a + 1 .. a + n) :
      \A s, t \in a + 1 .. a + n : s < t => f[order[s]] >= f[order[t]]

\* With its smallest number put last, a longer row can be sorted.
LEMMA LongerSortable ==
  ASSUME NEW a \in Nat, NEW n \in Nat, Sortable(a, n)
  PROVE  Sortable(a, n + 1)
<1> DEFINE I == a + 1 .. a + n
           J == a + 1 .. a + (n + 1)
           z == a + (n + 1)
<1>0. /\ J = I \cup {z} /\ z \notin I /\ \A s \in I : s \in Nat /\ s < z
      /\ \A s, t \in J : s < t => s \in I
  OBVIOUS
<1>1. \A f \in [I -> Nat] : \E order \in Bijection(I, I) :
        \A s, t \in I : s < t => f[order[s]] >= f[order[t]]
  BY DEF Sortable
<1> HIDE DEF I, J, z
<1>2. SUFFICES ASSUME NEW f \in [J -> Nat]
               PROVE  \E order \in Bijection(J, J) :
                        \A s, t \in J : s < t => f[order[s]] >= f[order[t]]
  BY DEF Sortable, J
<1>3. PICK m \in J : \A s \in J : f[m] <= f[s]
  <2> DEFINE V == {f[s] : s \in J}
  <2>1. V \subseteq Nat /\ V # {}
    BY <1>0
  <2>2. \E v \in V : \A w \in V : v <= w
    BY <2>1, LeastElement
  <2>3. QED
    BY <2>2
<1> DEFINE g == [s \in I |-> IF s = m THEN f[z] ELSE f[s]]
<1>4. g \in [I -> Nat]
  BY <1>0
<1>5. PICK o \in Bijection(I, I) : \A s, t \in I : s < t => g[o[s]] >= g[o[t]]
  <2> HIDE DEF g
  <2>1. QED
    BY <1>1, <1>4
<1>6. /\ o \in [I -> I]
      /\ \A s, t \in I : o[s] = o[t] => s = t
      /\ \A t \in I : \E s \in I : o[s] = t
  BY Fun_BijectionProperties
<1> DEFINE r == [s \in J |-> IF s = z THEN m ELSE IF o[s] = m THEN z ELSE o[s]]
<1>7. r \in [J -> J] /\ r[z] = m /\ \A s \in I : r[s] = IF o[s] = m THEN z ELSE o[s]
  BY <1>0, <1>6
<1>8. \A s \in I : f[r[s]] = g[o[s]]
  BY <1>0, <1>6, <1>7
<1> HIDE DEF g, r
<1>9. r \in Bijection(J, J)
  <2>1. \A s, t \in J : r[s] = r[t] => s = t
    BY <1>0, <1>6, <1>7
  <2>2. ASSUME NEW t \in J
        PROVE  \E s \in J : r[s] = t
    <3>1. CASE t = m
      BY <1>0, <1>7, <3>1
    <3>2. CASE t # m /\ t # z
      <4>1. PICK s \in I : o[s] = t
        BY <1>0, <1>6, <3>2
      <4>2. QED
        BY <1>0, <1>7, <3>2, <4>1
    <3>3. CASE t # m /\ t = z
      <4>1. PICK s \in I : o[s] = m
        BY <1>0, <1>6, <3>3
      <4>2. QED
        BY <1>0, <1>7, <3>3, <4>1
    <3>4. QED
      BY <3>1, <3>2, <3>3
  <2>3. QED
    BY <1>7, <2>1, <2>2, Fun_IsBij
<1>10. ASSUME NEW s \in J, NEW t \in J, s < t
       PROVE  f[r[s]] >= f[r[t]]
  <2>1. s \in I
    BY <1>0, <1>10
  <2>2. CASE t = z
    <3>1. f[r[s]] \in Nat /\ f[m] \in Nat /\ f[m] <= f[r[s]]
      BY <1>3, <1>7
    <3>2. QED
      BY <1>7, <2>2, <3>1
  <2>3. CASE t \in I
    BY <1>5, <1>8, <1>10, <2>1, <2>3
  <2>4. QED
    BY <1>0, <2>2, <2>3
<1>11. QED
  BY <1>9, <1>10

\* A row of any length can be sorted.
LEMMA AllSortable ==
  ASSUME NEW a \in Nat, NEW n \in Nat
  PROVE  Sortable(a, n)
<1> DEFINE B == {k \in Nat : ~Sortable(a, k)}
<1>1. SUFFICES ASSUME B # {} PROVE FALSE
  OBVIOUS
<1>2. PICK k \in B : \A l \in B : k <= l
  BY <1>1, LeastElement
<1>3. CASE k = 0
  <2>1. a + 1 .. a + k = {}
    BY <1>3
  <2>2. \A f \in [{} -> Nat] : \E order \in Bijection({}, {}) :
          \A s, t \in {} : s < t => f[order[s]] >= f[order[t]]
    <3>1. [s \in {} |-> s] \in Bijection({}, {})
      BY DEF Bijection, Injection, Surjection, IsInjective
    <3>2. QED
      BY <3>1
  <2>3. Sortable(a, k)
    BY <2>1, <2>2, Zenon DEF Sortable
  <2>4. QED
    BY <2>3
<1>4. CASE k # 0
  <2>1. k - 1 \in Nat /\ k = (k - 1) + 1 /\ ~(k <= k - 1)
    BY <1>4
  <2>2. Sortable(a, k - 1)
    BY <1>2, <2>1
  <2>3. Sortable(a, k)
    BY <2>1, <2>2, LongerSortable
  <2>4. QED
    BY <2>3
<1>5. QED
  BY <1>3, <1>4

\* The order of sortHand is an order of the slots of the hand.
LEMMA HandSorted ==
  ASSUME NEW d \in Packs, NEW p \in Players
  PROVE  sortHand(d, p) \in Bijection(SlotsOf(p), SlotsOf(p))
<1>1. p * HandSize \in Nat /\ (p + 1) * HandSize = p * HandSize + HandSize
  OBVIOUS
<1>2. SlotsOf(p) = p * HandSize + 1 .. p * HandSize + HandSize
  BY <1>1 DEF SlotsOf
<1>3. Sortable(p * HandSize, HandSize)
  BY <1>1, AllSortable
<1> DEFINE f == [s \in SlotsOf(p) |-> d[s]]
<1>4. f \in [SlotsOf(p) -> Nat]
  BY PlayersOfSlots DEF Packs
<1> HIDE DEF f
<1>5. PICK order \in Bijection(SlotsOf(p), SlotsOf(p)) :
        \A s, t \in SlotsOf(p) : s < t => f[order[s]] >= f[order[t]]
  BY <1>2, <1>3, <1>4 DEF Sortable
<1>6. \A s \in SlotsOf(p) : order[s] \in SlotsOf(p)
  BY Fun_BijectionProperties
<1>7. \A s, t \in SlotsOf(p) : s < t => d[order[s]] >= d[order[t]]
  BY <1>5, <1>6 DEF f
<1>8. QED
  BY <1>7 DEF sortHand

\* Sorting the hands of some players rearranges the deal and keeps the hands.
LEMMA SortedDeal ==
  ASSUME NEW d \in Packs, NEW players
  PROVE  /\ SameCards(sortHands(d, players), d)
         /\ Cardinality(Filled(sortHands(d, players))) = Cardinality(Filled(d))
         /\ \A p \in Players : Hand(sortHands(d, players), p) = Hand(d, p)
<1> HIDE DEF Slot, Players
<1> DEFINE f == [s \in Slot |-> IF PlayerOf(s) \in players THEN sortHand(d, PlayerOf(s))[s] ELSE s]
           e == sortHands(d, players)
<1>1. /\ \A p \in Players : SlotsOf(p) \subseteq Slot
      /\ \A p, q \in Players : p # q => SlotsOf(p) \cap SlotsOf(q) = {}
      /\ \A s \in Slot : PlayerOf(s) \in Players /\ s \in SlotsOf(PlayerOf(s))
      /\ \A p \in Players : \A s \in SlotsOf(p) : PlayerOf(s) = p
  BY PlayersOfSlots
<1>2. \A p \in Players :
        /\ \A s \in SlotsOf(p) : sortHand(d, p)[s] \in SlotsOf(p)
        /\ \A s, t \in SlotsOf(p) : sortHand(d, p)[s] = sortHand(d, p)[t] => s = t
        /\ \A t \in SlotsOf(p) : \E s \in SlotsOf(p) : sortHand(d, p)[s] = t
  <2>1. TAKE p \in Players
  <2>2. sortHand(d, p) \in Bijection(SlotsOf(p), SlotsOf(p))
    BY HandSorted
  <2>3. QED
    BY <2>2, Fun_BijectionProperties
<1>3. \A p \in Players : \A s \in SlotsOf(p) :
        f[s] = IF p \in players THEN sortHand(d, p)[s] ELSE s
  BY <1>1
<1>4. f \in [Slot -> Slot] /\ e = [s \in Slot |-> d[f[s]]]
  BY <1>1, <1>2 DEF sortHands
<1> HIDE DEF f
<1>5. \A p \in Players : /\ \A s \in SlotsOf(p) : f[s] \in SlotsOf(p)
                         /\ \A s, t \in SlotsOf(p) : f[s] = f[t] => s = t
                         /\ \A t \in SlotsOf(p) : \E s \in SlotsOf(p) : f[s] = t
  BY <1>2, <1>3
<1>6. f \in Bijection(Slot, Slot)
  <2>1. \A s, t \in Slot : f[s] = f[t] => s = t
    BY <1>1, <1>5
  <2>2. \A t \in Slot : \E s \in Slot : f[s] = t
    BY <1>1, <1>5
  <2>3. QED
    BY <1>4, <2>1, <2>2, Fun_IsBij
<1>7. e \in Packs /\ {e[s] : s \in Slot} = {d[s] : s \in Slot} /\ Cardinality(Filled(e)) = Cardinality(Filled(d))
  <2>1. e \in Packs /\ \A s \in Slot : e[s] = d[f[s]]
    BY <1>4 DEF Packs
  <2> HIDE DEF e
  <2>2. QED
    BY <1>6, <2>1, Rearranged
<1>8. \A p \in Players : Hand(e, p) = Hand(d, p)
  BY <1>4, <1>5, RearrangedHand
<1>9. SameCards(e, d)
  <2> HIDE DEF e
  <2>1. QED
    BY <1>7 DEF SameCards
<1>10. QED
  BY <1>7, <1>8, <1>9

-----------------------------------------------------------------------------
(* The exchanges.                                                          *)

\* Two hands exchanged.
LEMMA SwappedHands ==
  ASSUME NEW d \in Packs, NEW p1 \in {1, 2}, NEW p2 \in {2, 3}, p1 < p2
  PROVE  /\ SameCards(swap2(d, p1, p2), d)
         /\ HandsOf(swap2(d, p1, p2)) =
              [p \in Players |-> Hand(d, IF p = p1 THEN p2 ELSE IF p = p2 THEN p1 ELSE p)]
<1> DEFINE f == [s \in Slot |-> IF s \in SlotsOf(p1) THEN s + (p2 - p1) * HandSize
                               ELSE IF s \in SlotsOf(p2) THEN s + (p1 - p2) * HandSize
                               ELSE s]
           e == swap2(d, p1, p2)
           to(p) == IF p = p1 THEN p2 ELSE IF p = p2 THEN p1 ELSE p
           k == (p2 - p1) * HandSize
<1>1. /\ k \in Nat /\ (p1 - p2) * HandSize = 0 - k
      /\ \A s \in SlotsOf(p1) : s + k \in SlotsOf(p2)
      /\ \A s \in SlotsOf(p2) : s - k \in SlotsOf(p1)
  <2>1. CASE p1 = 1 /\ p2 = 2
    BY <2>1, SlotsOfPlayers
  <2>2. CASE p1 = 1 /\ p2 = 3
    BY <2>2, SlotsOfPlayers
  <2>3. CASE p1 = 2 /\ p2 = 3
    BY <2>3, SlotsOfPlayers
  <2>4. QED
    BY <2>1, <2>2, <2>3
<1>2. /\ p1 \in Players /\ p2 \in Players /\ p1 # p2
      /\ SlotsOf(p1) \subseteq Slot /\ SlotsOf(p2) \subseteq Slot
      /\ SlotsOf(p1) \cap SlotsOf(p2) = {}
      /\ \A p \in Players \ {p1, p2} : SlotsOf(p) \subseteq Slot
            /\ SlotsOf(p) \cap SlotsOf(p1) = {} /\ SlotsOf(p) \cap SlotsOf(p2) = {}
  BY PlayersOfSlots
<1>3. \A s \in Slot : f[s] = IF s \in SlotsOf(p1) THEN s + k
                            ELSE IF s \in SlotsOf(p2) THEN s - k ELSE s
  <2>1. \A s \in Slot : s \in Int /\ s + (0 - k) = s - k
    BY <1>1
  <2> HIDE DEF k, Slot
  <2>2. QED
    BY <1>1, <2>1 DEF k
<1>4. e = [s \in Slot |-> d[f[s]]]
  BY DEF swap2
<1> HIDE DEF f, k, Slot
<1>5. f \in [Slot -> Slot] /\ \A s \in Slot : f[f[s]] = s
  <2>1. DOMAIN f = Slot /\ f = [s \in Slot |-> f[s]]
    BY DEF f
  <2>2. \A s \in Slot : f[s] \in Slot
    BY <1>1, <1>2, <1>3
  <2>3. \A s \in SlotsOf(p1) : f[s] = s + k /\ f[s + k] = s + k - k /\ s + k - k = s
    BY <1>1, <1>2, <1>3 DEF Slot
  <2>4. \A s \in SlotsOf(p2) : f[s] = s - k /\ f[s - k] = s - k + k /\ s - k + k = s
    BY <1>1, <1>2, <1>3 DEF Slot
  <2>5. \A s \in Slot : s \notin SlotsOf(p1) /\ s \notin SlotsOf(p2) => f[s] = s
    BY <1>3
  <2>6. QED
    BY <2>1, <2>2, <2>3, <2>4, <2>5
<1>6. f \in Bijection(Slot, Slot)
  <2>1. /\ \A s, t \in Slot : f[s] = f[t] => s = t
        /\ \A t \in Slot : \E s \in Slot : f[s] = t
    BY <1>5
  <2>2. QED
    BY <1>5, <2>1, Fun_IsBij
<1>7. \A p \in Players : Hand(e, p) = Hand(d, to(p))
  <2>1. TAKE p \in Players
  <2>2. to(p) \in Players
    BY <1>2
  <2>3. \A s \in SlotsOf(p) : f[s] \in SlotsOf(to(p))
    <3>1. CASE p = p1
      BY <1>1, <1>2, <1>3, <3>1
    <3>2. CASE p = p2
      BY <1>1, <1>2, <1>3, <3>2
    <3>3. CASE p # p1 /\ p # p2
      BY <1>2, <1>3, <3>3
    <3>4. QED
      BY <3>1, <3>2, <3>3
  <2>4. \A s \in SlotsOf(to(p)) : f[s] \in SlotsOf(p)
    <3>1. CASE p = p1
      BY <1>1, <1>2, <1>3, <3>1
    <3>2. CASE p = p2
      BY <1>1, <1>2, <1>3, <3>2
    <3>3. CASE p # p1 /\ p # p2
      BY <1>2, <1>3, <3>3
    <3>4. QED
      BY <3>1, <3>2, <3>3
  <2> HIDE DEF to
  <2>5. SlotsOf(to(p)) \subseteq Slot
    BY <2>2, PlayersOfSlots
  <2>6. \A t \in SlotsOf(to(p)) : \E s \in SlotsOf(p) : f[s] = t
    BY <1>5, <2>4, <2>5
  <2>7. QED
    BY <1>4, <1>5, <2>2, <2>3, <2>6, RearrangedHand
<1>8. e \in Packs /\ {e[s] : s \in Slot} = {d[s] : s \in Slot}
  <2>1. e \in Packs /\ \A s \in Slot : e[s] = d[f[s]]
    BY <1>4, <1>5 DEF Packs
  <2> HIDE DEF e
  <2>2. QED
    BY <1>6, <2>1, Rearranged
<1>9. SameCards(e, d)
  <2> HIDE DEF e
  <2>1. QED
    BY <1>8 DEF SameCards
<1>10. QED
  BY <1>7, <1>9 DEF HandsOf

\* Two cards exchanged, of the first n of a deal.
LEMMA ExchangedCards ==
  ASSUME NEW d \in Packs, NEW n \in 0..DeckSize, NEW s \in 1..n, NEW t \in 1..n
  PROVE  /\ Exchanged(d, s, t) \in Packs
         /\ {Exchanged(d, s, t)[k] : k \in 1..n} = {d[k] : k \in 1..n}
<1> DEFINE e == Exchanged(d, s, t)
<1>1. 1..n \subseteq Slot
  OBVIOUS
<1>2. /\ e \in Packs /\ e[s] = d[t] /\ e[t] = d[s]
      /\ \A k \in Slot : k # s /\ k # t => e[k] = d[k]
  <2> HIDE DEF Slot
  <2>1. QED
    BY <1>1 DEF Exchanged, Packs
<1> HIDE DEF e, Slot
<1>3. QED
  BY <1>1, <1>2 DEF e

-----------------------------------------------------------------------------
(* Packs and the cards in them.                                            *)

LEMMA FilledSlots ==
  ASSUME NEW d
  PROVE  /\ Filled(d) \subseteq Slot /\ IsFiniteSet(Filled(d))
         /\ Cardinality(Filled(d)) \in 0..DeckSize
         /\ Cardinality(Filled(d)) = DeckSize => Filled(d) = Slot
         /\ Cardinality(Filled(d)) = 0 <=> Filled(d) = {}
<1>1. IsFiniteSet(Slot) /\ Cardinality(Slot) = DeckSize
  BY FS_Interval
<1>2. Filled(d) \in SUBSET Slot
  BY DEF Filled
<1> HIDE DEF Slot
<1>3. IsFiniteSet(Filled(d)) /\ Cardinality(Filled(d)) <= Cardinality(Slot)
      /\ (Cardinality(Slot) = Cardinality(Filled(d)) => Slot = Filled(d))
  BY <1>1, <1>2, FS_Subset, Zenon
<1>4. Cardinality(Filled(d)) \in Nat
  BY <1>3, FS_CardinalityType
<1>5. Cardinality(Filled(d)) = 0 <=> Filled(d) = {}
  BY <1>3, FS_EmptySet
<1>6. QED
  BY <1>1, <1>2, <1>3, <1>4, <1>5

\* One slot of a pack is filled, or emptied.
LEMMA OneMoreFilled ==
  ASSUME NEW d, NEW e, NEW s \in Slot, d[s] = NoCard, e[s] # NoCard,
         \A t \in Slot : t # s => e[t] = d[t]
  PROVE  Cardinality(Filled(e)) = Cardinality(Filled(d)) + 1
<1>1. Filled(e) = Filled(d) \cup {s} /\ s \notin Filled(d)
  BY DEF Filled
<1>2. IsFiniteSet(Filled(d))
  BY FilledSlots
<1>3. QED
  BY <1>1, <1>2, FS_AddElement

\* A new pack has every card, each in a slot of its own.
LEMMA NewPack ==
  /\ newpack \in Packs /\ {newpack[s] : s \in Slot} = Cards
  /\ Cardinality(Filled(newpack)) = DeckSize
  /\ \A s, t \in Slot : newpack[s] = newpack[t] => s = t
<1>1. DeckSize \in Nat /\ \A s \in Slot : newpack[s] = DeckSize + 1 - s /\ newpack[s] \in Cards
  BY DEF newpack
<1>2. \A c \in Cards : DeckSize + 1 - c \in Slot /\ newpack[DeckSize + 1 - c] = c
  BY <1>1
<1>3. Filled(newpack) = Slot /\ Cardinality(Slot) = DeckSize
  <2>1. \A s \in Slot : newpack[s] # NoCard
    BY <1>1
  <2>2. Cardinality(Slot) = DeckSize
    BY <1>1, FS_Interval
  <2> HIDE DEF Slot, NoCard
  <2>3. QED
    BY <2>1, <2>2 DEF Filled
<1>4. newpack \in Packs /\ {newpack[s] : s \in Slot} = Cards
  BY <1>1, <1>2 DEF Packs, newpack
<1>5. QED
  BY <1>1, <1>3, <1>4

LEMMA EmptyPack == Empty \in Packs /\ Filled(Empty) = {} /\ Cardinality(Filled(Empty)) = 0
<1>1. Empty \in Packs /\ Filled(Empty) = {}
  BY DEF Empty, Packs, Filled
<1>2. QED
  BY <1>1, FS_EmptySet

\* No card of a full deal is in two hands.
LEMMA FullHands ==
  ASSUME NEW d \in Packs, {d[s] : s \in Slot} = Cards,
         NEW p \in Players, NEW q \in Players, p # q
  PROVE  Hand(d, p) # Hand(d, q)
<1>1. \A s, t \in Slot : d[s] = d[t] => s = t
  <2>1. d \in [Slot -> Slot] /\ \A c \in Slot : \E s \in Slot : d[s] = c
    BY DEF Packs
  <2>2. IsFiniteSet(Slot)
    BY FS_Interval
  <2> HIDE DEF Slot
  <2>3. d \in Surjection(Slot, Slot)
    BY <2>1, Fun_IsSurj
  <2>4. d \in Injection(Slot, Slot)
    BY <2>2, <2>3, FS_SurjSameCardinalityImpliesInj
  <2>5. QED
    BY <2>4, Fun_InjectionProperties
<1> HIDE DEF Slot, Players
<1>2. PICK s \in SlotsOf(p) : s \in Slot
  BY PlayersOfSlots
<1>3. \A t \in SlotsOf(q) : t \in Slot /\ t # s
  BY PlayersOfSlots
<1>4. d[s] \in Hand(d, p) /\ d[s] \notin Hand(d, q)
  BY <1>1, <1>2, <1>3 DEF Hand
<1>5. QED
  BY <1>4

\* What is left in the full pack comes first in the small pack, each card once.
LEMMA LeftoverCards ==
  ASSUME fullpack \in Packs, small_pack \in Packs
  PROVE  LET n == Cardinality(Filled(fullpack)) IN
         /\ Leftover \in Packs
         /\ \A k \in 1..n : Leftover[k] \in Cards
         /\ \A s \in Filled(fullpack) : \E k \in 1..n : Leftover[k] = fullpack[s]
<1> DEFINE F == Filled(fullpack)
           n == Cardinality(F)
           g == [s \in F |-> PlaceLeft(s)]
           pick(k) == CHOOSE s \in F : PlaceLeft(s) = k
<1>1. /\ F \subseteq Slot /\ IsFiniteSet(F) /\ n \in 0..DeckSize
      /\ \A s \in F : fullpack[s] \in Cards
  <2>1. \A s \in Slot : fullpack[s] \in Cards \cup {NoCard}
    BY DEF Packs
  <2>2. QED
    BY <2>1, FilledSlots DEF Filled
<1>2. \A s : PlaceLeft(s) = Cardinality({t \in F : t <= s})
  BY DEF PlaceLeft
<1>3. \A s : IsFiniteSet({t \in F : t <= s})
  <2>1. TAKE s
  <2>2. {t \in F : t <= s} \in SUBSET F
    OBVIOUS
  <2> HIDE DEF F
  <2>3. QED
    BY <1>1, <2>2, FS_Subset, Zenon
<1> HIDE DEF F
<1>4. \A s \in F : PlaceLeft(s) \in 1..n
  <2>1. TAKE s \in F
  <2> DEFINE A == {t \in F : t <= s}
  <2>2. A \in SUBSET F /\ s \in A
    BY <1>1
  <2> HIDE DEF A
  <2>3. IsFiniteSet(A) /\ Cardinality(A) <= n
    BY <1>1, <2>2, FS_Subset, Zenon
  <2>4. Cardinality(A) \in Nat /\ Cardinality(A) # 0
    BY <2>2, <2>3, FS_CardinalityType, FS_EmptySet
  <2>5. PlaceLeft(s) = Cardinality(A)
    BY <1>2 DEF A
  <2>6. QED
    BY <1>1, <2>3, <2>4, <2>5
<1>5. \A s, t \in F : s < t => PlaceLeft(s) < PlaceLeft(t)
  <2>1. SUFFICES ASSUME NEW s \in F, NEW t \in F, s < t
                 PROVE  PlaceLeft(s) < PlaceLeft(t)
    OBVIOUS
  <2> DEFINE A == {u \in F : u <= s}
             B == {u \in F : u <= t}
  <2>2. A \in SUBSET (B \ {t}) /\ t \in B
    <3>1. \A u \in F : u \in Int
      BY <1>1
    <3>2. t <= t /\ \A u \in F : u <= s => u <= t /\ u # t
      BY <2>1, <3>1
    <3>3. QED
      BY <3>2
  <2>3. IsFiniteSet(B) /\ PlaceLeft(s) = Cardinality(A) /\ PlaceLeft(t) = Cardinality(B)
    BY <1>2, <1>3
  <2> HIDE DEF A, B
  <2>4. IsFiniteSet(B \ {t}) /\ Cardinality(B \ {t}) = Cardinality(B) - 1
    BY <2>2, <2>3, FS_RemoveElement
  <2>5. Cardinality(A) <= Cardinality(B \ {t})
    BY <2>2, <2>4, FS_Subset, Zenon
  <2>6. PlaceLeft(s) \in Int /\ PlaceLeft(t) \in Int
    BY <1>4
  <2>7. QED
    BY <2>3, <2>4, <2>5, <2>6
<1>6. \A k \in 1..n : pick(k) \in F /\ PlaceLeft(pick(k)) = k
  <2>1. g \in [F -> 1..n] /\ \A s, t \in F : g[s] = g[t] => s = t
    <3>1. \A s, t \in F : s < t \/ t < s \/ s = t
      BY <1>1
    <3>2. \A s, t \in F : PlaceLeft(s) = PlaceLeft(t) => s = t
      BY <1>4, <1>5, <3>1
    <3>3. QED
      BY <1>4, <3>2
  <2>2. IsFiniteSet(1..n) /\ Cardinality(1..n) = n
    BY <1>1, FS_Interval
  <2>3. g \in Injection(F, 1..n)
    <3> HIDE DEF g
    <3>1. QED
      BY <2>1, Fun_IsInj
  <2>4. g \in Surjection(F, 1..n)
    <3> HIDE DEF g
    <3> DEFINE T == 1..n
    <3>1. IsFiniteSet(T) /\ Cardinality(F) = Cardinality(T) /\ g \in Injection(F, T)
      BY <2>2, <2>3
    <3> HIDE DEF T
    <3>2. g \in Surjection(F, T)
      BY <3>1, FS_Injection
    <3>3. QED
      BY <3>2 DEF T
  <2>5. \A k \in 1..n : \E s \in F : PlaceLeft(s) = k
    <3>1. \A k \in 1..n : \E s \in F : g[s] = k
      <4> HIDE DEF g
      <4>1. QED
        BY <2>4, Fun_SurjectionProperties
    <3>2. QED
      BY <3>1
  <2>6. QED
    BY <2>5
<1>7. \A s \in F : pick(PlaceLeft(s)) = s
  <2>1. TAKE s \in F
  <2>2. pick(PlaceLeft(s)) \in F /\ PlaceLeft(pick(PlaceLeft(s))) = PlaceLeft(s)
    BY <1>4, <1>6
  <2> DEFINE t == pick(PlaceLeft(s))
  <2> HIDE DEF t
  <2>3. t \in F /\ PlaceLeft(t) = PlaceLeft(s)
    BY <2>2 DEF t
  <2>4. ~(s < t) /\ ~(t < s)
    BY <1>4, <1>5, <2>3
  <2>5. t = s
    BY <1>1, <2>3, <2>4
  <2>6. QED
    BY <2>5 DEF t
<1>8. \A k \in Slot : Leftover[k] = IF k <= n THEN fullpack[pick(k)] ELSE small_pack[k]
  BY DEF Leftover, F
<1> HIDE DEF n, pick
<1>9. \A k \in 1..n : k \in Slot /\ k <= n /\ Leftover[k] = fullpack[pick(k)] /\ Leftover[k] \in Cards
  <2>1. \A k \in 1..n : k \in Slot /\ k <= n
    BY <1>1
  <2>2. QED
    BY <1>1, <1>6, <1>8, <2>1
<1>10. Leftover \in Packs
  <2>1. \A k \in Slot : Leftover[k] \in Cards \cup {NoCard}
    <3>1. \A k \in Slot : k <= n => k \in 1..n
      BY <1>1
    <3>2. QED
      BY <1>8, <1>9, <3>1 DEF Packs
  <2>2. Leftover = [k \in Slot |-> Leftover[k]]
    BY DEF Leftover
  <2> HIDE DEF Slot
  <2>3. QED
    BY <2>1, <2>2 DEF Packs
<1>11. \A s \in F : \E k \in 1..n : Leftover[k] = fullpack[s]
  BY <1>4, <1>7, <1>9
<1>12. QED
  BY <1>9, <1>10, <1>11 DEF F, n

-----------------------------------------------------------------------------
(* The inductive invariant.                                                *)

LEMMA InitInv == Init => IInv
<1> SUFFICES ASSUME Init PROVE IInv
  OBVIOUS
<1>1. /\ pc = "parse" /\ fullpack = newpack /\ small_pack = newpack /\ stacked_pack = Empty
      /\ curdeal = Empty /\ stacked_size = 0 /\ small_size = DeckSize /\ swapping \in Swappings
      /\ swapindex = 0 /\ i = 1 /\ j = 1 /\ nshuffles = 0 /\ wanted = {} /\ group = <<>>
  BY DEF Init
<1>2. TypeOK
  <2>1. group \in Seq([Players -> SUBSET (Cards \cup {NoCard})])
    BY <1>1
  <2>2. DeckSize \in Nat /\ 1 \in 1..DeckSize + 1
    OBVIOUS
  <2>3. QED
    BY <1>1, <2>1, <2>2, NewPack, EmptyPack DEF TypeOK, PC
<1>3. Predealing
  <2>1. \A c \in Cards : \E s \in Slot : newpack[s] = c
    BY NewPack
  <2>2. DeckSize \in Nat
    OBVIOUS
  <2> HIDE DEF Slot, Cards, NoCard, DeckSize
  <2>3. QED
    BY <1>1, <2>1, <2>2, NewPack, EmptyPack DEF Predealing
<1>4. SetUp /\ Merging /\ FullDeal /\ PredealKept
  BY <1>1 DEF SetUp, Merging, FullDeal, PredealKept
<1>5. Grouping
  <2>1. Len(group) = 0 /\ GroupSize \in {1, 2, 6}
    BY <1>1 DEF GroupSize
  <2>2. QED
    BY <1>1, <2>1 DEF Grouping
<1>6. QED
  BY <1>2, <1>3, <1>4, <1>5 DEF IInv

\* A card is predealt.
LEMMA PredealStep ==
  ASSUME IInv, NEW player \in Players, NEW onecard \in Cards, Predeal(player, onecard)
  PROVE  IInv'
<1> HIDE DEF Slot, Cards, NoCard, DeckSize, Players
<1>1. /\ pc \in {"parse", "options"}
      /\ UNCHANGED <<small_pack, small_size, curdeal, swapping, swapindex, i, j, nshuffles, group>>
      /\ TypeOK /\ Predealing /\ Grouping /\ pc' \in {pc, "exit"}
  BY DEF Predeal, IInv
<1>2. onecard # NoCard /\ NoCard \notin Cards /\ DeckSize \in Nat /\ Slot = 1..DeckSize /\ Cards = 1..DeckSize
  BY DEF Cards, NoCard, Slot, DeckSize
<1>3. CASE ~\E s \in Slot : fullpack[s] = onecard
  <2>1. pc' = "exit" /\ UNCHANGED packs
    BY <1>3 DEF Predeal
  <2>2. TypeOK'
    BY <1>1, <2>1 DEF TypeOK, PC, packs
  <2>3. (Predealing /\ SetUp /\ Merging /\ FullDeal /\ PredealKept)'
    BY <2>1 DEF Predealing, SetUp, Merging, FullDeal, PredealKept
  <2>4. Grouping'
    BY <1>1, <2>1 DEF packs, Grouping, GroupSize
  <2>5. QED
    BY <2>2, <2>3, <2>4 DEF IInv
<1>4. CASE \E s \in Slot : fullpack[s] = onecard
  <2>1. PICK u \in Slot : fullpack[u] = onecard
    BY <1>4
  <2>2. fullpack' = [s \in Slot |-> IF fullpack[s] = onecard THEN NoCard ELSE fullpack[s]]
    BY <1>4 DEF Predeal
  <2>3. /\ fullpack' \in Packs /\ fullpack'[u] = NoCard
        /\ \A s \in Slot : s # u => fullpack'[s] = fullpack[s]
    <3>1. fullpack \in Packs /\ \A s \in Slot : fullpack[s] \in {newpack[s], NoCard}
      BY <1>1 DEF TypeOK, Predealing
    <3>2. \A s \in Slot : fullpack[s] = onecard => s = u
      BY <1>2, <2>1, <3>1, NewPack
    <3>3. QED
      BY <2>1, <2>2, <3>1, <3>2 DEF Packs
  <2>4. CASE FreeSlots(player) = {}
    <3>1. pc' = "exit" /\ UNCHANGED <<stacked_pack, stacked_size, wanted>>
      BY <1>4, <2>4 DEF Predeal
    <3>2. TypeOK'
      BY <1>1, <2>3, <3>1 DEF TypeOK, PC
    <3>3. (Predealing /\ SetUp /\ Merging /\ FullDeal /\ PredealKept)'
      BY <3>1 DEF Predealing, SetUp, Merging, FullDeal, PredealKept
    <3>4. Grouping'
      BY <1>1, <3>1 DEF Grouping, GroupSize
    <3>5. QED
      BY <3>2, <3>3, <3>4 DEF IInv
  <2>5. CASE FreeSlots(player) # {}
    <3>1. PICK v \in FreeSlots(player) :
            /\ stacked_pack' = [stacked_pack EXCEPT ![v] = onecard]
            /\ stacked_size' = stacked_size + 1
            /\ wanted' = wanted \cup {<<player, onecard>>}
            /\ UNCHANGED pc
      BY <1>4, <2>5 DEF Predeal
    <3>2. v \in SlotsOf(player) /\ v \in Slot /\ stacked_pack[v] = NoCard
      BY PlayersOfSlots DEF FreeSlots
    <3>3. /\ stacked_pack' \in Packs /\ stacked_pack'[v] = onecard
          /\ \A s \in Slot : s # v => stacked_pack'[s] = stacked_pack[s]
      BY <1>1, <3>1, <3>2 DEF TypeOK, Packs
    <3>4. stacked_size \in Nat /\ pc # "exit" /\ wanted \subseteq Players \X Cards
      BY <1>1 DEF TypeOK
    <3>5. TypeOK'
      BY <1>1, <2>3, <3>1, <3>3, <3>4 DEF TypeOK
    <3>6. Predealing'
      <4>1. \A s \in Slot : fullpack'[s] \in {newpack[s], NoCard}
        BY <1>1, <2>3, <3>4 DEF Predealing
      <4>2. Cardinality(Filled(stacked_pack')) = stacked_size'
        <5>1. Cardinality(Filled(stacked_pack')) = Cardinality(Filled(stacked_pack)) + 1
          BY <1>2, <3>2, <3>3, OneMoreFilled
        <5>2. QED
          BY <1>1, <3>1, <3>4, <5>1 DEF Predealing
      <4>3. Cardinality(Filled(fullpack')) + stacked_size' = DeckSize
        <5>1. Cardinality(Filled(fullpack)) = Cardinality(Filled(fullpack')) + 1
          BY <1>2, <2>1, <2>3, OneMoreFilled
        <5>2. Cardinality(Filled(fullpack')) \in Int
          BY <1>2, FilledSlots
        <5>3. Cardinality(Filled(fullpack)) + stacked_size = DeckSize
          BY <1>1, <3>4 DEF Predealing
        <5>4. QED
          BY <3>1, <3>4, <5>1, <5>2, <5>3
      <4>4. \A c \in Cards : \E s \in Slot : fullpack'[s] = c \/ stacked_pack'[s] = c
        <5>1. TAKE c \in Cards
        <5>2. CASE c = onecard
          BY <3>2, <3>3, <5>2
        <5>3. CASE c # onecard
          <6>1. PICK s \in Slot : fullpack[s] = c \/ stacked_pack[s] = c
            BY <1>1, <3>4 DEF Predealing
          <6>2. c # NoCard
            BY <1>2
          <6>3. QED
            BY <2>1, <2>3, <3>2, <3>3, <5>3, <6>1, <6>2
        <5>4. QED
          BY <5>2, <5>3
      <4>5. \A w \in wanted' : w[2] \in Hand(stacked_pack', w[1])
        <5>1. TAKE w \in wanted'
        <5>2. CASE w = <<player, onecard>>
          BY <3>2, <3>3, <5>2 DEF Hand
        <5>3. CASE w \in wanted
          <6>1. w[2] \in Cards /\ w[1] \in Players /\ w[2] # NoCard
            BY <1>2, <3>4, <5>3
          <6>2. PICK s \in SlotsOf(w[1]) : stacked_pack[s] = w[2]
            BY <1>1, <3>4, <5>3 DEF Predealing, Hand
          <6>3. s \in Slot
            BY <6>1, PlayersOfSlots
          <6>4. stacked_pack'[s] = w[2]
            BY <3>2, <3>3, <6>1, <6>2, <6>3
          <6>5. QED
            BY <6>4 DEF Hand
        <5>4. QED
          BY <3>1, <5>2, <5>3
      <4>6. QED
        BY <4>1, <4>2, <4>3, <4>4, <4>5 DEF Predealing
    <3>7. (SetUp /\ Merging /\ FullDeal /\ PredealKept)'
      BY <1>1, <3>1 DEF SetUp, Merging, FullDeal, PredealKept
    <3>8. Grouping'
      <4>1. (swapping \in {0, 2, 3} => group = <<>> /\ swapindex = 0) /\ pc' = pc
        BY <1>1, <3>1 DEF Grouping
      <4>2. Len(<<>>) = 0 /\ GroupSize' \in {1, 2, 6}
        BY DEF GroupSize
      <4>3. QED
        BY <1>1, <4>1, <4>2 DEF Grouping
    <3>9. QED
      BY <3>5, <3>6, <3>7, <3>8 DEF IInv
  <2>6. QED
    BY <2>4, <2>5
<1>5. QED
  BY <1>3, <1>4

\* The command line undoes what the script predealt.
LEMMA PredealOptionsStep ==
  ASSUME IInv, PredealOptions
  PROVE  IInv'
<1>1. /\ pc = "parse" /\ pc' = "options" /\ fullpack' = newpack /\ small_pack' = newpack
      /\ stacked_pack' = Empty /\ curdeal' = Empty /\ stacked_size' = 0 /\ small_size' = DeckSize
      /\ wanted' = {} /\ UNCHANGED <<swapping, swapindex, i, j, nshuffles, group>>
  BY DEF PredealOptions, init_cards
<1>2. TypeOK'
  BY <1>1, NewPack, EmptyPack DEF IInv, TypeOK, PC
<1>3. Predealing'
  <2>1. \A c \in Cards : \E s \in Slot : newpack[s] = c
    BY NewPack
  <2>2. DeckSize \in Nat
    OBVIOUS
  <2> HIDE DEF Slot, Cards, NoCard, DeckSize
  <2>3. QED
    BY <1>1, <2>1, <2>2, NewPack, EmptyPack DEF Predealing
<1>4. (SetUp /\ Merging /\ FullDeal /\ PredealKept)'
  BY <1>1 DEF SetUp, Merging, FullDeal, PredealKept
<1>5. Grouping'
  <2>1. swapping \in {0, 2, 3} => group = <<>> /\ swapindex = 0
    BY <1>1 DEF IInv, Grouping
  <2>2. Len(<<>>) = 0 /\ GroupSize' \in {1, 2, 6}
    BY DEF GroupSize
  <2>3. QED
    BY <1>1, <2>1, <2>2 DEF Grouping
<1>6. QED
  BY <1>2, <1>3, <1>4, <1>5 DEF IInv

\* The packs are set up for the run.
LEMMA SetupDealStep ==
  ASSUME IInv, SetupDeal
  PROVE  IInv'
<1>1. /\ pc \in {"parse", "options"} /\ i' = 1 /\ j' = 1
      /\ UNCHANGED <<fullpack, stacked_size, wanted, swapping, swapindex, nshuffles, group>>
      /\ TypeOK /\ Predealing
  BY DEF SetupDeal, IInv
<1>2. /\ fullpack \in Packs /\ stacked_pack \in Packs /\ small_pack \in Packs
      /\ stacked_size \in Nat /\ DeckSize \in Nat
      /\ Cardinality(Filled(stacked_pack)) = stacked_size
      /\ Cardinality(Filled(fullpack)) + stacked_size = DeckSize
      /\ Cardinality(Filled(fullpack)) \in 0..DeckSize
  BY <1>1, FilledSlots DEF TypeOK, Predealing
<1>3. Grouping' /\ (swapping \in {0, 2, 3} => group = <<>> /\ swapindex = 0)
  <2>1. swapping \in {0, 2, 3} => group = <<>> /\ swapindex = 0
    BY <1>1 DEF IInv, Grouping
  <2>2. Len(<<>>) = 0 /\ GroupSize' \in {1, 2, 6}
    BY DEF GroupSize
  <2>3. pc' # "dealt"
    BY DEF SetupDeal
  <2>4. QED
    BY <1>1, <2>1, <2>2, <2>3 DEF Grouping
<1>4. CASE stacked_size = 0
  <2>1. /\ curdeal' = fullpack /\ small_pack' = fullpack /\ stacked_pack' = Empty
        /\ small_size' = DeckSize /\ pc' = "ready"
    BY <1>4 DEF SetupDeal
  <2>2. TypeOK'
    BY <1>1, <1>2, <2>1, EmptyPack DEF TypeOK, PC
  <2>3. Filled(stacked_pack) = {} /\ Filled(fullpack) = Slot
    <3>1. Cardinality(Filled(fullpack)) = DeckSize /\ Cardinality(Filled(stacked_pack)) = 0
      BY <1>2, <1>4
    <3>2. QED
      BY <3>1, FilledSlots
  <2>4. fullpack = newpack
    <3>1. \A s \in Slot : fullpack[s] = newpack[s]
      BY <1>1, <2>3 DEF Predealing, Filled
    <3>2. QED
      BY <1>2, <3>1, NewPack DEF Packs
  <2>5. wanted = {}
    <3>1. \A s \in Slot : stacked_pack[s] = NoCard
      BY <2>3 DEF Filled
    <3>2. ASSUME NEW w \in wanted PROVE FALSE
      <4>1. w[1] \in Players /\ w[2] \in Cards /\ w[2] \in Hand(stacked_pack, w[1])
        BY <1>1 DEF TypeOK, Predealing
      <4>2. PICK s \in SlotsOf(w[1]) : stacked_pack[s] = w[2]
        BY <4>1 DEF Hand
      <4>3. s \in Slot /\ NoCard \notin Cards
        BY <4>1, PlayersOfSlots
      <4>4. QED
        BY <3>1, <4>1, <4>2, <4>3
    <3>3. QED
      BY <3>2
  <2>6. Predealing'
    <3>1. \A c \in Cards : \E s \in Slot : newpack[s] = c
      BY NewPack
    <3> HIDE DEF Slot, Cards, NoCard, DeckSize
    <3>2. QED
      BY <1>1, <1>2, <1>4, <2>1, <2>4, <2>5, <3>1, EmptyPack DEF Predealing
  <2>7. (SetUp /\ Merging /\ FullDeal /\ PredealKept)'
    BY <1>1, <1>2, <1>4, <2>1, <2>4, <2>5, NewPack DEF SetUp, Merging, FullDeal, PredealKept
  <2>8. QED
    BY <1>3, <2>2, <2>6, <2>7 DEF IInv
<1>5. CASE stacked_size > 0
  <2>1. /\ stacked_pack' = sortDeal(stacked_pack) /\ curdeal' = stacked_pack' /\ small_pack' = Leftover
        /\ small_size' = Cardinality(Filled(fullpack))
        /\ pc' = IF Cardinality(Filled(stacked_pack')) = stacked_size
                    /\ small_size' + stacked_size = DeckSize
                 THEN "merge_setup" ELSE "aborted"
    BY <1>2, <1>5 DEF SetupDeal
  <2>2. /\ stacked_pack' \in Packs
        /\ {stacked_pack'[s] : s \in Slot} = {stacked_pack[s] : s \in Slot}
        /\ Cardinality(Filled(stacked_pack')) = stacked_size
        /\ \A p \in Players : Hand(stacked_pack', p) = Hand(stacked_pack, p)
    <3> DEFINE e == sortDeal(stacked_pack)
    <3>1. /\ SameCards(e, stacked_pack)
          /\ Cardinality(Filled(e)) = Cardinality(Filled(stacked_pack))
          /\ \A p \in Players : Hand(e, p) = Hand(stacked_pack, p)
      BY <1>2, SortedDeal DEF sortDeal
    <3>2. stacked_pack' = e
      BY <2>1
    <3> HIDE DEF e, Slot, Players
    <3>3. QED
      BY <1>2, <3>1, <3>2 DEF SameCards
  <2>3. /\ small_pack' \in Packs
        /\ \A k \in 1..small_size' : small_pack'[k] \in Cards
        /\ \A s \in Filled(fullpack) : \E k \in 1..small_size' : small_pack'[k] = fullpack[s]
    BY <1>2, <2>1, LeftoverCards
  <2>4. pc' = "merge_setup"
    BY <1>2, <2>1, <2>2
  <2>5. TypeOK'
    BY <1>1, <1>2, <2>1, <2>2, <2>3, <2>4 DEF TypeOK, PC
  <2>6. Predealing'
    <3>1. \A w \in wanted : w[2] \in Hand(stacked_pack', w[1])
      BY <1>1, <2>2 DEF TypeOK, Predealing
    <3>2. \A c \in Cards : \E s \in Slot : fullpack[s] = c \/ stacked_pack'[s] = c
      <4> HIDE DEF Slot, Cards
      <4>1. \A s \in Slot : \E t \in Slot : stacked_pack'[t] = stacked_pack[s]
        BY <2>2
      <4>2. QED
        BY <1>1, <4>1 DEF Predealing
    <3>3. QED
      BY <1>1, <1>2, <2>2, <3>1, <3>2 DEF Predealing
  <2>7. SetUp'
    <3>1. \A c \in Cards : \/ \E n \in 1..small_size' : small_pack'[n] = c
                           \/ \E s \in Slot : stacked_pack'[s] = c
      <4>1. TAKE c \in Cards
      <4>2. PICK s \in Slot : fullpack[s] = c \/ stacked_pack'[s] = c
        BY <1>1, <2>4, <2>6 DEF Predealing
      <4>3. fullpack[s] = c => s \in Filled(fullpack)
        BY DEF Filled
      <4>4. QED
        BY <2>3, <4>2, <4>3
    <3>2. QED
      BY <1>1, <1>2, <2>1, <2>3, <3>1 DEF SetUp
  <2>8. Merging'
    <3>1. Holes(i - 1)' = {} /\ Cardinality({}) = 0
      BY <1>1, FS_EmptySet DEF Holes
    <3>2. i' <= DeckSize /\ 1..i' - 1 = {} /\ 1..j' - 1 = {} /\ j' - 1 = 0
      BY <1>1
    <3>3. QED
      BY <1>1, <1>5, <2>1, <2>4, <3>1, <3>2 DEF Merging
  <2>9. (FullDeal /\ PredealKept)'
    BY <2>4 DEF FullDeal, PredealKept
  <2>10. QED
    BY <1>3, <2>5, <2>6, <2>7, <2>8, <2>9 DEF IInv
<1>6. QED
  BY <1>2, <1>4, <1>5

\* A new deal is begun.
LEMMA DealCardsStep ==
  ASSUME IInv, DealCards
  PROVE  IInv'
<1>1. /\ pc = "ready" /\ i' = 1 /\ j' = 1 /\ nshuffles' = nshuffles + 1
      /\ UNCHANGED <<fullpack, stacked_pack, stacked_size, wanted, small_pack, small_size,
                     swapping, swapindex, group>>
      /\ stacked_size > 0 \/ swapping = 0 \/ swapindex = 0
      /\ IF stacked_size > 0 THEN curdeal' = stacked_pack /\ pc' = "shuffle_small"
         ELSE pc' = "shuffle" /\ UNCHANGED curdeal
  BY DEF DealCards, packs
<1>2. stacked_size \in Nat /\ small_size \in Nat /\ DeckSize \in Nat
  BY DEF IInv, TypeOK
<1>3. TypeOK'
  BY <1>1 DEF IInv, TypeOK, PC
<1>4. Predealing'
  BY <1>1 DEF IInv, Predealing
<1>5. (SetUp /\ FullDeal /\ PredealKept)'
  BY <1>1 DEF IInv, SetUp, FullDeal, PredealKept
<1>6. Merging'
  BY <1>1, <1>2 DEF IInv, Merging, FullDeal
<1>7. Grouping'
  <2>1. swapping = 0 /\ stacked_size = 0 => swapindex = 0
    <3>1. swapping = 0 => GroupSize = 1
      BY DEF GroupSize
    <3>2. Len(group) \in Nat
      BY DEF IInv, TypeOK
    <3>3. swapping = 0 /\ stacked_size = 0 =>
            Len(group) <= 1 /\ swapindex = (IF Len(group) = 1 THEN 0 ELSE Len(group))
      BY <3>1 DEF IInv, Grouping
    <3>4. \A n \in Nat : n <= 1 => (IF n = 1 THEN 0 ELSE n) = 0
      OBVIOUS
    <3>5. QED
      BY <3>2, <3>3, <3>4, Zenon
  <2>2. QED
    BY <1>1, <1>2, <2>1 DEF IInv, Grouping, GroupSize
<1>8. QED
  BY <1>3, <1>4, <1>5, <1>6, <1>7 DEF IInv

\* The hands after an exchange are those of the next turn of the group.
LEMMA NextTurn ==
  ASSUME NEW d \in Packs, NEW hands, NEW n \in 1..5, HandsOf(d) = Turned(hands, n)
  PROVE  SameCards(Swapped(d, n), d) /\ HandsOf(Swapped(d, n)) = Turned(hands, n + 1)
<1> HIDE DEF Slot
<1> DEFINE Ex(p1, p2) == [p \in Players |-> Hand(d, IF p = p1 THEN p2 ELSE IF p = p2 THEN p1 ELSE p)]
<1>1. /\ Hand(d, 0) = hands[0] /\ Hand(d, 1) = hands[Turns[n][1]]
      /\ Hand(d, 2) = hands[Turns[n][2]] /\ Hand(d, 3) = hands[Turns[n][3]]
  <2>1. \A p \in Players : HandsOf(d)[p] = Hand(d, p)
    BY DEF HandsOf
  <2>2. \A p \in Players : Turned(hands, n)[p] = IF p = 0 THEN hands[0] ELSE hands[Turns[n][p]]
    BY DEF Turned
  <2>3. \A p \in Players : Hand(d, p) = IF p = 0 THEN hands[0] ELSE hands[Turns[n][p]]
    BY <2>1, <2>2
  <2>4. /\ 0 \in Players /\ 1 \in Players /\ 2 \in Players /\ 3 \in Players
        /\ 1 # 0 /\ 2 # 0 /\ 3 # 0
    OBVIOUS
  <2> HIDE DEF Players
  <2>5. QED
    BY <2>3, <2>4
<1>2. \A p1 \in {1, 2}, p2 \in {2, 3} : p1 < p2 =>
        SameCards(swap2(d, p1, p2), d) /\ HandsOf(swap2(d, p1, p2)) = Ex(p1, p2)
  BY SwappedHands
<1>3. CASE n \in {1, 4}
  <2>1. Swapped(d, n) = swap2(d, 1, 3)
    BY <1>3 DEF Swapped
  <2>2. Ex(1, 3) = Turned(hands, n + 1)
    BY <1>1, <1>3 DEF Turned, Turns
  <2> HIDE DEF Ex
  <2>3. QED
    BY <1>2, <2>1, <2>2
<1>4. CASE n \in {2, 5}
  <2>1. Swapped(d, n) = swap2(d, 2, 3)
    BY <1>4 DEF Swapped
  <2>2. Ex(2, 3) = Turned(hands, n + 1)
    BY <1>1, <1>4 DEF Turned, Turns
  <2> HIDE DEF Ex
  <2>3. QED
    BY <1>2, <2>1, <2>2
<1>5. CASE n = 3
  <2>1. Swapped(d, n) = swap2(d, 1, 2)
    BY <1>5 DEF Swapped
  <2>2. Ex(1, 2) = Turned(hands, n + 1)
    BY <1>1, <1>5 DEF Turned, Turns
  <2> HIDE DEF Ex
  <2>3. QED
    BY <1>2, <2>1, <2>2
<1>6. QED
  BY <1>3, <1>4, <1>5

\* Whatever the index, the exchange keeps the cards.
LEMMA SwappedCards ==
  ASSUME NEW d \in Packs, NEW n
  PROVE  SameCards(Swapped(d, n), d)
<1>1. /\ SameCards(swap2(d, 1, 3), d) /\ SameCards(swap2(d, 2, 3), d) /\ SameCards(swap2(d, 1, 2), d)
      /\ SameCards(d, d)
  <2>1. SameCards(swap2(d, 1, 3), d) /\ SameCards(swap2(d, 2, 3), d) /\ SameCards(swap2(d, 1, 2), d)
    BY SwappedHands
  <2>2. SameCards(d, d)
    BY DEF SameCards
  <2>3. QED
    BY <2>1, <2>2
<1>2. CASE n \in {1, 2, 3, 4, 5}
  BY <1>1, <1>2 DEF Swapped
<1>3. CASE n \notin {1, 2, 3, 4, 5}
  BY <1>1, <1>3 DEF Swapped
<1>4. QED
  BY <1>2, <1>3

LEMMA HandsType ==
  ASSUME NEW d \in Packs
  PROVE  HandsOf(d) \in [Players -> SUBSET (Cards \cup {NoCard})]
<1>1. \A p \in Players : \A s \in SlotsOf(p) : s \in Slot
  BY PlayersOfSlots
<1> HIDE DEF Slot
<1>2. \A s \in Slot : d[s] \in Cards \cup {NoCard}
  BY DEF Packs
<1>3. QED
  BY <1>1, <1>2 DEF Hand, HandsOf

\* A full deal begins a group.
LEMMA NewGroup ==
  ASSUME NEW d \in Packs, {d[s] : s \in Slot} = Cards
  PROVE  /\ HandsOf(d) = Turned(HandsOf(d), 1)
         /\ HandsOf(d)[1] # HandsOf(d)[2] /\ HandsOf(d)[1] # HandsOf(d)[3] /\ HandsOf(d)[2] # HandsOf(d)[3]
<1>1. \A p \in Players : HandsOf(d)[p] = Hand(d, p)
  BY DEF HandsOf
<1>2. \A p \in Players : HandsOf(d)[p] = IF p = 0 THEN HandsOf(d)[0] ELSE HandsOf(d)[Turns[1][p]]
  BY DEF Turns
<1>3. HandsOf(d) = Turned(HandsOf(d), 1)
  <2>1. HandsOf(d) = [p \in Players |-> HandsOf(d)[p]]
    BY DEF HandsOf
  <2>2. QED
    BY <1>2, <2>1 DEF Turned
<1>4. Hand(d, 1) # Hand(d, 2) /\ Hand(d, 1) # Hand(d, 3) /\ Hand(d, 2) # Hand(d, 3)
  BY FullHands
<1>5. QED
  BY <1>1, <1>3, <1>4

\* Two hands of the last deal are exchanged.
LEMMA SwapHandsStep ==
  ASSUME IInv, SwapHands
  PROVE  IInv'
<1>1. /\ pc = "ready" /\ stacked_size = 0 /\ swapping # 0 /\ swapindex # 0
      /\ curdeal' = Swapped(curdeal, swapindex) /\ swapindex' = NextIndex /\ pc' = "dealt"
      /\ group' = Append(group, HandsOf(curdeal'))
      /\ UNCHANGED <<fullpack, stacked_pack, stacked_size, wanted, small_pack, small_size,
                     swapping, i, j, nshuffles>>
  BY DEF SwapHands, Made, packs
<1>2. /\ curdeal \in Packs /\ group \in Seq([Players -> SUBSET (Cards \cup {NoCard})])
      /\ Len(group) \in Nat /\ swapindex \in Nat /\ swapping \in Nat
  BY DEF IInv, TypeOK
<1>3. curdeal' \in Packs /\ {curdeal'[s] : s \in Slot} = Cards
  <2>1. SameCards(curdeal', curdeal)
    BY <1>1, <1>2, SwappedCards
  <2>2. QED
    BY <1>1, <2>1 DEF IInv, FullDeal, SameCards
<1>4. HandsOf(curdeal') \in [Players -> SUBSET (Cards \cup {NoCard})]
  BY <1>3, HandsType
<1>5. /\ group' \in Seq([Players -> SUBSET (Cards \cup {NoCard})])
      /\ Len(group') = Len(group) + 1 /\ group' # <<>> /\ group'[Len(group) + 1] = HandsOf(curdeal')
      /\ \A n \in 1..Len(group) : group'[n] = group[n]
  BY <1>1, <1>2, <1>4
<1>6. TypeOK'
  <2>1. swapindex' \in Nat
    BY <1>1, <1>2 DEF NextIndex
  <2>2. QED
    BY <1>1, <1>3, <1>5, <2>1 DEF IInv, TypeOK, PC
<1>7. Predealing' /\ SetUp' /\ Merging' /\ FullDeal'
  BY <1>1, <1>3 DEF IInv, Predealing, SetUp, Merging, FullDeal
<1>8. PredealKept'
  <2>1. Filled(stacked_pack) = {}
    <3>1. Cardinality(Filled(stacked_pack)) = 0
      BY <1>1 DEF IInv, Predealing
    <3>2. QED
      BY <3>1, FilledSlots
  <2>2. ASSUME NEW w \in wanted PROVE FALSE
    <3>1. w[1] \in Players /\ w[2] \in Cards /\ w[2] \in Hand(stacked_pack, w[1])
      BY <1>1 DEF IInv, TypeOK, Predealing
    <3>2. PICK s \in SlotsOf(w[1]) : stacked_pack[s] = w[2]
      BY <3>1 DEF Hand
    <3>3. s \in Slot /\ NoCard \notin Cards
      BY <3>1, PlayersOfSlots
    <3>4. QED
      BY <2>1, <3>1, <3>2, <3>3 DEF Filled
  <2>3. QED
    BY <1>1, <2>2 DEF PredealKept
<1>9. Grouping'
  <2>1. SUFFICES ASSUME swapping \in {0, 2, 3} PROVE Grouping'
    BY <1>1 DEF Grouping
  <2> DEFINE k == Len(group)
             h == group[1]
  <2>2. /\ k <= GroupSize /\ GroupSize' = GroupSize
        /\ GroupSize = (IF swapping = 2 THEN 2 ELSE 6) /\ swapping \in {2, 3}
        /\ swapindex = (IF k = GroupSize THEN 0 ELSE k)
    BY <1>1, <2>1 DEF IInv, Grouping, GroupSize
  <2>3. swapindex = k /\ k \in 1..5 /\ k < GroupSize /\ group # <<>>
    <3>1. k \in Nat /\ swapindex # 0
      BY <1>1, <1>2
    <3>2. k # 0 => group # <<>>
      OBVIOUS
    <3> HIDE DEF k
    <3>3. QED
      BY <2>2, <3>1, <3>2
  <2>4. /\ \A n \in 1..k : group[n] = Turned(h, n)
        /\ h[1] # h[2] /\ h[1] # h[3] /\ h[2] # h[3]
        /\ group[k] = HandsOf(curdeal)
    BY <1>1, <2>1, <2>3 DEF IInv, Grouping
  <2>5. group'[1] = h
    BY <1>5, <2>3
  <2>6. group'[k + 1] = Turned(h, k + 1)
    <3>1. HandsOf(curdeal) = Turned(h, k)
      BY <2>3, <2>4
    <3> HIDE DEF h, k
    <3>2. HandsOf(Swapped(curdeal, k)) = Turned(h, k + 1)
      BY <1>2, <2>3, <3>1, NextTurn
    <3>3. QED
      BY <1>1, <1>5, <2>3, <3>2 DEF k
  <2>7. \A n \in 1..k + 1 : group'[n] = Turned(group'[1], n)
    <3>1. \A n \in 1..k + 1 : n \in 1..k \/ n = k + 1
      BY <1>2
    <3> HIDE DEF h
    <3>2. QED
      BY <1>5, <2>4, <2>5, <2>6, <3>1
  <2>8. swapindex' = (IF k + 1 = GroupSize THEN 0 ELSE k + 1)
    <3>1. swapindex' = NextIndex
      BY <1>1
    <3> HIDE DEF k
    <3>2. QED
      BY <2>2, <2>3, <3>1 DEF NextIndex
  <2>9. /\ Len(group)' = k + 1 /\ k + 1 <= GroupSize'
        /\ group'[Len(group')] = HandsOf(curdeal')
    BY <1>2, <1>5, <2>2, <2>3
  <2>10. group'[1][1] # group'[1][2] /\ group'[1][1] # group'[1][3] /\ group'[1][2] # group'[1][3]
    BY <2>4, <2>5
  <2> HIDE DEF k, h
  <2>11. QED
    BY <1>1, <1>5, <2>2, <2>7, <2>8, <2>9, <2>10 DEF Grouping
<1>10. QED
  BY <1>6, <1>7, <1>8, <1>9 DEF IInv

\* A full deal that begins a group, made by the shuffle or by the merge.
LEMMA GroupBegun ==
  ASSUME IInv, curdeal' \in Packs, {curdeal'[s] : s \in Slot} = Cards,
         group' = <<HandsOf(curdeal')>>, pc' = "dealt",
         UNCHANGED <<swapping, stacked_size>>,
         stacked_size = 0 => swapindex = 0 /\ swapindex' = NextIndex
  PROVE  Grouping' /\ group' \in Seq([Players -> SUBSET (Cards \cup {NoCard})])
<1> DEFINE h == HandsOf(curdeal')
<1>1. /\ h = Turned(h, 1)
      /\ h[1] # h[2] /\ h[1] # h[3] /\ h[2] # h[3]
  BY NewGroup
<1>2. h \in [Players -> SUBSET (Cards \cup {NoCard})]
  BY HandsType
<1> HIDE DEF h
<1>3. /\ group' = <<h>> /\ Len(<<h>>) = 1 /\ <<h>>[1] = h /\ <<h>> # <<>>
      /\ \A n \in 1..1 : n = 1
  BY DEF h
<1>4. GroupSize' = GroupSize /\ GroupSize \in {1, 2, 6} /\ (swapping \in {2, 3} => GroupSize # 1)
      /\ (swapping = 0 => GroupSize = 1)
  BY DEF GroupSize
<1>5. stacked_size = 0 /\ swapping \in {0, 2, 3} => swapindex' = IF 1 = GroupSize THEN 0 ELSE 1
  BY <1>4 DEF NextIndex
<1>6. Grouping'
  <2>1. SUFFICES ASSUME swapping \in {0, 2, 3} PROVE Grouping'
    BY DEF Grouping
  <2>2. Len(group') <= GroupSize' /\ Len(group') <= 1
    BY <1>3, <1>4
  <2>3. \A n \in 1..Len(group') : group'[n] = Turned(group'[1], n)
    BY <1>1, <1>3
  <2>4. group'[Len(group')] = HandsOf(curdeal')
    BY <1>3 DEF h
  <2>5. group'[1][1] # group'[1][2] /\ group'[1][1] # group'[1][3] /\ group'[1][2] # group'[1][3]
    BY <1>1, <1>3
  <2>6. stacked_size' = 0 => swapindex' = (IF Len(group') = GroupSize' THEN 0 ELSE Len(group'))
    BY <1>3, <1>4, <1>5, <2>1
  <2>7. QED
    BY <2>2, <2>3, <2>4, <2>5, <2>6 DEF Grouping
<1>7. QED
  BY <1>2, <1>3, <1>6

\* One round of the shuffle of a whole deal.
LEMMA ShuffleDealStep ==
  ASSUME IInv, ShuffleDeal
  PROVE  IInv'
<1>1. /\ pc = "shuffle"
      /\ UNCHANGED <<fullpack, stacked_pack, stacked_size, wanted, small_pack, small_size,
                     swapping, j, nshuffles>>
      /\ \E slot \in Draws : curdeal' = Exchanged(curdeal, i, slot)
      /\ IF i < DeckSize
         THEN i' = i + 1 /\ UNCHANGED <<pc, swapindex, group>>
         ELSE /\ pc' = "dealt" /\ group' = <<HandsOf(curdeal')>>
              /\ swapindex' = NextIndex
              /\ UNCHANGED i
  BY DEF ShuffleDeal, Made, packs
<1>2. /\ curdeal \in Packs /\ i \in 1..DeckSize /\ stacked_size = 0 /\ DeckSize \in Nat
      /\ {curdeal[s] : s \in Slot} = Cards
  BY <1>1, SMTT(30) DEF IInv, TypeOK, Merging
<1>3. curdeal' \in Packs /\ {curdeal'[s] : s \in Slot} = Cards
  <2>1. PICK slot \in Draws : curdeal' = Exchanged(curdeal, i, slot)
    BY <1>1
  <2> DEFINE e == Exchanged(curdeal, i, slot)
  <2>2. slot \in 1..DeckSize /\ DeckSize \in 0..DeckSize
    BY <1>2
  <2>3. e \in Packs /\ {e[k] : k \in 1..DeckSize} = {curdeal[k] : k \in 1..DeckSize}
    BY <1>2, <2>2, ExchangedCards, ZenonT(60)
  <2> HIDE DEF e
  <2>4. curdeal' = e
    BY <2>1 DEF e
  <2>5. QED
    BY <1>2, <2>3, <2>4
<1>4. Predealing' /\ SetUp'
  BY <1>1 DEF IInv, Predealing, SetUp
<1>5. PredealKept'
  <2>1. Filled(stacked_pack) = {}
    <3>1. Cardinality(Filled(stacked_pack)) = 0
      BY <1>1, <1>2 DEF IInv, Predealing
    <3>2. QED
      BY <3>1, FilledSlots
  <2>2. ASSUME NEW w \in wanted PROVE FALSE
    <3>1. w[1] \in Players /\ w[2] \in Cards /\ w[2] \in Hand(stacked_pack, w[1])
      BY <1>1 DEF IInv, TypeOK, Predealing
    <3>2. PICK s \in SlotsOf(w[1]) : stacked_pack[s] = w[2]
      BY <3>1 DEF Hand
    <3>3. s \in Slot /\ NoCard \notin Cards
      BY <3>1, PlayersOfSlots
    <3>4. QED
      BY <2>1, <3>1, <3>2, <3>3 DEF Filled
  <2>3. QED
    BY <1>1, <2>2 DEF PredealKept
<1>6. CASE i < DeckSize
  <2>1. i' = i + 1 /\ pc' = pc /\ swapindex' = swapindex /\ group' = group
    BY <1>1, <1>6
  <2>2. TypeOK'
    BY <1>1, <1>2, <1>3, <1>6, <2>1 DEF IInv, TypeOK
  <2>3. Merging' /\ FullDeal'
    BY <1>1, <1>2, <1>3, <1>6, <2>1 DEF Merging, FullDeal
  <2>4. Grouping'
    BY <1>1, <2>1 DEF IInv, Grouping, GroupSize
  <2>5. QED
    BY <1>4, <1>5, <2>2, <2>3, <2>4 DEF IInv
<1>7. CASE ~(i < DeckSize)
  <2>1. pc' = "dealt" /\ group' = <<HandsOf(curdeal')>> /\ swapindex' = NextIndex /\ i' = i
    BY <1>1, <1>7
  <2>2. Merging' /\ FullDeal'
    BY <1>3, <2>1 DEF Merging, FullDeal
  <2>3. CASE swapping \in {0, 2, 3}
    <3>1. swapindex = 0
      BY <1>1, <2>3 DEF IInv, Grouping
    <3>2. Grouping' /\ group' \in Seq([Players -> SUBSET (Cards \cup {NoCard})])
      BY <1>1, <1>3, <2>1, <3>1, GroupBegun
    <3>3. swapindex' \in Nat
      BY <2>1, <3>1 DEF NextIndex
    <3>4. TypeOK'
      BY <1>1, <1>3, <2>1, <3>2, <3>3 DEF IInv, TypeOK, PC
    <3>5. QED
      BY <1>4, <1>5, <2>2, <3>2, <3>4 DEF IInv
  <2>4. CASE swapping \notin {0, 2, 3}
    <3>1. Grouping'
      BY <1>1, <2>4 DEF Grouping
    <3>2. group' \in Seq([Players -> SUBSET (Cards \cup {NoCard})])
      BY <1>3, <2>1, HandsType
    <3>3. swapindex' \in Nat
      BY <2>1 DEF NextIndex, IInv, TypeOK
    <3>4. TypeOK'
      BY <1>1, <1>3, <2>1, <3>2, <3>3 DEF IInv, TypeOK, PC
    <3>5. QED
      BY <1>4, <1>5, <2>2, <3>1, <3>4 DEF IInv
  <2>5. QED
    BY <2>3, <2>4
<1>8. QED
  BY <1>6, <1>7

\* One round of the shuffle of the small pack.
LEMMA ShuffleSmallStep ==
  ASSUME IInv, ShuffleSmall
  PROVE  IInv'
<1>1. /\ pc = "shuffle_small"
      /\ UNCHANGED <<fullpack, stacked_pack, stacked_size, wanted, small_size, curdeal,
                     swapping, swapindex, j, nshuffles, group>>
      /\ IF i <= small_size
         THEN /\ \E slot \in Draws \cap 1..small_size : small_pack' = Exchanged(small_pack, i, slot)
              /\ i' = i + 1 /\ UNCHANGED pc
         ELSE pc' = "merge" /\ i' = 1 /\ UNCHANGED small_pack
  BY DEF ShuffleSmall, packs
<1>2. /\ small_pack \in Packs /\ curdeal = stacked_pack /\ stacked_size > 0 /\ j = 1
      /\ i \in 1..DeckSize + 1 /\ i <= small_size + 1 /\ DeckSize \in Nat
      /\ small_size \in Nat /\ stacked_size \in Nat /\ small_size + stacked_size = DeckSize
      /\ \A n \in 1..small_size : small_pack[n] \in Cards
      /\ \A c \in Cards : \/ \E n \in 1..small_size : small_pack[n] = c
                          \/ \E s \in Slot : stacked_pack[s] = c
  BY <1>1 DEF IInv, TypeOK, SetUp, Merging
<1>3. CASE i <= small_size
  <2>1. PICK slot \in Draws \cap 1..small_size : small_pack' = Exchanged(small_pack, i, slot)
    BY <1>1, <1>3
  <2> DEFINE e == Exchanged(small_pack, i, slot)
  <2>2. small_size \in 0..DeckSize /\ i \in 1..small_size /\ slot \in 1..small_size
    BY <1>2, <1>3
  <2>3. e \in Packs /\ {e[k] : k \in 1..small_size} = {small_pack[k] : k \in 1..small_size}
    BY <1>2, <2>2, ExchangedCards
  <2>4. i' = i + 1 /\ pc' = pc /\ small_pack' = e
    BY <1>1, <1>3, <2>1
  <2> HIDE DEF e, Slot, Cards
  <2>5. /\ \A n \in 1..small_size : small_pack'[n] \in Cards
        /\ \A n \in 1..small_size : \E k \in 1..small_size : small_pack'[k] = small_pack[n]
    <3>1. \A n \in 1..small_size : \E k \in 1..small_size : e[k] = small_pack[n]
      BY <2>3
    <3>2. \A n \in 1..small_size : \E k \in 1..small_size : e[n] = small_pack[k]
      BY <2>3
    <3>3. QED
      BY <1>2, <2>4, <3>1, <3>2
  <2>6. TypeOK'
    <3>1. i' \in 1..DeckSize + 1
      BY <1>2, <1>3, <2>4
    <3>2. QED
      BY <1>1, <2>3, <2>4, <3>1 DEF IInv, TypeOK
  <2>7. SetUp'
    <3>1. \A c \in Cards : \/ \E n \in 1..small_size : small_pack'[n] = c
                           \/ \E s \in Slot : stacked_pack[s] = c
      BY <1>2, <2>5
    <3>2. QED
      BY <1>1, <1>2, <2>4, <2>5, <3>1 DEF SetUp
  <2>8. Merging' /\ Predealing' /\ FullDeal' /\ PredealKept'
    <3>1. i' <= small_size + 1
      BY <1>2, <1>3, <2>4
    <3>2. QED
      BY <1>1, <1>2, <2>4, <3>1 DEF IInv, Merging, Predealing, FullDeal, PredealKept
  <2>9. Grouping'
    BY <1>1, <2>4 DEF IInv, Grouping, GroupSize
  <2>10. QED
    BY <2>6, <2>7, <2>8, <2>9 DEF IInv
<1>4. CASE ~(i <= small_size)
  <2>1. pc' = "merge" /\ i' = 1 /\ small_pack' = small_pack
    BY <1>1, <1>4
  <2>2. TypeOK'
    BY <1>1, <1>2, <2>1 DEF IInv, TypeOK, PC
  <2>3. SetUp' /\ Predealing' /\ FullDeal' /\ PredealKept'
    BY <1>1, <1>2, <2>1 DEF IInv, SetUp, Predealing, FullDeal, PredealKept
  <2>4. Merging'
    <3>1. Holes(i - 1)' = {} /\ Cardinality({}) = 0
      BY <2>1, FS_EmptySet DEF Holes
    <3>2. i' <= DeckSize /\ 1..i' - 1 = {} /\ 1..j' - 1 = {} /\ j' - 1 = 0
      BY <1>1, <1>2, <2>1
    <3>3. QED
      BY <1>1, <1>2, <2>1, <3>1, <3>2 DEF Merging
  <2>5. Grouping'
    BY <1>1, <2>1 DEF IInv, Grouping, GroupSize
  <2>6. QED
    BY <2>2, <2>3, <2>4, <2>5 DEF IInv
<1>5. QED
  BY <1>3, <1>4

\* A deal ends, and its hands are sorted or not.
LEMMA EndDealStep ==
  ASSUME IInv, NEW keephand \in BOOLEAN, NEW sides \in SUBSET {{0, 2}, {1, 3}},
         EndDeal(keephand, sides)
  PROVE  IInv'
<1>1. /\ pc = "dealt" /\ pc' = "ready"
      /\ UNCHANGED <<fullpack, stacked_pack, stacked_size, wanted, small_pack, small_size,
                     swapping, swapindex, i, j, nshuffles, group>>
      /\ \E players : curdeal' = sortHands(curdeal, players)
  BY DEF EndDeal, sortDeal, packs
<1>2. PICK players : curdeal' = sortHands(curdeal, players)
  BY <1>1
<1> DEFINE e == sortHands(curdeal, players)
<1>3. curdeal \in Packs
  BY DEF IInv, TypeOK
<1>4. SameCards(e, curdeal) /\ \A p \in Players : Hand(e, p) = Hand(curdeal, p)
  BY <1>3, SortedDeal
<1>5. curdeal' = e
  BY <1>2
<1> HIDE DEF e
<1>6. /\ curdeal' \in Packs /\ {curdeal'[s] : s \in Slot} = Cards
      /\ \A p \in Players : Hand(curdeal', p) = Hand(curdeal, p)
  <2>1. {curdeal[s] : s \in Slot} = Cards
    BY <1>1 DEF IInv, FullDeal
  <2> HIDE DEF Slot, Cards, Players
  <2>2. SameCards(curdeal', curdeal)
    BY <1>4, <1>5
  <2>3. curdeal' \in Packs /\ {curdeal'[s] : s \in Slot} = Cards
    BY <2>1, <2>2 DEF SameCards
  <2>4. QED
    BY <1>4, <1>5, <2>3
<1>7. TypeOK'
  BY <1>1, <1>6 DEF IInv, TypeOK, PC
<1>8. Predealing' /\ SetUp' /\ Merging' /\ FullDeal'
  BY <1>1, <1>6 DEF IInv, Predealing, SetUp, Merging, FullDeal
<1>9. PredealKept'
  BY <1>1, <1>6 DEF IInv, TypeOK, PredealKept
<1>10. Grouping'
  <2>1. HandsOf(curdeal') = HandsOf(curdeal)
    BY <1>6 DEF HandsOf
  <2>2. QED
    BY <1>1, <2>1 DEF IInv, Grouping, GroupSize
<1>11. QED
  BY <1>7, <1>8, <1>9, <1>10 DEF IInv

\* The merge: a free slot more is a hole more.
LEMMA OneMoreHole ==
  ASSUME NEW k \in 1..DeckSize
  PROVE  /\ Cardinality(Holes(k - 1)) \in Nat /\ Cardinality(Holes(k)) \in Nat
         /\ Cardinality(Holes(k)) = IF stacked_pack[k] = NoCard
                                    THEN Cardinality(Holes(k - 1)) + 1
                                    ELSE Cardinality(Holes(k - 1))
<1>1. DeckSize \in Nat /\ k \in Nat /\ 1..k = (1..k - 1) \cup {k} /\ k \notin 1..k - 1
  OBVIOUS
<1>2. Holes(k - 1) \in SUBSET (1..k - 1) /\ IsFiniteSet(1..k - 1)
  BY <1>1, FS_Interval DEF Holes
<1>3. IsFiniteSet(Holes(k - 1))
  BY <1>2, FS_Subset, Zenon
<1>4. Holes(k) = IF stacked_pack[k] = NoCard THEN Holes(k - 1) \cup {k} ELSE Holes(k - 1)
  <2> HIDE DEF NoCard
  <2>1. QED
    BY <1>1 DEF Holes
<1>5. k \notin Holes(k - 1)
  BY <1>1 DEF Holes
<1>6. Cardinality(Holes(k - 1)) \in Nat
  BY <1>3, FS_CardinalityType
<1>7. /\ IsFiniteSet(Holes(k - 1) \cup {k})
      /\ Cardinality(Holes(k - 1) \cup {k}) = Cardinality(Holes(k - 1)) + 1
  BY <1>3, <1>5, FS_AddElement
<1> HIDE DEF NoCard, DeckSize
<1>8. QED
  BY <1>4, <1>6, <1>7

\* There are as many holes as cards for them.
LEMMA AllHoles ==
  ASSUME IInv, pc \notin {"parse", "options", "exit"}
  PROVE  /\ Cardinality(Holes(DeckSize)) = small_size
         /\ \A k \in 0..DeckSize : Cardinality(Holes(k)) <= small_size
<1>1. Holes(DeckSize) = Slot \ Filled(stacked_pack)
  BY DEF Holes, Filled
<1>2. IsFiniteSet(Slot) /\ Cardinality(Slot) = DeckSize /\ DeckSize \in Nat
  BY FS_Interval
<1>3. Filled(stacked_pack) \in SUBSET Slot
  BY DEF Filled
<1>4. /\ Cardinality(Filled(stacked_pack)) = stacked_size
      /\ small_size + stacked_size = DeckSize /\ small_size \in Nat /\ stacked_size \in Nat
  BY DEF IInv, Predealing, SetUp, TypeOK
<1>5. Cardinality(Holes(DeckSize)) = DeckSize - stacked_size
  <2> HIDE DEF Slot
  <2>1. Cardinality(Slot \ Filled(stacked_pack)) = Cardinality(Slot) - Cardinality(Filled(stacked_pack))
    <3> DEFINE A == Filled(stacked_pack)
               B == Slot \ A
    <3>1. IsFiniteSet(A) /\ IsFiniteSet(B)
      <4>1. B \in SUBSET Slot /\ A \in SUBSET Slot
        BY <1>3
      <4> HIDE DEF A, B
      <4>2. QED
        BY <1>2, <4>1, FS_Subset, Zenon
    <3>2. A \cap B = {} /\ A \cup B = Slot
      BY <1>3
    <3> HIDE DEF A, B
    <3>3. Cardinality(A \cup B) = Cardinality(A) + Cardinality(B) - Cardinality(A \cap B)
      BY <3>1, FS_Union
    <3>4. Cardinality(A) \in Nat /\ Cardinality(B) \in Nat /\ Cardinality({}) = 0
      BY <3>1, FS_CardinalityType, FS_EmptySet
    <3>5. Cardinality(B) = Cardinality(Slot) - Cardinality(A)
      <4>1. Cardinality(A \cap B) = 0 /\ Cardinality(A \cup B) = Cardinality(Slot)
        BY <3>2, <3>4
      <4> DEFINE a == Cardinality(A)
                 b == Cardinality(B)
                 c == Cardinality(Slot)
      <4>2. a \in Nat /\ b \in Nat /\ c \in Nat
        BY <1>2, <3>4
      <4>3. c = a + b - 0
        BY <3>3, <4>1, Zenon
      <4> HIDE DEF a, b, c
      <4>4. b = c - a
        BY <4>2, <4>3
      <4>5. QED
        BY <4>4 DEF a, b, c
    <3>6. QED
      BY <3>5 DEF A, B
  <2>2. QED
    BY <1>1, <1>2, <1>4, <2>1
<1>6. ASSUME NEW k \in 0..DeckSize
      PROVE  Cardinality(Holes(k)) <= Cardinality(Holes(DeckSize))
  <2>1. Holes(k) \in SUBSET Holes(DeckSize)
    BY DEF Holes
  <2>2. IsFiniteSet(Holes(DeckSize))
    <3>1. Holes(DeckSize) \in SUBSET Slot
      BY <1>1
    <3> HIDE DEF Slot
    <3>2. QED
      BY <1>2, <3>1, FS_Subset, Zenon
  <2>3. QED
    BY <2>1, <2>2, FS_Subset, Zenon
<1>7. QED
  <2> HIDE DEF DeckSize
  <2>1. QED
    BY <1>2, <1>4, <1>5, <1>6

\* One round of the merge.
LEMMA MergeDealStep ==
  ASSUME IInv, MergeDeal
  PROVE  IInv'
<1> HIDE DEF Slot, Cards, NoCard, DeckSize, Players
<1>1. /\ pc \in {"merge", "merge_setup"}
      /\ UNCHANGED <<fullpack, stacked_pack, stacked_size, wanted, small_pack, small_size,
                     swapping, swapindex, nshuffles>>
      /\ IF curdeal[i] = NoCard
         THEN curdeal' = [curdeal EXCEPT ![i] = small_pack[j]] /\ j' = j + 1
         ELSE UNCHANGED <<curdeal, j>>
      /\ IF i < DeckSize
         THEN i' = i + 1 /\ UNCHANGED <<pc, group>>
         ELSE /\ UNCHANGED i
              /\ IF j' # small_size + 1
                 THEN pc' = "aborted" /\ UNCHANGED group
                 ELSE IF pc = "merge" THEN pc' = "dealt" /\ group' = <<HandsOf(curdeal')>>
                 ELSE pc' = "ready" /\ UNCHANGED group
  BY DEF MergeDeal, Made, packs
<1>2. /\ Slot = 1..DeckSize /\ DeckSize \in Nat /\ NoCard \notin Cards
  BY DEF Slot, Cards, NoCard, DeckSize
<1>3. /\ curdeal \in Packs /\ stacked_pack \in Packs /\ small_pack \in Packs
      /\ i \in 1..DeckSize /\ i \in Slot /\ j \in Nat /\ j >= 1 /\ j <= DeckSize + 1
      /\ small_size \in Nat /\ stacked_size \in Nat
      /\ stacked_size > 0 /\ small_size + stacked_size = DeckSize
      /\ \A s \in Slot : curdeal[s] = stacked_pack[s] \/ (stacked_pack[s] = NoCard /\ s < i)
      /\ \A s \in 1..i - 1 : curdeal[s] \in Cards
      /\ \A n \in 1..j - 1 : \E s \in 1..i - 1 : curdeal[s] = small_pack[n]
      /\ Cardinality(Holes(i - 1)) = j - 1
      /\ \A n \in 1..small_size : small_pack[n] \in Cards
      /\ \A c \in Cards : \/ \E n \in 1..small_size : small_pack[n] = c
                          \/ \E s \in Slot : stacked_pack[s] = c
  <2>1. /\ curdeal \in Packs /\ stacked_pack \in Packs /\ small_pack \in Packs
        /\ j \in 1..DeckSize + 1 /\ i \in 1..DeckSize + 1
        /\ small_size \in Nat /\ stacked_size \in Nat
    BY DEF IInv, TypeOK
  <2>2. /\ i <= DeckSize /\ stacked_size > 0
        /\ \A s \in Slot : curdeal[s] = stacked_pack[s] \/ (stacked_pack[s] = NoCard /\ s < i)
        /\ \A s \in 1..i - 1 : curdeal[s] \in Cards
        /\ \A n \in 1..j - 1 : \E s \in 1..i - 1 : curdeal[s] = small_pack[n]
        /\ Cardinality(Holes(i - 1)) = j - 1
    BY <1>1 DEF IInv, Merging
  <2>3. small_size + stacked_size = DeckSize
    BY <1>1 DEF IInv, SetUp
  <2>4. /\ \A n \in 1..small_size : small_pack[n] \in Cards
        /\ \A c \in Cards : \/ \E n \in 1..small_size : small_pack[n] = c
                            \/ \E s \in Slot : stacked_pack[s] = c
    BY <1>1, <2>2 DEF IInv, SetUp
  <2>5. i \in 1..DeckSize /\ i \in Slot /\ j \in Nat /\ j >= 1 /\ j <= DeckSize + 1
    BY <1>2, <2>1, <2>2
  <2>6. QED
    BY <2>1, <2>2, <2>3, <2>4, <2>5
<1>4. curdeal[i] = stacked_pack[i] /\ curdeal[i] \in Cards \cup {NoCard}
  BY <1>3 DEF Packs
<1>5. j' \in Nat /\ Cardinality(Holes(i)) = j' - 1 /\ j' - 1 <= small_size
      /\ j' = IF curdeal[i] = NoCard THEN j + 1 ELSE j
  <2>1. /\ Cardinality(Holes(i)) = IF stacked_pack[i] = NoCard THEN Cardinality(Holes(i - 1)) + 1
                                   ELSE Cardinality(Holes(i - 1))
    BY <1>3, OneMoreHole
  <2>2. j' = IF curdeal[i] = NoCard THEN j + 1 ELSE j
    BY <1>1
  <2>3. i \in 0..DeckSize /\ pc \notin {"parse", "options", "exit"}
    BY <1>1, <1>2, <1>3
  <2>4. Cardinality(Holes(i)) <= small_size
    BY <2>3, AllHoles
  <2>5. QED
    BY <1>3, <1>4, <2>1, <2>2, <2>4
<1>6. /\ curdeal' \in Packs /\ curdeal'[i] \in Cards
      /\ \A s \in Slot : s # i => curdeal'[s] = curdeal[s]
      /\ curdeal[i] # NoCard => curdeal'[i] = curdeal[i]
      /\ curdeal[i] = NoCard => curdeal'[i] = small_pack[j]
  <2>1. CASE curdeal[i] = NoCard
    <3>1. j \in 1..small_size
      BY <1>3, <1>5, <2>1
    <3>2. small_pack[j] \in Cards /\ curdeal' = [curdeal EXCEPT ![i] = small_pack[j]]
      BY <1>1, <1>3, <2>1, <3>1
    <3>3. QED
      BY <1>3, <2>1, <3>2 DEF Packs
  <2>2. CASE curdeal[i] # NoCard
    <3>1. curdeal' = curdeal /\ curdeal[i] \in Cards
      BY <1>1, <1>4, <2>2
    <3>2. QED
      BY <1>3, <2>2, <3>1
  <2>3. QED
    BY <2>1, <2>2
<1>7. /\ \A s \in Slot : curdeal'[s] = stacked_pack[s] \/ (stacked_pack[s] = NoCard /\ s < i + 1)
      /\ \A s \in 1..i : curdeal'[s] \in Cards
      /\ \A n \in 1..j' - 1 : \E s \in 1..i : curdeal'[s] = small_pack[n]
  <2>1. \A s \in Slot : s \in Int /\ (s < i => s < i + 1) /\ i < i + 1
    BY <1>2, <1>3
  <2>2. \A s \in Slot : curdeal'[s] = stacked_pack[s] \/ (stacked_pack[s] = NoCard /\ s < i + 1)
    BY <1>3, <1>4, <1>6, <2>1
  <2>3. \A s \in 1..i : s \in Slot /\ (s = i \/ s \in 1..i - 1)
    BY <1>2, <1>3
  <2>4. \A s \in 1..i - 1 : s \in 1..i /\ s # i /\ i \in 1..i
    BY <1>3
  <2>5. \A s \in 1..i : curdeal'[s] \in Cards
    BY <1>3, <1>6, <2>3
  <2>6. ASSUME NEW n \in 1..j' - 1
        PROVE  \E s \in 1..i : curdeal'[s] = small_pack[n]
    <3>1. CASE n \in 1..j - 1
      <4>1. PICK s \in 1..i - 1 : curdeal[s] = small_pack[n]
        BY <1>3, <3>1
      <4>2. s \in 1..i /\ curdeal'[s] = small_pack[n]
        BY <1>6, <2>3, <2>4, <4>1
      <4>3. QED
        BY <4>2
    <3>2. CASE n \notin 1..j - 1
      <4>1. n = j /\ curdeal[i] = NoCard /\ i \in 1..i
        BY <1>3, <1>5, <3>2
      <4>2. QED
        BY <1>6, <4>1
    <3>3. QED
      BY <3>1, <3>2
  <2>7. QED
    BY <2>2, <2>5, <2>6
<1>8. Predealing' /\ SetUp'
  BY <1>1, <1>3 DEF IInv, Predealing, SetUp
<1>9. CASE i < DeckSize
  <2>1. i' = i + 1 /\ pc' = pc /\ group' = group
    BY <1>1, <1>9
  <2>2. TypeOK'
    <3>1. i' \in 1..DeckSize + 1 /\ j' \in 1..DeckSize + 1
      BY <1>2, <1>3, <1>5, <1>9, <2>1
    <3>2. QED
      BY <1>1, <1>6, <2>1, <3>1 DEF IInv, TypeOK
  <2>3. Merging'
    <3>1. i' - 1 = i /\ i' <= DeckSize
      BY <1>2, <1>3, <1>9, <2>1
    <3>3. Holes(i - 1)' = Holes(i)
      BY <1>1, <3>1 DEF Holes
    <3>4. Cardinality(Holes(i - 1)') = j' - 1
      BY <1>5, <3>3
    <3>5. stacked_size' > 0 /\ stacked_pack' = stacked_pack /\ small_pack' = small_pack
      BY <1>1, <1>3
    <3>6. pc' \in {"merge", "merge_setup"}
      BY <1>1, <2>1
    <3>7. QED
      BY <1>7, <2>1, <3>1, <3>4, <3>5, <3>6 DEF Merging
  <2>4. FullDeal' /\ PredealKept'
    BY <1>1, <2>1 DEF FullDeal, PredealKept
  <2>5. Grouping'
    BY <1>1, <1>3, <2>1 DEF IInv, Grouping, GroupSize
  <2>6. QED
    BY <1>8, <2>2, <2>3, <2>4, <2>5 DEF IInv
<1>10. CASE ~(i < DeckSize)
  <2>1. i = DeckSize /\ i' = i
    BY <1>1, <1>2, <1>3, <1>10
  <2>2. j' = small_size + 1
    <3>1. Cardinality(Holes(DeckSize)) = small_size
      BY <1>1, AllHoles
    <3>2. QED
      BY <1>3, <1>5, <2>1, <3>1
  <2>3. {curdeal'[s] : s \in Slot} = Cards
    <3>1. \A s \in Slot : curdeal'[s] \in Cards
      BY <1>2, <1>7, <2>1
    <3>2. ASSUME NEW c \in Cards PROVE \E s \in Slot : curdeal'[s] = c
      <4>1. CASE \E n \in 1..small_size : small_pack[n] = c
        <5>1. 1..small_size = 1..j' - 1
          BY <1>3, <2>2
        <5>2. QED
          BY <1>2, <1>7, <2>1, <4>1, <5>1
      <4>2. CASE \E s \in Slot : stacked_pack[s] = c
        <5>1. PICK s \in Slot : stacked_pack[s] = c
          BY <4>2
        <5>2. c # NoCard
          BY <1>2
        <5>3. QED
          BY <1>7, <5>1, <5>2
      <4>3. QED
        BY <1>3, <4>1, <4>2
    <3>3. QED
      BY <3>1, <3>2
  <2>4. \A p \in Players : \A c \in Cards : c \in Hand(stacked_pack, p) => c \in Hand(curdeal', p)
    <3>1. SUFFICES ASSUME NEW p \in Players, NEW c \in Cards, c \in Hand(stacked_pack, p)
                   PROVE  c \in Hand(curdeal', p)
      OBVIOUS
    <3>2. PICK s \in SlotsOf(p) : stacked_pack[s] = c
      BY <3>1 DEF Hand
    <3>3. s \in Slot /\ c # NoCard
      BY <1>2, PlayersOfSlots
    <3>4. curdeal'[s] = c
      BY <1>7, <3>2, <3>3
    <3>5. QED
      BY <3>4 DEF Hand
  <2>5. \A w \in wanted : w[2] \in Hand(curdeal', w[1])
    <3>1. TAKE w \in wanted
    <3>2. w[1] \in Players /\ w[2] \in Cards /\ w[2] \in Hand(stacked_pack, w[1])
      BY <1>1 DEF IInv, TypeOK, Predealing
    <3>3. QED
      BY <2>4, <3>2
  <2>6. FullDeal' /\ PredealKept' /\ Merging'
    BY <1>1, <2>2, <2>1, <2>3, <2>5, <1>10 DEF FullDeal, PredealKept, Merging
  <2>7. i' \in 1..DeckSize + 1 /\ j' \in 1..DeckSize + 1
    BY <1>2, <1>3, <2>1, <2>2
  <2>8. CASE pc = "merge"
    <3>1. pc' = "dealt" /\ group' = <<HandsOf(curdeal')>>
      BY <1>1, <1>10, <2>2, <2>8
    <3>2. UNCHANGED <<swapping, stacked_size>> /\ ~(stacked_size = 0)
      BY <1>1, <1>3
    <3>3. Grouping' /\ group' \in Seq([Players -> SUBSET (Cards \cup {NoCard})])
      BY <1>6, <2>3, <3>1, <3>2, GroupBegun
    <3>4. TypeOK'
      BY <1>1, <1>6, <2>7, <3>1, <3>3 DEF IInv, TypeOK, PC
    <3>5. QED
      BY <1>8, <2>6, <3>3, <3>4 DEF IInv
  <2>9. CASE pc = "merge_setup"
    <3>1. pc' = "ready" /\ group' = group
      BY <1>1, <1>10, <2>2, <2>9
    <3>2. TypeOK'
      BY <1>1, <1>6, <2>7, <3>1 DEF IInv, TypeOK, PC
    <3>3. Grouping'
      BY <1>1, <1>3, <2>9, <3>1 DEF IInv, Grouping, GroupSize
    <3>4. QED
      BY <1>8, <2>6, <3>2, <3>3 DEF IInv
  <2>10. QED
    BY <1>1, <2>8, <2>9
<1>11. QED
  BY <1>9, <1>10

LEMMA NextInv == IInv /\ [Next]_vars => IInv'
<1> SUFFICES ASSUME IInv, [Next]_vars PROVE IInv'
  OBVIOUS
<1>1. CASE \E request \in Requests : Predeal(request[1], request[2])
  <2>1. PICK request \in Requests : Predeal(request[1], request[2])
    BY <1>1
  <2>2. request[1] \in Players /\ request[2] \in Cards
    OBVIOUS
  <2>3. QED
    BY <2>1, <2>2, PredealStep
<1>2. CASE PredealOptions
  BY <1>2, PredealOptionsStep
<1>3. CASE SetupDeal
  BY <1>3, SetupDealStep
<1>4. CASE DealCards
  BY <1>4, DealCardsStep
<1>5. CASE SwapHands
  BY <1>5, SwapHandsStep
<1>6. CASE ShuffleDeal
  BY <1>6, ShuffleDealStep
<1>7. CASE ShuffleSmall
  BY <1>7, ShuffleSmallStep
<1>8. CASE MergeDeal
  BY <1>8, MergeDealStep
<1>9. CASE \E keephand \in BOOLEAN, sides \in SUBSET {{0, 2}, {1, 3}} : EndDeal(keephand, sides)
  BY <1>9, EndDealStep
<1>10. CASE UNCHANGED vars
  <2> HIDE DEF Slot, Cards, Players, NoCard, DeckSize
  <2>1. TypeOK' /\ FullDeal' /\ PredealKept'
    BY <1>10 DEF vars, packs, IInv, TypeOK, FullDeal, PredealKept
  <2>4. Predealing' /\ SetUp'
    BY <1>10 DEF vars, packs, IInv, Predealing, SetUp, Filled
  <2>2. Merging' /\ Grouping'
    BY <1>10 DEF vars, packs, IInv, Merging, Holes, Grouping, GroupSize
  <2>3. QED
    BY <2>1, <2>2, <2>4 DEF IInv
<1>11. QED
  BY <1>1, <1>2, <1>3, <1>4, <1>5, <1>6, <1>7, <1>8, <1>9, <1>10 DEF Next

-----------------------------------------------------------------------------
(* The deals of a group.                                                   *)

\* No two turns give the same hands.
LEMMA TurnsDiffer ==
  ASSUME NEW h, h[1] # h[2], h[1] # h[3], h[2] # h[3], NEW m \in 1..6, NEW n \in 1..6, m # n
  PROVE  Turned(h, m) # Turned(h, n)
<1>1. \A k \in 1..6 : Turned(h, k)[1] = h[Turns[k][1]] /\ Turned(h, k)[2] = h[Turns[k][2]]
  BY DEF Turned
<1>2. \A a, b \in {1, 2, 3} : h[a] = h[b] => a = b
  OBVIOUS
<1>3. \A k \in 1..6 : Turns[k][1] \in {1, 2, 3} /\ Turns[k][2] \in {1, 2, 3}
  BY DEF Turns
<1>4. Turns[m][1] # Turns[n][1] \/ Turns[m][2] # Turns[n][2]
  BY DEF Turns
<1>5. SUFFICES ASSUME Turned(h, m) = Turned(h, n) PROVE FALSE
  OBVIOUS
<1>6. h[Turns[m][1]] = h[Turns[n][1]] /\ h[Turns[m][2]] = h[Turns[n][2]]
  <2>1. /\ Turned(h, m)[1] = h[Turns[m][1]] /\ Turned(h, m)[2] = h[Turns[m][2]]
        /\ Turned(h, n)[1] = h[Turns[n][1]] /\ Turned(h, n)[2] = h[Turns[n][2]]
    BY <1>1
  <2>2. QED
    BY <1>5, <2>1, Zenon
<1>7. Turns[m][1] = Turns[n][1] /\ Turns[m][2] = Turns[n][2]
  <2>1. /\ Turns[m][1] \in {1, 2, 3} /\ Turns[m][2] \in {1, 2, 3}
        /\ Turns[n][1] \in {1, 2, 3} /\ Turns[n][2] \in {1, 2, 3}
    BY <1>3
  <2>2. QED
    BY <1>2, <1>6, <2>1, Zenon
<1>8. QED
  BY <1>4, <1>7

\* The turns are the permutations of the players other than North.
LEMMA TurnsArePermutations ==
  /\ \A n \in 1..6 : \E perm \in Bijection(1..3, 1..3) : \A p \in 1..3 : perm[p] = Turns[n][p]
  /\ \A perm \in Bijection(1..3, 1..3) : \E n \in 1..6 : \A p \in 1..3 : perm[p] = Turns[n][p]
<1>1. 1..3 = {1, 2, 3}
  OBVIOUS
<1>2. \A n \in 1..6 : /\ \A p \in {1, 2, 3} : Turns[n][p] \in {1, 2, 3}
                      /\ \A p, q \in {1, 2, 3} : Turns[n][p] = Turns[n][q] => p = q
                      /\ \A q \in {1, 2, 3} : \E p \in {1, 2, 3} : Turns[n][p] = q
  BY DEF Turns
<1>3. ASSUME NEW n \in 1..6
      PROVE  \E perm \in Bijection(1..3, 1..3) : \A p \in 1..3 : perm[p] = Turns[n][p]
  <2> DEFINE f == [p \in 1..3 |-> Turns[n][p]]
  <2>1. f \in [1..3 -> 1..3] /\ \A p \in 1..3 : f[p] = Turns[n][p]
    BY <1>1, <1>2
  <2> HIDE DEF f
  <2>2. /\ \A p, q \in 1..3 : f[p] = f[q] => p = q
        /\ \A q \in 1..3 : \E p \in 1..3 : f[p] = q
    BY <1>1, <1>2, <2>1
  <2>3. f \in Bijection(1..3, 1..3)
    BY <2>1, <2>2 DEF Bijection, Injection, Surjection, IsInjective
  <2>4. QED
    BY <2>1, <2>3
<1>4. ASSUME NEW perm \in Bijection(1..3, 1..3)
      PROVE  \E n \in 1..6 : \A p \in 1..3 : perm[p] = Turns[n][p]
  <2>1. /\ perm[1] \in {1, 2, 3} /\ perm[2] \in {1, 2, 3} /\ perm[3] \in {1, 2, 3}
        /\ perm[1] # perm[2] /\ perm[1] # perm[3] /\ perm[2] # perm[3]
    BY <1>1 DEF Bijection, Injection, Surjection, IsInjective
  <2>2. \/ perm[1] = 1 /\ perm[2] = 2 /\ perm[3] = 3
        \/ perm[1] = 3 /\ perm[2] = 2 /\ perm[3] = 1
        \/ perm[1] = 3 /\ perm[2] = 1 /\ perm[3] = 2
        \/ perm[1] = 1 /\ perm[2] = 3 /\ perm[3] = 2
        \/ perm[1] = 2 /\ perm[2] = 3 /\ perm[3] = 1
        \/ perm[1] = 2 /\ perm[2] = 1 /\ perm[3] = 3
    BY <2>1
  <2>3. /\ Turns[1][1] = 1 /\ Turns[1][2] = 2 /\ Turns[1][3] = 3
        /\ Turns[2][1] = 3 /\ Turns[2][2] = 2 /\ Turns[2][3] = 1
        /\ Turns[3][1] = 3 /\ Turns[3][2] = 1 /\ Turns[3][3] = 2
        /\ Turns[4][1] = 1 /\ Turns[4][2] = 3 /\ Turns[4][3] = 2
        /\ Turns[5][1] = 2 /\ Turns[5][2] = 3 /\ Turns[5][3] = 1
        /\ Turns[6][1] = 2 /\ Turns[6][2] = 1 /\ Turns[6][3] = 3
    BY DEF Turns
  <2>4. \E n \in 1..6 : perm[1] = Turns[n][1] /\ perm[2] = Turns[n][2] /\ perm[3] = Turns[n][3]
    BY <2>2, <2>3
  <2>5. QED
    BY <1>1, <2>4
<1>5. QED
  BY <1>3, <1>4

\* Two turns exchange East and West, six give every arrangement.
LEMMA TurnsOfGroup ==
  ASSUME NEW h \in [Players -> SUBSET (Cards \cup {NoCard})], swapping \in {2, 3}
  PROVE  {Turned(h, n) : n \in 1..GroupSize} = Arrangements(h)
<1> HIDE DEF Cards, NoCard
<1>1. CASE swapping = 2
  <2>1. 1..GroupSize = {1, 2}
    BY <1>1 DEF GroupSize
  <2>2. Turned(h, 1) = h
    BY DEF Turned, Turns
  <2>3. Turned(h, 2) = [h EXCEPT ![1] = h[3], ![3] = h[1]]
    <3> DEFINE e == [h EXCEPT ![1] = h[3], ![3] = h[1]]
    <3>1. Turned(h, 2) = [p \in Players |-> IF p = 0 THEN h[0] ELSE h[Turns[2][p]]]
      BY DEF Turned
    <3>2. e = [p \in Players |-> e[p]]
      OBVIOUS
    <3>3. e[0] = h[0] /\ e[1] = h[3] /\ e[2] = h[2] /\ e[3] = h[1]
      OBVIOUS
    <3> HIDE DEF e
    <3>4. \A p \in Players : e[p] = IF p = 0 THEN h[0] ELSE h[Turns[2][p]]
      BY <3>3 DEF Turns
    <3>5. Turned(h, 2) = e
      BY <3>1, <3>2, <3>4
    <3>6. QED
      BY <3>5 DEF e
  <2>4. QED
    BY <1>1, <2>1, <2>2, <2>3 DEF Arrangements
<1>2. CASE swapping = 3
  <2> DEFINE Arranged(perm) == [p \in Players |-> IF p = 0 THEN h[0] ELSE h[perm[p]]]
  <2>1. 1..GroupSize = 1..6
    BY <1>2 DEF GroupSize
  <2>2. Arrangements(h) = {Arranged(perm) : perm \in Bijection(1..3, 1..3)}
    BY <1>2 DEF Arrangements
  <2>3. ASSUME NEW n \in 1..6, NEW perm, \A p \in 1..3 : perm[p] = Turns[n][p]
        PROVE  Turned(h, n) = Arranged(perm)
    <3>1. \A p \in Players : p # 0 => p \in 1..3
      OBVIOUS
    <3>2. \A p \in Players : (IF p = 0 THEN h[0] ELSE h[Turns[n][p]]) = (IF p = 0 THEN h[0] ELSE h[perm[p]])
      BY <2>3, <3>1
    <3>3. QED
      BY <3>2 DEF Turned
  <2> HIDE DEF Arranged
  <2>4. QED
    BY <2>1, <2>2, <2>3, TurnsArePermutations
<1>3. QED
  BY <1>1, <1>2

LEMMA GroupsAreRight == IInv => GroupIsComplete /\ NoRepeatsInGroup
<1> SUFFICES ASSUME IInv PROVE GroupIsComplete /\ NoRepeatsInGroup
  OBVIOUS
<1>1. /\ group \in Seq([Players -> SUBSET (Cards \cup {NoCard})]) /\ Len(group) \in Nat
      /\ DOMAIN group = 1..Len(group)
  BY DEF IInv, TypeOK
<1>2. GroupSize \in 1..6
  BY DEF GroupSize
<1>3. GroupIsComplete
  <2>1. SUFFICES ASSUME pc = "dealt", swapping \in {2, 3}, stacked_size = 0, swapindex = 0
                 PROVE  {group[n] : n \in DOMAIN group} = Arrangements(group[1])
    BY DEF GroupIsComplete
  <2>2. /\ group # <<>> /\ Len(group) = GroupSize
        /\ \A n \in 1..Len(group) : group[n] = Turned(group[1], n)
    <3>1. /\ group # <<>> /\ swapindex = (IF Len(group) = GroupSize THEN 0 ELSE Len(group))
          /\ \A n \in 1..Len(group) : group[n] = Turned(group[1], n)
      BY <2>1 DEF IInv, Grouping
    <3>2. Len(group) # 0
      <4>1. \A S : \A q \in Seq(S) : Len(q) = 0 => q = <<>>
        OBVIOUS
      <4> HIDE DEF Players, Cards, NoCard
      <4>2. QED
        BY <1>1, <3>1, <4>1, Zenon
    <3>3. QED
      BY <2>1, <3>1, <3>2
  <2>3. group[1] \in [Players -> SUBSET (Cards \cup {NoCard})]
    BY <1>1, <1>2, <2>2
  <2>4. {group[n] : n \in DOMAIN group} = {Turned(group[1], n) : n \in 1..GroupSize}
    BY <1>1, <2>2
  <2>5. QED
    BY <2>1, <2>3, <2>4, TurnsOfGroup
<1>4. NoRepeatsInGroup
  <2>1. SUFFICES ASSUME swapping \in {0, 2, 3}, NEW m \in DOMAIN group, NEW n \in DOMAIN group, m # n
                 PROVE  group[m] # group[n]
    BY DEF NoRepeatsInGroup
  <2>2. /\ m \in 1..6 /\ n \in 1..6 /\ group # <<>>
        /\ group[m] = Turned(group[1], m) /\ group[n] = Turned(group[1], n)
        /\ group[1][1] # group[1][2] /\ group[1][1] # group[1][3] /\ group[1][2] # group[1][3]
    <3>1. Len(group) <= GroupSize /\ group # <<>>
      BY <1>1, <2>1 DEF IInv, Grouping
    <3>2. m \in 1..6 /\ n \in 1..6
      BY <1>1, <1>2, <2>1, <3>1
    <3>3. QED
      BY <1>1, <2>1, <3>1, <3>2 DEF IInv, Grouping
  <2>3. QED
    BY <2>1, <2>2, TurnsDiffer
<1>5. QED
  BY <1>3, <1>4

-----------------------------------------------------------------------------
(* What holds of every run.                                                *)

\* The inductive invariant, of which the theorems below are parts and
\* consequences: no card is lost or doubled in predeal, setup_deal,
\* merge_deal, swap2, Shuffle or the sorting of hands.
THEOREM Invariant == Spec => []IInv
BY InitInv, NextInv, PTL DEF Spec

\* The packs stay packs, and the indices of Shuffle and merge_deal stay in them.
THEOREM TypeCorrect == Spec => []TypeOK
BY Invariant, PTL DEF IInv

\* Every deal that deal_cards hands to the condition has every card of the
\* pack once, and no assert of setup_deal or merge_deal fails, whatever is
\* predealt and whatever the random slots.
THEOREM DealsAreFull == Spec => []FullDeal
BY Invariant, PTL DEF IInv

\* Every deal gives every player the cards that predeal put in his hand.
THEOREM PredealtCardsKept == Spec => []PredealKept
BY Invariant, PTL DEF IInv

\* With -x2 and -x3 the deals between two shuffles are every arrangement of
\* the hands that the user guide promises.
THEOREM GroupsAreComplete == Spec => []GroupIsComplete
BY Invariant, GroupsAreRight, PTL

\* With -x2 and -x3 no deal of a group is made twice (deal_cards, swapindex).
THEOREM NoRepeats == Spec => []NoRepeatsInGroup
BY Invariant, GroupsAreRight, PTL
=============================================================================
