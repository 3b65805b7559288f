---------------------------- MODULE RunnerProofs ----------------------------
(***************************************************************************)
(* Proofs about the controlled runners, for every path and every setting   *)
(* of the grids and of the risk limits.                                    *)
(*                                                                         *)
(* What makes the bookkeeping right is that hard risk takes the ladder of  *)
(* a decision whole or leaves nothing of it: a long grid has no            *)
(* reduce-only part to fall back to, and an adaptive ladder fits the       *)
(* limits that the adaptive runner is made with.                           *)
(***************************************************************************)
EXTENDS RunnerProperties, FiniteSetTheorems, WellFoundedInduction, TLAPS

\* Induction over the natural numbers.
LEMMA EveryNumber ==
    ASSUME NEW T, 0 \in T, \A n \in Nat : n \in T => n + 1 \in T
    PROVE  \A n \in Nat : n \in T
<1> SUFFICES ASSUME Nat \ T # {} PROVE FALSE
  OBVIOUS
<1>1. PICK n \in Nat \ T : \A m \in Nat \ T : ~(<<m, n>> \in OpToRel(<, Nat))
  BY NatLessThanWellFounded, WFMin
<1>2. \A m \in Nat \ T : ~(m < n)
  BY <1>1 DEF OpToRel
<1>3. n # 0 /\ n - 1 \in Nat /\ n - 1 \in T
  BY <1>2
<1> QED
  BY <1>3

-----------------------------------------------------------------------------
(* The filter of the risk gate.                                            *)

\* One turn of the filter's loop.
Turn(p, allow, ladder, k, before) ==
    IF ladder[k] = NoOrder \/ ~Takes(p, allow, k, ladder[k], before) THEN before
    ELSE IF ladder[k].reduceOnly
         THEN [before EXCEPT !.capacity = @ - ladder[k].qty]
         ELSE [before EXCEPT !.projected = @ + SignedFill(k, ladder[k].qty)]

Turns(t, p, allow, ladder, k) ==
    IF k = 0 THEN [projected |-> p, capacity |-> Abs(p)]
    ELSE Turn(p, allow, ladder, k, t[k - 1])

\* The loop goes through the turns one after the other.
LEMMA TallyTurns ==
    ASSUME NEW p, NEW allow, NEW ladder
    PROVE  LET tally == Tally(p, allow, ladder)
           IN  /\ tally[0] = [projected |-> p, capacity |-> Abs(p)]
               /\ \A k \in 1..(2 * Levels) : tally[k] = Turn(p, allow, ladder, k, tally[k - 1])
<1> DEFINE By(t, k) == Turns(t, p, allow, ladder, k)
           Upto(t, n) == t = [k \in 0..n |-> By(t, k)]
           T == {n \in Nat : \E t : Upto(t, n)}
<1>1. 0 \in T
  <2> DEFINE t == [k \in 0..0 |-> [projected |-> p, capacity |-> Abs(p)]]
  <2>1. \A k \in 0..0 : k = 0
    OBVIOUS
  <2>2. Upto(t, 0)
    BY <2>1 DEF Turns
  <2> QED
    BY <2>2
<1>2. ASSUME NEW n \in Nat, n \in T PROVE n + 1 \in T
  <2>1. PICK t : Upto(t, n)
    BY <1>2
  <2> DEFINE u == [k \in 0..(n + 1) |-> By(t, k)]
  <2>2. ASSUME NEW k \in 0..(n + 1), k # 0 PROVE u[k - 1] = t[k - 1]
    <3> DEFINE j == k - 1
    <3>1. j \in 0..n /\ j \in 0..(n + 1)
      BY <2>2
    <3> HIDE DEF j, By
    <3>2. u[j] = t[j]
      BY <2>1, <3>1
    <3> QED
      BY <3>2 DEF j
  <2>3. \A k \in 0..(n + 1) : By(t, k) = By(u, k)
    <3> HIDE DEF u
    <3> QED
      BY <2>2 DEF Turns
  <2>4. Upto(u, n + 1)
    <3> HIDE DEF By
    <3> QED
      BY <2>3
  <2> HIDE DEF u, Upto
  <2> QED
    BY <2>4
<1>3. 2 * Levels \in Nat /\ 2 * Levels \in T
  <2> HIDE DEF T
  <2> QED
    BY <1>1, <1>2, EveryNumber, OrdersAssumption
<1> DEFINE tally == Tally(p, allow, ladder)
<1>4. tally = CHOOSE t : t = [k \in 0..(2 * Levels) |-> Turns(t, p, allow, ladder, k)]
  BY DEF Tally, Turns, Turn
<1>5. Upto(tally, 2 * Levels)
  <2> HIDE DEF tally
  <2> QED
    BY <1>3, <1>4
<1> HIDE DEF tally
<1>6. \A k \in 0..(2 * Levels) : tally[k] = By(tally, k)
  <2> HIDE DEF By
  <2> QED
    BY <1>5
<1>7. tally[0] = [projected |-> p, capacity |-> Abs(p)]
  BY <1>3, <1>6 DEF Turns
<1>8. ASSUME NEW k \in 1..(2 * Levels) PROVE tally[k] = Turn(p, allow, ladder, k, tally[k - 1])
  BY <1>3, <1>6 DEF Turns
<1> QED
  BY <1>7, <1>8 DEF tally

-----------------------------------------------------------------------------
(* The adaptive ladder fits the limits it is built for.                    *)

\* The lots of the first k slots, buys and sells.
BidUpTo(s, k) == Smaller(k, Levels) * s.bidLot
AskUpTo(s, k) == Larger(k - Levels, 0) * s.askLot

LEMMA LotsUpTo ==
    ASSUME NEW s, s.bidLot \in Nat, s.askLot \in Nat, NEW k \in 0..(2 * Levels)
    PROVE  /\ BidUpTo(s, k) \in Nat /\ AskUpTo(s, k) \in Nat
           /\ k <= Levels => AskUpTo(s, k) = 0
           /\ k < Levels => /\ BidUpTo(s, k) = k * s.bidLot
                            /\ BidUpTo(s, k + 1) = BidUpTo(s, k) + s.bidLot
                            /\ AskUpTo(s, k + 1) = 0
           /\ k >= Levels => /\ BidUpTo(s, k) = Levels * s.bidLot
                             /\ BidUpTo(s, k + 1) = BidUpTo(s, k)
                             /\ AskUpTo(s, k) = (k - Levels) * s.askLot
                             /\ AskUpTo(s, k + 1) = AskUpTo(s, k) + s.askLot
<1>1. Levels \in Nat /\ k \in Nat
  BY OrdersAssumption
<1>2. /\ Smaller(k, Levels) = IF k < Levels THEN k ELSE Levels
      /\ Smaller(k + 1, Levels) = IF k < Levels THEN k + 1 ELSE Levels
  BY <1>1 DEF Smaller
<1>3. /\ Larger(k - Levels, 0) = IF k <= Levels THEN 0 ELSE k - Levels
      /\ Larger(k + 1 - Levels, 0) = IF k < Levels THEN 0 ELSE (k - Levels) + 1
  BY <1>1 DEF Larger
<1>4. ASSUME NEW m \in Nat, NEW lot \in Nat
      PROVE  m * lot \in Nat /\ (m + 1) * lot = m * lot + lot /\ 0 * lot = 0
  BY <1>4
<1>5. CASE k < Levels
  <2>1. BidUpTo(s, k) = k * s.bidLot /\ BidUpTo(s, k + 1) = (k + 1) * s.bidLot
    BY <1>2, <1>5 DEF BidUpTo
  <2>2. AskUpTo(s, k) = 0 * s.askLot /\ AskUpTo(s, k + 1) = 0 * s.askLot
    BY <1>1, <1>3, <1>5 DEF AskUpTo
  <2> QED
    BY <1>1, <1>4, <1>5, <2>1, <2>2
<1>6. CASE ~(k < Levels)
  <2> DEFINE m == k - Levels
  <2>1. m \in Nat /\ (k = Levels => m = 0)
    BY <1>1, <1>6
  <2>2. BidUpTo(s, k) = Levels * s.bidLot /\ BidUpTo(s, k + 1) = Levels * s.bidLot
    BY <1>2, <1>6 DEF BidUpTo
  <2>3. AskUpTo(s, k) = m * s.askLot /\ AskUpTo(s, k + 1) = (m + 1) * s.askLot
    BY <1>1, <1>3, <1>6 DEF AskUpTo
  <2> HIDE DEF m
  <2>4. Levels * s.bidLot \in Nat /\ m * s.askLot \in Nat
    BY <1>1, <1>4, <2>1
  <2>5. (m + 1) * s.askLot = m * s.askLot + s.askLot /\ 0 * s.askLot = 0
    BY <1>4, <2>1
  <2> QED
    BY <1>1, <1>6, <2>1, <2>2, <2>3, <2>4, <2>5 DEF m
<1> QED
  BY <1>5, <1>6

\* What a placed slot of an adaptive ladder offers: at most a lot, and at most
\* what the slots before it leave of its side's capacity.
LEMMA SlotOffers ==
    ASSUME NEW s, s.bidLot \in Nat, s.askLot \in Nat, s.target \in Int, s.basis \in Int,
           NEW k \in 0..(2 * Levels), k + 1 \in Slots, BuildLadder(s)[k + 1] # NoOrder
    PROVE  LET order == BuildLadder(s)[k + 1]
           IN  /\ order.qty \in Nat \ {0}
               /\ k < Levels =>
                    /\ order.reduceOnly = BuyReduceOnly(s)
                    /\ order.qty <= s.bidLot
                    /\ order.qty <= BuyCapacity(s) - BidUpTo(s, k)
               /\ k >= Levels =>
                    /\ order.reduceOnly = SellReduceOnly(s)
                    /\ order.qty <= s.askLot
                    /\ order.qty <= SellCapacity(s) - AskUpTo(s, k)
<1> DEFINE slot == k + 1
           order == BuildLadder(s)[slot]
<1>1. SlotQuantity(s, slot) # 0
  BY DEF BuildLadder
<1>2. order = [price |-> s.price, qty |-> SlotQuantity(s, slot),
               reduceOnly |-> IF IsBuy(slot) THEN BuyReduceOnly(s) ELSE SellReduceOnly(s)]
  BY <1>1 DEF BuildLadder
<1>3. Levels \in Nat /\ k \in Nat /\ MinQuantity \in Nat \ {0} /\ MaxInventory \in Nat
  BY OrdersAssumption, AdaptiveGridAssumption
<1>4. BuyCapacity(s) \in Int /\ SellCapacity(s) \in Int
  BY <1>3 DEF BuyCapacity, SellCapacity, Larger, Smaller, BuyReduceOnly, SellReduceOnly
<1>5. ASSUME NEW lot \in Nat, NEW room \in Int, NEW qty, qty # 0,
             qty = IF Smaller(lot, room) >= MinQuantity THEN Smaller(lot, room) ELSE 0
      PROVE  qty \in Nat \ {0} /\ qty <= lot /\ qty <= room
  BY <1>3, <1>5 DEF Smaller
<1>6. CASE k < Levels
  <2> DEFINE room == BuyCapacity(s) - BidUpTo(s, k)
  <2>1. IsBuy(slot) /\ LevelOf(slot) - 1 = k /\ ~(k >= Levels)
    BY <1>3, <1>6 DEF IsBuy, LevelOf
  <2>2. room \in Int /\ room = BuyCapacity(s) - k * s.bidLot
    BY <1>4, <1>6, LotsUpTo
  <2>3. order.qty = IF Smaller(s.bidLot, room) >= MinQuantity THEN Smaller(s.bidLot, room) ELSE 0
    BY <1>2, <2>1, <2>2 DEF SlotQuantity, LevelQuantity
  <2>4. order.reduceOnly = BuyReduceOnly(s) /\ order.qty # 0
    BY <1>1, <1>2, <2>1
  <2> HIDE DEF order, room
  <2>5. order.qty \in Nat \ {0} /\ order.qty <= s.bidLot /\ order.qty <= room
    BY <1>5, <2>2, <2>3, <2>4
  <2> QED
    BY <2>1, <2>4, <2>5 DEF order, room
<1>7. CASE k >= Levels
  <2> DEFINE room == SellCapacity(s) - AskUpTo(s, k)
  <2>1. ~IsBuy(slot) /\ LevelOf(slot) - 1 = k - Levels /\ ~(k < Levels)
    BY <1>3, <1>7 DEF IsBuy, LevelOf
  <2>2. room \in Int /\ room = SellCapacity(s) - (k - Levels) * s.askLot
    BY <1>4, <1>7, LotsUpTo
  <2>3. order.qty = IF Smaller(s.askLot, room) >= MinQuantity THEN Smaller(s.askLot, room) ELSE 0
    BY <1>2, <2>1, <2>2 DEF SlotQuantity, LevelQuantity
  <2>4. order.reduceOnly = SellReduceOnly(s) /\ order.qty # 0
    BY <1>1, <1>2, <2>1
  <2> HIDE DEF order, room
  <2>5. order.qty \in Nat \ {0} /\ order.qty <= s.askLot /\ order.qty <= room
    BY <1>5, <2>2, <2>3, <2>4
  <2> QED
    BY <2>1, <2>4, <2>5 DEF order, room
<1> QED
  BY <1>3, <1>6, <1>7

\* A state of the adaptive grid for the position p, after the gate, and a risk
\* decision for that position under limits the ladder was made for.
Fits(p, s, allow) ==
    /\ p \in Int /\ s.bidLot \in Nat /\ s.askLot \in Nat
    /\ s.target \in Int /\ s.basis = p
    /\ (p > 0 => s.target >= 0) /\ (p < 0 => s.target <= 0)
    /\ Abs(p) <= MaxAbsPosition /\ MaxInventory <= MaxAbsPosition
    /\ allow \in BOOLEAN /\ (allow \/ Abs(p) = MaxAbsPosition)

\* The tally t after k slots: each side projects and uses up at most its lots.
Room(t, p, s, k) ==
    /\ t \in [projected : Int, capacity : Int]
    /\ t.projected <= p + (IF BuyReduceOnly(s) THEN 0 ELSE BidUpTo(s, k))
    /\ t.projected >= p - (IF SellReduceOnly(s) THEN 0 ELSE AskUpTo(s, k))
    /\ p < 0 => t.capacity >= -p - BidUpTo(s, k)
    /\ p >= 0 => t.capacity >= p - AskUpTo(s, k)

\* With that room the filter takes the next slot.
LEMMA RoomTakes ==
    ASSUME NEW p, NEW s, NEW allow, Fits(p, s, allow), NEW t, NEW k \in 0..(2 * Levels),
           Room(t, p, s, k), k + 1 \in Slots, BuildLadder(s)[k + 1] # NoOrder
    PROVE  Takes(p, allow, k + 1, BuildLadder(s)[k + 1], t)
<1> DEFINE order == BuildLadder(s)[k + 1]
           bids == BidUpTo(s, k)
           asks == AskUpTo(s, k)
<1>1. /\ Levels \in Nat /\ k \in Nat
      /\ MaxAbsPosition \in Nat \ {0} /\ MaxInventory \in Nat \ {0}
  BY OrdersAssumption, RiskLimitsAssumption, AdaptiveGridAssumption
<1>2. /\ p \in Int /\ s.bidLot \in Nat /\ s.askLot \in Nat
      /\ s.target \in Int /\ s.basis \in Int /\ s.basis = p
  BY DEF Fits
<1>3. /\ bids \in Nat /\ asks \in Nat
      /\ k <= Levels => asks = 0
  BY <1>2, LotsUpTo
<1>4. /\ order.qty \in Nat \ {0}
      /\ k < Levels => order.reduceOnly = BuyReduceOnly(s)
                       /\ order.qty <= BuyCapacity(s) - bids
      /\ k >= Levels => order.reduceOnly = SellReduceOnly(s)
                        /\ order.qty <= SellCapacity(s) - asks
  BY <1>2, SlotOffers
<1>5. t.projected \in Int /\ t.capacity \in Int
  BY DEF Room
<1>6. IsBuy(k + 1) <=> k < Levels
  BY <1>1 DEF IsBuy
<1> HIDE DEF order, bids, asks
<1>7. CASE k < Levels /\ s.target <= 0
  <2>1. order.reduceOnly = TRUE /\ order.qty <= Larger(-p, 0) - bids
    BY <1>2, <1>4, <1>7 DEF BuyReduceOnly, BuyCapacity
  <2>2. p < 0 /\ order.qty <= -p - bids
    BY <1>2, <1>3, <1>4, <2>1 DEF Larger
  <2>3. t.capacity >= -p - bids
    BY <2>2 DEF Room, bids
  <2> QED
    BY <1>2, <1>3, <1>4, <1>5, <1>6, <1>7, <2>1, <2>2, <2>3
       DEF Takes, ReducesPosition, order
<1>8. CASE k < Levels /\ s.target > 0
  <2>1. ~order.reduceOnly /\ order.qty <= MaxInventory - Larger(p, 0) - bids
    <3>1. ~BuyReduceOnly(s) /\ BuyCapacity(s) = MaxInventory - Larger(p, 0)
      BY <1>2, <1>8 DEF BuyReduceOnly, BuyCapacity
    <3> QED
      BY <1>4, <1>8, <3>1
  <2>2. p >= 0 /\ order.qty <= MaxInventory - p - bids
    BY <1>1, <1>2, <1>3, <1>4, <1>8, <2>1 DEF Larger, Fits
  <2>3. t.projected <= p + bids /\ t.projected >= p
    BY <1>2, <1>3, <1>5, <1>8 DEF Room, BuyReduceOnly, SellReduceOnly, bids
  <2>4. p < MaxAbsPosition /\ MaxInventory <= MaxAbsPosition /\ allow
    BY <1>1, <1>2, <1>3, <1>4, <2>2 DEF Fits, Abs
  <2>5. Abs(t.projected + order.qty) <= MaxAbsPosition
    BY <1>1, <1>2, <1>3, <1>4, <1>5, <2>2, <2>3, <2>4 DEF Abs
  <2> QED
    BY <1>6, <1>8, <2>1, <2>4, <2>5 DEF Takes, SignedFill, order
<1>9. CASE k >= Levels /\ s.target >= 0
  <2>1. order.reduceOnly = TRUE /\ order.qty <= Larger(p, 0) - asks
    BY <1>2, <1>4, <1>9 DEF SellReduceOnly, SellCapacity
  <2>2. p > 0 /\ order.qty <= p - asks
    BY <1>2, <1>3, <1>4, <2>1 DEF Larger
  <2>3. t.capacity >= p - asks
    BY <1>2, <2>2 DEF Room, asks
  <2>4. ~IsBuy(k + 1)
    BY <1>1, <1>6, <1>9
  <2> QED
    BY <1>2, <1>3, <1>4, <1>5, <2>1, <2>2, <2>3, <2>4 DEF Takes, ReducesPosition, order
<1>10. CASE k >= Levels /\ s.target < 0
  <2>1. ~order.reduceOnly /\ order.qty <= (MaxInventory + Smaller(p, 0)) - asks
    <3>1. ~SellReduceOnly(s) /\ SellCapacity(s) = MaxInventory + Smaller(p, 0)
      BY <1>2, <1>10 DEF SellReduceOnly, SellCapacity
    <3> QED
      BY <1>4, <1>10, <3>1
  <2>2. p <= 0 /\ order.qty <= MaxInventory + p - asks
    BY <1>1, <1>2, <1>3, <1>4, <1>10, <2>1 DEF Smaller, Fits
  <2>3. t.projected <= p /\ t.projected >= p - asks
    BY <1>2, <1>3, <1>5, <1>10 DEF Room, BuyReduceOnly, SellReduceOnly, asks
  <2>4. -p < MaxAbsPosition /\ MaxInventory <= MaxAbsPosition /\ allow
    BY <1>1, <1>2, <1>3, <1>4, <2>2 DEF Fits, Abs
  <2>5. Abs(t.projected + -order.qty) <= MaxAbsPosition
    BY <1>1, <1>2, <1>3, <1>4, <1>5, <2>2, <2>3, <2>4 DEF Abs
  <2>6. ~IsBuy(k + 1)
    BY <1>1, <1>6, <1>10
  <2> QED
    BY <2>1, <2>4, <2>5, <2>6 DEF Takes, SignedFill, order
<1> QED
  BY <1>1, <1>2, <1>7, <1>8, <1>9, <1>10

\* And its turn leaves room again.
LEMMA RoomGoesOn ==
    ASSUME NEW p, NEW s, NEW allow, Fits(p, s, allow), NEW t, NEW k \in 0..(2 * Levels),
           Room(t, p, s, k), k + 1 \in Slots
    PROVE  Room(Turn(p, allow, BuildLadder(s), k + 1, t), p, s, k + 1)
<1> DEFINE order == BuildLadder(s)[k + 1]
           bids(n) == BidUpTo(s, n)
           asks(n) == AskUpTo(s, n)
           u == Turn(p, allow, BuildLadder(s), k + 1, t)
<1>1. /\ Levels \in Nat /\ k \in Nat /\ k < 2 * Levels
  BY OrdersAssumption DEF Slots
<1>2. /\ p \in Int /\ s.bidLot \in Nat /\ s.askLot \in Nat
      /\ s.target \in Int /\ s.basis \in Int /\ s.basis = p
  BY DEF Fits
<1>3. /\ bids(k) \in Nat /\ asks(k) \in Nat
      /\ k < Levels => bids(k + 1) = bids(k) + s.bidLot /\ asks(k) = 0 /\ asks(k + 1) = 0
      /\ k >= Levels => bids(k + 1) = bids(k) /\ asks(k + 1) = asks(k) + s.askLot
  BY <1>1, <1>2, LotsUpTo
<1>4. /\ t \in [projected : Int, capacity : Int]
      /\ t.projected <= p + (IF s.target <= 0 THEN 0 ELSE bids(k))
      /\ t.projected >= p - (IF s.target >= 0 THEN 0 ELSE asks(k))
      /\ p < 0 => t.capacity >= -p - bids(k)
      /\ p >= 0 => t.capacity >= p - asks(k)
  BY DEF Room, BuyReduceOnly, SellReduceOnly
<1>5. SUFFICES /\ u \in [projected : Int, capacity : Int]
               /\ u.projected <= p + (IF s.target <= 0 THEN 0 ELSE bids(k + 1))
               /\ u.projected >= p - (IF s.target >= 0 THEN 0 ELSE asks(k + 1))
               /\ p < 0 => u.capacity >= -p - bids(k + 1)
               /\ p >= 0 => u.capacity >= p - asks(k + 1)
  BY DEF Room, BuyReduceOnly, SellReduceOnly
<1> HIDE DEF bids, asks
<1>6. CASE order = NoOrder
  <2>1. u = t
    BY <1>6 DEF Turn
  <2> HIDE DEF u
  <2> QED
    BY <1>1, <1>2, <1>3, <1>4, <2>1
<1>7. CASE order # NoOrder
  <2>1. Takes(p, allow, k + 1, order, t)
    BY <1>7, RoomTakes
  <2>2. /\ order.qty \in Nat \ {0}
        /\ k < Levels => (order.reduceOnly <=> s.target <= 0) /\ order.qty <= s.bidLot
                         /\ order.qty <= BuyCapacity(s) - bids(k)
        /\ k >= Levels => (order.reduceOnly <=> s.target >= 0) /\ order.qty <= s.askLot
                          /\ order.qty <= SellCapacity(s) - asks(k)
    BY <1>2, <1>7, SlotOffers DEF BuyReduceOnly, SellReduceOnly, bids, asks
  <2>3. u = IF order.reduceOnly THEN [t EXCEPT !.capacity = @ - order.qty]
            ELSE [t EXCEPT !.projected = @ + SignedFill(k + 1, order.qty)]
    BY <1>7, <2>1 DEF Turn
  <2>4. SignedFill(k + 1, order.qty) = IF k < Levels THEN order.qty ELSE -order.qty
    BY <1>1 DEF SignedFill, IsBuy
  <2> HIDE DEF u, order
  <2>5. CASE order.reduceOnly
    <3>1. u = [t EXCEPT !.capacity = @ - order.qty]
      BY <2>3, <2>5
    <3>2. /\ u \in [projected : Int, capacity : Int]
          /\ u.projected = t.projected /\ u.capacity = t.capacity - order.qty
      BY <1>4, <2>2, <3>1
    <3>3. p >= 0 => ~(k < Levels)
      <4>1. ASSUME p >= 0, k < Levels PROVE FALSE
        <5>1. s.target <= 0 /\ order.qty <= Larger(-p, 0) - bids(k)
          BY <1>2, <2>2, <2>5, <4>1 DEF BuyCapacity, BuyReduceOnly
        <5> QED
          BY <1>2, <1>3, <2>2, <4>1, <5>1 DEF Larger
      <4> QED
        BY <4>1
    <3>4. p < 0 => k < Levels
      <4>1. ASSUME p < 0, k >= Levels PROVE FALSE
        <5>1. s.target >= 0 /\ order.qty <= Larger(p, 0) - asks(k)
          BY <1>2, <2>2, <2>5, <4>1 DEF SellCapacity, SellReduceOnly
        <5> QED
          BY <1>2, <1>3, <2>2, <4>1, <5>1 DEF Larger
      <4> QED
        BY <1>1, <4>1
    <3> QED
      BY <1>1, <1>2, <1>3, <1>4, <2>2, <3>2, <3>3, <3>4
  <2>6. CASE ~order.reduceOnly
    <3>1. u = [t EXCEPT !.projected = @ + SignedFill(k + 1, order.qty)]
      BY <2>3, <2>6
    <3>2. SignedFill(k + 1, order.qty) \in Int
      BY <2>2, <2>4
    <3>3. /\ u \in [projected : Int, capacity : Int]
          /\ u.projected = t.projected + SignedFill(k + 1, order.qty)
          /\ u.capacity = t.capacity
      BY <1>4, <3>1, <3>2
    <3> QED
      BY <1>1, <1>2, <1>3, <1>4, <2>2, <2>4, <2>6, <3>3
  <2> QED
    BY <2>5, <2>6
<1> QED
  BY <1>6, <1>7

\* So the filter takes the ladder whole.
LEMMA WholeTaken ==
    ASSUME NEW p, NEW s, NEW allow, Fits(p, s, allow)
    PROVE  Taken(p, allow, BuildLadder(s)) = Placed(BuildLadder(s))
<1> DEFINE ladder == BuildLadder(s)
           tally == Tally(p, allow, ladder)
           T == {k \in Nat : k <= 2 * Levels => Room(tally[k], p, s, k)}
<1>1. /\ Levels \in Nat \ {0} /\ p \in Int /\ s.bidLot \in Nat /\ s.askLot \in Nat
  BY OrdersAssumption DEF Fits
<1>2. 0 \in T
  <2>1. tally[0] = [projected |-> p, capacity |-> Abs(p)]
    BY TallyTurns
  <2>2. BidUpTo(s, 0) \in Nat /\ AskUpTo(s, 0) \in Nat /\ AskUpTo(s, 0) = 0
    BY <1>1, LotsUpTo
  <2> HIDE DEF tally
  <2> QED
    BY <1>1, <2>1, <2>2 DEF Room, Abs
<1>3. ASSUME NEW k \in Nat, k \in T PROVE k + 1 \in T
  <2>1. SUFFICES ASSUME k + 1 <= 2 * Levels PROVE Room(tally[k + 1], p, s, k + 1)
    BY <1>3
  <2>2. k \in 0..(2 * Levels) /\ k + 1 \in 1..(2 * Levels) /\ (k + 1) - 1 = k
    BY <1>1, <2>1
  <2>3. Room(tally[k], p, s, k)
    BY <1>1, <1>3, <2>2
  <2>4. tally[k + 1] = Turn(p, allow, ladder, k + 1, tally[k])
    BY <2>2, TallyTurns
  <2> QED
    BY <2>2, <2>3, <2>4, RoomGoesOn DEF Slots
<1>4. \A k \in Nat : k \in T
  <2> HIDE DEF T
  <2> QED
    BY <1>2, <1>3, EveryNumber
<1>5. ASSUME NEW slot \in Placed(ladder)
      PROVE  Takes(p, allow, slot, ladder[slot], tally[slot - 1])
  <2> DEFINE k == slot - 1
  <2>1. /\ slot \in Slots /\ ladder[slot] # NoOrder
        /\ k \in 0..(2 * Levels) /\ k \in Nat /\ k <= 2 * Levels /\ k + 1 = slot
    BY <1>1 DEF Placed, Slots
  <2>2. Room(tally[k], p, s, k)
    BY <1>4, <2>1
  <2> HIDE DEF k, tally
  <2>3. Takes(p, allow, k + 1, ladder[k + 1], tally[k])
    BY <2>1, <2>2, RoomTakes
  <2> QED
    BY <2>1, <2>3 DEF k
<1> QED
  BY <1>5 DEF Taken

\* The skew leaves a side's lot a natural number.
LEMMA LotType ==
    ASSUME NEW error \in Nat
    PROVE  SkewedLot(error) \in Nat
<1> DEFINE least == Smaller(error, MaxInventory)
           full == 100 * MaxInventory
           cut == SideSkew * least
<1>1. /\ least \in Nat /\ least <= MaxInventory /\ full \in Nat \ {0}
      /\ SideSkew \in Nat /\ SideSkew <= 100 /\ OrderQuantity \in Nat
      /\ MaxInventory \in Nat
  BY AdaptiveGridAssumption DEF Smaller
<1> HIDE DEF least
<1>2. cut \in Nat /\ cut <= 100 * least /\ 100 * least <= full
  BY <1>1
<1> HIDE DEF cut, full
<1>3. full - cut \in Nat
  BY <1>1, <1>2
<1> DEFINE n == OrderQuantity * (full - cut)
<1>4. n \in Nat
  BY <1>1, <1>3
<1>5. SkewedLot(error) = n \div full
  BY DEF SkewedLot, n, full, cut, least
<1> HIDE DEF n
<1> QED
  BY <1>1, <1>4, <1>5

\* A state made for the snapshot's position fits the limits of its runner, if the
\* position does.
LEMMA MadeToFit ==
    ASSUME NEW p \in Int, NEW sig \in Signal, NEW g, NEW allow \in BOOLEAN,
           Abs(p) <= MaxAbsPosition, MaxInventory <= MaxAbsPosition,
           allow \/ Abs(p) = MaxAbsPosition
    PROVE  Fits(p, StateFor(p, sig, g), allow)
<1> DEFINE target == EnforceFlatBeforeReverse(p, sig.wanted)
<1>1. sig.wanted \in Int
  BY AdaptiveGridAssumption DEF Signal, Targets
<1>2. target \in Int /\ (p > 0 => target >= 0) /\ (p < 0 => target <= 0)
  BY <1>1 DEF EnforceFlatBeforeReverse
<1> HIDE DEF target
<1>3. Larger(p - target, 0) \in Nat /\ Larger(target - p, 0) \in Nat
  BY <1>2 DEF Larger
<1>4. BidLot(p, target) \in Nat /\ AskLot(p, target) \in Nat
  BY <1>3, LotType DEF BidLot, AskLot
<1> QED
  BY <1>2, <1>4 DEF Fits, StateFor, target

\* At the position limit such a state offers nothing but reductions.
LEMMA OnlyReductionsAtLimit ==
    ASSUME NEW p, NEW s, NEW allow, Fits(p, s, allow), Abs(p) = MaxAbsPosition,
           NEW slot \in Placed(BuildLadder(s))
    PROVE  BuildLadder(s)[slot].reduceOnly
<1> DEFINE order == BuildLadder(s)[slot]
<1>1. /\ Levels \in Nat \ {0}
      /\ MaxAbsPosition \in Nat \ {0} /\ MaxInventory \in Nat \ {0}
  BY OrdersAssumption, RiskLimitsAssumption, AdaptiveGridAssumption
<1>2. /\ p \in Int /\ s.bidLot \in Nat /\ s.askLot \in Nat
      /\ s.target \in Int /\ s.basis \in Int /\ s.basis = p
      /\ (p > 0 => s.target >= 0) /\ (p < 0 => s.target <= 0)
      /\ MaxInventory <= MaxAbsPosition
  BY DEF Fits
<1> DEFINE k == slot - 1
<1>3. k \in 0..(2 * Levels) /\ k + 1 = slot /\ slot \in Slots /\ order # NoOrder
  BY <1>1 DEF Placed, Slots
<1>4. BidUpTo(s, k) \in Nat /\ AskUpTo(s, k) \in Nat
  BY <1>2, <1>3, LotsUpTo
<1>5. /\ order.qty \in Nat \ {0}
      /\ k < Levels => order.reduceOnly = BuyReduceOnly(s)
                       /\ order.qty <= BuyCapacity(s) - BidUpTo(s, k)
      /\ k >= Levels => order.reduceOnly = SellReduceOnly(s)
                        /\ order.qty <= SellCapacity(s) - AskUpTo(s, k)
  <2> HIDE DEF k
  <2> QED
    BY <1>2, <1>3, SlotOffers
<1> HIDE DEF order
<1>6. CASE k < Levels
  <2>1. SUFFICES ASSUME ~BuyReduceOnly(s) PROVE FALSE
    BY <1>5, <1>6 DEF order
  <2>2. p > 0 /\ BuyCapacity(s) = MaxInventory - p
    BY <1>1, <1>2, <2>1 DEF BuyReduceOnly, BuyCapacity, Larger, Abs
  <2> QED
    BY <1>1, <1>2, <1>4, <1>5, <1>6, <2>2 DEF Abs
<1>7. CASE ~(k < Levels)
  <2>1. k >= Levels
    BY <1>1, <1>3, <1>7
  <2>2. SUFFICES ASSUME ~SellReduceOnly(s) PROVE FALSE
    BY <1>5, <2>1 DEF order
  <2>3. p < 0 /\ SellCapacity(s) = MaxInventory + p
    BY <1>1, <1>2, <2>2 DEF SellReduceOnly, SellCapacity, Smaller, Abs
  <2> QED
    BY <1>1, <1>2, <1>4, <1>5, <2>1, <2>3 DEF Abs
<1> QED
  BY <1>6, <1>7

-----------------------------------------------------------------------------
(* Hard risk takes a ladder whole or leaves nothing to fall back to.       *)

WholeOrNothing(orders, ladder) ==
    LET assessment == AssessDesiredLadder(Account, Observed(orders), ladder)
    IN  \/ AcceptsExactly(assessment, ladder)
        \/ ReduceOnlyPart(assessment.filtered) = EmptyLadder

\* A long grid has no reduce-only part.
LEMMA LongGridsWholeOrNothing ==
    ASSUME NEW s, NEW orders
    PROVE  WholeOrNothing(orders, BuildLongGrid(s))
<1> DEFINE ladder == BuildLongGrid(s)
           assessment == AssessDesiredLadder(Account, Observed(orders), ladder)
<1>1. PICK slots : assessment.filtered = Keep(ladder, slots)
  BY DEF AssessDesiredLadder, AssessLadder
<1>2. \A slot \in Slots : ladder[slot] # NoOrder => ladder[slot].reduceOnly = FALSE
  BY DEF BuildLongGrid
<1> HIDE DEF ladder, assessment
<1>3. ReduceOnlyPart(Keep(ladder, slots)) = EmptyLadder
  BY <1>2 DEF ReduceOnlyPart, Keep, EmptyLadder
<1> QED
  BY <1>1, <1>3 DEF WholeOrNothing, ladder, assessment

\* The ladder of the snapshot's state fits, or the position is a breach.
LEMMA AdaptiveWholeOrNothing ==
    ASSUME runner = "adaptive", runner \in Runners, NEW sig \in Signal, NEW g, NEW orders,
           snapshot.position \in Int
    PROVE  WholeOrNothing(orders, BuildLadder(StateFor(snapshot.position, sig, g)))
<1> DEFINE p == snapshot.position
           s == StateFor(p, sig, g)
           ladder == BuildLadder(s)
           view == [position |-> p, stale |-> FALSE, drawdown |-> FALSE,
                    openOrders |-> 0 + Cardinality(Placed(ladder))]
           assessment == AssessDesiredLadder(Account, Observed(orders), ladder)
           decision == EvaluateRisk(view)
<1>1. /\ Levels \in Nat /\ MaxAbsPosition \in Nat \ {0} /\ MaxOpenOrders \in Nat
      /\ MaxInventory <= MaxAbsPosition /\ 2 * Levels <= MaxOpenOrders
  BY OrdersAssumption, RiskLimitsAssumption, AdaptiveLimitsAssumption
<1>2. assessment = AssessLadder(view, ladder)
  BY DEF AssessDesiredLadder, Account, Observed
<1>3. Cardinality(Placed(ladder)) \in Nat /\ Cardinality(Placed(ladder)) <= 2 * Levels
  <2>1. IsFiniteSet(Slots) /\ Cardinality(Slots) = 2 * Levels
    BY <1>1, FS_Interval DEF Slots
  <2>2. Placed(ladder) \subseteq Slots
    BY DEF Placed
  <2> QED
    BY <2>1, <2>2, FS_Subset, FS_CardinalityType
<1>4. ladder = [slot \in Slots |-> ladder[slot]]
  BY DEF BuildLadder
<1> HIDE DEF ladder, assessment
<1>5. /\ decision.allowNewRisk \in BOOLEAN
      /\ decision.allowNewRisk <=> Abs(p) < MaxAbsPosition
      /\ decision.cancelAll <=> Abs(p) > MaxAbsPosition
      /\ decision.targetFlat <=> Abs(p) > MaxAbsPosition
  <2>1. /\ view.position = p /\ view.stale = FALSE /\ view.drawdown = FALSE
        /\ ~(view.openOrders > MaxOpenOrders)
    BY <1>1, <1>3
  <2> HIDE DEF view
  <2>2. decision.allowNewRisk \in BOOLEAN
    BY DEF EvaluateRisk
  <2>3. decision.allowNewRisk <=> Abs(p) < MaxAbsPosition
    BY <2>1 DEF EvaluateRisk
  <2>4. decision.cancelAll <=> Abs(p) > MaxAbsPosition
    BY <2>1 DEF EvaluateRisk
  <2>5. decision.targetFlat <=> Abs(p) > MaxAbsPosition
    BY <2>1 DEF EvaluateRisk
  <2> QED
    BY <2>2, <2>3, <2>4, <2>5
<1>6. Abs(p) \in Int
  BY DEF Abs
<1> HIDE DEF view, decision
<1>7. CASE Abs(p) > MaxAbsPosition
  <2>1. assessment.filtered = Keep(ladder, {})
    BY <1>2, <1>5, <1>7 DEF AssessLadder, decision
  <2>2. ReduceOnlyPart(Keep(ladder, {})) = EmptyLadder
    BY DEF ReduceOnlyPart, Keep, EmptyLadder
  <2> QED
    BY <2>1, <2>2 DEF WholeOrNothing, assessment, ladder
<1>8. CASE Abs(p) <= MaxAbsPosition
  <2>1. Fits(p, s, decision.allowNewRisk)
    <3>1. decision.allowNewRisk \in BOOLEAN
      BY <1>5
    <3>2. decision.allowNewRisk \/ Abs(p) = MaxAbsPosition
      BY <1>1, <1>5, <1>6, <1>8
    <3> QED
      BY <1>1, <1>8, <3>1, <3>2, MadeToFit
  <2>2. Taken(p, decision.allowNewRisk, ladder) = Placed(ladder)
    BY <2>1, WholeTaken DEF ladder
  <2>3. ~decision.cancelAll /\ ~decision.targetFlat
    BY <1>1, <1>5, <1>6, <1>8
  <2>4. /\ assessment.filtered = Keep(ladder, Placed(ladder))
        /\ assessment.allowNewRisk = decision.allowNewRisk
        /\ assessment.cancelAll = decision.cancelAll
        /\ assessment.targetFlat = decision.targetFlat
    <3>1. view.position = p
      BY DEF view
    <3>2. decision.allowNewRisk \in BOOLEAN
      BY <1>5
    <3> QED
      BY <1>2, <2>2, <2>3, <3>1, <3>2 DEF AssessLadder, decision
  <2>5. Keep(ladder, Placed(ladder)) = ladder
    BY <1>4 DEF Keep, Placed
  <2>6. CASE decision.allowNewRisk
    BY <2>4, <2>5, <2>6 DEF WholeOrNothing, AcceptsExactly, assessment, ladder
  <2>7. CASE ~decision.allowNewRisk
    <3>1. Abs(p) = MaxAbsPosition
      BY <1>1, <1>5, <1>6, <1>8, <2>7
    <3>2. \A slot \in Placed(ladder) : ladder[slot].reduceOnly
      BY <2>1, <3>1, OnlyReductionsAtLimit DEF ladder
    <3>3. ReduceOnlyPart(ladder) = ladder
      BY <1>4, <3>2 DEF ReduceOnlyPart, Placed
    <3>4. CASE Placed(ladder) = {}
      <4>1. ladder = EmptyLadder
        BY <1>4, <3>4 DEF Placed, EmptyLadder
      <4> QED
        BY <2>4, <2>5, <3>3, <4>1 DEF WholeOrNothing, assessment, ladder
    <3>5. CASE Placed(ladder) # {}
      BY <2>3, <2>4, <2>5, <3>3, <3>5 DEF WholeOrNothing, AcceptsExactly, assessment, ladder
    <3> QED
      BY <3>4, <3>5
  <2> QED
    BY <2>6, <2>7
<1> QED
  BY <1>1, <1>6, <1>7, <1>8

-----------------------------------------------------------------------------
(* Plans beside no orders, or beside all orders of a ladder.               *)

OrdersOf(gen, ladder) == {Submitted(gen, ladder, slot) : slot \in Placed(ladder)}

LEMMA OrdersOfLadder ==
    ASSUME NEW gen, NEW ladder
    PROVE  LET orders == OrdersOf(gen, ladder)
           IN  /\ IsFiniteSet(orders) /\ Cardinality(orders) \in Nat
               /\ Cardinality({Id(w) : w \in orders}) = Cardinality(orders)
               /\ {w \in orders : Id(w) \in {Id(v) : v \in orders}} = orders
               /\ orders = {} <=> Placed(ladder) = {}
               /\ {Id(w) : w \in orders} = {} <=> orders = {}
<1> DEFINE orders == OrdersOf(gen, ladder)
           ids == {Id(w) : w \in orders}
           f == [w \in orders |-> Id(w)]
<1>1. IsFiniteSet(Placed(ladder))
  <2>1. IsFiniteSet(Slots)
    BY FS_Interval, OrdersAssumption DEF Slots
  <2> QED
    BY <2>1, FS_Subset, Placed(ladder) \subseteq Slots DEF Placed
<1>2. IsFiniteSet(orders)
  <2> DEFINE g == [slot \in Placed(ladder) |-> Submitted(gen, ladder, slot)]
  <2>1. g \in Surjection(Placed(ladder), orders)
    BY DEF OrdersOf, Surjection
  <2> QED
    BY <1>1, <2>1, FS_Surjection
<1>3. f \in Surjection(orders, ids) /\ f \in Injection(orders, ids)
  <2>1. \A v, w \in orders : Id(v) = Id(w) => v = w
    BY DEF OrdersOf, Submitted, Id
  <2> HIDE DEF orders
  <2>2. f \in [orders -> ids]
    OBVIOUS
  <2>3. \A v, w \in orders : f[v] = f[w] => v = w
    BY <2>1
  <2>4. \A i \in ids : \E w \in orders : f[w] = i
    OBVIOUS
  <2> HIDE DEF f, ids
  <2> QED
    BY <2>2, <2>3, <2>4 DEF Injection, Surjection, IsInjective
<1>4. Cardinality(orders) \in Nat /\ Cardinality(ids) = Cardinality(orders)
  <2> HIDE DEF orders, ids, f
  <2> QED
    BY <1>2, <1>3, FS_Surjection, FS_CardinalityType
<1>5. orders = {} <=> Placed(ladder) = {}
  BY DEF OrdersOf
<1> QED
  BY <1>2, <1>4, <1>5

LEMMA PlanBesideNone ==
    ASSUME NEW gen, NEW ladder
    PROVE  Plan(gen, ladder, {}) = [cancel |-> {}, submit |-> Placed(ladder)]
BY DEF Plan, Conflicts, Missing

\* The whole ladder works already.
LEMMA PlanBesideItself ==
    ASSUME NEW gen, NEW ladder
    PROVE  Plan(gen, ladder, OrdersOf(gen, ladder)) = [cancel |-> {}, submit |-> {}]
<1> DEFINE orders == OrdersOf(gen, ladder)
<1>1. \A w \in orders : Matches(gen, ladder, w)
  BY DEF OrdersOf, Submitted, Matches, IsDesired, Placed
<1>2. ASSUME NEW slot \in Placed(ladder) PROVE \E w \in orders : Id(w) = <<gen, slot>>
  <2>1. Submitted(gen, ladder, slot) \in orders
    BY DEF OrdersOf
  <2>2. Id(Submitted(gen, ladder, slot)) = <<gen, slot>>
    BY DEF Submitted, Id
  <2> QED
    BY <2>1, <2>2
<1> HIDE DEF orders
<1>3. Conflicts(gen, ladder, orders) = {} /\ Missing(gen, ladder, orders) = {}
  BY <1>1, <1>2 DEF Conflicts, Missing
<1> QED
  BY <1>3 DEF Plan, orders

\* Everything that works has to go.
LEMMA PlanBesideOthers ==
    ASSUME NEW gen, NEW ladder, NEW old, NEW oldLadder, NEW orders,
           orders = OrdersOf(old, oldLadder), orders # {},
           gen # old \/ ladder = EmptyLadder
    PROVE  Plan(gen, ladder, orders) = [cancel |-> {Id(w) : w \in orders}, submit |-> {}]
<1>1. \A w \in orders : ~Matches(gen, ladder, w)
  <2> SUFFICES ASSUME NEW w \in orders PROVE ~Matches(gen, ladder, w)
    OBVIOUS
  <2>1. w.gen = old /\ w.slot \in Slots
    BY DEF OrdersOf, Submitted, Placed
  <2>2. gen = w.gen => ladder[w.slot] = NoOrder
    BY <2>1 DEF EmptyLadder
  <2> QED
    BY <2>2 DEF Matches, IsDesired
<1>2. Conflicts(gen, ladder, orders) = orders
  BY <1>1 DEF Conflicts
<1> QED
  BY <1>2 DEF Plan

-----------------------------------------------------------------------------
(* What one snapshot does to the bookkeeping.                              *)

\* A center's state is a record whatever it decides.
CenterState == [center : Int, spacing : Int, gen : Nat]

RunInv ==
    /\ runner \in Runners /\ snapshot \in Path(runner)
    /\ state.gen \in Nat /\ (runner = "s1" => state \in CenterState)
    /\ counts \in Counts
    /\ runner = "s2" /\ ~begun => working = {} /\ book = {}
    /\ BooksBalance /\ DeployedWhole

\* The snapshots are what their runner reads.
LEMMA SnapshotType ==
    ASSUME runner \in Runners, snapshot \in Path(runner)
    PROVE  /\ runner \in {"s1", "s2", "adaptive"}
           /\ snapshot.position \in Int
           /\ runner = "adaptive" => snapshot.signal \in Signal
           /\ runner # "adaptive" => snapshot.mid \in Nat
BY ControlledRunnerAssumption DEF Path

\* A decision keeps the state or starts the next generation, and hard risk takes
\* its ladder whole or leaves nothing of it.
LEMMA DecisionOffers ==
    ASSUME RunInv, NEW candidate, candidate = DecisionOf(snapshot, state), NEW orders
    PROVE  /\ candidate = state \/ candidate.gen = state.gen + 1
           /\ runner = "s1" => candidate \in CenterState
           /\ WholeOrNothing(orders, LadderOf(candidate))
<1>1. /\ runner \in Runners /\ runner \in {"s1", "s2", "adaptive"}
      /\ snapshot.position \in Int
      /\ runner = "adaptive" => snapshot.signal \in Signal
      /\ runner # "adaptive" => snapshot.mid \in Nat
  BY SnapshotType DEF RunInv
<1>2. CASE runner = "s1"
  <2>1. state \in CenterState
    BY <1>2 DEF RunInv
  <2>2. candidate = DecideCenter(snapshot, state)
    BY <1>2 DEF DecisionOf
  <2>3. candidate \in {state, CenterCandidate(snapshot, state)}
    BY <2>2 DEF DecideCenter, AdoptIfDifferent
  <2>4. ProposeCenter(snapshot.mid, state.center) \in Int
    <3> DEFINE step == (MaxStep * state.center) \div Whole
    <3>1. step \in Int
      BY <2>1, LongGridAssumption DEF CenterState
    <3> HIDE DEF step
    <3> QED
      BY <1>1, <1>2, <2>1, <3>1 DEF ProposeCenter, CenterState, step
  <2>5. /\ CenterCandidate(snapshot, state) \in CenterState
        /\ CenterCandidate(snapshot, state).gen = state.gen + 1
    <3>1. state.gen + 1 \in Nat
      BY <2>1 DEF CenterState
    <3> DEFINE moved == ProposeCenter(snapshot.mid, state.center)
               gen == state.gen + 1
    <3>3. CenterCandidate(snapshot, state) = [state EXCEPT !.center = moved, !.gen = gen]
      BY DEF CenterCandidate
    <3> HIDE DEF moved, gen
    <3>4. moved \in Int /\ gen \in Nat
      BY <2>4, <3>1 DEF moved, gen
    <3>5. CenterCandidate(snapshot, state) \in CenterState /\ CenterCandidate(snapshot, state).gen = gen
      <4>1. /\ [state EXCEPT !.center = moved, !.gen = gen] \in CenterState
            /\ [state EXCEPT !.center = moved, !.gen = gen].gen = gen
        BY <2>1, <3>4 DEF CenterState
      <4> QED
        BY <3>3, <4>1, Zenon
    <3> QED
      BY <3>5 DEF gen
  <2>6. LadderOf(candidate) = BuildLongGrid(candidate)
    BY <1>2 DEF LadderOf
  <2> QED
    BY <2>1, <2>3, <2>5, <2>6, LongGridsWholeOrNothing
<1>3. CASE runner = "s2"
  <2>1. candidate = DecideGrid(snapshot, state)
    BY <1>3 DEF DecisionOf
  <2>2. candidate \in {state, GridCandidate(snapshot, state)}
    BY <2>1 DEF DecideGrid, AdoptIfDifferent
  <2>3. GridCandidate(snapshot, state).gen = state.gen + 1
    BY DEF GridCandidate
  <2>4. LadderOf(candidate) = BuildLongGrid(candidate)
    BY <1>3 DEF LadderOf
  <2> QED
    BY <1>3, <2>2, <2>3, <2>4, LongGridsWholeOrNothing
<1>4. CASE runner = "adaptive"
  <2> DEFINE fresh == StateFor(snapshot.position, snapshot.signal, state.gen + 1)
  <2>1. candidate = Decide(snapshot.position, snapshot.signal, state)
    BY <1>4 DEF DecisionOf
  <2>2. candidate \in {state, fresh} /\ BuildLadder(candidate) = BuildLadder(fresh)
    BY <2>1 DEF Decide
  <2>3. fresh.gen = state.gen + 1
    BY DEF StateFor
  <2>4. LadderOf(candidate) = BuildLadder(fresh)
    BY <1>4, <2>2 DEF LadderOf
  <2> QED
    BY <1>1, <1>4, <2>2, <2>3, <2>4, AdaptiveWholeOrNothing
<1> QED
  BY <1>1, <1>2, <1>3, <1>4

\* The first cycle of a decision, and its continuation with no orders left: both
\* desire the candidate's ladder and commit it, or desire nothing and keep the
\* state.
LEMMA DecisionOutcome ==
    ASSUME RunInv, NEW d \in Decisions
    PROVE  LET ladder == LadderOf(d.candidate)
               r == d.result
           IN  /\ d.candidate = state \/ d.candidate.gen = state.gen + 1
               /\ d.candidate.gen \in Nat
               /\ runner = "s1" => d.candidate \in CenterState
               /\ r.plan = Plan(d.candidate.gen, r.desired, working)
               /\ \/ /\ r.accepted /\ r.desired = ladder
                     /\ r.next = IF r.plan.cancel = {} THEN d.candidate ELSE state
                  \/ ~r.accepted /\ r.desired = EmptyLadder /\ r.next = state
               /\ \A c \in Continuations(d) :
                    /\ c.desired = r.desired
                    /\ c.plan = Plan(d.candidate.gen, r.desired, {})
                    /\ c.next = IF r.accepted THEN d.candidate ELSE state
<1> DEFINE candidate == DecisionOf(snapshot, state)
           ladder == LadderOf(candidate)
           assessment(orders, l) == AssessDesiredLadder(Account, Observed(orders), l)
           r == d.result
<1>1. /\ d.candidate = candidate
      /\ r = Cycle(Account, Observed(working), state, candidate, ladder, TRUE)
  <2>1. d = DecisionFrom(candidate, ladder)
    BY DEF Decisions
  <2> HIDE DEF candidate, ladder
  <2> QED
    BY <2>1 DEF DecisionFrom, TransitionPolicy
<1>2. /\ candidate = state \/ candidate.gen = state.gen + 1
      /\ runner = "s1" => candidate \in CenterState
      /\ WholeOrNothing(working, ladder)
  <2> HIDE DEF candidate
  <2> QED
    BY DecisionOffers DEF candidate
<1>3. candidate.gen \in Nat
  BY <1>2 DEF RunInv
<1>4. \A l : assessment({}, l) = assessment(working, l)
  BY DEF AssessDesiredLadder, Observed
<1>5. /\ Observed(working).working = working /\ Observed({}).working = {}
  BY DEF Observed
<1> HIDE DEF candidate, ladder, r
<1>6. /\ r.accepted <=> AcceptsExactly(assessment(working, ladder), ladder)
      /\ r.desired = IF r.accepted THEN ladder
                     ELSE ReduceOnlyPart(assessment(working, ladder).filtered)
      /\ r.plan = Plan(candidate.gen, r.desired, working)
      /\ r.next = IF r.accepted /\ r.plan.cancel = {} THEN candidate ELSE state
  BY <1>1, <1>5 DEF Cycle
<1>7. ASSUME NEW c \in Continuations(d)
      PROVE  /\ c.accepted <=> (r.accepted /\ AcceptsExactly(assessment({}, r.desired), r.desired))
             /\ c.desired = IF c.accepted THEN r.desired
                            ELSE ReduceOnlyPart(assessment({}, r.desired).filtered)
             /\ c.plan = Plan(candidate.gen, c.desired, {})
             /\ c.next = IF c.accepted /\ c.plan.cancel = {} THEN candidate ELSE state
  <2>1. c = Cycle(Account, Observed({}), state, candidate, r.desired, r.accepted)
    BY <1>1 DEF Continuations, ContinuePolicy, r
  <2> QED
    BY <1>5, <2>1 DEF Cycle
<1>8. ReduceOnlyPart(assessment({}, EmptyLadder).filtered) = EmptyLadder
  <2>1. PICK slots : assessment({}, EmptyLadder).filtered = Keep(EmptyLadder, slots)
    BY DEF AssessDesiredLadder, AssessLadder
  <2>2. ReduceOnlyPart(Keep(EmptyLadder, slots)) = EmptyLadder
    BY DEF ReduceOnlyPart, Keep, EmptyLadder
  <2> QED
    BY <2>1, <2>2
<1>9. \A l : Plan(candidate.gen, l, {}).cancel = {}
  BY PlanBesideNone
<1> HIDE DEF assessment
<1>10. CASE r.accepted
  <2>1. r.desired = ladder
    BY <1>6, <1>10
  <2>2. \A c \in Continuations(d) : c.accepted
    BY <1>4, <1>6, <1>7, <1>10, <2>1
  <2>3. \A c \in Continuations(d) :
            c.desired = r.desired /\ c.plan = Plan(candidate.gen, r.desired, {}) /\ c.next = candidate
    BY <1>7, <1>9, <2>2
  <2> QED
    BY <1>1, <1>2, <1>3, <1>6, <1>10, <2>1, <2>3 DEF r, ladder
<1>11. CASE ~r.accepted
  <2>1. r.desired = EmptyLadder
    BY <1>2, <1>6, <1>11 DEF WholeOrNothing, assessment
  <2>2. \A c \in Continuations(d) : ~c.accepted
    BY <1>7, <1>11
  <2>3. \A c \in Continuations(d) :
            c.desired = r.desired /\ c.plan = Plan(candidate.gen, r.desired, {}) /\ c.next = state
    BY <1>7, <1>8, <2>1, <2>2
  <2>4. r.next = state
    BY <1>6, <1>11
  <2> QED
    BY <1>1, <1>2, <1>3, <1>6, <1>11, <2>1, <2>3, <2>4 DEF r, ladder
<1> QED
  BY <1>10, <1>11

\* The ways a snapshot can leave the books.  Wholly(s) are the orders of the
\* state s, as WholeLadder says.
Wholly(s) == OrdersOf(s.gen, LadderOf(s))

LEMMA WhollyFinite ==
    ASSUME NEW s
    PROVE  /\ Cardinality(Wholly(s)) \in Nat
           /\ Cardinality({Id(w) : w \in Wholly(s)}) = Cardinality(Wholly(s))
<1> DEFINE ladder == LadderOf(s)
<1> HIDE DEF ladder
<1>1. /\ Cardinality(OrdersOf(s.gen, ladder)) \in Nat
      /\ Cardinality({Id(w) : w \in OrdersOf(s.gen, ladder)}) = Cardinality(OrdersOf(s.gen, ladder))
  BY OrdersOfLadder
<1> QED
  BY <1>1 DEF Wholly, ladder

LEMMA NothingCounts == Cardinality({}) = 0
BY FS_EmptySet

Keeps ==
    /\ UNCHANGED <<state, working, book>>
    /\ counts'.submit = counts.submit /\ counts'.cancel = counts.cancel
Enters(next) ==
    /\ working = {} /\ state' = next /\ working' = Wholly(next)
    /\ book' = book \cup Wholly(next)
    /\ counts'.submit = counts.submit + Cardinality(Wholly(next))
    /\ counts'.cancel = counts.cancel
Swaps(next) ==
    /\ state' = next /\ working' = Wholly(next)
    /\ book' = (book \ working) \cup Wholly(next)
    /\ counts'.submit = counts.submit + Cardinality(Wholly(next))
    /\ counts'.cancel = counts.cancel + Cardinality(working)
Leaves ==
    /\ state' = state /\ working' = {}
    /\ book' = book \ working
    /\ counts'.submit = counts.submit
    /\ counts'.cancel = counts.cancel + Cardinality(working)
\* The s2 runner counts the unsubmitted ladder of its first state as working.
Presumes ==
    /\ runner = "s2" /\ state' = state /\ working' = Wholly(state)

Books(next) == Keeps \/ Enters(next) \/ Swaps(next) \/ Leaves \/ Presumes

\* A candidate the books may go to.
Follows(next) ==
    next.gen \in Nat /\ (runner = "s1" => next \in CenterState)

LEMMA StepBooks ==
    ASSUME RunInv, NEW d \in Decisions, BeginS2(d) \/ Hold(d) \/ Replace(d) \/ Retreat(d)
    PROVE  Follows(d.candidate) /\ Books(d.candidate) /\ counts' \in Counts /\ begun' \in {begun, TRUE}
<1> DEFINE c == d.candidate
           ladder == LadderOf(c)
           r == d.result
<1>1. /\ c = state \/ c.gen = state.gen + 1
      /\ c.gen \in Nat
      /\ runner = "s1" => c \in CenterState
      /\ r.plan = Plan(c.gen, r.desired, working)
      /\ \/ /\ r.accepted /\ r.desired = ladder
            /\ r.next = IF r.plan.cancel = {} THEN c ELSE state
         \/ ~r.accepted /\ r.desired = EmptyLadder /\ r.next = state
      /\ \A q \in Continuations(d) :
            /\ q.desired = r.desired
            /\ q.plan = Plan(c.gen, r.desired, {})
            /\ q.next = IF r.accepted THEN c ELSE state
  BY DecisionOutcome
<1>2. working = {} \/ working = Wholly(state)
  BY DEF RunInv, DeployedWhole, WholeLadder, Wholly, OrdersOf
<1>3. /\ Placed(EmptyLadder) = {} /\ OrdersOf(c.gen, EmptyLadder) = {}
  BY DEF Placed, EmptyLadder, OrdersOf
<1>4. /\ Cardinality({}) = 0
      /\ Cardinality(Wholly(c)) \in Nat /\ Cardinality(working) \in Nat
  <2>1. \A s : Cardinality(Wholly(s)) \in Nat
    BY WhollyFinite, Zenon
  <2>2. Cardinality({}) \in Nat
    BY NothingCounts
  <2> QED
    BY <1>2, <2>1, <2>2, NothingCounts, Zenon
<1>5. /\ working = {} =>
            r.plan.cancel = {} /\ r.plan.submit = Placed(r.desired)
      /\ working = Wholly(state) /\ r.accepted /\ c = state =>
            r.plan.cancel = {} /\ r.plan.submit = {}
      /\ working = Wholly(state) /\ working # {} /\ ~(r.accepted /\ c = state) =>
            r.plan.cancel = {Id(w) : w \in working} /\ r.plan.submit = {}
  <2>1. ASSUME working = {} PROVE r.plan = [cancel |-> {}, submit |-> Placed(r.desired)]
    BY <1>1, <2>1, PlanBesideNone
  <2>2. ASSUME working = Wholly(state), r.accepted, c = state
        PROVE  r.plan = [cancel |-> {}, submit |-> {}]
    BY <1>1, <2>2, PlanBesideItself DEF Wholly
  <2>3. ASSUME working = Wholly(state), working # {}, ~(r.accepted /\ c = state)
        PROVE  r.plan = [cancel |-> {Id(w) : w \in working}, submit |-> {}]
    <3>1. c.gen # state.gen \/ r.desired = EmptyLadder
      BY <1>1, <2>3 DEF RunInv
    <3>2. working = OrdersOf(state.gen, LadderOf(state))
      BY <2>3 DEF Wholly
    <3>3. r.plan = Plan(c.gen, r.desired, working)
      BY <1>1
    <3>4. Plan(c.gen, r.desired, working) = [cancel |-> {Id(w) : w \in working}, submit |-> {}]
      <4> DEFINE ladderOfState == LadderOf(state)
                 gen == c.gen
                 desired == r.desired
                 old == state.gen
      <4>1. gen # old \/ desired = EmptyLadder
        BY <3>1
      <4>2. working = OrdersOf(old, ladderOfState) /\ working # {}
        BY <2>3, <3>2
      <4> HIDE DEF ladderOfState, gen, desired, old
      <4>3. Plan(gen, desired, working) = [cancel |-> {Id(w) : w \in working}, submit |-> {}]
        BY <4>1, <4>2, PlanBesideOthers
      <4> QED
        BY <4>3 DEF gen, desired
    <3> QED
      BY <3>3, <3>4
  <2> HIDE DEF r, c
  <2> QED
    BY <2>1, <2>2, <2>3
<1>6. working # {} => {Id(w) : w \in working} # {}
  OBVIOUS
<1>7. SubmittedBy(d, r) = {Submitted(c.gen, r.desired, s) : s \in r.plan.submit}
  BY DEF SubmittedBy
<1>8. \A q \in Continuations(d) : SubmittedBy(d, q) = OrdersOf(c.gen, r.desired)
  <2> SUFFICES ASSUME NEW q \in Continuations(d)
               PROVE  SubmittedBy(d, q) = OrdersOf(c.gen, r.desired)
    OBVIOUS
  <2>1. q.desired = r.desired /\ q.plan.submit = Placed(r.desired)
    BY <1>1, PlanBesideNone
  <2> HIDE DEF r
  <2> QED
    BY <2>1 DEF SubmittedBy, OrdersOf
<1>9. r.plan.cancel = {Id(w) : w \in working} =>
        /\ Cancelled(d) = working
        /\ Cardinality(r.plan.cancel) = Cardinality(working)
  <2>1. ASSUME r.plan.cancel = {Id(w) : w \in working} PROVE Cancelled(d) = working
    BY <2>1 DEF Cancelled
  <2>2. Cardinality({Id(w) : w \in working}) = Cardinality(working)
    BY <1>2, <1>4, NothingCounts, WhollyFinite
  <2> QED
    BY <2>1, <2>2
<1>10. ASSUME NEW submitted, NEW next, Count(d, submitted, next),
              Cardinality(submitted) \in Nat, Cardinality(r.plan.cancel) \in Nat
       PROVE  /\ counts' \in Counts
              /\ counts'.submit = counts.submit + Cardinality(submitted)
              /\ counts'.cancel = counts.cancel + Cardinality(r.plan.cancel)
  <2>1. counts \in Counts
    BY DEF RunInv
  <2>2. Reset(next, Cardinality(r.plan.cancel) > 0) \in Nat
    BY DEF Reset
  <2>3. counts' = [submit |-> counts.submit + Cardinality(submitted),
                   cancel |-> counts.cancel + Cardinality(r.plan.cancel),
                   resets |-> counts.resets + Reset(next, Cardinality(r.plan.cancel) > 0)]
    BY <1>10 DEF Count
  <2> QED
    BY <1>10, <2>1, <2>2, <2>3 DEF Counts
<1>11. begun' \in {begun, TRUE} /\ Follows(c)
  BY <1>1 DEF BeginS2, Hold, Replace, Retreat, Follows
<1> SUFFICES Books(c) /\ counts' \in Counts
  BY <1>11
<1>12. CASE working = {}
  <2> DEFINE submitted == SubmittedBy(d, r)
  <2>1. r.plan.cancel = {} /\ submitted = OrdersOf(c.gen, r.desired)
    <3>1. r.plan.cancel = {} /\ r.plan.submit = Placed(r.desired)
      BY <1>5, <1>12
    <3> HIDE DEF r, c
    <3> QED
      BY <1>7, <3>1 DEF OrdersOf
  <2>2. Hold(d) \/ BeginS2(d)
    BY <2>1 DEF Replace, Retreat
  <2>3. /\ r.accepted => submitted = Wholly(c) /\ r.next = c
        /\ ~r.accepted => submitted = {} /\ r.next = state
    <3>1. r.accepted => r.desired = ladder /\ r.next = c
      BY <1>1, <2>1
    <3>2. ~r.accepted => r.desired = EmptyLadder /\ r.next = state
      BY <1>1
    <3> HIDE DEF r, submitted
    <3> QED
      BY <1>3, <2>1, <3>1, <3>2 DEF Wholly
  <2>4. Cardinality(submitted) \in Nat /\ Cardinality(r.plan.cancel) = 0
    BY <1>4, <2>1, <2>3
  <2>5. ASSUME Hold(d) PROVE Books(c) /\ counts' \in Counts
    <3>1. /\ working' = IF submitted # {} THEN submitted ELSE working
          /\ book' = book \cup submitted
          /\ Count(d, submitted, r.next)
          /\ state' = r.next
      BY <2>5 DEF Hold
    <3> HIDE DEF submitted, r, c
    <3>2. /\ counts' \in Counts
          /\ counts'.submit = counts.submit + Cardinality(submitted)
          /\ counts'.cancel = counts.cancel + 0
      BY <1>4, <1>10, <2>4, <3>1
    <3>3. working' = submitted
      BY <1>12, <3>1
    <3>4. counts.submit \in Nat /\ counts.cancel \in Nat
      BY DEF RunInv, Counts
    <3>5. CASE r.accepted
      BY <1>12, <2>3, <3>1, <3>2, <3>3, <3>4, <3>5 DEF Books, Enters
    <3>6. CASE ~r.accepted
      BY <1>4, <1>12, <2>3, <3>1, <3>2, <3>3, <3>4, <3>6 DEF Books, Keeps
    <3> QED
      BY <3>5, <3>6
  <2>6. ASSUME BeginS2(d) PROVE Books(c) /\ counts' \in Counts
    <3>1. /\ runner = "s2" /\ ~begun
          /\ working' = IF submitted # {} THEN submitted ELSE Wholly(state)
          /\ book' = submitted
          /\ state' = IF submitted # {} THEN r.next ELSE state
          /\ Count(d, submitted, state)
      BY <2>6 DEF BeginS2, Wholly, OrdersOf
    <3>2. book = {}
      BY <3>1 DEF RunInv
    <3> HIDE DEF submitted, r, c
    <3>3. /\ counts' \in Counts
          /\ counts'.submit = counts.submit + Cardinality(submitted)
          /\ counts'.cancel = counts.cancel + 0
      BY <1>4, <1>10, <2>4, <3>1
    <3>4. counts.submit \in Nat /\ counts.cancel \in Nat
      BY DEF RunInv, Counts
    <3>5. CASE submitted = {}
      BY <3>1, <3>3, <3>5 DEF Books, Presumes
    <3>6. CASE submitted # {}
      BY <1>12, <2>3, <3>1, <3>2, <3>3, <3>4, <3>6 DEF Books, Enters
    <3> QED
      BY <3>5, <3>6
  <2> QED
    BY <2>2, <2>5, <2>6
<1>13. CASE working # {}
  <2>1. working = Wholly(state) /\ ~BeginS2(d)
    BY <1>2, <1>13 DEF RunInv, BeginS2
  <2>2. counts.submit \in Nat /\ counts.cancel \in Nat
    BY DEF RunInv, Counts
  <2>3. CASE r.accepted /\ c = state
    <3>1. r.plan.cancel = {} /\ r.plan.submit = {} /\ r.next = state
      BY <1>1, <1>5, <2>1, <2>3
    <3>2. SubmittedBy(d, r) = {}
      <4> HIDE DEF r
      <4> QED
        BY <1>7, <3>1
    <3>3. working' = working /\ book' = book /\ Count(d, {}, r.next) /\ state' = state
      BY <2>1, <3>1, <3>2 DEF Hold, Replace, Retreat
    <3> HIDE DEF r, c
    <3>4. /\ counts' \in Counts
          /\ counts'.submit = counts.submit + 0 /\ counts'.cancel = counts.cancel + 0
      BY <1>4, <1>10, <3>1, <3>3
    <3> QED
      BY <2>2, <3>3, <3>4 DEF Books, Keeps
  <2>4. CASE ~(r.accepted /\ c = state)
    <3>1. /\ r.plan.cancel = {Id(w) : w \in working} /\ r.plan.cancel # {}
          /\ Cancelled(d) = working
          /\ Cardinality(r.plan.cancel) = Cardinality(working)
      BY <1>5, <1>6, <1>9, <1>13, <2>1, <2>4
    <3>2. r.next = state
      BY <1>1, <3>1
    <3>3. Replace(d) \/ Retreat(d)
      BY <2>1, <3>1 DEF Hold
    <3>4. ASSUME Retreat(d) PROVE Books(c) /\ counts' \in Counts
      <4>1. /\ working' = {} /\ book' = book \ working
            /\ Count(d, {}, r.next) /\ state' = state
        BY <3>1, <3>2, <3>4 DEF Retreat
      <4> HIDE DEF r, c
      <4>2. /\ counts' \in Counts
            /\ counts'.submit = counts.submit + 0
            /\ counts'.cancel = counts.cancel + Cardinality(working)
        BY <1>4, <1>10, <3>1, <4>1
      <4> QED
        BY <2>2, <4>1, <4>2 DEF Books, Leaves
    <3>5. ASSUME Replace(d) PROVE Books(c) /\ counts' \in Counts
      <4>1. PICK q \in Continuations(d) :
                /\ working' = SubmittedBy(d, q)
                /\ book' = (book \ working) \cup SubmittedBy(d, q)
                /\ Count(d, SubmittedBy(d, q), q.next)
                /\ state' = q.next
        BY <3>1, <3>5 DEF Replace
      <4> DEFINE submitted == OrdersOf(c.gen, r.desired)
      <4>2. SubmittedBy(d, q) = submitted /\ q.next = IF r.accepted THEN c ELSE state
        BY <1>1, <1>8
      <4>3. /\ r.accepted => submitted = Wholly(c)
            /\ ~r.accepted => submitted = {}
        BY <1>1, <1>3 DEF Wholly
      <4> HIDE DEF r, c, submitted
      <4>4. Cardinality(submitted) \in Nat
        BY <1>4, <4>3
      <4>5. /\ counts' \in Counts
            /\ counts'.submit = counts.submit + Cardinality(submitted)
            /\ counts'.cancel = counts.cancel + Cardinality(working)
        BY <1>4, <1>10, <3>1, <4>1, <4>2, <4>4
      <4>6. CASE r.accepted
        BY <4>1, <4>2, <4>3, <4>5, <4>6 DEF Books, Swaps
      <4>7. CASE ~r.accepted
        BY <1>4, <2>2, <4>1, <4>2, <4>3, <4>5, <4>7 DEF Books, Leaves
      <4> QED
        BY <4>6, <4>7
    <3> QED
      BY <3>3, <3>4, <3>5
  <2> QED
    BY <2>3, <2>4
<1> QED
  BY <1>12, <1>13

-----------------------------------------------------------------------------
(* The invariant.                                                          *)

LEMMA WhollyIsWhole == \A s : Wholly(s) = WholeLadder(s)
BY DEF Wholly, OrdersOf, WholeLadder

LEMMA WholeLadderAfter ==
    ASSUME runner' = runner
    PROVE  WholeLadder(state)' = Wholly(state')
BY DEF WholeLadder, LadderOf, Wholly, OrdersOf

LEMMA InitRun == Init => RunInv
<1> SUFFICES ASSUME Init PROVE RunInv
  OBVIOUS
<1>1. /\ runner \in Runners /\ snapshot \in Path(runner)
      /\ runner \in {"s1", "s2", "adaptive"}
      /\ runner # "adaptive" => snapshot.mid \in Nat
  BY SnapshotType DEF Init
<1>2. state = StartOf(snapshot)
  BY DEF Init
<1>3. state.gen = 0 /\ (runner = "s1" => state \in CenterState)
  <2>1. CASE runner = "s1"
    BY <1>1, <1>2, <2>1, LongGridAssumption DEF StartOf, StartCenter, CenterState
  <2>2. CASE runner = "s2"
    BY <1>2, <2>2 DEF StartOf, StartGrid
  <2>3. CASE runner = "adaptive"
    BY <1>2, <2>3 DEF StartOf, InitialState, StateFor
  <2> QED
    BY <1>1, <2>1, <2>2, <2>3
<1>4. working = {} /\ book = {} /\ counts = [submit |-> 0, cancel |-> 0, resets |-> 0]
  BY DEF Init
<1>5. counts \in Counts
  BY <1>4 DEF Counts
<1>6. BooksBalance /\ DeployedWhole
  BY <1>4, FS_EmptySet DEF BooksBalance, DeployedWhole
<1> QED
  BY <1>1, <1>3, <1>4, <1>5, <1>6 DEF RunInv

\* The books stay right whichever way they go.
LEMMA BooksKeepRun ==
    ASSUME RunInv, NEW c, Follows(c), Books(c), counts' \in Counts, begun' \in {begun, TRUE},
           begun' \/ runner # "s2", UNCHANGED <<runner, snapshot>>
    PROVE  RunInv' /\ (state' # state => WholeLadder(state') \subseteq book')
<1>1. counts.submit \in Nat /\ counts.cancel \in Nat
  BY DEF RunInv, Counts
<1>2. working = {} \/ working = Wholly(state)
  BY WhollyIsWhole DEF RunInv, DeployedWhole
<1>3. /\ \A s : Cardinality(Wholly(s)) \in Nat
      /\ Cardinality({}) = 0 /\ Cardinality(working) \in Nat
  <2>1. \A s : Cardinality(Wholly(s)) \in Nat
    BY WhollyFinite, Zenon
  <2>2. Cardinality({}) \in Nat
    BY NothingCounts
  <2> QED
    BY <1>2, <2>1, <2>2, NothingCounts, Zenon
<1>4. state' \in {state, c}
  BY DEF Books, Keeps, Enters, Swaps, Leaves, Presumes
<1>5. state'.gen \in Nat /\ (runner = "s1" => state' \in CenterState)
  BY <1>4 DEF RunInv, Follows
<1>6. working' = {} \/ working' = Wholly(state')
  BY <1>2 DEF Books, Keeps, Enters, Swaps, Leaves, Presumes
<1>7. DeployedWhole'
  BY <1>6, WholeLadderAfter DEF DeployedWhole
<1>8. ASSUME runner # "s2"
      PROVE  working' = book' /\ counts'.submit - counts'.cancel = Cardinality(book')
  <2> DEFINE before == Cardinality(working)
             after == Cardinality(Wholly(c))
  <2>1. /\ working = book /\ counts.submit - counts.cancel = before
        /\ before \in Nat /\ after \in Nat
    BY <1>3, <1>8 DEF RunInv, BooksBalance
  <2> HIDE DEF before, after
  <2>2. CASE Keeps
    BY <2>1, <2>2 DEF Keeps, before
  <2>3. CASE Enters(c)
    <3>1. working' = Wholly(c) /\ book' = Wholly(c) /\ before = 0 /\ Cardinality(book') = after
      BY <1>3, <2>1, <2>3 DEF Enters, before, after
    <3>2. counts'.submit = counts.submit + after /\ counts'.cancel = counts.cancel
      BY <2>3 DEF Enters, after
    <3> QED
      BY <1>1, <2>1, <3>1, <3>2
  <2>4. CASE Swaps(c)
    <3>1. working' = Wholly(c) /\ book' = Wholly(c) /\ Cardinality(book') = after
      BY <2>1, <2>4 DEF Swaps, after
    <3>2. counts'.submit = counts.submit + after /\ counts'.cancel = counts.cancel + before
      BY <2>4 DEF Swaps, before, after
    <3> QED
      BY <1>1, <2>1, <3>1, <3>2
  <2>5. CASE Leaves
    <3>1. working' = {} /\ book' = {} /\ Cardinality(book') = 0
      BY <1>3, <2>1, <2>5 DEF Leaves
    <3>2. counts'.submit = counts.submit /\ counts'.cancel = counts.cancel + before
      BY <2>5 DEF Leaves, before
    <3> QED
      BY <1>1, <2>1, <3>1, <3>2
  <2> QED
    BY <1>8, <2>2, <2>3, <2>4, <2>5 DEF Books, Presumes
<1>9. BooksBalance'
  BY <1>8 DEF BooksBalance
<1>10. state' # state => WholeLadder(state') \subseteq book'
  BY WhollyIsWhole DEF Books, Keeps, Enters, Swaps, Leaves, Presumes
<1> QED
  BY <1>5, <1>7, <1>9, <1>10 DEF RunInv

LEMMA StepRun ==
    ASSUME RunInv, [Next]_vars
    PROVE  RunInv' /\ (state' # state => WholeLadder(state') \subseteq book')
<1>1. CASE Process
  <2>1. PICK d \in Decisions : BeginS2(d) \/ Hold(d) \/ Replace(d) \/ Retreat(d)
    BY <1>1 DEF Process
  <2>2. UNCHANGED <<runner, snapshot>>
    BY <1>1 DEF Process
  <2>3. /\ Follows(d.candidate) /\ Books(d.candidate)
        /\ counts' \in Counts /\ begun' \in {begun, TRUE}
    BY <2>1, StepBooks
  <2>4. begun' \/ runner # "s2"
    BY <2>1 DEF BeginS2, Hold, Replace, Retreat, InLoop
  <2> QED
    BY <2>2, <2>3, <2>4, BooksKeepRun
<1>2. CASE RunRaises \/ NextSnapshot \/ UNCHANGED vars
  <2>1. /\ UNCHANGED <<runner, begun, state, working, book, counts>>
        /\ snapshot' \in Path(runner)
    BY <1>2 DEF RunRaises, NextSnapshot, vars, RunInv
  <2>2. BooksBalance'
    BY <2>1 DEF RunInv, BooksBalance
  <2>3. DeployedWhole'
    BY <2>1, WholeLadderAfter, WhollyIsWhole DEF RunInv, DeployedWhole
  <2> QED
    BY <2>1, <2>2, <2>3 DEF RunInv
<1> QED
  BY <1>1, <1>2 DEF Next

LEMMA RunInvariance == Spec => []RunInv
BY InitRun, StepRun, PTL DEF Spec

\* What the s1 and the adaptive runner believe to work is what an account has that
\* follows their plans, and the counters agree with it
\* (research/s1_runner.py:352-360, adaptive_runner.py:429-446).
THEOREM BooksBalanceHolds == Spec => []BooksBalance
BY RunInvariance, PTL DEF RunInv

\* A runner works the whole ladder of its state or nothing
\* (application/passive_policy.py:143 and 192-196).
THEOREM DeployedWholeHolds == Spec => []DeployedWhole
BY RunInvariance, PTL DEF RunInv

\* A state is committed only when an account that follows the plans has its whole
\* ladder (application/passive_policy.py:192).
THEOREM CommitsReachBookHolds == Spec => CommitsReachBook
<1>1. RunInv /\ [Next]_vars => [state' # state => WholeLadder(state') \subseteq book']_vars
  BY StepRun
<1> QED
  BY <1>1, RunInvariance, PTL DEF Spec, CommitsReachBook
=============================================================================
