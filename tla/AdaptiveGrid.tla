---------------------------- MODULE AdaptiveGrid ----------------------------
(***************************************************************************)
(* The adaptive grid policy (strategy/adaptive_grid.py) and its ladder     *)
(* (strategy/adaptive_ladder.py).  A strategy state determines a ladder;   *)
(* a decision proposes the next state and keeps the current one when the   *)
(* two ladders are economically equal.                                     *)
(*                                                                         *)
(* The signals reach the policy as the quoting reference they lead to and  *)
(* the target inventory they ask for before the flat-before-reverse gate.  *)
(***************************************************************************)
EXTENDS Orders

CONSTANTS
    MaxInventory,   \* AdaptiveLadderConfig.max_abs_inventory
    OrderQuantity,  \* order quantity per level before scaling
    MinQuantity,    \* the smallest quantity the instrument executes
    SideSkew        \* side_skew_strength, in hundredths

ASSUME AdaptiveGridAssumption ==
    /\ MaxInventory \in Nat \ {0}
    /\ OrderQuantity \in Nat \ {0}
    /\ MinQuantity \in Nat \ {0}
    /\ SideSkew \in 0..100

Targets == -MaxInventory..MaxInventory

Signal == [price : Prices, wanted : Targets]

\* AdaptiveGridState: bidLot and askLot are the order quantity per level after
\* the side's scale, rounded down to whole quantity steps.
GridState == [price : Prices, target : Targets, bidLot : Nat, askLot : Nat,
              basis : Int, gen : Nat]

-----------------------------------------------------------------------------
\* Faulty variant: the gate lets every target pass.
ReverseAtOnce(position, wanted) == wanted

EnforceFlatBeforeReverse(position, wanted) ==
    IF \/ position > 0 /\ wanted < 0
       \/ position < 0 /\ wanted > 0
    THEN 0 ELSE wanted

\* The lot of a side that the inventory error (>= 0) makes less attractive:
\* floor(order_quantity * max(0, 1 - strength * min(error / max, 1))).
SkewedLot(error) ==
    (OrderQuantity * (100 * MaxInventory - SideSkew * Smaller(error, MaxInventory)))
        \div (100 * MaxInventory)

\* decide_inventory_target: bids shrink above the target, asks below it.
BidLot(position, target) == SkewedLot(Larger(position - target, 0))
AskLot(position, target) == SkewedLot(Larger(target - position, 0))

\* The quantity of one level when the levels before it took a full lot each.
\* A quantity the instrument cannot execute leaves the level empty.
LevelQuantity(level, lot, capacity) ==
    LET qty == Smaller(lot, capacity - (level - 1) * lot)
    IN  IF qty >= MinQuantity THEN qty ELSE 0

\* The side capacities and flags of build_adaptive_ladder: towards the target
\* the ladder takes new risk up to the inventory cap, away from it it may only
\* reduce what the position holds.
BuyReduceOnly(s) == s.target <= 0
SellReduceOnly(s) == s.target >= 0

\* Faulty variant: the reduce-only side offers all that the cap allows.
SellCapacityOfCap(s) == MaxInventory

BuyCapacity(s) == IF BuyReduceOnly(s) THEN Larger(-s.basis, 0)
                  ELSE MaxInventory - Larger(s.basis, 0)
SellCapacity(s) == IF SellReduceOnly(s) THEN Larger(s.basis, 0)
                   ELSE MaxInventory + Smaller(s.basis, 0)

SlotQuantity(s, slot) ==
    IF IsBuy(slot) THEN LevelQuantity(LevelOf(slot), s.bidLot, BuyCapacity(s))
    ELSE LevelQuantity(LevelOf(slot), s.askLot, SellCapacity(s))

\* build_adaptive_ladder for the fields of a state.
BuildLadder(s) ==
    [slot \in Slots |->
        IF SlotQuantity(s, slot) = 0 THEN NoOrder
        ELSE [price |-> s.price,
              qty |-> SlotQuantity(s, slot),
              reduceOnly |-> IF IsBuy(slot) THEN BuyReduceOnly(s) ELSE SellReduceOnly(s)]]

\* The state that the pipeline derives from a snapshot's position and signals.
StateFor(position, signal, gen) ==
    LET target == EnforceFlatBeforeReverse(position, signal.wanted)
    IN  [price |-> signal.price, target |-> target,
         bidLot |-> BidLot(position, target), askLot |-> AskLot(position, target),
         basis |-> position, gen |-> gen]

\* initialize_adaptive_grid.
InitialState(position, signal) == StateFor(position, signal, 0)

\* Faulty variant: a candidate keeps the generation it replaces.
DecideInPlace(position, signal, state) ==
    LET candidate == StateFor(position, signal, state.gen)
    IN  IF BuildLadder(candidate) # BuildLadder(state) THEN candidate ELSE state

\* decide_adaptive_grid: ladders are functions from slots to price, quantity
\* and flag, so that their equality is the equality of the economic signatures.
Decide(position, signal, state) ==
    LET candidate == StateFor(position, signal, state.gen + 1)
    IN  IF BuildLadder(candidate) # BuildLadder(state) THEN candidate ELSE state
=============================================================================
