------------------------- MODULE CalibratedAdaptive -------------------------
(***************************************************************************)
(* The calibrated adaptive grid (application/calibrated_adaptive.py) and   *)
(* the sizing it rests on (risk/sizing.py): what calibration says of the   *)
(* market decides whether a decision can be prepared and with which        *)
(* inventory cap and lot.  The cap of one decision need not be that of the *)
(* next, so the policy runs under a configuration that the state carries.  *)
(*                                                                         *)
(* Fractions, volatilities, costs and scores are counted in Unit parts of  *)
(* one, quantities in steps.                                               *)
(***************************************************************************)
EXTENDS Orders, FiniteSetsExt

CONSTANTS
    MinQuantity, SideSkew,                        \* of AdaptiveGrid
    Unit, WarningTrend, SevereTrend,              \* of TargetPipeline
    WarningFraction, SevereFraction, EntryTrend, MaxShift, NoProfile,
    MaxOpenOrders,       \* of RiskController
    ActiveFeatures,      \* the AdaptiveFeatures in use
    UsesOrderBook,       \* AdaptiveFeatures.order_book_reference
    BaseLongPart,        \* CalibratedAdaptiveMetaConfig.base_long_fraction
    MaxShortPart,        \* .max_short_fraction
    LotPart,             \* .level_quantity_fraction
    SpacingUnits,        \* the larger of .min_spacing_vol_units and the multiplier
    MaxSpacingUnits,     \* .max_spacing_vol_units
    Equity,              \* RiskSizingInput.equity
    MarginNotional,      \* .max_margin_notional
    VenueQuantity,       \* .venue_max_quantity
    NotionalPart,        \* RiskSizingConfig.max_notional_fraction
    LossPart,            \* .max_single_move_loss_fraction
    VolatilityFloor,     \* .volatility_floor
    Unready              \* what calibration gives for a component it has not

ASSUME CalibratedAdaptiveAssumption ==
    /\ MinQuantity \in Nat \ {0} /\ SideSkew \in 0..100
    /\ Unit \in Nat \ {0}
    /\ WarningTrend \in 1..(SevereTrend - 1) /\ SevereTrend \in 1..Unit
    /\ SevereFraction \in 0..WarningFraction /\ WarningFraction \in 0..Unit
    /\ EntryTrend \in 1..(Unit - 1) /\ MaxShift \in 0..Unit
    /\ ActiveFeatures \in [inventory : BOOLEAN, deRisk : BOOLEAN, reversal : BOOLEAN,
                            funding : BOOLEAN]
    /\ BaseLongPart \in 0..Unit /\ MaxShortPart \in 1..Unit /\ LotPart \in 1..Unit
    /\ SpacingUnits \in Nat \ {0} /\ MaxSpacingUnits \in Nat \ {0}
    /\ {Equity, MarginNotional, VenueQuantity, VolatilityFloor} \subseteq Nat \ {0}
    /\ NotionalPart \in 1..Unit /\ LossPart \in 1..Unit

\* The policy and hard risk for a cap and a lot.
Stage(cap, lot) == INSTANCE TargetPipeline WITH MaxInventory <- cap, OrderQuantity <- lot
Risk(limit) == INSTANCE PassivePolicy WITH MaxAbsPosition <- limit

\* CalibratedMarketState with the mid it was made at, and the reference that
\* center, spacing and order book lead to.  Cost is the spacing that quote
\* distance and execution cost ask for.
Market ==
    [mid : Nat \ {0}, reference : Prices, volatility : Nat \cup {Unready},
     trend : -Unit..Unit \cup {Unready}, cost : Nat \cup {Unready},
     funding : -Unit..Unit \cup {Unready}, orderBook : BOOLEAN]

-----------------------------------------------------------------------------
\* derive_inventory_capacity, in whole steps: the most conservative of the caps
\* by notional, margin, loss in one volatility move, and venue.
InventoryCapacity(mid, volatility) ==
    Min({(Equity * NotionalPart) \div (Unit * mid),
         MarginNotional \div mid,
         (Equity * LossPart) \div (mid * Larger(volatility, VolatilityFloor)),
         VenueQuantity})

\* _readiness_reason.
Readiness(m) ==
    IF m.volatility = Unready \/ m.trend = Unready THEN "foundation_not_ready"
    ELSE IF m.volatility = 0 THEN "volatility_degenerate"
    ELSE IF m.cost = Unready THEN "microstructure_not_ready"
    ELSE IF ActiveFeatures.funding /\ m.funding = Unready THEN "funding_not_ready"
    ELSE IF UsesOrderBook /\ ~m.orderBook THEN "order_book_not_ready"
    ELSE "ready"

\* Faulty variant: the short limit is a part of what the venue allows.
UncappedConfig(m) ==
    LET cap == InventoryCapacity(m.mid, m.volatility)
    IN  [features |-> ActiveFeatures, profile |-> NoProfile, cap |-> cap,
         lot      |-> (cap * LotPart) \div Unit,
         baseLong |-> (cap * BaseLongPart) \div Unit,
         maxShort |-> (VenueQuantity * MaxShortPart) \div Unit]

\* The configuration of a ready market: every quantity is floored to the step.
Config(m) ==
    LET cap == InventoryCapacity(m.mid, m.volatility)
    IN  [features |-> ActiveFeatures, profile |-> NoProfile, cap |-> cap,
         lot      |-> (cap * LotPart) \div Unit,
         baseLong |-> (cap * BaseLongPart) \div Unit,
         maxShort |-> (cap * MaxShortPart) \div Unit]

\* The ladder's spacing has to stay below its limit: otherwise preparing raises.
SpacingRefused(m) ==
    Larger(m.cost, m.volatility * SpacingUnits) > m.volatility * MaxSpacingUnits

\* prepare_calibrated_adaptive_inputs: its reason, or that it raises.
Preparation(m) ==
    IF Readiness(m) # "ready" THEN Readiness(m)
    ELSE IF Config(m).maxShort = 0 \/ Config(m).lot < MinQuantity
    THEN "inventory_capacity_not_executable"
    ELSE IF SpacingRefused(m) THEN "raises"
    ELSE "ready"

-----------------------------------------------------------------------------
Funding(m) == IF ActiveFeatures.funding THEN m.funding ELSE 0

TargetDecision(config, m, position) ==
    Stage(config.cap, config.lot)!DecideTarget(config, position, m.trend, Funding(m))

\* A side's scale for its inventory error, as a fraction.
Scale(config, error) ==
    IF config.features.inventory
    THEN [num |-> 100 * config.cap - SideSkew * Smaller(Larger(error, 0), config.cap),
          den |-> 100 * config.cap]
    ELSE [num |-> 1, den |-> 1]

\* AdaptiveGridState of a decision.
GridFor(config, m, position, gen) ==
    LET target == TargetDecision(config, m, position).target
    IN  [price    |-> m.reference,
         target   |-> target,
         bidScale |-> Scale(config, position - target),
         askScale |-> Scale(config, target - position),
         basis    |-> position,
         gen      |-> gen]

Scaled(lot, scale) == (lot * scale.num) \div scale.den

\* _build_state_ladder: the scales of the state apply to the configured lot.
LadderUnder(config, grid) ==
    Stage(config.cap, config.lot)!BuildLadder(
        [price  |-> grid.price, target |-> grid.target, basis |-> grid.basis, gen |-> grid.gen,
         bidLot |-> Scaled(config.lot, grid.bidScale),
         askLot |-> Scaled(config.lot, grid.askScale)])

\* CalibratedAdaptiveState: the policy state and the configuration it was
\* applied with, which together give its ladder.
LadderOf(s) == LadderUnder(s.config, s.grid)

\* initialize_calibrated_adaptive_grid.
InitialState(m, position) ==
    [grid |-> GridFor(Config(m), m, position, 0), config |-> Config(m)]

\* Faulty variant: the new configuration is stored beside an unchanged ladder.
DecideAndApply(m, position, s) ==
    LET candidate == [grid |-> GridFor(Config(m), m, position, s.grid.gen + 1),
                      config |-> Config(m)]
    IN  IF LadderOf(candidate) # LadderOf(s) THEN candidate
        ELSE [s EXCEPT !.config = Config(m)]

\* The candidate of transition_calibrated_adaptive_grid: the current ladder is
\* rebuilt with the configuration it was applied with, and the new one comes
\* with a ladder that differs.
Decide(m, position, s) ==
    LET candidate == [grid |-> GridFor(Config(m), m, position, s.grid.gen + 1),
                      config |-> Config(m)]
    IN  IF LadderOf(candidate) # LadderOf(s) THEN candidate ELSE s
=============================================================================
