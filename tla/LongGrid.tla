------------------------------ MODULE LongGrid ------------------------------
(***************************************************************************)
(* The long-only grids S0 to S2: a ladder of buys below a center           *)
(* (strategy/grid_geometry.py), a center that follows the market by        *)
(* bounded steps once it is far enough away (strategy/dynamic_center.py),  *)
(* and a spacing that follows volatility (strategy/volatility_spacing.py,  *)
(* strategy/s2_adaptive_grid.py).                                          *)
(*                                                                         *)
(* Basis points are counted in Whole parts instead of 10000, and a center  *)
(* in units of which Tick make one tick; products are cut to whole units   *)
(* where the source cuts them to 28 digits.                                *)
(***************************************************************************)
EXTENDS Orders

CONSTANTS
    Whole,         \* parts of a whole: the source's 10000 basis points
    Tick,          \* center units per tick
    GridQuantity,  \* FixedLongGridConfig.order_quantity
    GridSpacing,   \* FixedLongGridConfig.spacing_bps, the spacing of S0 and S1
    MinNotional,   \* the smallest price times quantity the instrument executes
    Threshold,     \* DynamicCenterConfig.reanchor_threshold_bps
    MaxStep,       \* DynamicCenterConfig.max_step_bps
    MinSpacing,    \* VolatilitySpacingConfig.min_spacing_bps
    MaxSpacing,    \* VolatilitySpacingConfig.max_spacing_bps
    CostFloor      \* VolatilitySpacingConfig.execution_cost_floor_bps

ASSUME LongGridAssumption ==
    /\ {Whole, Tick, GridQuantity, GridSpacing} \subseteq Nat \ {0}
    /\ MinNotional \in Nat
    /\ {Threshold, MaxStep, MinSpacing, MaxSpacing, CostFloor} \subseteq Nat \ {0}
    /\ MaxStep < Whole
    /\ MinSpacing <= MaxSpacing /\ CostFloor <= MaxSpacing

-----------------------------------------------------------------------------
\* _round_down_to_tick of the level's raw price, in ticks.
LevelPrice(center, spacing, level) ==
    (center * (Whole - level * spacing)) \div (Whole * Tick)

\* The centers and spacings for which build_long_grid_at_center raises.
CannotBuild(s) ==
    \/ \E level \in 1..Levels : LevelPrice(s.center, s.spacing, level) <= 0
    \/ \E level \in 2..Levels :
        LevelPrice(s.center, s.spacing, level) >= LevelPrice(s.center, s.spacing, level - 1)

\* InstrumentSpec.is_executable: a level the venue would refuse stays empty.
Executable(price) == price * GridQuantity >= MinNotional

\* build_long_grid_at_center: buys only, all of them new risk.
BuildLongGrid(s) ==
    [slot \in Slots |->
        IF IsBuy(slot) /\ Executable(LevelPrice(s.center, s.spacing, LevelOf(slot)))
        THEN [price |-> LevelPrice(s.center, s.spacing, LevelOf(slot)),
              qty |-> GridQuantity, reduceOnly |-> FALSE]
        ELSE NoOrder]

\* CenterProposal.threshold_crossed.
Crossed(mid, center) == Abs(mid - center) * Whole >= Threshold * center

\* propose_dynamic_center: stay, or move towards the market by at most MaxStep.
ProposeCenter(mid, center) ==
    LET step == (MaxStep * center) \div Whole
    IN  IF ~Crossed(mid, center) THEN center
        ELSE IF Abs(mid - center) * Whole <= MaxStep * center THEN mid
        ELSE IF mid > center THEN center + step ELSE center - step

\* propose_volatility_spacing, for a volatility already in parts of a whole.
ProposeSpacing(volatility) ==
    Smaller(MaxSpacing, Larger(volatility, Larger(MinSpacing, CostFloor)))

-----------------------------------------------------------------------------
\* initialize_dynamic_center and initialize_s2_grid.
StartCenter(obs) == [center |-> obs.mid, spacing |-> GridSpacing, gen |-> 0]
StartGrid(obs) ==
    [center |-> obs.mid, spacing |-> ProposeSpacing(obs.volatility), gen |-> 0]

\* The state that a decision moves to when the executable ladder changes.
CenterCandidate(obs, s) ==
    [s EXCEPT !.center = ProposeCenter(obs.mid, s.center), !.gen = @ + 1]
GridCandidate(obs, s) ==
    [center |-> ProposeCenter(obs.mid, s.center),
     spacing |-> ProposeSpacing(obs.volatility),
     gen |-> s.gen + 1]

\* Effective-change suppression, on ladder_economic_signature.
AdoptIfDifferent(s, candidate) ==
    IF BuildLongGrid(candidate) # BuildLongGrid(s) THEN candidate ELSE s

\* decide_dynamic_center: within the threshold the candidate is not even built.
DecideCenter(obs, s) ==
    IF ~Crossed(obs.mid, s.center) THEN s
    ELSE AdoptIfDifferent(s, CenterCandidate(obs, s))
CenterRaises(obs, s) == CannotBuild(s) \/ CannotBuild(CenterCandidate(obs, s))

\* decide_s2_grid: center and spacing are adopted together or not at all.
DecideGrid(obs, s) == AdoptIfDifferent(s, GridCandidate(obs, s))
GridRaises(obs, s) == CannotBuild(s) \/ CannotBuild(GridCandidate(obs, s))
=============================================================================
