--------------------------- MODULE TargetPipeline ---------------------------
(***************************************************************************)
(* The stages that turn signals into a target inventory                    *)
(* (strategy/de_risk.py, conditional_short.py, target_profile.py,          *)
(* funding_bias.py; their order in strategy/adaptive_grid.py): de-risk the *)
(* baseline, reverse it under a strong adverse trend, shift it by funding. *)
(* The legacy pipeline is long-biased, a profile has a signed baseline.    *)
(*                                                                         *)
(* Scores, thresholds and fractions are counted in Unit parts of one, and  *)
(* targets in quantity steps, cut towards zero where the source keeps 28   *)
(* digits.                                                                 *)
(***************************************************************************)
EXTENDS AdaptiveGrid

CONSTANTS
    Unit,             \* parts of one
    WarningTrend,     \* size of the negative DeRiskConfig.warning_trend_threshold
    SevereTrend,      \* size of the negative DeRiskConfig.severe_trend_threshold
    WarningFraction,  \* DeRiskConfig.warning_target_fraction
    SevereFraction,   \* DeRiskConfig.severe_target_fraction
    EntryTrend,       \* size of the negative trend at which the target reverses
    MaxShift,         \* FundingBiasConfig.max_target_shift_fraction
    NoProfile         \* target_profile is None: the legacy pipeline

Score == -Unit..Unit

ASSUME TargetPipelineAssumption ==
    /\ Unit \in Nat \ {0}
    /\ WarningTrend \in 1..(SevereTrend - 1) /\ SevereTrend \in 1..Unit
    /\ SevereFraction \in 0..WarningFraction /\ WarningFraction \in 0..Unit
    /\ EntryTrend \in 1..(Unit - 1)
    /\ MaxShift \in 0..Unit

\* DirectionalTargetProfileConfig.
Profile ==
    {p \in [baseline : Score, allowOpposite : BOOLEAN, maxOpposite : 0..Unit] :
        IF p.allowOpposite /\ p.baseline # 0 THEN p.maxOpposite > 0 ELSE p.maxOpposite = 0}

\* AdaptiveFeatures, and the targets of AdaptiveGridPolicyConfig for a cap.
Features == [inventory : BOOLEAN, deRisk : BOOLEAN, reversal : BOOLEAN, funding : BOOLEAN]
Policy ==
    {c \in [features : Features, cap : Nat \ {0}, baseLong : Nat, maxShort : Nat,
            profile : Profile \cup {NoProfile}] :
        c.baseLong <= c.cap /\ c.maxShort \in 1..c.cap}

-----------------------------------------------------------------------------
Sign(n) == IF n > 0 THEN 1 ELSE IF n < 0 THEN -1 ELSE 0

\* n * part / whole, cut towards zero.
Portion(n, part, whole) == Sign(n) * ((Abs(n) * part) \div whole)

\* The direction the policy prefers: _preferred_sign, and long for the legacy.
Preferred(c) == IF c.profile = NoProfile THEN 1 ELSE Sign(c.profile.baseline)

Baseline(c) ==
    IF c.profile = NoProfile THEN c.baseLong ELSE Portion(c.profile.baseline, c.cap, Unit)

\* Faulty variant: the fractions of the two regimes are swapped.
SwappedFraction(aligned) ==
    IF aligned <= -SevereTrend THEN WarningFraction
    ELSE IF aligned <= -WarningTrend THEN SevereFraction
    ELSE Unit

\* The regimes of apply_partial_de_risk and apply_directional_de_risk.
KeptFraction(aligned) ==
    IF aligned <= -SevereTrend THEN SevereFraction
    ELSE IF aligned <= -WarningTrend THEN WarningFraction
    ELSE Unit

DeRisked(c, trend) == Portion(Baseline(c), KeptFraction(Preferred(c) * trend), Unit)

\* What an adverse trend asks for: the largest opposite target in proportion to
\* how far the trend is beyond its threshold.
OppositeTarget(most, aligned) ==
    (most * (Abs(aligned) - EntryTrend)) \div (Unit - EntryTrend)

\* apply_conditional_short, before its gate.
ShortRequest(c, target, trend) ==
    IF trend <= -EntryTrend THEN -OppositeTarget(c.maxShort, trend) ELSE target

\* apply_conditional_reversal, before its gate.
ReversalRequest(c, target, trend) ==
    IF c.profile.allowOpposite /\ Preferred(c) # 0 /\ Preferred(c) * trend <= -EntryTrend
    THEN -Preferred(c) * OppositeTarget(Portion(c.profile.maxOpposite, c.cap, Unit),
                                        Preferred(c) * trend)
    ELSE target

Requested(c, target, trend) ==
    IF c.profile = NoProfile THEN ShortRequest(c, target, trend)
    ELSE ReversalRequest(c, target, trend)

\* ShortOverlayDecision.phase, as _phase and apply_conditional_short name it.
Phase(position, requested) ==
    IF position > 0 /\ requested < 0 THEN "flatten_long"
    ELSE IF position < 0 /\ requested > 0 THEN "flatten_short"
    ELSE IF requested < 0 THEN "short"
    ELSE IF requested > 0 THEN "long"
    ELSE "flat"

\* Faulty variant: the shift may carry the target beyond the cap.
UnclippedFunding(c, position, target, funding) ==
    EnforceFlatBeforeReverse(position, target + Portion(-funding, c.cap * MaxShift, Unit * Unit))

\* apply_funding_bias, for a rate already clipped to its scale.
FundingBiased(c, position, target, funding) ==
    LET shifted == target + Portion(-funding, c.cap * MaxShift, Unit * Unit)
    IN  EnforceFlatBeforeReverse(position, Larger(-c.cap, Smaller(c.cap, shifted)))

\* _target_pipeline: a stage that is not a feature is computed but not used.
\* Given is the target that the funding stage is given.
DecideTarget(c, position, trend, funding) ==
    LET deRisked == IF c.features.deRisk THEN DeRisked(c, trend) ELSE Baseline(c)
        requested == Requested(c, deRisked, trend)
        reversed == IF c.features.reversal THEN EnforceFlatBeforeReverse(position, requested)
                    ELSE deRisked
    IN  [phase  |-> Phase(position, requested),
         given  |-> reversed,
         target |-> IF c.features.funding THEN FundingBiased(c, position, reversed, funding)
                    ELSE reversed]

\* What the later stages and build_adaptive_ladder refuse: a target beyond the
\* cap, or one of the other sign than the position.
Refused(c, position, decision) ==
    \/ Abs(decision.given) > c.cap
    \/ Abs(decision.target) > c.cap
    \/ position > 0 /\ decision.target < 0
    \/ position < 0 /\ decision.target > 0
=============================================================================
