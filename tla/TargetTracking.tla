--------------------------- MODULE TargetTracking ---------------------------
(***************************************************************************)
(* An account that follows the target pipeline: signals change, decisions  *)
(* replace the ladder, and the venue fills its orders in any order and in  *)
(* any parts.  Cancelling and replacing is taken as done at once; what may *)
(* happen in between is in QuoteExecution.                                 *)
(***************************************************************************)
EXTENDS TargetPipeline

CONSTANTS
    Policies,  \* the policies an account may follow
    Trends,    \* the trend scores of the market
    Fundings   \* the clipped funding rates of the market

ASSUME TargetTrackingAssumption ==
    Trends \cup Fundings \subseteq Score /\ Policies \subseteq Policy

VARIABLES
    policy,    \* the policy of the account, chosen once
    position,  \* the account's position
    trend,     \* AdaptiveSignals.trend_score
    funding,   \* AdaptiveSignals.funding_rate
    phase,     \* the phase of the last decision
    ladder     \* what remains of the ladder of the last decision

vars == <<policy, position, trend, funding, phase, ladder>>

TypeOK ==
    /\ policy \in Policies
    /\ position \in -policy.cap..policy.cap
    /\ trend \in Trends /\ funding \in Fundings
    /\ phase \in {"flat", "long", "flatten_long", "short", "flatten_short"}
    /\ ladder \in Ladder

-----------------------------------------------------------------------------
\* Whether a stage keeps a target from the sign opposite to the position.
Gated(c) == c.features.reversal \/ c.features.funding

\* The state of a decision: without inventory control both sides quote in full.
DecidedState(c, target) ==
    [price  |-> CHOOSE p \in Prices : TRUE,
     target |-> target,
     bidLot |-> IF c.features.inventory THEN BidLot(position, target) ELSE OrderQuantity,
     askLot |-> IF c.features.inventory THEN AskLot(position, target) ELSE OrderQuantity,
     basis  |-> position,
     gen    |-> 0]

Init ==
    /\ policy \in Policies
    /\ position \in IF Gated(policy) THEN -policy.cap..policy.cap ELSE {0}
    /\ trend \in Trends /\ funding \in Fundings
    /\ phase = "flat"
    /\ ladder = EmptyLadder

SignalsChange ==
    /\ trend' \in Trends /\ funding' \in Fundings
    /\ UNCHANGED <<policy, position, phase, ladder>>

DecideLadder ==
    /\ \E d \in {DecideTarget(policy, position, trend, funding)} :
        /\ ~Refused(policy, position, d)
        /\ phase' = d.phase
        /\ ladder' = BuildLadder(DecidedState(policy, d.target))
    /\ UNCHANGED <<policy, position, trend, funding>>

Fill(slot, qty) ==
    /\ slot \in Placed(ladder) /\ qty \in 1..ladder[slot].qty
    /\ position' = position + SignedFill(slot, qty)
    /\ \E order \in {ladder[slot]} :
        ladder' = [ladder EXCEPT ![slot] =
                    IF qty = order.qty THEN NoOrder ELSE [order EXCEPT !.qty = @ - qty]]
    /\ UNCHANGED <<policy, trend, funding, phase>>

Next ==
    \/ SignalsChange
    \/ DecideLadder
    \/ \E slot \in Slots : \E qty \in 1..MaxInventory : Fill(slot, qty)

Spec == Init /\ [][Next]_vars

-----------------------------------------------------------------------------
\* Whatever the signals become, the next decision is not refused: the stages
\* keep the target within the cap and off the side opposite to the position,
\* also where no stage has a gate (strategy/adaptive_ladder.py:166-171).
DecisionsPossible ==
    \A t \in Trends, f \in Fundings :
        ~Refused(policy, position, DecideTarget(policy, position, t, f))

\* Fills of a ladder, however old, never carry the position from one side to
\* the other (README.md:140-144).
SignThroughFlat ==
    [][ /\ position > 0 => position' >= 0
        /\ position < 0 => position' <= 0 ]_vars

\* A worse trend never asks for more of what the policy prefers, through the
\* regimes, the reversal and both gates (strategy/target_profile.py:98-191).
WorseTrendNeverAsksMore ==
    \A t, u \in Trends :
        Preferred(policy) * t <= Preferred(policy) * u =>
            Preferred(policy) * DecideTarget(policy, position, t, funding).target
                <= Preferred(policy) * DecideTarget(policy, position, u, funding).target

=============================================================================
