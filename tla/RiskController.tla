--------------------------- MODULE RiskController ---------------------------
(***************************************************************************)
(* The hard risk gate (risk/controller.py): evaluate_risk decides from a   *)
(* market snapshot and the account, and the order filter decides, intent   *)
(* by intent in ladder order, which intents survive that decision.         *)
(***************************************************************************)
EXTENDS Orders, FiniteSets

CONSTANTS
    MaxAbsPosition,   \* RiskLimits.max_abs_position, in quantity steps
    MaxOpenOrders     \* RiskLimits.max_open_orders

ASSUME RiskLimitsAssumption ==
    /\ MaxAbsPosition \in Nat \ {0}
    /\ MaxOpenOrders \in Nat

-----------------------------------------------------------------------------
\* Faulty variant: the age of the snapshot is not looked at.
EvaluateOldData(view) ==
    LET size == Abs(view.position)
        breach == view.drawdown \/ size > MaxAbsPosition
        crowded == view.openOrders > MaxOpenOrders
    IN  [allowNewRisk |-> ~breach /\ ~crowded /\ size < MaxAbsPosition,
         cancelAll    |-> breach \/ crowded,
         targetFlat   |-> breach]

\* evaluate_risk.  New risk is allowed when no reason to refuse it was found;
\* a position at its limit is a reason, a position beyond it a breach as well.
EvaluateRisk(view) ==
    LET size == Abs(view.position)
        beyond == size > MaxAbsPosition
        crowded == view.openOrders > MaxOpenOrders
    IN  [allowNewRisk |-> /\ ~view.stale
                          /\ ~view.drawdown
                          /\ ~crowded
                          /\ size < MaxAbsPosition,
         cancelAll    |-> view.stale \/ view.drawdown \/ crowded \/ beyond,
         targetFlat   |-> view.drawdown \/ beyond]

\* A reduce-only intent has to face the position it reduces.
ReducesPosition(position, slot) ==
    \/ position > 0 /\ ~IsBuy(slot)
    \/ position < 0 /\ IsBuy(slot)

\* Faulty variant: new risk is not projected onto the position.
TakesUnprojected(position, allowNewRisk, slot, order, tally) ==
    IF order.reduceOnly
    THEN ReducesPosition(position, slot) /\ order.qty <= tally.capacity
    ELSE allowNewRisk

\* Whether the filter takes the intent at a slot, when the intents it took
\* before have projected the new-risk position and left the reduce-only
\* capacity given by tally.
Takes(position, allowNewRisk, slot, order, tally) ==
    IF order.reduceOnly
    THEN /\ ReducesPosition(position, slot)
         /\ order.qty <= tally.capacity
    ELSE /\ allowNewRisk
         /\ Abs(tally.projected + SignedFill(slot, order.qty)) <= MaxAbsPosition

\* Faulty variant: an accepted reduce-only intent leaves the capacity as it was.
TallyWithoutCapacity(position, allowNewRisk, ladder) ==
    LET tally[k \in 0..(2 * Levels)] ==
        IF k = 0 THEN [projected |-> position, capacity |-> Abs(position)]
        ELSE LET before == tally[k - 1]
                 order == ladder[k]
             IN  IF \/ order = NoOrder
                    \/ order.reduceOnly
                    \/ ~Takes(position, allowNewRisk, k, order, before)
                 THEN before
                 ELSE [before EXCEPT !.projected = @ + SignedFill(k, order.qty)]
    IN  tally

\* The filter's loop: the tally after the first k slots.
Tally(position, allowNewRisk, ladder) ==
    LET tally[k \in 0..(2 * Levels)] ==
        IF k = 0 THEN [projected |-> position, capacity |-> Abs(position)]
        ELSE LET before == tally[k - 1]
                 order == ladder[k]
             IN  IF order = NoOrder \/ ~Takes(position, allowNewRisk, k, order, before)
                 THEN before
                 ELSE IF order.reduceOnly
                      THEN [before EXCEPT !.capacity = @ - order.qty]
                      ELSE [before EXCEPT !.projected = @ + SignedFill(k, order.qty)]
    IN  tally

\* The slots whose intents the filter takes, once no cancellation is demanded.
Taken(position, allowNewRisk, ladder) ==
    LET tally == Tally(position, allowNewRisk, ladder)
    IN  {k \in Placed(ladder) :
            Takes(position, allowNewRisk, k, ladder[k], tally[k - 1])}

Keep(ladder, slots) == [s \in Slots |-> IF s \in slots THEN ladder[s] ELSE NoOrder]

\* assess_passive_ladder_risk: the decision and the intents it leaves.  An
\* intent dropped for a malformed reduce-only flag or for the position limit
\* withdraws the permission for new risk.
AssessLadder(view, ladder) ==
    LET decision == EvaluateRisk(view)
        taken == IF decision.cancelAll \/ decision.targetFlat THEN {}
                 ELSE Taken(view.position, decision.allowNewRisk, ladder)
        dropped == Placed(ladder) \ taken
        objections == IF decision.cancelAll \/ decision.targetFlat THEN {}
                      ELSE {k \in dropped : ladder[k].reduceOnly \/ decision.allowNewRisk}
    IN  [allowNewRisk |-> decision.allowNewRisk /\ objections = {},
         cancelAll    |-> decision.cancelAll,
         targetFlat   |-> decision.targetFlat,
         filtered     |-> Keep(ladder, taken)]
=============================================================================
