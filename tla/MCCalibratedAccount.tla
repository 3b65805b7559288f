------------------------ MODULE MCCalibratedAccount ------------------------
(* A calibration whose cap is 6, 4 or not executable, with each component     *)
(* missing once, and a market too quiet for its costs.                        *)
EXTENDS CalibratedAccount

CONSTANTS p1, p2

AllStages == [inventory |-> TRUE, deRisk |-> TRUE, reversal |-> TRUE, funding |-> TRUE]

Reading(volatility, trend, funding, reference) ==
    [mid |-> 1, reference |-> reference, volatility |-> volatility, trend |-> trend,
     cost |-> 1, funding |-> funding, orderBook |-> TRUE]

Calm == Reading(2, 0, 0, p1)

Ordinary ==
    {Calm, Reading(3, 0, 0, p1), Reading(2, 0, 0, p2), Reading(2, 0, -4, p1),
     Reading(2, -4, 0, p1), Reading(3, -4, 4, p1)}
Degenerate ==
    {[Calm EXCEPT !.volatility = Unready], [Calm EXCEPT !.volatility = 0],
     [Calm EXCEPT !.cost = Unready], [Calm EXCEPT !.funding = Unready],
     [Calm EXCEPT !.orderBook = FALSE], [Calm EXCEPT !.mid = 2],
     [Calm EXCEPT !.cost = 8]}

AllMarkets == Ordinary \cup Degenerate
=============================================================================
