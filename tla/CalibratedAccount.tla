------------------------- MODULE CalibratedAccount --------------------------
(***************************************************************************)
(* An account that runs the calibrated adaptive grid as                    *)
(* research/calibrated_adaptive_runner.py does: the cap of the prepared    *)
(* inputs is its hard position limit, the initial ladder is taken as       *)
(* working, and cancellations are taken as confirmed at once.  Calibration *)
(* moves on between any two steps, a cancelling transition may wait for    *)
(* its continuation, and, beyond the runner, the venue fills orders.       *)
(***************************************************************************)
EXTENDS CalibratedAdaptive

CONSTANTS
    Markets,        \* what calibration may say
    MaxGeneration   \* bound on the generations of a state

\* The runner uses the last stage of the policy (_meta), where the reversal and
\* the funding bias both keep a target from the side opposite to the position.
ASSUME CalibratedAccountAssumption ==
    /\ ActiveFeatures.reversal \/ ActiveFeatures.funding
    /\ Markets \subseteq Market
    /\ MaxGeneration \in Nat

VARIABLES
    market,    \* the latest CalibratedMarketState
    position,  \* the account's position
    state,     \* the CalibratedAdaptiveState
    working,   \* the working orders
    pending    \* the transitions to continue, at most one

vars == <<market, position, state, working, pending>>

Fraction == [num : Nat, den : Nat \ {0}]
AppliedState ==
    [grid : [price : Prices, target : Int, bidScale : Fraction, askScale : Fraction,
             basis : Int, gen : 0..MaxGeneration],
     config : {Config(m) : m \in {n \in Markets : Preparation(n) = "ready"}}]

Transition ==
    [previous : AppliedState, candidate : AppliedState, desired : Ladder,
     accepted : BOOLEAN, limit : Nat]

TypeOK ==
    /\ market \in Markets
    /\ position \in -VenueQuantity..VenueQuantity
    /\ state \in AppliedState
    /\ working \subseteq WorkingOrder
    /\ \A v, w \in working : Id(v) = Id(w) => v = w
    /\ pending \subseteq Transition /\ Cardinality(pending) <= 1

-----------------------------------------------------------------------------
Ready == Preparation(market) = "ready"

\* The account has neither a drawdown nor orders beside the working ones.
Account == [drawdown |-> FALSE, others |-> 0]
Observation == [position |-> position, stale |-> FALSE, working |-> working]

WholeLadder(s) ==
    {Submitted(s.grid.gen, LadderOf(s), slot) : slot \in Placed(LadderOf(s))}

Init ==
    /\ market \in {m \in Markets : Preparation(m) = "ready"}
    /\ position = 0
    /\ state = InitialState(market, 0)
    /\ working = WholeLadder(state)
    /\ pending = {}

MarketMoves ==
    /\ market' \in Markets \ {market}
    /\ UNCHANGED <<position, state, working, pending>>

Fill(w, qty) ==
    /\ qty <= Remaining(w)
    /\ position' = position + SignedFill(w.slot, qty)
    /\ working' = (working \ {w}) \cup
                    IF qty = Remaining(w) THEN {} ELSE {[w EXCEPT !.filled = @ + qty]}
    /\ UNCHANGED <<market, state, pending>>

\* A cycle's plan: what it cancels leaves the book and its transition waits for
\* a continuation, or what it submits enters the book.
Apply(transition, result) ==
    /\ ~result.raises
    /\ working' = {w \in working : Id(w) \notin result.plan.cancel}
                    \cup {Submitted(transition.candidate.grid.gen, result.desired, slot) :
                            slot \in result.plan.submit}
    /\ state' = result.next
    /\ pending' = IF result.plan.cancel = {} THEN {}
                  ELSE {[transition EXCEPT !.desired = result.desired,
                                           !.accepted = result.accepted]}
    /\ UNCHANGED <<market, position>>

\* A cycle of passive policy over states that carry their configuration.
Cycle(limit, candidate, ladder, previous, mayAccept) ==
    LET result == Risk(limit)!Cycle(Account, Observation, previous.grid, candidate.grid,
                                    ladder, mayAccept)
    IN  [result EXCEPT !.next = IF @ = candidate.grid THEN candidate ELSE previous]

\* transition_calibrated_adaptive_grid, for inputs that could be prepared.
Transit ==
    /\ Ready
    /\ state.grid.gen < MaxGeneration
    /\ \E candidate \in {Decide(market, position, state)} :
        \E ladder \in {LadderOf(candidate)} :
            Apply([previous |-> state, candidate |-> candidate, desired |-> ladder,
                   accepted |-> TRUE, limit |-> Config(market).cap],
                  Cycle(Config(market).cap, candidate, ladder, state, TRUE))

\* continue_calibrated_adaptive_reconciliation: neither calibration nor policy
\* is asked again.
Continue ==
    \E t \in pending : Apply(t, Cycle(t.limit, t.candidate, t.desired, t.previous, t.accepted))

Next ==
    \/ MarketMoves
    \/ \E w \in working : \E qty \in 1..VenueQuantity : Fill(w, qty)
    \/ Transit
    \/ Continue

Spec == Init /\ [][Next]_vars

-----------------------------------------------------------------------------
\* Inputs that could be prepared lead to a decision: however the cap moved
\* against the position and the earlier target, the target is within the new
\* cap and on no side opposite to the position, so that the ladder is not
\* refused (application/calibrated_adaptive.py:446).
PreparedIsDecidable ==
    \A m \in Markets :
        Preparation(m) = "ready" => ~Stage(Config(m).cap, Config(m).lot)!Refused(
                                        Config(m), position, TargetDecision(Config(m), m, position))

\* The current ladder, which every decision rebuilds from the state and the
\* configuration applied with it, can be rebuilt - its target is within that
\* cap - and is the one in the book, so that a change of calibrated parameters
\* is not mistaken for an equal place in the queue (README.md:226).
CurrentLadderRebuilds ==
    /\ Abs(state.grid.target) <= state.config.cap
    /\ \A w \in working :
        w.gen = state.grid.gen => Submitted(w.gen, LadderOf(state), w.slot).order = w.order

\* A configuration is applied only in a step that ends with the whole ladder it
\* leads to in the book, never while cancelling or after a refusal (README.md:227).
AppliedWithWholeLadder ==
    [][ state'.config # state.config =>
            /\ pending' = {}
            /\ Placed(LadderOf(state')) \subseteq
                {w.slot : w \in {v \in working' : v.gen = state'.grid.gen}} ]_vars
=============================================================================
