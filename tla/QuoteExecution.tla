--------------------------- MODULE QuoteExecution ---------------------------
(***************************************************************************)
(* The adaptive grid quoting one instrument at a venue.                    *)
(*                                                                         *)
(* The policy side (application/adaptive_grid.py over passive_policy.py)   *)
(* is called with an observation: a market snapshot with its position, and *)
(* the working orders.  It returns a transition; its owner keeps the next  *)
(* state, hands the plan to the venue, and calls the continuation after a  *)
(* cancel-only plan.  The venue side is external: it fills orders in part  *)
(* or in full, ends them of its own accord, and confirms cancellations     *)
(* some time after they are requested, so that fills race with decisions   *)
(* and with cancellations.                                                 *)
(***************************************************************************)
EXTENDS PassivePolicy, AdaptiveGrid

CONSTANTS
    NoObs,         \* no observation is at hand
    NoTransition,  \* no transition awaits its continuation
    StartPositions, \* positions at which the strategy may be started
    OthersOpen,    \* possible numbers of open orders outside the strategy
    MaxEvents      \* bound on the steps of market, account and venue

Observation == [position : Int, stale : BOOLEAN, working : SUBSET WorkingOrder]

ASSUME QuoteExecutionAssumption ==
    /\ StartPositions \subseteq -MaxAbsPosition..MaxAbsPosition
    /\ OthersOpen \subseteq Nat
    /\ MaxEvents \in Nat
    /\ NoObs \notin Observation

VARIABLES
    position,    \* the venue's position
    live,        \* the strategy's orders that the venue works
    cancelling,  \* ids whose cancellation was requested and not confirmed
    signal,      \* current market signals
    account,     \* drawdown flag and open orders outside the strategy
    obs,         \* the observation taken for the next call, or NoObs
    state,       \* the committed strategy state
    pending,     \* the transition to continue after a cancel-only plan
    raised,      \* whether the last call raised ValueError
    events       \* how many steps market, account and venue took

vars == <<position, live, cancelling, signal, account, obs, state, pending,
          raised, events>>
world == <<position, live, cancelling, signal, account, events>>
policy == <<state, pending, raised>>

Account == [drawdown : BOOLEAN, others : OthersOpen]

Transition == [previous : GridState, candidate : GridState, desired : Ladder,
               accepted : BOOLEAN]

TypeOK ==
    /\ position \in Int
    /\ live \subseteq WorkingOrder
    /\ cancelling \subseteq (Nat \X Slots)
    /\ signal \in Signal
    /\ account \in Account
    /\ obs \in Observation \cup {NoObs}
    /\ state \in GridState
    /\ pending \in Transition \cup {NoTransition}
    /\ raised \in BOOLEAN
    /\ events \in 0..MaxEvents

Init ==
    /\ position \in StartPositions
    /\ live = {}
    /\ cancelling = {}
    /\ signal \in Signal
    /\ account \in Account
    /\ obs = NoObs
    /\ state = InitialState(position, signal)
    /\ pending = NoTransition
    /\ raised = FALSE
    /\ events = 0

-----------------------------------------------------------------------------
(* The owner of the policy.                                                *)

\* Take a snapshot and the working orders together.
Observe ==
    /\ obs' = [position |-> position, stale |-> FALSE, working |-> live]
    /\ UNCHANGED <<world, policy>>

\* Faulty variant: the cancellations of a plan are not requested.
ApplyWithoutCancels(result, before, candidate) ==
    /\ state' = result.next
    /\ live' = live \cup {Submitted(candidate.gen, result.desired, s) :
                             s \in result.plan.submit}
    /\ pending' = IF result.plan.cancel = {} THEN NoTransition
                  ELSE [previous |-> before, candidate |-> candidate,
                        desired |-> result.desired, accepted |-> result.accepted]
    /\ raised' = FALSE
    /\ UNCHANGED cancelling

\* Keep the outcome of a call and hand its plan to the venue.
Apply(result, before, candidate) ==
    /\ state' = result.next
    /\ live' = live \cup {Submitted(candidate.gen, result.desired, s) :
                             s \in result.plan.submit}
    /\ cancelling' = cancelling \cup (result.plan.cancel \cap {Id(w) : w \in live})
    /\ pending' = IF result.plan.cancel = {} THEN NoTransition
                  ELSE [previous |-> before, candidate |-> candidate,
                        desired |-> result.desired, accepted |-> result.accepted]
    /\ raised' = FALSE

\* A call either succeeds or raises and changes nothing.
Call(result, before, candidate) ==
    /\ obs' = NoObs
    /\ UNCHANGED <<position, signal, account, events>>
    /\ \/ /\ ~result.raises
          /\ Apply(result, before, candidate)
       \/ /\ result.raises
          /\ raised' = TRUE
          /\ UNCHANGED <<live, cancelling, state, pending>>

\* transition_adaptive_grid: decide, then run a new policy cycle.
TransitionCall ==
    /\ obs # NoObs
    /\ \E candidate \in {Decide(obs.position, signal, state)} :
        \E result \in {TransitionPolicy(account, obs, state, candidate,
                                        BuildLadder(candidate))} :
            Call(result, state, candidate)

\* continue_adaptive_grid_reconciliation: reconcile the pending transition.
ContinueCall ==
    /\ obs # NoObs
    /\ pending # NoTransition
    /\ \E result \in {ContinuePolicy(account, obs, pending)} :
        Call(result, pending.previous, pending.candidate)

-----------------------------------------------------------------------------
(* Market, account and venue.                                              *)

Happens == events < MaxEvents /\ events' = events + 1

MarketMoves ==
    /\ Happens
    /\ signal' \in Signal \ {signal}
    /\ UNCHANGED <<position, live, cancelling, account, obs, policy>>

AccountMoves ==
    /\ Happens
    /\ account' \in Account \ {account}
    /\ UNCHANGED <<position, live, cancelling, signal, obs, policy>>

\* The observation outlives max_data_age_ms before it is used.
ObservationAges ==
    /\ Happens
    /\ obs # NoObs
    /\ ~obs.stale
    /\ obs' = [obs EXCEPT !.stale = TRUE]
    /\ UNCHANGED <<position, live, cancelling, signal, account, policy>>

\* An order stops working: it leaves the venue and so does its cancellation.
Ends(w) ==
    /\ live' = live \ {w}
    /\ cancelling' = cancelling \ {Id(w)}

\* A working order fills for qty of what remains.
Fill(w, qty) ==
    /\ Happens
    /\ qty <= Remaining(w)
    /\ position' = position + SignedFill(w.slot, qty)
    /\ IF qty = Remaining(w) THEN Ends(w)
       ELSE /\ live' = (live \ {w}) \cup {[w EXCEPT !.filled = @ + qty]}
            /\ UNCHANGED cancelling
    /\ UNCHANGED <<signal, account, obs, policy>>

\* The venue ends an order by itself, as a post-only order that would cross.
VenueEnds(w) ==
    /\ Happens
    /\ Ends(w)
    /\ UNCHANGED <<position, signal, account, obs, policy>>

\* The venue confirms a requested cancellation.
ConfirmCancel(w) ==
    /\ Id(w) \in cancelling
    /\ Ends(w)
    /\ UNCHANGED <<position, signal, account, obs, policy, events>>

Next ==
    \/ Observe
    \/ TransitionCall
    \/ ContinueCall
    \/ MarketMoves
    \/ AccountMoves
    \/ ObservationAges
    \/ \E w \in live, qty \in 1..OrderQuantity : Fill(w, qty)
    \/ \E w \in live : VenueEnds(w)
    \/ \E w \in live : ConfirmCancel(w)

Spec == Init /\ [][Next]_vars

\* Some call consumes the observation at hand.
CallMade == obs # NoObs /\ obs' = NoObs

\* The owner keeps polling and calling, and the venue confirms cancellations.
FairSpec ==
    /\ Spec
    /\ WF_vars(Observe)
    /\ WF_obs(CallMade)
    /\ WF_vars(\E w \in live : ConfirmCancel(w))
=============================================================================
