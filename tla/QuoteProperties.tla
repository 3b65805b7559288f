--------------------------- MODULE QuoteProperties ---------------------------
(***************************************************************************)
(* What the quoting of QuoteExecution has to guarantee while fills race    *)
(* with observations, decisions and cancellations.                         *)
(***************************************************************************)
EXTENDS QuoteExecution, FiniteSetsExt

Buys == {w \in live : IsBuy(w.slot)}
Sells == {w \in live : ~IsBuy(w.slot)}

\* The working orders whose id appears in a step.
Entering == {w \in live' : \A v \in live : Id(v) # Id(w)}

Outstanding(orders) == MapThenSumSet(Remaining, orders)

\* Whether a new-risk order at the slot trades against the position.
Opposes(pos, slot) == IF IsBuy(slot) THEN pos < 0 ELSE pos > 0

-----------------------------------------------------------------------------
\* Cancel-before-replace over several cycles: whatever fills, ends or is
\* cancelled in between, the venue never works orders of two generations, and
\* no two orders under one id (execution/reconcile.py:60-73).
OneGeneration ==
    \A v, w \in live : v.gen = w.gen /\ (v.slot = w.slot => v = w)

\* An order at the venue belongs to the committed state or to the candidate
\* after it; a generation older than the committed one has left the venue
\* (application/passive_policy.py:143 and 192-196).
LiveGenerations ==
    \A w \in live : w.gen \in {state.gen, state.gen + 1}

\* If every order on one side fills and none on the other, the position stays
\* within the limit: the gate bounded it from the position it observed, and
\* fills since then only moved exposure from the orders into the position
\* (risk/controller.py:64-103).
ExposureBounded ==
    /\ position + Outstanding(Buys) <= MaxAbsPosition
    /\ position - Outstanding(Sells) >= -MaxAbsPosition

\* The reduce-only orders at the venue never exceed the position they reduce,
\* even though the venue fills them while decisions are made on older
\* positions (risk/controller.py:73-91, strategy/adaptive_ladder.py:173-245).
ReduceOnlyCovered ==
    /\ Outstanding({w \in Buys : w.order.reduceOnly}) <= Larger(-position, 0)
    /\ Outstanding({w \in Sells : w.order.reduceOnly}) <= Larger(position, 0)

\* When a state is committed, every order at the venue is an intent of its
\* ladder under its generation: no remainder of an earlier or refused ladder
\* lives on under the new state (application/passive_policy.py:143).
CommitMatchesBook ==
    [][state' # state =>
        \A w \in live' : Matches(state'.gen, BuildLadder(state'), w)]_vars

\* A committed state has its whole ladder placed: no refused candidate is
\* committed through the reduce-only part that risk left of it
\* (application/passive_policy.py:178-196, README.md:133).
NoSmuggledCommit ==
    [][state' # state =>
        \A s \in Placed(BuildLadder(state')) :
            \E w \in live' \cup obs.working : Id(w) = <<state'.gen, s>>]_vars

\* No order enters the venue from a call whose snapshot is stale, in a
\* drawdown, or with the account's open orders beyond their limit: the
\* continuation after a cancellation asks hard risk again.
RiskClearedEntry ==
    [][Entering # {} =>
        /\ ~obs.stale
        /\ ~account.drawdown
        /\ account.others + Cardinality(live') <= MaxOpenOrders]_vars

\* The only calls that can raise are those that meet working orders of a
\* refused candidate, whose generation the next candidate uses again
\* (execution/reconcile.py:52-55, strategy/adaptive_grid.py:402).
RaisesOnlyAfterRefusal ==
    [][raised' /\ obs # NoObs /\ obs' = NoObs =>
        \E w \in obs.working : w.gen = state.gen + 1]_vars

\* A decision, also one made while the transition of an earlier one is pending,
\* opens no risk against the position it observes: it reverses from flat
\* (strategy/conditional_short.py:48-60).  A continuation decides nothing.
DecisionsReverseFromFlat ==
    [][\A w \in Entering :
        TransitionCall /\ ~w.order.reduceOnly => ~Opposes(obs.position, w.slot)]_vars

\* Long, flat, short: no call whatever opens risk against the position it
\* observes (docs: 2026-08-09-long-biased-adaptive-grid-design.md, section 12).
ReverseFromFlat ==
    [][\A w \in Entering :
        ~w.order.reduceOnly => ~Opposes(obs.position, w.slot)]_vars

\* The ids at the venue and the committed generation behave as QuoteBook says.
Book == INSTANCE QuoteBook
            WITH QuoteSlots <- Slots, book <- {Id(w) : w \in live}, committed <- state.gen

ImplementsQuoteBook == Book!Spec

-----------------------------------------------------------------------------
\* What the next decision would do from an exact observation.
Current == [position |-> position, stale |-> FALSE, working |-> live]
NextDecision == Decide(position, signal, state)
NextCycle ==
    TransitionPolicy(account, Current, state, NextDecision, BuildLadder(NextDecision))

\* Nothing is left to cancel, to submit or to commit.
Settled(cycle) ==
    /\ cycle.plan = [cancel |-> {}, submit |-> {}]
    /\ cycle.next = state
    /\ cancelling = {}

\* Once market, account and venue are quiet, the cancel-before-replace cycles
\* end: the working orders stay what the policy and hard risk want, or a
\* partly filled order of a refused candidate makes every decision raise.
SettlesOrBlocks == <>[](NextCycle.raises \/ Settled(NextCycle))
=============================================================================
