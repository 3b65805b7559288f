---------------------------- MODULE Calibration ----------------------------
(***************************************************************************)
(* The online calibration of the market (calibration/engine.py,            *)
(* microstructure_engine.py, order_flow.py, universal_engine.py).          *)
(*                                                                         *)
(* One call of update_universal_calibration takes an observation and the   *)
(* labels that its caller hands over: it checks them against the sampling  *)
(* contract, advances the foundation, then the microstructure label by     *)
(* label, and returns both as one state.  It may raise in between; the     *)
(* states are immutable, so that what it had done until then is dropped.   *)
(* Labels mature at some time and may be handed over before or after it,   *)
(* in any order.                                                           *)
(*                                                                         *)
(* A mid is the exponent of a fixed base, so that log returns are whole    *)
(* numbers.  The arithmetic of scores and fits is left out.                *)
(***************************************************************************)
EXTENDS Integers, Sequences, FiniteSets

CONSTANTS
    Mids,             \* the mids observed, as exponents
    Rates,            \* the funding rates observed
    Labels,           \* records [feature, matured, value]; value tells equal ones apart
    Interval,         \* observation_interval_ms
    Tolerance,        \* interval_tolerance_ms
    LabelHorizon,     \* ofi_horizon_ms
    VolatilityWindow, \* volatility.window
    MinReturns,       \* volatility.min_samples
    TrendHorizon,     \* trend.horizon
    FundingWindow,    \* funding.window
    OfiWindow,        \* ofi_impact.window
    MaxTime           \* bound on the time of observations

ASSUME CalibrationAssumption ==
    /\ Mids \subseteq Int
    /\ IsFiniteSet(Labels) /\ Labels \subseteq [feature : Nat, matured : Nat, value : Int]
    /\ Interval \in Nat \ {0} /\ Tolerance \in 0..(Interval - 1) /\ LabelHorizon \in Nat
    /\ VolatilityWindow \in Nat \ {0} /\ MinReturns \in 1..VolatilityWindow
    /\ TrendHorizon \in Nat \ {0} /\ FundingWindow \in Nat \ {0}
    /\ OfiWindow \in Nat \ {0} /\ MaxTime \in Nat

NoRate == "no rate"
NoCall == [step |-> "none"]
Never == -1

VARIABLES
    foundation, \* CalibrationEngineState: generation, last, prices, volatility, funding
    micro,      \* MicrostructureCalibrationState: generation, last, samples
    call,       \* the update under way, with the state it has computed so far
    clock,      \* the time of the newest observation offered, accepted or not
    history,    \* every accepted observation
    rates,      \* every funding rate that came with an accepted observation
    accepted,   \* every label of an accepted observation
    outcome     \* how the last call ended

vars == <<foundation, micro, call, clock, history, rates, accepted, outcome>>

Foundation ==
    [generation : Nat, last : Nat \cup {Never},
     prices : Seq(Mids), volatility : Seq(Mids), funding : Seq(Rates)]

Micro == [generation : Nat, last : Nat \cup {Never}, samples : SUBSET Labels]

Observation == [time : Nat, mid : Mids, rate : Rates \cup {NoRate}]

Call ==
    [observation : Observation, labels : SUBSET Labels,
     foundation : Foundation, step : {"foundation", "labels"},
     todo : SUBSET Labels, samples : SUBSET Labels]

Outcomes == {"none", "returned", "cadence", "label horizon", "volatility scale", "state"}

TypeOK ==
    /\ foundation \in Foundation
    /\ micro \in Micro
    /\ call \in Call \cup {NoCall}
    /\ clock \in Nat \cup {Never}
    /\ history \in Seq(Observation) /\ rates \in Seq(Rates)
    /\ accepted \subseteq Labels
    /\ outcome \in Outcomes

Init ==
    /\ foundation = [generation |-> 0, last |-> Never,
                     prices |-> <<>>, volatility |-> <<>>, funding |-> <<>>]
    /\ micro = [generation |-> 0, last |-> Never, samples |-> {}]
    /\ call = NoCall
    /\ clock = Never
    /\ history = <<>> /\ rates = <<>> /\ accepted = {}
    /\ outcome = "none"

-----------------------------------------------------------------------------
(* Windows and robust statistics.                                          *)

\* values[-count:]
Last(values, count) ==
    SubSeq(values, IF Len(values) > count THEN Len(values) - count + 1 ELSE 1, Len(values))

\* The value of rank k of a sequence in ascending order.
Ranked(values, k) ==
    CHOOSE v \in {values[i] : i \in DOMAIN values} :
        /\ Cardinality({i \in DOMAIN values : values[i] < v}) < k
        /\ Cardinality({i \in DOMAIN values : values[i] <= v}) >= k

\* median_decimal, doubled.
TwiceMedian(values) ==
    Ranked(values, (Len(values) + 1) \div 2) + Ranked(values, Len(values) \div 2 + 1)

Returns(prices) == [i \in 1..(Len(prices) - 1) |-> prices[i + 1] - prices[i]]

\* mad_decimal, up to a positive factor.
Deviation(values) ==
    LET distance(v) == IF 2 * v >= TwiceMedian(values) THEN 2 * v - TwiceMedian(values)
                                                       ELSE TwiceMedian(values) - 2 * v
    IN  TwiceMedian([i \in DOMAIN values |-> distance(values[i])])

\* update_robust_volatility: a scale that is available, and zero.
ScaleIsZero(prices) == Len(prices) - 1 >= MinReturns /\ Deviation(Returns(prices)) = 0

\* The order in which labels are sorted: maturity, feature time, values.
Later(m, l) ==
    \/ m.matured > l.matured
    \/ m.matured = l.matured /\ m.feature > l.feature
    \/ m.matured = l.matured /\ m.feature = l.feature /\ m.value > l.value

Matured(labels, time) == {l \in labels : l.matured <= time}

\* matured[-window:] of sorted labels.
Latest(labels) == {l \in labels : Cardinality({m \in labels : Later(m, l)}) < OfiWindow}

\* Faulty variant: the window is cut over matured and pending labels alike.
RetainedOfAll(labels, time) == Latest(labels)

\* update_ofi_impact: the labels a state keeps.
Retained(labels, time) == Latest(Matured(labels, time)) \cup (labels \ Matured(labels, time))

-----------------------------------------------------------------------------
(* The foundation.                                                         *)

OnCadence(from, to) == from = Never \/ (to - from) \in (Interval - Tolerance)..(Interval + Tolerance)

OnHorizon(label) ==
    (label.matured - label.feature) \in (LabelHorizon - Tolerance)..(LabelHorizon + Tolerance)

HistoryCapacity == IF VolatilityWindow > TrendHorizon THEN VolatilityWindow + 1 ELSE TrendHorizon + 1

\* update_funding_calibration: a missing rate changes nothing.
NextFunding(values, rate) ==
    IF rate = NoRate THEN values ELSE Last(Append(values, rate), FundingWindow)

\* Faulty variant: a window of returns is cut like one of prices.
AdvancedShort(state, observation) ==
    [generation |-> state.generation + 1,
     last |-> observation.time,
     prices |-> Last(Append(state.prices, observation.mid), HistoryCapacity),
     volatility |-> Last(Append(state.volatility, observation.mid), VolatilityWindow),
     funding |-> NextFunding(state.funding, observation.rate)]

\* update_calibration_engine, up to the construction of the next state.
Advanced(state, observation) ==
    [generation |-> state.generation + 1,
     last |-> observation.time,
     prices |-> Last(Append(state.prices, observation.mid), HistoryCapacity),
     volatility |-> Last(Append(state.volatility, observation.mid), VolatilityWindow + 1),
     funding |-> NextFunding(state.funding, observation.rate)]

\* CalibrationEngineState.__post_init__ of a positive generation.
Accepts(state) ==
    /\ state.prices # <<>> /\ state.volatility # <<>>
    /\ state.generation >= Len(state.prices) /\ state.generation >= Len(state.volatility)
    /\ state.generation >= Len(state.funding)
    /\ Len(state.volatility) <= Len(state.prices)
    /\ Last(state.prices, Len(state.volatility)) = state.volatility

-----------------------------------------------------------------------------
(* The call.                                                               *)

Idle == call = NoCall

Raise(reason) ==
    /\ outcome' = reason /\ call' = NoCall
    /\ UNCHANGED <<foundation, micro, history, rates, accepted>>

\* Faulty variant: the cadence is that of all observations, also refused ones.
RefusalSinceOffer(observation, labels) ==
    CASE \E l \in labels : ~OnHorizon(l) -> "label horizon"
      [] (\A l \in labels : OnHorizon(l)) /\ ~OnCadence(clock, observation.time) -> "cadence"
      [] OTHER -> IF Accepts(Advanced(foundation, observation)) THEN "none" ELSE "state"

\* What speaks against an observation and its labels before any of the two
\* engines has done anything for good; "none" if nothing does.
Refusal(observation, labels) ==
    CASE \E l \in labels : ~OnHorizon(l) -> "label horizon"
      [] (\A l \in labels : OnHorizon(l)) /\ ~OnCadence(foundation.last, observation.time) -> "cadence"
      [] OTHER -> IF Accepts(Advanced(foundation, observation)) THEN "none" ELSE "state"

Started(observation, labels) ==
    [observation |-> observation, labels |-> labels,
     foundation |-> Advanced(foundation, observation), step |-> "foundation",
     todo |-> {}, samples |-> {}]

\* Faulty variant: the foundation advances for good before the microstructure
\* is asked.
CommitAtOnce(observation, labels) ==
    /\ Idle /\ observation.time >= clock
    /\ clock' = observation.time
    /\ Refusal(observation, labels) = "none"
    /\ foundation' = Advanced(foundation, observation)
    /\ call' = Started(observation, labels)
    /\ UNCHANGED <<micro, history, rates, accepted, outcome>>

\* update_universal_calibration as far as the foundation's update.  The caller
\* offers observations in the order of time, with labels that no accepted
\* observation came with.
UpdateFoundation(observation, labels) ==
    /\ Idle /\ observation.time >= clock
    /\ clock' = observation.time
    /\ IF Refusal(observation, labels) = "none"
       THEN /\ call' = Started(observation, labels)
            /\ UNCHANGED <<foundation, micro, history, rates, accepted, outcome>>
       ELSE Raise(Refusal(observation, labels))

\* update_microstructure_engine requires a positive scale where there is one.
StartMicrostructure ==
    /\ ~Idle /\ call.step = "foundation"
    /\ IF ScaleIsZero(call.foundation.volatility)
       THEN Raise("volatility scale")
       ELSE /\ call' = [call EXCEPT !.step = "labels", !.todo = call.labels,
                                    !.samples = micro.samples]
            /\ UNCHANGED <<foundation, micro, history, rates, accepted, outcome>>
    /\ UNCHANGED clock

\* _update_ofi_state: the labels one after the other, in their order.
AddLabel ==
    /\ ~Idle /\ call.step = "labels"
    /\ \E l \in call.todo :
        /\ \A m \in call.todo : ~Later(l, m)
        /\ call' = [call EXCEPT !.todo = @ \ {l},
                                !.samples = Retained(@ \cup {l}, call.observation.time)]
    /\ UNCHANGED <<foundation, micro, clock, history, rates, accepted, outcome>>

\* The state of both engines is built of what the call has computed.
Return ==
    /\ ~Idle /\ call.step = "labels" /\ call.todo = {}
    /\ IF call.foundation.generation = micro.generation + 1
       THEN /\ foundation' = call.foundation
            /\ micro' = [generation |-> micro.generation + 1, last |-> call.observation.time,
                         samples |-> call.samples]
            /\ call' = NoCall /\ outcome' = "returned"
            /\ history' = Append(history, call.observation)
            /\ rates' = IF call.observation.rate = NoRate THEN rates
                        ELSE Append(rates, call.observation.rate)
            /\ accepted' = accepted \cup call.labels
       ELSE Raise("state")
    /\ UNCHANGED clock

Offers ==
    {[time |-> t, mid |-> m, rate |-> r] :
        t \in 0..MaxTime, m \in Mids, r \in Rates \cup {NoRate}}

Next ==
    \/ \E o \in Offers, labels \in SUBSET (Labels \ accepted) : UpdateFoundation(o, labels)
    \/ StartMicrostructure
    \/ AddLabel
    \/ Return

Spec == Init /\ [][Next]_vars

-----------------------------------------------------------------------------
\* What the impact of order flow is fitted to.
FitSamples == Latest(Matured(micro.samples, micro.last))

\* The fit is made of the latest matured labels of all that were ever handed
\* over, early or late, in whatever calls, and no pending label is lost
\* (calibration/order_flow.py:205-225, microstructure_engine.py:192-217).
WindowIsLatest ==
    /\ FitSamples = Latest(Matured(accepted, micro.last))
    /\ micro.samples \ Matured(micro.samples, micro.last) = accepted \ Matured(accepted, micro.last)

HistoryMids == [i \in DOMAIN history |-> history[i].mid]

\* The retained prices and rates are the most recent ones of the accepted
\* observations, with no gap and none of a call that raised.
HistoriesAreRecent ==
    /\ foundation.generation = Len(history)
    /\ foundation.prices = Last(HistoryMids, HistoryCapacity)
    /\ foundation.volatility = Last(HistoryMids, VolatilityWindow + 1)
    /\ foundation.funding = Last(rates, FundingWindow)

\* No sequence of calls makes the engines build a state that their own
\* constructors refuse (calibration/engine.py:53-92, universal_engine.py:41-51).
StatesAreConsistent == outcome # "state"

\* Between calls, whichever engine raised in one, both are at the same
\* observation (calibration/universal_engine.py:98-116).
LockStep ==
    Idle => foundation.generation = micro.generation /\ foundation.last = micro.last

\* The price that the trend compares with was observed a horizon ago, within
\* the tolerance of each observation, whatever was refused in between: the
\* counts of the windows are elapsed times (calibration/sampling.py:47-56).
TrendSpansHorizon ==
    LET newest == Len(foundation.prices)
        older == newest - TrendHorizon
        elapsed == history[Len(history)].time - history[Len(history) - TrendHorizon].time
    IN  older >= 1 =>
            /\ foundation.prices[older] = history[Len(history) - TrendHorizon].mid
            /\ elapsed \in (TrendHorizon * (Interval - Tolerance))..(TrendHorizon * (Interval + Tolerance))

\* A feed that has missed an observation is refused for ever: no later one is
\* on cadence with the last accepted.
GapIsFinal ==
    [][foundation.last # Never /\ Idle /\ clock > foundation.last + Interval + Tolerance
        => foundation' = foundation /\ micro' = micro /\ Idle']_vars

=============================================================================
