---------------------------- MODULE AccountProofs ----------------------------
(***************************************************************************)
(* Proofs about an account on the calibrated adaptive grid, for every set  *)
(* of markets, every sizing and every bound on its generations.            *)
(*                                                                         *)
(* The first part takes a market through sizing and rounding to a policy   *)
(* of the target pipeline.  The second part follows a transition from its  *)
(* decision over any number of continuations: whatever works belongs to    *)
(* the ladder of the state or of the one candidate after it.               *)
(***************************************************************************)
EXTENDS CalibratedAccount, TLAPS

-----------------------------------------------------------------------------
(* Targets.                                                                *)

\* The stages of a target do not look at the grid's cap and lot, nor at an
\* account, so that what TargetProofs shows of them holds of every instance.
Pipeline == INSTANCE TargetProofs WITH
    MaxInventory <- 1, OrderQuantity <- 1, Policies <- {}, Trends <- {}, Fundings <- {},
    policy <- state, trend <- market, funding <- market, phase <- pending, ladder <- working

\* The stages of an instance are those the lemmas are about.
LEMMA StagesAreAlike ==
    ASSUME NEW cap, NEW lot, NEW c, NEW p, NEW t, NEW f
    PROVE  Stage(cap, lot)!DecideTarget(c, p, t, f) = Pipeline!DecideTarget(c, p, t, f)
BY DEF Stage!DecideTarget, Pipeline!DecideTarget, Stage!DeRisked, Pipeline!DeRisked,
       Stage!EnforceFlatBeforeReverse, Pipeline!EnforceFlatBeforeReverse,
       Stage!FundingBiased, Pipeline!FundingBiased, Stage!Requested, Pipeline!Requested,
       Stage!Baseline, Pipeline!Baseline, Stage!Portion, Pipeline!Portion,
       Stage!Phase, Pipeline!Phase, Stage!Sign, Pipeline!Sign,
       Stage!KeptFraction, Pipeline!KeptFraction, Stage!Preferred, Pipeline!Preferred,
       Stage!ShortRequest, Pipeline!ShortRequest,
       Stage!ReversalRequest, Pipeline!ReversalRequest,
       Stage!OppositeTarget, Pipeline!OppositeTarget, Stage!Abs, Pipeline!Abs,
       Stage!Larger, Pipeline!Larger, Stage!Smaller, Pipeline!Smaller

\* What TargetProofs assumes of its constants holds of these.
LEMMA PipelineAssumptions ==
    /\ Pipeline!OrdersAssumption /\ Pipeline!AdaptiveGridAssumption
    /\ Pipeline!TargetPipelineAssumption /\ Pipeline!TargetTrackingAssumption
<1>1. Pipeline!OrdersAssumption
  BY OrdersAssumption DEF Pipeline!OrdersAssumption, Pipeline!Order, Order
<1> QED
  BY <1>1, CalibratedAdaptiveAssumption
     DEF Pipeline!AdaptiveGridAssumption,
         Pipeline!TargetPipelineAssumption, Pipeline!TargetTrackingAssumption

\* TargetFacts for the account's scale of scores.
LEMMA StageTargets ==
    ASSUME NEW c \in Pipeline!Policy, NEW p \in Int,
           NEW t \in -Unit..Unit, NEW f \in -Unit..Unit
    PROVE  LET d == Pipeline!DecideTarget(c, p, t, f)
           IN  /\ d.given \in Int /\ Pipeline!Abs(d.given) <= c.cap
               /\ d.target \in Int /\ Pipeline!Abs(d.target) <= c.cap
               /\ c.features.reversal \/ c.features.funding =>
                    (p > 0 => d.target >= 0) /\ (p < 0 => d.target <= 0)
<1>1. t \in Pipeline!Score /\ f \in Pipeline!Score
  BY DEF Pipeline!Score
<1>2. c.features.reversal \/ c.features.funding => Pipeline!Gated(c)
  BY DEF Pipeline!Gated
<1> QED
  BY <1>1, <1>2, Pipeline!TargetFacts, PipelineAssumptions
     DEF Pipeline!OrdersAssumption, Pipeline!AdaptiveGridAssumption,
         Pipeline!TargetPipelineAssumption, Pipeline!TargetTrackingAssumption

\* The stages look at these fields only.
LEMMA LotIsNotLookedAt ==
    ASSUME NEW c, NEW b, c.features = b.features, c.profile = b.profile, c.cap = b.cap,
           c.baseLong = b.baseLong, c.maxShort = b.maxShort, NEW p, NEW t, NEW f
    PROVE  Pipeline!DecideTarget(c, p, t, f) = Pipeline!DecideTarget(b, p, t, f)
BY DEF Pipeline!DecideTarget, Pipeline!DeRisked, Pipeline!FundingBiased, Pipeline!Requested,
       Pipeline!Baseline, Pipeline!Preferred, Pipeline!ShortRequest, Pipeline!ReversalRequest

\* A minimum of four.
LEMMA MinOfFour ==
    ASSUME NEW a \in Nat, NEW b \in Nat, NEW c \in Nat, NEW d \in Nat
    PROVE  Min({a, b, c, d}) \in Nat
<1>1. \E x \in {a, b, c, d} : \A y \in {a, b, c, d} : x =< y
  <2> DEFINE x == Smaller(Smaller(a, b), Smaller(c, d))
  <2>1. x \in {a, b, c, d} /\ \A y \in {a, b, c, d} : x =< y
    BY DEF Smaller
  <2> QED
    BY <2>1
<1>2. Min({a, b, c, d}) \in {a, b, c, d}
  BY <1>1 DEF Min
<1> QED
  BY <1>2

\* Quotients and products of quantities are quantities.
LEMMA DivType ==
    ASSUME NEW a \in Nat, NEW d \in Nat \ {0}
    PROVE  a \div d \in Nat
OBVIOUS

LEMMA TimesType ==
    ASSUME NEW a \in Nat, NEW b \in Nat
    PROVE  a * b \in Nat /\ (a # 0 /\ b # 0 => a * b # 0)
OBVIOUS

\* A part of a cap is within the cap.
LEMMA PartOfCap ==
    ASSUME NEW cap \in Nat, NEW part \in 0..Unit
    PROVE  (cap * part) \div Unit \in Nat /\ (cap * part) \div Unit <= cap
<1> DEFINE n == cap * part
           q == n \div Unit
<1>1. Unit \in Nat \ {0} /\ part \in Nat /\ part <= Unit
  BY CalibratedAdaptiveAssumption
<1>2. n \in Nat /\ n <= cap * Unit
  BY <1>1
<1> HIDE DEF n
<1>3. q \in Nat /\ Unit * q <= n
  BY <1>1, <1>2
<1>4. Unit * q <= Unit * cap
  <2> HIDE DEF q
  <2> QED
    BY <1>1, <1>2, <1>3
<1> HIDE DEF q
<1>5. q <= cap
  BY <1>1, <1>3, <1>4
<1> QED
  BY <1>3, <1>5 DEF q, n

\* What calibration says of a market for which inputs could be prepared.
LEMMA ReadyMarket ==
    ASSUME NEW m \in Markets, Preparation(m) = "ready"
    PROVE  /\ m.mid \in Nat \ {0} /\ m.volatility \in Nat
           /\ m.trend \in -Unit..Unit /\ Funding(m) \in -Unit..Unit
           /\ Config(m).maxShort # 0
<1>1. m \in Market
  BY CalibratedAccountAssumption
<1>2. Readiness(m) = "ready" /\ Config(m).maxShort # 0
  BY DEF Preparation
<1>3. m.volatility # Unready /\ m.trend # Unready /\ ~(ActiveFeatures.funding /\ m.funding = Unready)
  BY <1>2 DEF Readiness
<1>4. 0 \in -Unit..Unit
  BY CalibratedAdaptiveAssumption
<1> QED
  BY <1>1, <1>2, <1>3, <1>4 DEF Market, Funding

\* The configuration of a ready market is a policy whose cap is not zero.
LEMMA ConfigFacts ==
    ASSUME NEW m \in Markets, Preparation(m) = "ready"
    PROVE  /\ Config(m).cap \in Nat \ {0}
           /\ Config(m).features = ActiveFeatures /\ Config(m).profile = NoProfile
           /\ Config(m).baseLong \in Nat /\ Config(m).baseLong <= Config(m).cap
           /\ Config(m).maxShort \in 1..Config(m).cap
<1> DEFINE cap == InventoryCapacity(m.mid, m.volatility)
           base == (cap * BaseLongPart) \div Unit
           short == (cap * MaxShortPart) \div Unit
<1>1. m.mid \in Nat \ {0} /\ m.volatility \in Nat /\ Config(m).maxShort # 0
  BY ReadyMarket
<1>2. /\ BaseLongPart \in 0..Unit /\ MaxShortPart \in 0..Unit
      /\ Unit \in Nat \ {0} /\ Equity \in Nat /\ NotionalPart \in Nat /\ LossPart \in Nat
      /\ MarginNotional \in Nat /\ VenueQuantity \in Nat /\ VolatilityFloor \in Nat \ {0}
  BY CalibratedAdaptiveAssumption
<1>3. cap \in Nat
  <2>1. Equity * NotionalPart \in Nat /\ Equity * LossPart \in Nat
    BY <1>2, TimesType
  <2>2. Larger(m.volatility, VolatilityFloor) \in Nat \ {0}
    BY <1>1, <1>2 DEF Larger
  <2>3. Unit * m.mid \in Nat \ {0} /\ m.mid * Larger(m.volatility, VolatilityFloor) \in Nat \ {0}
    BY <1>1, <1>2, <2>2, TimesType
  <2> DEFINE a == (Equity * NotionalPart) \div (Unit * m.mid)
             b == MarginNotional \div m.mid
             c == (Equity * LossPart) \div (m.mid * Larger(m.volatility, VolatilityFloor))
  <2>4. a \in Nat /\ b \in Nat /\ c \in Nat
    BY <1>1, <1>2, <2>1, <2>3, DivType
  <2>5. cap = Min({a, b, c, VenueQuantity})
    BY DEF InventoryCapacity
  <2> HIDE DEF a, b, c, cap
  <2> QED
    BY <1>2, <2>4, <2>5, MinOfFour
<1>4. /\ Config(m).cap = cap /\ Config(m).baseLong = base /\ Config(m).maxShort = short
      /\ Config(m).features = ActiveFeatures /\ Config(m).profile = NoProfile
  BY DEF Config
<1> HIDE DEF cap
<1>5. base \in Nat /\ base <= cap /\ short \in Nat /\ short <= cap
  BY <1>2, <1>3, PartOfCap
<1> HIDE DEF base, short
<1> QED
  BY <1>1, <1>3, <1>4, <1>5

\* A decision for a ready market: within the new cap, on the position's side.
LEMMA DecisionFacts ==
    ASSUME NEW m \in Markets, Preparation(m) = "ready", NEW p \in Int
    PROVE  LET d == TargetDecision(Config(m), m, p)
           IN  /\ d.given \in Int /\ Abs(d.given) <= Config(m).cap
               /\ d.target \in Int /\ Abs(d.target) <= Config(m).cap
               /\ p > 0 => d.target >= 0
               /\ p < 0 => d.target <= 0
<1> DEFINE c == Config(m)
           b == [features |-> c.features, cap |-> c.cap, baseLong |-> c.baseLong,
                 maxShort |-> c.maxShort, profile |-> c.profile]
           d == Pipeline!DecideTarget(b, p, m.trend, Funding(m))
<1>1. /\ c.cap \in Nat \ {0} /\ c.features = ActiveFeatures /\ c.profile = NoProfile
      /\ c.baseLong \in Nat /\ c.baseLong <= c.cap /\ c.maxShort \in 1..c.cap
  BY ConfigFacts
<1>2. TargetDecision(c, m, p) = d
  <2>1. TargetDecision(c, m, p) = Pipeline!DecideTarget(c, p, m.trend, Funding(m))
    BY StagesAreAlike DEF TargetDecision
  <2> HIDE DEF c
  <2>2. Pipeline!DecideTarget(c, p, m.trend, Funding(m)) = d
    BY LotIsNotLookedAt
  <2> QED
    BY <2>1, <2>2
<1> HIDE DEF c
<1>3. b \in Pipeline!Policy
  BY <1>1, CalibratedAdaptiveAssumption DEF Pipeline!Policy, Pipeline!Features
<1>4. /\ b.cap = c.cap
      /\ b.features.reversal \/ b.features.funding
  BY <1>1, CalibratedAccountAssumption
<1> HIDE DEF b
<1>5. m.trend \in -Unit..Unit /\ Funding(m) \in -Unit..Unit
  BY ReadyMarket
<1>6. /\ d.given \in Int /\ Pipeline!Abs(d.given) <= b.cap
      /\ d.target \in Int /\ Pipeline!Abs(d.target) <= b.cap
      /\ b.features.reversal \/ b.features.funding =>
            (p > 0 => d.target >= 0) /\ (p < 0 => d.target <= 0)
  BY <1>3, <1>5, StageTargets
<1> HIDE DEF d
<1> QED
  BY <1>2, <1>4, <1>6 DEF Pipeline!Abs, Abs, c

-----------------------------------------------------------------------------
(* The account.                                                            *)

\* Working orders and transitions as the cycles make them, with their fields.
Held(w) ==
    /\ w = [gen |-> w.gen, slot |-> w.slot, order |-> w.order, filled |-> w.filled]
    /\ w.slot \in Slots

Waiting(t) ==
    t = [previous |-> t.previous, candidate |-> t.candidate, desired |-> t.desired,
         accepted |-> t.accepted, limit |-> t.limit]

\* A state whose ladder can be rebuilt: its target is within its cap.
Rebuildable(s) == s.grid.gen \in Int /\ Abs(s.grid.target) <= s.config.cap

\* What is desired of a candidate's ladder: some of it, or all once accepted.
PartOf(desired, accepted, ladder) ==
    /\ \A slot \in Placed(desired) : desired[slot] = ladder[slot]
    /\ accepted => desired = ladder

\* The candidate of a cycle is the state itself or its next generation.
Follows(candidate, s) == candidate = s \/ candidate.grid.gen = s.grid.gen + 1

\* What works under the state's generation is of the state's ladder, and a
\* transition to continue still stands on the state.
IInv ==
    /\ position \in Int /\ market \in Markets
    /\ Rebuildable(state)
    /\ \A w \in working : Held(w)
    /\ \A w \in working : w.gen = state.grid.gen => LadderOf(state)[w.slot] = w.order
    /\ \A t \in pending :
        /\ Waiting(t)
        /\ t.previous = state /\ Follows(t.candidate, state) /\ Rebuildable(t.candidate)
        /\ PartOf(t.desired, t.accepted, LadderOf(t.candidate))

LEMMA DecidedGrid ==
    ASSUME NEW m \in Markets, Preparation(m) = "ready", NEW p \in Int, NEW g \in Int
    PROVE  Rebuildable([grid |-> GridFor(Config(m), m, p, g), config |-> Config(m)])
<1>1. Abs(TargetDecision(Config(m), m, p).target) <= Config(m).cap
  BY DecisionFacts
<1> QED
  BY <1>1 DEF Rebuildable, GridFor

LEMMA Decided ==
    ASSUME NEW m \in Markets, Preparation(m) = "ready", NEW p \in Int,
           NEW s, Rebuildable(s)
    PROVE  Rebuildable(Decide(m, p, s)) /\ Follows(Decide(m, p, s), s)
<1> DEFINE candidate == [grid |-> GridFor(Config(m), m, p, s.grid.gen + 1), config |-> Config(m)]
<1>1. s.grid.gen + 1 \in Int
  BY DEF Rebuildable
<1>2. Rebuildable(candidate)
  BY <1>1, DecidedGrid
<1>3. candidate.grid.gen = s.grid.gen + 1
  BY DEF GridFor
<1>4. Decide(m, p, s) \in {candidate, s}
  BY DEF Decide
<1> HIDE DEF candidate
<1> QED
  BY <1>2, <1>3, <1>4 DEF Follows

\* What a cycle desires, plans and keeps.
LEMMA CycleFacts ==
    ASSUME NEW limit, NEW candidate, NEW ladder, NEW previous, NEW may,
           Follows(candidate, previous), previous.grid.gen \in Int
    PROVE  LET r == Cycle(limit, candidate, ladder, previous, may)
           IN  /\ r.plan = Risk(limit)!Plan(candidate.grid.gen, r.desired, working)
               /\ r.accepted => may /\ r.desired = ladder
               /\ \A slot \in Placed(r.desired) : r.desired[slot] = ladder[slot]
               /\ r.next = IF r.accepted /\ r.plan.cancel = {} THEN candidate ELSE previous
<1> DEFINE q == Risk(limit)!Cycle(Account, Observation, previous.grid, candidate.grid, ladder, may)
           r == Cycle(limit, candidate, ladder, previous, may)
           filtered == Risk(limit)!AssessDesiredLadder(Account, Observation, ladder).filtered
<1>1. /\ q.plan = Risk(limit)!Plan(candidate.grid.gen, q.desired, working)
      /\ q.accepted => may
      /\ q.desired = IF q.accepted THEN ladder ELSE Risk(limit)!ReduceOnlyPart(filtered)
      /\ q.next = IF q.accepted /\ q.plan.cancel = {} THEN candidate.grid ELSE previous.grid
  BY DEF Risk!Cycle, Observation
<1>2. /\ r.plan = q.plan /\ r.accepted = q.accepted /\ r.desired = q.desired
      /\ r.next = IF q.next = candidate.grid THEN candidate ELSE previous
  BY DEF Cycle, Risk!Cycle
<1>3. \E taken : filtered = [s \in Slots |-> IF s \in taken THEN ladder[s] ELSE NoOrder]
  BY DEF Risk!AssessDesiredLadder, Risk!AssessLadder, Risk!Keep, Risk!Slots, Slots
<1> HIDE DEF q, r, filtered
<1>4. \A slot \in Placed(Risk(limit)!ReduceOnlyPart(filtered)) :
        Risk(limit)!ReduceOnlyPart(filtered)[slot] = ladder[slot]
  BY <1>3 DEF Risk!ReduceOnlyPart, Risk!Slots, Slots, Placed
<1>5. candidate.grid = previous.grid => candidate = previous
  BY DEF Follows
<1>6. r.next = IF r.accepted /\ r.plan.cancel = {} THEN candidate ELSE previous
  BY <1>1, <1>2, <1>5
<1> QED
  BY <1>1, <1>2, <1>4, <1>6 DEF r

\* A plan that cancels nothing: what works is desired, and what is desired and
\* does not work is submitted.
LEMMA PlanFacts ==
    ASSUME NEW limit, NEW gen, NEW desired
    PROVE  LET plan == Risk(limit)!Plan(gen, desired, working)
           IN  /\ \A w \in working :
                    Id(w) \notin plan.cancel =>
                        w.gen = gen /\ desired[w.slot] = w.order /\ w.order # NoOrder
               /\ plan.submit \subseteq Placed(desired)
               /\ plan.cancel = {} =>
                    \A slot \in Placed(desired) \ plan.submit :
                        \E w \in working : w.gen = gen /\ w.slot = slot
BY DEF Risk!Plan, Risk!Conflicts, Risk!Matches, Risk!IsDesired, Risk!Missing, Risk!Id, Id,
       Risk!Placed, Placed, Risk!Slots, Slots

\* A cycle on the state of the account, in parts.
Applied(candidate, ladder, may, limit) ==
    /\ Follows(candidate, state) /\ Rebuildable(candidate)
    /\ PartOf(ladder, may, LadderOf(candidate))
    /\ Apply([previous |-> state, candidate |-> candidate, desired |-> ladder,
              accepted |-> may, limit |-> limit],
             Cycle(limit, candidate, ladder, state, may))

\* What such a cycle leaves: everything that works is of the candidate's ladder,
\* and all that is desired works when nothing had to be cancelled.
Outcome(candidate, limit, desired, accepted, cancel) ==
    /\ PartOf(desired, accepted, LadderOf(candidate))
    /\ state' = IF accepted /\ cancel = {} THEN candidate ELSE state
    /\ \A w \in working' : /\ Held(w)
                           /\ w.gen = candidate.grid.gen
                           /\ LadderOf(candidate)[w.slot] = w.order
    /\ pending' = IF cancel = {} THEN {}
                  ELSE {[previous |-> state, candidate |-> candidate, desired |-> desired,
                         accepted |-> accepted, limit |-> limit]}
    /\ cancel = {} => \A slot \in Placed(desired) :
                        \E w \in working' : w.gen = candidate.grid.gen /\ w.slot = slot
    /\ UNCHANGED <<market, position>>

LEMMA AppliedSays ==
    ASSUME IInv, NEW candidate, NEW ladder, NEW may, NEW limit,
           Applied(candidate, ladder, may, limit)
    PROVE  \E desired, accepted, cancel : Outcome(candidate, limit, desired, accepted, cancel)
<1> DEFINE r == Cycle(limit, candidate, ladder, state, may)
           t == [previous |-> state, candidate |-> candidate, desired |-> ladder,
                 accepted |-> may, limit |-> limit]
           whole == LadderOf(candidate)
<1>1. /\ r.plan = Risk(limit)!Plan(candidate.grid.gen, r.desired, working)
      /\ r.accepted => may /\ r.desired = ladder
      /\ \A slot \in Placed(r.desired) : r.desired[slot] = ladder[slot]
      /\ r.next = IF r.accepted /\ r.plan.cancel = {} THEN candidate ELSE state
  BY CycleFacts DEF Applied, IInv, Rebuildable
<1>2. /\ \A w \in working :
            Id(w) \notin r.plan.cancel =>
                w.gen = candidate.grid.gen /\ r.desired[w.slot] = w.order /\ w.order # NoOrder
      /\ r.plan.submit \subseteq Placed(r.desired)
      /\ r.plan.cancel = {} =>
            \A slot \in Placed(r.desired) \ r.plan.submit :
                \E w \in working : w.gen = candidate.grid.gen /\ w.slot = slot
  <2> HIDE DEF r
  <2> QED
    BY <1>1, PlanFacts
<1>3. /\ working' = {w \in working : Id(w) \notin r.plan.cancel}
                      \cup {Submitted(candidate.grid.gen, r.desired, slot) : slot \in r.plan.submit}
      /\ state' = r.next
      /\ pending' = IF r.plan.cancel = {} THEN {}
                    ELSE {[t EXCEPT !.desired = r.desired, !.accepted = r.accepted]}
      /\ UNCHANGED <<market, position>>
  <2> HIDE DEF r
  <2>1. Apply(t, r) /\ t.candidate = candidate
    BY DEF Applied, r
  <2> QED
    BY <2>1 DEF Apply
<1>4. /\ \A slot \in Placed(ladder) : ladder[slot] = whole[slot]
      /\ may => ladder = whole
  BY DEF Applied, PartOf
<1>5. \A w \in working : Held(w)
  BY DEF IInv
<1> HIDE DEF r, whole
<1>6. PartOf(r.desired, r.accepted, whole)
  BY <1>1, <1>4 DEF PartOf, Placed
<1>7. ASSUME NEW w \in working'
      PROVE  Held(w) /\ w.gen = candidate.grid.gen /\ whole[w.slot] = w.order
  <2>1. CASE w \in working /\ Id(w) \notin r.plan.cancel
    BY <1>2, <1>5, <1>6, <2>1 DEF PartOf, Placed, Held
  <2>2. CASE \E slot \in r.plan.submit : w = Submitted(candidate.grid.gen, r.desired, slot)
    <3>1. PICK slot \in r.plan.submit : w = Submitted(candidate.grid.gen, r.desired, slot)
      BY <2>2
    <3>2. slot \in Placed(r.desired) /\ slot \in Slots
      BY <1>2 DEF Placed
    <3>3. /\ w = [gen |-> candidate.grid.gen, slot |-> slot,
                  order |-> r.desired[slot], filled |-> 0]
      BY <3>1 DEF Submitted
    <3> QED
      BY <1>6, <3>2, <3>3 DEF Held, PartOf
  <2> QED
    BY <1>3, <2>1, <2>2
<1>8. pending' = IF r.plan.cancel = {} THEN {}
                 ELSE {[previous |-> state, candidate |-> candidate, desired |-> r.desired,
                        accepted |-> r.accepted, limit |-> limit]}
  <2> DEFINE u == [t EXCEPT !.desired = r.desired, !.accepted = r.accepted]
             R == [previous : {state}, candidate : {candidate}, desired : {ladder, r.desired},
                   accepted : {may, r.accepted}, limit : {limit}]
  <2>1. t \in R
    OBVIOUS
  <2>2. u \in R /\ u.desired = r.desired /\ u.accepted = r.accepted
    <3> HIDE DEF t
    <3> QED
      BY <2>1
  <2>3. pending' = IF r.plan.cancel = {} THEN {} ELSE {u}
    BY <1>3
  <2> HIDE DEF u
  <2>4. u = [previous |-> u.previous, candidate |-> u.candidate, desired |-> u.desired,
             accepted |-> u.accepted, limit |-> u.limit]
    BY <2>2
  <2>5. u = [previous |-> state, candidate |-> candidate, desired |-> r.desired,
             accepted |-> r.accepted, limit |-> limit]
    BY <2>2, <2>4
  <2> QED
    BY <2>3, <2>5
<1>9. ASSUME r.plan.cancel = {}, NEW slot \in Placed(r.desired)
      PROVE  \E w \in working' : w.gen = candidate.grid.gen /\ w.slot = slot
  <2>1. CASE slot \in r.plan.submit
    <3>1. Submitted(candidate.grid.gen, r.desired, slot) \in working'
      BY <1>3, <2>1
    <3> QED
      BY <3>1 DEF Submitted
  <2>2. CASE slot \notin r.plan.submit
    <3>1. PICK w \in working : w.gen = candidate.grid.gen /\ w.slot = slot
      BY <1>2, <1>9, <2>2
    <3> QED
      BY <1>3, <1>9, <3>1
  <2> QED
    BY <2>1, <2>2
<1>10. state' = IF r.accepted /\ r.plan.cancel = {} THEN candidate ELSE state
  BY <1>1, <1>3
<1>11. Outcome(candidate, limit, r.desired, r.accepted, r.plan.cancel)
  BY <1>3, <1>6, <1>7, <1>8, <1>9, <1>10 DEF Outcome, whole
<1> QED
  BY <1>11

LEMMA AppliedKeeps ==
    ASSUME IInv, NEW candidate, NEW ladder, NEW may, NEW limit,
           Applied(candidate, ladder, may, limit)
    PROVE  IInv'
<1>1. PICK desired, accepted, cancel : Outcome(candidate, limit, desired, accepted, cancel)
  BY AppliedSays
<1>2. Follows(candidate, state) /\ Rebuildable(candidate) /\ Rebuildable(state)
  BY DEF Applied, IInv
<1>3. Rebuildable(state')
  BY <1>1, <1>2 DEF Outcome
<1>4. ASSUME NEW w \in working', w.gen = state'.grid.gen
      PROVE  LadderOf(state')[w.slot] = w.order
  <2>1. w.gen = candidate.grid.gen /\ LadderOf(candidate)[w.slot] = w.order
    BY <1>1 DEF Outcome
  <2>2. CASE state' = candidate
    BY <2>1, <2>2
  <2>3. CASE state' = state
    <3>1. state.grid.gen \in Int /\ candidate.grid.gen = state.grid.gen
      BY <1>2, <1>4, <2>1, <2>3 DEF Rebuildable
    <3>2. candidate = state
      BY <1>2, <3>1 DEF Follows
    <3> QED
      BY <2>1, <2>3, <3>2
  <2> QED
    BY <1>1, <2>2, <2>3 DEF Outcome
<1>5. ASSUME NEW t \in pending'
      PROVE  /\ Waiting(t)
             /\ t.previous = state' /\ Follows(t.candidate, state') /\ Rebuildable(t.candidate)
             /\ PartOf(t.desired, t.accepted, LadderOf(t.candidate))
  <2>1. /\ cancel # {}
        /\ t = [previous |-> state, candidate |-> candidate, desired |-> desired,
                accepted |-> accepted, limit |-> limit]
    BY <1>1 DEF Outcome
  <2>2. state' = state
    BY <1>1, <2>1 DEF Outcome
  <2>3. /\ t.previous = state /\ t.candidate = candidate /\ t.desired = desired
        /\ t.accepted = accepted /\ t.limit = limit
    BY <2>1
  <2> QED
    BY <1>1, <1>2, <2>1, <2>2, <2>3 DEF Waiting, Outcome
<1>6. market' \in Markets /\ position' \in Int
  BY <1>1 DEF IInv, Outcome
<1> QED
  BY <1>1, <1>3, <1>4, <1>5, <1>6 DEF IInv, Outcome

LEMMA InitEstablishes == Init => IInv
<1> SUFFICES ASSUME Init PROVE IInv
  OBVIOUS
<1>1. /\ market \in Markets /\ Preparation(market) = "ready"
      /\ position = 0 /\ state = InitialState(market, 0)
      /\ working = {Submitted(state.grid.gen, LadderOf(state), slot) : slot \in Placed(LadderOf(state))}
      /\ pending = {}
  BY DEF Init, WholeLadder
<1>2. Rebuildable(state)
  BY <1>1, DecidedGrid DEF InitialState
<1> DEFINE whole == LadderOf(state)
<1> HIDE DEF whole
<1>3. ASSUME NEW w \in working PROVE Held(w) /\ whole[w.slot] = w.order
  <2>1. PICK slot \in Placed(whole) : w = Submitted(state.grid.gen, whole, slot)
    BY <1>1 DEF whole
  <2>2. slot \in Slots /\ w = [gen |-> state.grid.gen, slot |-> slot, order |-> whole[slot],
                               filled |-> 0]
    BY <2>1 DEF Placed, Submitted
  <2> QED
    BY <2>2 DEF Held
<1> QED
  BY <1>1, <1>2, <1>3 DEF IInv, whole

LEMMA FillKeeps ==
    ASSUME IInv, NEW w \in working, NEW qty \in 1..VenueQuantity, Fill(w, qty)
    PROVE  IInv'
<1> DEFINE x == [w EXCEPT !.filled = @ + qty]
<1>1. /\ position' = position + SignedFill(w.slot, qty)
      /\ working' \subseteq working \cup {x}
      /\ UNCHANGED <<market, state, pending>>
  BY DEF Fill
<1>2. position' \in Int
  <2>1. SignedFill(w.slot, qty) \in Int
    BY CalibratedAdaptiveAssumption DEF SignedFill
  <2> QED
    BY <1>1, <2>1 DEF IInv
<1>3. w = [gen |-> w.gen, slot |-> w.slot, order |-> w.order, filled |-> w.filled]
  BY DEF IInv, Held
<1>4. x = [gen |-> w.gen, slot |-> w.slot, order |-> w.order, filled |-> w.filled + qty]
  BY <1>3
<1> HIDE DEF x
<1>5. x.gen = w.gen /\ x.slot = w.slot /\ x.order = w.order /\ Held(x)
  BY <1>4 DEF IInv, Held
<1>6. \A v \in working' : Held(v)
  BY <1>1, <1>5 DEF IInv
<1>7. \A v \in working' : v.gen = state.grid.gen => LadderOf(state)[v.slot] = v.order
  BY <1>1, <1>5 DEF IInv
<1> QED
  BY <1>1, <1>2, <1>6, <1>7 DEF IInv

\* Both entry points are cycles on the state.
LEMMA TransitIsApplied ==
    ASSUME IInv, Transit
    PROVE  \E candidate, ladder, may, limit : Applied(candidate, ladder, may, limit)
<1>1. PICK candidate \in {Decide(market, position, state)},
           ladder \in {LadderOf(Decide(market, position, state))} :
            Apply([previous |-> state, candidate |-> candidate, desired |-> ladder,
                   accepted |-> TRUE, limit |-> Config(market).cap],
                  Cycle(Config(market).cap, candidate, ladder, state, TRUE))
  BY DEF Transit
<1>2. Rebuildable(candidate) /\ Follows(candidate, state)
  BY <1>1, Decided DEF IInv, Transit, Ready
<1>3. PartOf(ladder, TRUE, LadderOf(candidate))
  BY <1>1 DEF PartOf
<1>4. Applied(candidate, ladder, TRUE, Config(market).cap)
  BY <1>1, <1>2, <1>3 DEF Applied
<1> QED
  BY <1>4

LEMMA ContinueIsApplied ==
    ASSUME IInv, Continue
    PROVE  \E candidate, ladder, may, limit : Applied(candidate, ladder, may, limit)
<1>1. PICK t \in pending : Apply(t, Cycle(t.limit, t.candidate, t.desired, t.previous, t.accepted))
  BY DEF Continue
<1>2. /\ t = [previous |-> t.previous, candidate |-> t.candidate, desired |-> t.desired,
              accepted |-> t.accepted, limit |-> t.limit]
      /\ t.previous = state /\ Follows(t.candidate, state) /\ Rebuildable(t.candidate)
      /\ PartOf(t.desired, t.accepted, LadderOf(t.candidate))
  BY DEF IInv, Waiting
<1>3. Applied(t.candidate, t.desired, t.accepted, t.limit)
  BY <1>1, <1>2 DEF Applied
<1> QED
  BY <1>3

LEMMA NextKeeps == IInv /\ [Next]_vars => IInv'
<1> SUFFICES ASSUME IInv, [Next]_vars PROVE IInv'
  OBVIOUS
<1>1. CASE MarketMoves
  BY <1>1 DEF MarketMoves, IInv
<1>2. ASSUME NEW w \in working, NEW qty \in 1..VenueQuantity, Fill(w, qty) PROVE IInv'
  BY <1>2, FillKeeps
<1>3. CASE Transit
  BY <1>3, TransitIsApplied, AppliedKeeps
<1>4. CASE Continue
  BY <1>4, ContinueIsApplied, AppliedKeeps
<1>5. CASE UNCHANGED vars
  BY <1>5 DEF vars, IInv
<1> QED
  BY <1>1, <1>2, <1>3, <1>4, <1>5 DEF Next

\* The inductive invariant holds in every state of the account.
THEOREM Inductive == Spec => []IInv
<1>1. Init => IInv
  BY InitEstablishes
<1>2. IInv /\ [Next]_vars => IInv'
  BY NextKeeps
<1> QED
  BY <1>1, <1>2, PTL DEF Spec

-----------------------------------------------------------------------------
\* Inputs that could be prepared lead to a decision, whatever the market became
\* and however its cap moved against the position and the earlier target: hard
\* sizing, rounding and the stages agree (application/calibrated_adaptive.py:446).
THEOREM PreparedIsDecidableHolds == Spec => []PreparedIsDecidable
<1>1. IInv => PreparedIsDecidable
  <2> SUFFICES ASSUME position \in Int, NEW m \in Markets, Preparation(m) = "ready"
               PROVE  ~Stage(Config(m).cap, Config(m).lot)!Refused(
                            Config(m), position, TargetDecision(Config(m), m, position))
    BY DEF IInv, PreparedIsDecidable
  <2> DEFINE d == TargetDecision(Config(m), m, position)
  <2>1. /\ d.given \in Int /\ Abs(d.given) <= Config(m).cap
        /\ d.target \in Int /\ Abs(d.target) <= Config(m).cap
        /\ position > 0 => d.target >= 0
        /\ position < 0 => d.target <= 0
        /\ Config(m).cap \in Int
    BY DecisionFacts, ConfigFacts
  <2> HIDE DEF d
  <2>2. ~(Abs(d.given) > Config(m).cap) /\ ~(Abs(d.target) > Config(m).cap)
    BY <2>1 DEF Abs
  <2> QED
    BY <2>1, <2>2 DEF Stage!Refused, Stage!Abs, Abs, d
<1> QED
  BY Inductive, <1>1, PTL

\* The ladder rebuilt from the state and the configuration applied with it is
\* possible and is the one that works, so that new calibrated parameters are not
\* mistaken for an unchanged place in the queue (README.md:226).
THEOREM CurrentLadderRebuildsHolds == Spec => []CurrentLadderRebuilds
<1>1. IInv => CurrentLadderRebuilds
  <2> SUFFICES ASSUME IInv, NEW w \in working, w.gen = state.grid.gen
               PROVE  Submitted(w.gen, LadderOf(state), w.slot).order = w.order
    BY DEF IInv, Rebuildable, CurrentLadderRebuilds
  <2> QED
    BY DEF Submitted, IInv
<1> QED
  BY Inductive, <1>1, PTL

\* A configuration is stored only in a step that ends with the whole ladder it
\* leads to among the working orders: never while cancelling, never after hard
\* risk refused it, and not by a late continuation either (README.md:227).
THEOREM AppliedWithWholeLadderHolds == Spec => AppliedWithWholeLadder
<1>1. IInv /\ [Next]_vars =>
        [state'.config # state.config =>
            /\ pending' = {}
            /\ Placed(LadderOf(state')) \subseteq
                {w.slot : w \in {v \in working' : v.gen = state'.grid.gen}}]_vars
  <2> SUFFICES ASSUME IInv, [Next]_vars, state'.config # state.config
               PROVE  /\ pending' = {}
                      /\ \A slot \in Placed(LadderOf(state')) :
                            \E w \in working' : w.gen = state'.grid.gen /\ w.slot = slot
    OBVIOUS
  <2>1. Transit \/ Continue
    BY DEF Next, MarketMoves, Fill, vars
  <2>2. PICK candidate, ladder, may, limit : Applied(candidate, ladder, may, limit)
    BY <2>1, TransitIsApplied, ContinueIsApplied
  <2>3. PICK desired, accepted, cancel : Outcome(candidate, limit, desired, accepted, cancel)
    BY <2>2, AppliedSays
  <2>4. accepted /\ cancel = {} /\ state' = candidate
    BY <2>3 DEF Outcome
  <2>5. desired = LadderOf(state')
    BY <2>3, <2>4 DEF Outcome, PartOf
  <2> QED
    BY <2>3, <2>4, <2>5 DEF Outcome
<1> QED
  BY Inductive, <1>1, PTL DEF Spec, AppliedWithWholeLadder

=============================================================================
