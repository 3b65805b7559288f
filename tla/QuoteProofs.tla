---------------------------- MODULE QuoteProofs ----------------------------
(***************************************************************************)
(* Proofs about QuoteExecution, for every ladder depth, price set, limit   *)
(* and number of events.                                                   *)
(*                                                                         *)
(* A call decides on an observation that may be old, so the properties of  *)
(* the venue's book are inductive only together with what relates the      *)
(* observation to the book: every live order was already observed, under   *)
(* the same id and with the same order (IObs).  A continuation acts for a  *)
(* transition made earlier: that transition still starts from the          *)
(* committed state, and is marked accepted only with the full ladder of    *)
(* its candidate (IPending).                                               *)
(*                                                                         *)
(* The exposure bounds are sums over the venue's orders, which the module  *)
(* QuoteProperties writes as folds.  The second half shows what such a sum *)
(* is, by induction on the number of orders, and what the filter of the    *)
(* risk gate bounds, by induction on the slots of its loop; RiskInv ties   *)
(* them to a position that moves on after it was observed.                 *)
(***************************************************************************)
EXTENDS QuoteProperties, FiniteSetTheorems, WellFoundedInduction, TLAPS

IObs ==
    obs # NoObs =>
        \A w \in live : \E v \in obs.working : Id(v) = Id(w) /\ v.order = w.order

IPending ==
    pending # NoTransition =>
        /\ pending.previous = state
        /\ pending.candidate.gen \in {state.gen, state.gen + 1}
        /\ pending.accepted => pending.desired = BuildLadder(pending.candidate)

IInv == TypeOK /\ OneGeneration /\ LiveGenerations /\ IObs /\ IPending

-----------------------------------------------------------------------------
(* The operators of the model return what their types say.                 *)

\* A side's lot is a natural number: the skew takes at most the whole lot.
LEMMA SkewedLotType ==
    ASSUME NEW e \in Nat
    PROVE  SkewedLot(e) \in Nat
<1> DEFINE m == Smaller(e, MaxInventory)
           cut == SideSkew * m
           full == 100 * MaxInventory
<1>1. m \in Nat /\ m <= MaxInventory
  BY AdaptiveGridAssumption DEF Smaller
<1>2. cut \in Nat /\ cut <= SideSkew * MaxInventory
  <2>1. SideSkew \in Nat /\ MaxInventory \in Nat
    BY AdaptiveGridAssumption
  <2> HIDE DEF m
  <2>2. SideSkew * m \in Nat /\ SideSkew * m <= SideSkew * MaxInventory
    BY <1>1, <2>1
  <2> QED
    BY <2>2
<1>3. SideSkew * MaxInventory <= full
  BY AdaptiveGridAssumption
<1>4. full \in Nat /\ full > 0
  BY AdaptiveGridAssumption
<1>5. full - cut \in Nat
  <2> HIDE DEF cut, full
  <2>1. SideSkew * MaxInventory \in Nat
    BY AdaptiveGridAssumption
  <2> QED
    BY <1>2, <1>3, <1>4, <2>1
<1>6. OrderQuantity * (full - cut) \in Nat
  <2> HIDE DEF cut, full
  <2> QED
    BY <1>5, AdaptiveGridAssumption
<1>7. SkewedLot(e) = (OrderQuantity * (full - cut)) \div full
  BY DEF SkewedLot
<1> QED
  <2> DEFINE n == OrderQuantity * (full - cut)
  <2> HIDE DEF n, full
  <2>1. n \in Nat
    BY <1>6 DEF n
  <2>2. n \div full \in Nat
    BY <2>1, <1>4
  <2> QED
    BY <2>2, <1>7 DEF n

\* A state derived from a snapshot is a grid state of the generation asked for.
LEMMA StateForType ==
    ASSUME NEW p \in Int, NEW sig \in Signal, NEW g \in Nat
    PROVE  StateFor(p, sig, g) \in GridState /\ StateFor(p, sig, g).gen = g
<1> DEFINE t == EnforceFlatBeforeReverse(p, sig.wanted)
<1>1. sig.price \in Prices /\ sig.wanted \in Targets
  BY DEF Signal
<1>2. t \in Targets /\ t \in Int
  BY <1>1, AdaptiveGridAssumption DEF EnforceFlatBeforeReverse, Targets
<1>3. Larger(p - t, 0) \in Nat /\ Larger(t - p, 0) \in Nat
  BY <1>2 DEF Larger
<1>4. BidLot(p, t) \in Nat /\ AskLot(p, t) \in Nat
  BY <1>3, SkewedLotType DEF BidLot, AskLot
<1> QED
  BY <1>1, <1>2, <1>4 DEF StateFor, GridState

\* The ladder of a grid state is a ladder.
LEMMA BuildLadderType ==
    ASSUME NEW s \in GridState
    PROVE  BuildLadder(s) \in Ladder
<1> SUFFICES ASSUME NEW slot \in Slots, SlotQuantity(s, slot) # 0
             PROVE  [price |-> s.price, qty |-> SlotQuantity(s, slot),
                     reduceOnly |-> IF IsBuy(slot) THEN BuyReduceOnly(s)
                                    ELSE SellReduceOnly(s)] \in Order
  BY DEF BuildLadder, Ladder
<1>1. s.price \in Prices /\ s.bidLot \in Nat /\ s.askLot \in Nat
      /\ s.basis \in Int /\ s.target \in Int
  BY AdaptiveGridAssumption DEF GridState, Targets
<1>2. BuyCapacity(s) \in Int /\ SellCapacity(s) \in Int
  BY <1>1, AdaptiveGridAssumption
     DEF BuyCapacity, SellCapacity, Larger, Smaller, BuyReduceOnly, SellReduceOnly
<1>3. ASSUME NEW level \in Int, NEW lot \in Nat, NEW capacity \in Int
      PROVE  LevelQuantity(level, lot, capacity) \in Nat
  <2> DEFINE used == (level - 1) * lot
             qty == Smaller(lot, capacity - used)
  <2>1. used \in Int
    BY <1>3
  <2> HIDE DEF used
  <2>2. qty \in Int
    BY <1>3, <2>1 DEF Smaller
  <2>3. LevelQuantity(level, lot, capacity) = IF qty >= MinQuantity THEN qty ELSE 0
    BY DEF LevelQuantity, used
  <2> HIDE DEF qty
  <2> QED
    BY <2>2, <2>3, AdaptiveGridAssumption
<1>4. LevelOf(slot) \in Int
  BY OrdersAssumption DEF LevelOf, Slots, IsBuy
<1>5. SlotQuantity(s, slot) \in Nat
  BY <1>1, <1>2, <1>3, <1>4 DEF SlotQuantity
<1>6. BuyReduceOnly(s) \in BOOLEAN /\ SellReduceOnly(s) \in BOOLEAN
  BY DEF BuyReduceOnly, SellReduceOnly
<1> QED
  BY <1>1, <1>5, <1>6 DEF Order

\* Reducing a ladder to some of its intents leaves a ladder.
LEMMA PartsOfLadders ==
    ASSUME NEW ladder \in Ladder, NEW slots
    PROVE  Keep(ladder, slots) \in Ladder /\ ReduceOnlyPart(ladder) \in Ladder
BY DEF Ladder, Keep, ReduceOnlyPart

\* The next generation's candidate, or the state itself.
LEMMA DecideType ==
    ASSUME NEW p \in Int, NEW sig \in Signal, NEW s \in GridState
    PROVE  /\ Decide(p, sig, s) \in GridState
           /\ Decide(p, sig, s).gen \in {s.gen, s.gen + 1}
<1>1. s.gen \in Nat /\ s.gen + 1 \in Nat
  BY DEF GridState
<1> QED
  BY <1>1, StateForType DEF Decide

-----------------------------------------------------------------------------
(* One policy cycle.                                                       *)

\* What the result r of a cycle guarantees: it plans submissions, or commits,
\* only beside working orders that are intents of its desired ladder; it submits
\* exactly the slots nothing works; it commits nothing but an accepted candidate;
\* it accepts only its whole ladder.
CycleFacts(r, o, before, candidate, ladder, may) ==
    /\ r.desired \in Ladder
    /\ r.accepted \in BOOLEAN
    /\ r.plan.submit # {} \/ r.plan.cancel = {} =>
        \A w \in o.working : Matches(candidate.gen, r.desired, w)
    /\ r.plan.submit \subseteq Missing(candidate.gen, r.desired, o.working)
    /\ r.plan.cancel = {} =>
        r.plan.submit = Missing(candidate.gen, r.desired, o.working)
    /\ r.next \in {before, candidate}
    /\ r.next # before => r.next = candidate /\ r.accepted /\ r.plan.cancel = {}
    /\ r.accepted => may /\ r.desired = ladder

LEMMA CycleResult ==
    ASSUME NEW a, NEW o, NEW before, NEW candidate, NEW ladder \in Ladder,
           NEW may \in BOOLEAN
    PROVE  CycleFacts(Cycle(a, o, before, candidate, ladder, may),
                      o, before, candidate, ladder, may)
<1> DEFINE r == Cycle(a, o, before, candidate, ladder, may)
           assessment == AssessDesiredLadder(a, o, ladder)
           conflicts == Conflicts(candidate.gen, r.desired, o.working)
<1>1. /\ r.accepted = (may /\ AcceptsExactly(assessment, ladder))
      /\ r.desired = IF r.accepted THEN ladder ELSE ReduceOnlyPart(assessment.filtered)
      /\ r.plan = Plan(candidate.gen, r.desired, o.working)
      /\ r.next = IF r.accepted /\ r.plan.cancel = {} THEN candidate ELSE before
  BY DEF Cycle
<1>2. assessment.filtered \in Ladder
  BY PartsOfLadders DEF AssessDesiredLadder, AssessLadder
<1>3. r.desired \in Ladder
  BY <1>1, <1>2, PartsOfLadders
<1>4. r.accepted \in BOOLEAN
  BY <1>1 DEF AcceptsExactly
<1>5. /\ r.plan.cancel = {Id(w) : w \in conflicts}
      /\ r.plan.submit = IF conflicts = {}
                         THEN Missing(candidate.gen, r.desired, o.working) ELSE {}
  <2> HIDE DEF r
  <2> QED
    BY <1>1 DEF Plan
<1>6. r.plan.cancel = {} => conflicts = {}
  <2> HIDE DEF r, conflicts
  <2> QED
    BY <1>5
<1>7. conflicts = {} => \A w \in o.working : Matches(candidate.gen, r.desired, w)
  BY DEF Conflicts
<1> HIDE DEF r, conflicts
<1>8. r.plan.submit # {} \/ r.plan.cancel = {} =>
        \A w \in o.working : Matches(candidate.gen, r.desired, w)
  BY <1>5, <1>6, <1>7
<1>9. /\ r.plan.submit \subseteq Missing(candidate.gen, r.desired, o.working)
      /\ r.plan.cancel = {} =>
            r.plan.submit = Missing(candidate.gen, r.desired, o.working)
  BY <1>5, <1>6
<1>10. /\ r.next \in {before, candidate}
       /\ r.next # before => r.next = candidate /\ r.accepted /\ r.plan.cancel = {}
       /\ r.accepted => may /\ r.desired = ladder
  BY <1>1
<1> QED
  BY <1>3, <1>4, <1>8, <1>9, <1>10 DEF r, CycleFacts

\* A call of the policy, new or continued, from the committed state.
PolicyCall(candidate, ladder, may) ==
    /\ obs # NoObs
    /\ Call(Cycle(account, obs, state, candidate, ladder, may), state, candidate)

\* What the invariant guarantees of every call's arguments.
ProperCall(candidate, ladder, may) ==
    /\ candidate.gen \in {state.gen, state.gen + 1}
    /\ may => ladder = BuildLadder(candidate)
    /\ PolicyCall(candidate, ladder, may)

LEMMA CallsAreProper ==
    ASSUME IInv, TransitionCall \/ ContinueCall
    PROVE  \E candidate \in GridState, ladder \in Ladder, may \in BOOLEAN :
                ProperCall(candidate, ladder, may)
<1>1. CASE TransitionCall
  <2> DEFINE candidate == Decide(obs.position, signal, state)
  <2>1. obs # NoObs
        /\ PolicyCall(candidate, BuildLadder(candidate), TRUE)
    BY <1>1 DEF TransitionCall, TransitionPolicy, PolicyCall
  <2>2. obs.position \in Int /\ signal \in Signal /\ state \in GridState
    BY <2>1 DEF IInv, TypeOK, Observation
  <2>3. candidate \in GridState /\ candidate.gen \in {state.gen, state.gen + 1}
    BY <2>2, DecideType
  <2>4. BuildLadder(candidate) \in Ladder
    BY <2>3, BuildLadderType
  <2> HIDE DEF candidate
  <2>5. ProperCall(candidate, BuildLadder(candidate), TRUE)
    BY <2>1, <2>3 DEF ProperCall
  <2> QED
    BY <2>3, <2>4, <2>5
<1>2. CASE ContinueCall
  <2>1. pending # NoTransition /\ obs # NoObs
    BY <1>2 DEF ContinueCall
  <2>2. pending \in Transition /\ pending.previous = state
    BY <2>1 DEF IInv, TypeOK, IPending
  <2>3. /\ pending.candidate \in GridState
        /\ pending.desired \in Ladder
        /\ pending.accepted \in BOOLEAN
    BY <2>2 DEF Transition
  <2>4. PolicyCall(pending.candidate, pending.desired, pending.accepted)
    BY <1>2, <2>1, <2>2 DEF ContinueCall, ContinuePolicy, PolicyCall
  <2>5. ProperCall(pending.candidate, pending.desired, pending.accepted)
    BY <2>1, <2>4 DEF ProperCall, IInv, IPending
  <2> QED
    BY <2>3, <2>5
<1> QED
  BY <1>1, <1>2

\* Everything a call does to the venue's book and to the committed state: it
\* submits the desired intents at some slots and requests some cancellations.
Effect(candidate, desired, accepted, slots, cancel) ==
    /\ slots \subseteq Placed(desired)
    /\ live' = live \cup {Submitted(candidate.gen, desired, s) : s \in slots}
    /\ cancelling' = cancelling \cup cancel
    /\ \A s \in slots : \A w \in live : Id(w) # <<candidate.gen, s>>
    /\ slots # {} \/ state' # state =>
        \A w \in live : Matches(candidate.gen, desired, w)
    /\ accepted => desired = BuildLadder(candidate)
    /\ state' # state =>
        /\ state' = candidate
        /\ accepted
        /\ \A s \in Placed(desired) :
            s \in slots \/ \E w \in obs.working : Id(w) = <<candidate.gen, s>>
    /\ \/ pending' = pending /\ state' = state
       \/ pending' = NoTransition
       \/ /\ state' = state
          /\ pending' = [previous |-> state, candidate |-> candidate,
                         desired |-> desired, accepted |-> accepted]
    /\ raised' \in BOOLEAN
    /\ obs' = NoObs
    /\ UNCHANGED <<position, signal, account, events>>

LEMMA CallEffect ==
    ASSUME IInv, NEW candidate \in GridState, NEW ladder \in Ladder,
           NEW may \in BOOLEAN, ProperCall(candidate, ladder, may)
    PROVE  \E desired \in Ladder, accepted \in BOOLEAN, slots \in SUBSET Slots,
              cancel \in SUBSET {Id(w) : w \in live} :
                Effect(candidate, desired, accepted, slots, cancel)
<1> DEFINE r == Cycle(account, obs, state, candidate, ladder, may)
<1>1. CycleFacts(r, obs, state, candidate, ladder, may)
  BY CycleResult
<1>2. /\ obs # NoObs
      /\ Call(r, state, candidate)
      /\ may => ladder = BuildLadder(candidate)
  BY DEF ProperCall, PolicyCall
<1> HIDE DEF r
<1>3. \A w \in live : \E v \in obs.working : Id(v) = Id(w) /\ v.order = w.order
  BY <1>2 DEF IInv, IObs
<1>4. obs' = NoObs /\ UNCHANGED <<position, signal, account, events>>
  BY <1>2 DEF Call
<1>5. ASSUME NEW w \in live, \A v \in obs.working : Matches(candidate.gen, r.desired, v)
      PROVE  Matches(candidate.gen, r.desired, w)
  BY <1>3, <1>5 DEF Matches, IsDesired, Id
<1>6. CASE r.raises
  <2>1. raised' = TRUE /\ UNCHANGED <<live, cancelling, state, pending>>
    BY <1>2, <1>6 DEF Call
  <2>2. Effect(candidate, r.desired, r.accepted, {}, {})
    BY <1>1, <1>2, <1>4, <2>1 DEF CycleFacts, Effect
  <2> QED
    BY <1>1, <2>2 DEF CycleFacts
<1>7. CASE ~r.raises
  <2> DEFINE slots == r.plan.submit
             cancel == r.plan.cancel \cap {Id(w) : w \in live}
  <2>1. Apply(r, state, candidate)
    BY <1>2, <1>7 DEF Call
  <2>2. /\ state' = r.next
        /\ live' = live \cup {Submitted(candidate.gen, r.desired, s) : s \in slots}
        /\ cancelling' = cancelling \cup cancel
        /\ pending' = IF r.plan.cancel = {} THEN NoTransition
                      ELSE [previous |-> state, candidate |-> candidate,
                            desired |-> r.desired, accepted |-> r.accepted]
        /\ raised' = FALSE
    BY <2>1 DEF Apply
  <2>3. slots \in SUBSET Placed(r.desired)
    BY <1>1 DEF CycleFacts, Missing
  <2>4. \A s \in slots : \A w \in live : Id(w) # <<candidate.gen, s>>
    BY <1>1, <1>3 DEF CycleFacts, Missing
  <2>5. slots # {} \/ state' # state =>
            \A w \in live : Matches(candidate.gen, r.desired, w)
    BY <1>1, <1>5, <2>2 DEF CycleFacts
  <2>6. r.accepted => r.desired = BuildLadder(candidate)
    BY <1>1, <1>2 DEF CycleFacts
  <2>7. state' # state =>
            /\ state' = candidate
            /\ r.accepted
            /\ \A s \in Placed(r.desired) :
                s \in slots \/ \E w \in obs.working : Id(w) = <<candidate.gen, s>>
    BY <1>1, <2>2 DEF CycleFacts, Missing
  <2>8. \/ pending' = NoTransition
        \/ /\ state' = state
           /\ pending' = [previous |-> state, candidate |-> candidate,
                          desired |-> r.desired, accepted |-> r.accepted]
    BY <1>1, <2>2 DEF CycleFacts
  <2> HIDE DEF slots, cancel
  <2>9. Effect(candidate, r.desired, r.accepted, slots, cancel)
    BY <1>4, <2>2, <2>3, <2>4, <2>5, <2>6, <2>7, <2>8 DEF Effect
  <2>10. slots \in SUBSET Slots /\ cancel \in SUBSET {Id(w) : w \in live}
    BY <2>3 DEF Placed, cancel
  <2> QED
    BY <1>1, <2>9, <2>10 DEF CycleFacts
<1> QED
  BY <1>6, <1>7

-----------------------------------------------------------------------------
(* The inductive invariant.                                                *)

LEMMA InitInv == Init => IInv
<1> SUFFICES ASSUME Init PROVE IInv
  OBVIOUS
<1>1. position \in Int
  BY QuoteExecutionAssumption, RiskLimitsAssumption DEF Init
<1>2. state \in GridState /\ state.gen = 0
  BY <1>1, StateForType DEF Init, InitialState
<1>3. /\ live = {} /\ cancelling = {} /\ obs = NoObs /\ pending = NoTransition
      /\ raised = FALSE /\ events = 0 /\ signal \in Signal /\ account \in Account
  BY DEF Init
<1>4. events \in 0..MaxEvents
  BY <1>3, QuoteExecutionAssumption
<1>5. TypeOK
  BY <1>1, <1>2, <1>3, <1>4 DEF TypeOK
<1> QED
  BY <1>3, <1>5 DEF IInv, OneGeneration, LiveGenerations, IObs, IPending

\* A submission is a working order that has filled nothing.
LEMMA SubmittedType ==
    ASSUME NEW g \in Nat, NEW ladder \in Ladder, NEW s \in Placed(ladder)
    PROVE  /\ Submitted(g, ladder, s) \in WorkingOrder
           /\ Submitted(g, ladder, s).gen = g
           /\ Submitted(g, ladder, s).slot = s
           /\ Submitted(g, ladder, s).order = ladder[s]
<1>1. s \in Slots /\ ladder[s] \in Order
  BY DEF Placed, Ladder
<1>2. ladder[s].qty \in Nat
  BY <1>1 DEF Order
<1> QED
  BY <1>1, <1>2 DEF Submitted, WorkingOrder

\* A call keeps the invariant: it submits beside orders of its own generation
\* only, and commits only when the whole book is of that generation.
LEMMA EffectKeepsInv ==
    ASSUME IInv, NEW candidate \in GridState, NEW desired \in Ladder,
           NEW accepted \in BOOLEAN, NEW slots \in SUBSET Slots,
           NEW cancel \in SUBSET {Id(w) : w \in live},
           candidate.gen \in {state.gen, state.gen + 1},
           Effect(candidate, desired, accepted, slots, cancel)
    PROVE  IInv'
<1> DEFINE new == {Submitted(candidate.gen, desired, s) : s \in slots}
<1>1. /\ live' = live \cup new
      /\ cancelling' = cancelling \cup cancel
      /\ slots \subseteq Placed(desired)
      /\ slots # {} \/ state' # state => \A w \in live : w.gen = candidate.gen
      /\ state' # state => state' = candidate
      /\ obs' = NoObs
  BY DEF Effect, Matches, IsDesired
<1>2. candidate.gen \in Nat /\ state.gen \in Nat
  BY DEF GridState, IInv, TypeOK
<1>3. \A w \in new : w \in WorkingOrder /\ w.gen = candidate.gen /\ w.slot \in slots
  BY <1>1, <1>2, SubmittedType
<1>4. \A v, w \in new : v.slot = w.slot => v = w
  BY <1>1, <1>2, SubmittedType
<1>5. \A w \in new : \A v \in live : ~(v.gen = candidate.gen /\ v.slot = w.slot)
  BY <1>3 DEF Effect, Id
<1>6. new # {} => slots # {}
  OBVIOUS
<1>7. pending' \in Transition \cup {NoTransition}
  BY DEF IInv, TypeOK, Effect, Transition
<1> HIDE DEF new
<1>8. TypeOK'
  <2>1. cancel \subseteq Nat \X Slots
    BY DEF IInv, TypeOK, Id, WorkingOrder
  <2> QED
    BY <1>1, <1>3, <1>7, <2>1 DEF IInv, TypeOK, Effect
<1>9. OneGeneration'
  BY <1>1, <1>3, <1>4, <1>5, <1>6 DEF IInv, OneGeneration
<1>10. LiveGenerations'
  BY <1>1, <1>3, <1>6 DEF IInv, LiveGenerations
<1>11. IObs'
  BY <1>1 DEF IObs
<1>12. IPending'
  <2> SUFFICES ASSUME pending' # NoTransition
               PROVE  /\ pending'.previous = state'
                      /\ pending'.candidate.gen \in {state'.gen, state'.gen + 1}
                      /\ pending'.accepted =>
                            pending'.desired = BuildLadder(pending'.candidate)
    BY DEF IPending
  <2>1. CASE pending' = pending /\ state' = state
    BY <2>1 DEF IInv, IPending
  <2>2. CASE /\ state' = state
             /\ pending' = [previous |-> state, candidate |-> candidate,
                            desired |-> desired, accepted |-> accepted]
    BY <2>2 DEF Effect
  <2> QED
    BY <2>1, <2>2 DEF Effect
<1> QED
  BY <1>8, <1>9, <1>10, <1>11, <1>12 DEF IInv

LEMMA CallKeepsInv ==
    IInv /\ (TransitionCall \/ ContinueCall) => IInv'
<1> SUFFICES ASSUME IInv, TransitionCall \/ ContinueCall PROVE IInv'
  OBVIOUS
<1>1. PICK candidate \in GridState, ladder \in Ladder, may \in BOOLEAN :
            ProperCall(candidate, ladder, may)
  BY CallsAreProper
<1>2. \E desired \in Ladder, accepted \in BOOLEAN, slots \in SUBSET Slots,
         cancel \in SUBSET {Id(w) : w \in live} :
            Effect(candidate, desired, accepted, slots, cancel)
  BY <1>1, CallEffect
<1>3. candidate.gen \in {state.gen, state.gen + 1}
  BY <1>1 DEF ProperCall
<1> QED
  BY <1>2, <1>3, EffectKeepsInv

\* The venue keeps the invariant: an order that fills in part keeps its id and
\* its terms, and one that ends only leaves.
LEMMA VenueKeepsInv ==
    ASSUME IInv, NEW w \in live,
           \/ \E qty \in 1..OrderQuantity : Fill(w, qty)
           \/ VenueEnds(w)
           \/ ConfirmCancel(w)
    PROVE  IInv'
<1>1. w \in WorkingOrder
  BY DEF IInv, TypeOK
<1>2. ASSUME Ends(w)
      PROVE  /\ live' \subseteq WorkingOrder
             /\ cancelling' \subseteq Nat \X Slots
             /\ OneGeneration'
             /\ \A v \in live' : v \in live
  BY <1>2 DEF Ends, IInv, TypeOK, OneGeneration
<1>3. ASSUME NEW qty \in 1..OrderQuantity, Fill(w, qty)
      PROVE  /\ position' \in Int /\ events' \in 0..MaxEvents
             /\ live' \subseteq WorkingOrder
             /\ cancelling' \subseteq Nat \X Slots
             /\ OneGeneration'
             /\ \A x \in live' : \E v \in live :
                    v.gen = x.gen /\ v.slot = x.slot /\ v.order = x.order
             /\ UNCHANGED <<signal, account, obs, state, pending, raised>>
  <2>1. qty \in Int
    BY AdaptiveGridAssumption
  <2>2. position' \in Int /\ events' \in 0..MaxEvents
    BY <1>3, <2>1, QuoteExecutionAssumption
       DEF Fill, Happens, SignedFill, IInv, TypeOK
  <2>3. CASE qty = Remaining(w)
    <3>1. Ends(w)
      BY <1>3, <2>3 DEF Fill
    <3> QED
      BY <1>2, <1>3, <2>2, <3>1 DEF Fill, policy
  <2>4. CASE qty # Remaining(w)
    <3> DEFINE x == [w EXCEPT !.filled = @ + qty]
    <3>1. live' = (live \ {w}) \cup {x} /\ cancelling' = cancelling
      BY <1>3, <2>4 DEF Fill
    <3>2. w.filled \in Nat /\ w.order.qty \in Nat
      BY <1>1 DEF WorkingOrder, Order
    <3>3. w.filled + qty \in Nat /\ w.filled + qty <= w.order.qty
      BY <1>3, <2>1, <3>2, AdaptiveGridAssumption DEF Fill, Remaining
    <3>4. x \in WorkingOrder /\ x.gen = w.gen /\ x.slot = w.slot /\ x.order = w.order
      BY <1>1, <3>3 DEF WorkingOrder
    <3> HIDE DEF x
    <3>5. OneGeneration'
      BY <3>1, <3>4 DEF IInv, OneGeneration
    <3> QED
      BY <1>3, <2>2, <3>1, <3>4, <3>5 DEF Fill, policy, IInv, TypeOK
  <2> QED
    BY <2>3, <2>4
<1>4. /\ position' \in Int /\ events' \in 0..MaxEvents
      /\ live' \subseteq WorkingOrder
      /\ cancelling' \subseteq Nat \X Slots
      /\ OneGeneration'
      /\ \A x \in live' : \E v \in live :
            v.gen = x.gen /\ v.slot = x.slot /\ v.order = x.order
      /\ UNCHANGED <<signal, account, obs, state, pending, raised>>
  <2>1. CASE \E qty \in 1..OrderQuantity : Fill(w, qty)
    BY <2>1, <1>3
  <2>2. CASE VenueEnds(w)
    <3>1. events' \in 0..MaxEvents
      BY <2>2, QuoteExecutionAssumption DEF VenueEnds, Happens, IInv, TypeOK
    <3> QED
      BY <1>2, <2>2, <3>1 DEF VenueEnds, policy, IInv, TypeOK
  <2>3. CASE ConfirmCancel(w)
    BY <1>2, <2>3 DEF ConfirmCancel, policy, IInv, TypeOK
  <2> QED
    BY <2>1, <2>2, <2>3
<1>5. TypeOK'
  BY <1>4 DEF IInv, TypeOK
<1>6. LiveGenerations'
  BY <1>4 DEF IInv, LiveGenerations
<1>7. IObs'
  BY <1>4 DEF IInv, IObs, Id
<1>8. IPending'
  BY <1>4 DEF IInv, IPending
<1> QED
  BY <1>4, <1>5, <1>6, <1>7, <1>8 DEF IInv

LEMMA StepKeepsInv == IInv /\ [Next]_vars => IInv'
<1> SUFFICES ASSUME IInv, [Next]_vars PROVE IInv'
  OBVIOUS
<1>1. CASE Observe
  <2>1. /\ obs' = [position |-> position, stale |-> FALSE, working |-> live]
        /\ UNCHANGED <<position, live, cancelling, signal, account, events,
                       state, pending, raised>>
    BY <1>1 DEF Observe, world, policy
  <2>2. obs' \in Observation
    BY <2>1 DEF IInv, TypeOK, Observation
  <2> QED
    BY <2>1, <2>2
       DEF IInv, TypeOK, OneGeneration, LiveGenerations, IObs, IPending
<1>2. CASE TransitionCall \/ ContinueCall
  BY <1>2, CallKeepsInv
<1>3. CASE MarketMoves \/ AccountMoves
  <2>1. /\ signal' \in Signal /\ account' \in Account /\ events' \in 0..MaxEvents
        /\ UNCHANGED <<position, live, cancelling, obs, state, pending, raised>>
    BY <1>3, QuoteExecutionAssumption
       DEF MarketMoves, AccountMoves, Happens, policy, IInv, TypeOK
  <2> QED
    BY <2>1 DEF IInv, TypeOK, OneGeneration, LiveGenerations, IObs, IPending
<1>4. CASE ObservationAges
  <2>1. /\ obs \in Observation /\ obs' = [obs EXCEPT !.stale = TRUE]
        /\ events' \in 0..MaxEvents
        /\ UNCHANGED <<position, live, cancelling, signal, account,
                       state, pending, raised>>
    BY <1>4, QuoteExecutionAssumption
       DEF ObservationAges, Happens, policy, IInv, TypeOK
  <2>2. obs' \in Observation /\ obs'.working = obs.working
    BY <2>1 DEF Observation
  <2>3. obs # NoObs
    BY <1>4 DEF ObservationAges
  <2> QED
    BY <2>1, <2>2, <2>3
       DEF IInv, TypeOK, OneGeneration, LiveGenerations, IObs, IPending
<1>5. CASE \E w \in live : \/ \E qty \in 1..OrderQuantity : Fill(w, qty)
                           \/ VenueEnds(w)
                           \/ ConfirmCancel(w)
  BY <1>5, VenueKeepsInv
<1>6. CASE UNCHANGED vars
  BY <1>6 DEF vars, IInv, TypeOK, OneGeneration, LiveGenerations, IObs, IPending
<1> QED
  BY <1>1, <1>2, <1>3, <1>4, <1>5, <1>6 DEF Next

LEMMA Invariance == Spec => []IInv
BY InitInv, StepKeepsInv, PTL DEF Spec

\* Every variable of a call, a venue step or a market step keeps its type.
THEOREM TypeCorrect == Spec => []TypeOK
BY Invariance, PTL DEF IInv

\* Cancel-before-replace (execution/reconcile.py:60-73): at no time does the
\* venue work orders of two generations, or two orders under one id, however
\* fills and cancellations fall between observing and calling.
THEOREM OneGenerationHolds == Spec => []OneGeneration
BY Invariance, PTL DEF IInv

\* The venue works orders of the committed generation or of its successor only
\* (application/passive_policy.py:143 and 192-196).
THEOREM LiveGenerationsHold == Spec => []LiveGenerations
BY Invariance, PTL DEF IInv

-----------------------------------------------------------------------------
(* Commits.                                                                *)

\* Outside calls the committed state does not change, and the book only shrinks
\* or keeps the ids it had.
LEMMA OtherSteps ==
    ASSUME IInv, [Next]_vars, ~(TransitionCall \/ ContinueCall)
    PROVE  /\ state' = state
           /\ \A x \in live' : \E v \in live : Id(v) = Id(x)
<1>1. CASE \/ Observe \/ MarketMoves \/ AccountMoves \/ ObservationAges
           \/ UNCHANGED vars
  BY <1>1 DEF Observe, MarketMoves, AccountMoves, ObservationAges, world, policy, vars
<1>2. ASSUME NEW w \in live, Ends(w)
      PROVE  \A x \in live' : \E v \in live : Id(v) = Id(x)
  BY <1>2 DEF Ends
<1>3. ASSUME NEW w \in live, VenueEnds(w) \/ ConfirmCancel(w)
      PROVE  /\ state' = state
             /\ \A x \in live' : \E v \in live : Id(v) = Id(x)
  BY <1>2, <1>3 DEF VenueEnds, ConfirmCancel, policy
<1>4. ASSUME NEW w \in live, NEW qty \in 1..OrderQuantity, Fill(w, qty)
      PROVE  /\ state' = state
             /\ \A x \in live' : \E v \in live : Id(v) = Id(x)
  <2>1. w \in WorkingOrder
    BY DEF IInv, TypeOK
  <2>2. Id([w EXCEPT !.filled = @ + qty]) = Id(w)
    BY <2>1 DEF WorkingOrder, Id
  <2>3. state' = state
    BY <1>4 DEF Fill, policy
  <2>4. CASE qty = Remaining(w)
    BY <1>2, <1>4, <2>3, <2>4 DEF Fill
  <2>5. CASE qty # Remaining(w)
    BY <1>4, <2>2, <2>3, <2>5 DEF Fill
  <2> QED
    BY <2>4, <2>5
<1> QED
  BY <1>1, <1>3, <1>4 DEF Next

\* A commit is the effect of a call whose candidate was accepted with its whole
\* ladder.
LEMMA CommitIsEffect ==
    ASSUME IInv, [Next]_vars, state' # state
    PROVE  \E candidate \in GridState, desired \in Ladder, slots \in SUBSET Slots,
              cancel \in SUBSET {Id(w) : w \in live} :
                Effect(candidate, desired, TRUE, slots, cancel)
<1>1. TransitionCall \/ ContinueCall
  BY OtherSteps
<1>2. PICK candidate \in GridState, ladder \in Ladder, may \in BOOLEAN :
            ProperCall(candidate, ladder, may)
  BY <1>1, CallsAreProper
<1>3. PICK desired \in Ladder, accepted \in BOOLEAN, slots \in SUBSET Slots,
           cancel \in SUBSET {Id(w) : w \in live} :
            Effect(candidate, desired, accepted, slots, cancel)
  BY <1>2, CallEffect
<1>4. accepted
  BY <1>3 DEF Effect
<1>5. accepted = TRUE
  BY <1>4
<1> QED
  BY <1>3, <1>5

\* When a state is committed, every order at the venue is an intent of its
\* ladder (application/passive_policy.py:143): no remainder of an earlier or
\* refused ladder survives the commit.
THEOREM CommitMatchesBookHolds == Spec => CommitMatchesBook
<1>1. IInv /\ [Next]_vars =>
        [state' # state => \A w \in live' : Matches(state'.gen, BuildLadder(state'), w)]_vars
  <2> SUFFICES ASSUME IInv, [Next]_vars, state' # state, NEW w \in live'
               PROVE  Matches(state'.gen, BuildLadder(state'), w)
    OBVIOUS
  <2>1. PICK candidate \in GridState, desired \in Ladder, slots \in SUBSET Slots,
             cancel \in SUBSET {Id(v) : v \in live} :
              Effect(candidate, desired, TRUE, slots, cancel)
    BY CommitIsEffect
  <2>2. /\ state' = candidate
        /\ desired = BuildLadder(state')
        /\ slots \subseteq Placed(desired)
        /\ w \in live \/ \E s \in slots : w = Submitted(candidate.gen, desired, s)
        /\ \A v \in live : Matches(candidate.gen, desired, v)
    BY <2>1 DEF Effect
  <2>3. CASE w \in live
    BY <2>2, <2>3
  <2>4. CASE \E s \in slots : w = Submitted(candidate.gen, desired, s)
    <3>1. PICK s \in Placed(desired) : w = Submitted(candidate.gen, desired, s)
      BY <2>2, <2>4
    <3>2. w.gen = candidate.gen /\ w.slot = s /\ w.order = desired[s] /\ desired[s] # NoOrder
      BY <3>1 DEF Submitted, Placed
    <3> QED
      BY <2>2, <3>2 DEF Matches, IsDesired
  <2> QED
    BY <2>2, <2>3, <2>4
<1> QED
  BY <1>1, Invariance, PTL DEF Spec, CommitMatchesBook

\* A committed state has its whole ladder placed (passive_policy.py:178-196): a
\* candidate that risk refused is not committed through its reduce-only part.
THEOREM NoSmuggledCommitHolds == Spec => NoSmuggledCommit
<1>1. IInv /\ [Next]_vars =>
        [state' # state =>
            \A s \in Placed(BuildLadder(state')) :
                \E w \in live' \cup obs.working : Id(w) = <<state'.gen, s>>]_vars
  <2> SUFFICES ASSUME IInv, [Next]_vars, state' # state,
                      NEW s \in Placed(BuildLadder(state'))
               PROVE  \E w \in live' \cup obs.working : Id(w) = <<state'.gen, s>>
    OBVIOUS
  <2>1. PICK candidate \in GridState, desired \in Ladder, slots \in SUBSET Slots,
             cancel \in SUBSET {Id(v) : v \in live} :
              Effect(candidate, desired, TRUE, slots, cancel)
    BY CommitIsEffect
  <2>2. /\ state' = candidate
        /\ desired = BuildLadder(state')
        /\ live' = live \cup {Submitted(candidate.gen, desired, t) : t \in slots}
        /\ s \in slots \/ \E w \in obs.working : Id(w) = <<candidate.gen, s>>
    BY <2>1 DEF Effect
  <2>3. CASE s \in slots
    <3>1. Id(Submitted(candidate.gen, desired, s)) = <<candidate.gen, s>>
      BY DEF Submitted, Id
    <3> QED
      BY <2>2, <2>3, <3>1
  <2> QED
    BY <2>2, <2>3
<1> QED
  BY <1>1, Invariance, PTL DEF Spec, NoSmuggledCommit

-----------------------------------------------------------------------------
(* The abstract book.                                                      *)

\* The ids at the venue and the committed generation behave as QuoteBook says:
\* initially nothing is quoted, and each step withdraws orders, quotes one
\* generation beside orders of the same one only, or changes neither.
THEOREM QuotingImplementsBook == Spec => ImplementsQuoteBook
<1> DEFINE ids == {Id(w) : w \in live}
<1>1. Init => Book!Init
  <2> SUFFICES ASSUME Init PROVE Book!Init
    OBVIOUS
  <2>1. state.gen = 0 /\ live = {}
    BY DEF Init, InitialState, StateFor
  <2> QED
    BY <2>1 DEF Book!Init
<1>2. IInv /\ [Next]_vars => [Book!Next]_<<ids, state.gen>>
  <2> SUFFICES ASSUME IInv, [Next]_vars PROVE [Book!Next]_<<ids, state.gen>>
    OBVIOUS
  <2>1. CASE ~(TransitionCall \/ ContinueCall)
    <3>1. ids' \subseteq ids /\ state' = state
      BY <2>1, OtherSteps
    <3> QED
      BY <3>1 DEF Book!Next, Book!Withdraw
  <2>2. CASE TransitionCall \/ ContinueCall
    <3>1. PICK candidate \in GridState, ladder \in Ladder, may \in BOOLEAN :
                ProperCall(candidate, ladder, may)
      BY <2>2, CallsAreProper
    <3>2. PICK desired \in Ladder, accepted \in BOOLEAN, slots \in SUBSET Slots,
               cancel \in SUBSET {Id(w) : w \in live} :
                Effect(candidate, desired, accepted, slots, cancel)
      BY <3>1, CallEffect
    <3>3. /\ live' = live \cup {Submitted(candidate.gen, desired, s) : s \in slots}
          /\ state' # state => state' = candidate
          /\ candidate.gen \in {state.gen, state.gen + 1}
          /\ slots # {} \/ state' # state => \A w \in live : w.gen = candidate.gen
          /\ \A s \in slots : \A w \in live : Id(w) # <<candidate.gen, s>>
      BY <3>1, <3>2 DEF Effect, ProperCall, Matches, IsDesired
    <3>4. CASE slots = {} /\ state' = state
      <4>1. ids' = ids /\ state'.gen = state.gen
        BY <3>3, <3>4
      <4> QED
        BY <4>1
    <3>5. CASE slots # {} \/ state' # state
      <4>1. \A s \in slots : Id(Submitted(candidate.gen, desired, s)) = <<candidate.gen, s>>
        BY DEF Submitted, Id
      <4>2. ids' = ids \cup {<<candidate.gen, s>> : s \in slots}
        BY <3>3, <4>1
      <4>3. \A id \in ids : id[1] = candidate.gen
        BY <3>3, <3>5 DEF Id
      <4>4. \A s \in slots : <<candidate.gen, s>> \notin ids
        BY <3>3
      <4>5. state'.gen \in {state.gen, candidate.gen}
        BY <3>3
      <4>6. Book!Quote(candidate.gen)
        BY <3>3, <4>2, <4>3, <4>4, <4>5 DEF Book!Quote, Book!Holds
      <4> QED
        BY <3>3, <4>6 DEF Book!Next
    <3> QED
      BY <3>4, <3>5
  <2> QED
    BY <2>1, <2>2
<1> QED
  BY <1>1, <1>2, Invariance, PTL DEF Spec, ImplementsQuoteBook, Book!Spec

-----------------------------------------------------------------------------
(* Sums over orders.                                                       *)

\* A set of numbers with zero and every successor has them all.
LEMMA AllNumbers ==
    ASSUME NEW T, 0 \in T, \A n \in Nat : n \in T => n + 1 \in T
    PROVE  \A n \in Nat : n \in T
<1> SUFFICES ASSUME Nat \ T # {} PROVE FALSE
  OBVIOUS
<1>1. PICK n \in Nat \ T : \A i \in Nat \ T : ~(<<i, n>> \in OpToRel(<, Nat))
  BY NatLessThanWellFounded, WFMin
<1>2. \A i \in Nat \ T : ~(i < n)
  BY <1>1 DEF OpToRel
<1>3. n # 0 /\ n - 1 \in Nat /\ n - 1 \in T
  BY <1>2
<1> QED
  BY <1>3

\* The order that a sum takes first.
First(orders) == CHOOSE w \in orders : TRUE

\* The sum over a set, from a function that has the sums over smaller ones.
SumBy(f, orders) ==
    IF orders = {} THEN 0 ELSE Remaining(First(orders)) + f[orders \ {First(orders)}]

SumTable(f, orders) == f = [s \in SUBSET orders |-> SumBy(f, s)]

LEMMA OutstandingIsChosen ==
    ASSUME NEW orders
    PROVE  Outstanding(orders) = (CHOOSE f : SumTable(f, orders))[orders]
BY DEF Outstanding, MapThenSumSet, MapThenFoldSet, SumTable, SumBy, First

LEMMA WithoutFirst ==
    ASSUME NEW orders, IsFiniteSet(orders), orders # {}
    PROVE  /\ First(orders) \in orders
           /\ IsFiniteSet(orders \ {First(orders)})
           /\ Cardinality(orders) \in Nat
           /\ Cardinality(orders \ {First(orders)}) = Cardinality(orders) - 1
<1>1. First(orders) \in orders
  BY DEF First
<1> QED
  BY <1>1, FS_RemoveElement, FS_CardinalityType

\* A function that sums the subsets of a finite set exists: those of at most n
\* orders have one for every n.
LEMMA SumTableExists ==
    ASSUME NEW orders, IsFiniteSet(orders)
    PROVE  \E f : SumTable(f, orders)
<1> DEFINE Small(n) == {s \in SUBSET orders : Cardinality(s) <= n}
           Sums(f, n) == f = [s \in Small(n) |-> SumBy(f, s)]
           T == {n \in Nat : \E f : Sums(f, n)}
<1>1. ASSUME NEW s \in SUBSET orders
      PROVE  IsFiniteSet(s) /\ Cardinality(s) \in Nat
  BY FS_Subset, FS_CardinalityType
<1>2. 0 \in T
  <2> DEFINE f == [s \in Small(0) |-> 0]
  <2>1. \A s \in Small(0) : s = {}
    BY <1>1, FS_EmptySet
  <2>2. Sums(f, 0)
    BY <2>1 DEF SumBy
  <2> QED
    BY <2>2
<1>3. ASSUME NEW n \in Nat, n \in T PROVE n + 1 \in T
  <2>1. PICK f : Sums(f, n)
    BY <1>3
  <2> DEFINE g == [s \in Small(n + 1) |-> SumBy(f, s)]
  <2>2. ASSUME NEW s \in Small(n + 1), s # {}
        PROVE  g[s \ {First(s)}] = f[s \ {First(s)}]
    <3> DEFINE t == s \ {First(s)}
    <3>1. t \in SUBSET orders /\ Cardinality(t) <= n
      BY <1>1, <2>2, WithoutFirst
    <3>2. t \in Small(n) /\ t \in Small(n + 1)
      BY <1>1, <3>1
    <3> HIDE DEF t, Small
    <3> QED
      BY <2>1, <3>2 DEF t
  <2>3. ASSUME NEW s \in Small(n + 1) PROVE SumBy(f, s) = SumBy(g, s)
    <3> HIDE DEF g, Small
    <3> QED
      BY <2>2, <2>3 DEF SumBy
  <2>4. Sums(g, n + 1)
    <3>1. \A s \in Small(n + 1) : SumBy(f, s) = SumBy(g, s)
      BY <2>3
    <3> HIDE DEF Small
    <3> QED
      BY <3>1
  <2> HIDE DEF g, Sums
  <2>5. \E h : Sums(h, n + 1)
    BY <2>4
  <2> QED
    BY <2>5
<1>4. Cardinality(orders) \in Nat /\ Cardinality(orders) \in T
  <2> HIDE DEF T
  <2> QED
    BY <1>2, <1>3, AllNumbers, FS_CardinalityType
<1>5. Small(Cardinality(orders)) = SUBSET orders
  BY FS_Subset
<1>6. PICK f : Sums(f, Cardinality(orders))
  BY <1>4
<1> QED
  BY <1>5, <1>6 DEF SumTable

\* Two such functions agree on the sets that both sum.
LEMMA SumTablesAgree ==
    ASSUME NEW orders, NEW fewer \in SUBSET orders, IsFiniteSet(orders),
           NEW f, SumTable(f, orders), NEW g, SumTable(g, fewer)
    PROVE  \A s \in SUBSET fewer : f[s] = g[s]
<1> DEFINE T == {n \in Nat : \A s \in SUBSET fewer : Cardinality(s) = n => f[s] = g[s]}
<1>1. ASSUME NEW s \in SUBSET fewer
      PROVE  /\ IsFiniteSet(s) /\ Cardinality(s) \in Nat
             /\ f[s] = SumBy(f, s) /\ g[s] = SumBy(g, s)
  <2>1. s \in SUBSET orders
    OBVIOUS
  <2> QED
    BY <2>1, FS_Subset, FS_CardinalityType DEF SumTable
<1>2. 0 \in T
  BY <1>1, FS_EmptySet DEF SumBy
<1>3. ASSUME NEW n \in Nat, n \in T PROVE n + 1 \in T
  <2>1. ASSUME NEW s \in SUBSET fewer, Cardinality(s) = n + 1 PROVE f[s] = g[s]
    <3>1. s # {}
      BY <2>1, FS_EmptySet
    <3>2. /\ s \ {First(s)} \in SUBSET fewer
          /\ Cardinality(s \ {First(s)}) = n
      BY <1>1, <2>1, <3>1, WithoutFirst
    <3>3. f[s \ {First(s)}] = g[s \ {First(s)}]
      BY <1>3, <3>2
    <3> QED
      BY <1>1, <3>1, <3>3 DEF SumBy
  <2> QED
    BY <2>1
<1>4. \A n \in Nat : n \in T
  <2> HIDE DEF T
  <2> QED
    BY <1>2, <1>3, AllNumbers
<1> QED
  BY <1>1, <1>4

\* The sum takes its first order and adds the sum of the others.
LEMMA OutstandingStep ==
    ASSUME NEW orders, IsFiniteSet(orders)
    PROVE  Outstanding(orders) =
             IF orders = {} THEN 0
             ELSE Remaining(First(orders)) + Outstanding(orders \ {First(orders)})
<1> DEFINE rest == orders \ {First(orders)}
           f == CHOOSE h : SumTable(h, orders)
           g == CHOOSE h : SumTable(h, rest)
<1>1. SumTable(f, orders)
  BY SumTableExists
<1>2. Outstanding(orders) = f[orders] /\ Outstanding(rest) = g[rest]
  BY OutstandingIsChosen
<1>3. f[orders] = SumBy(f, orders)
  <2> HIDE DEF f
  <2> QED
    BY <1>1 DEF SumTable
<1>4. CASE orders = {}
  <2> HIDE DEF f
  <2> QED
    BY <1>2, <1>3, <1>4 DEF SumBy
<1>5. CASE orders # {}
  <2>1. IsFiniteSet(rest) /\ rest \in SUBSET orders
    BY <1>5, WithoutFirst
  <2>2. SumTable(g, rest)
    BY <2>1, SumTableExists
  <2> HIDE DEF f, g, rest
  <2>3. f[rest] = g[rest]
    BY <1>1, <2>1, <2>2, SumTablesAgree
  <2> QED
    BY <1>2, <1>3, <1>5, <2>3 DEF SumBy, rest
<1> QED
  BY <1>4, <1>5

\* What orders leave to be filled is a natural number.
LEMMA OutstandingType ==
    ASSUME NEW orders, IsFiniteSet(orders), orders \subseteq WorkingOrder
    PROVE  Outstanding(orders) \in Nat
<1> DEFINE T == {n \in Nat : \A s \in SUBSET orders : Cardinality(s) = n => Outstanding(s) \in Nat}
<1>1. ASSUME NEW s \in SUBSET orders PROVE IsFiniteSet(s) /\ Cardinality(s) \in Nat
  BY FS_Subset, FS_CardinalityType
<1>2. 0 \in T
  BY <1>1, FS_EmptySet, OutstandingStep
<1>3. ASSUME NEW n \in Nat, n \in T PROVE n + 1 \in T
  <2>1. ASSUME NEW s \in SUBSET orders, Cardinality(s) = n + 1 PROVE Outstanding(s) \in Nat
    <3>1. s # {}
      BY <2>1, FS_EmptySet
    <3>2. /\ First(s) \in WorkingOrder
          /\ s \ {First(s)} \in SUBSET orders
          /\ Cardinality(s \ {First(s)}) = n
      BY <1>1, <2>1, <3>1, WithoutFirst
    <3>3. Outstanding(s \ {First(s)}) \in Nat
      BY <1>3, <3>2
    <3>4. Remaining(First(s)) \in Nat
      BY <3>2 DEF WorkingOrder, Order, Remaining
    <3> QED
      BY <1>1, <3>1, <3>3, <3>4, OutstandingStep
  <2> QED
    BY <2>1
<1>4. \A n \in Nat : n \in T
  <2> HIDE DEF T
  <2> QED
    BY <1>2, <1>3, AllNumbers
<1> QED
  BY <1>1, <1>4

\* Whichever order is taken, the others leave the rest of the sum.
LEMMA OutstandingRemove ==
    ASSUME NEW orders, IsFiniteSet(orders), orders \subseteq WorkingOrder, NEW w \in orders
    PROVE  Outstanding(orders) = Remaining(w) + Outstanding(orders \ {w})
<1> DEFINE Splits(s) == \A v \in s : Outstanding(s) = Remaining(v) + Outstanding(s \ {v})
           T == {n \in Nat : \A s \in SUBSET orders : Cardinality(s) = n => Splits(s)}
<1>1. ASSUME NEW s \in SUBSET orders
      PROVE  /\ IsFiniteSet(s) /\ Cardinality(s) \in Nat
             /\ s \subseteq WorkingOrder /\ Outstanding(s) \in Nat
  BY FS_Subset, FS_CardinalityType, OutstandingType
<1>2. 0 \in T
  BY <1>1, FS_EmptySet
<1>3. ASSUME NEW n \in Nat, n \in T PROVE n + 1 \in T
  <2>1. ASSUME NEW s \in SUBSET orders, Cardinality(s) = n + 1, NEW v \in s
        PROVE  Outstanding(s) = Remaining(v) + Outstanding(s \ {v})
    <3> DEFINE x == First(s)
    <3>1. s # {} /\ IsFiniteSet(s)
      BY <1>1
    <3>2. x \in s /\ Outstanding(s) = Remaining(x) + Outstanding(s \ {x})
      BY <3>1, WithoutFirst, OutstandingStep
    <3> HIDE DEF x
    <3>3. CASE v = x
      BY <3>2, <3>3
    <3>4. CASE v # x
      <4>1. /\ s \ {v} \in SUBSET orders /\ s \ {x} \in SUBSET orders
            /\ (s \ {v}) \ {x} \in SUBSET orders
            /\ (s \ {v}) \ {x} = (s \ {x}) \ {v}
        OBVIOUS
      <4>2. Cardinality(s \ {v}) = n /\ Cardinality(s \ {x}) = n
        <5>1. \A y \in s : Cardinality(s \ {y}) = Cardinality(s) - 1
          BY <3>1, FS_RemoveElement
        <5> QED
          BY <2>1, <3>2, <5>1
      <4>3. Splits(s \ {v}) /\ Splits(s \ {x})
        BY <1>3, <4>1, <4>2
      <4>4. /\ Outstanding(s \ {v}) = Remaining(x) + Outstanding((s \ {v}) \ {x})
            /\ Outstanding(s \ {x}) = Remaining(v) + Outstanding((s \ {v}) \ {x})
        BY <3>2, <3>4, <4>1, <4>3
      <4>5. /\ Remaining(v) \in Nat /\ Remaining(x) \in Nat
            /\ Outstanding((s \ {v}) \ {x}) \in Nat
        <5>1. v \in WorkingOrder /\ x \in WorkingOrder
          BY <1>1, <3>2
        <5>2. Remaining(v) \in Nat /\ Remaining(x) \in Nat
          BY <5>1 DEF WorkingOrder, Order, Remaining
        <5> QED
          BY <1>1, <4>1, <5>2
      <4> QED
        BY <3>2, <4>4, <4>5
    <3> QED
      BY <3>3, <3>4
  <2> QED
    BY <2>1
<1>4. \A n \in Nat : n \in T
  <2> HIDE DEF T
  <2> QED
    BY <1>2, <1>3, AllNumbers
<1>5. Splits(orders)
  BY <1>1, <1>4
<1> QED
  BY <1>5

\* Sums over sets with no order in common add up, and more orders leave more.
LEMMA OutstandingUnion ==
    ASSUME NEW orders, IsFiniteSet(orders), orders \subseteq WorkingOrder,
           NEW others, IsFiniteSet(others), others \subseteq WorkingOrder,
           orders \cap others = {}
    PROVE  Outstanding(orders \cup others) = Outstanding(orders) + Outstanding(others)
<1> DEFINE Adds(s) == Outstanding(s \cup others) = Outstanding(s) + Outstanding(others)
           T == {n \in Nat : \A s \in SUBSET orders : Cardinality(s) = n => Adds(s)}
<1>1. ASSUME NEW s \in SUBSET orders
      PROVE  /\ IsFiniteSet(s) /\ Cardinality(s) \in Nat
             /\ s \subseteq WorkingOrder /\ Outstanding(s) \in Nat
             /\ IsFiniteSet(s \cup others) /\ s \cup others \subseteq WorkingOrder
  BY FS_Subset, FS_CardinalityType, FS_Union, OutstandingType
<1>2. Outstanding(others) \in Nat
  BY OutstandingType
<1>3. 0 \in T
  <2>1. ASSUME NEW s \in SUBSET orders, Cardinality(s) = 0 PROVE Adds(s)
    <3>1. s = {} /\ s \cup others = others
      BY <1>1, <2>1, FS_EmptySet
    <3>2. Outstanding(s) = 0
      BY <1>1, <3>1, OutstandingStep
    <3> QED
      BY <1>2, <3>1, <3>2
  <2> QED
    BY <2>1
<1>4. ASSUME NEW n \in Nat, n \in T PROVE n + 1 \in T
  <2>1. ASSUME NEW s \in SUBSET orders, Cardinality(s) = n + 1 PROVE Adds(s)
    <3>1. s # {}
      BY <2>1, FS_EmptySet
    <3>2. PICK w \in s : TRUE
      BY <3>1
    <3> DEFINE t == s \ {w}
    <3>3. t \in SUBSET orders /\ Cardinality(t) = n
      <4>1. IsFiniteSet(s) /\ t \subseteq orders
        BY <1>1
      <4>2. Cardinality(t) = Cardinality(s) - 1
        BY <3>2, <4>1, FS_RemoveElement
      <4> QED
        BY <2>1, <4>1, <4>2
    <3>4. Outstanding(t \cup others) = Outstanding(t) + Outstanding(others)
      BY <1>4, <3>3
    <3>5. Outstanding(s) = Remaining(w) + Outstanding(t)
      BY <1>1, OutstandingRemove
    <3>6. w \in s \cup others /\ (s \cup others) \ {w} = t \cup others
      OBVIOUS
    <3>7. Outstanding(s \cup others) = Remaining(w) + Outstanding(t \cup others)
      BY <1>1, <3>6, OutstandingRemove
    <3>8. Remaining(w) \in Nat /\ Outstanding(t) \in Nat
      <4>1. w \in WorkingOrder
        BY <1>1, <3>2
      <4>2. Remaining(w) \in Nat
        BY <4>1 DEF WorkingOrder, Order, Remaining
      <4> QED
        BY <1>1, <3>3, <4>2
    <3> QED
      BY <1>2, <3>4, <3>5, <3>7, <3>8
  <2> QED
    BY <2>1
<1>5. \A n \in Nat : n \in T
  <2> HIDE DEF T
  <2> QED
    BY <1>3, <1>4, AllNumbers
<1> QED
  BY <1>1, <1>5

LEMMA OutstandingSubset ==
    ASSUME NEW orders, IsFiniteSet(orders), orders \subseteq WorkingOrder,
           NEW fewer \in SUBSET orders
    PROVE  /\ IsFiniteSet(fewer)
           /\ Outstanding(fewer) \in Nat /\ Outstanding(orders) \in Nat
           /\ Outstanding(fewer) <= Outstanding(orders)
<1> DEFINE rest == orders \ fewer
<1>1. IsFiniteSet(fewer) /\ IsFiniteSet(rest)
  BY FS_Subset
<1>2. /\ Outstanding(fewer) \in Nat /\ Outstanding(rest) \in Nat
      /\ Outstanding(orders) \in Nat
  BY <1>1, OutstandingType
<1>3. fewer \cup rest = orders /\ fewer \cap rest = {}
  OBVIOUS
<1>4. Outstanding(fewer \cup rest) = Outstanding(fewer) + Outstanding(rest)
  BY <1>1, <1>3, OutstandingUnion
<1> QED
  BY <1>1, <1>2, <1>3, <1>4

\* The orders that the submission of a ladder's intents at some slots creates.
Fresh(gen, ladder, slots) == {Submitted(gen, ladder, s) : s \in slots}

LEMMA FreshOrders ==
    ASSUME NEW gen \in Nat, NEW ladder \in Ladder, NEW slots \in SUBSET Placed(ladder)
    PROVE  /\ IsFiniteSet(slots)
           /\ IsFiniteSet(Fresh(gen, ladder, slots))
           /\ Fresh(gen, ladder, slots) \subseteq WorkingOrder
           /\ Outstanding(Fresh(gen, ladder, slots)) \in Nat
<1>1. IsFiniteSet(slots)
  <2>1. IsFiniteSet(Slots)
    BY OrdersAssumption, FS_Interval DEF Slots
  <2>2. slots \in SUBSET Slots
    BY DEF Placed
  <2> QED
    BY <2>1, <2>2, FS_Subset
<1>2. Fresh(gen, ladder, slots) \subseteq WorkingOrder
  BY SubmittedType DEF Fresh
<1>3. IsFiniteSet(Fresh(gen, ladder, slots))
  <2> DEFINE f == [s \in slots |-> Submitted(gen, ladder, s)]
  <2>1. f \in Surjection(slots, Fresh(gen, ladder, slots))
    BY DEF Fresh, Surjection
  <2> QED
    BY <1>1, <2>1, FS_Surjection
<1> QED
  BY <1>1, <1>2, <1>3, OutstandingType

LEMMA FreshUnion ==
    ASSUME NEW gen \in Nat, NEW ladder \in Ladder,
           NEW slots \in SUBSET Placed(ladder), NEW more \in SUBSET Placed(ladder),
           slots \cap more = {}
    PROVE  Outstanding(Fresh(gen, ladder, slots \cup more))
             = Outstanding(Fresh(gen, ladder, slots)) + Outstanding(Fresh(gen, ladder, more))
<1>1. Fresh(gen, ladder, slots \cup more) = Fresh(gen, ladder, slots) \cup Fresh(gen, ladder, more)
  BY DEF Fresh
<1>2. Fresh(gen, ladder, slots) \cap Fresh(gen, ladder, more) = {}
  BY DEF Fresh, Submitted
<1> QED
  BY <1>1, <1>2, FreshOrders, OutstandingUnion

LEMMA FreshSubset ==
    ASSUME NEW gen \in Nat, NEW ladder \in Ladder,
           NEW slots \in SUBSET Placed(ladder), NEW fewer \in SUBSET slots
    PROVE  Outstanding(Fresh(gen, ladder, fewer)) <= Outstanding(Fresh(gen, ladder, slots))
<1>1. Fresh(gen, ladder, fewer) \in SUBSET Fresh(gen, ladder, slots)
  BY DEF Fresh
<1> QED
  BY <1>1, FreshOrders, OutstandingSubset

\* One intent alone leaves its quantity.
LEMMA FreshOne ==
    ASSUME NEW gen \in Nat, NEW ladder \in Ladder, NEW s \in Placed(ladder)
    PROVE  /\ Outstanding(Fresh(gen, ladder, {s})) = ladder[s].qty
           /\ ladder[s].qty \in Nat \ {0}
<1> DEFINE w == Submitted(gen, ladder, s)
<1>1. ladder[s] \in Order
  BY DEF Placed, Ladder
<1>2. Remaining(w) = ladder[s].qty /\ ladder[s].qty \in Nat \ {0}
  BY <1>1 DEF Remaining, Submitted, Order
<1>3. Fresh(gen, ladder, {s}) = {w}
  BY DEF Fresh
<1>4. IsFiniteSet({w}) /\ {w} \subseteq WorkingOrder
  BY <1>3, FreshOrders
<1> HIDE DEF w
<1>5. Outstanding({w}) = Remaining(w) + Outstanding({})
  <2>1. {w} \ {w} = {} /\ w \in {w}
    OBVIOUS
  <2> QED
    BY <1>4, <2>1, OutstandingRemove
<1>6. Outstanding({}) = 0
  BY FS_EmptySet, OutstandingStep
<1>7. Outstanding(Fresh(gen, ladder, {s})) = Outstanding({w})
  BY <1>3, Zenon
<1> QED
  BY <1>2, <1>5, <1>6, <1>7

\* Working orders of one ladder, one per slot, leave no more than it offers there.
LEMMA WorkingIsNoMore ==
    ASSUME NEW gen \in Nat, NEW ladder \in Ladder,
           NEW orders, IsFiniteSet(orders), orders \subseteq WorkingOrder,
           \A w \in orders : Matches(gen, ladder, w),
           \A v, w \in orders : v.slot = w.slot => v = w
    PROVE  Outstanding(orders) <= Outstanding(Fresh(gen, ladder, {w.slot : w \in orders}))
<1> DEFINE slots(s) == {w.slot : w \in s}
           Bounded(s) == Outstanding(s) <= Outstanding(Fresh(gen, ladder, slots(s)))
           T == {n \in Nat : \A s \in SUBSET orders : Cardinality(s) = n => Bounded(s)}
<1>1. ASSUME NEW s \in SUBSET orders
      PROVE  /\ IsFiniteSet(s) /\ Cardinality(s) \in Nat
             /\ s \subseteq WorkingOrder /\ Outstanding(s) \in Nat
             /\ slots(s) \in SUBSET Placed(ladder)
             /\ Outstanding(Fresh(gen, ladder, slots(s))) \in Nat
  <2>1. /\ IsFiniteSet(s) /\ Cardinality(s) \in Nat
        /\ s \subseteq WorkingOrder /\ Outstanding(s) \in Nat
    BY FS_Subset, FS_CardinalityType, OutstandingType
  <2>2. slots(s) \in SUBSET Placed(ladder)
    BY <2>1 DEF WorkingOrder, Matches, IsDesired, Placed
  <2> QED
    BY <2>1, <2>2, FreshOrders
<1>2. 0 \in T
  <2>1. ASSUME NEW s \in SUBSET orders, Cardinality(s) = 0 PROVE Bounded(s)
    <3>1. Outstanding(s) = 0
      BY <1>1, <2>1, FS_EmptySet, OutstandingStep
    <3> HIDE DEF slots
    <3> QED
      BY <1>1, <3>1
  <2> QED
    BY <2>1
<1>3. ASSUME NEW n \in Nat, n \in T PROVE n + 1 \in T
  <2>1. ASSUME NEW s \in SUBSET orders, Cardinality(s) = n + 1 PROVE Bounded(s)
    <3>1. PICK w \in s : TRUE
      BY <2>1, FS_EmptySet
    <3> DEFINE t == s \ {w}
    <3>2. t \in SUBSET orders /\ Cardinality(t) = n
      <4>1. IsFiniteSet(s) /\ t \subseteq orders
        BY <1>1
      <4>2. Cardinality(t) = Cardinality(s) - 1
        BY <3>1, <4>1, FS_RemoveElement
      <4> QED
        BY <2>1, <4>1, <4>2
    <3>3. Outstanding(t) <= Outstanding(Fresh(gen, ladder, slots(t)))
      BY <1>3, <3>2
    <3>4. Outstanding(s) = Remaining(w) + Outstanding(t)
      BY <1>1, OutstandingRemove
    <3>5. /\ slots(s) = slots(t) \cup {w.slot} /\ slots(t) \cap {w.slot} = {}
          /\ {w.slot} \in SUBSET Placed(ladder)
      <4>1. slots(s) = slots(t) \cup {w.slot} /\ slots(t) \cap {w.slot} = {}
        BY <3>1
      <4> QED
        BY <1>1, <4>1
    <3>6. Outstanding(Fresh(gen, ladder, slots(s)))
            = Outstanding(Fresh(gen, ladder, slots(t))) + Outstanding(Fresh(gen, ladder, {w.slot}))
      <4>1. slots(t) \in SUBSET Placed(ladder)
        BY <1>1, <3>2
      <4> DEFINE one == {w.slot}
                 rest == slots(t)
      <4>2. /\ slots(s) = rest \cup one /\ rest \cap one = {}
            /\ rest \in SUBSET Placed(ladder) /\ one \in SUBSET Placed(ladder)
        BY <3>5, <4>1
      <4> HIDE DEF slots, one, rest
      <4>3. Outstanding(Fresh(gen, ladder, rest \cup one))
              = Outstanding(Fresh(gen, ladder, rest)) + Outstanding(Fresh(gen, ladder, one))
        BY <4>2, FreshUnion
      <4> QED
        BY <4>2, <4>3, Zenon DEF one, rest
    <3>7. /\ Outstanding(Fresh(gen, ladder, {w.slot})) = ladder[w.slot].qty
          /\ ladder[w.slot].qty \in Nat
      BY <3>5, FreshOne
    <3>8. Remaining(w) \in Nat /\ Remaining(w) <= ladder[w.slot].qty
      <4>1. w \in WorkingOrder /\ Matches(gen, ladder, w)
        BY <1>1, <3>1
      <4> QED
        BY <4>1 DEF WorkingOrder, Order, Remaining, Matches
    <3>9. Outstanding(t) \in Nat /\ Outstanding(Fresh(gen, ladder, slots(t))) \in Nat
      BY <1>1, <3>2
    <3> QED
      BY <3>3, <3>4, <3>6, <3>7, <3>8, <3>9
  <2> QED
    BY <2>1
<1>4. \A n \in Nat : n \in T
  <2> HIDE DEF T
  <2> QED
    BY <1>2, <1>3, AllNumbers
<1> QED
  BY <1>1, <1>4

-----------------------------------------------------------------------------
(* The filter of the risk gate.                                            *)

StartTally(p) == [projected |-> p, capacity |-> Abs(p)]

\* One turn of the filter's loop.
NextTally(p, allow, ladder, k, before) ==
    IF ladder[k] = NoOrder \/ ~Takes(p, allow, k, ladder[k], before) THEN before
    ELSE IF ladder[k].reduceOnly
         THEN [before EXCEPT !.capacity = @ - ladder[k].qty]
         ELSE [before EXCEPT !.projected = @ + SignedFill(k, ladder[k].qty)]

TallyBy(t, p, allow, ladder, k) ==
    IF k = 0 THEN StartTally(p) ELSE NextTally(p, allow, ladder, k, t[k - 1])

TallyFunction(t, p, allow, ladder) ==
    t = [k \in 0..(2 * Levels) |-> TallyBy(t, p, allow, ladder, k)]

LEMMA TallyIsChosen ==
    ASSUME NEW p, NEW allow, NEW ladder
    PROVE  Tally(p, allow, ladder) = CHOOSE t : TallyFunction(t, p, allow, ladder)
BY DEF Tally, TallyFunction, TallyBy, StartTally, NextTally

\* The loop has a tally after every slot.
LEMMA TallyEquations ==
    ASSUME NEW p, NEW allow, NEW ladder
    PROVE  /\ Tally(p, allow, ladder)[0] = StartTally(p)
           /\ \A k \in 1..(2 * Levels) :
                Tally(p, allow, ladder)[k]
                    = NextTally(p, allow, ladder, k, Tally(p, allow, ladder)[k - 1])
<1> DEFINE By(t, k) == TallyBy(t, p, allow, ladder, k)
           Upto(t, n) == t = [k \in 0..n |-> By(t, k)]
           T == {n \in Nat : \E t : Upto(t, n)}
<1>1. 0 \in T
  <2> DEFINE t == [k \in 0..0 |-> StartTally(p)]
  <2>1. \A k \in 0..0 : k = 0
    OBVIOUS
  <2>2. Upto(t, 0)
    BY <2>1 DEF TallyBy
  <2> QED
    BY <2>2
<1>2. ASSUME NEW n \in Nat, n \in T PROVE n + 1 \in T
  <2>1. PICK t : Upto(t, n)
    BY <1>2
  <2> DEFINE u == [k \in 0..(n + 1) |-> By(t, k)]
  <2>2. ASSUME NEW k \in 0..(n + 1), k # 0 PROVE u[k - 1] = t[k - 1]
    <3>1. k - 1 \in 0..n /\ k - 1 \in 0..(n + 1)
      BY <2>2
    <3> DEFINE j == k - 1
    <3> HIDE DEF j
    <3>2. j \in 0..n /\ j \in 0..(n + 1)
      BY <3>1 DEF j
    <3>3. u[j] = t[j]
      <4> HIDE DEF By
      <4> QED
        BY <2>1, <3>2
    <3> QED
      BY <3>3 DEF j
  <2>3. ASSUME NEW k \in 0..(n + 1) PROVE By(t, k) = By(u, k)
    <3> HIDE DEF u
    <3> QED
      BY <2>2 DEF TallyBy
  <2>4. Upto(u, n + 1)
    <3> HIDE DEF By
    <3>1. \A k \in 0..(n + 1) : By(t, k) = By(u, k)
      BY <2>3
    <3> QED
      BY <3>1
  <2> HIDE DEF u, Upto
  <2>5. \E v : Upto(v, n + 1)
    BY <2>4
  <2> QED
    BY <2>5
<1>3. 2 * Levels \in Nat /\ 2 * Levels \in T
  <2> HIDE DEF T
  <2> QED
    BY <1>1, <1>2, AllNumbers, OrdersAssumption
<1>4. \E t : TallyFunction(t, p, allow, ladder)
  BY <1>3 DEF TallyFunction
<1> DEFINE t == Tally(p, allow, ladder)
<1>5. TallyFunction(t, p, allow, ladder)
  BY <1>4, TallyIsChosen
<1> HIDE DEF t
<1>6. \A k \in 0..(2 * Levels) : t[k] = By(t, k)
  <2> HIDE DEF By
  <2> QED
    BY <1>5 DEF TallyFunction, By
<1>7. t[0] = StartTally(p)
  BY <1>3, <1>6 DEF TallyBy
<1>8. ASSUME NEW k \in 1..(2 * Levels)
      PROVE  t[k] = NextTally(p, allow, ladder, k, t[k - 1])
  BY <1>3, <1>6 DEF TallyBy
<1> QED
  BY <1>7, <1>8 DEF t

\* The intents that the filter takes among the first n slots.
TakenReducing(p, allow, ladder, n) ==
    {k \in Taken(p, allow, ladder) : k <= n /\ ladder[k].reduceOnly}
TakenRisking(p, allow, ladder, n) ==
    {k \in Taken(p, allow, ladder) : k <= n /\ ~ladder[k].reduceOnly}

\* What the tally after n slots says of them: the capacity is what they leave of
\* the position, and the projection, as long as all new risk is on one side, is
\* the position with every one of them filled.
TallySays(gen, p, allow, ladder, n) ==
    LET tally == Tally(p, allow, ladder)[n]
        reducing == Outstanding(Fresh(gen, ladder, TakenReducing(p, allow, ladder, n)))
        risking == Outstanding(Fresh(gen, ladder, TakenRisking(p, allow, ladder, n)))
    IN  /\ tally.projected \in Int /\ tally.capacity \in Nat
        /\ tally \in [projected : Int, capacity : Nat]
        /\ tally.capacity = Abs(p) - reducing
        /\ (\A k \in Taken(p, allow, ladder) : ladder[k].reduceOnly \/ IsBuy(k)) =>
                tally.projected = p + risking
        /\ (\A k \in Taken(p, allow, ladder) : ladder[k].reduceOnly \/ ~IsBuy(k)) =>
                tally.projected = p - risking
        /\ TakenRisking(p, allow, ladder, n) # {} => Abs(tally.projected) <= MaxAbsPosition

LEMMA TallyStarts ==
    ASSUME NEW gen \in Nat, NEW p \in Int, NEW allow \in BOOLEAN, NEW ladder \in Ladder
    PROVE  TallySays(gen, p, allow, ladder, 0)
<1>1. Tally(p, allow, ladder)[0] = [projected |-> p, capacity |-> Abs(p)]
  BY TallyEquations DEF StartTally
<1>2. \A k \in Taken(p, allow, ladder) : k \in Nat /\ k > 0
  BY OrdersAssumption DEF Taken, Placed, Slots
<1>3. TakenReducing(p, allow, ladder, 0) = {} /\ TakenRisking(p, allow, ladder, 0) = {}
  BY <1>2 DEF TakenReducing, TakenRisking
<1>4. Fresh(gen, ladder, {}) = {}
  BY DEF Fresh
<1>5. Outstanding({}) = 0
  BY FS_EmptySet, OutstandingStep
<1>6. /\ Outstanding(Fresh(gen, ladder, TakenReducing(p, allow, ladder, 0))) = 0
      /\ Outstanding(Fresh(gen, ladder, TakenRisking(p, allow, ladder, 0))) = 0
  BY <1>3, <1>4, <1>5, Zenon
<1>7. Abs(p) \in Nat
  BY DEF Abs
<1> QED
  BY <1>1, <1>3, <1>6, <1>7 DEF TallySays

LEMMA TallyGoesOn ==
    ASSUME NEW gen \in Nat, NEW p \in Int, NEW allow \in BOOLEAN, NEW ladder \in Ladder,
           NEW n \in 0..(2 * Levels), n + 1 <= 2 * Levels,
           TallySays(gen, p, allow, ladder, n)
    PROVE  TallySays(gen, p, allow, ladder, n + 1)
<1> DEFINE k == n + 1
           taken == Taken(p, allow, ladder)
           before == Tally(p, allow, ladder)[n]
           after == Tally(p, allow, ladder)[k]
           reducing(i) == TakenReducing(p, allow, ladder, i)
           risking(i) == TakenRisking(p, allow, ladder, i)
           sum(slots) == Outstanding(Fresh(gen, ladder, slots))
<1>1. k \in 1..(2 * Levels) /\ k - 1 = n /\ k \in Slots
  BY OrdersAssumption DEF Slots
<1>2. after = NextTally(p, allow, ladder, k, before)
  BY <1>1, TallyEquations
<1>3. k \in taken <=> ladder[k] # NoOrder /\ Takes(p, allow, k, ladder[k], before)
  BY <1>1 DEF Taken, Placed
<1>4. /\ taken \subseteq Placed(ladder)
      /\ \A i : reducing(i) \in SUBSET Placed(ladder) /\ risking(i) \in SUBSET Placed(ladder)
      /\ \A j \in taken : j \in Nat
  BY OrdersAssumption DEF Taken, TakenReducing, TakenRisking, Placed, Slots
<1>5. \A j \in taken : j <= k <=> j <= n \/ j = k
  BY <1>4
<1>6. /\ before.projected \in Int /\ before.capacity \in Nat
      /\ before \in [projected : Int, capacity : Nat]
      /\ before.capacity = Abs(p) - sum(reducing(n))
      /\ (\A j \in taken : ladder[j].reduceOnly \/ IsBuy(j)) => before.projected = p + sum(risking(n))
      /\ (\A j \in taken : ladder[j].reduceOnly \/ ~IsBuy(j)) => before.projected = p - sum(risking(n))
      /\ risking(n) # {} => Abs(before.projected) <= MaxAbsPosition
  BY DEF TallySays
<1>7. sum(reducing(n)) \in Nat /\ sum(risking(n)) \in Nat /\ Abs(p) \in Int
  BY <1>4, FreshOrders DEF Abs
<1> SUFFICES /\ after \in [projected : Int, capacity : Nat]
             /\ after.capacity = Abs(p) - sum(reducing(k))
             /\ (\A j \in taken : ladder[j].reduceOnly \/ IsBuy(j)) => after.projected = p + sum(risking(k))
             /\ (\A j \in taken : ladder[j].reduceOnly \/ ~IsBuy(j)) => after.projected = p - sum(risking(k))
             /\ risking(k) # {} => Abs(after.projected) <= MaxAbsPosition
  BY DEF TallySays
<1>8. CASE k \notin taken
  <2>1. after = before
    BY <1>2, <1>3, <1>8 DEF NextTally
  <2>2. reducing(k) = reducing(n) /\ risking(k) = risking(n)
    BY <1>5, <1>8 DEF TakenReducing, TakenRisking
  <2> HIDE DEF k, taken, before, after, reducing, risking, sum
  <2> QED
    BY <1>6, <2>1, <2>2
<1>9. CASE k \in taken /\ ladder[k].reduceOnly
  <2>1. Takes(p, allow, k, ladder[k], before) /\ ladder[k] # NoOrder
    BY <1>3, <1>9
  <2>2. /\ after = [before EXCEPT !.capacity = @ - ladder[k].qty]
        /\ ladder[k].qty <= before.capacity
    BY <1>2, <1>9, <2>1 DEF NextTally, Takes
  <2>3. k \in Placed(ladder) /\ ladder[k].qty \in Nat
    BY <1>4, <1>9, FreshOne
  <2>4. reducing(k) = reducing(n) \cup {k} /\ risking(k) = risking(n)
        /\ reducing(n) \cap {k} = {}
    <3>1. ~(k <= n)
      OBVIOUS
    <3> QED
      BY <1>5, <1>9, <3>1 DEF TakenReducing, TakenRisking
  <2>5. sum(reducing(k)) = sum(reducing(n)) + ladder[k].qty
    <3> DEFINE one == {k}
               rest == reducing(n)
    <3>1. /\ reducing(k) = rest \cup one /\ rest \cap one = {}
          /\ rest \in SUBSET Placed(ladder) /\ one \in SUBSET Placed(ladder)
      BY <1>4, <2>3, <2>4
    <3>2. Outstanding(Fresh(gen, ladder, one)) = ladder[k].qty
      BY <2>3, FreshOne
    <3> HIDE DEF one, rest, reducing, k
    <3>3. Outstanding(Fresh(gen, ladder, rest \cup one))
            = Outstanding(Fresh(gen, ladder, rest)) + Outstanding(Fresh(gen, ladder, one))
      BY <3>1, FreshUnion
    <3>4. Outstanding(Fresh(gen, ladder, rest \cup one))
            = Outstanding(Fresh(gen, ladder, rest)) + ladder[k].qty
      BY <3>2, <3>3, Zenon
    <3> QED
      BY <3>1, <3>4, Zenon DEF rest
  <2> HIDE DEF k, taken, before, after, reducing, risking, sum
  <2>6. /\ after.capacity = before.capacity - ladder[k].qty
        /\ after.projected = before.projected
        /\ after \in [projected : Int, capacity : Nat]
    BY <1>6, <2>2, <2>3
  <2> QED
    BY <1>6, <1>7, <2>3, <2>4, <2>5, <2>6
<1>10. CASE k \in taken /\ ~ladder[k].reduceOnly
  <2>1. Takes(p, allow, k, ladder[k], before) /\ ladder[k] # NoOrder
    BY <1>3, <1>10
  <2>2. /\ after = [before EXCEPT !.projected = @ + SignedFill(k, ladder[k].qty)]
        /\ Abs(before.projected + SignedFill(k, ladder[k].qty)) <= MaxAbsPosition
    BY <1>2, <1>10, <2>1 DEF NextTally, Takes
  <2>3. k \in Placed(ladder) /\ ladder[k].qty \in Nat
    BY <1>4, <1>10, FreshOne
  <2>4. risking(k) = risking(n) \cup {k} /\ reducing(k) = reducing(n)
        /\ risking(n) \cap {k} = {}
    <3>1. ~(k <= n)
      OBVIOUS
    <3> QED
      BY <1>5, <1>10, <3>1 DEF TakenReducing, TakenRisking
  <2>5. sum(risking(k)) = sum(risking(n)) + ladder[k].qty
    <3> DEFINE one == {k}
               rest == risking(n)
    <3>1. /\ risking(k) = rest \cup one /\ rest \cap one = {}
          /\ rest \in SUBSET Placed(ladder) /\ one \in SUBSET Placed(ladder)
      BY <1>4, <2>3, <2>4
    <3>2. Outstanding(Fresh(gen, ladder, one)) = ladder[k].qty
      BY <2>3, FreshOne
    <3> HIDE DEF one, rest, risking, k
    <3>3. Outstanding(Fresh(gen, ladder, rest \cup one))
            = Outstanding(Fresh(gen, ladder, rest)) + Outstanding(Fresh(gen, ladder, one))
      BY <3>1, FreshUnion
    <3>4. Outstanding(Fresh(gen, ladder, rest \cup one))
            = Outstanding(Fresh(gen, ladder, rest)) + ladder[k].qty
      BY <3>2, <3>3, Zenon
    <3> QED
      BY <3>1, <3>4, Zenon DEF rest
  <2>6. SignedFill(k, ladder[k].qty) = IF IsBuy(k) THEN ladder[k].qty ELSE -ladder[k].qty
    BY DEF SignedFill
  <2>7. k \in taken /\ ~ladder[k].reduceOnly
    BY <1>10
  <2> HIDE DEF k, taken, before, after, reducing, risking, sum
  <2>8. /\ after.projected = before.projected + SignedFill(k, ladder[k].qty)
        /\ after.capacity = before.capacity
        /\ after \in [projected : Int, capacity : Nat]
    BY <1>6, <2>2, <2>3, <2>6
  <2>9. (\A j \in taken : ladder[j].reduceOnly \/ IsBuy(j)) => after.projected = p + sum(risking(k))
    BY <1>6, <1>7, <2>3, <2>5, <2>6, <2>7, <2>8
  <2>10. (\A j \in taken : ladder[j].reduceOnly \/ ~IsBuy(j)) => after.projected = p - sum(risking(k))
    BY <1>6, <1>7, <2>3, <2>5, <2>6, <2>7, <2>8
  <2> QED
    BY <1>6, <2>2, <2>4, <2>8, <2>9, <2>10
<1> QED
  BY <1>8, <1>9, <1>10

\* After the whole loop.
LEMMA TallyEnds ==
    ASSUME NEW gen \in Nat, NEW p \in Int, NEW allow \in BOOLEAN, NEW ladder \in Ladder
    PROVE  TallySays(gen, p, allow, ladder, 2 * Levels)
<1> DEFINE T == {n \in Nat : n <= 2 * Levels => TallySays(gen, p, allow, ladder, n)}
<1>1. 0 \in T
  BY TallyStarts
<1>2. ASSUME NEW n \in Nat, n \in T PROVE n + 1 \in T
  <2>1. ASSUME n + 1 <= 2 * Levels PROVE TallySays(gen, p, allow, ladder, n + 1)
    <3>1. n \in 0..(2 * Levels) /\ n <= 2 * Levels
      BY <2>1, OrdersAssumption
    <3> QED
      BY <1>2, <2>1, <3>1, TallyGoesOn
  <2> QED
    BY <2>1
<1>3. 2 * Levels \in Nat
  BY OrdersAssumption
<1>4. 2 * Levels \in T
  <2> HIDE DEF T
  <2> QED
    BY <1>1, <1>2, <1>3, AllNumbers
<1> QED
  BY <1>3, <1>4

-----------------------------------------------------------------------------
(* What a policy cycle may desire.                                         *)

\* Each side is of one kind, and at most one side takes new risk.
SidedLadder(ladder) ==
    \A s, t \in Placed(ladder) :
        /\ (IsBuy(s) <=> IsBuy(t)) => (ladder[s].reduceOnly <=> ladder[t].reduceOnly)
        /\ ~(IsBuy(s) <=> IsBuy(t)) => ladder[s].reduceOnly \/ ladder[t].reduceOnly

LEMMA BuiltLaddersAreSided ==
    ASSUME NEW s \in GridState
    PROVE  SidedLadder(BuildLadder(s))
<1>1. s.target \in Int
  BY AdaptiveGridAssumption DEF GridState, Targets
<1>2. ASSUME NEW t \in Placed(BuildLadder(s))
      PROVE  BuildLadder(s)[t].reduceOnly <=> IF IsBuy(t) THEN s.target <= 0 ELSE s.target >= 0
  BY DEF Placed, BuildLadder, BuyReduceOnly, SellReduceOnly
<1> QED
  BY <1>1, <1>2 DEF SidedLadder

ReducingSlots(ladder) == {s \in Placed(ladder) : ladder[s].reduceOnly}
RiskingSlots(ladder) == {s \in Placed(ladder) : ~ladder[s].reduceOnly}

\* What hard risk guarantees of a desired ladder that has an intent at all.
Gated(gen, desired, acc, o) ==
    /\ ~o.stale /\ ~acc.drawdown
    /\ acc.others + Cardinality(Placed(desired)) <= MaxOpenOrders
    /\ \A s \in ReducingSlots(desired) : ReducesPosition(o.position, s)
    /\ Outstanding(Fresh(gen, desired, ReducingSlots(desired))) <= Abs(o.position)
    /\ RiskingSlots(desired) # {} =>
        /\ (\A s \in RiskingSlots(desired) : IsBuy(s)) =>
                o.position + Outstanding(Fresh(gen, desired, RiskingSlots(desired))) <= MaxAbsPosition
        /\ (\A s \in RiskingSlots(desired) : ~IsBuy(s)) =>
                o.position - Outstanding(Fresh(gen, desired, RiskingSlots(desired))) >= -MaxAbsPosition

\* A desired ladder is the candidate's own, or only reduces.
LEMMA GateBoundsDesired ==
    ASSUME NEW gen \in Nat, NEW acc \in Account, NEW o \in Observation, NEW before,
           NEW candidate \in GridState, NEW ladder \in Ladder, NEW may \in BOOLEAN,
           may => ladder = BuildLadder(candidate),
           NEW r, r = Cycle(acc, o, before, candidate, ladder, may),
           Placed(r.desired) # {}
    PROVE  /\ r.desired \in Ladder
           /\ Gated(gen, r.desired, acc, o)
           /\ SidedLadder(r.desired)
           /\ (r.accepted /\ r.desired = BuildLadder(candidate)) \/ RiskingSlots(r.desired) = {}
<1> DEFINE view == [position   |-> o.position,
                    stale      |-> o.stale,
                    drawdown   |-> acc.drawdown,
                    openOrders |-> acc.others + Cardinality(Placed(ladder))]
           d == EvaluateRisk(view)
           all == Taken(o.position, d.allowNewRisk, ladder)
           taken == IF d.cancelAll \/ d.targetFlat THEN {} ELSE all
           assessment == AssessDesiredLadder(acc, o, ladder)
           reducing == TakenReducing(o.position, d.allowNewRisk, ladder, 2 * Levels)
           risking == TakenRisking(o.position, d.allowNewRisk, ladder, 2 * Levels)
<1>1. /\ r.accepted = (may /\ AcceptsExactly(assessment, ladder))
      /\ r.desired = IF r.accepted THEN ladder ELSE ReduceOnlyPart(assessment.filtered)
  BY DEF Cycle
<1>2. assessment.filtered = Keep(ladder, taken)
  BY DEF AssessDesiredLadder, AssessLadder
<1>3. r.accepted => may /\ ladder = Keep(ladder, taken) /\ ladder = BuildLadder(candidate)
  BY <1>1, <1>2 DEF AcceptsExactly
<1>4. r.desired \in Ladder
  BY <1>1, <1>2, PartsOfLadders
<1>5. ASSUME NEW s \in Placed(r.desired)
      PROVE  /\ s \in taken /\ s \in Placed(ladder) /\ r.desired[s] = ladder[s]
             /\ ~r.accepted => ladder[s].reduceOnly
  <2> HIDE DEF taken, assessment
  <2>1. CASE r.accepted
    BY <1>1, <1>3, <2>1 DEF Placed, Keep
  <2>2. CASE ~r.accepted
    BY <1>1, <1>2, <2>2 DEF Placed, Keep, ReduceOnlyPart
  <2> QED
    BY <2>1, <2>2
<1>6. /\ ~d.cancelAll /\ ~d.targetFlat /\ taken = all
      /\ Placed(r.desired) \subseteq all
  BY <1>5
<1>7. o.position \in Int /\ d.allowNewRisk \in BOOLEAN /\ acc.others \in Nat
  BY QuoteExecutionAssumption DEF Observation, Account, EvaluateRisk
<1>8. /\ Placed(r.desired) \in SUBSET Placed(ladder)
      /\ Cardinality(Placed(r.desired)) \in Nat /\ Cardinality(Placed(ladder)) \in Nat
      /\ Cardinality(Placed(r.desired)) <= Cardinality(Placed(ladder))
  <2>1. Placed(r.desired) \in SUBSET Placed(ladder)
    BY <1>5
  <2>2. IsFiniteSet(Placed(ladder)) /\ IsFiniteSet(Placed(r.desired))
    BY <2>1, FreshOrders
  <2> QED
    BY <2>1, <2>2, FS_Subset, FS_CardinalityType
<1>9. /\ ~o.stale /\ ~acc.drawdown
      /\ acc.others + Cardinality(Placed(ladder)) <= MaxOpenOrders
  <2>1. ~view.stale /\ ~view.drawdown /\ ~(view.openOrders > MaxOpenOrders)
    <3> HIDE DEF view
    <3> QED
      BY <1>6 DEF EvaluateRisk
  <2>2. ~(acc.others + Cardinality(Placed(ladder)) > MaxOpenOrders)
    BY <2>1
  <2>3. acc.others + Cardinality(Placed(ladder)) \in Int /\ MaxOpenOrders \in Int
    BY <1>7, <1>8, RiskLimitsAssumption
  <2> QED
    BY <2>1, <2>2, <2>3
<1>10. acc.others + Cardinality(Placed(r.desired)) <= MaxOpenOrders
  BY <1>7, <1>8, <1>9, RiskLimitsAssumption
<1>11. \A s \in ReducingSlots(r.desired) : ReducesPosition(o.position, s)
  BY <1>5, <1>6 DEF ReducingSlots, Taken, Takes
<1>12. TallySays(gen, o.position, d.allowNewRisk, ladder, 2 * Levels)
  BY <1>7, TallyEnds
<1>13. \A s \in all : s <= 2 * Levels /\ s \in Placed(ladder)
  BY DEF Taken, Placed, Slots
<1>14. Outstanding(Fresh(gen, r.desired, ReducingSlots(r.desired))) <= Abs(o.position)
  <2>1. Fresh(gen, r.desired, ReducingSlots(r.desired)) = Fresh(gen, ladder, ReducingSlots(r.desired))
    BY <1>5 DEF Fresh, Submitted, ReducingSlots
  <2>2. ReducingSlots(r.desired) \in SUBSET reducing /\ reducing \in SUBSET Placed(ladder)
    BY <1>5, <1>6, <1>13 DEF ReducingSlots, TakenReducing
  <2> DEFINE mine == ReducingSlots(r.desired)
  <2> HIDE DEF mine, reducing
  <2>3. Outstanding(Fresh(gen, ladder, mine)) <= Outstanding(Fresh(gen, ladder, reducing))
    BY <2>2, FreshSubset DEF mine
  <2>4. /\ Outstanding(Fresh(gen, ladder, mine)) \in Nat
        /\ Outstanding(Fresh(gen, ladder, reducing)) \in Nat
    <3>1. mine \in SUBSET Placed(ladder)
      BY <2>2 DEF mine
    <3> QED
      BY <2>2, <3>1, FreshOrders
  <2>5. Outstanding(Fresh(gen, ladder, reducing)) <= Abs(o.position)
    <3> HIDE DEF d
    <3> QED
      BY <1>7, <1>12, <2>4 DEF TallySays, Abs, reducing
  <2>6. Outstanding(Fresh(gen, ladder, mine)) <= Abs(o.position)
    BY <1>7, <2>3, <2>4, <2>5 DEF Abs
  <2> QED
    BY <2>1, <2>6, Zenon DEF mine
<1>15. ASSUME RiskingSlots(r.desired) # {}
       PROVE  /\ (\A s \in RiskingSlots(r.desired) : IsBuy(s)) =>
                    o.position + Outstanding(Fresh(gen, r.desired, RiskingSlots(r.desired))) <= MaxAbsPosition
              /\ (\A s \in RiskingSlots(r.desired) : ~IsBuy(s)) =>
                    o.position - Outstanding(Fresh(gen, r.desired, RiskingSlots(r.desired))) >= -MaxAbsPosition
  <2>1. r.accepted /\ r.desired = ladder
    BY <1>1, <1>5, <1>15 DEF RiskingSlots
  <2>2. RiskingSlots(r.desired) = risking
    BY <1>6, <1>13, <2>1 DEF RiskingSlots, TakenRisking
  <2>3. \A s \in all : ladder[s].reduceOnly \/ s \in risking
    BY <1>13 DEF TakenRisking
  <2> DEFINE sum == Outstanding(Fresh(gen, ladder, risking))
             projected == Tally(o.position, d.allowNewRisk, ladder)[2 * Levels].projected
  <2>4. /\ projected \in Int /\ Abs(projected) <= MaxAbsPosition
        /\ (\A s \in all : ladder[s].reduceOnly \/ IsBuy(s)) => projected = o.position + sum
        /\ (\A s \in all : ladder[s].reduceOnly \/ ~IsBuy(s)) => projected = o.position - sum
    <3> HIDE DEF d
    <3> QED
      BY <1>12, <1>15, <2>2 DEF TallySays
  <2>5. sum \in Nat
    <3>1. risking \in SUBSET Placed(ladder)
      BY <1>13 DEF TakenRisking
    <3> HIDE DEF risking
    <3> QED
      BY <3>1, FreshOrders
  <2>6. Outstanding(Fresh(gen, r.desired, RiskingSlots(r.desired))) = sum
    BY <2>1, <2>2, Zenon
  <2> HIDE DEF sum, projected, risking, all
  <2>7. MaxAbsPosition \in Nat
    BY RiskLimitsAssumption
  <2>8. /\ (\A s \in risking : IsBuy(s)) => o.position + sum <= MaxAbsPosition
        /\ (\A s \in risking : ~IsBuy(s)) => o.position - sum >= -MaxAbsPosition
    BY <1>7, <2>3, <2>4, <2>5, <2>7 DEF Abs
  <2> QED
    BY <2>2, <2>6, <2>8
<1>16. SidedLadder(r.desired)
  <2>1. CASE r.accepted
    BY <1>1, <1>3, <2>1, BuiltLaddersAreSided
  <2>2. CASE ~r.accepted
    BY <1>5, <2>2 DEF SidedLadder
  <2> QED
    BY <2>1, <2>2
<1>17. (r.accepted /\ r.desired = BuildLadder(candidate)) \/ RiskingSlots(r.desired) = {}
  <2>1. r.accepted => r.desired = BuildLadder(candidate)
    BY <1>1, <1>3
  <2>2. ~r.accepted => RiskingSlots(r.desired) = {}
    BY <1>5 DEF RiskingSlots
  <2> QED
    BY <1>1, <2>1, <2>2
<1> QED
  BY <1>4, <1>9, <1>10, <1>11, <1>14, <1>15, <1>16, <1>17 DEF Gated

-----------------------------------------------------------------------------
(* The inductive invariant of exposure.                                    *)

\* The orders of one side, or of one kind on one side.
Part(orders, slots, kinds) == {w \in orders : w.slot \in slots /\ w.order.reduceOnly \in kinds}

BuySlots == {s \in Slots : IsBuy(s)}
SellSlots == {s \in Slots : ~IsBuy(s)}

\* The venue's orders come from one sided ladder.
ISided ==
    \A v, w \in live :
        /\ (IsBuy(v.slot) <=> IsBuy(w.slot)) => (v.order.reduceOnly <=> w.order.reduceOnly)
        /\ ~(IsBuy(v.slot) <=> IsBuy(w.slot)) => v.order.reduceOnly \/ w.order.reduceOnly

\* Since the observation at hand the venue has only filled and ended orders: the
\* exposure of a side is no more than the one observed.
IDrift ==
    obs # NoObs =>
        /\ \A v, w \in obs.working : v.gen = w.gen /\ (v.slot = w.slot => v = w)
        /\ position + Outstanding(Part(live, BuySlots, BOOLEAN))
             <= obs.position + Outstanding(Part(obs.working, BuySlots, BOOLEAN))
        /\ position - Outstanding(Part(live, SellSlots, BOOLEAN))
             >= obs.position - Outstanding(Part(obs.working, SellSlots, BOOLEAN))

\* Orders of the committed generation, at the venue and as observed, are intents
\* of the committed ladder.
ICommitted ==
    /\ \A w \in live : w.gen = state.gen => Matches(state.gen, BuildLadder(state), w)
    /\ obs # NoObs =>
        \A w \in obs.working : w.gen = state.gen => Matches(state.gen, BuildLadder(state), w)

\* A pending candidate of the committed generation is the committed state, and
\* what is desired for a candidate is a part of its ladder.
ISame ==
    pending # NoTransition =>
        /\ pending.candidate.gen = state.gen => pending.candidate = state
        /\ \A s \in Placed(pending.desired) :
            pending.desired[s] = BuildLadder(pending.candidate)[s]

RiskInv == /\ IInv /\ ISided /\ IDrift /\ ICommitted /\ ISame
           /\ ExposureBounded /\ ReduceOnlyCovered

\* One order per slot makes orders finite, and no more than their slots.
LEMMA OrdersAreFinite ==
    ASSUME NEW orders \in SUBSET WorkingOrder,
           \A v, w \in orders : v.slot = w.slot => v = w,
           NEW slots \in SUBSET Slots, \A w \in orders : w.slot \in slots
    PROVE  /\ IsFiniteSet(orders) /\ Cardinality(orders) \in Nat /\ Cardinality(slots) \in Nat
           /\ Cardinality(orders) <= Cardinality(slots)
<1> DEFINE f == [w \in orders |-> w.slot]
<1>1. IsFiniteSet(slots)
  <2>1. IsFiniteSet(Slots)
    BY OrdersAssumption, FS_Interval DEF Slots
  <2> QED
    BY <2>1, FS_Subset
<1>2. f \in Injection(orders, slots)
  BY DEF Injection, IsInjective
<1> HIDE DEF f
<1> QED
  BY <1>1, <1>2, FS_Injection, FS_CardinalityType

LEMMA LiveIsFinite ==
    ASSUME IInv
    PROVE  /\ IsFiniteSet(live) /\ live \subseteq WorkingOrder
           /\ \A v, w \in live : v.slot = w.slot => v = w
<1>1. live \in SUBSET WorkingOrder /\ \A v, w \in live : v.slot = w.slot => v = w
  BY DEF IInv, TypeOK, OneGeneration
<1>2. \A w \in live : w.slot \in Slots
  BY <1>1 DEF WorkingOrder
<1> QED
  BY <1>1, <1>2, OrdersAreFinite

LEMMA ObservedIsFinite ==
    ASSUME IInv, IDrift, obs # NoObs
    PROVE  /\ IsFiniteSet(obs.working) /\ obs.working \subseteq WorkingOrder
           /\ \A v, w \in obs.working : v.slot = w.slot => v = w
           /\ obs.position \in Int
<1>1. /\ obs.working \in SUBSET WorkingOrder /\ obs.position \in Int
      /\ \A v, w \in obs.working : v.slot = w.slot => v = w
  BY DEF IInv, TypeOK, IDrift, Observation
<1>2. \A w \in obs.working : w.slot \in Slots
  BY <1>1 DEF WorkingOrder
<1> QED
  BY <1>1, <1>2, OrdersAreFinite

LEMMA PartType ==
    ASSUME NEW orders, IsFiniteSet(orders), orders \subseteq WorkingOrder, NEW slots, NEW kinds
    PROVE  /\ Part(orders, slots, kinds) \in SUBSET orders
           /\ IsFiniteSet(Part(orders, slots, kinds))
           /\ Outstanding(Part(orders, slots, kinds)) \in Nat
<1>1. Part(orders, slots, kinds) \in SUBSET orders
  BY DEF Part
<1> QED
  BY <1>1, OutstandingSubset

\* The sums that the properties name.
LEMMA SideSums ==
    ASSUME NEW orders \in SUBSET WorkingOrder
    PROVE  /\ Outstanding({w \in orders : IsBuy(w.slot)}) = Outstanding(Part(orders, BuySlots, BOOLEAN))
           /\ Outstanding({w \in orders : ~IsBuy(w.slot)}) = Outstanding(Part(orders, SellSlots, BOOLEAN))
           /\ Outstanding({w \in {v \in orders : IsBuy(v.slot)} : w.order.reduceOnly})
                = Outstanding(Part(orders, BuySlots, {TRUE}))
           /\ Outstanding({w \in {v \in orders : ~IsBuy(v.slot)} : w.order.reduceOnly})
                = Outstanding(Part(orders, SellSlots, {TRUE}))
<1>1. \A w \in orders : w.slot \in Slots /\ w.order.reduceOnly \in BOOLEAN
  BY DEF WorkingOrder, Order
<1>2. {w \in orders : IsBuy(w.slot)} = Part(orders, BuySlots, BOOLEAN)
  BY <1>1 DEF Part, BuySlots
<1>3. {w \in orders : ~IsBuy(w.slot)} = Part(orders, SellSlots, BOOLEAN)
  BY <1>1 DEF Part, SellSlots
<1>4. {w \in {v \in orders : IsBuy(v.slot)} : w.order.reduceOnly} = Part(orders, BuySlots, {TRUE})
  BY <1>1 DEF Part, BuySlots
<1>5. {w \in {v \in orders : ~IsBuy(v.slot)} : w.order.reduceOnly} = Part(orders, SellSlots, {TRUE})
  BY <1>1 DEF Part, SellSlots
<1> QED
  BY <1>2, <1>3, <1>4, <1>5, Zenon

Bounds(p, buys, sells, reducingBuys, reducingSells) ==
    /\ p + buys <= MaxAbsPosition
    /\ p - sells >= -MaxAbsPosition
    /\ reducingBuys <= Larger(-p, 0)
    /\ reducingSells <= Larger(p, 0)

BoundsOf(p, orders) ==
    Bounds(p, Outstanding(Part(orders, BuySlots, BOOLEAN)),
              Outstanding(Part(orders, SellSlots, BOOLEAN)),
              Outstanding(Part(orders, BuySlots, {TRUE})),
              Outstanding(Part(orders, SellSlots, {TRUE})))

LEMMA BoundsBefore ==
    ASSUME live \in SUBSET WorkingOrder
    PROVE  ExposureBounded /\ ReduceOnlyCovered <=> BoundsOf(position, live)
BY SideSums, Zenon DEF ExposureBounded, ReduceOnlyCovered, Buys, Sells, BoundsOf, Bounds

LEMMA BoundsAfter ==
    ASSUME live' \in SUBSET WorkingOrder
    PROVE  ExposureBounded' /\ ReduceOnlyCovered' <=> BoundsOf(position', live')
BY SideSums, Zenon DEF ExposureBounded, ReduceOnlyCovered, Buys, Sells, BoundsOf, Bounds

-----------------------------------------------------------------------------
(* The venue keeps the bounds.                                             *)

\* An order that leaves takes its remainder off its own side and kind.
LEMMA PartWithout ==
    ASSUME NEW orders \in SUBSET WorkingOrder, IsFiniteSet(orders), NEW w \in orders,
           NEW slots, NEW kinds
    PROVE  /\ Outstanding(Part(orders \ {w}, slots, kinds)) \in Nat
           /\ Outstanding(Part(orders, slots, kinds)) =
                Outstanding(Part(orders \ {w}, slots, kinds))
                    + IF w.slot \in slots /\ w.order.reduceOnly \in kinds THEN Remaining(w) ELSE 0
<1> DEFINE part == Part(orders, slots, kinds)
           rest == Part(orders \ {w}, slots, kinds)
<1>1. IsFiniteSet(part) /\ part \subseteq WorkingOrder /\ Outstanding(part) \in Nat
  BY PartType
<1>2. IsFiniteSet(orders \ {w}) /\ orders \ {w} \subseteq WorkingOrder
  BY FS_Subset
<1>3. Outstanding(rest) \in Nat
  BY <1>2, PartType
<1>4. CASE w.slot \in slots /\ w.order.reduceOnly \in kinds
  <2>1. w \in part /\ rest = part \ {w}
    BY <1>4 DEF Part
  <2> HIDE DEF part, rest
  <2>2. Outstanding(part) = Remaining(w) + Outstanding(rest)
    BY <1>1, <2>1, OutstandingRemove
  <2>3. Remaining(w) \in Nat
    BY DEF WorkingOrder, Order, Remaining
  <2> QED
    BY <1>3, <1>4, <2>2, <2>3 DEF part, rest
<1>5. CASE ~(w.slot \in slots /\ w.order.reduceOnly \in kinds)
  <2>1. rest = part
    BY <1>5 DEF Part
  <2>2. Outstanding(rest) = Outstanding(part)
    BY <2>1, Zenon
  <2> HIDE DEF part, rest
  <2> QED
    BY <1>3, <1>5, <2>2 DEF part, rest
<1> QED
  BY <1>4, <1>5

\* So does what an order fills.
LEMMA PartFilled ==
    ASSUME NEW orders \in SUBSET WorkingOrder, IsFiniteSet(orders), NEW w \in orders,
           NEW x \in WorkingOrder, x \notin orders,
           x.slot = w.slot, x.order = w.order,
           NEW qty \in Nat, Remaining(x) = Remaining(w) - qty,
           NEW slots, NEW kinds
    PROVE  Outstanding(Part(orders, slots, kinds)) =
             Outstanding(Part((orders \ {w}) \cup {x}, slots, kinds))
                + IF w.slot \in slots /\ w.order.reduceOnly \in kinds THEN qty ELSE 0
<1> DEFINE after == (orders \ {w}) \cup {x}
<1>1. IsFiniteSet(orders \ {w}) /\ IsFiniteSet(after)
  BY FS_Subset, FS_AddElement
<1>2. after \in SUBSET WorkingOrder /\ x \in after /\ after \ {x} = orders \ {w}
  OBVIOUS
<1>3. /\ Remaining(w) \in Nat /\ Remaining(x) \in Nat
  BY DEF WorkingOrder, Order, Remaining
<1> HIDE DEF after
<1>4. /\ Outstanding(Part(after \ {x}, slots, kinds)) \in Nat
      /\ Outstanding(Part(after, slots, kinds)) =
            Outstanding(Part(after \ {x}, slots, kinds))
                + IF x.slot \in slots /\ x.order.reduceOnly \in kinds THEN Remaining(x) ELSE 0
  BY <1>1, <1>2, PartWithout
<1>5. Outstanding(Part(after \ {x}, slots, kinds)) = Outstanding(Part(orders \ {w}, slots, kinds))
  BY <1>2, Zenon
<1>6. Outstanding(Part(orders, slots, kinds)) =
            Outstanding(Part(orders \ {w}, slots, kinds))
                + IF w.slot \in slots /\ w.order.reduceOnly \in kinds THEN Remaining(w) ELSE 0
  BY PartWithout
<1> QED
  BY <1>3, <1>4, <1>5, <1>6 DEF after

\* How much of an order counts on a side.
Counted(w, qty, slots, kinds) ==
    IF w.slot \in slots /\ w.order.reduceOnly \in kinds THEN qty ELSE 0

\* A fill moves what it fills from the order's side into the position; an end
\* leaves the position and takes an order off its side.
VenueMoves(w, qty) ==
    /\ w \in live /\ qty \in Nat /\ qty <= Remaining(w)
    /\ \/ position' = position + SignedFill(w.slot, qty)
       \/ position' = position
    /\ \A slots, kinds :
        Outstanding(Part(live, slots, kinds)) =
            Outstanding(Part(live', slots, kinds)) + Counted(w, qty, slots, kinds)
    /\ live' \in SUBSET WorkingOrder /\ IsFiniteSet(live')
    /\ \A x \in live' : \E v \in live :
        v.gen = x.gen /\ v.slot = x.slot /\ v.order = x.order
    /\ UNCHANGED <<signal, account, obs, state, pending, raised>>

LEMMA VenueSteps ==
    ASSUME IInv, NEW w \in live,
           \/ \E qty \in 1..OrderQuantity : Fill(w, qty)
           \/ VenueEnds(w)
           \/ ConfirmCancel(w)
    PROVE  \E qty \in Nat : VenueMoves(w, qty)
<1>1. IsFiniteSet(live) /\ live \in SUBSET WorkingOrder
      /\ \A v, u \in live : v.slot = u.slot => v = u
  BY LiveIsFinite
<1>2. w \in WorkingOrder /\ w.filled \in Nat /\ w.order.qty \in Nat /\ Remaining(w) \in Nat
  BY <1>1 DEF WorkingOrder, Order, Remaining
<1>3. ASSUME Ends(w)
      PROVE  /\ live' \in SUBSET WorkingOrder /\ IsFiniteSet(live')
             /\ \A slots, kinds :
                    Outstanding(Part(live, slots, kinds)) =
                        Outstanding(Part(live', slots, kinds)) + Counted(w, Remaining(w), slots, kinds)
             /\ \A x \in live' : x \in live
  <2>1. live' = live \ {w}
    BY <1>3 DEF Ends
  <2>2. \A slots, kinds :
            Outstanding(Part(live, slots, kinds)) =
                Outstanding(Part(live \ {w}, slots, kinds)) + Counted(w, Remaining(w), slots, kinds)
    BY <1>1, PartWithout DEF Counted
  <2> QED
    BY <1>1, <2>1, <2>2, FS_Subset
<1>4. ASSUME NEW qty \in 1..OrderQuantity, Fill(w, qty) PROVE VenueMoves(w, qty)
  <2>1. qty \in Nat /\ qty <= Remaining(w) /\ qty > 0
        /\ position' = position + SignedFill(w.slot, qty)
        /\ UNCHANGED <<signal, account, obs, state, pending, raised>>
    BY <1>4, AdaptiveGridAssumption DEF Fill, policy
  <2>2. CASE qty = Remaining(w)
    <3>1. Ends(w)
      BY <1>4, <2>2 DEF Fill
    <3> QED
      BY <1>3, <2>1, <2>2, <3>1 DEF VenueMoves
  <2>3. CASE qty # Remaining(w)
    <3> DEFINE x == [w EXCEPT !.filled = @ + qty]
    <3>1. live' = (live \ {w}) \cup {x}
      BY <1>4, <2>3 DEF Fill
    <3>2. w.filled + qty \in Nat /\ w.filled + qty <= w.order.qty
      BY <1>2, <2>1 DEF Remaining
    <3>3. /\ x \in WorkingOrder /\ x.gen = w.gen /\ x.slot = w.slot /\ x.order = w.order
          /\ x.filled = w.filled + qty
      BY <1>2, <3>2 DEF WorkingOrder
    <3> HIDE DEF x
    <3>4. Remaining(x) = Remaining(w) - qty
      BY <1>2, <2>1, <3>3 DEF Remaining
    <3>5. x \notin live
      BY <1>1, <1>2, <2>1, <3>3
    <3>6. \A slots, kinds :
            Outstanding(Part(live, slots, kinds)) =
                Outstanding(Part((live \ {w}) \cup {x}, slots, kinds)) + Counted(w, qty, slots, kinds)
      BY <1>1, <2>1, <3>3, <3>4, <3>5, PartFilled DEF Counted
    <3>7. \A slots, kinds :
            Outstanding(Part(live, slots, kinds)) =
                Outstanding(Part(live', slots, kinds)) + Counted(w, qty, slots, kinds)
      BY <3>1, <3>6
    <3>8. live' \in SUBSET WorkingOrder /\ IsFiniteSet(live')
      BY <1>1, <3>1, <3>3, FS_Subset, FS_AddElement
    <3>9. \A y \in live' : \E v \in live : v.gen = y.gen /\ v.slot = y.slot /\ v.order = y.order
      BY <3>1, <3>3
    <3> QED
      BY <2>1, <3>7, <3>8, <3>9 DEF VenueMoves
  <2> QED
    BY <2>2, <2>3
<1>5. ASSUME VenueEnds(w) \/ ConfirmCancel(w) PROVE VenueMoves(w, Remaining(w))
  <2>1. Ends(w) /\ UNCHANGED <<position, signal, account, obs, state, pending, raised>>
    BY <1>5 DEF VenueEnds, ConfirmCancel, policy
  <2> QED
    BY <1>2, <1>3, <2>1 DEF VenueMoves
<1>6. \A qty \in 1..OrderQuantity : qty \in Nat
  BY AdaptiveGridAssumption
<1> QED
  BY <1>2, <1>4, <1>5, <1>6

\* Beside an order that takes new risk its side has no reduce-only order.
LEMMA NoReducingBeside ==
    ASSUME IInv, ISided, NEW w \in live, ~w.order.reduceOnly
    PROVE  /\ IsBuy(w.slot) => Outstanding(Part(live, BuySlots, {TRUE})) = 0
           /\ ~IsBuy(w.slot) => Outstanding(Part(live, SellSlots, {TRUE})) = 0
<1>1. IsBuy(w.slot) => Part(live, BuySlots, {TRUE}) = {}
  BY DEF ISided, Part, BuySlots
<1>2. ~IsBuy(w.slot) => Part(live, SellSlots, {TRUE}) = {}
  BY DEF ISided, Part, SellSlots
<1>3. Outstanding({}) = 0
  BY FS_EmptySet, OutstandingStep
<1> QED
  BY <1>1, <1>2, <1>3, Zenon

LEMMA VenueKeepsRisk ==
    ASSUME RiskInv, IInv', NEW w, NEW qty, VenueMoves(w, qty)
    PROVE  RiskInv'
<1> DEFINE sum(slots, kinds) == Outstanding(Part(live, slots, kinds))
           left(slots, kinds) == Outstanding(Part(live', slots, kinds))
<1>1. /\ IInv /\ ISided /\ IDrift /\ ICommitted /\ ISame
      /\ w \in live /\ live \in SUBSET WorkingOrder
      /\ live' \in SUBSET WorkingOrder /\ IsFiniteSet(live')
  BY LiveIsFinite DEF RiskInv, VenueMoves
<1>2. /\ qty \in Nat /\ position \in Int
      /\ w.slot \in Slots /\ w.order.reduceOnly \in BOOLEAN
      /\ w.slot \in BuySlots <=> IsBuy(w.slot)
      /\ w.slot \in SellSlots <=> ~IsBuy(w.slot)
      /\ SignedFill(w.slot, qty) = IF IsBuy(w.slot) THEN qty ELSE -qty
      /\ position' = position + SignedFill(w.slot, qty) \/ position' = position
      /\ MaxAbsPosition \in Nat
  BY <1>1, RiskLimitsAssumption
     DEF VenueMoves, IInv, TypeOK, WorkingOrder, Order, BuySlots, SellSlots, SignedFill
<1>3. /\ sum(BuySlots, BOOLEAN) = left(BuySlots, BOOLEAN) + IF IsBuy(w.slot) THEN qty ELSE 0
      /\ sum(SellSlots, BOOLEAN) = left(SellSlots, BOOLEAN) + IF IsBuy(w.slot) THEN 0 ELSE qty
      /\ sum(BuySlots, {TRUE}) = left(BuySlots, {TRUE})
            + IF IsBuy(w.slot) /\ w.order.reduceOnly THEN qty ELSE 0
      /\ sum(SellSlots, {TRUE}) = left(SellSlots, {TRUE})
            + IF ~IsBuy(w.slot) /\ w.order.reduceOnly THEN qty ELSE 0
  <2>1. \A slots, kinds : sum(slots, kinds) = left(slots, kinds) + Counted(w, qty, slots, kinds)
    BY DEF VenueMoves
  <2> HIDE DEF sum, left
  <2> QED
    BY <1>2, <2>1 DEF Counted
<1>4. /\ left(BuySlots, BOOLEAN) \in Nat /\ left(SellSlots, BOOLEAN) \in Nat
      /\ left(BuySlots, {TRUE}) \in Nat /\ left(SellSlots, {TRUE}) \in Nat
  BY <1>1, PartType
<1>5. Bounds(position, sum(BuySlots, BOOLEAN), sum(SellSlots, BOOLEAN),
                       sum(BuySlots, {TRUE}), sum(SellSlots, {TRUE}))
  BY <1>1, BoundsBefore, Zenon DEF RiskInv, BoundsOf
<1>6. ~w.order.reduceOnly =>
        /\ IsBuy(w.slot) => sum(BuySlots, {TRUE}) = 0
        /\ ~IsBuy(w.slot) => sum(SellSlots, {TRUE}) = 0
  BY <1>1, NoReducingBeside
<1>7. Bounds(position', left(BuySlots, BOOLEAN), left(SellSlots, BOOLEAN),
                        left(BuySlots, {TRUE}), left(SellSlots, {TRUE}))
  <2> HIDE DEF sum, left
  <2>1. CASE IsBuy(w.slot)
    BY <1>2, <1>3, <1>4, <1>5, <1>6, <2>1 DEF Bounds, Larger
  <2>2. CASE ~IsBuy(w.slot)
    BY <1>2, <1>3, <1>4, <1>5, <1>6, <2>2 DEF Bounds, Larger
  <2> QED
    BY <2>1, <2>2
<1>8. ExposureBounded' /\ ReduceOnlyCovered'
  BY <1>1, <1>7, BoundsAfter, Zenon DEF BoundsOf
<1>9. ISided' /\ ICommitted' /\ ISame'
  <2>1. /\ \A x \in live' : \E v \in live : v.gen = x.gen /\ v.slot = x.slot /\ v.order = x.order
        /\ UNCHANGED <<obs, state, pending>>
    BY DEF VenueMoves
  <2>2. ISided'
    BY <1>1, <2>1 DEF ISided
  <2>3. ICommitted'
    BY <1>1, <2>1 DEF ICommitted, Matches, IsDesired
  <2> QED
    BY <1>1, <2>1, <2>2, <2>3 DEF ISame
<1>10. IDrift'
  <2> SUFFICES ASSUME obs # NoObs
               PROVE  /\ \A v, u \in obs.working : v.gen = u.gen /\ (v.slot = u.slot => v = u)
                      /\ position' + left(BuySlots, BOOLEAN)
                           <= obs.position + Outstanding(Part(obs.working, BuySlots, BOOLEAN))
                      /\ position' - left(SellSlots, BOOLEAN)
                           >= obs.position - Outstanding(Part(obs.working, SellSlots, BOOLEAN))
    BY DEF IDrift, VenueMoves
  <2> DEFINE buys == Outstanding(Part(obs.working, BuySlots, BOOLEAN))
             sells == Outstanding(Part(obs.working, SellSlots, BOOLEAN))
  <2>1. buys \in Nat /\ sells \in Nat /\ obs.position \in Int
    BY <1>1, ObservedIsFinite, PartType
  <2>2. /\ position + sum(BuySlots, BOOLEAN) <= obs.position + buys
        /\ position - sum(SellSlots, BOOLEAN) >= obs.position - sells
        /\ \A v, u \in obs.working : v.gen = u.gen /\ (v.slot = u.slot => v = u)
    BY <1>1 DEF IDrift
  <2> HIDE DEF buys, sells, sum, left
  <2>3. /\ position' + left(BuySlots, BOOLEAN) <= obs.position + buys
        /\ position' - left(SellSlots, BOOLEAN) >= obs.position - sells
    BY <1>2, <1>3, <1>4, <2>1, <2>2
  <2> QED
    BY <2>2, <2>3 DEF buys, sells
<1> QED
  BY <1>8, <1>9, <1>10 DEF RiskInv

-----------------------------------------------------------------------------
(* Calls.                                                                  *)

\* A call for a candidate of the committed generation is one for the committed
\* state, and asks for a part of the candidate's ladder.
RiskCall(candidate, ladder, may) ==
    /\ ProperCall(candidate, ladder, may)
    /\ candidate.gen = state.gen => candidate = state
    /\ \A s \in Placed(ladder) : ladder[s] = BuildLadder(candidate)[s]

LEMMA TransitionIsRiskCall ==
    ASSUME IInv, TransitionCall
    PROVE  LET candidate == Decide(obs.position, signal, state)
           IN  /\ candidate \in GridState
               /\ BuildLadder(candidate) \in Ladder
               /\ RiskCall(candidate, BuildLadder(candidate), TRUE)
<1> DEFINE candidate == Decide(obs.position, signal, state)
<1>1. obs # NoObs /\ PolicyCall(candidate, BuildLadder(candidate), TRUE)
  BY DEF TransitionCall, TransitionPolicy, PolicyCall
<1>2. obs.position \in Int /\ signal \in Signal /\ state \in GridState
  BY <1>1 DEF IInv, TypeOK, Observation
<1>3. candidate \in GridState /\ candidate.gen \in {state.gen, state.gen + 1}
  BY <1>2, DecideType
<1>4. candidate.gen = state.gen => candidate = state
  <2>1. state.gen \in Nat /\ StateFor(obs.position, signal, state.gen + 1).gen = state.gen + 1
    <3>1. state.gen \in Nat /\ state.gen + 1 \in Nat
      BY <1>2 DEF GridState
    <3> QED
      BY <1>2, <3>1, StateForType
  <2> QED
    BY <2>1 DEF Decide
<1>5. BuildLadder(candidate) \in Ladder
  BY <1>3, BuildLadderType
<1> HIDE DEF candidate
<1>6. RiskCall(candidate, BuildLadder(candidate), TRUE)
  BY <1>1, <1>3, <1>4 DEF RiskCall, ProperCall
<1> QED
  BY <1>3, <1>5, <1>6 DEF candidate

LEMMA ContinuationIsRiskCall ==
    ASSUME IInv, ISame, ContinueCall
    PROVE  /\ pending.candidate \in GridState
           /\ pending.desired \in Ladder
           /\ pending.accepted \in BOOLEAN
           /\ RiskCall(pending.candidate, pending.desired, pending.accepted)
<1>1. pending # NoTransition /\ obs # NoObs
  BY DEF ContinueCall
<1>2. pending \in Transition /\ pending.previous = state
  BY <1>1 DEF IInv, TypeOK, IPending
<1>3. /\ pending.candidate \in GridState
      /\ pending.desired \in Ladder
      /\ pending.accepted \in BOOLEAN
  BY <1>2 DEF Transition
<1>4. PolicyCall(pending.candidate, pending.desired, pending.accepted)
  BY <1>1, <1>2 DEF ContinueCall, ContinuePolicy, PolicyCall
<1> QED
  BY <1>1, <1>3, <1>4 DEF RiskCall, ProperCall, IInv, IPending, ISame

LEMMA CallsAreRiskCalls ==
    ASSUME IInv, ISame, TransitionCall \/ ContinueCall
    PROVE  \E candidate \in GridState, ladder \in Ladder, may \in BOOLEAN :
                RiskCall(candidate, ladder, may)
<1>1. CASE TransitionCall
  BY <1>1, TransitionIsRiskCall
<1>2. CASE ContinueCall
  BY <1>2, ContinuationIsRiskCall
<1> QED
  BY <1>1, <1>2

\* What a call that submits something has made sure of.
Entry(candidate, desired, slots) ==
    /\ desired \in Ladder
    /\ slots # {} /\ slots \in SUBSET Placed(desired)
    /\ live' = live \cup Fresh(candidate.gen, desired, slots)
    /\ \A w \in live : Matches(candidate.gen, desired, w)
    /\ \A w \in obs.working : Matches(candidate.gen, desired, w)
    /\ \A s \in slots : /\ \A w \in live : w.slot # s
                        /\ \A w \in obs.working : w.slot # s
    /\ Gated(candidate.gen, desired, account, obs)
    /\ SidedLadder(desired)
    /\ desired = BuildLadder(candidate) \/ RiskingSlots(desired) = {}
    /\ \A s \in Placed(desired) : desired[s] = BuildLadder(candidate)[s]

\* The desired ladder is a part of the ladder that is assessed.
LEMMA DesiredIsPart ==
    ASSUME NEW acc, NEW o, NEW before, NEW candidate, NEW ladder \in Ladder, NEW may,
           NEW r, r = Cycle(acc, o, before, candidate, ladder, may)
    PROVE  \A s \in Placed(r.desired) : s \in Placed(ladder) /\ r.desired[s] = ladder[s]
<1> DEFINE assessment == AssessDesiredLadder(acc, o, ladder)
<1>1. r.desired = ladder \/ r.desired = ReduceOnlyPart(assessment.filtered)
  BY DEF Cycle
<1>2. PICK taken : assessment.filtered = Keep(ladder, taken)
  BY DEF AssessDesiredLadder, AssessLadder
<1> HIDE DEF assessment
<1> QED
  BY <1>1, <1>2 DEF Keep, ReduceOnlyPart, Placed

LEMMA CallOutcome ==
    ASSUME RiskInv, NEW candidate \in GridState, NEW ladder \in Ladder,
           NEW may \in BOOLEAN, RiskCall(candidate, ladder, may)
    PROVE  /\ obs # NoObs /\ obs' = NoObs /\ UNCHANGED <<position, account>>
           /\ live' = live \/ \E desired, slots : Entry(candidate, desired, slots)
           /\ raised' => \E w \in obs.working : w.gen = state.gen + 1
           /\ ICommitted' /\ ISame'
<1> DEFINE r == Cycle(account, obs, state, candidate, ladder, may)
<1>1. CycleFacts(r, obs, state, candidate, ladder, may)
  BY CycleResult
<1>2. /\ obs # NoObs /\ Call(r, state, candidate)
      /\ may => ladder = BuildLadder(candidate)
      /\ candidate.gen \in {state.gen, state.gen + 1}
      /\ candidate.gen = state.gen => candidate = state
      /\ IInv /\ IDrift /\ ICommitted /\ ISame
  BY DEF RiskCall, ProperCall, PolicyCall, RiskInv
<1>3. /\ account \in Account /\ obs \in Observation /\ state.gen \in Nat /\ candidate.gen \in Nat
      /\ obs.working \subseteq WorkingOrder
  BY <1>2 DEF IInv, TypeOK, GridState, Observation
<1>4. \A s \in Placed(r.desired) : r.desired[s] = BuildLadder(candidate)[s]
  BY DesiredIsPart DEF RiskCall
<1>5. Placed(r.desired) # {} =>
        /\ Gated(candidate.gen, r.desired, account, obs)
        /\ SidedLadder(r.desired)
        /\ r.desired = BuildLadder(candidate) \/ RiskingSlots(r.desired) = {}
  <2>1. r = Cycle(account, obs, state, candidate, ladder, may)
    OBVIOUS
  <2> HIDE DEF r
  <2> QED
    BY <1>2, <1>3, <2>1, GateBoundsDesired
<1>6. r.raises = ReconcileRaises(candidate.gen, r.desired, obs.working)
  BY DEF Cycle
<1> HIDE DEF r
<1>7. \A w \in live : \E v \in obs.working : Id(v) = Id(w) /\ v.order = w.order
  BY <1>2 DEF IInv, IObs
<1>8. obs' = NoObs /\ UNCHANGED <<position, account>>
  BY <1>2 DEF Call
<1>9. CASE r.raises
  <2>1. UNCHANGED <<live, state, pending>>
    BY <1>2, <1>9 DEF Call
  <2>2. \E w \in obs.working : w.gen = state.gen + 1
    <3>1. UniqueIds(obs.working)
      BY <1>2 DEF IDrift, UniqueIds, Id
    <3>2. PICK w \in obs.working :
            IsDesired(candidate.gen, r.desired, w) /\ r.desired[w.slot].qty < w.filled
      BY <1>6, <1>9, <3>1 DEF ReconcileRaises
    <3>3. w.gen = candidate.gen /\ w.slot \in Placed(r.desired) /\ w \in WorkingOrder
      BY <1>3, <3>2 DEF IsDesired, Placed, WorkingOrder
    <3>4. ASSUME candidate.gen = state.gen PROVE FALSE
      <4>1. w.order = BuildLadder(state)[w.slot]
        BY <1>2, <3>3, <3>4 DEF ICommitted, Matches
      <4>2. r.desired[w.slot] = w.order
        BY <1>2, <1>4, <3>3, <3>4, <4>1
      <4>3. w.filled \in Nat /\ w.order.qty \in Nat /\ w.filled <= w.order.qty
        BY <3>3 DEF WorkingOrder, Order
      <4> QED
        BY <3>2, <4>2, <4>3
    <3> QED
      BY <1>2, <3>3, <3>4
  <2> QED
    BY <1>2, <1>8, <2>1, <2>2 DEF ICommitted, ISame
<1>10. CASE ~r.raises
  <2> DEFINE slots == r.plan.submit
  <2>1. /\ state' = r.next
        /\ live' = live \cup Fresh(candidate.gen, r.desired, slots)
        /\ pending' = IF r.plan.cancel = {} THEN NoTransition
                      ELSE [previous |-> state, candidate |-> candidate,
                            desired |-> r.desired, accepted |-> r.accepted]
        /\ raised' = FALSE
    BY <1>2, <1>10 DEF Call, Apply, Fresh
  <2>2. /\ slots \in SUBSET Placed(r.desired)
        /\ \A s \in slots : \A w \in obs.working : Id(w) # <<candidate.gen, s>>
        /\ r.desired \in Ladder
    BY <1>1 DEF CycleFacts, Missing
  <2>3. slots # {} \/ state' # state =>
            /\ \A w \in obs.working : Matches(candidate.gen, r.desired, w)
            /\ \A w \in live : Matches(candidate.gen, r.desired, w)
    <3>1. slots # {} \/ state' # state =>
            \A w \in obs.working : Matches(candidate.gen, r.desired, w)
      BY <1>1, <2>1 DEF CycleFacts
    <3> QED
      BY <1>7, <3>1 DEF Matches, IsDesired, Id
  <2>4. slots = {} => live' = live
    BY <2>1 DEF Fresh
  <2>5. slots # {} => Entry(candidate, r.desired, slots)
    <3> SUFFICES ASSUME slots # {} PROVE Entry(candidate, r.desired, slots)
      OBVIOUS
    <3>1. \A s \in slots : \A w \in obs.working : w.slot # s
      BY <2>2, <2>3 DEF Matches, IsDesired, Id
    <3>2. \A s \in slots : \A w \in live : w.slot # s
      BY <1>7, <3>1 DEF Id
    <3>3. Placed(r.desired) # {}
      BY <2>2
    <3> QED
      BY <1>4, <1>5, <2>1, <2>2, <2>3, <3>1, <3>2, <3>3 DEF Entry
  <2>6. ICommitted'
    <3> SUFFICES ASSUME NEW w \in live', w.gen = state'.gen
                 PROVE  Matches(state'.gen, BuildLadder(state'), w)
      BY <1>8 DEF ICommitted
    <3>1. ASSUME NEW s \in slots, w = Submitted(candidate.gen, r.desired, s)
          PROVE  Matches(candidate.gen, BuildLadder(candidate), w)
      <4>1. w.gen = candidate.gen /\ w.slot = s /\ w.order = r.desired[s]
        BY <3>1 DEF Submitted
      <4>2. r.desired[s] = BuildLadder(candidate)[s] /\ r.desired[s] # NoOrder
        BY <1>4, <2>2 DEF Placed
      <4> QED
        BY <4>1, <4>2 DEF Matches, IsDesired
    <3>2. w \in live \/ \E s \in slots : w = Submitted(candidate.gen, r.desired, s)
      BY <2>1 DEF Fresh
    <3>3. CASE state' = state
      <4>1. CASE w \in live
        BY <1>2, <3>3, <4>1 DEF ICommitted
      <4>2. CASE \E s \in slots : w = Submitted(candidate.gen, r.desired, s)
        <5>1. Matches(candidate.gen, BuildLadder(candidate), w)
          BY <3>1, <4>2
        <5>2. w.gen = candidate.gen
          BY <5>1 DEF Matches, IsDesired
        <5>3. candidate = state'
          BY <1>2, <3>3, <5>2
        <5> QED
          BY <5>1, <5>3
      <4> QED
        BY <3>2, <4>1, <4>2
    <3>4. CASE state' # state
      <4>1. state' = candidate /\ r.desired = ladder /\ may
        BY <1>1, <2>1, <3>4 DEF CycleFacts
      <4>2. r.desired = BuildLadder(state')
        BY <1>2, <4>1
      <4>3. CASE w \in live
        BY <2>3, <3>4, <4>1, <4>2, <4>3
      <4> QED
        BY <3>1, <3>2, <4>1, <4>3
    <3> QED
      BY <3>3, <3>4
  <2>7. ISame'
    <3> SUFFICES ASSUME pending' # NoTransition
                 PROVE  /\ pending'.candidate.gen = state'.gen => pending'.candidate = state'
                        /\ \A s \in Placed(pending'.desired) :
                            pending'.desired[s] = BuildLadder(pending'.candidate)[s]
      BY DEF ISame
    <3>1. r.plan.cancel # {} /\ pending'.candidate = candidate /\ pending'.desired = r.desired
      BY <2>1
    <3>2. state' = state
      BY <1>1, <2>1, <3>1 DEF CycleFacts
    <3> QED
      BY <1>2, <1>4, <3>1, <3>2
  <2> QED
    BY <1>2, <1>8, <2>1, <2>4, <2>5, <2>6, <2>7
<1> QED
  BY <1>9, <1>10

-----------------------------------------------------------------------------
(* Submissions keep the bounds.                                            *)

OnSide(slots, side) == {s \in slots : s \in side}

\* On each side the submissions add what they ask for, and this together with
\* what was observed is no more than the desired ladder offers there.
LEMMA SideEntry ==
    ASSUME RiskInv, obs # NoObs, NEW candidate \in GridState, NEW desired, NEW slots,
           Entry(candidate, desired, slots), NEW side \in SUBSET Slots
    PROVE  LET joining == Outstanding(Fresh(candidate.gen, desired, OnSide(slots, side)))
               offered == Outstanding(Fresh(candidate.gen, desired, OnSide(Placed(desired), side)))
               observed == Outstanding(Part(obs.working, side, BOOLEAN))
           IN  /\ live' \in SUBSET WorkingOrder /\ IsFiniteSet(live')
               /\ joining \in Nat /\ offered \in Nat /\ observed \in Nat
               /\ Outstanding(Part(live', side, BOOLEAN))
                    = Outstanding(Part(live, side, BOOLEAN)) + joining
               /\ observed + joining <= offered
               /\ OnSide(slots, side) = {} =>
                    \A kinds : Part(live', side, kinds) = Part(live, side, kinds)
<1> DEFINE gen == candidate.gen
           joins == OnSide(slots, side)
           offers == OnSide(Placed(desired), side)
           works == Part(obs.working, side, BOOLEAN)
           worked == {w.slot : w \in works}
<1>1. /\ gen \in Nat /\ desired \in Ladder /\ slots \in SUBSET Placed(desired)
      /\ live' = live \cup Fresh(gen, desired, slots)
      /\ \A w \in obs.working : Matches(gen, desired, w)
      /\ \A s \in slots : /\ \A w \in live : w.slot # s
                          /\ \A w \in obs.working : w.slot # s
  BY DEF Entry, GridState
<1>2. /\ IsFiniteSet(live) /\ live \subseteq WorkingOrder
      /\ IsFiniteSet(obs.working) /\ obs.working \subseteq WorkingOrder
      /\ \A v, w \in obs.working : v.slot = w.slot => v = w
  BY LiveIsFinite, ObservedIsFinite DEF RiskInv
<1>3. joins \in SUBSET Placed(desired) /\ offers \in SUBSET Placed(desired)
  BY <1>1 DEF OnSide
<1>4. /\ IsFiniteSet(Fresh(gen, desired, slots)) /\ Fresh(gen, desired, slots) \subseteq WorkingOrder
      /\ IsFiniteSet(Fresh(gen, desired, joins)) /\ Fresh(gen, desired, joins) \subseteq WorkingOrder
      /\ Outstanding(Fresh(gen, desired, joins)) \in Nat
      /\ Outstanding(Fresh(gen, desired, offers)) \in Nat
  <2> HIDE DEF gen, joins, offers
  <2> QED
    BY <1>1, <1>3, FreshOrders
<1>5. live' \in SUBSET WorkingOrder /\ IsFiniteSet(live')
  <2> HIDE DEF gen
  <2> QED
    BY <1>1, <1>2, <1>4, FS_Union
<1>6. \A w \in Fresh(gen, desired, slots) :
        w.slot \in slots /\ w.order = desired[w.slot] /\ w.order.reduceOnly \in BOOLEAN
  <2>1. \A w \in Fresh(gen, desired, slots) : w.slot \in slots /\ w.order = desired[w.slot]
    BY DEF Fresh, Submitted
  <2>2. \A w \in Fresh(gen, desired, slots) : w.order.reduceOnly \in BOOLEAN
    BY <1>4 DEF WorkingOrder, Order
  <2> QED
    BY <2>1, <2>2
<1>7. Outstanding(Part(live', side, BOOLEAN))
        = Outstanding(Part(live, side, BOOLEAN)) + Outstanding(Fresh(gen, desired, joins))
  <2> DEFINE old == Part(live, side, BOOLEAN)
             new == Fresh(gen, desired, joins)
  <2>1. new = {w \in Fresh(gen, desired, slots) : w.slot \in side}
    BY DEF Fresh, OnSide, Submitted
  <2>2. Part(live', side, BOOLEAN) = old \cup new
    BY <1>1, <1>6, <2>1 DEF Part
  <2>3. old \cap new = {}
    BY <1>1, <1>6, <2>1 DEF Part
  <2>4. IsFiniteSet(old) /\ old \subseteq WorkingOrder
    BY <1>2, PartType
  <2>5. IsFiniteSet(new) /\ new \subseteq WorkingOrder
    BY <1>4
  <2> HIDE DEF old, new
  <2>6. Outstanding(old \cup new) = Outstanding(old) + Outstanding(new)
    BY <2>3, <2>4, <2>5, OutstandingUnion
  <2> QED
    BY <2>2, <2>6, Zenon DEF old, new
<1>8. /\ Outstanding(works) \in Nat
      /\ Outstanding(works) + Outstanding(Fresh(gen, desired, joins)) <= Outstanding(Fresh(gen, desired, offers))
  <2>1. works \in SUBSET obs.working /\ IsFiniteSet(works) /\ Outstanding(works) \in Nat
    BY <1>2, PartType
  <2>2. /\ worked \in SUBSET Placed(desired) /\ worked \subseteq offers
        /\ worked \cap joins = {} /\ joins \subseteq offers
    <3>1. \A w \in works : w.slot \in Placed(desired) /\ w.slot \in side /\ w.slot \notin slots
      <4> SUFFICES ASSUME NEW w \in works
                   PROVE  w.slot \in Placed(desired) /\ w.slot \in side /\ w.slot \notin slots
        OBVIOUS
      <4>1. w \in obs.working /\ w.slot \in side
        BY DEF Part
      <4>2. w.slot \in Slots
        BY <1>2, <4>1 DEF WorkingOrder
      <4>3. desired[w.slot] # NoOrder
        BY <1>1, <4>1 DEF Matches, IsDesired
      <4>4. w.slot \notin slots
        <5>1. \A s \in slots : \A v \in obs.working : v.slot # s
          BY DEF Entry
        <5> QED
          BY <4>1, <5>1
      <4> QED
        BY <4>1, <4>2, <4>3, <4>4 DEF Placed
    <3> HIDE DEF works
    <3> QED
      BY <1>1, <3>1 DEF OnSide
  <2>3. \A w \in works : Matches(gen, desired, w)
    BY <1>1, <2>1
  <2> HIDE DEF gen, works, joins, offers
  <2>4. Outstanding(works) <= Outstanding(Fresh(gen, desired, worked))
    BY <1>1, <1>2, <2>1, <2>3, WorkingIsNoMore
  <2> HIDE DEF worked
  <2>5. Outstanding(Fresh(gen, desired, worked \cup joins))
          = Outstanding(Fresh(gen, desired, worked)) + Outstanding(Fresh(gen, desired, joins))
    BY <1>1, <1>3, <2>2, FreshUnion
  <2>6. worked \cup joins \in SUBSET offers
    BY <2>2
  <2>7. Outstanding(Fresh(gen, desired, worked \cup joins)) <= Outstanding(Fresh(gen, desired, offers))
    BY <1>1, <1>3, <2>6, FreshSubset
  <2>8. Outstanding(Fresh(gen, desired, worked)) \in Nat
    BY <1>1, <2>2, FreshOrders
  <2> QED
    BY <1>4, <2>1, <2>4, <2>5, <2>7, <2>8
<1>9. joins = {} => \A kinds : Part(live', side, kinds) = Part(live, side, kinds)
  BY <1>1, <1>6 DEF Part, OnSide
<1> QED
  BY <1>4, <1>5, <1>7, <1>8, <1>9

\* After a call that submits, every order is an intent of the desired ladder.
LEMMA EntryOrders ==
    ASSUME NEW candidate, NEW desired, NEW slots, Entry(candidate, desired, slots)
    PROVE  \A w \in live' : /\ desired[w.slot] = w.order /\ desired[w.slot] # NoOrder
                             /\ w.gen = candidate.gen
<1> SUFFICES ASSUME NEW w \in live'
             PROVE  /\ desired[w.slot] = w.order /\ desired[w.slot] # NoOrder
                    /\ w.gen = candidate.gen
  OBVIOUS
<1>1. CASE w \in live
  BY <1>1 DEF Entry, Matches, IsDesired
<1>2. CASE w \in Fresh(candidate.gen, desired, slots)
  BY <1>2 DEF Entry, Fresh, Submitted, Placed
<1> QED
  BY <1>1, <1>2 DEF Entry

\* What the ladder offers to buy closes a short position or stays below the limit.
LEMMA BuysOffered ==
    ASSUME NEW gen \in Nat, NEW desired \in Ladder, obs.position \in Int,
           Gated(gen, desired, account, obs), SidedLadder(desired),
           OnSide(Placed(desired), BuySlots) # {}
    PROVE  LET offered == Outstanding(Fresh(gen, desired, OnSide(Placed(desired), BuySlots)))
           IN  \/ obs.position + offered <= 0
               \/ /\ obs.position + offered <= MaxAbsPosition
                  /\ \A s \in OnSide(Placed(desired), BuySlots) : ~desired[s].reduceOnly
<1> DEFINE offers == OnSide(Placed(desired), BuySlots)
           offered == Outstanding(Fresh(gen, desired, offers))
           reducing == ReducingSlots(desired)
           risking == RiskingSlots(desired)
<1>1. /\ \A s \in offers : s \in Placed(desired) /\ IsBuy(s)
      /\ \A s \in Placed(desired) : IsBuy(s) => s \in offers
  BY DEF OnSide, BuySlots, Placed
<1>2. /\ \A s, t \in offers : desired[s].reduceOnly <=> desired[t].reduceOnly
      /\ \A s \in offers, t \in Placed(desired) :
            t \notin offers => desired[s].reduceOnly \/ desired[t].reduceOnly
  BY <1>1 DEF SidedLadder
<1>3. offers \in SUBSET Placed(desired) /\ reducing \in SUBSET Placed(desired)
  BY <1>1 DEF ReducingSlots
<1>4. offered \in Nat /\ Outstanding(Fresh(gen, desired, reducing)) \in Nat
  <2> HIDE DEF offers, reducing
  <2> QED
    BY <1>3, FreshOrders
<1>5. PICK s \in offers : TRUE
  OBVIOUS
<1>6. CASE desired[s].reduceOnly
  <2>1. offers \in SUBSET reducing
    BY <1>1, <1>2, <1>6 DEF ReducingSlots
  <2>2. ReducesPosition(obs.position, s) /\ Outstanding(Fresh(gen, desired, reducing)) <= Abs(obs.position)
    BY <2>1 DEF Gated
  <2>3. obs.position < 0
    BY <1>1, <2>2 DEF ReducesPosition
  <2>4. offered <= Outstanding(Fresh(gen, desired, reducing))
    <3> HIDE DEF offers, reducing
    <3> QED
      BY <1>3, <2>1, FreshSubset
  <2> HIDE DEF offered, reducing
  <2>5. obs.position + offered <= 0
    BY <1>4, <2>2, <2>3, <2>4 DEF Abs
  <2> QED
    BY <2>5 DEF offered
<1>7. CASE ~desired[s].reduceOnly
  <2>1. \A t \in offers : ~desired[t].reduceOnly
    BY <1>2, <1>7
  <2>2. offers = risking
    <3>1. \A t \in risking : t \in offers
      BY <1>2, <1>7 DEF RiskingSlots
    <3>2. \A t \in offers : t \in risking
      BY <1>1, <2>1 DEF RiskingSlots
    <3> HIDE DEF offers, risking
    <3> QED
      BY <3>1, <3>2
  <2>3. risking # {} /\ \A t \in risking : IsBuy(t)
    BY <1>1, <2>2
  <2>4. obs.position + Outstanding(Fresh(gen, desired, risking)) <= MaxAbsPosition
    BY <2>3 DEF Gated
  <2>5. offered = Outstanding(Fresh(gen, desired, risking))
    BY <2>2, Zenon
  <2> HIDE DEF offers, offered, risking
  <2> QED
    BY <2>1, <2>4, <2>5 DEF offers, offered
<1> QED
  BY <1>6, <1>7

\* What it offers to sell closes a long position or stays above the limit.
LEMMA SellsOffered ==
    ASSUME NEW gen \in Nat, NEW desired \in Ladder, obs.position \in Int,
           Gated(gen, desired, account, obs), SidedLadder(desired),
           OnSide(Placed(desired), SellSlots) # {}
    PROVE  LET offered == Outstanding(Fresh(gen, desired, OnSide(Placed(desired), SellSlots)))
           IN  \/ obs.position - offered >= 0
               \/ /\ obs.position - offered >= -MaxAbsPosition
                  /\ \A s \in OnSide(Placed(desired), SellSlots) : ~desired[s].reduceOnly
<1> DEFINE offers == OnSide(Placed(desired), SellSlots)
           offered == Outstanding(Fresh(gen, desired, offers))
           reducing == ReducingSlots(desired)
           risking == RiskingSlots(desired)
<1>1. /\ \A s \in offers : s \in Placed(desired) /\ ~IsBuy(s)
      /\ \A s \in Placed(desired) : ~IsBuy(s) => s \in offers
  BY DEF OnSide, SellSlots, Placed
<1>2. /\ \A s, t \in offers : desired[s].reduceOnly <=> desired[t].reduceOnly
      /\ \A s \in offers, t \in Placed(desired) :
            t \notin offers => desired[s].reduceOnly \/ desired[t].reduceOnly
  BY <1>1 DEF SidedLadder
<1>3. offers \in SUBSET Placed(desired) /\ reducing \in SUBSET Placed(desired)
  BY <1>1 DEF ReducingSlots
<1>4. offered \in Nat /\ Outstanding(Fresh(gen, desired, reducing)) \in Nat
  <2> HIDE DEF offers, reducing
  <2> QED
    BY <1>3, FreshOrders
<1>5. PICK s \in offers : TRUE
  OBVIOUS
<1>6. CASE desired[s].reduceOnly
  <2>1. offers \in SUBSET reducing
    BY <1>1, <1>2, <1>6 DEF ReducingSlots
  <2>2. ReducesPosition(obs.position, s) /\ Outstanding(Fresh(gen, desired, reducing)) <= Abs(obs.position)
    BY <2>1 DEF Gated
  <2>3. obs.position > 0
    BY <1>1, <2>2 DEF ReducesPosition
  <2>4. offered <= Outstanding(Fresh(gen, desired, reducing))
    <3> HIDE DEF offers, reducing
    <3> QED
      BY <1>3, <2>1, FreshSubset
  <2> HIDE DEF offered, reducing
  <2>5. obs.position - offered >= 0
    BY <1>4, <2>2, <2>3, <2>4 DEF Abs
  <2> QED
    BY <2>5 DEF offered
<1>7. CASE ~desired[s].reduceOnly
  <2>1. \A t \in offers : ~desired[t].reduceOnly
    BY <1>2, <1>7
  <2>2. offers = risking
    <3>1. \A t \in risking : t \in offers
      BY <1>2, <1>7 DEF RiskingSlots
    <3>2. \A t \in offers : t \in risking
      BY <1>1, <2>1 DEF RiskingSlots
    <3> HIDE DEF offers, risking
    <3> QED
      BY <3>1, <3>2
  <2>3. risking # {} /\ \A t \in risking : ~IsBuy(t)
    BY <1>1, <2>2
  <2>4. obs.position - Outstanding(Fresh(gen, desired, risking)) >= -MaxAbsPosition
    BY <2>3 DEF Gated
  <2>5. offered = Outstanding(Fresh(gen, desired, risking))
    BY <2>2, Zenon
  <2> HIDE DEF offers, offered, risking
  <2> QED
    BY <2>1, <2>4, <2>5 DEF offers, offered
<1> QED
  BY <1>6, <1>7

\* The bounds of the buying side after submissions.
LEMMA BuysBounded ==
    ASSUME RiskInv, obs # NoObs, position' = position, NEW candidate \in GridState,
           NEW desired, NEW slots, Entry(candidate, desired, slots)
    PROVE  LET total == Outstanding(Part(live', BuySlots, BOOLEAN))
               reducing == Outstanding(Part(live', BuySlots, {TRUE}))
           IN  /\ position' + total <= MaxAbsPosition
               /\ reducing <= Larger(-position', 0)
<1> DEFINE total == Outstanding(Part(live', BuySlots, BOOLEAN))
           reducing == Outstanding(Part(live', BuySlots, {TRUE}))
           before == Outstanding(Part(live, BuySlots, BOOLEAN))
           reduced == Outstanding(Part(live, BuySlots, {TRUE}))
           observed == Outstanding(Part(obs.working, BuySlots, BOOLEAN))
           joining == Outstanding(Fresh(candidate.gen, desired, OnSide(slots, BuySlots)))
           offered == Outstanding(Fresh(candidate.gen, desired, OnSide(Placed(desired), BuySlots)))
<1>1. /\ live' \in SUBSET WorkingOrder /\ IsFiniteSet(live')
      /\ joining \in Nat /\ offered \in Nat /\ observed \in Nat
      /\ total = before + joining
      /\ observed + joining <= offered
      /\ OnSide(slots, BuySlots) = {} =>
            \A kinds : Part(live', BuySlots, kinds) = Part(live, BuySlots, kinds)
  <2>1. BuySlots \in SUBSET Slots
    BY DEF BuySlots
  <2> QED
    BY <2>1, SideEntry, Zenon
<1>2. /\ live \in SUBSET WorkingOrder /\ IsFiniteSet(live)
      /\ position \in Int /\ obs.position \in Int /\ MaxAbsPosition \in Nat
  BY LiveIsFinite, ObservedIsFinite, RiskLimitsAssumption DEF RiskInv, IInv, TypeOK
<1>3. /\ position + before <= MaxAbsPosition
      /\ reduced <= Larger(-position, 0)
  BY <1>2, BoundsBefore, Zenon DEF RiskInv, BoundsOf, Bounds
<1>4. position + before <= obs.position + observed
  BY DEF RiskInv, IDrift
<1>5. before \in Nat /\ reduced \in Nat /\ total \in Nat /\ reducing \in Nat
  BY <1>1, <1>2, PartType
<1>6. CASE OnSide(slots, BuySlots) = {}
  <2>1. total = before /\ reducing = reduced
    BY <1>1, <1>6, Zenon
  <2> HIDE DEF total, before, reducing, reduced
  <2>2. /\ position' + total <= MaxAbsPosition
        /\ reducing <= Larger(-position', 0)
    BY <1>3, <2>1
  <2> QED
    BY <2>2 DEF total, reducing
<1>7. CASE OnSide(slots, BuySlots) # {}
  <2>1. /\ candidate.gen \in Nat /\ desired \in Ladder
        /\ Gated(candidate.gen, desired, account, obs) /\ SidedLadder(desired)
        /\ slots \in SUBSET Placed(desired)
    BY DEF Entry, GridState
  <2>2. OnSide(Placed(desired), BuySlots) # {}
    BY <1>7, <2>1 DEF OnSide
  <2>3. \/ obs.position + offered <= 0
        \/ /\ obs.position + offered <= MaxAbsPosition
           /\ \A s \in OnSide(Placed(desired), BuySlots) : ~desired[s].reduceOnly
    BY <1>2, <2>1, <2>2, BuysOffered
  <2>4. reducing <= total
    <3> DEFINE part == Part(live', BuySlots, {TRUE})
               whole == Part(live', BuySlots, BOOLEAN)
    <3>1. part \in SUBSET whole
      BY DEF Part
    <3>2. IsFiniteSet(whole) /\ whole \subseteq WorkingOrder
      BY <1>1, PartType
    <3> HIDE DEF part, whole
    <3>3. Outstanding(part) <= Outstanding(whole)
      BY <3>1, <3>2, OutstandingSubset
    <3> QED
      BY <3>3, Zenon DEF part, whole
  <2>5. (\A s \in OnSide(Placed(desired), BuySlots) : ~desired[s].reduceOnly) => reducing = 0
    <3> SUFFICES ASSUME \A s \in OnSide(Placed(desired), BuySlots) : ~desired[s].reduceOnly
                 PROVE  reducing = 0
      OBVIOUS
    <3>1. ASSUME NEW w \in live', w.slot \in BuySlots PROVE w.order.reduceOnly # TRUE
      <4>1. /\ desired[w.slot] = w.order /\ desired[w.slot] # NoOrder
            /\ w.slot \in Slots
        BY <3>1, EntryOrders DEF BuySlots
      <4>2. w.slot \in OnSide(Placed(desired), BuySlots)
        BY <3>1, <4>1 DEF OnSide, Placed
      <4> QED
        BY <4>1, <4>2
    <3>2. Part(live', BuySlots, {TRUE}) = {}
      BY <3>1 DEF Part
    <3>3. Outstanding({}) = 0
      BY FS_EmptySet, OutstandingStep
    <3> QED
      BY <3>2, <3>3, Zenon
  <2> HIDE DEF total, before, reducing, reduced, observed, joining, offered
  <2>6. CASE obs.position + offered <= 0
    <3>1. /\ position' + total <= MaxAbsPosition
          /\ reducing <= Larger(-position', 0)
      BY <1>1, <1>2, <1>4, <1>5, <2>4, <2>6 DEF Larger
    <3> QED
      BY <3>1 DEF total, reducing
  <2>7. CASE /\ obs.position + offered <= MaxAbsPosition
             /\ \A s \in OnSide(Placed(desired), BuySlots) : ~desired[s].reduceOnly
    <3>1. reducing = 0
      BY <2>5, <2>7
    <3>2. /\ position' + total <= MaxAbsPosition
          /\ reducing <= Larger(-position', 0)
      BY <1>1, <1>2, <1>4, <1>5, <2>7, <3>1 DEF Larger
    <3> QED
      BY <3>2 DEF total, reducing
  <2> QED
    BY <2>3, <2>6, <2>7
<1> QED
  BY <1>6, <1>7

\* The bounds of the selling side.
LEMMA SellsBounded ==
    ASSUME RiskInv, obs # NoObs, position' = position, NEW candidate \in GridState,
           NEW desired, NEW slots, Entry(candidate, desired, slots)
    PROVE  LET total == Outstanding(Part(live', SellSlots, BOOLEAN))
               reducing == Outstanding(Part(live', SellSlots, {TRUE}))
           IN  /\ position' - total >= -MaxAbsPosition
               /\ reducing <= Larger(position', 0)
<1> DEFINE total == Outstanding(Part(live', SellSlots, BOOLEAN))
           reducing == Outstanding(Part(live', SellSlots, {TRUE}))
           before == Outstanding(Part(live, SellSlots, BOOLEAN))
           reduced == Outstanding(Part(live, SellSlots, {TRUE}))
           observed == Outstanding(Part(obs.working, SellSlots, BOOLEAN))
           joining == Outstanding(Fresh(candidate.gen, desired, OnSide(slots, SellSlots)))
           offered == Outstanding(Fresh(candidate.gen, desired, OnSide(Placed(desired), SellSlots)))
<1>1. /\ live' \in SUBSET WorkingOrder /\ IsFiniteSet(live')
      /\ joining \in Nat /\ offered \in Nat /\ observed \in Nat
      /\ total = before + joining
      /\ observed + joining <= offered
      /\ OnSide(slots, SellSlots) = {} =>
            \A kinds : Part(live', SellSlots, kinds) = Part(live, SellSlots, kinds)
  <2>1. SellSlots \in SUBSET Slots
    BY DEF SellSlots
  <2> QED
    BY <2>1, SideEntry, Zenon
<1>2. /\ live \in SUBSET WorkingOrder /\ IsFiniteSet(live)
      /\ position \in Int /\ obs.position \in Int /\ MaxAbsPosition \in Nat
  BY LiveIsFinite, ObservedIsFinite, RiskLimitsAssumption DEF RiskInv, IInv, TypeOK
<1>3. /\ position - before >= -MaxAbsPosition
      /\ reduced <= Larger(position, 0)
  BY <1>2, BoundsBefore, Zenon DEF RiskInv, BoundsOf, Bounds
<1>4. position - before >= obs.position - observed
  BY DEF RiskInv, IDrift
<1>5. before \in Nat /\ reduced \in Nat /\ total \in Nat /\ reducing \in Nat
  BY <1>1, <1>2, PartType
<1>6. CASE OnSide(slots, SellSlots) = {}
  <2>1. total = before /\ reducing = reduced
    BY <1>1, <1>6, Zenon
  <2> HIDE DEF total, before, reducing, reduced
  <2>2. /\ position' - total >= -MaxAbsPosition
        /\ reducing <= Larger(position', 0)
    BY <1>3, <2>1
  <2> QED
    BY <2>2 DEF total, reducing
<1>7. CASE OnSide(slots, SellSlots) # {}
  <2>1. /\ candidate.gen \in Nat /\ desired \in Ladder
        /\ Gated(candidate.gen, desired, account, obs) /\ SidedLadder(desired)
        /\ slots \in SUBSET Placed(desired)
    BY DEF Entry, GridState
  <2>2. OnSide(Placed(desired), SellSlots) # {}
    BY <1>7, <2>1 DEF OnSide
  <2>3. \/ obs.position - offered >= 0
        \/ /\ obs.position - offered >= -MaxAbsPosition
           /\ \A s \in OnSide(Placed(desired), SellSlots) : ~desired[s].reduceOnly
    BY <1>2, <2>1, <2>2, SellsOffered
  <2>4. reducing <= total
    <3> DEFINE part == Part(live', SellSlots, {TRUE})
               whole == Part(live', SellSlots, BOOLEAN)
    <3>1. part \in SUBSET whole
      BY DEF Part
    <3>2. IsFiniteSet(whole) /\ whole \subseteq WorkingOrder
      BY <1>1, PartType
    <3> HIDE DEF part, whole
    <3>3. Outstanding(part) <= Outstanding(whole)
      BY <3>1, <3>2, OutstandingSubset
    <3> QED
      BY <3>3, Zenon DEF part, whole
  <2>5. (\A s \in OnSide(Placed(desired), SellSlots) : ~desired[s].reduceOnly) => reducing = 0
    <3> SUFFICES ASSUME \A s \in OnSide(Placed(desired), SellSlots) : ~desired[s].reduceOnly
                 PROVE  reducing = 0
      OBVIOUS
    <3>1. ASSUME NEW w \in live', w.slot \in SellSlots PROVE w.order.reduceOnly # TRUE
      <4>1. /\ desired[w.slot] = w.order /\ desired[w.slot] # NoOrder
            /\ w.slot \in Slots
        BY <3>1, EntryOrders DEF SellSlots
      <4>2. w.slot \in OnSide(Placed(desired), SellSlots)
        BY <3>1, <4>1 DEF OnSide, Placed
      <4> QED
        BY <4>1, <4>2
    <3>2. Part(live', SellSlots, {TRUE}) = {}
      BY <3>1 DEF Part
    <3>3. Outstanding({}) = 0
      BY FS_EmptySet, OutstandingStep
    <3> QED
      BY <3>2, <3>3, Zenon
  <2> HIDE DEF total, before, reducing, reduced, observed, joining, offered
  <2>6. CASE obs.position - offered >= 0
    <3>1. /\ position' - total >= -MaxAbsPosition
          /\ reducing <= Larger(position', 0)
      BY <1>1, <1>2, <1>4, <1>5, <2>4, <2>6 DEF Larger
    <3> QED
      BY <3>1 DEF total, reducing
  <2>7. CASE /\ obs.position - offered >= -MaxAbsPosition
             /\ \A s \in OnSide(Placed(desired), SellSlots) : ~desired[s].reduceOnly
    <3>1. reducing = 0
      BY <2>5, <2>7
    <3>2. /\ position' - total >= -MaxAbsPosition
          /\ reducing <= Larger(position', 0)
      BY <1>1, <1>2, <1>4, <1>5, <2>7, <3>1 DEF Larger
    <3> QED
      BY <3>2 DEF total, reducing
  <2> QED
    BY <2>3, <2>6, <2>7
<1> QED
  BY <1>6, <1>7

LEMMA EntryKeepsRisk ==
    ASSUME RiskInv, IInv', ICommitted', ISame', obs # NoObs, obs' = NoObs, position' = position,
           NEW candidate \in GridState, NEW desired, NEW slots, Entry(candidate, desired, slots)
    PROVE  RiskInv'
<1>1. live' \in SUBSET WorkingOrder
  BY DEF IInv, TypeOK
<1>2. ISided'
  <2>1. \A w \in live' : w.slot \in Placed(desired) /\ desired[w.slot] = w.order
    BY <1>1, EntryOrders DEF Placed, WorkingOrder
  <2>2. SidedLadder(desired)
    BY DEF Entry
  <2> QED
    BY <2>1, <2>2 DEF ISided, SidedLadder
<1>3. IDrift'
  BY DEF IDrift
<1>4. ExposureBounded' /\ ReduceOnlyCovered'
  <2>1. BoundsOf(position', live')
    BY BuysBounded, SellsBounded, Zenon DEF BoundsOf, Bounds
  <2> QED
    BY <1>1, <2>1, BoundsAfter, Zenon
<1> QED
  BY <1>2, <1>3, <1>4 DEF RiskInv

LEMMA CallKeepsRisk ==
    ASSUME RiskInv, IInv', TransitionCall \/ ContinueCall
    PROVE  RiskInv'
<1>1. PICK candidate \in GridState, ladder \in Ladder, may \in BOOLEAN :
            RiskCall(candidate, ladder, may)
  BY CallsAreRiskCalls DEF RiskInv
<1>2. /\ obs # NoObs /\ obs' = NoObs /\ UNCHANGED <<position, account>>
      /\ live' = live \/ \E desired, slots : Entry(candidate, desired, slots)
      /\ ICommitted' /\ ISame'
  BY <1>1, CallOutcome
<1>3. CASE \E desired, slots : Entry(candidate, desired, slots)
  BY <1>2, <1>3, EntryKeepsRisk
<1>4. CASE live' = live
  <2>1. /\ ISided /\ BoundsOf(position, live) /\ live \in SUBSET WorkingOrder
        /\ position' = position
    BY <1>2, BoundsBefore DEF RiskInv, IInv, TypeOK
  <2>2. ISided' /\ IDrift'
    BY <1>2, <1>4, <2>1 DEF ISided, IDrift
  <2>3. BoundsOf(position', live') /\ live' \in SUBSET WorkingOrder
    BY <1>4, <2>1, Zenon
  <2>4. ExposureBounded' /\ ReduceOnlyCovered'
    BY <2>3, BoundsAfter, Zenon
  <2> QED
    BY <1>2, <2>2, <2>4 DEF RiskInv
<1> QED
  BY <1>2, <1>3, <1>4

-----------------------------------------------------------------------------
(* The invariant holds.                                                    *)

LEMMA InitRisk == Init => RiskInv
<1> SUFFICES ASSUME Init PROVE RiskInv
  OBVIOUS
<1>1. live = {} /\ obs = NoObs /\ pending = NoTransition /\ IInv
  BY InitInv DEF Init
<1>2. /\ position \in Int /\ MaxAbsPosition \in Nat
      /\ -MaxAbsPosition <= position /\ position <= MaxAbsPosition
  BY QuoteExecutionAssumption, RiskLimitsAssumption DEF Init
<1>3. Outstanding({}) = 0
  BY FS_EmptySet, OutstandingStep
<1>4. \A slots, kinds : Part(live, slots, kinds) = {}
  BY <1>1 DEF Part
<1>5. /\ Outstanding(Part(live, BuySlots, BOOLEAN)) = 0
      /\ Outstanding(Part(live, SellSlots, BOOLEAN)) = 0
      /\ Outstanding(Part(live, BuySlots, {TRUE})) = 0
      /\ Outstanding(Part(live, SellSlots, {TRUE})) = 0
  BY <1>3, <1>4, Zenon
<1>6. Bounds(position, 0, 0, 0, 0)
  BY <1>2 DEF Bounds, Larger
<1>7. BoundsOf(position, live) /\ live \in SUBSET WorkingOrder
  <2>1. BoundsOf(position, live)
    BY <1>5, <1>6, Zenon DEF BoundsOf
  <2> QED
    BY <1>1, <2>1
<1>8. ExposureBounded /\ ReduceOnlyCovered
  BY <1>7, BoundsBefore, Zenon
<1>9. ISided /\ IDrift /\ ICommitted /\ ISame
  BY <1>1 DEF ISided, IDrift, ICommitted, ISame
<1> QED
  BY <1>1, <1>8, <1>9 DEF RiskInv

\* A step that keeps the book and the position keeps the bounds.
LEMMA QuietKeepsBounds ==
    ASSUME RiskInv, UNCHANGED <<position, live, state, pending>>
    PROVE  /\ ISided' /\ ISame' /\ ExposureBounded' /\ ReduceOnlyCovered'
<1>1. BoundsOf(position, live) /\ live \in SUBSET WorkingOrder
  BY BoundsBefore DEF RiskInv, IInv, TypeOK
<1>2. BoundsOf(position', live') /\ live' \in SUBSET WorkingOrder
  BY <1>1, Zenon
<1>3. ExposureBounded' /\ ReduceOnlyCovered'
  BY <1>2, BoundsAfter, Zenon
<1> QED
  BY <1>3 DEF RiskInv, ISided, ISame

LEMMA StepKeepsRisk == RiskInv /\ [Next]_vars => RiskInv'
<1> SUFFICES ASSUME RiskInv, [Next]_vars PROVE RiskInv'
  OBVIOUS
<1>1. IInv'
  BY StepKeepsInv DEF RiskInv
<1>2. CASE Observe
  <2>1. /\ obs' = [position |-> position, stale |-> FALSE, working |-> live]
        /\ UNCHANGED <<position, live, state, pending>>
    BY <1>2 DEF Observe, world, policy
  <2>2. obs'.position = position /\ obs'.working = live
    BY <2>1
  <2>3. /\ \A v, w \in live : v.gen = w.gen /\ (v.slot = w.slot => v = w)
        /\ \A w \in live : w.gen = state.gen => Matches(state.gen, BuildLadder(state), w)
    BY DEF RiskInv, IInv, OneGeneration, ICommitted
  <2>4. /\ position \in Int
        /\ Outstanding(Part(live, BuySlots, BOOLEAN)) \in Nat
        /\ Outstanding(Part(live, SellSlots, BOOLEAN)) \in Nat
    BY LiveIsFinite, PartType DEF RiskInv, IInv, TypeOK
  <2>5. IDrift'
    <3>1. /\ Outstanding(Part(live', BuySlots, BOOLEAN)) = Outstanding(Part(live, BuySlots, BOOLEAN))
          /\ Outstanding(Part(live', SellSlots, BOOLEAN)) = Outstanding(Part(live, SellSlots, BOOLEAN))
          /\ Outstanding(Part(obs'.working, BuySlots, BOOLEAN)) = Outstanding(Part(live, BuySlots, BOOLEAN))
          /\ Outstanding(Part(obs'.working, SellSlots, BOOLEAN)) = Outstanding(Part(live, SellSlots, BOOLEAN))
      BY <2>1, <2>2, Zenon
    <3> QED
      BY <2>1, <2>2, <2>3, <2>4, <3>1 DEF IDrift
  <2>6. ICommitted'
    BY <2>1, <2>2, <2>3 DEF ICommitted
  <2> QED
    BY <1>1, <2>1, <2>5, <2>6, QuietKeepsBounds DEF RiskInv
<1>3. CASE TransitionCall \/ ContinueCall
  BY <1>1, <1>3, CallKeepsRisk
<1>4. CASE MarketMoves \/ AccountMoves \/ UNCHANGED vars
  <2>1. UNCHANGED <<position, live, obs, state, pending>>
    BY <1>4 DEF MarketMoves, AccountMoves, policy, vars
  <2>2. IDrift' /\ ICommitted'
    BY <2>1 DEF RiskInv, IDrift, ICommitted
  <2> QED
    BY <1>1, <2>1, <2>2, QuietKeepsBounds DEF RiskInv
<1>5. CASE ObservationAges
  <2>1. /\ obs # NoObs /\ obs' = [obs EXCEPT !.stale = TRUE]
        /\ UNCHANGED <<position, live, state, pending>>
    BY <1>5 DEF ObservationAges, policy
  <2>2. obs'.position = obs.position /\ obs'.working = obs.working
    BY <2>1 DEF RiskInv, IInv, TypeOK, Observation
  <2>3. IDrift' /\ ICommitted'
    BY <2>1, <2>2 DEF RiskInv, IDrift, ICommitted
  <2> QED
    BY <1>1, <2>1, <2>3, QuietKeepsBounds DEF RiskInv
<1>6. ASSUME NEW w \in live,
             \/ \E qty \in 1..OrderQuantity : Fill(w, qty)
             \/ VenueEnds(w)
             \/ ConfirmCancel(w)
      PROVE  RiskInv'
  <2>1. PICK qty \in Nat : VenueMoves(w, qty)
    BY <1>6, VenueSteps DEF RiskInv
  <2> QED
    BY <1>1, <2>1, VenueKeepsRisk
<1> QED
  BY <1>2, <1>3, <1>4, <1>5, <1>6 DEF Next

LEMMA RiskInvariance == Spec => []RiskInv
BY InitRisk, StepKeepsRisk, PTL DEF Spec

\* Whatever fills arrive between an observation, the decision on it and the
\* confirmation of a cancellation, the position with everything still working on
\* one side stays within the limit: the gate's projection from the observed
\* position (risk/controller.py:64-103) stays good, because a fill only moves
\* exposure from the orders into the position and because no call submits beside
\* an order of another ladder (execution/reconcile.py:60-73).
THEOREM ExposureBoundedHolds == Spec => []ExposureBounded
BY RiskInvariance, PTL DEF RiskInv

\* The reduce-only orders at the venue never exceed the position they reduce, as
\* it is and not only as it was observed (risk/controller.py:73-91).
THEOREM ReduceOnlyCoveredHolds == Spec => []ReduceOnlyCovered
BY RiskInvariance, PTL DEF RiskInv

-----------------------------------------------------------------------------
(* What enters, and when a call raises.                                    *)

\* An order enters only through a call that submits.
LEMMA EnteringIsEntry ==
    ASSUME RiskInv, [Next]_vars, Entering # {}
    PROVE  /\ TransitionCall \/ ContinueCall
           /\ \A candidate \in GridState, ladder \in Ladder, may \in BOOLEAN :
                RiskCall(candidate, ladder, may) =>
                    \E desired, slots : Entry(candidate, desired, slots)
<1>1. live' # live
  BY DEF Entering
<1>2. TransitionCall \/ ContinueCall
  BY OtherSteps DEF RiskInv, Entering
<1> QED
  BY <1>1, <1>2, CallOutcome

\* Hard risk is asked again by the continuation after a cancellation: no order
\* enters from a stale snapshot, in a drawdown, or into a crowded account
\* (risk/controller.py:9-53, application/passive_policy.py:157-202).
THEOREM RiskClearedEntryHolds == Spec => RiskClearedEntry
<1>1. RiskInv /\ RiskInv' /\ [Next]_vars =>
        [Entering # {} =>
            /\ ~obs.stale
            /\ ~account.drawdown
            /\ account.others + Cardinality(live') <= MaxOpenOrders]_vars
  <2> SUFFICES ASSUME RiskInv, RiskInv', [Next]_vars, Entering # {}
               PROVE  /\ ~obs.stale
                      /\ ~account.drawdown
                      /\ account.others + Cardinality(live') <= MaxOpenOrders
    OBVIOUS
  <2>1. PICK candidate \in GridState, ladder \in Ladder, may \in BOOLEAN :
              RiskCall(candidate, ladder, may)
    BY EnteringIsEntry, CallsAreRiskCalls DEF RiskInv
  <2>2. PICK desired, slots : Entry(candidate, desired, slots)
    BY <2>1, EnteringIsEntry
  <2>3. /\ ~obs.stale /\ ~account.drawdown
        /\ account.others + Cardinality(Placed(desired)) <= MaxOpenOrders
        /\ Placed(desired) \in SUBSET Slots
    BY <2>2 DEF Entry, Gated, Placed
  <2>4. live' \in SUBSET WorkingOrder /\ \A v, w \in live' : v.slot = w.slot => v = w
    BY DEF RiskInv, IInv, TypeOK, OneGeneration
  <2>5. \A w \in live' : w.slot \in Placed(desired)
    BY <2>2, <2>4, EntryOrders DEF Placed, WorkingOrder
  <2>6. /\ Cardinality(live') \in Nat /\ Cardinality(Placed(desired)) \in Nat
        /\ Cardinality(live') <= Cardinality(Placed(desired))
    BY <2>3, <2>4, <2>5, OrdersAreFinite
  <2>7. account.others \in Nat /\ MaxOpenOrders \in Nat
    BY QuoteExecutionAssumption, RiskLimitsAssumption DEF RiskInv, IInv, TypeOK, Account
  <2> QED
    BY <2>3, <2>6, <2>7
<1> QED
  BY <1>1, RiskInvariance, PTL DEF Spec, RiskClearedEntry

\* A call raises only when it meets orders of a refused candidate, under the
\* generation that the next candidate uses again (execution/reconcile.py:52-55,
\* strategy/adaptive_grid.py:402): the orders of the committed ladder never
\* overfill what is desired under their ids.
THEOREM RaisesOnlyAfterRefusalHolds == Spec => RaisesOnlyAfterRefusal
<1>1. RiskInv /\ [Next]_vars =>
        [raised' /\ obs # NoObs /\ obs' = NoObs =>
            \E w \in obs.working : w.gen = state.gen + 1]_vars
  <2> SUFFICES ASSUME RiskInv, [Next]_vars, raised', obs # NoObs, obs' = NoObs
               PROVE  \E w \in obs.working : w.gen = state.gen + 1
    OBVIOUS
  <2>1. CASE TransitionCall \/ ContinueCall
    BY <2>1, CallsAreRiskCalls, CallOutcome DEF RiskInv
  <2>2. NoObs \notin Observation
    BY QuoteExecutionAssumption
  <2>3. CASE Observe
    <3>1. obs' = [position |-> position, stale |-> FALSE, working |-> live]
      BY <2>3 DEF Observe
    <3>2. obs' \in Observation
      BY <3>1 DEF RiskInv, IInv, TypeOK, Observation
    <3> QED
      BY <2>2, <3>2
  <2>4. CASE ObservationAges
    <3>1. obs' = [obs EXCEPT !.stale = TRUE] /\ obs \in Observation
      BY <2>4 DEF ObservationAges, RiskInv, IInv, TypeOK
    <3>2. obs' \in Observation
      BY <3>1 DEF Observation
    <3> QED
      BY <2>2, <3>2
  <2>5. CASE obs' = obs
    BY <2>5
  <2>6. \/ TransitionCall \/ ContinueCall \/ Observe \/ ObservationAges
        \/ obs' = obs
    BY DEF Next, MarketMoves, AccountMoves, Fill, VenueEnds, ConfirmCancel, vars
  <2> QED
    BY <2>1, <2>3, <2>4, <2>5, <2>6
<1> QED
  BY <1>1, RiskInvariance, PTL DEF Spec, RaisesOnlyAfterRefusal

\* The ladder that a decision asks for takes no new risk against the position.
LEMMA DecisionDoesNotOppose ==
    ASSUME NEW p \in Int, NEW sig \in Signal, NEW s \in GridState,
           NEW slot \in Placed(BuildLadder(Decide(p, sig, s))),
           ~BuildLadder(Decide(p, sig, s))[slot].reduceOnly
    PROVE  ~Opposes(p, slot)
<1> DEFINE c == StateFor(p, sig, s.gen + 1)
<1>1. BuildLadder(Decide(p, sig, s)) = BuildLadder(c)
  BY DEF Decide
<1>2. c.target = EnforceFlatBeforeReverse(p, sig.wanted) /\ sig.wanted \in Int
  BY AdaptiveGridAssumption DEF StateFor, Signal, Targets
<1> HIDE DEF c
<1>3. slot \in Placed(BuildLadder(c)) /\ ~BuildLadder(c)[slot].reduceOnly
  BY <1>1
<1>4. IF IsBuy(slot) THEN ~(c.target <= 0) ELSE ~(c.target >= 0)
  BY <1>3 DEF Placed, BuildLadder, BuyReduceOnly, SellReduceOnly
<1> QED
  BY <1>2, <1>4 DEF EnforceFlatBeforeReverse, Opposes

\* No decision opens risk against the position it observes, whether or not the
\* transition of an earlier one is pending (strategy/conditional_short.py:48-60):
\* only a continuation can do otherwise.
THEOREM DecisionsReverseFromFlatHolds == Spec => DecisionsReverseFromFlat
<1>1. RiskInv /\ [Next]_vars =>
        [\A w \in Entering :
            TransitionCall /\ ~w.order.reduceOnly => ~Opposes(obs.position, w.slot)]_vars
  <2> SUFFICES ASSUME RiskInv, [Next]_vars, TransitionCall, NEW w \in Entering,
                      ~w.order.reduceOnly
               PROVE  ~Opposes(obs.position, w.slot)
    OBVIOUS
  <2> DEFINE candidate == Decide(obs.position, signal, state)
  <2>1. TransitionCall
    OBVIOUS
  <2>2. /\ candidate \in GridState /\ BuildLadder(candidate) \in Ladder
        /\ RiskCall(candidate, BuildLadder(candidate), TRUE)
    BY <2>1, TransitionIsRiskCall DEF RiskInv
  <2>3. obs.position \in Int /\ signal \in Signal /\ state \in GridState
    BY <2>1 DEF TransitionCall, RiskInv, IInv, TypeOK, Observation
  <2>4. w \in live' /\ w.slot \in Slots
    <3>1. IInv'
      BY StepKeepsInv DEF RiskInv
    <3> QED
      BY <3>1 DEF Entering, IInv, TypeOK, WorkingOrder
  <2>5. w.slot \in Placed(BuildLadder(candidate)) /\ ~BuildLadder(candidate)[w.slot].reduceOnly
    <3> HIDE DEF candidate
    <3>1. PICK desired, slots : Entry(candidate, desired, slots)
      BY <2>2, EnteringIsEntry
    <3>2. desired[w.slot] = w.order /\ desired[w.slot] # NoOrder
      BY <2>4, <3>1, EntryOrders
    <3>3. w.slot \in Placed(desired)
      BY <2>4, <3>2 DEF Placed
    <3>4. desired[w.slot] = BuildLadder(candidate)[w.slot]
      BY <3>1, <3>3 DEF Entry
    <3> QED
      BY <2>4, <3>2, <3>4 DEF Placed
  <2> QED
    BY <2>3, <2>5, DecisionDoesNotOppose
<1> QED
  BY <1>1, RiskInvariance, PTL DEF Spec, DecisionsReverseFromFlat

==============================================================================
