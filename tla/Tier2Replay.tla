----------------------------- MODULE Tier2Replay -----------------------------
(***************************************************************************)
(* A Tier-2 replay (research/tier2_replay/): the candidate orders of one   *)
(* decision pass hard risk and the liquidity check of the first book, the  *)
(* events are cut before the first loss of visibility at the price of a    *)
(* replayed order, hftbacktest fills the orders over what is left, and the *)
(* recorded fills determine the funding cash flows of every full hour.     *)
(*                                                                         *)
(* An order's price is its level; a book shows each side down to a level.  *)
(* The exchange is external: a trade fills any part of the orders of the   *)
(* side it hits, each at most once, and the responses arrive in order, any *)
(* time later and several at once, if they are of one time.                *)
(***************************************************************************)
EXTENDS PassivePolicy, Sequences, SequencesExt

CONSTANTS
    MaxQty,      \* bound on the quantity of an order
    Hour,        \* nanoseconds of an hour, in units of the clock
    MaxTime,     \* bound on the time of an event
    MaxEvents    \* bound on the events of a dataset

ASSUME ReplayAssumption ==
    /\ Hour \in Nat \ {0}
    /\ {MaxQty, MaxTime, MaxEvents} \subseteq Nat

VARIABLES
    phase,    \* "recording", "replaying" or "settled"
    feed,     \* the accepted events, in canonical order
    start,    \* the starting position
    orders,   \* the eligible orders
    at,       \* the event the exchange processes
    venue,    \* the executions on the exchange
    answered, \* how many of them the loop was told of
    seen,     \* seen_execution: of each order the last execution recorded
    fills,    \* ReplaySummary.fills
    flows     \* the funding cash flow of each reference: its hour and position

run == <<at, venue, answered, seen, fills>>
vars == <<phase, feed, start, orders, run, flows>>

Sides == BOOLEAN  \* TRUE is the bid side
Candidates == [Slots -> [price : Prices, qty : 1..MaxQty, reduceOnly : BOOLEAN] \cup {NoOrder}]
Book == [what : {"book"}, time : 0..MaxTime, shown : [Sides -> 0..Levels]]
Event == Book \cup [what : {"trade"}, time : 0..MaxTime, hits : Sides]
              \cup [what : {"funding"}, time : 0..MaxTime]
\* An execution carries its trade, which tells it from every other one of its order.
Execution == [slot : Slots, time : 0..MaxTime, qty : Nat \ {0}, trade : Nat \ {0}]

TypeOK ==
    /\ phase \in {"recording", "replaying", "settled"}
    /\ feed \in Seq(Event)
    /\ start \in Int
    /\ orders \in Ladder
    /\ at \in DOMAIN feed
    /\ venue \in Seq(Execution) /\ fills \in Seq(Execution)
    /\ answered \in 0..Len(venue) /\ Len(fills) <= answered
    /\ \A s \in Slots : seen[s] # 0 => venue[seen[s]].slot = s
    /\ \A i \in DOMAIN flows : flows[i] \in [time : 0..MaxTime, position : Int]

\* The first event is the initial book, which shows both sides.
Init ==
    /\ phase = "recording"
    /\ feed \in {<<book>> : book \in {b \in Book : b.time = 1 /\ \A side \in Sides : b.shown[side] > 0}}
    /\ start \in 0..MaxAbsPosition
    /\ orders = EmptyLadder
    /\ at = 1
    /\ venue = <<>> /\ answered = 0
    /\ seen = [s \in Slots |-> 0]
    /\ fills = <<>> /\ flows = <<>>

-----------------------------------------------------------------------------
\* The events of the dataset, in canonical order.
Record(event) ==
    /\ phase = "recording"
    /\ Len(feed) < MaxEvents
    /\ Last(feed).time <= event.time
    /\ event.what = "funding" => event.time % Hour = 0
    /\ feed' = Append(feed, event)
    /\ UNCHANGED <<phase, start, orders, run, flows>>

\* required_hourly_funding_timestamps, and the audit that demands each of them.
FundingComplete ==
    \A t \in feed[1].time..Last(feed).time :
        t % Hour = 0 => \E i \in DOMAIN feed : feed[i].what = "funding" /\ feed[i].time = t

\* Whether a book shows, or covers, the price of the order at a slot.
Covers(book, slot) == LevelOf(slot) <= book.shown[IsBuy(slot)]

\* first_order_visibility_loss_ns for an order shown in the first book.
LossTimes(slot) ==
    {feed[i].time : i \in {j \in DOMAIN feed : feed[j].what = "book" /\ ~Covers(feed[j], slot)}}

\* Faulty variant: the events of the boundary itself are replayed.
TrustedThroughBoundary ==
    {i \in DOMAIN feed : \A s \in Placed(orders) : \A t \in LossTimes(s) : feed[i].time <= t}

\* _trusted_replay_events, before the earliest boundary of the eligible orders.
Trusted ==
    {i \in DOMAIN feed : \A s \in Placed(orders) : \A t \in LossTimes(s) : feed[i].time < t}

\* assess_order_liquidity_eligibility in the first book: an order is eligible
\* only at a price the book shows, and whether it is small enough against what
\* stands there is left open.
Liquid == SUBSET {s \in Slots : Covers(feed[1], s)}

\* run_tier2_replay up to the replay.
Decide(candidate, drawdown, liquid) ==
    LET account == [drawdown |-> drawdown, others |-> 0]
        observed == [position |-> start, stale |-> FALSE, working |-> {}]
        policy == TransitionPolicy(account, observed, [gen |-> 0], [gen |-> 1], candidate)
    IN  /\ phase = "recording"
        /\ FundingComplete
        /\ orders' = Keep(policy.desired, liquid)
        /\ phase' = "replaying"
        /\ UNCHANGED <<feed, start, run, flows>>

Executed(slot) ==
    FoldSeq(LAMBDA e, sum : sum + (IF e.slot = slot THEN e.qty ELSE 0), 0, venue)

Ahead == {i \in Trusted : i > at}

\* The exchange goes on to the next trusted event.
Advance ==
    /\ phase = "replaying"
    /\ at' \in Ahead
    /\ \A i \in Ahead : at' <= i
    /\ UNCHANGED <<phase, feed, start, orders, venue, answered, seen, fills, flows>>

\* A trade fills a part of an order on the side that it hits, once.
Execute(slot, qty) ==
    /\ phase = "replaying"
    /\ feed[at].what = "trade"
    /\ slot \in Placed(orders) /\ IsBuy(slot) = feed[at].hits
    /\ \A k \in DOMAIN venue : venue[k].trade = at => venue[k].slot # slot
    /\ Executed(slot) + qty <= orders[slot].qty
    /\ venue' = Append(venue, [slot |-> slot, time |-> feed[at].time, qty |-> qty, trade |-> at])
    /\ UNCHANGED <<phase, feed, start, orders, at, answered, seen, fills, flows>>

\* The last execution of an order that the loop was told of, 0 without one.
LatestOf(slot, told) == SelectLastInSubSeq(venue, 1, told, LAMBDA e : e.slot = slot)

\* Faulty variant: the signature is only the time and the quantity.
AnewByTimeAndQuantity(slot, latest) ==
    /\ latest # 0
    /\ seen[slot] # 0 => \/ venue[latest].time # venue[seen[slot]].time
                         \/ venue[latest].qty # venue[seen[slot]].qty

\* The signature of an execution: the remaining quantity tells it from every
\* other execution of its order.
Anew(slot, latest) == latest # 0 /\ latest # seen[slot]

\* The orders in that of their submission.
InOrder(slots) ==
    CHOOSE listed \in [1..Cardinality(slots) -> slots] :
        \A i, j \in DOMAIN listed : i < j => listed[i] < listed[j]

\* replay_passive_orders: the loop wakes for a response and looks at all orders,
\* of which it reads the last execution told.
Look(upto) ==
    /\ phase = "replaying"
    /\ answered' = upto
    /\ LET news == {s \in Placed(orders) : Anew(s, LatestOf(s, upto))}
       IN  /\ fills' = fills \o [i \in 1..Cardinality(news) |->
                                    venue[LatestOf(InOrder(news)[i], upto)]]
           /\ seen' = [s \in Slots |-> IF s \in news THEN LatestOf(s, upto) ELSE seen[s]]
    /\ UNCHANGED <<phase, feed, start, orders, at, venue, flows>>

\* Faulty variant: the latency varies, and what happened at different times may
\* be told at once.
WakeLate(upto) == Look(upto)

\* With a constant latency what is told at once happened at one time.
Wake(upto) ==
    /\ \A i \in (answered + 1)..upto : venue[i].time = venue[upto].time
    /\ Look(upto)

\* What the executions at the indices change the position by.
Change(executions, indices) ==
    MapThenSumSet(LAMBDA i : SignedFill(executions[i].slot, executions[i].qty), indices)

\* _position_at: the fills before the first one later than the time.
PositionAt(time) ==
    start + Change(fills, {i \in DOMAIN fills : \A j \in 1..i : fills[j].time <= time})

HourlyReferences == {i \in DOMAIN feed : feed[i].what = "funding" /\ feed[i].time % Hour = 0}

\* _funding_cash_flows, over all events and not only the trusted ones.
FundingFlows ==
    [i \in HourlyReferences |-> [time |-> feed[i].time, position |-> PositionAt(feed[i].time)]]

\* The replay is at the end of its data and the flows are computed.
Settle ==
    /\ phase = "replaying"
    /\ Ahead = {} /\ answered = Len(venue)
    /\ phase' = "settled"
    /\ flows' = FundingFlows
    /\ UNCHANGED <<feed, start, orders, run>>

Next ==
    \/ \E event \in Event : Record(event)
    \/ \E candidate \in Candidates, drawdown \in BOOLEAN, liquid \in Liquid :
        Decide(candidate, drawdown, liquid)
    \/ Advance
    \/ \E slot \in Slots, qty \in 1..MaxQty : Execute(slot, qty)
    \/ \E upto \in (answered + 1)..Len(venue) : Wake(upto)
    \/ Settle

Spec == Init /\ [][Next]_vars

-----------------------------------------------------------------------------
\* No fill is recorded at or after the first book that no longer covers the
\* price of any replayed order ("promoting replay cannot claim fills while queue
\* state at the order price is unknown"; tier2_replay/liquidity.py:45-68).
FillsAreTrusted ==
    \A f \in Range(fills), s \in Placed(orders) : \A t \in LossTimes(s) : f.time < t

Superseded(k) ==
    \E j \in (k + 1)..Len(venue) : venue[j].slot = venue[k].slot /\ venue[j].time = venue[k].time

\* Every fill is an execution of the exchange and recorded once, and at the end
\* the last execution of each order at each time is among the fills.  An earlier
\* one of the same order and time is lost when both are told together, and nothing
\* else is (research/hftbacktest_adapter.py:501-530).
LatestExecutionsKept ==
    /\ Range(fills) \subseteq Range(venue)
    /\ \A i, j \in DOMAIN fills : fills[i] = fills[j] => i = j
    /\ phase = "settled" => \A k \in DOMAIN venue : Superseded(k) \/ venue[k] \in Range(fills)

\* The position of a funding hour counts every recorded fill before the hour and
\* none after it, although fills are recorded order by order and counted until the
\* first later one (tier2_replay/attribution.py:30-46).  Whether one at the hour
\* itself counts is the question of FundingBeforeBoundary, which does not hold.
FundingFollowsFills ==
    \A i \in DOMAIN flows :
        \E boundary \in SUBSET {j \in DOMAIN fills : fills[j].time = flows[i].time} :
            flows[i].position = start + Change(fills,
                {j \in DOMAIN fills : fills[j].time < flows[i].time} \cup boundary)

\* Funding uses the position immediately before the hour, as the design says
\* (2026-08-10-tier2-historical-forward-replay-design.md:409) and the code does not
\* (tier2_replay/attribution.py:38): it counts a fill at the hour itself.
FundingBeforeBoundary ==
    \A i \in DOMAIN flows :
        flows[i].position = start + Change(fills, {j \in DOMAIN fills : fills[j].time < flows[i].time})

=============================================================================
