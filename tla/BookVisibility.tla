--------------------------- MODULE BookVisibility ---------------------------
(***************************************************************************)
(* What a replay may know of an order book of which it sees snapshots of   *)
(* the best levels only (datasets/canonical.py, BookVisibilityTracker).    *)
(*                                                                         *)
(* The market changes in any way between two snapshots.  The tracker keeps *)
(* for each price level whether it is visible, known to be empty, or lost  *)
(* behind the deepest level shown, and an epoch that must not outlive an   *)
(* interruption.  The conversion for hftbacktest turns its updates into    *)
(* depth rows; the replayed book is what those rows add up to.  Prices of  *)
(* orders are trusted until the first loss at them.                        *)
(***************************************************************************)
EXTENDS Integers, FiniteSets

CONSTANTS
    MaxPrice,     \* prices are 1..MaxPrice
    MaxQuantity,  \* bound on the quantity of a level
    Depth,        \* how many levels of a side a snapshot shows
    MaxSnapshots  \* bound on the snapshots of a feed

ASSUME BookAssumption ==
    /\ MaxPrice \in Nat /\ MaxQuantity \in Nat /\ Depth \in Nat \ {0}
    /\ MaxSnapshots \in Nat

Sides == {"bid", "ask"}
Prices == 1..MaxPrice
Keys == Sides \X Prices

\* Whether level j is at least as good as level k, on one side.
AtLeast(j, k) ==
    /\ j[1] = k[1]
    /\ IF k[1] = "bid" THEN j[2] >= k[2] ELSE j[2] <= k[2]

\* The books of a market: no bid meets an ask.
Books ==
    {book \in [Keys -> 0..MaxQuantity] :
        \A p, q \in Prices : book[<<"bid", p>>] > 0 /\ book[<<"ask", q>>] > 0 => p < q}

EmptyBook == [k \in Keys |-> 0]

Better(book, k) == {j \in Keys : AtLeast(j, k) /\ j # k /\ book[j] > 0}

\* The levels of the book that a snapshot shows.
Shown(book) == {k \in Keys : book[k] > 0 /\ Cardinality(Better(book, k)) < Depth}

VARIABLES
    market,     \* the book of the last snapshot, whole
    level,      \* _states, "unseen" for a price the tracker has not met
    epoch,      \* _epochs, 0 for a price the tracker has not met
    quantities, \* visible_quantities, Missing where it holds none
    replay,     \* the book hftbacktest has built from the rows
    eligible,   \* the levels of the first snapshot, where an order may be
    lost,       \* the levels at which a visibility loss was reported
    snapshots   \* how many snapshots were applied

bookVars == <<market, level, epoch, quantities, replay, eligible, lost, snapshots>>

Missing == -1

BookTypeOK ==
    /\ market \in Books
    /\ level \in [Keys -> {"unseen", "visible", "zero", "lost"}]
    /\ epoch \in [Keys -> Nat]
    /\ quantities \in [Keys -> 0..MaxQuantity \cup {Missing}]
    /\ \A k \in Keys : quantities[k] # Missing => level[k] \in {"visible", "zero"}
    /\ replay \in [Keys -> 0..MaxQuantity]
    /\ eligible \subseteq Keys /\ lost \subseteq Keys
    /\ snapshots \in 0..MaxSnapshots

BookInit ==
    /\ market = EmptyBook
    /\ level = [k \in Keys |-> "unseen"]
    /\ epoch = [k \in Keys |-> 0]
    /\ quantities = [k \in Keys |-> Missing]
    /\ replay = EmptyBook
    /\ eligible = {} /\ lost = {}
    /\ snapshots = 0

-----------------------------------------------------------------------------
\* _inside_deep_boundary: the snapshot shows a level at or behind this one.
InsideDeepBoundary(book, k) == \E j \in Shown(book) : AtLeast(k, j)

\* Faulty variant: a level known to be empty is not followed any more.
NextIgnoringZero(book, k) ==
    CASE k \in Shown(book) -> "visible"
      [] k \notin Shown(book) /\ level[k] \in {"unseen", "zero"} -> level[k]
      [] OTHER -> IF InsideDeepBoundary(book, k) THEN "zero" ELSE "lost"

\* apply: the state in which a snapshot leaves a level.
NextLevel(book, k) ==
    CASE k \in Shown(book) -> "visible"
      [] k \notin Shown(book) /\ level[k] = "unseen" -> "unseen"
      [] OTHER -> IF InsideDeepBoundary(book, k) THEN "zero" ELSE "lost"

\* Faulty variant: only a lost level starts a new epoch.
ReestablishedFromLost(book, k) ==
    level[k] = "lost" /\ NextLevel(book, k) \in {"visible", "zero"}

\* apply: whether the snapshot reports the level as re-established.
Reestablished(book, k) ==
    \/ level[k] \in {"zero", "lost"} /\ NextLevel(book, k) = "visible"
    \/ level[k] = "lost" /\ NextLevel(book, k) = "zero"

\* apply: whether the snapshot reports the level as lost.
BecomesLost(book, k) == level[k] # "lost" /\ NextLevel(book, k) = "lost"

\* Faulty variant: no row withdraws a level that was confirmed empty.
WithdrawsNothing(book, k) == FALSE

\* The conversion: whether it emits a row of quantity zero for a level that was
\* visible and is confirmed empty.
Withdraws(book, k) ==
    /\ level[k] = "visible" /\ NextLevel(book, k) = "zero"
    /\ quantities[k] # Missing

\* Faulty variant: a level re-established as empty has no row.
UpsertsShown(book, k) == k \in Shown(book) /\ quantities[k] # book[k]

\* The conversion: whether it emits a row with the quantity of the level, which
\* is 0 for one re-established as empty.  The first snapshot becomes the
\* initial rows, level by level.
Upserts(book, k) ==
    /\ k \in Shown(book) \/ Reestablished(book, k)
    /\ quantities[k] # book[k]

\* What the conversion keeps of the quantity of a level.
NextQuantity(book, k) ==
    IF BecomesLost(book, k) \/ Withdraws(book, k) THEN Missing
    ELSE IF Upserts(book, k) THEN book[k]
    ELSE quantities[k]

\* A snapshot of the market's book passes the tracker and the conversion.
Snapshot(book) ==
    /\ snapshots < MaxSnapshots
    /\ snapshots' = snapshots + 1
    /\ market' = book
    /\ level' = [k \in Keys |-> NextLevel(book, k)]
    /\ epoch' = [k \in Keys |-> IF Reestablished(book, k) THEN epoch[k] + 1 ELSE epoch[k]]
    /\ quantities' = [k \in Keys |-> NextQuantity(book, k)]
    /\ replay' = [k \in Keys |-> IF Withdraws(book, k) THEN 0
                                 ELSE IF Upserts(book, k) THEN book[k]
                                 ELSE replay[k]]
    /\ eligible' = IF snapshots = 0 THEN Shown(book) ELSE eligible
    /\ lost' = lost \cup {k \in Keys : BecomesLost(book, k)}

BookNext == \E book \in Books : Snapshot(book)

BookSpec == BookInit /\ [][BookNext]_bookVars

-----------------------------------------------------------------------------
\* Inside the range that a snapshot shows, the replayed book is the market's,
\* whatever was lost, emptied and shown again before
\* (research/hftbacktest_adapter.py:287-318).
InsideIsTrue ==
    \A k \in Keys : InsideDeepBoundary(market, k) => replay[k] = market[k]

\* At the price of an order that stood in the first book, the replayed quantity
\* is the market's in every snapshot before a loss is reported there: what the
\* truncated feed fills, it fills against a known level
\* (research/replay_attribution.py:300-326, tier2_replay/liquidity.py:45-68).
TrustedOrderPrices ==
    \A k \in eligible \ lost : replay[k] = market[k]

\* No row invents depth or a cancellation: where the replayed book changes, it
\* becomes what the market has, at a price the snapshot's range covers
\* ("no queue advancement or cancellation evidence is invented outside the
\* visible range", 2026-08-10-tier2-historical-forward-replay-design.md, 9.2).
NoInventedDepth ==
    [][\A k \in Keys : replay'[k] # replay[k] =>
        InsideDeepBoundary(market', k) /\ replay'[k] = market'[k]]_bookVars

\* Levels that were lost stay in the replayed book, but they never cross it
\* while both sides of the market are seen.
ReplayUncrossed ==
    (\A s \in Sides : \E k \in Shown(market) : k[1] = s) =>
        \A p, q \in Prices : replay[<<"bid", p>>] > 0 /\ replay[<<"ask", q>>] > 0 => p < q

\* The levels implement QueueEpochs: no epoch of a level outlives an
\* interruption ("a fresh snapshot/re-entry starts a new visibility epoch rather
\* than pretending the old queue survived", same section).
Queues == INSTANCE QueueEpochs
    WITH Levels <- Keys,
         present <- {k \in Keys : level[k] = "visible"},
         epoch <- [k \in Keys |-> IF level[k] = "unseen" THEN -1 ELSE epoch[k]]

ImplementsQueueEpochs == Queues!Spec
=============================================================================
