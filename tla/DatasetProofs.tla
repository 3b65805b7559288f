--------------------------- MODULE DatasetProofs ---------------------------
(***************************************************************************)
(* Proofs about what a dataset tells a replay: about the book it shows     *)
(* (BookVisibility), for every number of prices and quantities and every   *)
(* depth of the snapshots, and to the candidate that is derived from it    *)
(* (Tier2Candidate, DatasetAudit), for every set of payloads, manifests    *)
(* and samples; for feeds and recordings of any length.                    *)
(***************************************************************************)
EXTENDS Tier2Candidate, BookVisibility, FiniteSetTheorems, WellFoundedInduction, TLAPS

-----------------------------------------------------------------------------
(* The book.  The invariant says for each of the tracker's states what the *)
(* tracker, the conversion and the replay know of the level, measured      *)
(* against the market that the last snapshot was taken of.                 *)

VisibleKnown(k) ==
    level[k] = "visible" =>
        k \in Shown(market) /\ quantities[k] = market[k] /\ replay[k] = market[k]

ZeroKnown(k) ==
    level[k] = "zero" =>
        /\ InsideDeepBoundary(market, k) /\ k \notin Shown(market)
        /\ quantities[k] \in {0, Missing} /\ replay[k] = 0

UnseenKnown(k) ==
    level[k] = "unseen" =>
        /\ k \notin Shown(market) /\ epoch[k] = 0
        /\ quantities[k] = Missing /\ replay[k] = 0

LostKnown(k) ==
    level[k] = "lost" =>
        /\ ~InsideDeepBoundary(market, k) /\ k \notin Shown(market)
        /\ quantities[k] = Missing /\ k \in lost

Known == \A k \in Keys : VisibleKnown(k) /\ ZeroKnown(k) /\ UnseenKnown(k) /\ LostKnown(k)

EligibleKnown == \A k \in eligible : level[k] # "unseen"

BInv == BookTypeOK /\ Known /\ EligibleKnown

-----------------------------------------------------------------------------
(* Orders on prices, and what a snapshot shows.                            *)

LEMMA AtLeastOrder ==
    /\ \A k \in Keys : AtLeast(k, k)
    /\ \A i, j, k \in Keys : AtLeast(i, j) /\ AtLeast(j, k) => AtLeast(i, k)
    /\ \A j, k \in Keys : AtLeast(j, k) /\ AtLeast(k, j) => j = k
<1>1. \A k \in Keys : k[2] \in Int /\ k = <<k[1], k[2]>>
  BY DEF Keys, Prices
<1> QED
  BY <1>1 DEF AtLeast

LEMMA BetterFinite ==
    ASSUME NEW book, NEW k
    PROVE  IsFiniteSet(Better(book, k)) /\ Cardinality(Better(book, k)) \in Nat
<1>1. IsFiniteSet(Sides)
  <2>1. IsFiniteSet({"bid"}) /\ IsFiniteSet({"ask"})
    BY FS_Singleton
  <2>2. Sides = {"bid"} \cup {"ask"}
    BY DEF Sides
  <2> QED
    BY <2>1, <2>2, FS_Union
<1>2. IsFiniteSet(Prices)
  BY FS_Interval, BookAssumption DEF Prices
<1>3. IsFiniteSet(Keys)
  BY <1>1, <1>2, FS_Product DEF Keys
<1>4. Better(book, k) \subseteq Keys
  BY DEF Better
<1>5. IsFiniteSet(Better(book, k))
  BY <1>3, <1>4, FS_Subset
<1> QED
  BY <1>5, FS_CardinalityType

\* Inside the range that a snapshot shows, a level it does not show is empty:
\* the levels of a side are shown best first, without gaps.
LEMMA HiddenInsideIsEmpty ==
    ASSUME NEW book \in Books, NEW k \in Keys,
           InsideDeepBoundary(book, k), k \notin Shown(book)
    PROVE  book[k] = 0
<1>1. PICK j \in Shown(book) : AtLeast(k, j)
  BY DEF InsideDeepBoundary
<1>2. j \in Keys /\ book[j] > 0 /\ Cardinality(Better(book, j)) < Depth
  BY <1>1 DEF Shown
<1>3. Better(book, k) \subseteq Better(book, j)
  <2> SUFFICES ASSUME NEW i \in Better(book, k)
               PROVE  i \in Better(book, j)
    OBVIOUS
  <2>1. i \in Keys /\ AtLeast(i, k) /\ i # k /\ book[i] > 0
    BY DEF Better
  <2>2. AtLeast(i, j)
    BY <1>1, <1>2, <2>1, AtLeastOrder
  <2>3. i # j
    BY <1>1, <1>2, <2>1, AtLeastOrder
  <2> QED
    BY <2>1, <2>2, <2>3 DEF Better
<1>4. Cardinality(Better(book, k)) <= Cardinality(Better(book, j))
  BY <1>3, BetterFinite, FS_Subset
<1>5. Cardinality(Better(book, k)) \in Nat /\ Cardinality(Better(book, j)) \in Nat
  BY BetterFinite
<1>6. Cardinality(Better(book, k)) < Depth
  BY <1>2, <1>4, <1>5, BookAssumption
<1>7. ~(book[k] > 0)
  BY <1>6 DEF Shown
<1>8. book[k] \in 0..MaxQuantity
  BY DEF Books
<1> QED
  BY <1>7, <1>8, BookAssumption

LEMMA ShownIsInside ==
    ASSUME NEW book \in Books, NEW k \in Shown(book)
    PROVE  k \in Keys /\ InsideDeepBoundary(book, k) /\ book[k] \in 1..MaxQuantity
<1>1. k \in Keys /\ book[k] > 0
  BY DEF Shown
<1>2. book[k] \in 0..MaxQuantity
  BY <1>1 DEF Books
<1> QED
  BY <1>1, <1>2, AtLeastOrder, BookAssumption DEF InsideDeepBoundary

\* The cases of the tracker, one after the other.
LEMMA NextLevelCases ==
    ASSUME NEW book, NEW k
    PROVE  /\ k \in Shown(book) => NextLevel(book, k) = "visible"
           /\ k \notin Shown(book) /\ level[k] = "unseen" => NextLevel(book, k) = "unseen"
           /\ k \notin Shown(book) /\ level[k] # "unseen" =>
                NextLevel(book, k) = IF InsideDeepBoundary(book, k) THEN "zero" ELSE "lost"
BY DEF NextLevel

-----------------------------------------------------------------------------
(* The inductive invariant.                                                *)

LEMMA InitBInv == BookInit => BInv
<1> SUFFICES ASSUME BookInit
             PROVE  BInv
  OBVIOUS
<1>1. EmptyBook \in Books /\ \A k \in Keys : EmptyBook[k] = 0
  <2>1. EmptyBook \in [Keys -> 0..MaxQuantity] /\ \A k \in Keys : EmptyBook[k] = 0
    BY BookAssumption DEF EmptyBook
  <2>2. \A p, q \in Prices : <<"bid", p>> \in Keys /\ <<"ask", q>> \in Keys
    BY DEF Keys, Sides
  <2> QED
    BY <2>1, <2>2 DEF Books
<1>2. Shown(EmptyBook) = {}
  BY <1>1 DEF Shown
<1>3. BookTypeOK
  <2>1. quantities \in [Keys -> 0..MaxQuantity \cup {Missing}]
    BY DEF BookInit
  <2>2. \A k \in Keys : quantities[k] = Missing
    BY DEF BookInit
  <2>3. /\ level \in [Keys -> {"unseen", "visible", "zero", "lost"}]
        /\ epoch \in [Keys -> Nat]
        /\ snapshots \in 0..MaxSnapshots
    BY BookAssumption DEF BookInit
  <2>4. market \in Books /\ replay \in [Keys -> 0..MaxQuantity]
    BY <1>1 DEF BookInit, Books
  <2> QED
    BY <2>1, <2>2, <2>3, <2>4 DEF BookInit, BookTypeOK
<1>4. Known
  BY <1>1, <1>2 DEF BookInit, Known, VisibleKnown, ZeroKnown, UnseenKnown, LostKnown
<1>5. EligibleKnown
  BY DEF BookInit, EligibleKnown
<1> QED
  BY <1>3, <1>4, <1>5 DEF BInv

\* What a snapshot does to one level.
LEMMA LevelStep ==
    ASSUME BInv, NEW book \in Books, Snapshot(book), NEW k \in Keys
    PROVE  /\ level'[k] = NextLevel(book, k)
           /\ epoch'[k] = IF Reestablished(book, k) THEN epoch[k] + 1 ELSE epoch[k]
           /\ quantities'[k] = NextQuantity(book, k)
           /\ replay'[k] = IF Withdraws(book, k) THEN 0
                           ELSE IF Upserts(book, k) THEN book[k] ELSE replay[k]
           /\ BecomesLost(book, k) => k \in lost'
           /\ market' = book /\ lost \subseteq lost'
BY DEF Snapshot

\* A level that the snapshot shows: the replay has its quantity.
LEMMA ShownStep ==
    ASSUME BInv, NEW book \in Books, Snapshot(book), NEW k \in Shown(book)
    PROVE  /\ level'[k] = "visible"
           /\ quantities'[k] = book[k] /\ replay'[k] = book[k]
           /\ Reestablished(book, k) <=> level[k] \in {"zero", "lost"}
<1>1. k \in Keys /\ book[k] \in 1..MaxQuantity
  BY ShownIsInside
<1>2. NextLevel(book, k) = "visible"
  BY NextLevelCases
<1>3. ~Withdraws(book, k) /\ ~BecomesLost(book, k)
  BY <1>2 DEF Withdraws, BecomesLost
<1>4. Reestablished(book, k) <=> level[k] \in {"zero", "lost"}
  BY <1>2 DEF Reestablished
<1>5. CASE Upserts(book, k)
  BY <1>1, <1>2, <1>3, <1>4, <1>5, LevelStep DEF NextQuantity
<1>6. CASE ~Upserts(book, k)
  <2>1. quantities[k] = book[k]
    BY <1>6 DEF Upserts
  <2>2. level[k] = "visible"
    <3>1. level[k] \in {"unseen", "visible", "zero", "lost"}
      BY <1>1 DEF BInv, BookTypeOK
    <3>2. quantities[k] \in 1..MaxQuantity
      BY <1>1, <2>1
    <3> QED
      BY <1>1, <3>1, <3>2, BookAssumption
         DEF BInv, Known, ZeroKnown, UnseenKnown, LostKnown, Missing
  <2>3. replay[k] = book[k]
    BY <1>1, <2>1, <2>2 DEF BInv, Known, VisibleKnown
  <2> QED
    BY <1>1, <1>2, <1>3, <1>4, <1>6, <2>1, <2>3, LevelStep DEF NextQuantity
<1> QED
  BY <1>5, <1>6

\* A level that the tracker knows, hidden inside the range: it is empty, and
\* the replay is told so at the latest now.
LEMMA EmptiedStep ==
    ASSUME BInv, NEW book \in Books, Snapshot(book), NEW k \in Keys,
           k \notin Shown(book), InsideDeepBoundary(book, k), level[k] # "unseen"
    PROVE  /\ level'[k] = "zero"
           /\ quantities'[k] \in {0, Missing} /\ replay'[k] = 0
           /\ Reestablished(book, k) <=> level[k] = "lost"
<1>1. NextLevel(book, k) = "zero"
  BY NextLevelCases
<1>2. book[k] = 0
  BY HiddenInsideIsEmpty
<1>3. ~BecomesLost(book, k) /\ (Reestablished(book, k) <=> level[k] = "lost")
  BY <1>1 DEF BecomesLost, Reestablished
<1>4. level[k] \in {"visible", "zero", "lost"} /\ quantities[k] \in 0..MaxQuantity \cup {Missing}
  BY DEF BInv, BookTypeOK
<1>5. CASE level[k] = "visible"
  <2>1. quantities[k] = market[k] /\ k \in Shown(market) /\ market \in Books
    BY <1>5 DEF BInv, BookTypeOK, Known, VisibleKnown
  <2>2. quantities[k] # Missing
    BY <2>1, ShownIsInside, BookAssumption DEF Missing
  <2>3. Withdraws(book, k)
    BY <1>1, <1>5, <2>2 DEF Withdraws
  <2> QED
    BY <1>1, <1>3, <2>3, LevelStep DEF NextQuantity
<1>6. CASE level[k] = "zero"
  <2>1. ~Withdraws(book, k) /\ ~Upserts(book, k)
    BY <1>3, <1>6 DEF Withdraws, Upserts
  <2>2. quantities[k] \in {0, Missing} /\ replay[k] = 0
    BY <1>6 DEF BInv, Known, ZeroKnown
  <2> QED
    BY <1>1, <1>3, <2>1, <2>2, LevelStep DEF NextQuantity
<1>7. CASE level[k] = "lost"
  <2>1. ~Withdraws(book, k)
    BY <1>7 DEF Withdraws
  <2>2. quantities[k] = Missing
    BY <1>7 DEF BInv, Known, LostKnown
  <2>3. Upserts(book, k)
    BY <1>2, <1>3, <1>7, <2>2 DEF Upserts, Missing
  <2> QED
    BY <1>1, <1>2, <1>3, <2>1, <2>3, LevelStep DEF NextQuantity
<1> QED
  BY <1>4, <1>5, <1>6, <1>7

\* A level that the tracker knows, behind the range: it is lost, and the replay
\* keeps what it had.
LEMMA LostStep ==
    ASSUME BInv, NEW book \in Books, Snapshot(book), NEW k \in Keys,
           ~InsideDeepBoundary(book, k), level[k] # "unseen"
    PROVE  /\ level'[k] = "lost" /\ k \in lost'
           /\ quantities'[k] = Missing /\ replay'[k] = replay[k]
           /\ ~Reestablished(book, k)
<1>1. k \notin Shown(book)
  BY ShownIsInside
<1>2. NextLevel(book, k) = "lost"
  BY <1>1, NextLevelCases
<1>3. ~Withdraws(book, k) /\ ~Reestablished(book, k)
  BY <1>2 DEF Withdraws, Reestablished
<1>4. ~Upserts(book, k)
  BY <1>1, <1>3 DEF Upserts
<1>5. CASE level[k] = "lost"
  BY <1>2, <1>3, <1>4, <1>5, LevelStep
     DEF NextQuantity, BecomesLost, BInv, Known, LostKnown
<1>6. CASE level[k] # "lost"
  BY <1>2, <1>3, <1>4, <1>6, LevelStep DEF NextQuantity, BecomesLost
<1> QED
  BY <1>5, <1>6

\* A level the tracker has not met stays out of everything.
LEMMA UnseenStep ==
    ASSUME BInv, NEW book \in Books, Snapshot(book), NEW k \in Keys,
           k \notin Shown(book), level[k] = "unseen"
    PROVE  /\ level'[k] = "unseen" /\ epoch'[k] = epoch[k] /\ epoch[k] = 0
           /\ quantities'[k] = Missing /\ replay'[k] = 0
           /\ ~Reestablished(book, k)
<1>1. NextLevel(book, k) = "unseen"
  BY NextLevelCases
<1>2. ~Withdraws(book, k) /\ ~Reestablished(book, k) /\ ~BecomesLost(book, k)
  BY <1>1 DEF Withdraws, Reestablished, BecomesLost
<1>3. ~Upserts(book, k)
  BY <1>2 DEF Upserts
<1> QED
  BY <1>1, <1>2, <1>3, LevelStep DEF NextQuantity, BInv, Known, UnseenKnown

LEMMA SnapshotKeepsBInv ==
    ASSUME BInv, NEW book \in Books, Snapshot(book)
    PROVE  BInv'
<1>1. market' = book /\ BookTypeOK
  BY DEF Snapshot, BInv
<1>2. ASSUME NEW k \in Keys
      PROVE  /\ (VisibleKnown(k) /\ ZeroKnown(k) /\ UnseenKnown(k) /\ LostKnown(k))'
             /\ level'[k] \in {"unseen", "visible", "zero", "lost"}
             /\ quantities'[k] \in 0..MaxQuantity \cup {Missing}
             /\ quantities'[k] # Missing => level'[k] \in {"visible", "zero"}
             /\ replay'[k] \in 0..MaxQuantity
             /\ level[k] # "unseen" => level'[k] # "unseen"
             /\ k \in Shown(book) => level'[k] # "unseen"
  <2>1. CASE k \in Shown(book)
    BY <1>1, <2>1, ShownStep, ShownIsInside
       DEF VisibleKnown, ZeroKnown, UnseenKnown, LostKnown
  <2>2. CASE k \notin Shown(book) /\ level[k] = "unseen"
    BY <1>1, <2>2, UnseenStep, BookAssumption
       DEF VisibleKnown, ZeroKnown, UnseenKnown, LostKnown
  <2>3. CASE k \notin Shown(book) /\ level[k] # "unseen" /\ InsideDeepBoundary(book, k)
    BY <1>1, <2>3, EmptiedStep, BookAssumption
       DEF VisibleKnown, ZeroKnown, UnseenKnown, LostKnown
  <2>4. CASE k \notin Shown(book) /\ level[k] # "unseen" /\ ~InsideDeepBoundary(book, k)
    <3>1. replay[k] \in 0..MaxQuantity
      BY <1>1 DEF BookTypeOK
    <3> QED
      BY <1>1, <2>4, <3>1, LostStep
         DEF VisibleKnown, ZeroKnown, UnseenKnown, LostKnown
  <2> QED
    BY <2>1, <2>2, <2>3, <2>4
<1>3. Known'
  BY <1>2 DEF Known
<1>4. eligible' \in {eligible, Shown(book)} /\ eligible \subseteq Keys /\ Shown(book) \subseteq Keys
  BY <1>1 DEF Snapshot, BookTypeOK, Shown
<1>5. EligibleKnown'
  BY <1>2, <1>4 DEF BInv, EligibleKnown
<1>6. BookTypeOK'
  <2>1. market' \in Books
    BY <1>1
  <2>2. level' \in [Keys -> {"unseen", "visible", "zero", "lost"}]
    <3>1. level' = [k \in Keys |-> level'[k]]
      BY DEF Snapshot
    <3> QED
      BY <1>2, <3>1
  <2>3. epoch' \in [Keys -> Nat]
    BY <1>1 DEF Snapshot, BookTypeOK
  <2>4. quantities' \in [Keys -> 0..MaxQuantity \cup {Missing}]
    <3>1. quantities' = [k \in Keys |-> quantities'[k]]
      BY DEF Snapshot
    <3> QED
      BY <1>2, <3>1
  <2>5. replay' \in [Keys -> 0..MaxQuantity]
    <3>1. replay' = [k \in Keys |-> replay'[k]]
      BY DEF Snapshot
    <3> QED
      BY <1>2, <3>1
  <2>6. eligible' \subseteq Keys
    BY <1>4
  <2>7. lost' \subseteq Keys
    BY <1>1 DEF Snapshot, BookTypeOK
  <2>8. snapshots' \in 0..MaxSnapshots
    BY <1>1, BookAssumption DEF Snapshot, BookTypeOK
  <2> QED
    BY <1>2, <2>1, <2>2, <2>3, <2>4, <2>5, <2>6, <2>7, <2>8 DEF BookTypeOK
<1> QED
  BY <1>3, <1>5, <1>6 DEF BInv

LEMMA StutterKeepsBInv ==
    ASSUME BInv, UNCHANGED bookVars
    PROVE  BInv'
<1> USE DEF bookVars
<1>1. BookTypeOK'
  BY DEF BInv, BookTypeOK
<1>2. Known'
  BY DEF BInv, Known, VisibleKnown, ZeroKnown, UnseenKnown, LostKnown, Shown,
         InsideDeepBoundary, Better
<1>3. EligibleKnown'
  BY DEF BInv, EligibleKnown
<1> QED
  BY <1>1, <1>2, <1>3 DEF BInv

LEMMA BInvariance == BookSpec => []BInv
<1>1. BInv /\ [BookNext]_bookVars => BInv'
  BY SnapshotKeepsBInv, StutterKeepsBInv DEF BookNext
<1> QED
  BY <1>1, InitBInv, PTL DEF BookSpec

-----------------------------------------------------------------------------
(* What follows from it.                                                   *)

\* The tracker, the conversion and the replayed book keep their types; the
\* conversion remembers quantities of levels that the tracker knows only
\* (research/hftbacktest_adapter.py:287-318).
THEOREM TypeCorrect == BookSpec => []BookTypeOK
BY BInvariance, PTL DEF BInv

\* A snapshot of any depth puts the replayed book right wherever it can see,
\* whatever was lost, emptied and shown again before.
THEOREM InsideIsTrueHolds == BookSpec => []InsideIsTrue
<1>1. BInv => InsideIsTrue
  <2> SUFFICES ASSUME BInv, NEW k \in Keys, InsideDeepBoundary(market, k)
               PROVE  replay[k] = market[k]
    BY DEF InsideIsTrue
  <2>1. level[k] \in {"unseen", "visible", "zero", "lost"} /\ market \in Books
    BY DEF BInv, BookTypeOK
  <2>2. k \notin Shown(market) => market[k] = 0
    BY <2>1, HiddenInsideIsEmpty
  <2> QED
    BY <2>1, <2>2 DEF BInv, Known, VisibleKnown, ZeroKnown, UnseenKnown, LostKnown
<1> QED
  BY <1>1, BInvariance, PTL

\* The price of an order that stood in the first book is replayed with the
\* market's quantity until a loss is reported there
\* (research/replay_attribution.py:300-326).
THEOREM TrustedOrderPricesHold == BookSpec => []TrustedOrderPrices
<1>1. BInv => TrustedOrderPrices
  <2> SUFFICES ASSUME BInv, NEW k \in eligible \ lost
               PROVE  replay[k] = market[k]
    BY DEF TrustedOrderPrices
  <2>1. k \in Keys /\ market \in Books
    BY DEF BInv, BookTypeOK
  <2>2. level[k] \in {"visible", "zero"}
    BY <2>1 DEF BInv, BookTypeOK, EligibleKnown, Known, LostKnown
  <2>3. k \notin Shown(market) /\ InsideDeepBoundary(market, k) => market[k] = 0
    BY <2>1, HiddenInsideIsEmpty
  <2> QED
    BY <2>1, <2>2, <2>3 DEF BInv, Known, VisibleKnown, ZeroKnown
<1> QED
  BY <1>1, BInvariance, PTL

\* A bid that the replay shows is no better than the best bid of the market
\* when the market's bids are seen, and so for asks.
LEMMA ReplayBehindMarket ==
    ASSUME BInv, NEW k \in Keys, replay[k] > 0,
           NEW j \in Shown(market), j[1] = k[1]
    PROVE  \E i \in Keys : i[1] = k[1] /\ market[i] > 0 /\ AtLeast(i, k)
<1>1. j \in Keys /\ market[j] > 0 /\ market \in Books
  BY DEF Shown, BInv, BookTypeOK
<1>2. CASE InsideDeepBoundary(market, k)
  <2>1. level[k] \in {"unseen", "visible", "zero", "lost"}
    BY DEF BInv, BookTypeOK
  <2>2. level[k] = "visible"
    BY <1>2, <2>1 DEF BInv, Known, ZeroKnown, UnseenKnown, LostKnown
  <2>3. market[k] > 0
    BY <2>2 DEF BInv, Known, VisibleKnown
  <2> QED
    BY <2>3, AtLeastOrder
<1>3. CASE ~InsideDeepBoundary(market, k)
  <2>1. ~AtLeast(k, j)
    BY <1>3 DEF InsideDeepBoundary
  <2>2. j[2] \in Int /\ k[2] \in Int
    BY <1>1 DEF Keys, Prices
  <2>3. AtLeast(j, k)
    BY <2>1, <2>2 DEF AtLeast
  <2> QED
    BY <1>1, <2>3
<1> QED
  BY <1>2, <1>3

\* What was lost and stays in the replayed book does not cross it while both
\* sides of the market are seen.
THEOREM ReplayUncrossedHolds == BookSpec => []ReplayUncrossed
<1>1. BInv => ReplayUncrossed
  <2> SUFFICES ASSUME BInv, \A s \in Sides : \E k \in Shown(market) : k[1] = s,
                      NEW p \in Prices, NEW q \in Prices,
                      replay[<<"bid", p>>] > 0, replay[<<"ask", q>>] > 0
               PROVE  p < q
    BY DEF ReplayUncrossed
  <2>1. <<"bid", p>> \in Keys /\ <<"ask", q>> \in Keys
    BY DEF Keys, Sides
  <2>2. PICK i \in Keys : i[1] = "bid" /\ market[i] > 0 /\ AtLeast(i, <<"bid", p>>)
    BY <2>1, ReplayBehindMarket DEF Sides
  <2>3. PICK j \in Keys : j[1] = "ask" /\ market[j] > 0 /\ AtLeast(j, <<"ask", q>>)
    BY <2>1, ReplayBehindMarket DEF Sides
  <2>4. i = <<"bid", i[2]>> /\ j = <<"ask", j[2]>> /\ i[2] \in Prices /\ j[2] \in Prices
    BY <2>2, <2>3 DEF Keys
  <2>5. i[2] < j[2]
    BY <2>2, <2>3, <2>4 DEF BInv, BookTypeOK, Books
  <2>6. p <= i[2] /\ j[2] <= q
    BY <2>2, <2>3 DEF AtLeast
  <2> QED
    BY <2>4, <2>5, <2>6 DEF Prices
<1> QED
  BY <1>1, BInvariance, PTL

\* A row changes the replayed book only to what the market has, at a price that
\* the snapshot covers: neither depth nor a cancellation is invented.
THEOREM NoInventedDepthHolds == BookSpec => NoInventedDepth
<1> DEFINE Change == \A k \in Keys : replay'[k] # replay[k] =>
                        InsideDeepBoundary(market', k) /\ replay'[k] = market'[k]
<1>1. ASSUME BInv, NEW book \in Books, Snapshot(book)
      PROVE  Change
  <2> SUFFICES ASSUME NEW k \in Keys, replay'[k] # replay[k]
               PROVE  InsideDeepBoundary(market', k) /\ replay'[k] = market'[k]
    OBVIOUS
  <2>1. market' = book
    BY <1>1 DEF Snapshot
  <2>2. CASE k \in Shown(book)
    BY <1>1, <2>1, <2>2, ShownStep, ShownIsInside
  <2>3. CASE k \notin Shown(book) /\ level[k] = "unseen"
    BY <1>1, <2>3, UnseenStep DEF BInv, Known, UnseenKnown
  <2>4. CASE k \notin Shown(book) /\ level[k] # "unseen" /\ InsideDeepBoundary(book, k)
    BY <1>1, <2>1, <2>4, EmptiedStep, HiddenInsideIsEmpty
  <2>5. CASE k \notin Shown(book) /\ level[k] # "unseen" /\ ~InsideDeepBoundary(book, k)
    BY <1>1, <2>5, LostStep
  <2> QED
    BY <2>2, <2>3, <2>4, <2>5
<1>2. BInv /\ [BookNext]_bookVars => [Change]_bookVars
  BY <1>1 DEF BookNext
<1> QED
  BY <1>2, BInvariance, PTL DEF BookSpec, NoInventedDepth

-----------------------------------------------------------------------------
(* The abstract queue epochs.                                              *)

PresentKeys == {k \in Keys : level[k] = "visible"}
QueueEpoch == [k \in Keys |-> IF level[k] = "unseen" THEN -1 ELSE epoch[k]]

\* What a snapshot does to the presence and the epoch of one level.
LEMMA EpochStep ==
    ASSUME BInv, NEW book \in Books, Snapshot(book), NEW k \in Keys
    PROVE  Queues!Remains(k) \/ Queues!IsAbsent(k) \/ Queues!Leaves(k) \/ Queues!Returns(k)
<1> DEFINE here == k \in PresentKeys
           at == QueueEpoch[k]
<1>1. /\ here <=> level[k] = "visible"
      /\ here' <=> level'[k] = "visible"
      /\ at = IF level[k] = "unseen" THEN -1 ELSE epoch[k]
      /\ at' = IF level'[k] = "unseen" THEN -1 ELSE epoch'[k]
  BY DEF PresentKeys, QueueEpoch
<1>2. /\ level[k] \in {"unseen", "visible", "zero", "lost"} /\ epoch[k] \in Nat
      /\ level[k] = "unseen" => epoch[k] = 0
  BY DEF BInv, BookTypeOK, Known, UnseenKnown
<1>3. epoch'[k] = IF Reestablished(book, k) THEN epoch[k] + 1 ELSE epoch[k]
  BY LevelStep
<1> HIDE DEF here, at
<1>4. \/ here /\ here' /\ at' = at
      \/ ~here /\ ~here' /\ (at' = at \/ (at >= 0 /\ at' = at + 1))
      \/ here /\ ~here' /\ at' = at
      \/ ~here /\ here' /\ at' = at + 1
  <2>1. CASE k \in Shown(book)
    BY <1>1, <1>2, <1>3, <2>1, ShownStep
  <2>2. CASE k \notin Shown(book) /\ level[k] = "unseen"
    BY <1>1, <1>2, <2>2, UnseenStep
  <2>3. CASE k \notin Shown(book) /\ level[k] # "unseen" /\ InsideDeepBoundary(book, k)
    BY <1>1, <1>2, <1>3, <2>3, EmptiedStep
  <2>4. CASE k \notin Shown(book) /\ level[k] # "unseen" /\ ~InsideDeepBoundary(book, k)
    BY <1>1, <1>2, <1>3, <2>4, LostStep
  <2> QED
    BY <2>1, <2>2, <2>3, <2>4
<1> QED
  BY <1>4 DEF here, at, PresentKeys, QueueEpoch,
              Queues!Remains, Queues!IsAbsent, Queues!Leaves, Queues!Returns

\* A snapshot that brings a level back, from a confirmed zero or from a loss,
\* gives it an epoch it never had: no queue is carried over an interruption
\* (datasets/canonical.py:235-298).
THEOREM LevelsImplementQueueEpochs == BookSpec => ImplementsQueueEpochs
<1>1. BookInit => Queues!Init
  BY DEF BookInit, Queues!Init
<1>2. BInv /\ [BookNext]_bookVars => [Queues!Observe]_<<PresentKeys, QueueEpoch>>
  <2>1. CASE UNCHANGED bookVars
    BY <2>1 DEF bookVars, PresentKeys, QueueEpoch
  <2>2. ASSUME BInv, NEW book \in Books, Snapshot(book)
        PROVE  Queues!Observe
    BY <2>2, EpochStep DEF Queues!Observe
  <2> QED
    BY <2>1, <2>2 DEF BookNext
<1> QED
  BY <1>1, <1>2, BInvariance, PTL
     DEF BookSpec, ImplementsQueueEpochs, Queues!Spec, PresentKeys, QueueEpoch

-----------------------------------------------------------------------------
(* The candidate.  It is what a loop over the events leaves, so that it is *)
(* reasoned about turn by turn: what is recorded later changes no turn,    *)
(* and after every turn the observations stand for the frames that were    *)
(* due at their books.                                                     *)

\* The recording is in the order of time, and no sample is published twice.
Recording ==
    /\ DOMAIN feed = 1..Len(feed) /\ Len(feed) \in Nat /\ feed \in Seq(Events)
    /\ \A i, j \in DOMAIN feed : i <= j => feed[i].time <= feed[j].time
    /\ frames \in Seq(Frame)
    /\ \A i, j \in DOMAIN frames : i < j => frames[i].asOf < frames[j].asOf
    /\ \A i, j \in DOMAIN frames : i # j => frames[i].samples \cap frames[j].samples = {}

\* What was decided, of the events that were given.
Decided ==
    result # NoResult =>
        /\ result.candidate.at \in Nat
        /\ result.given \in Nat /\ result.given <= Len(feed)

IInv == Recording /\ Decided /\ FutureIsSilent /\ WindowKeepsTheAudit

-----------------------------------------------------------------------------
(* Numbers, events and frames.                                             *)

\* A bounded set of numbers has its largest among them.
LEMMA LargestIsMember ==
    ASSUME NEW S \in SUBSET Nat, S # {}, NEW n \in Nat, \A s \in S : s <= n
    PROVE  Max(S) \in S /\ \A s \in S : s <= Max(S)
<1> DEFINE Bounds == {m \in Nat : \A s \in S : s <= m}
<1>1. PICK m \in Bounds : \A i \in Bounds : ~(<<i, m>> \in OpToRel(<, Nat))
  <2>1. Bounds \subseteq Nat /\ Bounds # {}
    OBVIOUS
  <2> HIDE DEF Bounds
  <2> QED
    BY <2>1, NatLessThanWellFounded, WFMin
<1>2. \A i \in Bounds : ~(i < m)
  BY <1>1 DEF OpToRel
<1>3. m \in S
  <2> SUFFICES ASSUME m \notin S PROVE FALSE
    OBVIOUS
  <2>1. PICK s \in S : TRUE
    OBVIOUS
  <2>2. m - 1 \in Nat /\ \A t \in S : t <= m - 1
    BY <2>1
  <2> QED
    BY <1>2, <2>2
<1> QED
  BY <1>3 DEF Max

\* A set of numbers with zero and every successor has them all.
LEMMA EveryNumber ==
    ASSUME NEW T, 0 \in T, \A n \in Nat : n \in T => n + 1 \in T
    PROVE  \A n \in Nat : n \in T
<1> SUFFICES ASSUME Nat \ T # {} PROVE FALSE
  OBVIOUS
<1>1. PICK n \in Nat \ T : \A i \in Nat \ T : ~(<<i, n>> \in OpToRel(<, Nat))
  BY NatLessThanWellFounded, WFMin
<1>2. \A i \in Nat \ T : ~(i < n)
  BY <1>1 DEF OpToRel
<1>3. n # 0 /\ n - 1 \in Nat /\ n - 1 \in T
  BY <1>2
<1> QED
  BY <1>3

\* A set of the first numbers that has with a number every smaller one is an interval.
LEMMA FirstNumbers ==
    ASSUME NEW n \in Nat, NEW S \in SUBSET (1..n),
           \A i \in S, j \in 1..n : j <= i => j \in S
    PROVE  Cardinality(S) \in 0..n /\ S = 1..Cardinality(S)
<1>1. CASE S = {}
  BY <1>1, FS_EmptySet
<1>2. CASE S # {}
  <2> DEFINE m == Max(S)
  <2>1. S \in SUBSET Nat /\ \A s \in S : s <= n
    OBVIOUS
  <2>2. m \in S /\ \A s \in S : s <= m
    BY <1>2, <2>1, LargestIsMember
  <2> HIDE DEF m
  <2>3. m \in 1..n
    BY <2>2
  <2>4. S = 1..m
    <3>1. ASSUME NEW j \in S PROVE j \in 1..m
      BY <2>2, <2>3
    <3>2. ASSUME NEW j \in 1..m PROVE j \in S
      <4>1. j \in 1..n /\ j <= m
        BY <2>3
      <4> QED
        BY <2>2, <4>1
    <3> QED
      BY <3>1, <3>2
  <2>5. Cardinality(1..m) = m
    BY <2>3, FS_Interval
  <2> QED
    BY <2>3, <2>4, <2>5
<1> QED
  BY <1>1, <1>2

\* Frames are consumed in their order: those due at a book are the first ones.
LEMMA DueSays ==
    ASSUME NEW evidence \in Seq(Frame), NEW at \in Nat, NEW time \in Nat,
           \A i, j \in DOMAIN evidence : i < j => evidence[i].asOf < evidence[j].asOf
    PROVE  /\ Due(evidence, at, time) \in 0..Len(evidence)
           /\ \A k \in DOMAIN evidence :
                k <= Due(evidence, at, time) <=> evidence[k].asOf <= at /\ evidence[k].asOf <= time
<1> DEFINE S == {i \in DOMAIN evidence : evidence[i].asOf <= at /\ evidence[i].asOf <= time}
           n == Len(evidence)
<1>1. n \in Nat /\ DOMAIN evidence = 1..n /\ S \in SUBSET (1..n)
  OBVIOUS
<1>2. \A i \in 1..n : evidence[i].asOf \in Int
  <2> SUFFICES ASSUME NEW i \in 1..n PROVE evidence[i].asOf \in Int
    OBVIOUS
  <2>1. evidence[i] \in Frame
    BY <1>1
  <2> QED
    BY <2>1, AuditAssumption DEF Frame
<1>3. \A i \in S, j \in 1..n : j <= i => j \in S
  <2> SUFFICES ASSUME NEW i \in S, NEW j \in 1..n, j < i PROVE j \in S
    OBVIOUS
  <2>1. evidence[j].asOf < evidence[i].asOf
    BY <1>1
  <2> QED
    BY <1>1, <1>2, <2>1
<1>4. Due(evidence, at, time) = Cardinality(S)
  BY DEF Due
<1> HIDE DEF S, n
<1>5. Cardinality(S) \in 0..n /\ S = 1..Cardinality(S)
  BY <1>1, <1>3, FirstNumbers
<1>6. \A k \in DOMAIN evidence : k \in S <=> evidence[k].asOf <= at /\ evidence[k].asOf <= time
  BY DEF S
<1> QED
  BY <1>1, <1>4, <1>5, <1>6 DEF n

\* Any function on the first numbers is a sequence, to which a value can be added.
IsList(q) == Len(q) \in Nat /\ q = [i \in 1..Len(q) |-> q[i]]

LEMMA AppendedToList ==
    ASSUME NEW q, IsList(q), NEW e
    PROVE  /\ IsList(Append(q, e)) /\ Len(Append(q, e)) = Len(q) + 1
           /\ Append(q, e)[Len(q) + 1] = e
           /\ \A i \in 1..Len(q) : Append(q, e)[i] = q[i]
<1> DEFINE S == {q[i] : i \in 1..Len(q)} \cup {e}
<1>1. q \in Seq(S) /\ e \in S
  BY DEF IsList
<1> HIDE DEF S
<1>2. /\ Len(Append(q, e)) = Len(q) + 1
      /\ Append(q, e)[Len(q) + 1] = e
      /\ \A i \in 1..Len(q) : Append(q, e)[i] = q[i]
  BY <1>1
<1>3. Append(q, e) \in Seq(S)
  BY <1>1
<1>4. \A t \in Seq(S) : IsList(t)
  BY DEF IsList
<1> QED
  BY <1>2, <1>3, <1>4

-----------------------------------------------------------------------------
(* The loop of the derivation.                                             *)

StateBy(state, events, evidence, at, i) ==
    IF i = 0 THEN Fresh ELSE After(events, evidence, at, state[i - 1], i)

Loop(state, events, evidence, at) ==
    state = [i \in 0..Len(events) |-> StateBy(state, events, evidence, at, i)]

LEMMA ProgressIsChosen ==
    ASSUME NEW events, NEW evidence, NEW at
    PROVE  Progress(events, evidence, at) = CHOOSE state : Loop(state, events, evidence, at)
BY DEF Progress, Loop, StateBy

LEMMA ProgressEquations ==
    ASSUME NEW events, Len(events) \in Nat, NEW evidence, NEW at
    PROVE  /\ Progress(events, evidence, at)[0] = Fresh
           /\ \A i \in 1..Len(events) :
                Progress(events, evidence, at)[i]
                    = After(events, evidence, at, Progress(events, evidence, at)[i - 1], i)
<1> DEFINE By(t, k) == StateBy(t, events, evidence, at, k)
           Upto(t, n) == t = [k \in 0..n |-> By(t, k)]
           T == {n \in Nat : \E t : Upto(t, n)}
<1>1. 0 \in T
  <2> DEFINE t == [k \in 0..0 |-> Fresh]
  <2>1. \A k \in 0..0 : k = 0
    OBVIOUS
  <2>2. Upto(t, 0)
    BY <2>1 DEF StateBy
  <2> QED
    BY <2>2
<1>2. ASSUME NEW n \in Nat, n \in T PROVE n + 1 \in T
  <2>1. PICK t : Upto(t, n)
    BY <1>2
  <2> DEFINE u == [k \in 0..(n + 1) |-> By(t, k)]
  <2>2. ASSUME NEW k \in 0..(n + 1), k # 0 PROVE u[k - 1] = t[k - 1]
    <3>1. k - 1 \in 0..n /\ k - 1 \in 0..(n + 1)
      BY <2>2
    <3> DEFINE j == k - 1
    <3> HIDE DEF j
    <3>2. j \in 0..n /\ j \in 0..(n + 1)
      BY <3>1 DEF j
    <3>3. u[j] = t[j]
      <4> HIDE DEF By
      <4> QED
        BY <2>1, <3>2
    <3> QED
      BY <3>3 DEF j
  <2>3. ASSUME NEW k \in 0..(n + 1) PROVE By(t, k) = By(u, k)
    <3> HIDE DEF u
    <3> QED
      BY <2>2 DEF StateBy
  <2>4. Upto(u, n + 1)
    <3> HIDE DEF By
    <3>1. \A k \in 0..(n + 1) : By(t, k) = By(u, k)
      BY <2>3
    <3> QED
      BY <3>1
  <2> HIDE DEF u, Upto
  <2>5. \E v : Upto(v, n + 1)
    BY <2>4
  <2> QED
    BY <2>5
<1>3. Len(events) \in T
  <2> HIDE DEF T
  <2> QED
    BY <1>1, <1>2, EveryNumber
<1>4. \E t : Loop(t, events, evidence, at)
  BY <1>3 DEF Loop
<1> DEFINE t == Progress(events, evidence, at)
<1>5. Loop(t, events, evidence, at)
  BY <1>4, ProgressIsChosen
<1> HIDE DEF t
<1>6. \A k \in 0..Len(events) : t[k] = By(t, k)
  <2> HIDE DEF By
  <2> QED
    BY <1>5 DEF Loop, By
<1>7. t[0] = Fresh
  BY <1>6 DEF StateBy
<1>8. ASSUME NEW i \in 1..Len(events)
      PROVE  t[i] = After(events, evidence, at, t[i - 1], i)
  BY <1>6 DEF StateBy
<1> QED
  BY <1>7, <1>8 DEF t

\* What each state of the loop is.
IsState(s) ==
    /\ s = [raised |-> s.raised, rate |-> s.rate, consumed |-> s.consumed,
            observations |-> s.observations]
    /\ s.consumed \in Nat /\ IsList(s.observations)

\* A turn leaves the state, or replaces its rate, or adds an observation.
LEMMA AfterSays ==
    ASSUME NEW events, NEW evidence, NEW at, NEW i, NEW s, IsState(s)
    PROVE  LET t == After(events, evidence, at, s, i)
           IN  \/ IsState(t) /\ t.observations = s.observations /\ t.consumed = s.consumed
               \/ /\ events[i].what = "book" /\ ~(events[i].time > at)
                  /\ t = Observe(evidence, at, s, events[i])
<1> DEFINE e == events[i]
           t == After(events, evidence, at, s, i)
<1>1. CASE t = s
  BY <1>1
<1>2. CASE t = [s EXCEPT !.rate = e.rate]
  <2>1. /\ t.observations = s.observations /\ t.consumed = s.consumed
        /\ t = [raised |-> t.raised, rate |-> t.rate, consumed |-> t.consumed,
                observations |-> t.observations]
    BY <1>2 DEF IsState
  <2> QED
    BY <2>1 DEF IsState
<1>3. CASE e.what = "book" /\ ~(e.time > at) /\ t = Observe(evidence, at, s, e)
  BY <1>3
<1> QED
  BY <1>1, <1>2, <1>3 DEF After, Consume

\* What an observation leaves of the state.
LEMMA ObserveSays ==
    ASSUME NEW evidence, NEW at, NEW s, IsState(s), NEW book,
           Due(evidence, at, book.time) \in Nat
    PROVE  LET t == Observe(evidence, at, s, book)
               due == Due(evidence, at, book.time)
               n == Len(s.observations)
           IN  /\ IsState(t) /\ t.consumed = due
               /\ Len(t.observations) = n + 1
               /\ t.observations[n + 1].time = book.time
               /\ t.observations[n + 1].samples = Pending(evidence, s.consumed, due)
               /\ \A i \in 1..n : t.observations[i] = s.observations[i]
<1> DEFINE t == Observe(evidence, at, s, book)
           due == Due(evidence, at, book.time)
           n == Len(s.observations)
<1>1. PICK o : /\ t.observations = Append(s.observations, o)
               /\ o.time = book.time /\ o.samples = Pending(evidence, s.consumed, due)
  BY DEF Observe, Observation
<1>2. t = [raised |-> t.raised, rate |-> t.rate, consumed |-> t.consumed,
           observations |-> t.observations]
  BY DEF Observe
<1>3. t.consumed = due
  BY DEF Observe
<1> HIDE DEF t, due
<1>4. IsList(s.observations)
  BY DEF IsState
<1>5. /\ IsList(t.observations) /\ Len(t.observations) = n + 1
      /\ t.observations[n + 1] = o
      /\ \A i \in 1..n : t.observations[i] = s.observations[i]
  BY <1>1, <1>4, AppendedToList
<1>6. IsState(t)
  BY <1>2, <1>3, <1>5 DEF IsState, due
<1> QED
  BY <1>1, <1>3, <1>5, <1>6 DEF t, due

\* Frames that are in order make the states of the loop what they should be.
InOrder(evidence) ==
    /\ evidence \in Seq(Frame)
    /\ \A i, j \in DOMAIN evidence : i < j => evidence[i].asOf < evidence[j].asOf

\* A recording grows behind what there was.
Grows(old, new) ==
    /\ Len(old) \in Nat /\ Len(new) \in Nat /\ Len(old) <= Len(new)
    /\ DOMAIN old = 1..Len(old) /\ DOMAIN new = 1..Len(new)
    /\ \A i \in DOMAIN old : new[i] = old[i]

\* A frame that is later than the decision is never due.
LEMMA LaterFramesAreNotDue ==
    ASSUME NEW old, NEW new, Grows(old, new), NEW at, NEW time,
           \A k \in DOMAIN new : k > Len(old) => ~(new[k].asOf <= at)
    PROVE  Due(new, at, time) = Due(old, at, time)
<1>1. \A i \in DOMAIN new : i \in DOMAIN old \/ i > Len(old)
  BY DEF Grows
<1>2. {i \in DOMAIN new : new[i].asOf <= at /\ new[i].asOf <= time}
        = {i \in DOMAIN old : old[i].asOf <= at /\ old[i].asOf <= time}
  <2>1. DOMAIN old \subseteq DOMAIN new
    BY DEF Grows
  <2> QED
    BY <1>1, <2>1 DEF Grows
<1> QED
  BY <1>2 DEF Due

\* What happened to an identity before an event does not depend on later ones.
LEMMA RepeatedStays ==
    ASSUME NEW old, NEW new, Grows(old, new), NEW i \in DOMAIN old
    PROVE  IsRepeated(new, DOMAIN new, i) <=> IsRepeated(old, DOMAIN old, i)
<1>1. \A j \in DOMAIN new : j < i => j \in DOMAIN old
  BY DEF Grows
<1>2. DOMAIN old \subseteq DOMAIN new
  BY DEF Grows
<1>3. Earlier(new, DOMAIN new, i) = Earlier(old, DOMAIN old, i)
  BY <1>1, <1>2 DEF Earlier, Grows
<1> QED
  BY <1>3 DEF IsRepeated, Grows

\* What the loop finds at an event is the same when frames are added that are
\* later than the decision.
LEMMA ObserveStays ==
    ASSUME NEW old, NEW new, Grows(old, new), InOrder(old),
           NEW at \in Nat, \A k \in DOMAIN new : k > Len(old) => ~(new[k].asOf <= at),
           NEW s, IsState(s), NEW book, book.time \in Nat
    PROVE  Observe(new, at, s, book) = Observe(old, at, s, book)
<1> DEFINE due == Due(old, at, book.time)
<1>1. Due(new, at, book.time) = due
  BY LaterFramesAreNotDue
<1>2. due \in 0..Len(old)
  BY DueSays DEF InOrder
<1> HIDE DEF due
<1>3. \A k \in (s.consumed + 1)..due : new[k] = old[k]
  BY <1>2 DEF Grows, IsState
<1>4. Pending(new, s.consumed, due) = Pending(old, s.consumed, due)
  BY <1>3 DEF Pending
<1>5. due # 0 => new[due] = old[due]
  BY <1>2 DEF Grows
<1>6. (IF due = 0 THEN 0 ELSE new[due].asOf) = (IF due = 0 THEN 0 ELSE old[due].asOf)
  BY <1>5
<1> QED
  BY <1>1, <1>4, <1>6 DEF Observe, due

LEMMA StatesAreStates ==
    ASSUME NEW events, Len(events) \in Nat, NEW evidence, InOrder(evidence), NEW at \in Nat,
           \A i \in 1..Len(events) : events[i].time \in Nat
    PROVE  \A n \in 0..Len(events) : IsState(Progress(events, evidence, at)[n])
<1> DEFINE P == Progress(events, evidence, at)
           T == {n \in Nat : n <= Len(events) => IsState(P[n])}
<1>1. P[0] = Fresh /\ \A i \in 1..Len(events) : P[i] = After(events, evidence, at, P[i - 1], i)
  BY ProgressEquations
<1> HIDE DEF P
<1>2. 0 \in T
  <2>1. IsState(Fresh)
    BY DEF IsState, IsList, Fresh
  <2> QED
    BY <1>1, <2>1
<1>3. ASSUME NEW n \in Nat, n \in T PROVE n + 1 \in T
  <2> SUFFICES ASSUME n + 1 <= Len(events) PROVE IsState(P[n + 1])
    OBVIOUS
  <2>1. IsState(P[n]) /\ n + 1 \in 1..Len(events) /\ (n + 1) - 1 = n
    BY <1>3
  <2>2. P[n + 1] = After(events, evidence, at, P[n], n + 1)
    BY <1>1, <2>1
  <2>3. Due(evidence, at, events[n + 1].time) \in Nat
    <3>1. events[n + 1].time \in Nat
      BY <2>1
    <3>2. Due(evidence, at, events[n + 1].time) \in 0..Len(evidence)
      BY <3>1, DueSays DEF InOrder
    <3> QED
      BY <3>2
  <2> QED
    BY <2>1, <2>2, <2>3, AfterSays, ObserveSays
<1>4. \A n \in Nat : n \in T
  <2> HIDE DEF T
  <2> QED
    BY <1>2, <1>3, EveryNumber
<1> QED
  BY <1>4 DEF P

\* The candidate of a decision is the same when only later events and frames come.
LEMMA LaterIsSilent ==
    ASSUME NEW events, NEW moreEvents, Grows(events, moreEvents),
           NEW evidence, NEW moreEvidence, Grows(evidence, moreEvidence), InOrder(evidence),
           NEW at \in Nat,
           \A i \in DOMAIN events : events[i].time \in Nat,
           \A i \in DOMAIN moreEvents : i > Len(events) => moreEvents[i].time > at,
           \A k \in DOMAIN moreEvidence : k > Len(evidence) => ~(moreEvidence[k].asOf <= at)
    PROVE  Candidate(moreEvents, moreEvidence, at) = Candidate(events, evidence, at)
<1> DEFINE P == Progress(events, evidence, at)
           Q == Progress(moreEvents, moreEvidence, at)
           n == Len(events)
           T == {k \in Nat : k <= n => Q[k] = P[k]}
           U == {k \in Nat : n + k <= Len(moreEvents) => Q[n + k] = P[n]}
<1>1. /\ n \in Nat /\ Len(moreEvents) \in Nat /\ n <= Len(moreEvents)
      /\ DOMAIN events = 1..n /\ DOMAIN moreEvents = 1..Len(moreEvents)
  BY DEF Grows
<1>2. P[0] = Fresh /\ \A i \in 1..n : P[i] = After(events, evidence, at, P[i - 1], i)
  BY <1>1, ProgressEquations
<1>3. Q[0] = Fresh /\ \A i \in 1..Len(moreEvents) :
                        Q[i] = After(moreEvents, moreEvidence, at, Q[i - 1], i)
  BY <1>1, ProgressEquations
<1>4. \A k \in 0..n : IsState(P[k])
  BY <1>1, StatesAreStates
<1> HIDE DEF P, Q, n
<1>5. ASSUME NEW k \in Nat, k \in T PROVE k + 1 \in T
  <2> SUFFICES ASSUME k + 1 <= n PROVE Q[k + 1] = P[k + 1]
    OBVIOUS
  <2> DEFINE i == k + 1
  <2>1. i \in 1..n /\ i \in 1..Len(moreEvents) /\ i - 1 = k /\ k \in 0..n /\ Q[k] = P[k]
    BY <1>1, <1>5
  <2>2. moreEvents[i] = events[i] /\ events[i].time \in Nat
    BY <1>1, <2>1 DEF Grows
  <2>3. IsRepeated(moreEvents, DOMAIN moreEvents, i) <=> IsRepeated(events, DOMAIN events, i)
    BY <1>1, <2>1, RepeatedStays
  <2>4. IsState(P[k])
    BY <1>4, <2>1
  <2>5. Observe(moreEvidence, at, P[k], events[i]) = Observe(evidence, at, P[k], events[i])
    BY <2>2, <2>4, ObserveStays
  <2>6. P[i] = After(events, evidence, at, P[k], i)
    BY <1>2, <2>1
  <2>7. Q[i] = After(moreEvents, moreEvidence, at, P[k], i)
    BY <1>3, <2>1
  <2> HIDE DEF i
  <2>8. Consume(moreEvidence, at, P[k], events[i]) = Consume(evidence, at, P[k], events[i])
    BY <2>5 DEF Consume
  <2>9. Q[i] = P[i]
    BY <2>2, <2>3, <2>6, <2>7, <2>8 DEF After
  <2> QED
    BY <2>9 DEF i
<1>6. 0 \in T
  BY <1>2, <1>3
<1>7. n \in T
  <2> HIDE DEF T
  <2> QED
    BY <1>1, <1>5, <1>6, EveryNumber
<1>8. ASSUME NEW k \in Nat, k \in U PROVE k + 1 \in U
  <2> SUFFICES ASSUME n + (k + 1) <= Len(moreEvents) PROVE Q[n + (k + 1)] = P[n]
    OBVIOUS
  <2> DEFINE i == n + (k + 1)
  <2>1. i \in 1..Len(moreEvents) /\ i - 1 = n + k /\ Q[n + k] = P[n] /\ i > n
    BY <1>1, <1>8
  <2> HIDE DEF i
  <2>2. moreEvents[i].time > at
    BY <1>1, <2>1 DEF n
  <2>3. Q[i] = After(moreEvents, moreEvidence, at, P[n], i)
    BY <1>3, <2>1
  <2>4. Q[i] = P[n]
    BY <2>2, <2>3 DEF After
  <2> QED
    BY <2>4 DEF i
<1>9. 0 \in U
  BY <1>1, <1>7
<1>10. Len(moreEvents) - n \in U
  <2> HIDE DEF U
  <2>1. Len(moreEvents) - n \in Nat
    BY <1>1
  <2> QED
    BY <1>8, <1>9, <2>1, EveryNumber
<1>11. Q[Len(moreEvents)] = P[n]
  <2>1. n + (Len(moreEvents) - n) = Len(moreEvents) /\ Len(moreEvents) <= Len(moreEvents)
    BY <1>1
  <2> QED
    BY <1>10, <2>1
<1> QED
  BY <1>11 DEF Candidate, Derivation, P, Q, n

-----------------------------------------------------------------------------
(* The samples of the observations.                                        *)

\* How many frames the first i observations have consumed.
DueAt(observations, evidence, at, i) ==
    IF i = 0 THEN 0 ELSE Due(evidence, at, observations[i].time)

\* The observations are in the order of time, and each was given the samples of
\* the frames that became due since the one before.
Sound(s, evidence, at) ==
    LET q == s.observations
    IN  /\ \A i \in 1..Len(q) : q[i].time \in Nat
        /\ \A i, j \in 1..Len(q) : i <= j => q[i].time <= q[j].time
        /\ s.consumed = DueAt(q, evidence, at, Len(q))
        /\ \A i \in 1..Len(q) :
            q[i].samples = Pending(evidence, DueAt(q, evidence, at, i - 1), DueAt(q, evidence, at, i))

\* A book that is not earlier than the observations so far keeps this.
LEMMA ObserveIsSound ==
    ASSUME NEW evidence, InOrder(evidence), NEW at \in Nat,
           NEW s, IsState(s), Sound(s, evidence, at),
           NEW book, book.time \in Nat,
           \A i \in 1..Len(s.observations) : s.observations[i].time <= book.time
    PROVE  Sound(Observe(evidence, at, s, book), evidence, at)
<1> DEFINE t == Observe(evidence, at, s, book)
           q == s.observations
           r == t.observations
           n == Len(q)
           D(i) == DueAt(q, evidence, at, i)
           E(i) == DueAt(r, evidence, at, i)
<1>1. Due(evidence, at, book.time) \in Nat
  <2>1. Due(evidence, at, book.time) \in 0..Len(evidence)
    BY DueSays DEF InOrder
  <2> QED
    BY <2>1
<1>2. /\ t.consumed = Due(evidence, at, book.time) /\ Len(r) = n + 1
      /\ r[n + 1].time = book.time
      /\ r[n + 1].samples = Pending(evidence, s.consumed, Due(evidence, at, book.time))
      /\ \A i \in 1..n : r[i] = q[i]
  BY <1>1, ObserveSays
<1>3. n \in Nat
  BY DEF IsState, IsList
<1>4. /\ \A i \in 1..n : q[i].time \in Nat /\ q[i].time <= book.time
      /\ \A i, j \in 1..n : i <= j => q[i].time <= q[j].time
      /\ s.consumed = D(n)
      /\ \A i \in 1..n : q[i].samples = Pending(evidence, D(i - 1), D(i))
  BY DEF Sound
<1> HIDE DEF t, q, r, n
<1>5. \A i \in 0..n : E(i) = D(i)
  BY <1>2, <1>3 DEF DueAt
<1>6. E(n + 1) = Due(evidence, at, book.time)
  BY <1>2, <1>3 DEF DueAt
<1> HIDE DEF D, E
<1>7. ASSUME NEW i \in 1..(n + 1)
      PROVE  /\ r[i].time \in Nat
             /\ r[i].samples = Pending(evidence, E(i - 1), E(i))
  <2>1. CASE i \in 1..n
    <3>1. r[i] = q[i] /\ q[i].time \in Nat /\ q[i].samples = Pending(evidence, D(i - 1), D(i))
      BY <1>2, <1>4, <2>1
    <3>2. i - 1 \in 0..n /\ i \in 0..n
      BY <1>3, <2>1
    <3>3. E(i - 1) = D(i - 1) /\ E(i) = D(i)
      BY <1>5, <3>2
    <3> QED
      BY <3>1, <3>3
  <2>2. CASE i = n + 1
    <3>1. i - 1 = n /\ E(n) = D(n)
      BY <1>3, <1>5, <2>2
    <3> QED
      BY <1>2, <1>4, <1>6, <2>2, <3>1
  <2> QED
    BY <1>3, <2>1, <2>2
<1>8. ASSUME NEW i \in 1..(n + 1), NEW j \in 1..(n + 1), i <= j
      PROVE  r[i].time <= r[j].time
  <2>1. CASE j \in 1..n
    <3>1. i \in 1..n
      BY <1>3, <1>8, <2>1
    <3> QED
      BY <1>2, <1>4, <1>8, <2>1, <3>1
  <2>2. CASE j = n + 1 /\ i \in 1..n
    BY <1>2, <1>4, <2>2
  <2>3. CASE j = n + 1 /\ i = n + 1
    BY <1>2, <2>3
  <2> QED
    BY <1>3, <1>8, <2>1, <2>2, <2>3
<1>9. t.consumed = E(n + 1)
  BY <1>2, <1>6
<1> QED
  BY <1>2, <1>7, <1>8, <1>9 DEF Sound, E, r, t

\* The derivation from events in the order of time.
LEMMA DerivationIsSound ==
    ASSUME NEW events, Len(events) \in Nat, NEW evidence, InOrder(evidence), NEW at \in Nat,
           \A i \in 1..Len(events) : events[i].time \in Nat,
           \A i, j \in 1..Len(events) : i <= j => events[i].time <= events[j].time
    PROVE  IsState(Derivation(events, evidence, at)) /\ Sound(Derivation(events, evidence, at), evidence, at)
<1> DEFINE P == Progress(events, evidence, at)
           Past(n) == \A i \in 1..Len(P[n].observations), j \in 1..Len(events) :
                        n < j => P[n].observations[i].time <= events[j].time
           T == {n \in Nat : n <= Len(events) => Sound(P[n], evidence, at) /\ Past(n)}
<1>1. P[0] = Fresh /\ \A i \in 1..Len(events) : P[i] = After(events, evidence, at, P[i - 1], i)
  BY ProgressEquations
<1>2. \A n \in 0..Len(events) : IsState(P[n])
  BY StatesAreStates
<1> HIDE DEF P
<1>3. 0 \in T
  BY <1>1 DEF Fresh, Sound, DueAt
<1>4. ASSUME NEW n \in Nat, n \in T PROVE n + 1 \in T
  <2> SUFFICES ASSUME n + 1 <= Len(events)
               PROVE  Sound(P[n + 1], evidence, at) /\ Past(n + 1)
    OBVIOUS
  <2> DEFINE m == n + 1
             s == P[n]
             t == P[m]
  <2>1. /\ m \in 1..Len(events) /\ m - 1 = n /\ n < m /\ n \in 0..Len(events)
        /\ IsState(s) /\ Sound(s, evidence, at) /\ Past(n)
    BY <1>2, <1>4
  <2>2. t = After(events, evidence, at, s, m)
    BY <1>1, <2>1
  <2>3. \A i \in 1..Len(s.observations) : s.observations[i].time <= events[m].time
    BY <2>1
  <2>4. events[m].time \in Nat /\ \A j \in 1..Len(events) : m <= j => events[m].time <= events[j].time
    BY <2>1
  <2>5. m \in Nat /\ \A j \in 1..Len(events) : m < j => n < j /\ m <= j
    OBVIOUS
  <2>6. CASE IsState(t) /\ t.observations = s.observations /\ t.consumed = s.consumed
    <3>1. Sound(t, evidence, at)
      BY <2>1, <2>6 DEF Sound
    <3>2. Past(m)
      BY <2>1, <2>5, <2>6
    <3> QED
      BY <3>1, <3>2
  <2>7. CASE t = Observe(evidence, at, s, events[m])
    <3>1. Sound(t, evidence, at)
      BY <2>1, <2>3, <2>4, <2>7, ObserveIsSound
    <3>2. Due(evidence, at, events[m].time) \in Nat
      <4>1. Due(evidence, at, events[m].time) \in 0..Len(evidence)
        BY <2>4, DueSays DEF InOrder
      <4> QED
        BY <4>1
    <3> DEFINE q == s.observations
               r == t.observations
    <3>3. /\ Len(r) = Len(q) + 1 /\ r[Len(q) + 1].time = events[m].time
          /\ \A i \in 1..Len(q) : r[i] = q[i]
      <4> HIDE DEF s, t, m
      <4> QED
        BY <2>1, <2>7, <3>2, ObserveSays
    <3>4. Len(q) \in Nat /\ \A i \in 1..Len(r) : i \in 1..Len(q) \/ i = Len(q) + 1
      BY <2>1, <3>3 DEF IsState, IsList
    <3>5. \A i \in 1..Len(q), j \in 1..Len(events) : m < j => q[i].time <= events[j].time
      BY <2>1, <2>5
    <3> HIDE DEF q, r, m, s, t
    <3>6. \A i \in 1..Len(r), j \in 1..Len(events) : m < j => r[i].time <= events[j].time
      BY <2>4, <2>5, <3>3, <3>4, <3>5
    <3> QED
      BY <3>1, <3>6 DEF r, m, t
  <2> HIDE DEF s, t, m
  <2>8. Sound(t, evidence, at) /\ Past(m)
    BY <2>1, <2>2, <2>6, <2>7, AfterSays DEF t
  <2> QED
    BY <2>8 DEF t, m
<1>5. Len(events) \in T
  <2> HIDE DEF T
  <2> QED
    BY <1>3, <1>4, EveryNumber
<1> QED
  BY <1>2, <1>5 DEF Derivation, P

\* A sample is given with the first observation that is not earlier than its frame.
LEMMA SampleIsGivenOnce ==
    ASSUME NEW evidence, InOrder(evidence),
           \A i, j \in DOMAIN evidence : i # j => evidence[i].samples \cap evidence[j].samples = {},
           NEW at \in Nat, NEW s, IsState(s), Sound(s, evidence, at),
           NEW k \in DOMAIN evidence, evidence[k].asOf <= at, NEW m \in evidence[k].samples
    PROVE  \A i \in 1..Len(s.observations) :
                m \in s.observations[i].samples <=>
                    /\ evidence[k].asOf <= s.observations[i].time
                    /\ \A j \in 1..(i - 1) : s.observations[j].time < evidence[k].asOf
<1> DEFINE q == s.observations
           n == Len(q)
           D(i) == DueAt(q, evidence, at, i)
<1>1. n \in Nat
  BY DEF IsState, IsList
<1>2. /\ \A i \in 1..n : q[i].time \in Nat
      /\ \A i, j \in 1..n : i <= j => q[i].time <= q[j].time
      /\ \A i \in 1..n : q[i].samples = Pending(evidence, D(i - 1), D(i))
  BY DEF Sound
<1>3. /\ Len(evidence) \in Nat /\ DOMAIN evidence = 1..Len(evidence)
      /\ evidence[k].asOf \in Int /\ k \in Nat
  <2>1. evidence[k] \in Frame
    BY DEF InOrder
  <2> QED
    BY <2>1, AuditAssumption DEF InOrder, Frame
<1> HIDE DEF q, n
<1>4. ASSUME NEW i \in 1..n
      PROVE  D(i) \in 0..Len(evidence) /\ (k <= D(i) <=> evidence[k].asOf <= q[i].time)
  <2>1. q[i].time \in Nat /\ i # 0
    BY <1>1, <1>2
  <2>2. D(i) = Due(evidence, at, q[i].time)
    BY <2>1 DEF DueAt
  <2> QED
    BY <2>1, <2>2, DueSays DEF InOrder
<1>5. D(0) = 0
  BY DEF DueAt
<1> HIDE DEF D
<1> SUFFICES ASSUME NEW i \in 1..n
             PROVE  m \in q[i].samples <=>
                        /\ evidence[k].asOf <= q[i].time
                        /\ \A j \in 1..(i - 1) : q[j].time < evidence[k].asOf
  BY DEF q, n
<1>6. D(i - 1) \in 0..Len(evidence) /\ D(i) \in 0..Len(evidence)
  BY <1>1, <1>3, <1>4, <1>5
<1>7. m \in q[i].samples <=> k \in (D(i - 1) + 1)..D(i)
  <2>1. m \in q[i].samples <=> \E l \in (D(i - 1) + 1)..D(i) : m \in evidence[l].samples
    BY <1>2 DEF Pending
  <2>2. \A l \in (D(i - 1) + 1)..D(i) : l \in DOMAIN evidence /\ (m \in evidence[l].samples => l = k)
    BY <1>3, <1>6
  <2> QED
    BY <2>1, <2>2
<1>8. D(i - 1) < k <=> \A j \in 1..(i - 1) : q[j].time < evidence[k].asOf
  <2>1. CASE i = 1
    <3>1. i - 1 = 0 /\ 1..(i - 1) = {}
      BY <2>1
    <3> QED
      BY <1>3, <1>5, <3>1
  <2>2. CASE i # 1
    <3> DEFINE h == i - 1
    <3>1. h \in 1..n /\ h \in Nat
      BY <1>1, <2>2
    <3> HIDE DEF h
    <3>2. D(h) \in 0..Len(evidence) /\ (k <= D(h) <=> evidence[k].asOf <= q[h].time)
      BY <1>4, <3>1
    <3>3. \A j \in 1..h : j \in 1..n /\ q[j].time \in Nat /\ q[j].time <= q[h].time
      BY <1>1, <1>2, <3>1
    <3>4. D(h) < k <=> \A j \in 1..h : q[j].time < evidence[k].asOf
      BY <1>3, <3>1, <3>2, <3>3
    <3> QED
      BY <3>4 DEF h
  <2> QED
    BY <2>1, <2>2
<1> QED
  BY <1>3, <1>4, <1>6, <1>7, <1>8

-----------------------------------------------------------------------------
(* The second audit.                                                       *)

\* A repeated identity has a first trade, which is not a repetition.
LEMMA IdentityHasAFirst ==
    ASSUME NEW events, DOMAIN events \subseteq Nat, NEW i \in DOMAIN events,
           IsRepeated(events, DOMAIN events, i)
    PROVE  \E first \in Earlier(events, DOMAIN events, i) : ~IsRepeated(events, DOMAIN events, first)
<1> DEFINE S == Earlier(events, DOMAIN events, i)
<1>1. S \subseteq Nat /\ S # {}
  BY DEF IsRepeated, Earlier
<1>2. PICK f \in S : \A j \in S : ~(<<j, f>> \in OpToRel(<, Nat))
  <2> HIDE DEF S
  <2> QED
    BY <1>1, NatLessThanWellFounded, WFMin
<1>3. f \in Nat /\ \A j \in S : ~(j < f)
  BY <1>1, <1>2 DEF OpToRel
<1>4. ASSUME NEW j \in Earlier(events, DOMAIN events, f) PROVE FALSE
  <2>1. /\ f < i /\ events[f].identity = events[i].identity
        /\ j \in DOMAIN events /\ j < f /\ IsTrade(events[j])
        /\ events[j].identity = events[f].identity
    BY <1>4 DEF Earlier
  <2>2. j < i
    <3>1. i \in Nat /\ f \in Nat /\ j \in Nat
      BY <1>3, <2>1
    <3> QED
      BY <2>1, <3>1
  <2>3. j \in S
    BY <2>1, <2>2 DEF Earlier
  <2> QED
    BY <1>3, <2>1, <2>3
<1> QED
  BY <1>4 DEF IsRepeated

\* Where no trade contradicts its identity, a window drops what the whole drops.
LEMMA WindowAccepts ==
    ASSUME NEW events, DOMAIN events \subseteq Nat, Conflicts(events, DOMAIN events) = {}, NEW at
    PROVE  Accepted(events, Window(events, at))
                = {i \in Accepted(events, DOMAIN events) : events[i].time >= at}
<1> DEFINE W == Window(events, at)
<1>1. ASSUME NEW i \in W
      PROVE  IsRepeated(events, W, i) <=> IsRepeated(events, DOMAIN events, i)
  <2>1. i \in DOMAIN events /\ W \subseteq DOMAIN events
    BY <1>1 DEF Window
  <2>2. Earlier(events, W, i) \subseteq Earlier(events, DOMAIN events, i)
    BY <2>1 DEF Earlier
  <2>3. ASSUME IsRepeated(events, DOMAIN events, i) PROVE IsRepeated(events, W, i)
    <3>1. PICK f \in Earlier(events, DOMAIN events, i) : ~IsRepeated(events, DOMAIN events, f)
      BY <2>1, <2>3, IdentityHasAFirst
    <3>2. SameTrade(events[f], events[i])
      BY <2>1, <2>3, <3>1 DEF Conflicts
    <3>3. f \in DOMAIN events /\ events[f].time = events[i].time /\ events[i].time >= at
      BY <1>1, <3>1, <3>2 DEF SameTrade, Earlier, Window
    <3>4. f \in W
      BY <3>3 DEF Window
    <3>5. f \in Earlier(events, W, i)
      BY <3>1, <3>4 DEF Earlier
    <3> QED
      BY <2>3, <3>5 DEF IsRepeated
  <2> QED
    BY <2>2, <2>3 DEF IsRepeated
<1>2. \A i : i \in W <=> i \in DOMAIN events /\ events[i].time >= at
  BY DEF Window
<1> HIDE DEF W
<1>3. Accepted(events, W) = {i \in Accepted(events, DOMAIN events) : events[i].time >= at}
  BY <1>1, <1>2 DEF Accepted
<1> QED
  BY <1>3 DEF W

\* A dataset without findings has no conflicts.
LEMMA NothingFound ==
    ASSUME NEW events, NEW part, NEW expectations, NEW required,
           Findings(events, part, expectations, required) = {}
    PROVE  Conflicts(events, part) = {}
<1> SUFFICES ASSUME Conflicts(events, part) # {} PROVE FALSE
  OBVIOUS
<1>1. "conflict" \in Findings(events, part, expectations, required)
  BY DEF Findings
<1> QED
  BY <1>1

-----------------------------------------------------------------------------
(* The steps.                                                              *)

LEMMA InitEstablishes == Init => IInv
BY DEF Init, IInv, Recording, Decided, FutureIsSilent, WindowKeepsTheAudit

\* What is recorded has times.
LEMMA TimesAreNumbers ==
    ASSUME Recording
    PROVE  /\ \A i \in DOMAIN feed : feed[i].time \in Nat
           /\ \A i \in DOMAIN frames : frames[i].asOf \in Nat
           /\ InOrder(frames)
<1>1. ASSUME NEW i \in DOMAIN feed PROVE feed[i].time \in Nat
  <2>1. feed[i] \in Events
    BY DEF Recording
  <2> QED
    BY <2>1, AuditAssumption, CandidateAssumption
<1>2. ASSUME NEW i \in DOMAIN frames PROVE frames[i].asOf \in Nat
  <2>1. frames[i] \in Frame
    BY DEF Recording
  <2> QED
    BY <2>1, AuditAssumption DEF Frame
<1> QED
  BY <1>1, <1>2 DEF Recording, InOrder

\* One more event or frame is a recording that grows.
LEMMA AppendGrows ==
    ASSUME NEW S, NEW q \in Seq(S), NEW e \in S
    PROVE  /\ Grows(q, Append(q, e)) /\ Grows(q, q) /\ Append(q, e) \in Seq(S)
           /\ Len(Append(q, e)) = Len(q) + 1 /\ Append(q, e)[Len(q) + 1] = e
           /\ \A i \in DOMAIN Append(q, e) : i > Len(q) => Append(q, e)[i] = e
           /\ q # <<>> => Len(q) \in DOMAIN q /\ Last(q) = q[Len(q)]
BY DEF Grows, Last

\* What grows later than a decision changes nothing of it.
LEMMA GrowthIsSilent ==
    ASSUME IInv, UNCHANGED result, Grows(feed, feed'), Grows(frames, frames'),
           \A i \in DOMAIN feed' : i > Len(feed) => IsRecordable(feed'[i].time),
           \A k \in DOMAIN frames' : k > Len(frames) =>
                frames'[k].asOf \in Nat /\ IsRecordable(frames'[k].asOf)
    PROVE  Decided' /\ FutureIsSilent' /\ WindowKeepsTheAudit'
<1> SUFFICES ASSUME result # NoResult
             PROVE  Decided' /\ FutureIsSilent' /\ WindowKeepsTheAudit'
  BY DEF Decided, FutureIsSilent, WindowKeepsTheAudit
<1> DEFINE at == result.candidate.at
<1>1. Recording /\ at \in Nat /\ result.given \in Nat /\ result.given <= Len(feed)
  BY DEF IInv, Decided
<1>2. Decided'
  BY <1>1 DEF Decided, Grows
<1>3. Candidate(feed', frames', at) = Candidate(feed, frames, at)
  <2>1. \A i \in DOMAIN feed : feed[i].time \in Nat
    BY <1>1, TimesAreNumbers
  <2>2. InOrder(frames)
    BY <1>1, TimesAreNumbers
  <2>3. \A i \in DOMAIN feed' : i > Len(feed) => feed'[i].time > at
    BY DEF IsRecordable
  <2>4. \A k \in DOMAIN frames' : k > Len(frames) => ~(frames'[k].asOf <= at)
    BY <1>1 DEF IsRecordable
  <2> HIDE DEF at
  <2> QED
    BY <1>1, <2>1, <2>2, <2>3, <2>4, LaterIsSilent
<1>4. FutureIsSilent'
  BY <1>3 DEF FutureIsSilent, IInv
<1>5. ASSUME NEW i, i <= result.given
      PROVE  i \in Accepted(feed', DOMAIN feed') <=> i \in Accepted(feed, DOMAIN feed)
  <2>1. i \in DOMAIN feed' <=> i \in DOMAIN feed
    BY <1>1, <1>5 DEF Grows
  <2> QED
    BY <2>1, RepeatedStays DEF Accepted
<1>6. \A i \in Accepted(feed, DOMAIN feed) : feed'[i] = feed[i]
  BY DEF Accepted, Grows
<1>7. {i \in Accepted(feed', DOMAIN feed') : i <= result.given /\ feed'[i].time >= at}
        = {i \in Accepted(feed, DOMAIN feed) : i <= result.given /\ feed[i].time >= at}
  BY <1>5, <1>6
<1>8. WindowKeepsTheAudit'
  BY <1>7 DEF WindowKeepsTheAudit, IInv
<1> QED
  BY <1>2, <1>4, <1>8

LEMMA RecordKeeps ==
    ASSUME IInv, NEW event \in Events, Record(event)
    PROVE  IInv'
<1>1. /\ feed' = Append(feed, event) /\ frames' = frames /\ result' = result
      /\ feed # <<>> => Last(feed).time <= event.time
      /\ IsRecordable(event.time) /\ Recording
  BY DEF Record, IInv
<1>2. feed \in Seq(Events) /\ frames \in Seq(Frame) /\ Len(feed) \in Nat
  BY <1>1 DEF Recording
<1>3. /\ Grows(feed, feed') /\ feed' \in Seq(Events) /\ Len(feed') = Len(feed) + 1
      /\ feed'[Len(feed) + 1] = event
      /\ \A i \in DOMAIN feed' : i > Len(feed) => feed'[i] = event
      /\ feed # <<>> => Len(feed) \in DOMAIN feed /\ Last(feed) = feed[Len(feed)]
  BY <1>1, <1>2, AppendGrows
<1>4. Grows(frames, frames')
  BY <1>1, <1>2 DEF Grows
<1>5. ASSUME NEW i \in DOMAIN feed', NEW j \in DOMAIN feed', i <= j
      PROVE  feed'[i].time <= feed'[j].time
  <2>1. \A k \in DOMAIN feed' : k \in DOMAIN feed \/ k = Len(feed) + 1
    BY <1>2, <1>3 DEF Grows
  <2>2. CASE j \in DOMAIN feed
    <3>1. i \in DOMAIN feed
      BY <1>2, <1>5, <2>1, <2>2
    <3> QED
      BY <1>1, <1>3, <1>5, <2>2, <3>1 DEF Recording, Grows
  <2>3. CASE j = Len(feed) + 1 /\ i \in DOMAIN feed
    <3>1. /\ feed # <<>> /\ i <= Len(feed) /\ Len(feed) \in DOMAIN feed
          /\ feed'[i] = feed[i] /\ feed'[j] = event
      BY <1>2, <1>3, <2>3 DEF Grows
    <3>2. feed[i].time <= feed[Len(feed)].time /\ feed[Len(feed)].time <= event.time
      BY <1>1, <1>3, <2>3, <3>1 DEF Recording
    <3>3. /\ feed[i].time \in Nat /\ feed[Len(feed)].time \in Nat /\ event.time \in Nat
      BY <1>1, <2>3, <3>1, TimesAreNumbers, AuditAssumption, CandidateAssumption
    <3> QED
      BY <3>1, <3>2, <3>3
  <2>4. CASE j = Len(feed) + 1 /\ i = Len(feed) + 1
    <3>1. event.time \in Nat
      BY AuditAssumption, CandidateAssumption
    <3> QED
      BY <1>3, <2>4, <3>1
  <2> QED
    BY <2>1, <2>2, <2>3, <2>4
<1>6. Recording'
  BY <1>1, <1>3, <1>5 DEF Recording
<1>7. \A i \in DOMAIN feed' : i > Len(feed) => IsRecordable(feed'[i].time)
  BY <1>1, <1>3
<1>8. \A k \in DOMAIN frames' : ~(k > Len(frames))
  BY <1>1, <1>2
<1>9. Decided' /\ FutureIsSilent' /\ WindowKeepsTheAudit'
  BY <1>1, <1>3, <1>4, <1>7, <1>8, GrowthIsSilent
<1> QED
  BY <1>6, <1>9 DEF IInv

LEMMA PublishKeeps ==
    ASSUME IInv, NEW frame \in Frame, Publish(frame)
    PROVE  IInv'
<1>1. /\ frames' = Append(frames, frame) /\ feed' = feed /\ result' = result
      /\ frames # <<>> => Last(frames).asOf < frame.asOf
      /\ \A i \in DOMAIN frames : frames[i].samples \cap frame.samples = {}
      /\ IsRecordable(frame.asOf) /\ Recording
  BY DEF Publish, IInv
<1>2. feed \in Seq(Events) /\ frames \in Seq(Frame) /\ Len(frames) \in Nat
  BY <1>1 DEF Recording
<1>3. /\ Grows(frames, frames') /\ frames' \in Seq(Frame) /\ Len(frames') = Len(frames) + 1
      /\ frames'[Len(frames) + 1] = frame
      /\ \A i \in DOMAIN frames' : i > Len(frames) => frames'[i] = frame
      /\ frames # <<>> => Len(frames) \in DOMAIN frames /\ Last(frames) = frames[Len(frames)]
  BY <1>1, <1>2, AppendGrows
<1>4. Grows(feed, feed')
  BY <1>1, <1>2 DEF Grows
<1>5. frame.asOf \in Nat
  BY AuditAssumption DEF Frame
<1>6. \A k \in DOMAIN frames' : k \in DOMAIN frames \/ k = Len(frames) + 1
  BY <1>2, <1>3 DEF Grows
<1>7. ASSUME NEW i \in DOMAIN frames', NEW j \in DOMAIN frames', i < j
      PROVE  frames'[i].asOf < frames'[j].asOf
  <2>1. i \in DOMAIN frames
    BY <1>2, <1>3, <1>6, <1>7 DEF Grows
  <2>2. CASE j \in DOMAIN frames
    BY <1>1, <1>3, <1>7, <2>1, <2>2 DEF Recording, Grows
  <2>3. CASE j = Len(frames) + 1
    <3>1. /\ frames # <<>> /\ i <= Len(frames) /\ Len(frames) \in DOMAIN frames
          /\ frames'[i] = frames[i] /\ frames'[j] = frame
      BY <1>2, <1>3, <2>1, <2>3 DEF Grows
    <3>2. frames[i].asOf \in Nat /\ frames[Len(frames)].asOf \in Nat
      BY <1>1, <2>1, <3>1, TimesAreNumbers
    <3>3. i < Len(frames) => frames[i].asOf < frames[Len(frames)].asOf
      BY <1>1, <2>1, <3>1 DEF Recording
    <3>4. frames[Len(frames)].asOf < frame.asOf
      BY <1>1, <1>3, <3>1
    <3>5. i < Len(frames) \/ i = Len(frames)
      BY <1>2, <2>1, <3>1
    <3> QED
      BY <1>5, <3>1, <3>2, <3>3, <3>4, <3>5
  <2> QED
    BY <1>6, <2>2, <2>3
<1>8. ASSUME NEW i \in DOMAIN frames', NEW j \in DOMAIN frames', i # j
      PROVE  frames'[i].samples \cap frames'[j].samples = {}
  <2>1. \A l \in DOMAIN frames : frames'[l] = frames[l]
    BY <1>3 DEF Grows
  <2>2. CASE i \in DOMAIN frames /\ j \in DOMAIN frames
    BY <1>1, <1>8, <2>1, <2>2 DEF Recording
  <2>3. CASE i = Len(frames) + 1 /\ j \in DOMAIN frames
    BY <1>1, <1>3, <2>1, <2>3
  <2>4. CASE j = Len(frames) + 1 /\ i \in DOMAIN frames
    BY <1>1, <1>3, <2>1, <2>4
  <2> QED
    BY <1>6, <1>8, <2>2, <2>3, <2>4
<1>9. Recording'
  BY <1>1, <1>3, <1>7, <1>8 DEF Recording
<1>10. \A i \in DOMAIN feed' : ~(i > Len(feed))
  BY <1>1, <1>2
<1>11. \A k \in DOMAIN frames' : k > Len(frames) =>
            frames'[k].asOf \in Nat /\ IsRecordable(frames'[k].asOf)
  BY <1>1, <1>3, <1>5
<1>12. Decided' /\ FutureIsSilent' /\ WindowKeepsTheAudit'
  BY <1>1, <1>3, <1>4, <1>10, <1>11, GrowthIsSilent
<1> QED
  BY <1>9, <1>12 DEF IInv

LEMMA RunKeeps ==
    ASSUME IInv, NEW at \in 1..MaxTime, NEW manifest \in Manifests, Run(at, manifest)
    PROVE  IInv'
<1>1. /\ feed' = feed /\ frames' = frames
      /\ Findings(feed, DOMAIN feed, manifest.expectations, manifest.required) = {}
      /\ result'.candidate = Candidate(feed, frames, at) /\ result'.given = Len(feed)
      /\ \/ result'.replayed = {}
         \/ result'.replayed = Accepted(feed, Window(feed, at))
  BY DEF Run
<1>2. result'.candidate.at = at /\ at \in Nat
  BY <1>1, AuditAssumption DEF Candidate
<1>3. Recording /\ DOMAIN feed \subseteq Nat /\ Len(feed) \in Nat /\ DOMAIN feed = 1..Len(feed)
  BY DEF IInv, Recording
<1>4. Recording'
  BY <1>1, <1>3 DEF Recording
<1>5. Decided'
  BY <1>1, <1>2, <1>3 DEF Decided
<1>6. FutureIsSilent'
  BY <1>1, <1>2 DEF FutureIsSilent
<1>7. Accepted(feed, Window(feed, at)) = {i \in Accepted(feed, DOMAIN feed) : feed[i].time >= at}
  BY <1>1, <1>3, NothingFound, WindowAccepts
<1>8. \A i \in Accepted(feed, DOMAIN feed) : i <= Len(feed)
  BY <1>3 DEF Accepted
<1>9. WindowKeepsTheAudit'
  BY <1>1, <1>2, <1>7, <1>8 DEF WindowKeepsTheAudit
<1> QED
  BY <1>4, <1>5, <1>6, <1>9 DEF IInv

LEMMA NextKeeps == IInv /\ [Next]_vars => IInv'
<1> SUFFICES ASSUME IInv, [Next]_vars PROVE IInv'
  OBVIOUS
<1>1. CASE UNCHANGED vars
  BY <1>1 DEF vars, IInv, Recording, Decided, FutureIsSilent, WindowKeepsTheAudit
<1>2. CASE Next
  BY <1>2, RecordKeeps, PublishKeeps, RunKeeps DEF Next
<1> QED
  BY <1>1, <1>2

\* The samples follow from what the candidate still is.
LEMMA InvariantGivesOnce == IInv => SamplesGivenOnce
<1> SUFFICES ASSUME IInv, result # NoResult,
                    NEW k \in DOMAIN frames, NEW m \in Samples,
                    m \in frames[k].samples, frames[k].asOf <= result.candidate.at
             PROVE  LET observations == result.candidate.observations
                    IN  {i \in DOMAIN observations : m \in observations[i].samples} =
                        {i \in DOMAIN observations :
                            /\ frames[k].asOf <= observations[i].time
                            /\ \A j \in 1..(i - 1) : observations[j].time < frames[k].asOf}
  BY DEF SamplesGivenOnce
<1> DEFINE at == result.candidate.at
           s == Derivation(feed, frames, at)
<1>1. Recording /\ at \in Nat
  BY DEF IInv, Decided
<1>2. result.candidate.observations = s.observations
  BY DEF IInv, FutureIsSilent, Candidate
<1>3. /\ \A i \in 1..Len(feed) : feed[i].time \in Nat
      /\ \A i, j \in 1..Len(feed) : i <= j => feed[i].time <= feed[j].time
      /\ InOrder(frames) /\ Len(feed) \in Nat
      /\ \A i, j \in DOMAIN frames : i # j => frames[i].samples \cap frames[j].samples = {}
  BY <1>1, TimesAreNumbers DEF Recording
<1> HIDE DEF at
<1>4. IsState(s) /\ Sound(s, frames, at)
  BY <1>1, <1>3, DerivationIsSound
<1> HIDE DEF s
<1>5. DOMAIN s.observations = 1..Len(s.observations)
  BY <1>4 DEF IsState, IsList
<1>6. \A i \in 1..Len(s.observations) :
        m \in s.observations[i].samples <=>
            /\ frames[k].asOf <= s.observations[i].time
            /\ \A j \in 1..(i - 1) : s.observations[j].time < frames[k].asOf
  BY <1>1, <1>3, <1>4, SampleIsGivenOnce DEF at
<1> QED
  BY <1>2, <1>5, <1>6

-----------------------------------------------------------------------------
\* The recording is in order, and what was decided stands for it.
THEOREM Inductive == Spec => []IInv
<1>1. Init => IInv
  BY InitEstablishes
<1>2. IInv /\ [Next]_vars => IInv'
  BY NextKeeps
<1> QED
  BY <1>1, <1>2, PTL DEF Spec

\* Events and evidence that are recorded after a decision never change its
\* candidate, whatever they are (tier2_calibrated_candidate.py:234-304).
THEOREM FutureIsSilentHolds == Spec => []FutureIsSilent
<1>1. IInv => FutureIsSilent
  BY DEF IInv
<1> QED
  BY Inductive, <1>1, PTL

\* Each OFI sample is given to calibration with exactly one book, the first that
\* is not earlier than its frame (tier2_calibrated_candidate.py:264-297).
THEOREM SamplesGivenOnceHolds == Spec => []SamplesGivenOnce
BY Inductive, InvariantGivesOnce, PTL

\* The audit of the window accepts what the audit of the whole dataset accepted of
\* it (tier2_calibrated_replay.py:98-121).
THEOREM WindowKeepsTheAuditHolds == Spec => []WindowKeepsTheAudit
<1>1. IInv => WindowKeepsTheAudit
  BY DEF IInv
<1> QED
  BY Inductive, <1>1, PTL

=============================================================================
