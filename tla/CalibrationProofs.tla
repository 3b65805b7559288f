------------------------- MODULE CalibrationProofs -------------------------
(***************************************************************************)
(* Proofs about Calibration, for every set of mids, rates and labels, every *)
(* size of the windows and every sampling contract.                        *)
(*                                                                         *)
(* A set of labels covers a larger one at some time when all it lacks is   *)
(* matured and has a window's worth of later matured labels in it.  This   *)
(* survives the passing of time, another label, and the cut of the window. *)
(***************************************************************************)
EXTENDS Calibration, FiniteSetTheorems, SequenceTheorems, WellFoundedInduction, TLAPS

LaterIn(labels, x) == {m \in labels : Later(m, x)}

Covers(samples, labels, time) ==
    /\ samples \subseteq labels
    /\ \A x \in labels \ samples :
        /\ x.matured <= time
        /\ Cardinality(LaterIn(Matured(samples, time), x)) >= OfiWindow

-----------------------------------------------------------------------------
(* Windows of labels.                                                      *)

LEMMA LaterOrder ==
    ASSUME NEW x \in Labels, NEW y \in Labels, NEW z \in Labels
    PROVE  /\ ~Later(x, x)
           /\ Later(x, y) /\ Later(y, z) => Later(x, z)
BY CalibrationAssumption DEF Later

LEMMA LaterInFinite ==
    ASSUME NEW labels \in SUBSET Labels, NEW x
    PROVE  /\ LaterIn(labels, x) \subseteq Labels
           /\ IsFiniteSet(LaterIn(labels, x)) /\ Cardinality(LaterIn(labels, x)) \in Nat
BY CalibrationAssumption, FS_Subset, FS_CardinalityType DEF LaterIn

LEMMA MoreLater ==
    ASSUME NEW labels \in SUBSET Labels, NEW larger \in SUBSET Labels, NEW x, NEW y,
           LaterIn(labels, x) \subseteq LaterIn(larger, y)
    PROVE  Cardinality(LaterIn(labels, x)) <= Cardinality(LaterIn(larger, y))
BY LaterInFinite, FS_Subset

\* A set of numbers has a least one.
LEMMA LeastNumber ==
    ASSUME NEW T \in SUBSET Nat, T # {}
    PROVE  \E n \in T : \A i \in T : n <= i
<1>1. PICK n \in T : \A i \in T : ~(<<i, n>> \in OpToRel(<, Nat))
  BY NatLessThanWellFounded, WFMin
<1>2. \A i \in T : ~(i < n)
  BY <1>1 DEF OpToRel
<1> QED
  BY <1>2

\* What is later than a label by a window's worth is so within the window:
\* of the later labels that were cut, the one with the fewest later ones has a
\* window's worth of them, and none of these was cut.
LEMMA LatestSuffices ==
    ASSUME NEW labels \in SUBSET Labels, NEW x \in Labels,
           Cardinality(LaterIn(labels, x)) >= OfiWindow
    PROVE  Cardinality(LaterIn(Latest(labels), x)) >= OfiWindow
<1> DEFINE cut == LaterIn(labels, x) \ Latest(labels)
           rank(y) == Cardinality(LaterIn(labels, y))
<1>1. Latest(labels) \in SUBSET Labels
  BY DEF Latest
<1>2. CASE cut = {}
  <2>1. LaterIn(labels, x) \subseteq LaterIn(Latest(labels), x)
    BY <1>2 DEF LaterIn
  <2> QED
    BY <1>1, <2>1, MoreLater, LaterInFinite, CalibrationAssumption
<1>3. CASE cut # {}
  <2>1. \A y : rank(y) \in Nat
    BY LaterInFinite
  <2>2. PICK y \in cut : \A z \in cut : rank(y) <= rank(z)
    <3>1. {rank(y) : y \in cut} \in SUBSET Nat /\ {rank(y) : y \in cut} # {}
      BY <1>3, <2>1
    <3>2. PICK n \in {rank(y) : y \in cut} : \A i \in {rank(y) : y \in cut} : n <= i
      BY <3>1, LeastNumber
    <3> QED
      BY <3>2
  <2>3. y \in labels /\ Later(y, x) /\ rank(y) >= OfiWindow
    <3>1. y \in labels /\ Later(y, x) /\ ~(rank(y) < OfiWindow)
      BY <2>2 DEF LaterIn, Latest
    <3> QED
      BY <2>1, <3>1, CalibrationAssumption
  <2>4. ASSUME NEW z \in LaterIn(labels, y)
        PROVE  z \in LaterIn(Latest(labels), x)
    <3>1. z \in labels /\ Later(z, y)
      BY DEF LaterIn
    <3>2. z \in LaterIn(labels, x)
      BY <2>3, <3>1, LaterOrder DEF LaterIn
    <3>3. LaterIn(labels, z) \subseteq LaterIn(labels, y)
      BY <2>3, <3>1, LaterOrder DEF LaterIn
    <3>4. z \in LaterIn(labels, y) /\ z \notin LaterIn(labels, z)
      BY <3>1, LaterOrder DEF LaterIn
    <3>5. rank(z) < rank(y)
      <4>1. LaterIn(labels, z) # LaterIn(labels, y)
        BY <3>4
      <4> QED
        BY <3>3, <4>1, LaterInFinite, FS_Subset
    <3>6. z \notin cut
      BY <2>1, <2>2, <3>5
    <3> QED
      BY <3>2, <3>6 DEF LaterIn
  <2>5. rank(y) <= Cardinality(LaterIn(Latest(labels), x))
    BY <1>1, <2>4, MoreLater
  <2> QED
    BY <1>1, <2>1, <2>3, <2>5, LaterInFinite, CalibrationAssumption
<1> QED
  BY <1>2, <1>3

LEMMA MaturedIsSubset ==
    ASSUME NEW labels \in SUBSET Labels, NEW time \in Int
    PROVE  Matured(labels, time) \in SUBSET Labels
BY DEF Matured

\* Time passes: what was matured stays so.
LEMMA CoversLater ==
    ASSUME NEW labels \in SUBSET Labels, NEW samples, NEW time \in Int, NEW next \in Int,
           Covers(samples, labels, time), time <= next
    PROVE  Covers(samples, labels, next)
<1>1. samples \in SUBSET Labels
  BY DEF Covers
<1>2. SUFFICES ASSUME NEW x \in labels \ samples
               PROVE  /\ x.matured <= next
                      /\ Cardinality(LaterIn(Matured(samples, next), x)) >= OfiWindow
  BY DEF Covers
<1>3. x.matured \in Nat /\ \A m \in samples : m.matured \in Nat
  BY <1>1, CalibrationAssumption
<1>4. LaterIn(Matured(samples, time), x) \subseteq LaterIn(Matured(samples, next), x)
  BY <1>3 DEF LaterIn, Matured
<1>5. /\ Cardinality(LaterIn(Matured(samples, time), x)) <= Cardinality(LaterIn(Matured(samples, next), x))
      /\ Cardinality(LaterIn(Matured(samples, time), x)) \in Nat
      /\ Cardinality(LaterIn(Matured(samples, next), x)) \in Nat
  BY <1>1, <1>4, MaturedIsSubset, MoreLater, LaterInFinite
<1>6. x.matured <= time /\ Cardinality(LaterIn(Matured(samples, time), x)) >= OfiWindow
  BY DEF Covers
<1> QED
  BY <1>3, <1>5, <1>6, CalibrationAssumption

\* One more label on both sides.
LEMMA CoversMore ==
    ASSUME NEW labels \in SUBSET Labels, NEW samples, NEW time \in Int, NEW l \in Labels,
           Covers(samples, labels, time)
    PROVE  Covers(samples \cup {l}, labels \cup {l}, time)
<1>1. samples \in SUBSET Labels /\ samples \cup {l} \in SUBSET Labels
  BY DEF Covers
<1>2. SUFFICES ASSUME NEW x \in (labels \cup {l}) \ (samples \cup {l})
               PROVE  /\ x.matured <= time
                      /\ Cardinality(LaterIn(Matured(samples \cup {l}, time), x)) >= OfiWindow
  BY DEF Covers
<1>3. LaterIn(Matured(samples, time), x) \subseteq LaterIn(Matured(samples \cup {l}, time), x)
  BY DEF LaterIn, Matured
<1>4. /\ Cardinality(LaterIn(Matured(samples, time), x)) <= Cardinality(LaterIn(Matured(samples \cup {l}, time), x))
      /\ Cardinality(LaterIn(Matured(samples, time), x)) \in Nat
      /\ Cardinality(LaterIn(Matured(samples \cup {l}, time), x)) \in Nat
  BY <1>1, <1>3, MaturedIsSubset, MoreLater, LaterInFinite
<1>5. x.matured <= time /\ Cardinality(LaterIn(Matured(samples, time), x)) >= OfiWindow
  BY DEF Covers
<1> QED
  BY <1>4, <1>5, CalibrationAssumption

\* The window is cut.
LEMMA CoversRetained ==
    ASSUME NEW labels \in SUBSET Labels, NEW samples, NEW time \in Int,
           Covers(samples, labels, time)
    PROVE  Covers(Retained(samples, time), labels, time)
<1> DEFINE matured == Matured(samples, time)
<1>1. samples \in SUBSET Labels /\ matured \in SUBSET Labels
  BY MaturedIsSubset DEF Covers
<1>2. Retained(samples, time) \subseteq samples
  BY DEF Retained, Latest, Matured
<1>3. Matured(Retained(samples, time), time) = Latest(matured)
  BY DEF Retained, Latest, Matured
<1>4. SUFFICES ASSUME NEW x \in labels \ Retained(samples, time)
               PROVE  x.matured <= time /\ Cardinality(LaterIn(Latest(matured), x)) >= OfiWindow
  BY <1>2, <1>3 DEF Covers
<1>5. x.matured <= time /\ Cardinality(LaterIn(matured, x)) >= OfiWindow
  <2>1. CASE x \notin samples
    BY <2>1 DEF Covers
  <2>2. CASE x \in samples
    <3>1. x \in matured /\ x \notin Latest(matured)
      BY <2>2 DEF Retained
    <3>2. ~(Cardinality(LaterIn(matured, x)) < OfiWindow)
      BY <3>1 DEF Latest, LaterIn
    <3>3. x.matured <= time
      BY <3>1 DEF Matured
    <3> QED
      BY <1>1, <3>2, <3>3, LaterInFinite, CalibrationAssumption
  <2> QED
    BY <2>1, <2>2
<1>6. x \in Labels
  OBVIOUS
<1> HIDE DEF matured
<1> QED
  BY <1>1, <1>5, <1>6, LatestSuffices

\* A set that covers another has its latest matured labels, and its pending ones.
LEMMA CoversIsLatest ==
    ASSUME NEW labels \in SUBSET Labels, NEW samples, NEW time \in Int,
           Covers(samples, labels, time)
    PROVE  /\ Latest(Matured(samples, time)) = Latest(Matured(labels, time))
           /\ samples \ Matured(samples, time) = labels \ Matured(labels, time)
<1> DEFINE fewer == Matured(samples, time)
           more == Matured(labels, time)
<1>1. samples \in SUBSET Labels /\ fewer \in SUBSET Labels /\ more \in SUBSET Labels
  BY MaturedIsSubset DEF Covers
<1>2. samples \subseteq labels /\ fewer \subseteq more /\ more \cap samples = fewer
  BY DEF Covers, Matured
<1>3. samples \ Matured(samples, time) = labels \ Matured(labels, time)
  BY DEF Covers, Matured
<1>4. \A x \in labels \ samples : Cardinality(LaterIn(fewer, x)) >= OfiWindow
  BY DEF Covers
<1> HIDE DEF fewer, more
<1>5. ASSUME NEW x \in Latest(more)
      PROVE  x \in Latest(fewer)
  <2>1. x \in more /\ Cardinality(LaterIn(more, x)) < OfiWindow
    BY DEF Latest, LaterIn
  <2>2. Cardinality(LaterIn(fewer, x)) <= Cardinality(LaterIn(more, x))
    BY <1>1, <1>2, MoreLater DEF LaterIn
  <2>3. Cardinality(LaterIn(fewer, x)) < OfiWindow
    BY <1>1, <2>1, <2>2, LaterInFinite, CalibrationAssumption
  <2>4. x \in labels
    BY <2>1 DEF more, Matured
  <2>5. x \in samples
    <3>1. Cardinality(LaterIn(fewer, x)) \in Nat /\ OfiWindow \in Nat
      BY <1>1, LaterInFinite, CalibrationAssumption
    <3>2. ~(Cardinality(LaterIn(fewer, x)) >= OfiWindow)
      BY <2>3, <3>1
    <3> QED
      BY <1>4, <2>4, <3>2
  <2>6. x \in fewer
    BY <1>2, <2>1, <2>5
  <2> QED
    BY <2>3, <2>6 DEF Latest, LaterIn
<1>6. ASSUME NEW x \in Latest(fewer)
      PROVE  x \in Latest(more)
  <2>1. x \in fewer /\ Cardinality(LaterIn(fewer, x)) < OfiWindow
    BY DEF Latest, LaterIn
  <2>2. LaterIn(more, x) \subseteq LaterIn(fewer, x)
    <3> SUFFICES ASSUME NEW y \in LaterIn(more, x), y \notin fewer
                 PROVE  FALSE
      BY DEF LaterIn
    <3>1. y \in more /\ Later(y, x)
      BY DEF LaterIn
    <3>2. y \in labels \ samples
      BY <1>2, <3>1 DEF more, Matured
    <3>3. LaterIn(fewer, y) \subseteq LaterIn(fewer, x)
      BY <1>1, <2>1, <3>1, LaterOrder DEF LaterIn
    <3>4. Cardinality(LaterIn(fewer, y)) <= Cardinality(LaterIn(fewer, x))
      BY <1>1, <3>3, MoreLater
    <3> QED
      BY <1>1, <1>4, <2>1, <3>2, <3>4, LaterInFinite, CalibrationAssumption
  <2>3. Cardinality(LaterIn(more, x)) <= Cardinality(LaterIn(fewer, x))
    BY <1>1, <2>2, MoreLater
  <2>4. Cardinality(LaterIn(more, x)) < OfiWindow
    BY <1>1, <2>1, <2>3, LaterInFinite, CalibrationAssumption
  <2> QED
    BY <1>2, <2>1, <2>4 DEF Latest, LaterIn
<1> QED
  BY <1>3, <1>5, <1>6 DEF fewer, more

-----------------------------------------------------------------------------
(* Windows of sequences.                                                   *)

LeastOf(m, n) == IF m > n THEN n ELSE m

LEMMA LastProperties ==
    ASSUME NEW S, NEW s \in Seq(S), NEW count \in Nat
    PROVE  /\ Last(s, count) \in Seq(S)
           /\ Len(Last(s, count)) = LeastOf(Len(s), count)
           /\ \A i \in 1..LeastOf(Len(s), count) :
                Last(s, count)[i] = s[i + Len(s) - LeastOf(Len(s), count)]
<1> DEFINE n == Len(s)
           first == IF n > count THEN n - count + 1 ELSE 1
           window == Last(s, count)
<1>1. n \in Nat
  OBVIOUS
<1>2. \A i \in 1..n : s[i] \in S
  OBVIOUS
<1>3. window = SubSeq(s, first, n)
  BY DEF Last
<1> HIDE DEF n, window
<1>4. first \in Int /\ first >= 1
  BY <1>1
<1>5. (IF first <= n THEN n - first + 1 ELSE 0) = LeastOf(n, count)
  BY <1>1 DEF LeastOf
<1>6. \A i \in 1..LeastOf(n, count) :
        i \in 1..(n - first + 1) /\ first + i - 1 = i + n - LeastOf(n, count)
  BY <1>1 DEF LeastOf
<1> HIDE DEF first
<1>7. \A i \in first..n : s[i] \in S
  BY <1>1, <1>2, <1>4
<1>8. /\ window \in Seq(S)
      /\ Len(window) = IF first <= n THEN n - first + 1 ELSE 0
      /\ \A i \in 1..(n - first + 1) : window[i] = s[first + i - 1]
  BY <1>1, <1>3, <1>4, <1>7, SubSeqProperties DEF n
<1>9. \A i \in 1..LeastOf(n, count) : window[i] = s[i + n - LeastOf(n, count)]
  BY <1>6, <1>8
<1> QED
  BY <1>5, <1>8, <1>9 DEF n, window

\* Sequences that have the same k and l values at the end.
Agree(s, k, t, l) ==
    /\ LeastOf(Len(s), k) = LeastOf(Len(t), l)
    /\ \A i \in 1..LeastOf(Len(s), k) :
            s[i + Len(s) - LeastOf(Len(s), k)] = t[i + Len(t) - LeastOf(Len(t), l)]

LEMMA SameWindow ==
    ASSUME NEW S, NEW s \in Seq(S), NEW t \in Seq(S), NEW k \in Nat, NEW l \in Nat,
           Agree(s, k, t, l)
    PROVE  Last(s, k) = Last(t, l)
<1> DEFINE left == Last(s, k)
           right == Last(t, l)
           size == LeastOf(Len(s), k)
<1>1. left \in Seq(S) /\ Len(left) = size /\ \A i \in 1..size : left[i] = s[i + Len(s) - size]
  BY LastProperties
<1>2. /\ right \in Seq(S) /\ Len(right) = size
      /\ \A i \in 1..size : right[i] = t[i + Len(t) - LeastOf(Len(t), l)]
  BY LastProperties DEF Agree
<1>3. \A i \in 1..size : left[i] = right[i]
  BY <1>1, <1>2 DEF Agree
<1> HIDE DEF left, right
<1>4. left = right
  BY <1>1, <1>2, <1>3, SeqEqual
<1> QED
  BY <1>4 DEF left, right

\* A window that is cut after each value holds what one cut at the end holds.
LEMMA LastOfAppend ==
    ASSUME NEW S, NEW s \in Seq(S), NEW v \in S, NEW count \in Nat \ {0}
    PROVE  Last(Append(Last(s, count), v), count) = Last(Append(s, v), count)
<1> DEFINE kept == Last(s, count)
           a == Append(kept, v)
           b == Append(s, v)
           n == Len(s)
           m == LeastOf(n, count)
<1>1. kept \in Seq(S) /\ Len(kept) = m /\ \A i \in 1..m : kept[i] = s[i + n - m]
  BY LastProperties
<1>2. n \in Nat /\ m \in Nat /\ m <= n
  BY DEF LeastOf
<1> HIDE DEF kept, n
<1>3. /\ a \in Seq(S) /\ Len(a) = m + 1
      /\ a[m + 1] = v /\ \A i \in 1..m : a[i] = kept[i]
  BY <1>1, AppendProperties
<1>4. /\ b \in Seq(S) /\ Len(b) = n + 1
      /\ b[n + 1] = v /\ \A i \in 1..n : b[i] = s[i]
  BY <1>1, AppendProperties DEF n
<1> HIDE DEF a, b
<1> DEFINE size == LeastOf(n + 1, count)
<1>5. size = LeastOf(m + 1, count) /\ size <= m + 1 /\ size \in Nat
  BY <1>2 DEF LeastOf
<1> HIDE DEF m
<1> HIDE DEF size
<1>6. ASSUME NEW i \in 1..size
      PROVE  a[i + (m + 1) - size] = b[i + (n + 1) - size]
  <2> DEFINE j == i + (m + 1) - size
  <2>1. j \in 1..(m + 1) /\ i + (n + 1) - size = j + n - m
    BY <1>2, <1>5
  <2> HIDE DEF j
  <2>2. CASE j = m + 1
    <3>1. j + n - m = n + 1
      BY <1>2, <2>2
    <3>2. a[j] = b[j + n - m]
      BY <1>3, <1>4, <2>2, <3>1
    <3> QED
      BY <2>1, <3>2 DEF j
  <2>3. CASE j # m + 1
    <3>1. j \in 1..m /\ j + n - m \in 1..n
      BY <1>2, <2>1, <2>3
    <3>2. a[j] = b[j + n - m]
      BY <1>1, <1>3, <1>4, <3>1 DEF m
    <3> QED
      BY <2>1, <3>2 DEF j
  <2> QED
    BY <2>2, <2>3
<1>7. Agree(a, count, b, count)
  BY <1>3, <1>4, <1>5, <1>6 DEF size, Agree
<1>8. Last(a, count) = Last(b, count)
  BY <1>3, <1>4, <1>7, SameWindow
<1> QED
  BY <1>8 DEF a, b, kept

\* A shorter window is the end of a longer one.
LEMMA LastOfLast ==
    ASSUME NEW S, NEW w \in Seq(S), NEW long \in Nat, NEW short \in Nat, short <= long
    PROVE  Last(Last(w, long), Len(Last(w, short))) = Last(w, short)
<1> DEFINE outer == Last(w, long)
           n == Len(w)
           m == LeastOf(n, long)
           size == LeastOf(n, short)
<1>1. outer \in Seq(S) /\ Len(outer) = m /\ \A i \in 1..m : outer[i] = w[i + n - m]
  BY LastProperties
<1>2. Len(Last(w, short)) = size
  BY LastProperties
<1>3. n \in Nat /\ m \in Nat /\ size \in Nat /\ size <= m /\ m <= n /\ LeastOf(m, size) = size
  BY DEF LeastOf
<1> HIDE DEF outer
<1>4. ASSUME NEW i \in 1..size
      PROVE  outer[i + m - size] = w[i + n - size]
  <2>1. i + m - size \in 1..m /\ (i + m - size) + n - m = i + n - size
    BY <1>3
  <2> QED
    BY <1>1, <2>1
<1>5. Agree(outer, size, w, short)
  BY <1>1, <1>3, <1>4 DEF Agree
<1>6. Last(outer, size) = Last(w, short)
  BY <1>1, <1>3, <1>5, SameWindow
<1> QED
  BY <1>2, <1>6 DEF outer

-----------------------------------------------------------------------------
(* The engines.                                                            *)

LEMMA WindowSizes ==
    /\ VolatilityWindow + 1 \in Nat \ {0} /\ HistoryCapacity \in Nat \ {0}
    /\ FundingWindow \in Nat \ {0} /\ VolatilityWindow + 1 <= HistoryCapacity
BY CalibrationAssumption DEF HistoryCapacity

LEMMA AdvancedType ==
    ASSUME NEW state \in Foundation, NEW o \in Observation
    PROVE  Advanced(state, o) \in Foundation
<1>1. /\ state.prices \in Seq(Mids) /\ state.volatility \in Seq(Mids) /\ state.funding \in Seq(Rates)
      /\ state.generation \in Nat /\ o.mid \in Mids /\ o.time \in Nat
  BY DEF Foundation, Observation
<1>2. /\ Append(state.prices, o.mid) \in Seq(Mids)
      /\ Append(state.volatility, o.mid) \in Seq(Mids)
  BY <1>1
<1>3. /\ Last(Append(state.prices, o.mid), HistoryCapacity) \in Seq(Mids)
      /\ Last(Append(state.volatility, o.mid), VolatilityWindow + 1) \in Seq(Mids)
  BY <1>2, WindowSizes, LastProperties
<1>4. NextFunding(state.funding, o.rate) \in Seq(Rates)
  <2>1. CASE o.rate = NoRate
    BY <1>1, <2>1 DEF NextFunding
  <2>2. CASE o.rate # NoRate
    <3>1. o.rate \in Rates
      BY <2>2 DEF Observation
    <3>2. Append(state.funding, o.rate) \in Seq(Rates)
      BY <1>1, <3>1
    <3>3. Last(Append(state.funding, o.rate), FundingWindow) \in Seq(Rates)
      BY <3>2, WindowSizes, LastProperties
    <3> QED
      BY <2>2, <3>3 DEF NextFunding
  <2> QED
    BY <2>1, <2>2
<1> QED
  BY <1>1, <1>3, <1>4 DEF Advanced, Foundation

LEMMA HistoryMidsType ==
    ASSUME history \in Seq(Observation)
    PROVE  /\ HistoryMids \in Seq(Mids) /\ Len(HistoryMids) = Len(history)
           /\ \A i \in 1..Len(history) : HistoryMids[i] = history[i].mid
<1> DEFINE n == Len(history)
<1>1. n \in Nat /\ DOMAIN history = 1..n
  OBVIOUS
<1>2. \A i \in 1..n : history[i].mid \in Mids
  <2>1. \A i \in 1..n : history[i] \in Observation
    BY ElementOfSeq
  <2> QED
    BY <2>1 DEF Observation
<1> HIDE DEF n
<1>3. HistoryMids = [i \in 1..n |-> history[i].mid]
  BY <1>1 DEF HistoryMids
<1>4. HistoryMids \in [1..n -> Mids]
  BY <1>2, <1>3
<1>5. HistoryMids \in Seq(Mids)
  BY <1>1, <1>4, SeqDef
<1>6. Len(HistoryMids) = n
  BY <1>1, <1>4, <1>5
<1> QED
  BY <1>2, <1>3, <1>5, <1>6 DEF n

\* The rates that have come with the observations, after one more.
NextRates(o) == IF o.rate = NoRate THEN rates ELSE Append(rates, o.rate)

\* What the foundation computes next are the windows of one more observation.
LEMMA AdvancedIsRecent ==
    ASSUME TypeOK, HistoriesAreRecent, NEW o \in Observation
    PROVE  /\ Advanced(foundation, o).generation = Len(history) + 1
           /\ Advanced(foundation, o).prices = Last(Append(HistoryMids, o.mid), HistoryCapacity)
           /\ Advanced(foundation, o).volatility = Last(Append(HistoryMids, o.mid), VolatilityWindow + 1)
           /\ Advanced(foundation, o).funding = Last(NextRates(o), FundingWindow)
<1>1. HistoryMids \in Seq(Mids) /\ o.mid \in Mids /\ rates \in Seq(Rates)
  BY HistoryMidsType DEF TypeOK, Observation
<1>2. Last(Append(Last(HistoryMids, HistoryCapacity), o.mid), HistoryCapacity)
        = Last(Append(HistoryMids, o.mid), HistoryCapacity)
  BY <1>1, WindowSizes, LastOfAppend
<1>3. Last(Append(Last(HistoryMids, VolatilityWindow + 1), o.mid), VolatilityWindow + 1)
        = Last(Append(HistoryMids, o.mid), VolatilityWindow + 1)
  BY <1>1, WindowSizes, LastOfAppend
<1>4. NextFunding(Last(rates, FundingWindow), o.rate) = Last(NextRates(o), FundingWindow)
  <2>1. CASE o.rate = NoRate
    BY <2>1 DEF NextFunding, NextRates
  <2>2. CASE o.rate # NoRate
    <3>1. o.rate \in Rates
      BY <2>2 DEF Observation
    <3>2. Last(Append(Last(rates, FundingWindow), o.rate), FundingWindow)
            = Last(Append(rates, o.rate), FundingWindow)
      BY <1>1, <3>1, WindowSizes, LastOfAppend
    <3> QED
      BY <2>2, <3>2 DEF NextFunding, NextRates
  <2> QED
    BY <2>1, <2>2
<1> QED
  BY <1>2, <1>3, <1>4 DEF Advanced, HistoriesAreRecent

\* No accepted prefix of observations leads to a state that is refused.
LEMMA AdvancedIsAccepted ==
    ASSUME TypeOK, HistoriesAreRecent, Len(rates) <= Len(history), NEW o \in Observation
    PROVE  Accepts(Advanced(foundation, o))
<1> DEFINE mids == Append(HistoryMids, o.mid)
           next == Advanced(foundation, o)
           n == Len(history) + 1
<1>1. HistoryMids \in Seq(Mids) /\ Len(HistoryMids) = Len(history) /\ o.mid \in Mids
  BY HistoryMidsType DEF TypeOK, Observation
<1>2. mids \in Seq(Mids) /\ Len(mids) = n /\ n \in Nat \ {0}
  BY <1>1, AppendProperties DEF TypeOK
<1>3. NextRates(o) \in Seq(Rates) /\ Len(NextRates(o)) <= n /\ Len(NextRates(o)) \in Nat
  <2>1. rates \in Seq(Rates) /\ Len(rates) \in Nat /\ Len(history) \in Nat
    BY DEF TypeOK
  <2>2. CASE o.rate = NoRate
    BY <2>1, <2>2 DEF NextRates
  <2>3. CASE o.rate # NoRate
    <3>1. o.rate \in Rates
      BY <2>3 DEF Observation
    <3>2. Append(rates, o.rate) \in Seq(Rates) /\ Len(Append(rates, o.rate)) = Len(rates) + 1
      BY <2>1, <3>1, AppendProperties
    <3> QED
      BY <2>1, <2>3, <3>2 DEF NextRates
  <2> QED
    BY <2>2, <2>3
<1>4. /\ next.generation = n
      /\ next.prices = Last(mids, HistoryCapacity)
      /\ next.volatility = Last(mids, VolatilityWindow + 1)
      /\ next.funding = Last(NextRates(o), FundingWindow)
  BY AdvancedIsRecent
<1> HIDE DEF mids, next, n
<1>5. /\ next.prices \in Seq(Mids) /\ Len(next.prices) = LeastOf(n, HistoryCapacity)
      /\ next.volatility \in Seq(Mids) /\ Len(next.volatility) = LeastOf(n, VolatilityWindow + 1)
      /\ Len(next.funding) = LeastOf(Len(NextRates(o)), FundingWindow)
  <2>1. HistoryCapacity \in Nat /\ VolatilityWindow + 1 \in Nat /\ FundingWindow \in Nat
    BY WindowSizes
  <2>2. next.prices \in Seq(Mids) /\ Len(next.prices) = LeastOf(n, HistoryCapacity)
    BY <1>2, <1>4, <2>1, LastProperties
  <2>3. next.volatility \in Seq(Mids) /\ Len(next.volatility) = LeastOf(n, VolatilityWindow + 1)
    BY <1>2, <1>4, <2>1, LastProperties
  <2>4. Len(next.funding) = LeastOf(Len(NextRates(o)), FundingWindow)
    BY <1>3, <1>4, <2>1, LastProperties
  <2> QED
    BY <2>2, <2>3, <2>4
<1>6. /\ Len(next.prices) >= 1 /\ Len(next.volatility) >= 1
      /\ n >= Len(next.prices) /\ n >= Len(next.volatility) /\ n >= Len(next.funding)
      /\ Len(next.volatility) <= Len(next.prices)
  BY <1>2, <1>3, <1>5, WindowSizes DEF LeastOf
<1>7. Last(next.prices, Len(next.volatility)) = next.volatility
  <2>1. HistoryCapacity \in Nat /\ VolatilityWindow + 1 \in Nat
    BY WindowSizes
  <2> QED
    BY <1>2, <1>4, <2>1, WindowSizes, LastOfLast
<1>8. next.prices # <<>> /\ next.volatility # <<>>
  BY <1>5, <1>6
<1> QED
  BY <1>4, <1>6, <1>7, <1>8 DEF Accepts, next

\* A call that goes ahead is on cadence.
LEMMA RefusalMeaning ==
    ASSUME NEW o, NEW labels
    PROVE  /\ Refusal(o, labels) = "none" => OnCadence(foundation.last, o.time)
           /\ Refusal(o, labels) = "state" => ~Accepts(Advanced(foundation, o))
           /\ Refusal(o, labels) \in Outcomes
<1>1. CASE \E l \in labels : ~OnHorizon(l)
  BY <1>1 DEF Refusal, Outcomes
<1>2. CASE (\A l \in labels : OnHorizon(l)) /\ ~OnCadence(foundation.last, o.time)
  BY <1>2 DEF Refusal, Outcomes
<1>3. CASE (\A l \in labels : OnHorizon(l)) /\ OnCadence(foundation.last, o.time)
  BY <1>3 DEF Refusal, Outcomes
<1> QED
  BY <1>1, <1>2, <1>3
-----------------------------------------------------------------------------
(* The invariant.                                                          *)

\* A call has computed what follows from the state and its observation, and
\* its samples cover the accepted labels with those it has been through.
CallInv ==
    /\ call.foundation = Advanced(foundation, call.observation)
    /\ call.observation.time = clock
    /\ OnCadence(foundation.last, call.observation.time)
    /\ call.step = "labels" =>
        /\ call.todo \subseteq call.labels
        /\ Covers(call.samples, accepted \cup (call.labels \ call.todo), call.observation.time)

CInv ==
    /\ TypeOK
    /\ foundation.generation = micro.generation /\ foundation.last = micro.last
    /\ HistoriesAreRecent
    /\ Len(rates) <= Len(history)
    /\ foundation.last <= clock
    /\ Covers(micro.samples, accepted, micro.last)
    /\ ~Idle => CallInv
    /\ outcome # "state"

LEMMA InitCInv == Init => CInv
<1> SUFFICES ASSUME Init PROVE CInv
  OBVIOUS
<1> USE DEF Init
<1>1. TypeOK
  BY DEF TypeOK, Foundation, Micro, Outcomes
<1>2. HistoryMids = <<>>
  BY DEF HistoryMids
<1>3. \A count \in Nat : Last(<<>>, count) = <<>>
  BY DEF Last
<1>4. HistoriesAreRecent
  BY <1>2, <1>3, WindowSizes DEF HistoriesAreRecent
<1>5. Covers(micro.samples, accepted, micro.last)
  BY DEF Covers
<1> QED
  BY <1>1, <1>4, <1>5 DEF CInv, Idle, Never

LEMMA NextCInv == CInv /\ [Next]_vars => CInv'
<1> SUFFICES ASSUME CInv, [Next]_vars PROVE CInv'
  OBVIOUS
<1>1. /\ TypeOK /\ HistoriesAreRecent
      /\ foundation.generation = micro.generation /\ foundation.last = micro.last
      /\ foundation.last <= clock /\ Len(rates) <= Len(history)
      /\ Covers(micro.samples, accepted, micro.last)
      /\ ~Idle => CallInv
      /\ outcome # "state"
  BY DEF CInv
<1>2. /\ foundation \in Foundation /\ micro \in Micro
      /\ foundation.last \in Int /\ clock \in Int
      /\ accepted \in SUBSET Labels
  BY <1>1 DEF TypeOK, Foundation, Micro, Never
<1>3. ASSUME ~Idle
      PROVE  /\ call \in Call /\ call.observation \in Observation
             /\ call.observation.time \in Nat /\ call.labels \in SUBSET Labels
             /\ CallInv
  <2>1. call \in Call
    BY <1>1, <1>3 DEF TypeOK, Idle
  <2> QED
    BY <1>1, <1>3, <2>1 DEF Call, Observation
\* The states of the engines stay as they are.
<1>4. ASSUME UNCHANGED <<foundation, micro, history, rates, accepted>>,
             clock' \in Nat \cup {Never}, clock <= clock',
             call' \in Call \cup {NoCall}, (~Idle => CallInv)',
             outcome' \in Outcomes, outcome' # "state"
      PROVE  CInv'
  <2>1. TypeOK'
    BY <1>1, <1>4 DEF TypeOK
  <2>2. HistoriesAreRecent'
    BY <1>1, <1>4 DEF HistoriesAreRecent, HistoryMids
  <2>3. foundation'.last <= clock'
    <3>1. clock' \in Int
      BY <1>4 DEF Never
    <3> QED
      BY <1>1, <1>2, <1>4, <3>1
  <2> QED
    BY <1>1, <1>4, <2>1, <2>2, <2>3 DEF CInv, Covers
<1>5. ASSUME NEW o \in Offers, NEW labels \in SUBSET (Labels \ accepted),
             UpdateFoundation(o, labels)
      PROVE  CInv'
  <2>1. o \in Observation /\ o.time \in Nat
    BY CalibrationAssumption DEF Offers, Observation
  <2>2. /\ o.time >= clock /\ clock' = o.time
        /\ UNCHANGED <<foundation, micro, history, rates, accepted>>
    BY <1>5 DEF UpdateFoundation, Raise
  <2>3. clock' \in Nat \cup {Never} /\ clock <= clock'
    BY <1>2, <2>1, <2>2
  <2>4. CASE Refusal(o, labels) = "none"
    <3>1. call' = Started(o, labels) /\ outcome' = outcome
      BY <1>5, <2>4 DEF UpdateFoundation
    <3>2. Started(o, labels) \in Call
      BY <1>2, <2>1, AdvancedType DEF Started, Call
    <3>3. CallInv'
      <4>1. OnCadence(foundation.last, o.time)
        BY <2>4, RefusalMeaning
      <4>2. /\ call'.observation = o /\ call'.step = "foundation"
            /\ call'.foundation = Advanced(foundation, o)
        BY <3>1 DEF Started
      <4> QED
        BY <2>2, <4>1, <4>2 DEF CallInv, Advanced, OnCadence
    <3> QED
      BY <1>1, <1>4, <2>2, <2>3, <3>1, <3>2, <3>3 DEF TypeOK
  <2>5. CASE Refusal(o, labels) # "none"
    <3>1. call' = NoCall /\ outcome' = Refusal(o, labels)
      BY <1>5, <2>5 DEF UpdateFoundation, Raise
    <3>2. Refusal(o, labels) \in Outcomes /\ Refusal(o, labels) # "state"
      BY <1>1, <2>1, RefusalMeaning, AdvancedIsAccepted
    <3> QED
      BY <1>4, <2>2, <2>3, <3>1, <3>2 DEF Idle
  <2> QED
    BY <2>4, <2>5
<1>6. ASSUME StartMicrostructure
      PROVE  CInv'
  <2>1. /\ ~Idle /\ clock' = clock
        /\ UNCHANGED <<foundation, micro, history, rates, accepted>>
    BY <1>6 DEF StartMicrostructure, Raise
  <2>2. clock' \in Nat \cup {Never} /\ clock <= clock'
    BY <1>1, <1>2, <2>1 DEF TypeOK
  <2>3. CASE ScaleIsZero(call.foundation.volatility)
    <3>1. call' = NoCall /\ outcome' = "volatility scale"
      BY <1>6, <2>3 DEF StartMicrostructure, Raise
    <3> QED
      BY <1>4, <2>1, <2>2, <3>1 DEF Idle, Outcomes
  <2>4. CASE ~ScaleIsZero(call.foundation.volatility)
    <3>1. /\ call' = [call EXCEPT !.step = "labels", !.todo = call.labels, !.samples = micro.samples]
          /\ outcome' = outcome
      BY <1>6, <2>4 DEF StartMicrostructure
    <3>2. /\ call' \in Call
          /\ call'.foundation = call.foundation /\ call'.observation = call.observation
          /\ call'.labels = call.labels /\ call'.todo = call.labels /\ call'.samples = micro.samples
      BY <1>2, <1>3, <2>1, <3>1 DEF Call, Micro
    <3>3. Covers(micro.samples, accepted, call.observation.time)
      BY <1>1, <1>2, <1>3, <2>1, CoversLater DEF CallInv
    <3>4. CallInv'
      <4>1. accepted \cup (call.labels \ call.labels) = accepted
        OBVIOUS
      <4> QED
        BY <1>3, <2>1, <3>2, <3>3, <4>1 DEF CallInv, Advanced, OnCadence, Covers
    <3> QED
      BY <1>1, <1>4, <2>1, <2>2, <3>1, <3>2, <3>4 DEF TypeOK
  <2> QED
    BY <2>3, <2>4
<1>7. ASSUME AddLabel
      PROVE  CInv'
  <2>1. /\ ~Idle /\ call.step = "labels"
        /\ UNCHANGED <<foundation, micro, clock, history, rates, accepted, outcome>>
    BY <1>7 DEF AddLabel
  <2>2. clock' \in Nat \cup {Never} /\ clock <= clock'
    BY <1>1, <1>2, <2>1 DEF TypeOK
  <2> DEFINE time == call.observation.time
             through == accepted \cup (call.labels \ call.todo)
  <2>3. PICK l \in call.todo :
            call' = [call EXCEPT !.todo = @ \ {l}, !.samples = Retained(@ \cup {l}, time)]
    BY <1>7 DEF AddLabel
  <2>4. /\ l \in Labels /\ l \in call.labels /\ time \in Int
        /\ through \in SUBSET Labels /\ through \cup {l} \in SUBSET Labels
        /\ call.todo \subseteq call.labels /\ Covers(call.samples, through, time)
    BY <1>2, <1>3, <2>1 DEF CallInv
  <2> HIDE DEF time
  <2>5. Covers(Retained(call.samples \cup {l}, time), through \cup {l}, time)
    BY <2>4, CoversMore, CoversRetained
  <2>6. /\ call' \in Call
        /\ call'.foundation = call.foundation /\ call'.observation = call.observation
        /\ call'.labels = call.labels /\ call'.todo = call.todo \ {l}
        /\ call'.samples = Retained(call.samples \cup {l}, time)
    <3>1. Retained(call.samples \cup {l}, time) \in SUBSET Labels
      BY <2>4, <2>5 DEF Covers
    <3> QED
      BY <1>3, <2>1, <2>3, <3>1 DEF Call
  <2>7. CallInv'
    <3>1. accepted \cup (call.labels \ (call.todo \ {l})) = through \cup {l}
      BY <2>4
    <3>2. Covers(call'.samples, accepted' \cup (call'.labels \ call'.todo), call'.observation.time)
      BY <2>1, <2>5, <2>6, <3>1 DEF time
    <3> QED
      BY <1>3, <2>1, <2>4, <2>6, <3>2 DEF CallInv, Advanced, OnCadence
  <2> QED
    BY <1>1, <1>4, <2>1, <2>2, <2>6, <2>7 DEF TypeOK
<1>8. ASSUME Return
      PROVE  CInv'
  <2> DEFINE o == call.observation
  <2>1. ~Idle /\ call.step = "labels" /\ call.todo = {} /\ clock' = clock
    BY <1>8 DEF Return
  <2>2. /\ call \in Call /\ o \in Observation /\ o.time \in Nat /\ call.labels \in SUBSET Labels
        /\ call.foundation = Advanced(foundation, o) /\ o.time = clock
        /\ Covers(call.samples, accepted \cup call.labels, o.time)
    BY <1>3, <2>1 DEF CallInv
  <2>3. call.foundation.generation = micro.generation + 1
    BY <1>1, <2>2 DEF Advanced
  <2>4. /\ foundation' = Advanced(foundation, o)
        /\ micro' = [generation |-> micro.generation + 1, last |-> o.time, samples |-> call.samples]
        /\ call' = NoCall /\ outcome' = "returned"
        /\ history' = Append(history, o)
        /\ rates' = NextRates(o)
        /\ accepted' = accepted \cup call.labels
    BY <1>8, <2>2, <2>3 DEF Return, NextRates
  <2>5. /\ history' \in Seq(Observation) /\ Len(history') = Len(history) + 1
        /\ history'[Len(history) + 1] = o /\ \A i \in 1..Len(history) : history'[i] = history[i]
        /\ history \in Seq(Observation) /\ Len(history) \in Nat
    BY <1>1, <2>2, <2>4, AppendProperties DEF TypeOK
  <2>6. rates' \in Seq(Rates) /\ Len(rates') <= Len(history')
    <3>1. rates \in Seq(Rates) /\ Len(rates) \in Nat
      BY <1>1 DEF TypeOK
    <3>2. CASE o.rate = NoRate
      BY <1>1, <2>4, <2>5, <3>1, <3>2 DEF NextRates
    <3>3. CASE o.rate # NoRate
      <4>1. o.rate \in Rates
        BY <2>2, <3>3 DEF Observation
      <4>2. rates' = Append(rates, o.rate)
        BY <2>4, <3>3 DEF NextRates
      <4> QED
        BY <1>1, <2>5, <3>1, <4>1, <4>2, AppendProperties
    <3> QED
      BY <3>2, <3>3
  <2>7. micro' \in Micro
    BY <1>2, <2>2, <2>4 DEF Micro, Call
  <2>8. TypeOK'
    <3>1. foundation' \in Foundation
      BY <1>2, <2>2, <2>4, AdvancedType
    <3>2. accepted' \subseteq Labels /\ clock' \in Nat \cup {Never}
      BY <1>1, <1>2, <2>1, <2>2, <2>4 DEF TypeOK
    <3> QED
      BY <2>4, <2>5, <2>6, <2>7, <3>1, <3>2 DEF TypeOK, Outcomes
  <2>9. HistoryMids' = Append(HistoryMids, o.mid)
    <3>1. HistoryMids \in Seq(Mids) /\ Len(HistoryMids) = Len(history) /\ o.mid \in Mids
      BY <2>2, <2>5, HistoryMidsType DEF Observation
    <3>2. HistoryMids' = [i \in 1..(Len(history) + 1) |-> history'[i].mid]
      BY <2>5 DEF HistoryMids
    <3>3. HistoryMids = [i \in 1..Len(history) |-> history[i].mid]
      BY <2>5 DEF HistoryMids
    <3>4. /\ Append(HistoryMids, o.mid) \in Seq(Mids)
          /\ Len(Append(HistoryMids, o.mid)) = Len(history) + 1
          /\ Append(HistoryMids, o.mid)[Len(history) + 1] = o.mid
          /\ \A i \in 1..Len(history) : Append(HistoryMids, o.mid)[i] = history[i].mid
      BY <3>1, <3>3, AppendProperties
    <3>5. \A i \in 1..(Len(history) + 1) : HistoryMids'[i] = Append(HistoryMids, o.mid)[i]
      BY <2>5, <3>2, <3>4
    <3>6. DOMAIN HistoryMids' = 1..(Len(history) + 1)
      BY <3>2
    <3>7. Append(HistoryMids, o.mid) = [i \in 1..(Len(history) + 1) |-> Append(HistoryMids, o.mid)[i]]
      BY <3>4
    <3> QED
      BY <3>2, <3>5, <3>7
  <2>10. HistoriesAreRecent'
    BY <1>1, <2>2, <2>4, <2>5, <2>9, AdvancedIsRecent DEF HistoriesAreRecent
  <2>11. Covers(micro.samples, accepted, micro.last)'
    BY <2>2, <2>4 DEF Covers
  <2>12. /\ foundation'.generation = micro'.generation /\ foundation'.last = micro'.last
         /\ foundation'.last <= clock'
    BY <1>1, <1>2, <2>1, <2>2, <2>4 DEF Advanced
  <2> QED
    BY <2>4, <2>6, <2>8, <2>10, <2>11, <2>12 DEF CInv, Idle
<1>9. CASE UNCHANGED vars
  <2>1. outcome \in Outcomes /\ call \in Call \cup {NoCall} /\ clock \in Nat \cup {Never}
    BY <1>1 DEF TypeOK
  <2>2. (~Idle => CallInv)'
    BY <1>1, <1>9 DEF vars, Idle, CallInv, Advanced, OnCadence, Covers
  <2> QED
    BY <1>1, <1>2, <1>4, <1>9, <2>1, <2>2 DEF vars
<1> QED
  BY <1>5, <1>6, <1>7, <1>8, <1>9 DEF Next

THEOREM CInvHolds == Spec => []CInv
BY InitCInv, NextCInv, PTL DEF Spec
-----------------------------------------------------------------------------
(* The properties.                                                         *)

\* The type invariant.
THEOREM TypeCorrect == Spec => []TypeOK
<1>1. CInv => TypeOK
  BY DEF CInv
<1> QED
  BY <1>1, CInvHolds, PTL

\* The impact of order flow is fitted to the latest matured labels of all that
\* were handed over (calibration/order_flow.py:205-225).
THEOREM WindowIsLatestHolds == Spec => []WindowIsLatest
<1>1. CInv => WindowIsLatest
  <2> SUFFICES ASSUME CInv PROVE WindowIsLatest
    OBVIOUS
  <2>1. /\ accepted \in SUBSET Labels /\ micro.last \in Int
        /\ Covers(micro.samples, accepted, micro.last)
    BY DEF CInv, TypeOK, Micro, Never
  <2> QED
    BY <2>1, CoversIsLatest DEF WindowIsLatest, FitSamples
<1> QED
  BY <1>1, CInvHolds, PTL

\* Both engines are at the same observation (calibration/universal_engine.py:98-116).
THEOREM LockStepHolds == Spec => []LockStep
<1>1. CInv => LockStep
  BY DEF CInv, LockStep
<1> QED
  BY <1>1, CInvHolds, PTL

\* The retained prices and rates are the most recent ones of the accepted
\* observations (calibration/engine.py:205-231).
THEOREM HistoriesAreRecentHolds == Spec => []HistoriesAreRecent
<1>1. CInv => HistoriesAreRecent
  BY DEF CInv
<1> QED
  BY <1>1, CInvHolds, PTL

\* The engines never build a state that their constructors refuse
\* (calibration/engine.py:53-92, universal_engine.py:41-51).
THEOREM StatesAreConsistentHolds == Spec => []StatesAreConsistent
<1>1. CInv => StatesAreConsistent
  BY DEF CInv, StatesAreConsistent
<1> QED
  BY <1>1, CInvHolds, PTL

\* A feed that has missed an observation is refused for ever
\* (calibration/sampling.py:47-56).
THEOREM GapIsFinalHolds == Spec => GapIsFinal
<1>1. ASSUME CInv, [Next]_vars,
             foundation.last # Never, Idle, clock > foundation.last + Interval + Tolerance
      PROVE  foundation' = foundation /\ micro' = micro /\ Idle'
  <2>1. foundation.last \in Int /\ clock \in Int /\ Interval \in Int /\ Tolerance \in Int
    BY <1>1, CalibrationAssumption DEF CInv, TypeOK, Foundation, Never
  <2>2. ASSUME NEW o \in Offers, NEW labels \in SUBSET (Labels \ accepted),
               UpdateFoundation(o, labels)
        PROVE  foundation' = foundation /\ micro' = micro /\ Idle'
    <3>1. o.time \in Int /\ o.time >= clock
      BY <2>2, CalibrationAssumption DEF UpdateFoundation, Offers
    <3>2. ~OnCadence(foundation.last, o.time)
      BY <1>1, <2>1, <3>1 DEF OnCadence
    <3>3. Refusal(o, labels) # "none"
      BY <3>2, RefusalMeaning
    <3> QED
      BY <2>2, <3>3 DEF UpdateFoundation, Raise, Idle
  <2> QED
    BY <1>1, <2>2 DEF Next, StartMicrostructure, AddLabel, Return, Idle, vars
<1>2. CInv /\ [Next]_vars =>
        [foundation.last # Never /\ Idle /\ clock > foundation.last + Interval + Tolerance
         => foundation' = foundation /\ micro' = micro /\ Idle']_vars
  BY <1>1
<1> QED
  BY <1>2, CInvHolds, PTL DEF Spec, GapIsFinal
-----------------------------------------------------------------------------
(* The trend.                                                              *)

\* Accepted observations follow one another by the interval, within the
\* tolerance, and the foundation is at the last of them.
Spacing ==
    /\ foundation.last = Never <=> Len(history) = 0
    /\ Len(history) > 0 => history[Len(history)].time = foundation.last
    /\ \A i \in 1..(Len(history) - 1) : OnCadence(history[i].time, history[i + 1].time)

LEMMA NextSpacing == CInv /\ Spacing /\ [Next]_vars => Spacing'
<1> SUFFICES ASSUME CInv, Spacing, [Next]_vars PROVE Spacing'
  OBVIOUS
<1>1. CASE UNCHANGED <<foundation, history>>
  BY <1>1 DEF Spacing, OnCadence
<1>2. CASE Return /\ ~UNCHANGED <<foundation, history>>
  <2> DEFINE o == call.observation
             n == Len(history)
  <2>1. ~Idle /\ foundation' = call.foundation /\ history' = Append(history, o)
    BY <1>2 DEF Return, Raise
  <2>2. /\ o \in Observation /\ o.time \in Nat /\ history \in Seq(Observation) /\ n \in Nat
        /\ foundation' = Advanced(foundation, o) /\ OnCadence(foundation.last, o.time)
    <3>1. call \in Call /\ CallInv /\ history \in Seq(Observation)
      BY <2>1 DEF CInv, TypeOK, Idle
    <3> QED
      BY <2>1, <3>1 DEF Call, CallInv, Observation
  <2>3. foundation'.last = o.time /\ o.time # Never
    BY <2>2 DEF Advanced, Never
  <2>4. /\ Len(history') = n + 1 /\ history'[n + 1] = o
        /\ \A i \in 1..n : history'[i] = history[i]
    BY <2>1, <2>2, AppendProperties
  <2> HIDE DEF o, n
  <2>5. ASSUME NEW i \in 1..(Len(history') - 1)
        PROVE  OnCadence(history'[i].time, history'[i + 1].time)
    <3>1. i \in 1..n
      BY <2>2, <2>4
    <3>2. CASE i = n
      <4>1. history'[i].time = foundation.last
        BY <2>2, <2>4, <3>1, <3>2 DEF Spacing, n
      <4> QED
        BY <2>2, <2>4, <3>2, <4>1
    <3>3. CASE i # n
      <4>1. i \in 1..(n - 1) /\ i + 1 \in 1..n
        BY <2>2, <3>1, <3>3
      <4> QED
        BY <2>4, <3>1, <4>1 DEF Spacing, n
    <3> QED
      BY <3>2, <3>3
  <2>6. foundation'.last # Never /\ Len(history') # 0 /\ history'[Len(history')].time = foundation'.last
    BY <2>2, <2>3, <2>4
  <2>7. /\ (foundation'.last = Never <=> Len(history') = 0)
        /\ (Len(history') > 0 => history'[Len(history')].time = foundation'.last)
    BY <2>6
  <2> QED
    BY <2>5, <2>7 DEF Spacing, OnCadence
<1> QED
  BY <1>1, <1>2 DEF Next, UpdateFoundation, StartMicrostructure, AddLabel, Raise, vars

LEMMA SumsOfTimes ==
    ASSUME NEW a \in Int, NEW b \in Int, NEW c \in Int,
           NEW low \in Int, NEW high \in Int, NEW shortest \in Int, NEW longest \in Int,
           a - b >= low, a - b <= high, b - c >= shortest, b - c <= longest
    PROVE  a - c >= low + shortest /\ a - c <= high + longest
OBVIOUS

\* What n observations in a row have taken.
LEMMA Elapsed ==
    ASSUME TypeOK, Spacing, NEW n \in Nat, n < Len(history)
    PROVE  history[Len(history)].time - history[Len(history) - n].time
                \in (n * (Interval - Tolerance))..(n * (Interval + Tolerance))
<1> DEFINE last == Len(history)
           time(i) == history[i].time
           shortest == Interval - Tolerance
           longest == Interval + Tolerance
           wrong == {k \in 0..(last - 1) :
                        ~(time(last) - time(last - k) \in (k * shortest)..(k * longest))}
<1>1. last \in Nat /\ \A i \in 1..last : time(i) \in Int
  <2>1. history \in Seq(Observation) /\ last \in Nat
    BY DEF TypeOK
  <2>2. \A i \in 1..last : history[i] \in Observation
    BY <2>1, ElementOfSeq
  <2> QED
    BY <2>1, <2>2 DEF Observation
<1>2. shortest \in Int /\ longest \in Int
  BY CalibrationAssumption
<1>3. \A i \in 1..(last - 1) : time(i + 1) - time(i) >= shortest /\ time(i + 1) - time(i) <= longest
  <2>1. ASSUME NEW i \in 1..(last - 1)
        PROVE  time(i + 1) - time(i) >= shortest /\ time(i + 1) - time(i) <= longest
    <3>1. i \in 1..last /\ i + 1 \in 1..last
      BY <1>1
    <3>2. time(i) \in Nat /\ time(i) \in Int /\ time(i + 1) \in Int
      <4>1. history[i] \in Observation
        BY <3>1, ElementOfSeq DEF TypeOK
      <4> QED
        BY <1>1, <3>1, <4>1 DEF Observation
    <3>3. OnCadence(time(i), time(i + 1)) /\ time(i) # Never
      BY <3>2 DEF Spacing, Never
    <3> HIDE DEF time
    <3> QED
      BY <1>2, <3>2, <3>3 DEF OnCadence
  <2> QED
    BY <2>1
<1> HIDE DEF last, time, shortest, longest
<1>4. wrong = {}
  <2> SUFFICES ASSUME wrong # {} PROVE FALSE
    OBVIOUS
  <2>1. wrong \in SUBSET Nat
    BY <1>1
  <2>2. PICK k \in wrong : \A i \in wrong : k <= i
    BY <2>1, LeastNumber
  <2>3. /\ k \in Nat /\ k <= last - 1
        /\ ~(time(last) - time(last - k) \in (k * shortest)..(k * longest))
    BY <1>1, <2>2
  <2>4. k # 0
    <3> SUFFICES ASSUME k = 0 PROVE FALSE
      OBVIOUS
    <3>1. last - k = last /\ last \in 1..last
      BY <1>1, <2>3
    <3>2. time(last) - time(last - k) = 0
      BY <1>1, <3>1
    <3>3. k * shortest = 0 /\ k * longest = 0
      BY <1>2
    <3> QED
      BY <2>3, <3>2, <3>3
  <2> DEFINE j == k - 1
  <2>5. j \in 0..(last - 1) /\ j \in Nat /\ ~(k <= j)
    BY <1>1, <2>3, <2>4
  <2>6. time(last) - time(last - j) \in (j * shortest)..(j * longest)
    BY <2>2, <2>5
  <2>7. /\ last - k \in 1..(last - 1) /\ (last - k) + 1 = last - j
        /\ last \in 1..last /\ last - k \in 1..last /\ last - j \in 1..last
    BY <1>1, <2>3, <2>4
  <2>8. time(last - j) - time(last - k) >= shortest /\ time(last - j) - time(last - k) <= longest
    BY <1>3, <2>7
  <2>9. k * shortest = j * shortest + shortest /\ k * longest = j * longest + longest
    BY <1>2, <2>3
  <2> DEFINE low == j * shortest
             high == j * longest
  <2>10. low \in Int /\ high \in Int
    BY <1>2, <2>5
  <2>11. time(last) \in Int /\ time(last - j) \in Int /\ time(last - k) \in Int
    BY <1>1, <2>7
  <2> HIDE DEF low, high
  <2>12. time(last) - time(last - k) >= low + shortest /\ time(last) - time(last - k) <= high + longest
    <3>1. time(last) - time(last - j) >= low /\ time(last) - time(last - j) <= high
      BY <2>6, <2>10, <2>11 DEF low, high
    <3> QED
      BY <1>2, <2>8, <2>10, <2>11, <3>1, SumsOfTimes
  <2>13. k * shortest = low + shortest /\ k * longest = high + longest
    BY <2>9 DEF low, high
  <2> QED
    BY <1>2, <2>3, <2>10, <2>11, <2>12, <2>13
<1>5. n \in 0..(last - 1)
  BY <1>1 DEF last
<1> QED
  BY <1>4, <1>5 DEF last, time, shortest, longest

LEMMA TrendFromSpacing ==
    ASSUME CInv, Spacing
    PROVE  TrendSpansHorizon
<1> DEFINE n == Len(history)
           newest == Len(foundation.prices)
           older == newest - TrendHorizon
<1> SUFFICES ASSUME older >= 1
             PROVE  /\ foundation.prices[older] = history[n - TrendHorizon].mid
                    /\ history[n].time - history[n - TrendHorizon].time
                         \in (TrendHorizon * (Interval - Tolerance))..(TrendHorizon * (Interval + Tolerance))
  BY DEF TrendSpansHorizon
<1>1. TypeOK /\ history \in Seq(Observation) /\ n \in Nat /\ TrendHorizon \in Nat \ {0}
  BY CalibrationAssumption DEF CInv, TypeOK
<1>2. /\ HistoryMids \in Seq(Mids) /\ Len(HistoryMids) = n
      /\ \A i \in 1..n : HistoryMids[i] = history[i].mid
  BY <1>1, HistoryMidsType
<1>3. foundation.prices = Last(HistoryMids, HistoryCapacity)
  BY DEF CInv, HistoriesAreRecent
<1>4. HistoryCapacity \in Nat
  BY WindowSizes
<1>5. /\ newest = LeastOf(n, HistoryCapacity)
      /\ \A i \in 1..newest : foundation.prices[i] = HistoryMids[i + n - newest]
  <2>1. /\ Len(Last(HistoryMids, HistoryCapacity)) = LeastOf(Len(HistoryMids), HistoryCapacity)
        /\ \A i \in 1..LeastOf(Len(HistoryMids), HistoryCapacity) :
             Last(HistoryMids, HistoryCapacity)[i]
               = HistoryMids[i + Len(HistoryMids) - LeastOf(Len(HistoryMids), HistoryCapacity)]
    BY <1>2, <1>4, LastProperties
  <2>2. newest = LeastOf(n, HistoryCapacity)
    BY <1>2, <1>3, <2>1
  <2> HIDE DEF newest, n
  <2> QED
    BY <1>2, <1>3, <2>1, <2>2
<1>6. newest \in Nat /\ newest <= n
  BY <1>1, <1>4, <1>5 DEF LeastOf
<1> HIDE DEF newest, n
<1>7. older \in 1..newest /\ older + n - newest = n - TrendHorizon /\ n - TrendHorizon \in 1..n
  BY <1>1, <1>6
<1>8. foundation.prices[older] = history[n - TrendHorizon].mid
  BY <1>2, <1>5, <1>7
<1>9. TrendHorizon \in Nat /\ TrendHorizon < n
  BY <1>1, <1>7
<1> QED
  BY <1>1, <1>8, <1>9, Elapsed DEF n

\* The trend compares with a price of a horizon ago, in time and not only in
\* number (calibration/sampling.py:47-56).
THEOREM TrendSpansHorizonHolds == Spec => []TrendSpansHorizon
<1>1. Init => Spacing
  BY DEF Init, Spacing, Never
<1>2. CInv /\ Spacing => TrendSpansHorizon
  BY TrendFromSpacing
<1> QED
  BY <1>1, <1>2, NextSpacing, CInvHolds, PTL DEF Spec
=============================================================================
