---------------------------- MODULE TargetProofs ----------------------------
(***************************************************************************)
(* Proofs about the target pipeline and an account that follows it, for    *)
(* every policy, score scale, cap, ladder depth and pair of regimes.       *)
(*                                                                         *)
(* The first part bounds the stages and shows them monotone in the trend.  *)
(* The second part shows that what is left of a ladder is covered by the   *)
(* position it reduces: on one side of the ladder the quantities up to a   *)
(* level, added up, never exceed the position's size.                      *)
(***************************************************************************)
EXTENDS TargetTracking, TLAPS

-----------------------------------------------------------------------------
(* Arithmetic.                                                             *)

LEMMA DivMonotone ==
    ASSUME NEW a \in Nat, NEW b \in Nat, a <= b, NEW d \in Nat \ {0}
    PROVE  a \div d \in Nat /\ a \div d <= b \div d
OBVIOUS

LEMMA DivBound ==
    ASSUME NEW a \in Nat, NEW c \in Nat, NEW d \in Nat \ {0}, a <= c * d
    PROVE  a \div d \in Nat /\ a \div d <= c
<1>1. a \div d \in Nat /\ d * (a \div d) <= a /\ d * (a \div d) + d > a
  OBVIOUS
<1>2. d * (a \div d) <= d * c
  BY <1>1
<1> QED
  BY <1>1, <1>2

LEMMA TimesMonotone ==
    ASSUME NEW a \in Nat, NEW b \in Nat, a <= b, NEW d \in Nat
    PROVE  a * d \in Nat /\ a * d <= b * d
OBVIOUS

\* A portion has the sign of what it is taken from, and no larger size.
LEMMA PortionBound ==
    ASSUME NEW n \in Int, NEW whole \in Nat \ {0}, NEW part \in 0..whole
    PROVE  /\ Portion(n, part, whole) \in Int
           /\ n >= 0 => 0 <= Portion(n, part, whole) /\ Portion(n, part, whole) <= n
           /\ n <= 0 => n <= Portion(n, part, whole) /\ Portion(n, part, whole) <= 0
<1> DEFINE a == Abs(n)
           q == (a * part) \div whole
<1>1. a \in Nat /\ part \in Nat /\ part <= whole
  BY DEF Abs
<1>2. a * part \in Nat /\ a * part <= a * whole
  <2> HIDE DEF a
  <2> QED
    BY <1>1, TimesMonotone
<1>3. q \in Nat /\ q <= a
  <2> DEFINE m == a * part
  <2> HIDE DEF m, a
  <2> QED
    BY <1>1, <1>2, DivBound DEF m
<1>4. Portion(n, part, whole) = Sign(n) * q
  BY DEF Portion
<1> HIDE DEF q
<1>5. CASE n > 0
  BY <1>3, <1>4, <1>5 DEF Sign, Abs
<1>6. CASE n < 0
  BY <1>3, <1>4, <1>6 DEF Sign, Abs
<1>7. CASE n = 0
  BY <1>3, <1>4, <1>7 DEF Sign, Abs
<1> QED
  BY <1>5, <1>6, <1>7

\* The same of a value that is itself a part of one, taken of a cap.
LEMMA PortionOfCap ==
    ASSUME NEW n \in Int, NEW cap \in Nat, NEW whole \in Nat \ {0}, Abs(n) <= whole
    PROVE  /\ Portion(n, cap, whole) \in Int /\ Abs(Portion(n, cap, whole)) <= cap
           /\ n >= 0 => Portion(n, cap, whole) >= 0
           /\ n <= 0 => Portion(n, cap, whole) <= 0
<1> DEFINE a == Abs(n)
           q == (a * cap) \div whole
<1>1. a \in Nat /\ a <= whole
  BY DEF Abs
<1>2. a * cap \in Nat /\ a * cap <= cap * whole
  <2> HIDE DEF a
  <2>1. a * cap \in Nat /\ a * cap <= whole * cap
    BY <1>1, TimesMonotone
  <2> QED
    BY <2>1
<1>3. q \in Nat /\ q <= cap
  <2> DEFINE m == a * cap
  <2> HIDE DEF m, a
  <2> QED
    BY <1>2, DivBound DEF m
<1>4. Portion(n, cap, whole) = Sign(n) * q
  BY DEF Portion
<1> HIDE DEF q
<1>5. CASE n > 0
  BY <1>3, <1>4, <1>5 DEF Sign, Abs
<1>6. CASE n < 0
  BY <1>3, <1>4, <1>6 DEF Sign, Abs
<1>7. CASE n = 0
  BY <1>3, <1>4, <1>7 DEF Sign, Abs
<1> QED
  BY <1>5, <1>6, <1>7

-----------------------------------------------------------------------------
(* The stages.                                                             *)

\* What a policy is, as far as the stages look at it.
LEMMA PolicyFacts ==
    ASSUME NEW c \in Policy
    PROVE  /\ c.cap \in Nat \ {0} /\ c.baseLong \in Nat /\ c.baseLong <= c.cap
           /\ c.maxShort \in Nat /\ c.maxShort <= c.cap
           /\ c.profile # NoProfile =>
                /\ c.profile.baseline \in Int /\ Abs(c.profile.baseline) <= Unit
                /\ c.profile.maxOpposite \in 0..Unit
           /\ Preferred(c) \in {-1, 0, 1}
<1>1. /\ c.cap \in Nat \ {0} /\ c.baseLong \in Nat /\ c.baseLong <= c.cap
      /\ c.maxShort \in Nat /\ c.maxShort <= c.cap
      /\ c.profile # NoProfile => c.profile \in Profile
  BY DEF Policy
<1>2. \A p \in Profile : /\ p.baseline \in Int /\ Abs(p.baseline) <= Unit
                         /\ p.maxOpposite \in 0..Unit
  BY TargetPipelineAssumption DEF Profile, Score, Abs
<1> QED
  BY <1>1, <1>2 DEF Preferred, Sign

\* The baseline is within the cap and on the preferred side.
LEMMA BaselineBound ==
    ASSUME NEW c \in Policy
    PROVE  /\ Baseline(c) \in Int /\ Abs(Baseline(c)) <= c.cap
           /\ Preferred(c) = 1 => Baseline(c) >= 0
           /\ Preferred(c) = -1 => Baseline(c) <= 0
           /\ Preferred(c) = 0 => Baseline(c) = 0
<1>1. CASE c.profile = NoProfile
  BY <1>1, PolicyFacts DEF Baseline, Preferred, Abs
<1>2. CASE c.profile # NoProfile
  <2> DEFINE b == c.profile.baseline
             p == Portion(b, c.cap, Unit)
  <2>1. b \in Int /\ Abs(b) <= Unit /\ c.cap \in Nat /\ Unit \in Nat \ {0}
    BY <1>2, PolicyFacts, TargetPipelineAssumption
  <2>2. /\ p \in Int /\ Abs(p) <= c.cap
        /\ b >= 0 => p >= 0
        /\ b <= 0 => p <= 0
    <3> HIDE DEF b
    <3> QED
      BY <2>1, PortionOfCap
  <2>3. Baseline(c) = p /\ Preferred(c) = Sign(b)
    BY <1>2 DEF Baseline, Preferred
  <2> HIDE DEF b, p
  <2> QED
    BY <2>1, <2>2, <2>3 DEF Sign, Abs
<1> QED
  BY <1>1, <1>2

LEMMA KeptFractionType ==
    ASSUME NEW aligned \in Int
    PROVE  KeptFraction(aligned) \in 0..Unit
BY TargetPipelineAssumption DEF KeptFraction

\* Worse trends keep less.
LEMMA KeptFractionMonotone ==
    ASSUME NEW a \in Int, NEW b \in Int, a <= b
    PROVE  KeptFraction(a) <= KeptFraction(b)
BY TargetPipelineAssumption DEF KeptFraction

\* An opposite target is no more than the largest one.
LEMMA OppositeTargetBound ==
    ASSUME NEW most \in Nat, NEW aligned \in Score, aligned <= -EntryTrend
    PROVE  OppositeTarget(most, aligned) \in Nat /\ OppositeTarget(most, aligned) <= most
<1> DEFINE beyond == Abs(aligned) - EntryTrend
           room == Unit - EntryTrend
<1>1. beyond \in Nat /\ room \in Nat \ {0} /\ beyond <= room
  BY TargetPipelineAssumption DEF Score, Abs
<1>2. OppositeTarget(most, aligned) = (most * beyond) \div room
  BY DEF OppositeTarget
<1> HIDE DEF beyond, room
<1>3. most * beyond \in Nat /\ most * beyond <= most * room
  BY <1>1
<1> DEFINE m == most * beyond
<1> HIDE DEF m
<1>4. m \in Nat /\ m <= most * room
  BY <1>3 DEF m
<1> QED
  BY <1>1, <1>2, <1>4, DivBound DEF m

\* And it grows as the trend gets worse.
LEMMA OppositeTargetMonotone ==
    ASSUME NEW most \in Nat, NEW a \in Score, NEW b \in Score, a <= b, b <= -EntryTrend
    PROVE  OppositeTarget(most, b) <= OppositeTarget(most, a)
<1> DEFINE beyond(x) == Abs(x) - EntryTrend
           room == Unit - EntryTrend
           m == most * beyond(a)
           n == most * beyond(b)
<1>1. beyond(a) \in Nat /\ beyond(b) \in Nat /\ room \in Nat \ {0} /\ beyond(b) <= beyond(a)
  BY TargetPipelineAssumption DEF Score, Abs
<1>2. OppositeTarget(most, a) = m \div room /\ OppositeTarget(most, b) = n \div room
  BY DEF OppositeTarget
<1> HIDE DEF beyond, room
<1>3. m \in Nat /\ n \in Nat /\ n <= m
  BY <1>1
<1> HIDE DEF m, n
<1> QED
  BY <1>1, <1>2, <1>3, DivMonotone

\* The gate keeps a target or drops it, and leaves it on the position's side.
LEMMA GateFacts ==
    ASSUME NEW p \in Int, NEW t \in Int
    PROVE  /\ EnforceFlatBeforeReverse(p, t) \in {0, t}
           /\ p > 0 => EnforceFlatBeforeReverse(p, t) >= 0
           /\ p < 0 => EnforceFlatBeforeReverse(p, t) <= 0
BY DEF EnforceFlatBeforeReverse

LEMMA GateMonotone ==
    ASSUME NEW p \in Int, NEW t \in Int, NEW u \in Int, t <= u
    PROVE  EnforceFlatBeforeReverse(p, t) <= EnforceFlatBeforeReverse(p, u)
BY DEF EnforceFlatBeforeReverse

LEMMA PortionType ==
    ASSUME NEW n \in Int, NEW part \in Nat, NEW whole \in Nat \ {0}
    PROVE  Portion(n, part, whole) \in Int
<1> DEFINE m == Abs(n) * part
           q == m \div whole
<1>1. m \in Nat
  BY DEF Abs
<1>2. Sign(n) \in {-1, 0, 1}
  BY DEF Sign
<1>3. Portion(n, part, whole) = Sign(n) * q
  BY DEF Portion
<1> HIDE DEF m
<1>4. q \in Nat
  BY <1>1
<1> HIDE DEF q
<1> QED
  BY <1>2, <1>3, <1>4

\* A larger part of a target is further from zero.
LEMMA PortionMonotone ==
    ASSUME NEW n \in Int, NEW whole \in Nat \ {0}, NEW less \in Nat, NEW more \in Nat, less <= more
    PROVE  /\ n >= 0 => Portion(n, less, whole) <= Portion(n, more, whole)
           /\ n <= 0 => Portion(n, more, whole) <= Portion(n, less, whole)
<1> DEFINE a == Abs(n)
           m(part) == a * part
           q(part) == m(part) \div whole
<1>1. a \in Nat
  BY DEF Abs
<1>2. m(less) \in Nat /\ m(more) \in Nat /\ m(less) <= m(more)
  <2> HIDE DEF a
  <2> QED
    BY <1>1
<1>3. /\ Portion(n, less, whole) = Sign(n) * q(less)
      /\ Portion(n, more, whole) = Sign(n) * q(more)
  BY DEF Portion
<1> HIDE DEF m
<1>4. q(less) \in Nat /\ q(more) \in Nat /\ q(less) <= q(more)
  BY <1>2, DivMonotone
<1> HIDE DEF q
<1> QED
  BY <1>3, <1>4 DEF Sign

\* The targets of the stages in their order: after de-risking, as requested by a
\* reversal, and as the funding stage is given it.
Kept(c, t) == IF c.features.deRisk THEN DeRisked(c, t) ELSE Baseline(c)
Wanted(c, t) == Requested(c, Kept(c, t), t)
Given(c, p, t) ==
    IF c.features.reversal THEN EnforceFlatBeforeReverse(p, Wanted(c, t)) ELSE Kept(c, t)

LEMMA TargetByStages ==
    ASSUME NEW c, NEW p, NEW t, NEW f
    PROVE  /\ DecideTarget(c, p, t, f).given = Given(c, p, t)
           /\ DecideTarget(c, p, t, f).target =
                IF c.features.funding THEN FundingBiased(c, p, Given(c, p, t), f) ELSE Given(c, p, t)
BY DEF DecideTarget, Given, Wanted, Kept

LEMMA AlignedType ==
    ASSUME NEW c \in Policy, NEW t \in Score
    PROVE  Preferred(c) * t \in Score /\ Preferred(c) * t \in Int /\ t \in Int
BY PolicyFacts, TargetPipelineAssumption DEF Score

\* Regimes keep a target within the cap and on the preferred side.
LEMMA KeptBound ==
    ASSUME NEW c \in Policy, NEW t \in Score
    PROVE  /\ Kept(c, t) \in Int /\ Abs(Kept(c, t)) <= c.cap
           /\ Preferred(c) = 1 => Kept(c, t) >= 0
           /\ Preferred(c) = -1 => Kept(c, t) <= 0
           /\ Preferred(c) = 0 => Kept(c, t) = 0
<1> DEFINE b == Baseline(c)
           k == KeptFraction(Preferred(c) * t)
           d == Portion(b, k, Unit)
<1>1. /\ b \in Int /\ Abs(b) <= c.cap /\ c.cap \in Nat
      /\ Preferred(c) = 1 => b >= 0
      /\ Preferred(c) = -1 => b <= 0
      /\ Preferred(c) = 0 => b = 0
      /\ Unit \in Nat \ {0}
  BY BaselineBound, PolicyFacts, TargetPipelineAssumption
<1>2. k \in 0..Unit
  BY AlignedType, KeptFractionType
<1>3. DeRisked(c, t) = d
  BY DEF DeRisked
<1> HIDE DEF b, k
<1>4. /\ d \in Int
      /\ b >= 0 => 0 <= d /\ d <= b
      /\ b <= 0 => b <= d /\ d <= 0
  BY <1>1, <1>2, PortionBound
<1> HIDE DEF d
<1> QED
  BY <1>1, <1>3, <1>4 DEF Kept, Abs, b

\* A reversal asks for no more than the cap.
LEMMA WantedBound ==
    ASSUME NEW c \in Policy, NEW t \in Score
    PROVE  Wanted(c, t) \in Int /\ Abs(Wanted(c, t)) <= c.cap
<1>1. Kept(c, t) \in Int /\ Abs(Kept(c, t)) <= c.cap /\ c.cap \in Nat
  BY KeptBound, PolicyFacts
<1>2. CASE c.profile = NoProfile
  <2>1. c.maxShort \in Nat /\ c.maxShort <= c.cap
    BY PolicyFacts
  <2>2. Wanted(c, t) = ShortRequest(c, Kept(c, t), t)
    BY <1>2 DEF Wanted, Requested
  <2>3. CASE t <= -EntryTrend
    <3> DEFINE o == OppositeTarget(c.maxShort, t)
    <3>1. o \in Nat /\ o <= c.maxShort
      BY <2>1, <2>3, OppositeTargetBound
    <3>2. Wanted(c, t) = -o
      BY <2>2, <2>3 DEF ShortRequest
    <3> HIDE DEF o
    <3> QED
      BY <1>1, <2>1, <3>1, <3>2 DEF Abs
  <2>4. CASE ~(t <= -EntryTrend)
    BY <1>1, <2>2, <2>4 DEF ShortRequest
  <2> QED
    BY <2>3, <2>4
<1>3. CASE c.profile # NoProfile
  <2> DEFINE n == c.profile.maxOpposite
             most == Portion(n, c.cap, Unit)
             o == OppositeTarget(most, Preferred(c) * t)
             reverses == c.profile.allowOpposite /\ Preferred(c) # 0 /\ Preferred(c) * t <= -EntryTrend
  <2>1. n \in Nat /\ n <= Unit /\ Unit \in Nat \ {0} /\ Preferred(c) \in {-1, 0, 1}
    BY <1>3, PolicyFacts, TargetPipelineAssumption
  <2>2. Wanted(c, t) = IF reverses THEN -Preferred(c) * o ELSE Kept(c, t)
    BY <1>3 DEF Wanted, Requested, ReversalRequest
  <2>3. most \in Nat /\ most <= c.cap
    <3>1. Abs(n) <= Unit
      BY <2>1 DEF Abs
    <3> HIDE DEF n
    <3>2. most \in Int /\ Abs(most) <= c.cap /\ most >= 0
      BY <1>1, <2>1, <3>1, PortionOfCap
    <3> HIDE DEF most
    <3> QED
      BY <3>2 DEF Abs
  <2> HIDE DEF most
  <2>4. Preferred(c) * t <= -EntryTrend => o \in Nat /\ o <= most
    BY <2>3, AlignedType, OppositeTargetBound
  <2> HIDE DEF o
  <2> QED
    BY <1>1, <2>1, <2>2, <2>3, <2>4 DEF Abs
<1> QED
  BY <1>2, <1>3

LEMMA FundingBound ==
    ASSUME NEW c \in Policy, NEW p \in Int, NEW t \in Int, NEW f \in Score
    PROVE  /\ FundingBiased(c, p, t, f) \in Int /\ Abs(FundingBiased(c, p, t, f)) <= c.cap
           /\ p > 0 => FundingBiased(c, p, t, f) >= 0
           /\ p < 0 => FundingBiased(c, p, t, f) <= 0
           /\ \A u \in Int : t <= u => FundingBiased(c, p, t, f) <= FundingBiased(c, p, u, f)
<1> DEFINE shift == Portion(-f, c.cap * MaxShift, Unit * Unit)
           clip(x) == Larger(-c.cap, Smaller(c.cap, x + shift))
<1>1. c.cap \in Nat
  BY PolicyFacts
<1>2. shift \in Int
  <2>1. -f \in Int /\ c.cap * MaxShift \in Nat /\ Unit * Unit \in Nat \ {0}
    BY <1>1, TargetPipelineAssumption DEF Score
  <2> QED
    BY <2>1, PortionType
<1>3. \A x : FundingBiased(c, p, x, f) = EnforceFlatBeforeReverse(p, clip(x))
  BY DEF FundingBiased
<1> HIDE DEF shift
<1>4. \A x \in Int : clip(x) \in Int /\ Abs(clip(x)) <= c.cap
  BY <1>1, <1>2 DEF Larger, Smaller, Abs
<1>5. \A x, y \in Int : x <= y => clip(x) <= clip(y)
  BY <1>1, <1>2 DEF Larger, Smaller
<1> HIDE DEF clip
<1>6. /\ EnforceFlatBeforeReverse(p, clip(t)) \in {0, clip(t)}
      /\ p > 0 => EnforceFlatBeforeReverse(p, clip(t)) >= 0
      /\ p < 0 => EnforceFlatBeforeReverse(p, clip(t)) <= 0
  BY <1>4, GateFacts
<1>7. \A u \in Int : t <= u => EnforceFlatBeforeReverse(p, clip(t)) <= EnforceFlatBeforeReverse(p, clip(u))
  BY <1>4, <1>5, GateMonotone
<1> QED
  BY <1>1, <1>3, <1>4, <1>6, <1>7 DEF Abs

-----------------------------------------------------------------------------
(* The trend.                                                              *)

\* Along the preferred direction the regimes are monotone.
LEMMA KeptMonotone ==
    ASSUME NEW c \in Policy, NEW t \in Score, NEW u \in Score,
           Preferred(c) * t <= Preferred(c) * u
    PROVE  /\ Preferred(c) = 1 => Kept(c, t) <= Kept(c, u)
           /\ Preferred(c) = -1 => Kept(c, u) <= Kept(c, t)
<1> DEFINE b == Baseline(c)
           k(x) == KeptFraction(Preferred(c) * x)
<1>1. /\ b \in Int /\ Unit \in Nat \ {0}
      /\ Preferred(c) = 1 => b >= 0
      /\ Preferred(c) = -1 => b <= 0
  BY BaselineBound, TargetPipelineAssumption
<1>2. k(t) \in Nat /\ k(u) \in Nat /\ k(t) <= k(u)
  <2>1. k(t) \in 0..Unit /\ k(u) \in 0..Unit
    BY AlignedType, KeptFractionType
  <2>2. k(t) <= k(u)
    BY AlignedType, KeptFractionMonotone
  <2> QED
    BY <1>1, <2>1, <2>2
<1>3. DeRisked(c, t) = Portion(b, k(t), Unit) /\ DeRisked(c, u) = Portion(b, k(u), Unit)
  BY DEF DeRisked
<1> HIDE DEF b, k
<1>4. /\ b >= 0 => Portion(b, k(t), Unit) <= Portion(b, k(u), Unit)
      /\ b <= 0 => Portion(b, k(u), Unit) <= Portion(b, k(t), Unit)
  BY <1>1, <1>2, PortionMonotone
<1> QED
  BY <1>1, <1>3, <1>4 DEF Kept, b

\* Whether a trend reverses the target, and the target it then asks for against
\* the preferred direction.
Reverses(c, t) ==
    /\ Preferred(c) * t <= -EntryTrend
    /\ c.profile # NoProfile => c.profile.allowOpposite /\ Preferred(c) # 0

Most(c) ==
    IF c.profile = NoProfile THEN c.maxShort ELSE Portion(c.profile.maxOpposite, c.cap, Unit)

LEMMA WantedByReversal ==
    ASSUME NEW c \in Policy, NEW t \in Score
    PROVE  /\ Most(c) \in Nat
           /\ Wanted(c, t) =
                IF Reverses(c, t) THEN -Preferred(c) * OppositeTarget(Most(c), Preferred(c) * t)
                ELSE Kept(c, t)
<1>1. CASE c.profile = NoProfile
  <2>1. Preferred(c) = 1 /\ Most(c) = c.maxShort /\ t \in Int
    BY <1>1, AlignedType DEF Preferred, Most
  <2>2. Preferred(c) * t = t
    BY <2>1
  <2>3. Wanted(c, t) = IF Reverses(c, t) THEN -OppositeTarget(c.maxShort, t) ELSE Kept(c, t)
    BY <1>1, <2>2 DEF Wanted, Requested, ShortRequest, Reverses
  <2>4. Reverses(c, t) => OppositeTarget(c.maxShort, t) \in Nat
    BY <2>2, PolicyFacts, OppositeTargetBound DEF Reverses
  <2> DEFINE o == OppositeTarget(c.maxShort, t)
  <2>5. OppositeTarget(Most(c), Preferred(c) * t) = o
    BY <2>1, <2>2
  <2> HIDE DEF o
  <2>6. Reverses(c, t) => -o = -Preferred(c) * o
    BY <2>1, <2>4 DEF o
  <2> QED
    BY <2>1, <2>3, <2>5, <2>6, PolicyFacts DEF o
<1>2. CASE c.profile # NoProfile
  <2> DEFINE n == c.profile.maxOpposite
  <2>1. n \in Nat /\ Abs(n) <= Unit /\ Unit \in Nat \ {0} /\ c.cap \in Nat
    BY <1>2, PolicyFacts, TargetPipelineAssumption DEF Abs
  <2>2. Portion(n, c.cap, Unit) \in Int /\ Portion(n, c.cap, Unit) >= 0
    <3> HIDE DEF n
    <3> QED
      BY <2>1, PortionOfCap
  <2>3. Most(c) = Portion(n, c.cap, Unit)
    BY <1>2 DEF Most
  <2>4. Most(c) \in Nat
    BY <2>2, <2>3
  <2> QED
    BY <1>2, <2>4 DEF Wanted, Requested, ReversalRequest, Reverses, Most
<1> QED
  BY <1>1, <1>2

\* So are the requests: beyond the threshold a worse trend asks for more of the
\* opposite side, and before it for no less than nothing of the preferred one.
LEMMA WantedMonotone ==
    ASSUME NEW c \in Policy, NEW t \in Score, NEW u \in Score,
           Preferred(c) * t <= Preferred(c) * u
    PROVE  /\ Preferred(c) = 1 => Wanted(c, t) <= Wanted(c, u)
           /\ Preferred(c) = -1 => Wanted(c, u) <= Wanted(c, t)
<1> DEFINE a == Preferred(c) * t
           b == Preferred(c) * u
           o(x) == OppositeTarget(Most(c), x)
<1>1. a \in Score /\ b \in Score /\ a \in Int /\ b \in Int /\ a <= b /\ EntryTrend \in Nat
  BY AlignedType, TargetPipelineAssumption
<1>2. Most(c) \in Nat /\ Preferred(c) \in {-1, 0, 1}
  BY WantedByReversal, PolicyFacts
<1>3. /\ Wanted(c, t) = IF Reverses(c, t) THEN -Preferred(c) * o(a) ELSE Kept(c, t)
      /\ Wanted(c, u) = IF Reverses(c, u) THEN -Preferred(c) * o(b) ELSE Kept(c, u)
  BY WantedByReversal
<1>4. /\ Reverses(c, u) => Reverses(c, t)
      /\ Reverses(c, t) => a <= -EntryTrend
      /\ Reverses(c, u) => b <= -EntryTrend
  BY <1>1 DEF Reverses
<1> HIDE DEF a, b
<1>5. /\ a <= -EntryTrend => o(a) \in Nat
      /\ b <= -EntryTrend => o(b) \in Nat /\ o(b) <= o(a)
  BY <1>1, <1>2, OppositeTargetBound, OppositeTargetMonotone
<1>6. /\ Kept(c, t) \in Int /\ Kept(c, u) \in Int
      /\ Preferred(c) = 1 => Kept(c, t) <= Kept(c, u) /\ Kept(c, u) >= 0
      /\ Preferred(c) = -1 => Kept(c, u) <= Kept(c, t) /\ Kept(c, u) <= 0
  BY KeptBound, KeptMonotone
<1> HIDE DEF o
<1>7. CASE Reverses(c, u)
  BY <1>2, <1>3, <1>4, <1>5, <1>7
<1>8. CASE ~Reverses(c, u) /\ Reverses(c, t)
  BY <1>2, <1>3, <1>4, <1>5, <1>6, <1>8
<1>9. CASE ~Reverses(c, u) /\ ~Reverses(c, t)
  BY <1>3, <1>6, <1>9
<1> QED
  BY <1>7, <1>8, <1>9

LEMMA GivenFacts ==
    ASSUME NEW c \in Policy, NEW p \in Int, NEW t \in Score
    PROVE  /\ Given(c, p, t) \in Int /\ Abs(Given(c, p, t)) <= c.cap
           /\ c.features.reversal /\ p > 0 => Given(c, p, t) >= 0
           /\ c.features.reversal /\ p < 0 => Given(c, p, t) <= 0
<1>1. /\ Wanted(c, t) \in Int /\ Abs(Wanted(c, t)) <= c.cap /\ c.cap \in Nat
      /\ Kept(c, t) \in Int /\ Abs(Kept(c, t)) <= c.cap
  BY WantedBound, KeptBound, PolicyFacts
<1> DEFINE g == EnforceFlatBeforeReverse(p, Wanted(c, t))
<1>2. /\ g \in {0, Wanted(c, t)}
      /\ p > 0 => g >= 0
      /\ p < 0 => g <= 0
  BY <1>1, GateFacts
<1>3. Given(c, p, t) = IF c.features.reversal THEN g ELSE Kept(c, t)
  BY DEF Given
<1> HIDE DEF g
<1> QED
  BY <1>1, <1>2, <1>3 DEF Abs

LEMMA GivenMonotone ==
    ASSUME NEW c \in Policy, NEW p \in Int, NEW t \in Score, NEW u \in Score,
           Preferred(c) * t <= Preferred(c) * u
    PROVE  /\ Preferred(c) = 1 => Given(c, p, t) <= Given(c, p, u)
           /\ Preferred(c) = -1 => Given(c, p, u) <= Given(c, p, t)
<1>1. Wanted(c, t) \in Int /\ Wanted(c, u) \in Int
  BY WantedBound
<1>2. /\ Wanted(c, t) <= Wanted(c, u) =>
            EnforceFlatBeforeReverse(p, Wanted(c, t)) <= EnforceFlatBeforeReverse(p, Wanted(c, u))
      /\ Wanted(c, u) <= Wanted(c, t) =>
            EnforceFlatBeforeReverse(p, Wanted(c, u)) <= EnforceFlatBeforeReverse(p, Wanted(c, t))
  BY <1>1, GateMonotone
<1>3. /\ Preferred(c) = 1 => Wanted(c, t) <= Wanted(c, u) /\ Kept(c, t) <= Kept(c, u)
      /\ Preferred(c) = -1 => Wanted(c, u) <= Wanted(c, t) /\ Kept(c, u) <= Kept(c, t)
  BY WantedMonotone, KeptMonotone
<1> QED
  BY <1>2, <1>3 DEF Given

\* What a decision targets: within the cap, on the position's side where a stage
\* has a gate, on the preferred side where none has.
LEMMA TargetFacts ==
    ASSUME NEW c \in Policy, NEW p \in Int, NEW t \in Score, NEW f \in Score
    PROVE  LET d == DecideTarget(c, p, t, f)
           IN  /\ d.given \in Int /\ Abs(d.given) <= c.cap
               /\ d.target \in Int /\ Abs(d.target) <= c.cap
               /\ Gated(c) => (p > 0 => d.target >= 0) /\ (p < 0 => d.target <= 0)
               /\ ~Gated(c) => /\ Preferred(c) = 1 => d.target >= 0
                               /\ Preferred(c) = -1 => d.target <= 0
                               /\ Preferred(c) = 0 => d.target = 0
<1> DEFINE d == DecideTarget(c, p, t, f)
           g == Given(c, p, t)
           b == FundingBiased(c, p, g, f)
<1>1. /\ g \in Int /\ Abs(g) <= c.cap
      /\ c.features.reversal /\ p > 0 => g >= 0
      /\ c.features.reversal /\ p < 0 => g <= 0
  BY GivenFacts
<1>2. /\ b \in Int /\ Abs(b) <= c.cap
      /\ p > 0 => b >= 0
      /\ p < 0 => b <= 0
  <2> HIDE DEF g
  <2> QED
    BY <1>1, FundingBound
<1>3. d.given = g /\ d.target = IF c.features.funding THEN b ELSE g
  BY TargetByStages
<1>4. /\ Preferred(c) = 1 => Kept(c, t) >= 0
      /\ Preferred(c) = -1 => Kept(c, t) <= 0
      /\ Preferred(c) = 0 => Kept(c, t) = 0
  BY KeptBound
<1>5. ~c.features.reversal => g = Kept(c, t)
  BY DEF Given
<1> HIDE DEF d, g, b
<1> QED
  BY <1>1, <1>2, <1>3, <1>4, <1>5 DEF Gated, d

LEMMA TargetMonotone ==
    ASSUME NEW c \in Policy, NEW p \in Int, NEW t \in Score, NEW u \in Score, NEW f \in Score,
           Preferred(c) * t <= Preferred(c) * u
    PROVE  Preferred(c) * DecideTarget(c, p, t, f).target
             <= Preferred(c) * DecideTarget(c, p, u, f).target
<1> DEFINE x == DecideTarget(c, p, t, f).target
           y == DecideTarget(c, p, u, f).target
           g == Given(c, p, t)
           h == Given(c, p, u)
<1>1. /\ g \in Int /\ h \in Int
      /\ Preferred(c) = 1 => g <= h
      /\ Preferred(c) = -1 => h <= g
  BY GivenFacts, GivenMonotone
<1>2. x = (IF c.features.funding THEN FundingBiased(c, p, g, f) ELSE g)
      /\ y = (IF c.features.funding THEN FundingBiased(c, p, h, f) ELSE h)
  BY TargetByStages
<1> HIDE DEF g, h
<1>3. /\ g <= h => FundingBiased(c, p, g, f) <= FundingBiased(c, p, h, f)
      /\ h <= g => FundingBiased(c, p, h, f) <= FundingBiased(c, p, g, f)
      /\ FundingBiased(c, p, g, f) \in Int /\ FundingBiased(c, p, h, f) \in Int
  BY <1>1, FundingBound
<1> HIDE DEF x, y
<1>4. /\ x \in Int /\ y \in Int
      /\ Preferred(c) = 1 => x <= y
      /\ Preferred(c) = -1 => y <= x
  BY <1>1, <1>2, <1>3
<1>5. Preferred(c) \in {-1, 0, 1}
  BY PolicyFacts
<1>6. Preferred(c) * x <= Preferred(c) * y
  BY <1>4, <1>5
<1> QED
  BY <1>6 DEF x, y

-----------------------------------------------------------------------------
(* The ladder and the position.                                            *)

\* What is left at a slot of a ladder.
Left(l, slot) == IF l[slot] = NoOrder THEN 0 ELSE l[slot].qty

\* The side whose slots follow the slot first offers no more than a bound: the
\* quantities up to each level, added up, have upper bounds that end within it.
Covered(l, first, bound) ==
    \E upTo \in [0..Levels -> Nat] :
        /\ \A j, k \in 0..Levels : j <= k => upTo[j] <= upTo[k]
        /\ \A k \in 1..Levels : upTo[k - 1] + Left(l, first + k) <= upTo[k]
        /\ upTo[Levels] <= bound

\* The quantities of the levels add up to no more than the capacity.
LEMMA LevelsCovered ==
    ASSUME NEW l, NEW first \in Nat, NEW lot \in Nat, NEW capacity \in Nat,
           \A k \in 1..Levels : /\ Left(l, first + k) \in Nat
                                /\ Left(l, first + k) <= LevelQuantity(k, lot, capacity)
    PROVE  Covered(l, first, capacity)
<1> DEFINE upTo == [k \in 0..Levels |-> Smaller(k * lot, capacity)]
<1>1. Levels \in Nat \ {0} /\ MinQuantity \in Nat \ {0}
  BY OrdersAssumption, AdaptiveGridAssumption
<1>2. \A k \in 0..Levels : k * lot \in Nat
  BY <1>1
<1>3. \A j, k \in 0..Levels : j <= k => j * lot <= k * lot
  BY <1>1
<1>4. upTo \in [0..Levels -> Nat]
  BY <1>2 DEF Smaller
<1>5. \A j, k \in 0..Levels : j <= k => upTo[j] <= upTo[k]
  BY <1>2, <1>3 DEF Smaller
<1>6. ASSUME NEW k \in 1..Levels
      PROVE  upTo[k - 1] + Left(l, first + k) <= upTo[k]
  <2> DEFINE below == (k - 1) * lot
  <2>1. k * lot = below + lot /\ below \in Nat /\ k - 1 \in 0..Levels /\ k \in 0..Levels
    BY <1>1
  <2>2. /\ LevelQuantity(k, lot, capacity) =
            IF Smaller(lot, capacity - below) >= MinQuantity THEN Smaller(lot, capacity - below) ELSE 0
        /\ upTo[k - 1] = Smaller(below, capacity) /\ upTo[k] = Smaller(below + lot, capacity)
    BY <2>1 DEF LevelQuantity
  <2> HIDE DEF below, upTo
  <2>3. Smaller(below, capacity) + LevelQuantity(k, lot, capacity) <= Smaller(below + lot, capacity)
    BY <1>1, <2>1, <2>2 DEF Smaller
  <2>4. /\ Smaller(below, capacity) \in Nat /\ Smaller(below + lot, capacity) \in Nat
        /\ LevelQuantity(k, lot, capacity) \in Nat
    BY <1>1, <2>1, <2>2 DEF Smaller
  <2>5. Left(l, first + k) \in Nat /\ Left(l, first + k) <= LevelQuantity(k, lot, capacity)
    OBVIOUS
  <2> QED
    BY <2>2, <2>3, <2>4, <2>5
<1>7. upTo[Levels] <= capacity
  BY <1>1, <1>2 DEF Smaller
<1> HIDE DEF upTo
<1> QED
  BY <1>4, <1>5, <1>6, <1>7 DEF Covered

Intent == [price : {CHOOSE p \in Prices : TRUE}, qty : Nat \ {0}, reduceOnly : BOOLEAN]

LEMMA LotType ==
    ASSUME NEW e \in Int
    PROVE  SkewedLot(Larger(e, 0)) \in Nat
<1> DEFINE m == Smaller(Larger(e, 0), MaxInventory)
           full == 100 * MaxInventory
           n == OrderQuantity * (full - SideSkew * m)
<1>1. m \in Nat /\ m <= MaxInventory /\ MaxInventory \in Nat \ {0} /\ SideSkew \in 0..100
      /\ OrderQuantity \in Nat
  BY AdaptiveGridAssumption DEF Smaller, Larger
<1>2. full - SideSkew * m \in Nat
  <2> HIDE DEF m
  <2>1. SideSkew * m <= 100 * m /\ 100 * m <= full /\ SideSkew * m \in Nat
    BY <1>1
  <2> QED
    BY <1>1, <2>1
<1>3. n \in Nat
  <2> DEFINE rest == full - SideSkew * m
  <2> HIDE DEF rest
  <2>1. OrderQuantity * rest \in Nat
    BY <1>1, <1>2 DEF rest
  <2> QED
    BY <2>1 DEF rest
<1>4. SkewedLot(Larger(e, 0)) = n \div full
  BY DEF SkewedLot
<1> HIDE DEF n
<1> QED
  BY <1>1, <1>3, <1>4

\* The ladder of a decision: its reduce-only side is covered by the position.
LEMMA DecidedLadder ==
    ASSUME NEW c \in Policy, position \in Int, NEW target \in Int
    PROVE  LET l == BuildLadder(DecidedState(c, target))
           IN  /\ l \in [Slots -> Intent \cup {NoOrder}]
               /\ target >= 0 /\ position >= 0 => Covered(l, Levels, position)
               /\ target <= 0 /\ position <= 0 => Covered(l, 0, -position)
<1> DEFINE s == DecidedState(c, target)
           l == BuildLadder(s)
<1>1. /\ s.target = target /\ s.basis = position
      /\ s.bidLot \in Nat /\ s.askLot \in Nat
      /\ s.price = CHOOSE p \in Prices : TRUE
  <2>1. position - target \in Int /\ target - position \in Int /\ OrderQuantity \in Nat
    BY AdaptiveGridAssumption
  <2>2. BidLot(position, target) \in Nat /\ AskLot(position, target) \in Nat
    BY <2>1, LotType DEF BidLot, AskLot
  <2> QED
    BY <2>1, <2>2 DEF DecidedState
<1> HIDE DEF s
<1>2. Levels \in Nat \ {0} /\ MinQuantity \in Nat \ {0} /\ MaxInventory \in Nat
  BY OrdersAssumption, AdaptiveGridAssumption
<1>3. ASSUME NEW level \in Nat, NEW lot \in Nat, NEW capacity \in Int
      PROVE  LevelQuantity(level, lot, capacity) \in Nat
  <2> DEFINE used == (level - 1) * lot
             qty == Smaller(lot, capacity - used)
  <2>1. used \in Int
    BY <1>3
  <2> HIDE DEF used
  <2>2. qty \in Int
    BY <1>3, <2>1 DEF Smaller
  <2>3. LevelQuantity(level, lot, capacity) = IF qty >= MinQuantity THEN qty ELSE 0
    BY DEF LevelQuantity, used
  <2> HIDE DEF qty
  <2> QED
    BY <1>2, <2>2, <2>3
<1>4. BuyCapacity(s) \in Int /\ SellCapacity(s) \in Int
  BY <1>1, <1>2 DEF BuyCapacity, SellCapacity, Larger, Smaller
<1>5. ASSUME NEW slot \in Slots PROVE SlotQuantity(s, slot) \in Nat
  <2>1. LevelOf(slot) \in Nat
    BY <1>2 DEF LevelOf, Slots, IsBuy
  <2> QED
    BY <1>1, <1>3, <1>4, <2>1 DEF SlotQuantity
<1>6. l \in [Slots -> Intent \cup {NoOrder}]
  <2> SUFFICES ASSUME NEW slot \in Slots, SlotQuantity(s, slot) # 0
               PROVE  [price |-> s.price, qty |-> SlotQuantity(s, slot),
                       reduceOnly |-> IF IsBuy(slot) THEN BuyReduceOnly(s)
                                      ELSE SellReduceOnly(s)] \in Intent
    BY DEF BuildLadder
  <2>1. BuyReduceOnly(s) \in BOOLEAN /\ SellReduceOnly(s) \in BOOLEAN
    BY DEF BuyReduceOnly, SellReduceOnly
  <2> QED
    BY <1>1, <1>5, <2>1 DEF Intent
<1>7. ASSUME NEW slot \in Slots PROVE Left(l, slot) \in Nat /\ Left(l, slot) <= SlotQuantity(s, slot)
  <2>1. \/ l[slot] = NoOrder
        \/ l[slot].qty = SlotQuantity(s, slot)
    BY DEF BuildLadder
  <2> HIDE DEF l
  <2> QED
    BY <1>5, <2>1 DEF Left
<1>8. ASSUME target >= 0, position >= 0 PROVE Covered(l, Levels, position)
  <2>1. SellCapacity(s) = position
    BY <1>1, <1>8 DEF SellCapacity, SellReduceOnly, Larger
  <2>2. ASSUME NEW k \in 1..Levels
        PROVE  /\ Left(l, Levels + k) \in Nat
               /\ Left(l, Levels + k) <= LevelQuantity(k, s.askLot, position)
    <3>1. /\ Levels + k \in Slots /\ ~IsBuy(Levels + k) /\ LevelOf(Levels + k) = k
      BY <1>2 DEF Slots, IsBuy, LevelOf
    <3>2. SlotQuantity(s, Levels + k) = LevelQuantity(k, s.askLot, position)
      BY <2>1, <3>1 DEF SlotQuantity
    <3> HIDE DEF l
    <3> QED
      BY <1>7, <3>1, <3>2
  <2> HIDE DEF l
  <2> QED
    BY <1>1, <1>2, <1>8, <2>2, LevelsCovered
<1>9. ASSUME target <= 0, position <= 0 PROVE Covered(l, 0, -position)
  <2>1. BuyCapacity(s) = -position /\ -position \in Nat
    BY <1>1, <1>9 DEF BuyCapacity, BuyReduceOnly, Larger
  <2>2. ASSUME NEW k \in 1..Levels
        PROVE  /\ Left(l, 0 + k) \in Nat
               /\ Left(l, 0 + k) <= LevelQuantity(k, s.bidLot, -position)
    <3>1. /\ 0 + k = k /\ k \in Slots /\ IsBuy(k) /\ LevelOf(k) = k
      BY <1>2 DEF Slots, IsBuy, LevelOf
    <3>2. SlotQuantity(s, k) = LevelQuantity(k, s.bidLot, -position)
      BY <2>1, <3>1 DEF SlotQuantity
    <3> HIDE DEF l
    <3> QED
      BY <1>7, <3>1, <3>2
  <2> HIDE DEF l
  <2> QED
    BY <1>1, <1>2, <2>1, <2>2, LevelsCovered
<1> QED
  BY <1>6, <1>8, <1>9 DEF s

\* A fill takes what it fills off the ladder and off the position it reduces.
LEMMA FillKeepsCover ==
    ASSUME NEW l \in [Slots -> Intent \cup {NoOrder}], NEW first \in {0, Levels},
           NEW m \in 1..Levels, NEW qty \in Nat, NEW bound \in Nat, NEW after,
           after \in [Slots -> Intent \cup {NoOrder}],
           qty <= Left(l, first + m), Left(after, first + m) <= Left(l, first + m) - qty,
           \A slot \in Slots : slot # first + m => after[slot] = l[slot],
           Covered(l, first, bound)
    PROVE  bound - qty \in Nat /\ Covered(after, first, bound - qty)
<1>1. Levels \in Nat \ {0} /\ first \in Nat
  BY OrdersAssumption
<1>2. PICK upTo \in [0..Levels -> Nat] :
        /\ \A j, k \in 0..Levels : j <= k => upTo[j] <= upTo[k]
        /\ \A k \in 1..Levels : upTo[k - 1] + Left(l, first + k) <= upTo[k]
        /\ upTo[Levels] <= bound
  BY DEF Covered
<1>3. \A k \in 1..Levels : first + k \in Slots
  BY <1>1 DEF Slots
<1>4. \A k \in 1..Levels : Left(l, first + k) \in Nat /\ Left(after, first + k) \in Nat
  BY <1>3 DEF Left, Intent
<1>5. \A k \in 1..Levels : k # m => Left(after, first + k) = Left(l, first + k)
  BY <1>1, <1>3 DEF Left
<1>6. \A k \in 0..Levels : upTo[k] \in Nat
  OBVIOUS
<1>7. \A k \in 1..Levels : k - 1 \in 0..Levels /\ k \in 0..Levels
  BY <1>1
<1> DEFINE less == [k \in 0..Levels |-> IF k < m THEN upTo[k] ELSE upTo[k] - qty]
<1>8. upTo[m - 1] + qty <= upTo[m]
  BY <1>2, <1>4, <1>6, <1>7
<1>9. \A k \in 0..Levels : /\ k >= m => upTo[m] <= upTo[k] /\ qty <= upTo[k]
                           /\ k < m => upTo[k] <= upTo[m - 1]
  <2>1. \A k \in 0..Levels : /\ k >= m => upTo[m] <= upTo[k]
                             /\ k < m => upTo[k] <= upTo[m - 1]
    BY <1>2, <1>7
  <2> QED
    BY <1>6, <1>7, <1>8, <2>1
<1>10. less \in [0..Levels -> Nat]
  BY <1>6, <1>9
<1>11. \A j, k \in 0..Levels : j <= k => less[j] <= less[k]
  <2> SUFFICES ASSUME NEW j \in 0..Levels, NEW k \in 0..Levels, j <= k
               PROVE  less[j] <= less[k]
    OBVIOUS
  <2>1. upTo[j] <= upTo[k] /\ upTo[j] \in Nat /\ upTo[k] \in Nat
    BY <1>2, <1>6
  <2>2. m - 1 \in 0..Levels /\ upTo[m - 1] \in Nat /\ upTo[m] \in Nat
    BY <1>6, <1>7
  <2>3. CASE j < m /\ k >= m
    <3>1. upTo[j] <= upTo[m - 1] /\ upTo[m] <= upTo[k]
      BY <1>9, <2>3
    <3> QED
      BY <1>8, <2>1, <2>2, <2>3, <3>1
  <2>4. CASE ~(j < m /\ k >= m)
    BY <2>1, <2>4
  <2> QED
    BY <2>3, <2>4
<1>12. ASSUME NEW k \in 1..Levels
       PROVE  less[k - 1] + Left(after, first + k) <= less[k]
  <2>1. /\ upTo[k - 1] + Left(l, first + k) <= upTo[k]
        /\ upTo[k - 1] \in Nat /\ upTo[k] \in Nat
        /\ Left(l, first + k) \in Nat /\ Left(after, first + k) \in Nat
        /\ k - 1 \in 0..Levels /\ k \in 0..Levels
    BY <1>2, <1>4, <1>6, <1>7
  <2>2. /\ less[k - 1] = IF k - 1 < m THEN upTo[k - 1] ELSE upTo[k - 1] - qty
        /\ less[k] = IF k < m THEN upTo[k] ELSE upTo[k] - qty
    BY <2>1
  <2> HIDE DEF less
  <2>3. CASE k < m
    BY <1>5, <2>1, <2>2, <2>3
  <2>4. CASE k = m
    BY <2>1, <2>2, <2>4
  <2>5. CASE k > m
    BY <1>5, <2>1, <2>2, <2>5
  <2> QED
    BY <2>3, <2>4, <2>5
<1>13. less[Levels] <= bound - qty /\ bound - qty \in Nat
  <2>1. Levels \in 0..Levels /\ Levels >= m
    BY <1>1
  <2> QED
    BY <1>2, <1>6, <1>9, <2>1
<1> HIDE DEF less
<1> QED
  BY <1>10, <1>11, <1>12, <1>13 DEF Covered

\* What is filled on the other side can only widen the bound.
LEMMA OtherSideKeepsCover ==
    ASSUME NEW l, NEW first \in {0, Levels}, NEW bound \in Nat, NEW more \in Nat, NEW after,
           \A k \in 1..Levels : after[first + k] = l[first + k],
           Covered(l, first, bound)
    PROVE  Covered(after, first, bound + more)
<1>1. Levels \in Nat \ {0}
  BY OrdersAssumption
<1>2. PICK upTo \in [0..Levels -> Nat] :
        /\ \A j, k \in 0..Levels : j <= k => upTo[j] <= upTo[k]
        /\ \A k \in 1..Levels : upTo[k - 1] + Left(l, first + k) <= upTo[k]
        /\ upTo[Levels] <= bound
  BY DEF Covered
<1>3. \A k \in 1..Levels : Left(after, first + k) = Left(l, first + k)
  BY DEF Left
<1>4. upTo[Levels] <= bound + more
  BY <1>1, <1>2
<1> QED
  BY <1>2, <1>3, <1>4 DEF Covered

-----------------------------------------------------------------------------
(* The account.                                                            *)

SellsCovered == position >= 0 /\ Covered(ladder, Levels, position)
BuysCovered == position <= 0 /\ Covered(ladder, 0, -position)

\* The ladder of the last decision rests on one side of flat.  A policy without
\* a gate stays on the side that it prefers, because its targets do.
IInv ==
    /\ policy \in Policies
    /\ position \in Int
    /\ trend \in Trends /\ funding \in Fundings
    /\ ladder \in [Slots -> Intent \cup {NoOrder}]
    /\ SellsCovered \/ BuysCovered
    /\ ~Gated(policy) => /\ Preferred(policy) = 1 => SellsCovered
                         /\ Preferred(policy) = -1 => BuysCovered

LEMMA EmptyIsCovered ==
    ASSUME NEW first \in {0, Levels}, NEW bound \in Nat
    PROVE  Covered(EmptyLadder, first, bound)
<1>1. Levels \in Nat \ {0}
  BY OrdersAssumption
<1>2. \A k \in 1..Levels : Left(EmptyLadder, first + k) = 0
  BY <1>1 DEF Left, EmptyLadder, Slots
<1>3. 0..Levels \in SUBSET Nat /\ Levels \in 0..Levels
  BY <1>1
<1> DEFINE upTo == [k \in 0..Levels |-> 0]
<1>4. /\ upTo \in [0..Levels -> Nat]
      /\ \A k \in 0..Levels : upTo[k] = 0
      /\ \A k \in 1..Levels : k \in 0..Levels /\ k - 1 \in 0..Levels
  BY <1>1
<1> HIDE DEF upTo
<1> QED
  BY <1>2, <1>3, <1>4 DEF Covered

LEMMA InitEstablishes == Init => IInv
<1> SUFFICES ASSUME Init PROVE IInv
  OBVIOUS
<1>1. policy \in Policies /\ policy \in Policy /\ policy.cap \in Nat
  BY TargetTrackingAssumption, PolicyFacts DEF Init
<1>2. position \in Int /\ (~Gated(policy) => position = 0)
  BY <1>1 DEF Init
<1>3. Levels \in Nat \ {0}
  BY OrdersAssumption
<1>4. position >= 0 => SellsCovered
  BY <1>2, <1>3, EmptyIsCovered DEF Init, SellsCovered
<1>5. position <= 0 => BuysCovered
  <2>1. position <= 0 => -position \in Nat
    BY <1>2
  <2> QED
    BY <1>2, <2>1, EmptyIsCovered DEF Init, BuysCovered
<1>6. ladder \in [Slots -> Intent \cup {NoOrder}]
  BY DEF Init, EmptyLadder
<1> QED
  BY <1>1, <1>2, <1>4, <1>5, <1>6 DEF Init, IInv

LEMMA DecideKeeps ==
    ASSUME IInv, DecideLadder
    PROVE  IInv'
<1>1. policy \in Policy /\ trend \in Score /\ funding \in Score /\ position \in Int
  BY TargetTrackingAssumption DEF IInv
<1> DEFINE d == DecideTarget(policy, position, trend, funding)
<1>2. /\ ~Refused(policy, position, d)
      /\ ladder' = BuildLadder(DecidedState(policy, d.target))
      /\ policy' = policy /\ position' = position /\ trend' = trend /\ funding' = funding
  BY DEF DecideLadder
<1>3. /\ d.target \in Int
      /\ ~Gated(policy) => /\ Preferred(policy) = 1 => d.target >= 0
                           /\ Preferred(policy) = -1 => d.target <= 0
  BY <1>1, TargetFacts
<1>4. (position > 0 => d.target >= 0) /\ (position < 0 => d.target <= 0)
  BY <1>1, <1>2, <1>3 DEF Refused
<1>5. /\ ladder' \in [Slots -> Intent \cup {NoOrder}]
      /\ d.target >= 0 /\ position >= 0 => Covered(ladder', Levels, position)
      /\ d.target <= 0 /\ position <= 0 => Covered(ladder', 0, -position)
  BY <1>1, <1>2, <1>3, DecidedLadder
<1> HIDE DEF d
<1>6. /\ d.target >= 0 /\ position >= 0 => SellsCovered'
      /\ d.target <= 0 /\ position <= 0 => BuysCovered'
  BY <1>2, <1>5 DEF SellsCovered, BuysCovered
<1>7. SellsCovered' \/ BuysCovered'
  BY <1>1, <1>3, <1>4, <1>6
<1>8. ~Gated(policy) => /\ Preferred(policy) = 1 => SellsCovered'
                        /\ Preferred(policy) = -1 => BuysCovered'
  BY <1>3, <1>6 DEF IInv, SellsCovered, BuysCovered
<1> QED
  BY <1>1, <1>2, <1>5, <1>7, <1>8 DEF IInv

\* What a fill does to the slot it fills, and that it leaves the others alone.
LEMMA FilledLadder ==
    ASSUME IInv, NEW slot \in Slots, NEW qty \in 1..MaxInventory, Fill(slot, qty)
    PROVE  /\ qty \in Nat /\ qty <= Left(ladder, slot)
           /\ Left(ladder', slot) <= Left(ladder, slot) - qty
           /\ \A other \in Slots : other # slot => ladder'[other] = ladder[other]
           /\ ladder' \in [Slots -> Intent \cup {NoOrder}]
           /\ position' = IF IsBuy(slot) THEN position + qty ELSE position - qty
<1> DEFINE o == ladder[slot]
           rest == [o EXCEPT !.qty = o.qty - qty]
<1>1. o # NoOrder /\ o \in Intent /\ qty \in 1..o.qty /\ position \in Int
  BY DEF IInv, Fill, Placed
<1>2. o.qty \in Nat /\ qty \in Nat /\ qty <= o.qty
  BY <1>1 DEF Intent
<1>3. ladder' = [ladder EXCEPT ![slot] = IF qty = o.qty THEN NoOrder ELSE rest]
  BY DEF Fill
<1>4. qty # o.qty => rest \in Intent /\ rest.qty = o.qty - qty
  BY <1>1, <1>2 DEF Intent
<1> HIDE DEF o, rest
<1>5. ladder'[slot] = IF qty = o.qty THEN NoOrder ELSE rest
  BY <1>3 DEF IInv
<1>6. \A other \in Slots : other # slot => ladder'[other] = ladder[other]
  BY <1>3 DEF IInv
<1>7. ladder' \in [Slots -> Intent \cup {NoOrder}]
  BY <1>3, <1>4 DEF IInv
<1>8. Left(ladder, slot) = o.qty
  BY <1>1 DEF Left, o
<1>9. Left(ladder', slot) <= o.qty - qty
  BY <1>2, <1>4, <1>5 DEF Left
<1>10. position' = IF IsBuy(slot) THEN position + qty ELSE position - qty
  BY <1>1, <1>2 DEF Fill, SignedFill
<1> QED
  BY <1>2, <1>6, <1>7, <1>8, <1>9, <1>10

\* A fill keeps the cover of the side it fills and of the other side.
LEMMA FillKeepsSides ==
    ASSUME IInv, NEW slot \in Slots, NEW qty \in 1..MaxInventory, Fill(slot, qty)
    PROVE  (SellsCovered => SellsCovered') /\ (BuysCovered => BuysCovered')
<1>1. /\ qty \in Nat /\ qty <= Left(ladder, slot)
      /\ Left(ladder', slot) <= Left(ladder, slot) - qty
      /\ \A other \in Slots : other # slot => ladder'[other] = ladder[other]
      /\ ladder' \in [Slots -> Intent \cup {NoOrder}]
      /\ position' = IF IsBuy(slot) THEN position + qty ELSE position - qty
  BY FilledLadder
<1>2. position \in Int /\ ladder \in [Slots -> Intent \cup {NoOrder}] /\ Levels \in Nat \ {0}
  BY OrdersAssumption DEF IInv
<1>3. CASE IsBuy(slot)
  <2>1. slot \in 1..Levels /\ 0 + slot = slot /\ position' = position + qty
    BY <1>1, <1>2, <1>3 DEF IsBuy, Slots
  <2>2. ASSUME SellsCovered PROVE SellsCovered'
    <3>1. \A k \in 1..Levels : ladder'[Levels + k] = ladder[Levels + k]
      BY <1>1, <1>2, <2>1 DEF Slots
    <3>2. position \in Nat /\ Covered(ladder', Levels, position + qty)
      <4>1. position \in Nat /\ Covered(ladder, Levels, position)
        BY <1>2, <2>2 DEF SellsCovered
      <4> QED
        BY <1>1, <3>1, <4>1, OtherSideKeepsCover
    <3> QED
      BY <1>1, <1>2, <2>1, <2>2, <3>2 DEF SellsCovered
  <2>3. ASSUME BuysCovered PROVE BuysCovered'
    <3>1. -position \in Nat
      BY <1>2, <2>3 DEF BuysCovered
    <3>2. -position - qty \in Nat /\ Covered(ladder', 0, -position - qty)
      BY <1>1, <1>2, <2>1, <2>3, <3>1, FillKeepsCover DEF BuysCovered
    <3>3. position' <= 0 /\ -position' = -position - qty
      BY <1>1, <1>2, <2>1, <3>2
    <3> QED
      BY <3>2, <3>3 DEF BuysCovered
  <2> QED
    BY <2>2, <2>3
<1>4. CASE ~IsBuy(slot)
  <2> DEFINE m == slot - Levels
  <2>1. m \in 1..Levels /\ Levels + m = slot /\ position' = position - qty
    BY <1>1, <1>2, <1>4 DEF IsBuy, Slots
  <2> HIDE DEF m
  <2>2. ASSUME SellsCovered PROVE SellsCovered'
    <3>1. position \in Nat
      BY <1>2, <2>2 DEF SellsCovered
    <3>2. position - qty \in Nat /\ Covered(ladder', Levels, position - qty)
      BY <1>1, <1>2, <2>1, <2>2, <3>1, FillKeepsCover DEF SellsCovered
    <3> QED
      BY <1>1, <1>2, <2>1, <3>2 DEF SellsCovered
  <2>3. ASSUME BuysCovered PROVE BuysCovered'
    <3>1. -position \in Nat
      BY <1>2, <2>3 DEF BuysCovered
    <3>2. \A k \in 1..Levels : ladder'[0 + k] = ladder[0 + k]
      <4> SUFFICES ASSUME NEW k \in 1..Levels PROVE ladder'[0 + k] = ladder[0 + k]
        OBVIOUS
      <4>1. 0 + k \in Slots /\ 0 + k # slot
        BY <1>2, <2>1 DEF Slots
      <4> QED
        BY <1>1, <4>1
    <3>3. Covered(ladder', 0, -position + qty)
      BY <1>1, <2>3, <3>1, <3>2, OtherSideKeepsCover DEF BuysCovered
    <3>4. position' <= 0 /\ -position' = -position + qty
      BY <1>1, <1>2, <2>1, <3>1
    <3> QED
      BY <3>3, <3>4 DEF BuysCovered
  <2> QED
    BY <2>2, <2>3
<1> QED
  BY <1>3, <1>4

LEMMA FillKeeps ==
    ASSUME IInv, NEW slot \in Slots, NEW qty \in 1..MaxInventory, Fill(slot, qty)
    PROVE  IInv'
<1>1. /\ qty \in Nat /\ ladder' \in [Slots -> Intent \cup {NoOrder}]
      /\ position' = IF IsBuy(slot) THEN position + qty ELSE position - qty
  BY FilledLadder
<1>2. (SellsCovered => SellsCovered') /\ (BuysCovered => BuysCovered')
  BY FillKeepsSides
<1>3. policy' = policy /\ trend' = trend /\ funding' = funding /\ position' \in Int
  BY <1>1 DEF Fill, IInv
<1> QED
  BY <1>1, <1>2, <1>3 DEF IInv

LEMMA NextKeeps == IInv /\ [Next]_vars => IInv'
<1> SUFFICES ASSUME IInv, [Next]_vars PROVE IInv'
  OBVIOUS
<1>1. CASE SignalsChange
  <2>1. /\ trend' \in Trends /\ funding' \in Fundings
        /\ policy' = policy /\ position' = position /\ ladder' = ladder
    BY <1>1 DEF SignalsChange
  <2> QED
    BY <2>1 DEF IInv, SellsCovered, BuysCovered
<1>2. CASE DecideLadder
  BY <1>2, DecideKeeps
<1>3. ASSUME NEW slot \in Slots, NEW qty \in 1..MaxInventory, Fill(slot, qty) PROVE IInv'
  BY <1>3, FillKeeps
<1>4. CASE UNCHANGED vars
  BY <1>4 DEF IInv, SellsCovered, BuysCovered, vars
<1> QED
  BY <1>1, <1>2, <1>3, <1>4 DEF Next

\* The inductive invariant holds in every state of the account.
THEOREM Inductive == Spec => []IInv
<1>1. Init => IInv
  BY InitEstablishes
<1>2. IInv /\ [Next]_vars => IInv'
  BY NextKeeps
<1> QED
  BY <1>1, <1>2, PTL DEF Spec

-----------------------------------------------------------------------------
\* Whatever the signals become, the next decision is not refused, for every
\* policy and every position the account reaches: the stages keep the target
\* within the cap, and on the position's side also where none has a gate
\* (strategy/adaptive_ladder.py:166-171).
THEOREM DecisionsPossibleHolds == Spec => []DecisionsPossible
<1>1. IInv => DecisionsPossible
  <2> SUFFICES ASSUME IInv, NEW t \in Trends, NEW f \in Fundings
               PROVE  ~Refused(policy, position, DecideTarget(policy, position, t, f))
    BY DEF DecisionsPossible
  <2> DEFINE d == DecideTarget(policy, position, t, f)
  <2>1. policy \in Policy /\ t \in Score /\ f \in Score /\ position \in Int
    BY TargetTrackingAssumption DEF IInv
  <2>2. /\ d.given \in Int /\ Abs(d.given) <= policy.cap
        /\ d.target \in Int /\ Abs(d.target) <= policy.cap
        /\ Gated(policy) => (position > 0 => d.target >= 0) /\ (position < 0 => d.target <= 0)
        /\ ~Gated(policy) => /\ Preferred(policy) = 1 => d.target >= 0
                             /\ Preferred(policy) = -1 => d.target <= 0
                             /\ Preferred(policy) = 0 => d.target = 0
    BY <2>1, TargetFacts
  <2> HIDE DEF d
  <2>3. Preferred(policy) \in {-1, 0, 1} /\ policy.cap \in Nat
    BY <2>1, PolicyFacts
  <2>4. ~Gated(policy) => /\ Preferred(policy) = 1 => position >= 0
                          /\ Preferred(policy) = -1 => position <= 0
    BY DEF IInv, SellsCovered, BuysCovered
  <2>5. ~(Abs(d.given) > policy.cap) /\ ~(Abs(d.target) > policy.cap)
    BY <2>2, <2>3 DEF Abs
  <2>6. ~(position > 0 /\ d.target < 0) /\ ~(position < 0 /\ d.target > 0)
    BY <2>1, <2>2, <2>3, <2>4
  <2> QED
    BY <2>5, <2>6 DEF Refused, d
<1> QED
  BY Inductive, <1>1, PTL

\* A worse trend never asks for more of what the policy prefers, whatever the
\* regimes, the reversal and the two gates do to the target
\* (strategy/target_profile.py:98-191).
THEOREM WorseTrendNeverAsksMoreHolds == Spec => []WorseTrendNeverAsksMore
<1>1. IInv => WorseTrendNeverAsksMore
  <2> SUFFICES ASSUME IInv, NEW t \in Trends, NEW u \in Trends,
                      Preferred(policy) * t <= Preferred(policy) * u
               PROVE  Preferred(policy) * DecideTarget(policy, position, t, funding).target
                        <= Preferred(policy) * DecideTarget(policy, position, u, funding).target
    BY DEF WorseTrendNeverAsksMore
  <2>1. policy \in Policy /\ t \in Score /\ u \in Score /\ funding \in Score /\ position \in Int
    BY TargetTrackingAssumption DEF IInv
  <2> QED
    BY <2>1, TargetMonotone
<1> QED
  BY Inductive, <1>1, PTL

\* Fills of a ladder, however old and in whatever parts, never carry the
\* position from one side of flat to the other: the side that reduces it offers
\* no more than it holds (README.md:140-144).
THEOREM SignThroughFlatHolds == Spec => SignThroughFlat
<1>1. IInv /\ IInv' /\ [Next]_vars =>
        [(position > 0 => position' >= 0) /\ (position < 0 => position' <= 0)]_vars
  <2> SUFFICES ASSUME IInv, Next
               PROVE  (position > 0 => position' >= 0) /\ (position < 0 => position' <= 0)
    BY DEF vars
  <2>1. position \in Int
    BY DEF IInv
  <2>2. CASE SignalsChange \/ DecideLadder
    BY <2>1, <2>2 DEF SignalsChange, DecideLadder
  <2>3. ASSUME NEW slot \in Slots, NEW qty \in 1..MaxInventory, Fill(slot, qty)
        PROVE  (position > 0 => position' >= 0) /\ (position < 0 => position' <= 0)
    <3>1. (SellsCovered => SellsCovered') /\ (BuysCovered => BuysCovered')
      BY <2>3, FillKeepsSides
    <3> QED
      BY <2>1, <3>1 DEF IInv, SellsCovered, BuysCovered
  <2> QED
    BY <2>2, <2>3 DEF Next
<1> QED
  BY Inductive, <1>1, PTL DEF Spec, SignThroughFlat

=============================================================================
