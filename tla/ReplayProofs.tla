---------------------------- MODULE ReplayProofs ----------------------------
(***************************************************************************)
(* Proofs about Tier2Replay, for every ladder, every recording of any      *)
(* length and every way in which the exchange fills and answers.           *)
(*                                                                         *)
(* What the loop records is tied to what the exchange did: each fill is    *)
(* one of its executions, and each of these happened at a trade that is    *)
(* before the boundary of every order.  What the loop is told at one wake  *)
(* is of one time, so that the fills stay in the order of time and only an *)
(* execution is missed that another of its order and time supersedes; from *)
(* this follow the positions that funding is paid on.                      *)
(***************************************************************************)
EXTENDS Tier2Replay, FiniteSetTheorems, WellFoundedInduction, TLAPS

\* The recording, which begins with a book and is in the order of time.
Recording ==
    /\ feed \in Seq(Event) /\ 1 \in DOMAIN feed /\ feed[1].what = "book"
    /\ \A i, j \in DOMAIN feed : i <= j => feed[i].time <= feed[j].time
    /\ at \in DOMAIN feed
    /\ at = 1 \/ at \in Trusted

\* Nothing was replayed before the decision, and nothing paid before the end.
Unstarted ==
    /\ phase \in {"recording", "replaying", "settled"}
    /\ phase = "recording" =>
        /\ at = 1 /\ venue = <<>> /\ answered = 0 /\ fills = <<>>
        /\ seen = [s \in Slots |-> 0]
    /\ phase # "settled" => flows = <<>>
    /\ phase = "settled" => answered = Len(venue)

\* An execution is of an order and at a trusted event that was processed.
Executions ==
    /\ venue \in Seq(Execution)
    /\ \A k \in DOMAIN venue :
        /\ venue[k].slot \in Placed(orders)
        /\ \E i \in Trusted : i <= at /\ venue[k].time = feed[i].time
    /\ \A j, k \in DOMAIN venue : j <= k => venue[j].time <= venue[k].time
    /\ \A k \in DOMAIN venue : venue[k].trade <= at
    /\ \A j, k \in DOMAIN venue : venue[j] = venue[k] => j = k
    /\ answered \in 0..Len(venue)

Recorded ==
    /\ fills \in Seq(Execution)
    /\ \A i \in DOMAIN fills : \E k \in DOMAIN venue : fills[i] = venue[k]

\* A flow counts the fills up to its hour.
Paid ==
    \A i \in DOMAIN flows :
        flows[i].position = PositionAt(flows[i].time) /\ flows[i].time \in 0..MaxTime

IInv == Recording /\ Unstarted /\ Executions /\ Recorded /\ Paid

\* The last execution of an order among the first ones of any executions.
LatestIn(executions, s, told) == SelectLastInSubSeq(executions, 1, told, LAMBDA e : e.slot = s)

\* The fills are executions that were told, none is recorded twice, and they are in
\* the order of time.
Once ==
    /\ \A i \in DOMAIN fills : \E k \in 1..answered : fills[i] = venue[k]
    /\ \A i, j \in DOMAIN fills : fills[i] = fills[j] => i = j

InTime == \A i, j \in DOMAIN fills : i <= j => fills[i].time <= fills[j].time

\* Of each order the last execution told at each time is among the fills.
Kept ==
    \A k \in 1..answered :
        \/ \E j \in (k + 1)..answered : venue[j].slot = venue[k].slot /\ venue[j].time = venue[k].time
        \/ \E i \in DOMAIN fills : fills[i] = venue[k]

\* Of each order the last execution told is remembered.
Remembered ==
    /\ seen \in [Slots -> Nat]
    /\ \A s \in Placed(orders) : seen[s] = LatestIn(venue, s, answered)

Told == Once /\ InTime /\ Kept /\ Remembered

-----------------------------------------------------------------------------
(* Sets of numbers.                                                        *)

\* A bounded set of numbers has its largest among them.
LEMMA LargestIsMember ==
    ASSUME NEW S \in SUBSET Nat, S # {}, NEW n \in Nat, \A s \in S : s <= n
    PROVE  Max(S) \in S /\ \A s \in S : s <= Max(S)
<1> DEFINE Bounds == {m \in Nat : \A s \in S : s <= m}
<1>1. PICK m \in Bounds : \A i \in Bounds : ~(<<i, m>> \in OpToRel(<, Nat))
  <2>1. Bounds \subseteq Nat /\ Bounds # {}
    OBVIOUS
  <2> HIDE DEF Bounds
  <2> QED
    BY <2>1, NatLessThanWellFounded, WFMin
<1>2. \A i \in Bounds : ~(i < m)
  BY <1>1 DEF OpToRel
<1>3. m \in S
  <2> SUFFICES ASSUME m \notin S PROVE FALSE
    OBVIOUS
  <2>1. PICK s \in S : TRUE
    OBVIOUS
  <2>2. m - 1 \in Nat /\ \A t \in S : t <= m - 1
    BY <2>1
  <2> QED
    BY <1>2, <2>2
<1> QED
  BY <1>3 DEF Max

\* A set of numbers with zero and every successor has them all.
LEMMA EveryNumber ==
    ASSUME NEW T, 0 \in T, \A n \in Nat : n \in T => n + 1 \in T
    PROVE  \A n \in Nat : n \in T
<1> SUFFICES ASSUME Nat \ T # {} PROVE FALSE
  OBVIOUS
<1>1. PICK n \in Nat \ T : \A i \in Nat \ T : ~(<<i, n>> \in OpToRel(<, Nat))
  BY NatLessThanWellFounded, WFMin
<1>2. \A i \in Nat \ T : ~(i < n)
  BY <1>1 DEF OpToRel
<1>3. n # 0 /\ n - 1 \in Nat /\ n - 1 \in T
  BY <1>2
<1> QED
  BY <1>3

Listing(slots, listed) ==
    /\ listed \in [1..Cardinality(slots) -> slots]
    /\ \A i, j \in DOMAIN listed : i < j => listed[i] < listed[j]

\* The orders of a set of slots can be listed, one after the other.
LEMMA InOrderLists ==
    ASSUME NEW slots \in SUBSET Slots
    PROVE  Listing(slots, InOrder(slots)) /\ Cardinality(slots) \in Nat
<1> DEFINE T == {n \in Nat : \A S \in SUBSET (1..n) :
                    Cardinality(S) \in Nat /\ \E listed : Listing(S, listed)}
<1>1. 0 \in T
  <2> SUFFICES ASSUME NEW S \in SUBSET (1..0)
               PROVE  Cardinality(S) \in Nat /\ \E listed : Listing(S, listed)
    OBVIOUS
  <2>1. S = {}
    OBVIOUS
  <2>2. Cardinality(S) = 0
    BY <2>1, FS_EmptySet
  <2>3. Listing(S, <<>>)
    BY <2>1, <2>2 DEF Listing
  <2> QED
    BY <2>2, <2>3
<1>2. ASSUME NEW n \in Nat, n \in T PROVE n + 1 \in T
  <2> SUFFICES ASSUME NEW S \in SUBSET (1..(n + 1))
               PROVE  Cardinality(S) \in Nat /\ \E listed : Listing(S, listed)
    OBVIOUS
  <2> DEFINE R == S \ {n + 1}
             c == Cardinality(R)
  <2>1. R \in SUBSET (1..n)
    OBVIOUS
  <2>2. PICK before : Listing(R, before)
    BY <1>2, <2>1
  <2>3. c \in Nat
    BY <1>2, <2>1
  <2>4. CASE n + 1 \notin S
    BY <2>2, <2>3, <2>4
  <2>5. CASE n + 1 \in S
    <3>1. Cardinality(S) = c + 1
      <4>1. IsFiniteSet(R)
        BY <2>1, FS_BoundedSetOfNaturals
      <4>2. R \cup {n + 1} = S /\ n + 1 \notin R
        BY <2>5
      <4> QED
        BY <4>1, <4>2, FS_AddElement
    <3> DEFINE listed == [i \in 1..(c + 1) |-> IF i = c + 1 THEN n + 1 ELSE before[i]]
    <3>2. before \in [1..c -> R] /\ \A i, j \in 1..c : i < j => before[i] < before[j]
      BY <2>2 DEF Listing
    <3>3. \A i \in 1..c : before[i] \in S /\ before[i] \in 1..n
      BY <2>1, <3>2
    <3> HIDE DEF R, c
    <3>4. listed \in [1..(c + 1) -> S]
      BY <2>3, <2>5, <3>3
    <3>5. ASSUME NEW i \in 1..(c + 1), NEW j \in 1..(c + 1), i < j
          PROVE  listed[i] < listed[j]
      BY <2>3, <3>2, <3>3, <3>5
    <3>6. Listing(S, listed)
      BY <3>1, <3>4, <3>5 DEF Listing
    <3> QED
      BY <2>3, <3>1, <3>6
  <2> QED
    BY <2>4, <2>5
<1>3. 2 * Levels \in Nat /\ 2 * Levels \in T
  <2>1. 2 * Levels \in Nat
    BY OrdersAssumption
  <2> HIDE DEF T
  <2> QED
    BY <1>1, <1>2, <2>1, EveryNumber
<1>4. Cardinality(slots) \in Nat /\ \E listed : Listing(slots, listed)
  BY <1>3 DEF Slots
<1> QED
  BY <1>4 DEF InOrder, Listing

\* The last execution of an order among the first ones told.
LEMMA LatestSays ==
    ASSUME NEW executions, NEW s, NEW told \in Nat
    PROVE  LET last == LatestIn(executions, s, told)
           IN  /\ last \in 0..told
               /\ last # 0 => executions[last].slot = s
               /\ \A i \in 1..told : executions[i].slot = s => i <= last
<1> DEFINE I == {i \in 1..told : executions[i].slot = s}
<1>1. LatestIn(executions, s, told) = IF I # {} THEN Max(I) ELSE 0
  BY DEF LatestIn, SelectLastInSubSeq
<1>2. CASE I = {}
  BY <1>1, <1>2
<1>3. CASE I # {}
  <2>1. I \in SUBSET Nat /\ \A i \in I : i <= told
    OBVIOUS
  <2>2. Max(I) \in I /\ \A i \in I : i <= Max(I)
    <3> HIDE DEF I
    <3> QED
      BY <1>3, <2>1, LargestIsMember
  <2> QED
    BY <1>1, <1>3, <2>2
<1> QED
  BY <1>2, <1>3

LEMMA LatestOfVenue == \A s, told : LatestOf(s, told) = LatestIn(venue, s, told)
BY DEF LatestOf, LatestIn

-----------------------------------------------------------------------------
(* The steps.                                                              *)

LEMMA InitEstablishes == Init => IInv
<1> SUFFICES ASSUME Init PROVE IInv
  OBVIOUS
<1>1. PICK book \in Book : feed = <<book>>
  BY DEF Init
<1>2. book \in Event /\ book.what = "book" /\ book.time \in Int
  BY ReplayAssumption DEF Event, Book
<1>3. Recording
  BY <1>1, <1>2 DEF Recording, Init
<1>4. Executions /\ Recorded
  BY DEF Init, Executions, Recorded
<1> QED
  BY <1>3, <1>4 DEF IInv, Init, Unstarted, Paid

\* Sequences as functions.
LEMMA Appended ==
    ASSUME NEW S, NEW q \in Seq(S), NEW e \in S
    PROVE  /\ Append(q, e) \in Seq(S)
           /\ Len(q) \in Nat /\ DOMAIN q = 1..Len(q)
           /\ DOMAIN Append(q, e) = 1..(Len(q) + 1)
           /\ Append(q, e)[Len(q) + 1] = e
           /\ \A i \in DOMAIN q : Append(q, e)[i] = q[i]
OBVIOUS

LEMMA TimesAreNumbers ==
    ASSUME feed \in Seq(Event)
    PROVE  \A i \in DOMAIN feed : feed[i].time \in 0..MaxTime /\ feed[i].time \in Int
<1> SUFFICES ASSUME NEW i \in DOMAIN feed
             PROVE  feed[i].time \in 0..MaxTime /\ feed[i].time \in Int
  OBVIOUS
<1>1. feed[i] \in Event
  OBVIOUS
<1> QED
  BY <1>1, ReplayAssumption DEF Event, Book

LEMMA RecordKeeps ==
    ASSUME IInv, NEW event \in Event, Record(event)
    PROVE  IInv'
<1>1. /\ phase = "recording" /\ feed \in Seq(Event) /\ 1 \in DOMAIN feed /\ at = 1
      /\ Last(feed).time <= event.time /\ feed' = Append(feed, event)
      /\ UNCHANGED <<phase, start, orders, at, venue, answered, seen, fills, flows>>
  BY DEF Record, IInv, Recording, Unstarted, run
<1> DEFINE n == Len(feed)
<1>2. /\ feed' \in Seq(Event) /\ n \in Nat /\ DOMAIN feed = 1..n
      /\ DOMAIN feed' = 1..(n + 1) /\ feed'[n + 1] = event
      /\ \A i \in DOMAIN feed : feed'[i] = feed[i]
  BY <1>1, Appended
<1>3. Last(feed) = feed[n]
  BY DEF Last
<1> HIDE DEF n
<1>4. \A i \in DOMAIN feed : feed[i].time \in Int
  BY <1>1, TimesAreNumbers
<1>5. event.time \in Int
  BY ReplayAssumption DEF Event, Book
<1>6. \A i, j \in DOMAIN feed' : i <= j => feed'[i].time <= feed'[j].time
  <2> SUFFICES ASSUME NEW i \in DOMAIN feed', NEW j \in DOMAIN feed', i <= j
               PROVE  feed'[i].time <= feed'[j].time
    OBVIOUS
  <2>1. \A k, l \in DOMAIN feed : k <= l => feed[k].time <= feed[l].time
    BY DEF IInv, Recording
  <2>2. CASE j \in DOMAIN feed
    BY <1>2, <2>1, <2>2
  <2>3. CASE j = n + 1 /\ i \in DOMAIN feed
    <3>1. n \in DOMAIN feed /\ i <= n
      BY <1>1, <1>2, <2>3
    <3>2. feed[i].time <= feed[n].time
      BY <2>1, <2>3, <3>1
    <3> QED
      BY <1>1, <1>2, <1>3, <1>4, <1>5, <2>3, <3>1, <3>2
  <2>4. CASE j = n + 1 /\ i = n + 1
    BY <1>2, <1>5, <2>4
  <2> QED
    BY <1>2, <2>2, <2>3, <2>4
<1>7. Recording'
  <2>1. 1 \in DOMAIN feed' /\ feed'[1].what = "book"
    BY <1>1, <1>2 DEF IInv, Recording
  <2> QED
    BY <1>1, <1>2, <1>6, <2>1 DEF Recording
<1>8. Executions' /\ Recorded'
  BY <1>1 DEF IInv, Unstarted, Executions, Recorded
<1>9. Unstarted' /\ Paid'
  BY <1>1 DEF IInv, Unstarted, Paid
<1> QED
  BY <1>7, <1>8, <1>9 DEF IInv

\* The decision only chooses the orders.
LEMMA DecideSays ==
    ASSUME NEW candidate, NEW drawdown, NEW liquid, Decide(candidate, drawdown, liquid)
    PROVE  /\ phase = "recording" /\ phase' = "replaying"
           /\ UNCHANGED <<feed, start, at, venue, answered, seen, fills, flows>>
BY DEF Decide, run

LEMMA DecideKeeps ==
    ASSUME IInv, NEW candidate, NEW drawdown, NEW liquid, Decide(candidate, drawdown, liquid)
    PROVE  IInv'
<1>1. /\ phase = "recording" /\ phase' = "replaying"
      /\ UNCHANGED <<feed, start, at, venue, answered, seen, fills, flows>>
  BY DecideSays
<1>2. at = 1 /\ venue = <<>> /\ answered = 0 /\ fills = <<>> /\ flows = <<>>
  BY <1>1 DEF IInv, Unstarted
<1>3. Recording'
  BY <1>1, <1>2 DEF IInv, Recording
<1>4. Executions' /\ Recorded'
  BY <1>1, <1>2 DEF Executions, Recorded
<1> QED
  BY <1>1, <1>2, <1>3, <1>4 DEF IInv, Unstarted, Paid

LEMMA AdvanceKeeps ==
    ASSUME IInv, Advance
    PROVE  IInv'
<1>1. /\ phase = "replaying" /\ at' \in Trusted /\ at' > at
      /\ UNCHANGED <<phase, feed, start, orders, venue, answered, seen, fills, flows>>
  BY DEF Advance, Ahead
<1>2. Trusted' = Trusted /\ Trusted \subseteq DOMAIN feed
  BY <1>1 DEF Trusted, LossTimes
<1>3. feed \in Seq(Event) /\ DOMAIN feed \subseteq Int
  BY DEF IInv, Recording
<1>4. Recording'
  BY <1>1, <1>2 DEF IInv, Recording
<1>5. at \in Int /\ at' \in Int /\ Trusted \subseteq Int
  BY <1>1, <1>2, <1>3 DEF IInv, Recording
<1>6. Executions'
  <2> SUFFICES ASSUME NEW k \in DOMAIN venue
               PROVE  /\ \E i \in Trusted : i <= at' /\ venue[k].time = feed[i].time
                      /\ venue[k].trade <= at'
    BY <1>1, <1>2 DEF IInv, Executions
  <2>1. PICK i \in Trusted : i <= at /\ venue[k].time = feed[i].time
    BY DEF IInv, Executions
  <2>2. venue[k].trade <= at /\ venue[k].trade \in Int
    <3>1. venue \in Seq(Execution)
      BY DEF IInv, Executions
    <3>2. venue[k] \in Execution
      BY <3>1
    <3> QED
      BY <3>2 DEF IInv, Executions, Execution
  <2> QED
    BY <1>1, <1>5, <2>1, <2>2
<1>7. Recorded' /\ Unstarted' /\ Paid'
  BY <1>1 DEF IInv, Recorded, Unstarted, Paid
<1> QED
  BY <1>4, <1>6, <1>7 DEF IInv

LEMMA ExecuteKeeps ==
    ASSUME IInv, NEW slot \in Slots, NEW qty \in 1..MaxQty, Execute(slot, qty)
    PROVE  IInv'
<1> DEFINE e == [slot |-> slot, time |-> feed[at].time, qty |-> qty, trade |-> at]
           n == Len(venue)
<1>1. /\ phase = "replaying" /\ feed[at].what = "trade" /\ slot \in Placed(orders)
      /\ \A k \in DOMAIN venue : venue[k].trade = at => venue[k].slot # slot
      /\ venue' = Append(venue, e)
      /\ UNCHANGED <<phase, feed, start, orders, at, answered, seen, fills, flows>>
  BY DEF Execute
<1>2. /\ feed \in Seq(Event) /\ at \in DOMAIN feed /\ at \in Trusted
      /\ \A i \in DOMAIN feed : feed[i].time \in 0..MaxTime /\ feed[i].time \in Int
  <2>1. at # 1
    BY <1>1 DEF IInv, Recording
  <2> QED
    BY <2>1, TimesAreNumbers DEF IInv, Recording
<1>3. e \in Execution
  BY <1>2, ReplayAssumption DEF Execution
<1>4. venue \in Seq(Execution)
  BY DEF IInv, Executions
<1> HIDE DEF e
<1>5. /\ venue' \in Seq(Execution) /\ n \in Nat /\ Len(venue') = n + 1
      /\ DOMAIN venue = 1..n /\ DOMAIN venue' = 1..(n + 1)
      /\ venue'[n + 1] = e /\ \A k \in DOMAIN venue : venue'[k] = venue[k]
  BY <1>1, <1>3, <1>4, Appended
<1> HIDE DEF n
<1>6. e.slot = slot /\ e.time = feed[at].time /\ e.trade = at
  BY DEF e
<1>7. Trusted' = Trusted /\ Trusted \subseteq DOMAIN feed /\ DOMAIN feed \subseteq Int
  BY <1>1, <1>2 DEF Trusted, LossTimes
<1>8. \A k \in DOMAIN venue' :
        /\ venue'[k].slot \in Placed(orders')
        /\ \E i \in Trusted' : i <= at' /\ venue'[k].time = feed'[i].time
  <2> SUFFICES ASSUME NEW k \in DOMAIN venue'
               PROVE  /\ venue'[k].slot \in Placed(orders)
                      /\ \E i \in Trusted : i <= at /\ venue'[k].time = feed[i].time
    BY <1>1, <1>7
  <2>1. CASE k \in DOMAIN venue
    BY <1>5, <2>1 DEF IInv, Executions
  <2>2. CASE k = n + 1
    BY <1>1, <1>2, <1>5, <1>6, <1>7, <2>2
  <2> QED
    BY <1>5, <2>1, <2>2
<1>9. \A j, k \in DOMAIN venue' : j <= k => venue'[j].time <= venue'[k].time
  <2> SUFFICES ASSUME NEW j \in DOMAIN venue', NEW k \in DOMAIN venue', j <= k
               PROVE  venue'[j].time <= venue'[k].time
    OBVIOUS
  <2>1. \A l, m \in DOMAIN venue : l <= m => venue[l].time <= venue[m].time
    BY DEF IInv, Executions
  <2>2. CASE k \in DOMAIN venue
    BY <1>5, <2>1, <2>2
  <2>3. CASE k = n + 1 /\ j \in DOMAIN venue
    <3>1. PICK i \in Trusted : i <= at /\ venue[j].time = feed[i].time
      BY <2>3 DEF IInv, Executions
    <3>2. feed[i].time <= feed[at].time
      BY <1>2, <1>7, <3>1 DEF IInv, Recording
    <3> QED
      BY <1>5, <1>6, <2>3, <3>1, <3>2
  <2>4. CASE k = n + 1 /\ j = n + 1
    BY <1>2, <1>5, <1>6, <2>4
  <2> QED
    BY <1>5, <2>2, <2>3, <2>4
<1>13. \A k \in DOMAIN venue' : venue'[k].trade <= at'
  <2>1. at \in Int
    BY <1>2, <1>7
  <2>2. \A k \in DOMAIN venue : venue[k].trade <= at
    BY DEF IInv, Executions
  <2> QED
    BY <1>1, <1>5, <1>6, <2>1, <2>2
<1>14. \A j, k \in DOMAIN venue' : venue'[j] = venue'[k] => j = k
  <2>1. \A j, k \in DOMAIN venue : venue[j] = venue[k] => j = k
    BY DEF IInv, Executions
  <2>2. \A k \in DOMAIN venue : venue[k] # e
    BY <1>1, <1>6
  <2> QED
    BY <1>5, <2>1, <2>2
<1>10. Executions'
  <2>1. answered' \in 0..Len(venue')
    BY <1>1, <1>5 DEF IInv, Executions, n
  <2> QED
    BY <1>5, <1>8, <1>9, <1>13, <1>14, <2>1 DEF Executions
<1>11. Recorded'
  <2>1. \A i \in DOMAIN fills : \E k \in DOMAIN venue' : fills[i] = venue'[k]
    BY <1>5 DEF IInv, Recorded
  <2> QED
    BY <1>1, <2>1 DEF IInv, Recorded
<1>12. Recording' /\ Unstarted' /\ Paid'
  BY <1>1, <1>7 DEF IInv, Recording, Unstarted, Paid
<1> QED
  BY <1>10, <1>11, <1>12 DEF IInv

\* What the loop adds at a wake: the last execution of each order that has one
\* it did not see.
News(told) == {s \in Placed(orders) : Anew(s, LatestOf(s, told))}
Noticed(told) == [i \in 1..Cardinality(News(told)) |-> venue[LatestOf(InOrder(News(told))[i], told)]]

LEMMA WakeSays ==
    ASSUME NEW upto, Wake(upto)
    PROVE  /\ phase = "replaying" /\ answered' = upto
           /\ fills' = fills \o Noticed(upto)
           /\ seen' = [s \in Slots |-> IF s \in News(upto) THEN LatestOf(s, upto) ELSE seen[s]]
           /\ \A i \in (answered + 1)..upto : venue[i].time = venue[upto].time
           /\ UNCHANGED <<phase, feed, start, orders, at, venue, flows>>
BY DEF Wake, Look, Noticed, News

\* A seen execution is not news, and without one the latest is number 0.
LEMMA NoticedIsExecuted ==
    ASSUME Executions, NEW told \in 0..Len(venue)
    PROVE  /\ Noticed(told) \in Seq(Execution)
           /\ \A i \in DOMAIN Noticed(told) : \E k \in DOMAIN venue : Noticed(told)[i] = venue[k]
<1> DEFINE news == News(told)
           c == Cardinality(news)
<1>1. news \in SUBSET Slots
  BY DEF News, Placed
<1>2. c \in Nat /\ InOrder(news) \in [1..c -> news]
  BY <1>1, InOrderLists DEF Listing
<1>3. ASSUME NEW s \in news PROVE LatestOf(s, told) \in DOMAIN venue
  <2>1. LatestOf(s, told) # 0
    BY DEF News, Anew
  <2>2. told \in Nat /\ Len(venue) \in Nat /\ DOMAIN venue = 1..Len(venue) /\ told <= Len(venue)
    BY DEF Executions
  <2> QED
    BY <2>1, <2>2, LatestSays, LatestOfVenue
<1>4. \A k \in DOMAIN venue : venue[k] \in Execution
  BY DEF Executions
<1> HIDE DEF news, c
<1>5. ASSUME NEW i \in 1..c
      PROVE  LatestOf(InOrder(news)[i], told) \in DOMAIN venue
  BY <1>2, <1>3
<1>6. Noticed(told) = [i \in 1..c |-> venue[LatestOf(InOrder(news)[i], told)]]
  BY DEF Noticed, news, c
<1> QED
  BY <1>2, <1>4, <1>5, <1>6

LEMMA WakeKeeps ==
    ASSUME IInv, NEW told \in (answered + 1)..Len(venue), Wake(told)
    PROVE  IInv'
<1>1. /\ phase = "replaying" /\ answered' = told
      /\ fills' = fills \o Noticed(told)
      /\ UNCHANGED <<phase, feed, start, orders, at, venue, flows>>
  BY WakeSays
<1>2. told \in 0..Len(venue) /\ Executions /\ fills \in Seq(Execution)
  BY DEF IInv, Executions, Recorded
<1>3. /\ Noticed(told) \in Seq(Execution)
      /\ \A i \in DOMAIN Noticed(told) : \E k \in DOMAIN venue : Noticed(told)[i] = venue[k]
  BY <1>2, NoticedIsExecuted
<1>4. Recorded'
  <2> DEFINE more == Noticed(told)
  <2> HIDE DEF more
  <2>1. more \in Seq(Execution)
        /\ \A i \in DOMAIN more : \E k \in DOMAIN venue : more[i] = venue[k]
    BY <1>3 DEF more
  <2>2. fills' = fills \o more
    BY <1>1 DEF more
  <2>3. /\ fills' \in Seq(Execution)
        /\ \A i \in DOMAIN fills' :
             \/ i \in DOMAIN fills /\ fills'[i] = fills[i]
             \/ i - Len(fills) \in DOMAIN more /\ fills'[i] = more[i - Len(fills)]
    BY <1>2, <2>1, <2>2
  <2>4. \A i \in DOMAIN fills : \E k \in DOMAIN venue : fills[i] = venue[k]
    BY DEF IInv, Recorded
  <2> QED
    BY <1>1, <2>1, <2>3, <2>4 DEF Recorded
<1>5. Executions'
  BY <1>1, <1>2 DEF Executions, Trusted, LossTimes
<1>6. Recording' /\ Unstarted'
  BY <1>1 DEF IInv, Recording, Unstarted, Trusted, LossTimes
<1>7. Paid'
  BY <1>1 DEF IInv, Unstarted, Paid
<1> QED
  BY <1>4, <1>5, <1>6, <1>7 DEF IInv

LEMMA SettleKeeps ==
    ASSUME IInv, Settle
    PROVE  IInv'
<1>1. /\ phase' = "settled" /\ answered = Len(venue) /\ flows' = FundingFlows
      /\ UNCHANGED <<feed, start, orders, at, venue, answered, seen, fills>>
  BY DEF Settle, run
<1>2. Recording' /\ Executions' /\ Recorded'
  BY <1>1 DEF IInv, Recording, Executions, Recorded, Trusted, LossTimes
<1>3. Unstarted'
  BY <1>1 DEF Unstarted
<1>4. Paid'
  <2>1. ASSUME NEW i \in DOMAIN flows'
        PROVE  flows'[i].position = PositionAt(flows'[i].time) /\ flows'[i].time \in 0..MaxTime
    <3>1. /\ flows'[i] = [time |-> feed[i].time, position |-> PositionAt(feed[i].time)]
          /\ i \in DOMAIN feed
      BY <1>1 DEF FundingFlows, HourlyReferences
    <3> QED
      BY <3>1, TimesAreNumbers DEF IInv, Recording
  <2> QED
    BY <1>1, <2>1 DEF Paid, PositionAt
<1> QED
  BY <1>2, <1>3, <1>4 DEF IInv

LEMMA NextKeeps == IInv /\ [Next]_vars => IInv'
<1> SUFFICES ASSUME IInv, [Next]_vars PROVE IInv'
  OBVIOUS
<1>1. CASE UNCHANGED vars
  <2>1. UNCHANGED <<phase, feed, start, orders, at, venue, answered, seen, fills, flows>>
    BY <1>1 DEF vars, run
  <2>2. Recording' /\ Executions' /\ Recorded'
    BY <2>1 DEF IInv, Recording, Executions, Recorded, Trusted, LossTimes
  <2>3. Unstarted'
    BY <2>1 DEF IInv, Unstarted
  <2>4. Paid'
    BY <2>1 DEF IInv, Paid, PositionAt
  <2> QED
    BY <2>2, <2>3, <2>4 DEF IInv
<1>2. ASSUME NEW event \in Event, Record(event) PROVE IInv'
  BY <1>2, RecordKeeps
<1>3. ASSUME NEW candidate, NEW drawdown, NEW liquid, Decide(candidate, drawdown, liquid)
      PROVE  IInv'
  BY <1>3, DecideKeeps
<1>4. CASE Advance
  BY <1>4, AdvanceKeeps
<1>5. ASSUME NEW slot \in Slots, NEW qty \in 1..MaxQty, Execute(slot, qty) PROVE IInv'
  BY <1>5, ExecuteKeeps
<1>6. ASSUME NEW upto \in (answered + 1)..Len(venue), Wake(upto) PROVE IInv'
  BY <1>6, WakeKeeps
<1>7. CASE Settle
  BY <1>7, SettleKeeps
<1> QED
  BY <1>1, <1>2, <1>3, <1>4, <1>5, <1>6, <1>7 DEF Next

\* The inductive invariant holds in every state of a replay.
THEOREM Inductive == Spec => []IInv
<1>1. Init => IInv
  BY InitEstablishes
<1>2. IInv /\ [Next]_vars => IInv'
  BY NextKeeps
<1> QED
  BY <1>1, <1>2, PTL DEF Spec

\* No fill is recorded from the first book on that no longer covers the price of
\* a replayed order, however many responses the loop takes at once
\* (research/tier2_replay/liquidity.py:45-68).
THEOREM FillsAreTrustedHolds == Spec => []FillsAreTrusted
<1>1. IInv => FillsAreTrusted
  <2> SUFFICES ASSUME IInv, NEW i \in DOMAIN fills, NEW s \in Placed(orders),
                      NEW t \in LossTimes(s)
               PROVE  fills[i].time < t
    BY DEF FillsAreTrusted, Range
  <2>1. PICK k \in DOMAIN venue : fills[i] = venue[k]
    BY DEF IInv, Recorded
  <2>2. PICK j \in Trusted : venue[k].time = feed[j].time
    BY DEF IInv, Executions
  <2> QED
    BY <2>1, <2>2 DEF Trusted
<1> QED
  BY Inductive, <1>1, PTL

-----------------------------------------------------------------------------
(* What the loop keeps of the executions.                                  *)

\* The list of the orders of a set has each of them.
LEMMA InOrderListsAll ==
    ASSUME NEW slots \in SUBSET Slots
    PROVE  /\ \A i, j \in 1..Cardinality(slots) : InOrder(slots)[i] = InOrder(slots)[j] => i = j
           /\ \A s \in slots : \E i \in 1..Cardinality(slots) : InOrder(slots)[i] = s
<1> DEFINE listed == InOrder(slots)
           c == Cardinality(slots)
<1>1. c \in Nat /\ listed \in [1..c -> slots]
      /\ \A i, j \in 1..c : i < j => listed[i] < listed[j]
  BY InOrderLists DEF Listing
<1>2. slots \subseteq Int
  BY OrdersAssumption DEF Slots
<1> HIDE DEF c, listed
<1>3. \A i, j \in 1..c : listed[i] = listed[j] => i = j
  <2> SUFFICES ASSUME NEW i \in 1..c, NEW j \in 1..c, listed[i] = listed[j], i # j
               PROVE  FALSE
    OBVIOUS
  <2>1. listed[i] \in Int /\ listed[j] \in Int
    BY <1>1, <1>2
  <2>2. i < j \/ j < i
    BY <1>1
  <2> QED
    BY <1>1, <2>1, <2>2
<1>4. IsFiniteSet(slots)
  <2>1. slots \in SUBSET Nat /\ 2 * Levels \in Nat /\ \A s \in slots : s <= 2 * Levels
    BY OrdersAssumption DEF Slots
  <2> QED
    BY <2>1, FS_BoundedSetOfNaturals
<1>5. listed \in Injection(1..c, slots)
  BY <1>1, <1>3 DEF Injection, IsInjective
<1>6. Cardinality(1..c) = c
  BY <1>1, FS_Interval
<1>7. listed \in Surjection(1..c, slots)
  BY <1>4, <1>5, <1>6, FS_Injection DEF c
<1> QED
  BY <1>3, <1>7 DEF Surjection, c, listed

\* The last execution told of an order with news was not told before.
LEMMA NewsAreNew ==
    ASSUME IInv, Told, NEW upto \in (answered + 1)..Len(venue), NEW s \in News(upto)
    PROVE  /\ LatestIn(venue, s, upto) \in (answered + 1)..upto
           /\ venue[LatestIn(venue, s, upto)].slot = s
<1> DEFINE a == LatestIn(venue, s, answered)
           b == LatestIn(venue, s, upto)
<1>1. s \in Placed(orders) /\ b # 0 /\ b # seen[s] /\ seen[s] = a
  BY LatestOfVenue DEF News, Anew, Told, Remembered
<1>2. answered \in Nat /\ upto \in Nat /\ answered < upto
  BY DEF IInv, Executions
<1>3. /\ a \in 0..answered /\ (a # 0 => venue[a].slot = s)
      /\ \A i \in 1..answered : venue[i].slot = s => i <= a
  BY <1>2, LatestSays
<1>4. /\ b \in 0..upto /\ (b # 0 => venue[b].slot = s)
      /\ \A i \in 1..upto : venue[i].slot = s => i <= b
  BY <1>2, LatestSays
<1> HIDE DEF a, b
<1>5. b \notin 1..answered
  <2> SUFFICES ASSUME b \in 1..answered PROVE FALSE
    OBVIOUS
  <2>1. b <= a
    BY <1>1, <1>3, <1>4
  <2>2. a <= b
    BY <1>2, <1>3, <1>4, <2>1
  <2> QED
    BY <1>1, <1>3, <1>4, <2>1, <2>2
<1> QED
  BY <1>1, <1>2, <1>4, <1>5 DEF b

\* An order without news was told of no later execution.
LEMMA OldIsKnown ==
    ASSUME IInv, Told, NEW upto \in (answered + 1)..Len(venue),
           NEW s \in Placed(orders), s \notin News(upto)
    PROVE  seen[s] = LatestIn(venue, s, upto)
<1>1. LatestIn(venue, s, upto) = 0 \/ LatestIn(venue, s, upto) = seen[s]
  BY LatestOfVenue DEF News, Anew
<1>2. CASE LatestIn(venue, s, upto) = 0
  <2> DEFINE a == LatestIn(venue, s, answered)
  <2>1. answered \in Nat /\ upto \in Nat /\ answered < upto
    BY DEF IInv, Executions
  <2>2. \A i \in 1..upto : venue[i].slot = s => i <= 0
    BY <1>2, <2>1, LatestSays
  <2>3. a \in 0..answered /\ (a # 0 => venue[a].slot = s)
    BY <2>1, LatestSays
  <2>4. seen[s] = a
    BY DEF Told, Remembered
  <2> HIDE DEF a
  <2>5. a = 0
    BY <2>1, <2>2, <2>3
  <2> QED
    BY <1>2, <2>4, <2>5
<1> QED
  BY <1>1, <1>2

\* What the loop records at a wake, by the places of the executions: each was not
\* told before, and of each order it is the last one.
Places(upto) == [i \in 1..Cardinality(News(upto)) |-> LatestIn(venue, InOrder(News(upto))[i], upto)]

LEMMA NoticedAtPlaces ==
    ASSUME IInv, Told, NEW upto \in (answered + 1)..Len(venue)
    PROVE  LET c == Cardinality(News(upto))
               place == Places(upto)
           IN  /\ c \in Nat /\ place \in [1..c -> (answered + 1)..upto]
               /\ Noticed(upto) = [i \in 1..c |-> venue[place[i]]]
               /\ \A i, j \in 1..c : place[i] = place[j] => i = j
               /\ \A s \in News(upto) : \E i \in 1..c : place[i] = LatestIn(venue, s, upto)
<1> DEFINE c == Cardinality(News(upto))
           place == Places(upto)
           listed == InOrder(News(upto))
<1>1. News(upto) \in SUBSET Slots
  BY DEF News, Placed
<1>2. c \in Nat /\ listed \in [1..c -> News(upto)]
  BY <1>1, InOrderLists DEF Listing
<1>3. /\ \A i, j \in 1..c : listed[i] = listed[j] => i = j
      /\ \A s \in News(upto) : \E i \in 1..c : listed[i] = s
  BY <1>1, InOrderListsAll
<1>4. place = [i \in 1..c |-> LatestIn(venue, listed[i], upto)]
  BY DEF Places
<1>5. Noticed(upto) = [i \in 1..c |-> venue[LatestIn(venue, listed[i], upto)]]
  BY LatestOfVenue DEF Noticed
<1> HIDE DEF c, place, listed
<1>6. \A i \in 1..c : /\ place[i] \in (answered + 1)..upto
                      /\ venue[place[i]].slot = listed[i]
  BY <1>2, <1>4, NewsAreNew
<1>7. place \in [1..c -> (answered + 1)..upto]
  BY <1>4, <1>6
<1>8. Noticed(upto) = [i \in 1..c |-> venue[place[i]]]
  BY <1>4, <1>5
<1>9. \A i, j \in 1..c : place[i] = place[j] => i = j
  BY <1>3, <1>6
<1>10. \A s \in News(upto) : \E i \in 1..c : place[i] = LatestIn(venue, s, upto)
  BY <1>3, <1>4
<1> QED
  BY <1>2, <1>7, <1>8, <1>9, <1>10 DEF c, place

\* After a wake the fills are still what the loop was told, without repetition, in
\* the order of time and with the last execution of each order at each time.
LEMMA WakeTells ==
    ASSUME IInv, Told, NEW upto \in (answered + 1)..Len(venue), Wake(upto)
    PROVE  Told'
<1> DEFINE c == Cardinality(News(upto))
           place == Places(upto)
           n == Len(fills)
<1>1. /\ answered' = upto /\ fills' = fills \o Noticed(upto)
      /\ seen' = [s \in Slots |-> IF s \in News(upto) THEN LatestIn(venue, s, upto) ELSE seen[s]]
      /\ \A i \in (answered + 1)..upto : venue[i].time = venue[upto].time
      /\ UNCHANGED <<orders, venue>>
  BY WakeSays, LatestOfVenue
<1>2. /\ c \in Nat /\ place \in [1..c -> (answered + 1)..upto]
      /\ Noticed(upto) = [i \in 1..c |-> venue[place[i]]]
      /\ \A i, j \in 1..c : place[i] = place[j] => i = j
      /\ \A s \in News(upto) : \E i \in 1..c : place[i] = LatestIn(venue, s, upto)
  BY NoticedAtPlaces
<1>3. /\ venue \in Seq(Execution) /\ answered \in Nat /\ upto \in Nat /\ answered < upto
      /\ upto <= Len(venue) /\ Len(venue) \in Nat /\ DOMAIN venue = 1..Len(venue)
      /\ Placed(orders) \subseteq Slots
  BY DEF IInv, Executions, Placed
<1>4. fills \in Seq(Execution) /\ n \in Nat /\ DOMAIN fills = 1..n
  BY DEF IInv, Recorded
<1> HIDE DEF c, place, n
<1>5. /\ DOMAIN fills' = 1..(n + c)
      /\ \A i \in 1..n : fills'[i] = fills[i]
      /\ \A i \in 1..c : fills'[n + i] = venue[place[i]]
  <2> DEFINE more == Noticed(upto)
  <2>1. \A i \in 1..c : place[i] \in DOMAIN venue
    BY <1>2, <1>3
  <2>2. more \in Seq(Execution) /\ Len(more) = c /\ \A i \in 1..c : more[i] = venue[place[i]]
    BY <1>2, <1>3, <2>1
  <2> HIDE DEF more
  <2>3. fills' = fills \o more
    BY <1>1 DEF more
  <2> QED
    BY <1>2, <1>4, <2>2, <2>3 DEF n
<1>6. \A i \in 1..(n + c) : i \in 1..n \/ (i - n \in 1..c /\ fills'[i] = venue[place[i - n]] /\ i > n)
  <2> SUFFICES ASSUME NEW i \in 1..(n + c), i \notin 1..n
               PROVE  i - n \in 1..c /\ fills'[i] = venue[place[i - n]] /\ i > n
    OBVIOUS
  <2>1. i - n \in 1..c /\ i = n + (i - n) /\ i > n
    BY <1>2, <1>4
  <2> QED
    BY <1>5, <2>1
<1>7. \A i \in 1..n : \E k \in 1..answered : fills[i] = venue[k]
  BY <1>4 DEF Told, Once
<1>8. \A j, k \in DOMAIN venue : venue[j] = venue[k] => j = k
  BY DEF IInv, Executions
<1>9. \A j, k \in DOMAIN venue : j <= k => venue[j].time <= venue[k].time
  BY DEF IInv, Executions
<1>10. \A i \in DOMAIN fills' : \E k \in 1..upto : fills'[i] = venue[k]
  <2> SUFFICES ASSUME NEW i \in 1..(n + c) PROVE \E k \in 1..upto : fills'[i] = venue[k]
    BY <1>5
  <2>1. CASE i \in 1..n
    BY <1>3, <1>5, <1>7, <2>1
  <2>2. CASE i \notin 1..n
    <3>1. place[i - n] \in 1..upto
      BY <1>2, <1>3, <1>6, <2>2
    <3> QED
      BY <1>6, <2>2, <3>1
  <2> QED
    BY <2>1, <2>2
<1>11. \A i, j \in DOMAIN fills' : fills'[i] = fills'[j] => i = j
  <2>1. ASSUME NEW i \in 1..n, NEW j \in 1..(n + c), j \notin 1..n PROVE fills'[i] # fills'[j]
    <3>1. PICK k \in 1..answered : fills'[i] = venue[k]
      BY <1>5, <1>7
    <3>2. fills'[j] = venue[place[j - n]] /\ place[j - n] \in (answered + 1)..upto
      BY <1>2, <1>6, <2>1
    <3>3. k # place[j - n] /\ k \in DOMAIN venue /\ place[j - n] \in DOMAIN venue
      BY <1>3, <3>2
    <3> QED
      BY <1>8, <3>1, <3>2, <3>3
  <2>2. ASSUME NEW i \in 1..(n + c), NEW j \in 1..(n + c), i \notin 1..n, j \notin 1..n,
               fills'[i] = fills'[j]
        PROVE  i = j
    <3>1. /\ i - n \in 1..c /\ fills'[i] = venue[place[i - n]]
          /\ j - n \in 1..c /\ fills'[j] = venue[place[j - n]]
      BY <1>6, <2>2
    <3>2. place[i - n] \in DOMAIN venue /\ place[j - n] \in DOMAIN venue
      BY <1>2, <1>3, <3>1
    <3>3. i - n = j - n
      BY <1>2, <1>8, <2>2, <3>1, <3>2
    <3> QED
      BY <1>2, <1>4, <3>3
  <2>3. \A i, j \in 1..n : fills[i] = fills[j] => i = j
    BY <1>4 DEF Told, Once
  <2> QED
    BY <1>5, <2>1, <2>2, <2>3
<1>12. \A i, j \in DOMAIN fills' : i <= j => fills'[i].time <= fills'[j].time
  <2> SUFFICES ASSUME NEW i \in 1..(n + c), NEW j \in 1..(n + c), i <= j
               PROVE  fills'[i].time <= fills'[j].time
    BY <1>5
  <2>1. CASE j \in 1..n
    <3>1. i \in 1..n
      BY <1>4, <2>1
    <3> QED
      BY <1>4, <1>5, <2>1, <3>1 DEF Told, InTime
  <2>2. CASE j \notin 1..n
    <3>1. fills'[j] = venue[place[j - n]] /\ place[j - n] \in (answered + 1)..upto
      BY <1>2, <1>6, <2>2
    <3>2. CASE i \in 1..n
      <4>1. PICK k \in 1..answered : fills'[i] = venue[k]
        BY <1>5, <1>7, <3>2
      <4>2. k \in DOMAIN venue /\ place[j - n] \in DOMAIN venue /\ k <= place[j - n]
        BY <1>3, <3>1
      <4> QED
        BY <1>9, <3>1, <4>1, <4>2
    <3>3. CASE i \notin 1..n
      <4>1. fills'[i] = venue[place[i - n]] /\ place[i - n] \in (answered + 1)..upto
        BY <1>2, <1>6, <3>3
      <4>2. fills'[i].time = venue[upto].time /\ fills'[j].time = venue[upto].time
        BY <1>1, <3>1, <4>1
      <4>3. upto \in DOMAIN venue
        BY <1>3
      <4> QED
        BY <1>9, <1>3, <4>2, <4>3
    <3> QED
      BY <3>2, <3>3
  <2> QED
    BY <2>1, <2>2
<1>13. \A k \in 1..upto :
         \/ \E j \in (k + 1)..upto : venue[j].slot = venue[k].slot /\ venue[j].time = venue[k].time
         \/ \E i \in DOMAIN fills' : fills'[i] = venue[k]
  <2> SUFFICES ASSUME NEW k \in 1..upto,
                      ~\E j \in (k + 1)..upto : venue[j].slot = venue[k].slot /\ venue[j].time = venue[k].time
               PROVE  \E i \in DOMAIN fills' : fills'[i] = venue[k]
    OBVIOUS
  <2>1. CASE k \in 1..answered
    <3>1. (k + 1)..answered \subseteq (k + 1)..upto
      BY <1>3
    <3>2. PICK i \in DOMAIN fills : fills[i] = venue[k]
      BY <2>1, <3>1 DEF Told, Kept
    <3>3. i \in DOMAIN fills' /\ fills'[i] = fills[i]
      BY <1>2, <1>4, <1>5, <3>2
    <3> QED
      BY <3>2, <3>3
  <2>2. CASE k \notin 1..answered
    <3> DEFINE s == venue[k].slot
               b == LatestIn(venue, s, upto)
    <3>1. k \in (answered + 1)..upto /\ k \in DOMAIN venue
      BY <1>3, <2>2
    <3>2. s \in Placed(orders)
      BY <3>1 DEF IInv, Executions
    <3>3. /\ b \in 0..upto /\ (b # 0 => venue[b].slot = s)
          /\ \A i \in 1..upto : venue[i].slot = s => i <= b
      BY <1>3, LatestSays
    <3>4. s \in News(upto) \/ seen[s] = b
      BY <3>2, OldIsKnown
    <3>5. seen[s] \in 0..answered
      BY <1>3, <3>2, LatestSays DEF Told, Remembered
    <3>6. ASSUME s \in News(upto) PROVE \E i \in 1..c : place[i] = b
      BY <1>2, <3>6
    <3> HIDE DEF b
    <3>7. k <= b
      BY <3>3
    <3>8. b = k
      <4> SUFFICES ASSUME b # k PROVE FALSE
        OBVIOUS
      <4>1. b \in (k + 1)..upto /\ b \in (answered + 1)..upto /\ b # 0
        BY <1>3, <3>1, <3>3, <3>7
      <4>2. venue[b].slot = venue[k].slot /\ venue[b].time = venue[k].time
        BY <1>1, <3>1, <3>3, <4>1
      <4> QED
        BY <4>1, <4>2
    <3>9. s \in News(upto)
      BY <1>3, <3>1, <3>4, <3>5, <3>8
    <3>10. PICK i \in 1..c : place[i] = k
      BY <3>6, <3>8, <3>9
    <3>11. n + i \in DOMAIN fills' /\ fills'[n + i] = venue[k]
      BY <1>2, <1>4, <1>5, <3>10
    <3> QED
      BY <3>11
  <2> QED
    BY <2>1, <2>2
<1>14. \A s \in Placed(orders) : seen'[s] = LatestIn(venue, s, upto)
  BY <1>1, <1>3, OldIsKnown
<1>15. seen' \in [Slots -> Nat]
  <2>1. ASSUME NEW s \in News(upto) PROVE LatestIn(venue, s, upto) \in Nat
    BY <1>3, LatestSays
  <2> QED
    BY <1>1, <2>1 DEF Told, Remembered
<1>16. Once'
  BY <1>1, <1>10, <1>11 DEF Once
<1>17. InTime'
  BY <1>12 DEF InTime
<1>18. Kept'
  BY <1>1, <1>13 DEF Kept
<1>19. Remembered'
  BY <1>1, <1>14, <1>15 DEF Remembered
<1> QED
  BY <1>16, <1>17, <1>18, <1>19 DEF Told

\* Without executions none is the latest.
LEMMA NoneTold == ASSUME NEW s, NEW executions PROVE LatestIn(executions, s, 0) = 0
BY LatestSays

LEMMA ToldAtInit == Init => Told
<1> SUFFICES ASSUME Init PROVE Told
  OBVIOUS
<1>1. Placed(orders) = {} /\ venue = <<>> /\ fills = <<>> /\ answered = 0
      /\ seen = [s \in Slots |-> 0]
  BY DEF Init, Placed, EmptyLadder
<1> QED
  BY <1>1 DEF Told, Once, InTime, Kept, Remembered

LEMMA NextTells == IInv /\ Told /\ [Next]_vars => Told'
<1> SUFFICES ASSUME IInv, Told, [Next]_vars PROVE Told'
  OBVIOUS
<1>1. CASE UNCHANGED <<orders, venue, answered, seen, fills>>
  BY <1>1 DEF Told, Once, InTime, Kept, Remembered
<1>2. ASSUME NEW event \in Event, Record(event) PROVE Told'
  BY <1>1, <1>2 DEF Record, run
<1>3. ASSUME NEW candidate, NEW drawdown, NEW liquid, Decide(candidate, drawdown, liquid)
      PROVE  Told'
  <2>1. UNCHANGED <<venue, answered, seen, fills>> /\ phase = "recording"
    BY <1>3, DecideSays
  <2>2. answered = 0 /\ venue = <<>> /\ fills = <<>> /\ seen = [s \in Slots |-> 0]
    BY <2>1 DEF IInv, Unstarted
  <2>3. \A s \in Placed(orders') : seen'[s] = LatestIn(venue, s, answered)
    BY <2>1, <2>2, NoneTold DEF Placed
  <2> QED
    BY <2>1, <2>2, <2>3 DEF Told, Once, InTime, Kept, Remembered
<1>4. CASE Advance
  BY <1>1, <1>4 DEF Advance
<1>5. ASSUME NEW slot \in Slots, NEW qty \in 1..MaxQty, Execute(slot, qty) PROVE Told'
  <2> DEFINE e == [slot |-> slot, time |-> feed[at].time, qty |-> qty, trade |-> at]
  <2>1. venue' = Append(venue, e) /\ UNCHANGED <<orders, answered, seen, fills>>
    BY <1>5 DEF Execute
  <2>2. venue \in Seq(Execution) /\ answered \in 0..Len(venue)
    BY DEF IInv, Executions
  <2> HIDE DEF e
  <2>3. /\ Len(venue) \in Nat
        /\ \A i \in 1..answered : venue'[i] = venue[i]
    BY <2>1, <2>2
  <2>4. \A s : LatestIn(venue', s, answered) = LatestIn(venue, s, answered)
    <3> SUFFICES ASSUME NEW s PROVE LatestIn(venue', s, answered) = LatestIn(venue, s, answered)
      OBVIOUS
    <3>1. {i \in 1..answered : venue'[i].slot = s} = {i \in 1..answered : venue[i].slot = s}
      BY <2>3
    <3> QED
      BY <3>1 DEF LatestIn, SelectLastInSubSeq
  <2>5. \A k \in 1..answered :
          \/ \E j \in (k + 1)..answered : venue'[j].slot = venue'[k].slot /\ venue'[j].time = venue'[k].time
          \/ \E i \in DOMAIN fills : fills[i] = venue'[k]
    <3> SUFFICES ASSUME NEW k \in 1..answered
                 PROVE  \/ \E j \in (k + 1)..answered :
                                venue'[j].slot = venue'[k].slot /\ venue'[j].time = venue'[k].time
                        \/ \E i \in DOMAIN fills : fills[i] = venue'[k]
      OBVIOUS
    <3>1. (k + 1)..answered \subseteq 1..answered
      BY <2>2
    <3>2. \/ \E j \in (k + 1)..answered : venue[j].slot = venue[k].slot /\ venue[j].time = venue[k].time
          \/ \E i \in DOMAIN fills : fills[i] = venue[k]
      BY DEF Told, Kept
    <3>3. venue'[k] = venue[k] /\ \A j \in (k + 1)..answered : venue'[j] = venue[j]
      BY <2>3, <3>1
    <3> QED
      BY <3>2, <3>3
  <2>6. Once'
    <3>1. \A i \in DOMAIN fills : \E k \in 1..answered : fills[i] = venue'[k]
      <4>1. \A i \in DOMAIN fills : \E k \in 1..answered : fills[i] = venue[k]
        BY DEF Told, Once
      <4> QED
        BY <2>3, <4>1
    <3>2. \A i, j \in DOMAIN fills : fills[i] = fills[j] => i = j
      BY DEF Told, Once
    <3> QED
      BY <2>1, <3>1, <3>2 DEF Once
  <2>7. InTime'
    BY <2>1 DEF Told, InTime
  <2>8. Kept'
    BY <2>1, <2>5 DEF Kept
  <2>9. Remembered'
    BY <2>1, <2>4 DEF Told, Remembered
  <2> QED
    BY <2>6, <2>7, <2>8, <2>9 DEF Told
<1>6. ASSUME NEW upto \in (answered + 1)..Len(venue), Wake(upto) PROVE Told'
  BY <1>6, WakeTells
<1>7. CASE Settle
  BY <1>1, <1>7 DEF Settle, run
<1> QED
  BY <1>1, <1>2, <1>3, <1>4, <1>5, <1>6, <1>7 DEF Next, vars, run

LEMMA AlwaysTold == Spec => []Told
<1>1. IInv /\ Told /\ [Next]_vars => Told'
  BY NextTells
<1> QED
  BY <1>1, Inductive, ToldAtInit, PTL DEF Spec

\* Every fill is an execution of the exchange, recorded once, and at the end the
\* last execution of each order at each time is among the fills, however many
\* responses of one time a wake finds: only an execution that another one of its
\* order and time supersedes can be missing
\* (research/hftbacktest_adapter.py:501-530).
THEOREM LatestExecutionsKeptHolds == Spec => []LatestExecutionsKept
<1>1. IInv /\ Told => LatestExecutionsKept
  <2> SUFFICES ASSUME IInv, Told PROVE LatestExecutionsKept
    OBVIOUS
  <2>1. venue \in Seq(Execution) /\ Len(venue) \in Nat /\ DOMAIN venue = 1..Len(venue)
    BY DEF IInv, Executions
  <2>2. Range(fills) \subseteq Range(venue)
    BY DEF IInv, Recorded, Range
  <2>3. \A i, j \in DOMAIN fills : fills[i] = fills[j] => i = j
    BY DEF Told, Once
  <2>4. ASSUME phase = "settled", NEW k \in DOMAIN venue
        PROVE  Superseded(k) \/ venue[k] \in Range(fills)
    <3>1. answered = Len(venue) /\ k \in 1..answered
      BY <2>1, <2>4 DEF IInv, Unstarted
    <3>2. \/ \E j \in (k + 1)..answered : venue[j].slot = venue[k].slot /\ venue[j].time = venue[k].time
          \/ \E i \in DOMAIN fills : fills[i] = venue[k]
      BY <3>1 DEF Told, Kept
    <3> QED
      BY <3>1, <3>2 DEF Superseded, Range
  <2> QED
    BY <2>2, <2>3, <2>4 DEF LatestExecutionsKept
<1> QED
  BY <1>1, Inductive, AlwaysTold, PTL

\* Each hour of funding is paid on a position that counts every fill before the
\* hour and none after it, although the loop records the fills order by order and
\* the code adds them up until the first later one, because what is told at one
\* wake is of one time (research/tier2_replay/attribution.py:30-46).
THEOREM FundingFollowsFillsHolds == Spec => []FundingFollowsFills
<1>1. IInv /\ Told => FundingFollowsFills
  <2> SUFFICES ASSUME IInv, Told, NEW i \in DOMAIN flows
               PROVE  \E boundary \in SUBSET {j \in DOMAIN fills : fills[j].time = flows[i].time} :
                          flows[i].position = start + Change(fills,
                              {j \in DOMAIN fills : fills[j].time < flows[i].time} \cup boundary)
    BY DEF FundingFollowsFills
  <2> DEFINE time == flows[i].time
             before == {j \in DOMAIN fills : fills[j].time < time}
             boundary == {j \in DOMAIN fills : fills[j].time = time}
             counted == {k \in DOMAIN fills : \A j \in 1..k : fills[j].time <= time}
  <2>1. flows[i].position = start + Change(fills, counted)
    BY DEF IInv, Paid, PositionAt
  <2>2. fills \in Seq(Execution) /\ DOMAIN fills = 1..Len(fills) /\ Len(fills) \in Nat
    BY DEF IInv, Recorded
  <2>3. time \in Int
    BY ReplayAssumption DEF IInv, Paid
  <2>4. \A j \in DOMAIN fills : fills[j].time \in Int
    <3>1. \A j \in DOMAIN fills : fills[j] \in Execution
      BY <2>2
    <3> QED
      BY <3>1, ReplayAssumption DEF Execution
  <2>5. \A j, k \in DOMAIN fills : j <= k => fills[j].time <= fills[k].time
    BY DEF Told, InTime
  <2> HIDE DEF time
  <2>6. ASSUME NEW k \in DOMAIN fills
        PROVE  k \in counted <=> fills[k].time <= time
    <3>1. k \in 1..k /\ \A j \in 1..k : j \in DOMAIN fills /\ j <= k
      BY <2>2
    <3> QED
      BY <2>3, <2>4, <2>5, <3>1
  <2>7. counted = before \cup boundary
    <3>1. \A k \in DOMAIN fills : fills[k].time <= time <=> fills[k].time < time \/ fills[k].time = time
      BY <2>3, <2>4
    <3> QED
      BY <2>6, <3>1
  <2> HIDE DEF counted
  <2>8. flows[i].position = start + Change(fills, before \cup boundary)
    BY <2>1, <2>7
  <2> QED
    BY <2>8 DEF time
<1> QED
  BY <1>1, Inductive, AlwaysTold, PTL

=============================================================================
