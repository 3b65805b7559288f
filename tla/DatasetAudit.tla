---------------------------- MODULE DatasetAudit ----------------------------
(***************************************************************************)
(* The audit of a canonical dataset (datasets/audit/): which events it     *)
(* accepts and what it finds against them.  A trade that repeats a stable  *)
(* identity is dropped; it speaks against the dataset only if it does not  *)
(* repeat what the identity first stood for.  Books and funding references *)
(* have no identity and are never dropped.                                 *)
(*                                                                         *)
(* A dataset is a part of the recorded events: the set of their indices.   *)
(* An event is traced if its raw object is complete and its normalization  *)
(* schema the requested one.  Tick and lot alignment, which are judged     *)
(* event by event like it, and the statistics of gaps are left out.        *)
(***************************************************************************)
EXTENDS Integers, Sequences

CONSTANTS
    Hour,    \* nanoseconds of an hour, in units of the clock
    MaxTime  \* bound on the time of an event

ASSUME AuditAssumption == Hour \in Nat \ {0} /\ MaxTime \in Nat

Unbounded == 0
NoRate == "no rate"

\* DatasetAuditExpectations.
Expectations == [start : 0..MaxTime, end : 0..MaxTime, overlap : BOOLEAN]

IsTrade(e) == e.what = "trade"
IsBook(e) == e.what = "book"

-----------------------------------------------------------------------------
\* The trades before i, of a part of the events, that have its identity.
Earlier(events, part, i) ==
    {j \in part : j < i /\ IsTrade(events[j]) /\ events[j].identity = events[i].identity}

\* Whether seen_trades holds the identity of an event when it is its turn.
IsRepeated(events, part, i) == IsTrade(events[i]) /\ Earlier(events, part, i) # {}

\* Faulty variant: a trade is told by its economics alone, whenever it occurs.
SameTradeAnyTime(e, f) == e.economics = f.economics

\* _trade_fingerprint.
SameTrade(e, f) == e.time = f.time /\ e.economics = f.economics

\* A repeated trade that is not what its identity first stood for.
Conflicts(events, part) ==
    {i \in part : /\ IsRepeated(events, part, i)
                  /\ \E first \in Earlier(events, part, i) :
                        /\ ~IsRepeated(events, part, first)
                        /\ ~SameTrade(events[first], events[i])}

\* DatasetAuditReport.accepted_events.
Accepted(events, part) == {i \in part : ~IsRepeated(events, part, i)}

Times(events, part, Test(_)) == {events[i].time : i \in {j \in part : Test(events[j])}}
AnyEvent(e) == TRUE

\* book_trade_overlap_ns: the time that books and trades have in common.
Overlaps(events, part) ==
    LET books == Times(events, part, IsBook)
        trades == Times(events, part, IsTrade)
    IN  \E from, to \in Times(events, part, AnyEvent) :
            /\ from < to
            /\ \A span \in {books, trades} :
                /\ \E t \in span : t <= from
                /\ \E t \in span : t >= to

IsCompleteFunding(e) == e.what = "funding" /\ e.rate # NoRate

\* required_hourly_funding_timestamps.
HoursOf(events, part) ==
    {t \in 1..MaxTime : /\ t % Hour = 0
                        /\ \E s \in Times(events, part, AnyEvent) : s <= t
                        /\ \E s \in Times(events, part, AnyEvent) : s >= t}

\* audit_canonical_dataset: what speaks against a dataset in canonical order.
Findings(events, part, expectations, required) ==
    LET accepted == Accepted(events, part)
        times == Times(events, accepted, AnyEvent)
        when(condition, finding) == IF condition THEN {finding} ELSE {}
    IN  when(part = {}, "empty") \cup
        when(\E i \in part : ~events[i].traced, "untraced") \cup
        when(Conflicts(events, part) # {}, "conflict") \cup
        when(\/ expectations.start # Unbounded /\ \A t \in times : t > expectations.start
             \/ expectations.end # Unbounded /\ \A t \in times : t < expectations.end,
             "coverage") \cup
        when(expectations.overlap /\ ~Overlaps(events, accepted), "overlap") \cup
        when(~required \subseteq Times(events, accepted, IsCompleteFunding), "funding")
=============================================================================
