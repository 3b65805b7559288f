--------------------------- MODULE Tier2Candidate ---------------------------
(***************************************************************************)
(* A calibrated Tier-2 replay (research/tier2_calibrated_candidate.py,     *)
(* tier2_calibrated_replay.py): the events of an accepted dataset up to    *)
(* the decision are fed to calibration, book by book, each with the        *)
(* funding reference and the evidence known at its time; the calibrated    *)
(* market gives the candidate; and the events from the decision on are     *)
(* audited again and replayed from their first book.                       *)
(*                                                                         *)
(* Calibration is a function of the observations it was given, so that     *)
(* these stand for its state.  A frame brings new OFI samples, each named  *)
(* by the microsecond it matured at, and replaces the intensity buckets    *)
(* and markouts, which its time stands for.                                *)
(***************************************************************************)
EXTENDS DatasetAudit, FiniteSets, SequencesExt

CONSTANTS
    Events,     \* what may be recorded; the mid of a book is 0 if one of its
                \* sides is empty
    Manifests,  \* the manifests of datasets: their expectations and funding hours
    Samples,    \* the microseconds at which OFI samples mature
    Micro,      \* nanoseconds of a microsecond, in units of the clock
    Intervals,  \* microseconds allowed between observations
    MaxEvents,  \* bound on the events of a dataset
    MaxFrames   \* bound on the evidence frames

ASSUME CandidateAssumption ==
    /\ \A e \in Events : e.time \in 1..MaxTime
    /\ Manifests \subseteq [expectations : Expectations, required : SUBSET (1..MaxTime)]
    /\ Micro \in Nat \ {0} /\ Samples \subseteq Nat
    /\ Intervals \subseteq Nat \ {0} /\ {MaxEvents, MaxFrames} \subseteq Nat

VARIABLES
    feed,     \* the canonical events, in canonical order
    frames,   \* the evidence frames, in the order of their as_of times
    dataset,  \* the manifest of the dataset that was replayed
    result    \* CalibratedTier2ReplayResult, with the number of events it was given

vars == <<feed, frames, dataset, result>>

Frame == [asOf : 1..MaxTime, samples : SUBSET Samples]
NoDataset == [expectations |-> "none"]
NoResult == [refused |-> {}]

TypeOK ==
    /\ \A i \in DOMAIN feed : feed[i] \in Events
    /\ frames \in Seq(Frame)
    /\ dataset \in Manifests \cup {NoDataset}
    /\ (dataset = NoDataset) <=> (result = NoResult)
    /\ result # NoResult =>
        /\ result.candidate.observations # <<>>
        /\ Last(result.candidate.observations).time = result.candidate.at
        /\ result.replayed \subseteq 1..result.given /\ result.given <= Len(feed)
        /\ result.replayed = {} <=> result.refused # {}

Init == feed = <<>> /\ frames = <<>> /\ dataset = NoDataset /\ result = NoResult

-----------------------------------------------------------------------------
\* What is recorded after a decision is later than it.
IsRecordable(time) == result # NoResult => time > result.candidate.at

Record(event) ==
    /\ Len(feed) < MaxEvents
    /\ feed # <<>> => Last(feed).time <= event.time
    /\ IsRecordable(event.time)
    /\ feed' = Append(feed, event)
    /\ UNCHANGED <<frames, dataset, result>>

\* _datetime_from_ns.
Clock(time) == time \div Micro

\* A frame of evidence: what it carries has matured, and none of it twice.
Publish(frame) ==
    /\ Len(frames) < MaxFrames
    /\ frames # <<>> => Last(frames).asOf < frame.asOf
    /\ \A m \in frame.samples : m <= Clock(frame.asOf)
    /\ \A i \in DOMAIN frames : frames[i].samples \cap frame.samples = {}
    /\ IsRecordable(frame.asOf)
    /\ frames' = Append(frames, frame)
    /\ UNCHANGED <<feed, dataset, result>>

-----------------------------------------------------------------------------
(* The candidate.                                                          *)

\* Faulty variant: the evidence of a dataset is there from its first book on.
DueAnyTime(evidence, at, time) == Len(evidence)

\* The number of frames a decision has consumed at a book.
Due(evidence, at, time) ==
    Cardinality({i \in DOMAIN evidence : evidence[i].asOf <= at /\ evidence[i].asOf <= time})

\* Faulty variant: the pending samples are not cleared when a book has taken them.
PendingUncleared(evidence, from, to) == UNION {evidence[i].samples : i \in 1..to}

\* The samples of the frames consumed since the last book.
Pending(evidence, from, to) == UNION {evidence[i].samples : i \in (from + 1)..to}

\* update_calibration_engine: strictly newer, and on the cadence if there is one.
Follows(last, time) == (Clock(time) - Clock(last)) \in Intervals

\* What makes the update for a book raise.
Raises(state, book) ==
    \/ book.mid = 0
    \/ /\ state.observations # <<>>
       /\ ~Follows(Last(state.observations).time, book.time)

\* _book_context, with the evidence the update is given beside it.
Observation(book, rate, samples, evidence) ==
    [time |-> book.time, mid |-> book.mid, rate |-> rate, samples |-> samples, evidence |-> evidence]

\* The update for a book, with the frames that are due by then.
Observe(evidence, at, state, book) ==
    LET due == Due(evidence, at, book.time)
        samples == Pending(evidence, state.consumed, due)
        latest == IF due = 0 THEN 0 ELSE evidence[due].asOf
    IN  [raised       |-> state.raised \/ Raises(state, book),
         rate         |-> state.rate,
         consumed     |-> due,
         observations |-> Append(state.observations, Observation(book, state.rate, samples, latest))]

\* An event before or at the decision: trades are not calibration's.
Consume(evidence, at, state, e) ==
    CASE e.what = "funding" -> [state EXCEPT !.rate = e.rate]
      [] e.what = "book" -> Observe(evidence, at, state, e)
      [] OTHER -> state

\* One turn of the loop of derive_tier2_calibrated_candidate, which passes over
\* what the audit dropped and what is later than the decision.
After(events, evidence, at, state, i) ==
    IF IsRepeated(events, DOMAIN events, i) \/ events[i].time > at THEN state
    ELSE Consume(evidence, at, state, events[i])

Fresh == [raised |-> FALSE, rate |-> NoRate, consumed |-> 0, observations |-> <<>>]

\* The state of the loop after every event.
Progress(events, evidence, at) ==
    LET state[i \in 0..Len(events)] ==
        IF i = 0 THEN Fresh ELSE After(events, evidence, at, state[i - 1], i)
    IN  state

Derivation(events, evidence, at) == Progress(events, evidence, at)[Len(events)]

\* A derivation that does not raise: a book stands at the decision itself.
Decides(derivation, at) ==
    /\ ~derivation.raised
    /\ \E i \in DOMAIN derivation.observations : derivation.observations[i].time = at

Candidate(events, evidence, at) ==
    [at |-> at, observations |-> Derivation(events, evidence, at).observations]

-----------------------------------------------------------------------------
(* The replay.                                                             *)

\* _replay_window.
Window(events, at) == {i \in DOMAIN events : events[i].time >= at}

\* _replay_audit_expectations: the coverage asked for is that of the window.
WindowExpectations(expectations, times) ==
    [expectations EXCEPT !.start = IF @ = Unbounded THEN @ ELSE Min(times),
                         !.end = IF @ = Unbounded THEN @ ELSE Max(times)]

\* _validate_exact_hour_funding.
UnpricedHours(events, part) ==
    {i \in part : events[i].what = "funding" /\ events[i].time % Hour = 0 /\ events[i].rate = NoRate}

\* What the second audit and the replay hold against a window.
Refusals(events, window, manifest) ==
    Findings(events, window,
             WindowExpectations(manifest.expectations, Times(events, window, AnyEvent)),
             HoursOf(events, window))
    \cup (IF UnpricedHours(events, Accepted(events, window)) # {} THEN {"unpriced hour"} ELSE {})

\* run_calibrated_tier2_replay.  Where it raises, also because calibration is
\* not ready at the decision, nothing has changed.
Run(at, manifest) ==
    LET window == Window(feed, at)
        refused == Refusals(feed, window, manifest)
    IN  /\ result = NoResult
        /\ Findings(feed, DOMAIN feed, manifest.expectations, manifest.required) = {}
        /\ Decides(Derivation(feed, frames, at), at)
        /\ dataset' = manifest
        /\ result' = [candidate |-> Candidate(feed, frames, at),
                      given     |-> Len(feed),
                      refused   |-> refused,
                      replayed  |-> IF refused = {} THEN Accepted(feed, window) ELSE {}]
        /\ UNCHANGED <<feed, frames>>

Next ==
    \/ \E event \in Events : Record(event)
    \/ \E frame \in Frame : Publish(frame)
    \/ \E at \in 1..MaxTime, manifest \in Manifests : Run(at, manifest)

Spec == Init /\ [][Next]_vars

-----------------------------------------------------------------------------
\* What is recorded later, events or evidence, does not change the candidate of
\* an earlier decision ("Future frames cannot change the earlier candidate or
\* its provenance digest"; tier2_calibrated_candidate.py:234-304).
FutureIsSilent ==
    result # NoResult => Candidate(feed, frames, result.candidate.at) = result.candidate

\* Calibration is given each OFI sample once, at the first book that is not
\* earlier than the frame of the sample, however many frames fell between two
\* books (tier2_calibrated_candidate.py:264-297).
SamplesGivenOnce ==
    result # NoResult =>
        LET observations == result.candidate.observations
        IN  \A k \in DOMAIN frames, m \in Samples :
                m \in frames[k].samples /\ frames[k].asOf <= result.candidate.at =>
                    {i \in DOMAIN observations : m \in observations[i].samples} =
                    {i \in DOMAIN observations :
                        /\ frames[k].asOf <= observations[i].time
                        /\ \A j \in 1..(i - 1) : observations[j].time < frames[k].asOf}

\* The second audit accepts of the window what the first accepted of the whole:
\* no trade counts in the replay that the dataset had already dropped
\* (tier2_calibrated_replay.py:98-121, datasets/audit/runner.py:111-140).
WindowKeepsTheAudit ==
    result # NoResult /\ result.replayed # {} =>
        result.replayed = {i \in Accepted(feed, DOMAIN feed) :
                            i <= result.given /\ feed[i].time >= result.candidate.at}

=============================================================================
