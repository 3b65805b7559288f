# Verification of Grid-trade

TLA+ models of the parts of Grid-trade in which steps of several actors meet:
the passive quoting cycle that decides, asks hard risk, cancels and replaces
orders while the venue fills them, and the runners and the calibrated account
built on it; the stages that turn signals into a target position; the forward
recorder that has to keep market data through disconnects, failing file system
calls and crashes; the replay of such data, which must not claim what truncated
snapshots do not show nor decide on what was recorded later; and the online
calibration, fed in steps that may be refused and with labels that come late.
TLC checks the models on small instances, and TLAPS proves the safety properties
of each for every value of the constants that the named assumptions allow.

Paths are relative to `src/grid_trade/` unless they start with `docs/` or `README.md`.

## Inventory

| component | state it keeps | operations | interacts with |
|---|---|---|---|
| hard risk (`risk/controller.py`, `domain/risk.py`) | none, pure | `evaluate_risk`, `filter_passive_orders`, `assess_passive_ladder_risk` | called by every policy transition and continuation with the observed position and working orders |
| reconciliation (`execution/reconcile.py`) | none, pure; raises on malformed input | `reconcile_passive_orders` | called with the ladder risk left and the working orders; its plan goes to the venue |
| passive policy cycle (`application/passive_policy.py`, `application/adaptive_grid.py`) | the transition between two calls | `transition_*`, `continue_*_reconciliation` | owner keeps `next_state` and the transition |
| adaptive grid (`strategy/adaptive_grid.py`, `adaptive_ladder.py`, `inventory_target.py`) | `AdaptiveGridState`: target, reference, spacing, generation | `initialize_adaptive_grid`, `decide_adaptive_grid`, `build_adaptive_ladder` | target stages, instrument spec |
| target stages (`de_risk`, `conditional_short`, `target_profile`, `funding_bias`) | none, pure | one decision per snapshot, in the order of `strategy/adaptive_grid.py` | adaptive grid |
| S0-S2 grids (`strategy/dynamic_center.py`, `s2_adaptive_grid.py`, `fixed_grid.py`, `grid_geometry.py`, `volatility_spacing.py`) | center, spacing, generation | decide, re-anchor | same policy cycle |
| sizing (`risk/sizing.py`) | none, pure | `derive_inventory_capacity` | calibrated adaptive application |
| calibrated adaptive application (`application/calibrated_adaptive.py`) | the policy state and the configuration it was applied with | prepare, initialize, transition, continue | calibration, sizing, policy cycle |
| controlled runners (`research/*_runner.py`) | state, working orders, evidence | one snapshot after the other | policy cycle, evidence ledger |
| online calibration (`calibration/`) | windows of prices, funding rates and labels in two engines' immutable states | one `update_universal_calibration` per observation | calibrated adaptive application |
| forward recorder (`integrations/hyperliquid/forward_recorder/`) | connection, continuity epoch, records; segment files and manifests | connect, note_disconnect, reconnect, capture; append, finalize, abort | transport, file system |
| canonical events (`datasets/canonical.py`) | visibility and epoch of each price level | `BookVisibilityTracker.apply` | normalization, replay |
| replay (`research/hftbacktest_adapter.py`, `research/tier2_replay/`) | executions seen, fills, funding flows | replay, attribution | canonical events, policy cycle |
| calibrated replay (`research/tier2_calibrated_candidate.py`, `tier2_calibrated_replay.py`) | evidence consumed, samples pending | derive the candidate, audit and replay the window | calibration, dataset audit, replay |
| dataset audit (`datasets/audit/`) | none across calls | `audit_canonical_dataset` | canonical events, replay |
| evidence ledger, normalization, archives, Nautilus adapter | none across calls | validation and conversion | files |

`PROJECT.json` gives each component's status and the reason where it is not
modelled, and lists the hazards: the places where an order of events, a failure
or a boundary can go wrong that a unit test hardly reaches, with the properties
that cover each, or a note of what is still missing.

What makes these parts correct, in one line each: risk and reconciliation bound
exposure and keep one generation of quotes at the venue whatever fills between
observation and call; the policy cycle commits only a state whose whole ladder
is what works; a runner's own orders are those its plans leave; the target never
leaves the cap nor crosses the position; a configuration is stored only beside
the ladder it gives; the segment writer never loses an acknowledged payload nor
publishes a manifest that does not describe its data; the session never lets an
epoch span an outage and records each outage; the replayed book agrees with the
market wherever a snapshot can see it, and no queue survives an interruption;
the replay promotes no fill it cannot know of, records no execution twice, and
decides on nothing recorded later; the calibration fits what it
would fit had it kept everything, and its two
engines never part.

## Quoting

### Modules

| module | models |
|---|---|
| `Orders` | order intents, ladders as functions from slots (side, level) to intents, working orders and their ids `<<generation, slot>>` |
| `RiskController` | `evaluate_risk`, `filter_passive_orders` with both running projections, `assess_passive_ladder_risk` |
| `Reconcile` | `reconcile_passive_orders`: identity, conflicts, missing intents, the cases that raise |
| `AdaptiveGrid` | states, flat-before-reverse, inventory skew, capacities of each side, minimum quantity, `decide_adaptive_grid` and its generations |
| `PassivePolicy` | `transition_passive_policy`, `continue_passive_policy_reconciliation` |
| `QuoteExecution` | composes the above with an owner that observes and calls, and with the venue, market and account |
| `QuoteBook` | abstract: working ids and the committed generation only |
| `QuoteProperties` | the properties and the refinement mapping to `QuoteBook` |
| `QuoteProofs` | the proofs |
| `MCQuoteExecution` | constants of the TLC instances |

### How it corresponds to the code

`Observe` takes the snapshot (with its position) and the working orders;
`TransitionCall` and `ContinueCall` are the two entry points of
`application/adaptive_grid.py`, each with everything it calls: decision, ladder,
risk, reconciliation, the choice of `next_state`. `Apply` is what the owner does
with the outcome, as `research/adaptive_runner.py:401-446` does: keep the state,
submit, request cancellations, and keep the transition for the continuation when
the plan cancels. A `ValueError` leaves everything as it was. A transition may
also be called while a continuation is pending; then the pending one is dropped.

Between an observation and the call that uses it, and between the request of a
cancellation and its confirmation, the venue goes on: `Fill` (any part of what
remains), `VenueEnds`, `ConfirmCancel`; the market moves, the account's drawdown
and open orders change, and the observation may grow older than
`max_data_age_ms`. The code says nothing of when these happen, so they
interleave freely, up to `MaxEvents` of them (cancellations confirmed are not
counted).

Abstractions. A price is a model value chosen with the signals, and orders agree
on price exactly when their state's reference does; collapse of levels on a
tick, minimum notional and reservation skew are inside that choice. Quantities
are integers of the instrument's step; flooring and the minimum quantity are
kept. The pipeline of target stages is an arbitrary requested target followed by
`enforce_flat_before_reverse`; the stages are in `TargetPipeline`. The observation is atomic and shows the owner's
own submissions at once. Calls consume their observation. Snapshots of another
instrument, future snapshots and configurations that raise at construction are
left out: they change nothing. So is the `ValueError` of an open order count below the
known working orders (`application/passive_policy.py:49-50`), because the count is
made from them. The venue does not enforce reduce-only itself.

### Runs

| run | bounds | result |
|---|---|---|
| `quote_cycle` | two levels a side, one price, quantity 3, four open orders, ladder cap 4 above the risk cap 3, start flat or at either limit, three events | 178 000 states. Everything below holds |
| `quote_reverse` | one level, start flat, four events | `ReverseFromFlat` is violated |

`quote_cycle` checks, over the same behaviours: of the book, `OneGeneration`
(no two generations work at once), `ExposureBounded` (no set of fills leads
beyond the limit) and `ReduceOnlyCovered` (reduce-only orders never exceed what
they reduce); of the steps, `CommitMatchesBook` and `NoSmuggledCommit` (a state
is committed with its whole ladder and no other order in the book, also by a
continuation),
`RiskClearedEntry` (no order enters on a stale snapshot, in a drawdown or beyond
the limit of open orders), `DecisionsReverseFromFlat` (no decision opens risk
against the observed position, also one that is made while an earlier transition
still waits; only a continuation can) and `RaisesOnlyAfterRefusal` (a call raises
only when it meets orders of a refused candidate); that the quoting implements
`QuoteBook`; and the liveness property `SettlesOrBlocks`.

Why the bounds are enough. The hazards need one observation made before a fill,
one cancellation still open and one refusal of the candidate. Two levels a side
give ladders of which a part is kept and a part is cancelled, quantity 3 gives
part fills, and a ladder cap above the risk cap gives refused candidates that
leave reduce-only orders. `OthersOpen` lets the count of open orders be at its
limit. Three events fit a fill before, during and after a cycle. The number of
calls and cancellations is not bounded, and generations do not grow without
bound because only a committed change advances them.

Fairness (`FairSpec`): the owner observes and makes some call (`WF` of `Observe`
and of consuming an observation), which is the polling loop of every runner,
and the venue confirms requested cancellations. Nothing is assumed of the
market, the account or fills; `MaxEvents` makes them fall quiet, and the
property speaks of that time. It does not choose between the two calls, so a
pending transition may be continued or replaced by a new decision.

What these runs show beside. `ReverseFromFlat`: the design asks that opposite
risk is opened only after a flat position was observed
(`docs/superpowers/specs/2026-08-09-long-biased-adaptive-grid-design.md`,
section 12, `README.md:144`). New decisions do
(`DecisionsReverseFromFlat`), but a continuation submits the ladder decided
earlier: when an order under cancellation fills first, the new-risk orders enter
against the position now observed. Hard risk still bounds the total
(`ExposureBounded`). Also `SettlesOrBlocks` names a state in which every decision
raises: a partly filled order of a refused candidate holds the id that the next
candidate needs with another quantity, and `reconcile_passive_orders` raises until
that order ends. No document rules this out, so it is part of the property
and not a finding.

### Proofs

`QuoteProofs` proves, for every number of levels, set of prices, limit,
quantity, skew and number of events allowed by the named assumptions of the
modules, `Spec => []TypeOK`, `[]OneGeneration`, `[]LiveGenerations`, the action
properties `CommitMatchesBook` and `NoSmuggledCommit`, and that `Spec` implements
`QuoteBook`.

None of these is inductive alone, because a call decides on an old observation.
The inductive invariant is

    IInv == TypeOK /\ OneGeneration /\ LiveGenerations /\ IObs /\ IPending

- `IObs`: every live order was in the observation at hand, under its id and with
  the same order. Orders enter only by calls, and a call consumes the
  observation; so what reconciliation finds free of conflicts is free of
  conflicts at the venue, although fills may have gone on.
- `IPending`: a pending transition starts from the committed state, its
  candidate is of the committed generation or the next, and it is marked
  accepted only with its candidate's whole ladder. This is what keeps the
  reduce-only part of a refused candidate from being committed.

`CycleResult` states once what a cycle may return (either it raises, or it
cancels and submits nothing, or it submits beside orders of its own generation
only); `CallsAreProper` shows that both calls return such results, `CallEffect`
and `EffectKeepsInv` that any such result keeps `IInv`, and the action
properties and the refinement follow from `CallEffect` under the invariant.

The second half of `QuoteProofs` is what hard risk promises: `[]ExposureBounded`,
`[]ReduceOnlyCovered`, `RiskClearedEntry`, `RaisesOnlyAfterRefusal` and
`DecisionsReverseFromFlat`. Its invariant is

    RiskInv == IInv /\ ISided /\ IDrift /\ ICommitted /\ ISame
                    /\ ExposureBounded /\ ReduceOnlyCovered

- `ISided`: the orders of one side are all reduce-only or all new risk, and one
  of the sides is reduce-only. The gate (`risk/controller.py:64-103`) projects
  each side on its own, which bounds every mixture of fills only for such ladders.
- `IDrift`: since the observation, position and working orders of a side together
  have not grown. A fill moves exposure from an order to the position and an end
  of an order takes it away, so that a decision on an old observation is still
  right about the bound.
- `ICommitted` and `ISame`: orders of the committed generation are orders of the
  committed ladder, and what is desired for a candidate is a part of the
  candidate's ladder. Without this the orders that are kept could be larger than
  the ones the gate has added up.

The sums are folds over sets. Induction over the number of orders (`AllNumbers`,
from the well-foundedness of the natural numbers) shows that the fold of
`Outstanding` is what its recursion says and adds up over parts; the same
induction over the slots shows what the loop of the gate lets through. The
assumption on the constants says in addition that `NoObs` is no observation.

Only model-checked: `SettlesOrBlocks`, because liveness is out of the prover's
reach.

## Forward recorder

### Modules

`SegmentWriter` follows `segment.py` call by call: in append the write of the
header, the write of the payload and the sync (`AppendHeader`, `AppendPayload`,
`AcknowledgeFrame`), and in finalize the sync of the data, the rename, the sync of the directory, the
reading of the final file, the written and synced partial manifest, its rename
and the second directory sync. Each can raise, with the effect the code has at
that point: `_closed` is set only after the file is closed, so that a failing
first sync leaves a usable writer and every later failure an unusable one.
`disk` is what the operating system shows, `safe` what a loss of power leaves at
the least; after `Crash` each artifact is anything between the two, and a writer
may be opened again where the code's existence checks allow it.

Assumed of the file system: a rename is atomic; a sync of a file makes its
directory entry durable with it; a sync that succeeds after one that failed
covers the earlier data. A frame is its receive time and whether it is whole: one
that is not stands for any part of it that a raising write (`AppendRaises`) or a loss
of power (`Remains`) may leave. The manifest's hash and length stand for the frames.

`RecorderSession` follows `session.py`: connect, note_disconnect, reconnect, the
capture of books with a writer of any epoch, heartbeats and references. Each
attempt to connect has a transport of its own; sending the subscriptions can
raise after none, one or both messages, when the epoch has already advanced. The
clock does not go back, but a book is stamped when it was received, up to
`MaxLag` before its capture. The append comes before the continuity record:
a record whose first book is older than the reconnect raises
(`contracts.py:73-75`), the book stays in the segment, and `returned` tells it
from the captured ones. `heard` and `fetched` are what the transport and the
reference segment really got. `capture_trades` appends like a book without the
boundary and has no state of its own.

### Runs

| run | bounds | result |
|---|---|---|
| `recorder` | of the writer three frames, three receive times; of the session clock to 4, three books, three reconnects, lag 1 | 7 500 states of the writer: `ManifestTellsTruth` and `AckedSurvive` hold. 2.4 million of the session: `EpochSeparates`, `BoundaryRecorded`, `UncoveredIsUncovered`, `QuietLinkIsAlive`, `CapturedGapReported` hold |
| `recorder_torn` | the writer, as above | `AckedReadable` is violated |
| `recorder_outage` | clock to 3, two books, three reconnects, lag 1 | `EveryOutageRecorded` is violated |

The two modules share no variable, so that `MCRecorder` lets each work while the other
is as it was made: interleaving them would only multiply their states.

Three frames fit one acknowledged, one whose write or sync failed and one after it. Three
reconnects fit a failed attempt, one lost before its first book and one that is
completed; a lag of 1 is enough for a book received before the reconnect at which
it is captured. The recorder runs do not check deadlock: a writer ends, and the
clock, books and attempts are bounded.

Finding, `recorder_torn`. When the write of the payload raises (`segment.py:143`), the
header stays in the file and the writer stays open. A retry appends a whole frame
behind it and is acknowledged, and finalize publishes the segment as complete; but
the reader takes the length from the torn header and the payload from the frame
behind it (`segment.py:219-232`), so that the acknowledged payload is durable
(`AckedSurvive`) and not found.
`docs/tier2-historical-forward-replay.md:35` and
`tests/integrations/hyperliquid/test_forward_recorder.py:41` say that it is kept and read.

Finding, `recorder_outage`. A disconnect before the first book after a reconnect overwrites the
earlier disconnect: no continuity record covers the first outage, where
`docs/superpowers/specs/2026-08-10-tier2-historical-forward-replay-design.md:213`
promises one for each. The records that are made are right
(`BoundaryRecorded`, `UncoveredIsUncovered`).

Three more things the models contain and no document rules out:

- A frame whose sync raised stays in the file, while `_receive_end_ns` is only
  set after the sync (`segment.py:138-144`). An owner who goes on with the writer
  may append an earlier frame, and the file is then not in order.
- A book that was refused as a boundary is in the segment of its epoch, before
  the book that a record names as the first (`session.py:205-239`).
- While no reference was ever captured the gap counts from the latest connect
  (`session.py:148-152`), so that a session that reconnects often enough reports
  none. Once there was one, `CapturedGapReported` holds.

### Proofs

`RecorderProofs` proves `TypeOK` and the five properties of the session
for every interval, lag and bound. The inductive invariant `IInv` says of the
link that a session that never connected has no epoch (`Links`), of every book
that its epoch is not a future one and what number of outages it saw
(`BooksOfEpochs`, `Separated`), of a session that waits for a boundary that its
disconnect is the last one and that its epoch has no captured book yet
(`OpenOutage`), of each record that it belongs to a past epoch and that what it
calls uncovered holds no captured book (`RecordsOfEpochs`, `Resumed`,
`Uncovered`), and of a connected session what its stamps are worth (`Stamped`).

`EpochSeparates` is not inductive alone: that two books of one epoch saw the
same outages needs that a disconnected session takes no book and that the epoch
advances before it is connected again, also when that raises.
`UncoveredIsUncovered` needs that later books are not earlier than the
reconnect, which is what the refused record stands for, and that earlier ones
were received before the disconnect.

Its second part proves `WriterTypeOK`, `ManifestTellsTruth` and `AckedSurvive` of
`WriterSpec` for every set of receive times and number of frames. A crash replaces
`disk` by anything between `safe` and `disk`, the last frame torn if it was not
durable, so that the invariant must relate the
two at each call of the writer: `safe` is a prefix of `disk` (`Prefixed`), the frame
that is being synced is whole (`Written`), what was acknowledged is whole and
within `safe` (`Synced`), a count never exceeds the frames (`Counted`), the calls of a
finalization have done their work when the next is made (`Ordered`: naming only
what is durable, describing only what is durable under its final name), and a
manifest, published or not, describes the durable file (`Described`).

## Book visibility

### Modules

| module | models |
|---|---|
| `BookVisibility` | `BookVisibilityTracker.apply`, the depth rows of `canonical_events_to_hftbacktest_fixture`, and the visibility boundary of `first_order_visibility_loss_ns` |
| `QueueEpochs` | abstract: which levels an observation held, and the epoch of each |
| `DatasetProofs` | the proofs, before those about the candidate |

A recorded snapshot holds only the best levels of each side. The tracker keeps
for every price it has met whether it is visible, empty inside the range shown,
or lost behind it; the conversion keeps quantities of its own and turns the
updates into depth rows; hftbacktest adds the rows up.

`Snapshot(book)` is one snapshot through all of it: the tracker's three groups of
updates, the rows and remembered quantities each gives, the levels of the first
snapshot (where a replayed order may stand), and the levels reported lost since.
The market is any book without a crossing, and may change in any way between
snapshots; `Shown` is what the venue shows of it, `Depth` levels a side, and is
external, as is hftbacktest's depth. The replayed book is compared after a whole
snapshot, because the rows of one may cross for a moment. Trades, the events'
order and the records' validation are left out.

### Run

The run `dataset` (`MCDataset`) checks this module and the candidate below, which share
no variable, each while the other is at its start. Here: three prices, quantity 1, one
level a side shown, five snapshots; 55 000 states. The longest history a level needs is visible, empty,
lost, visible again, which takes four snapshots; three prices put a level between
the best and a lost one. Deadlock is not checked because a feed ends.

- `InsideIsTrue`: inside the range of the last snapshot the replayed book is the
  market's. It needs the tracker and the conversion to agree over any sequence
  of losses and returns.
- `TrustedOrderPrices`: the same at the price of an order of the first book, up
  to the first loss reported there, in every snapshot.
- `ReplayUncrossed`: what stays after a loss never crosses the book.
- `ImplementsQueueEpochs`: each return of a level, from a confirmed zero as from
  a loss, starts an epoch it never had.

### Proofs

`DatasetProofs` proves all of them, `BookTypeOK`, and `NoInventedDepth` (a row
never changes a level outside the range), for every number of
prices and quantities, every depth and every length of the feed, from
`BookAssumption`. The inductive invariant `BInv` says for each state of the
tracker what the tracker, the conversion and the replay know of the level,
measured against the market at the last snapshot: a visible level is shown and
all three agree; a zero is inside the range, hidden, and replayed as nothing; an
unseen level is in nothing; a lost one is outside and has no remembered quantity.
None of the properties is inductive alone because the conversion's rows depend
on the remembered quantity, not on the replayed book.

The one fact about the market it rests on is `HiddenInsideIsEmpty`: a level that
is not shown and is at least as good as one that is shown holds nothing. Its
proof compares the cardinalities of the sets of better levels. `ShownStep`,
`EmptiedStep`, `LostStep` and `UnseenStep` then say what a snapshot does to a
level in each case, and the invariant, the action property and the refinement
each follow by these four cases.

## Calibration

### Modules

| module | models |
|---|---|
| `Calibration` | `update_universal_calibration` over the states of both engines |
| `MCCalibration` | the labels of the TLC instances |
| `CalibrationProofs` | the proofs |

A call of `update_universal_calibration` is four kinds of step: `UpdateFoundation`
checks the labels' horizons and the observation's cadence against the sampling
contract and advances the foundation, `StartMicrostructure` hands its scale to
the microstructure, `AddLabel` sorts in one label and cuts the window, `Return`
builds both states and commits them. The first, second and last may raise. What
a call has computed is in `call` and is dropped when it raises, as the states
are immutable and the caller keeps the old pair; `history`, `rates` and
`accepted` only record what was accepted. A caller may go on after a raise, with
a later observation and the labels it still holds
(`research/tier2_calibrated_candidate.py:264-304` clears them only after the
update has returned).

Labels are distinct records, of which `value` tells equal ones apart, in any
order and before or after their maturity. A mid is the exponent of a fixed base,
so that a median absolute deviation is zero exactly when the code's is.
`Accepts` is what the foundation's constructor demands of the state; the other
half, the equal generations of `UniversalCalibrationState`, is the condition of
`Return`. Left out: intensity, execution cost, the scores, fits and readiness
flags, and that a configuration is frozen after the first update.

### Run

`calibration`: three labels with a window of two, two mids, one rate, windows of
two and three observations, time to 5; 1.3 million states. `WindowIsLatest`,
`HistoriesAreRecent`, `LockStep` and `TrendSpansHorizon` hold.

Three labels are one more than the window holds; each may be handed over before,
at or after its maturity and in any order, so that any of them may be the one
that is evicted. All are within the horizon's tolerance: a label that is not
refuses its whole observation, which the proofs cover and other refusals show.
Accepted observations are one to three apart, so that time to 5 lets up to
six come, more than the widest window holds, or fewer with some refused
between. The volatility window is wider than the trend's; the proofs cover
either. Deadlock is not checked because observations are bounded.

Noted beside. When the mids of the window hardly move, the foundation returns a
volatility scale of zero, and `application/calibrated_adaptive.py:248-249` has a
reason `volatility_degenerate` for it; but
`calibration/microstructure_engine.py:275` raises for it first, so that the
update is lost. Under a sampling contract the loss is a gap, and the proved
`GapIsFinal` shows what follows: no later observation is accepted.

### Proofs

`CalibrationProofs` proves all properties of the run, and `StatesAreConsistent` and
`GapIsFinal`, for every sampling contract, every size of the windows and every finite set of labels, from
`CalibrationAssumption`.

- `WindowIsLatest`. The fit speaks of all labels ever handed over, of which the
  state has dropped some. The invariant is `Covers(samples, accepted, time)`:
  each label that was dropped is matured and has a window's worth of later
  matured labels among those kept. Time that passes (`CoversLater`), a new label
  (`CoversMore`) and the cut (`CoversRetained`) preserve it, and it implies the
  property (`CoversIsLatest`). The cut needs `LatestSuffices`: if a label has a
  window's worth of later ones, it has so within the window, for of the later
  ones that were cut the one with the fewest later ones has its own within it.
- `HistoriesAreRecent` and `StatesAreConsistent`. `LastOfAppend` (to cut after
  each value is to cut once) gives what the foundation computes next,
  `LastOfLast` (a shorter window is the end of a longer one) that its constructor
  accepts it. The call's working copy is tied to the state by `CallInv`.
- `TrendSpansHorizon`. `Spacing` says that accepted observations follow each
  other on cadence; `Elapsed` adds up any number of them, by the least number
  for which it fails.

## Runners

### Modules

| module | models |
|---|---|
| `LongGrid` | the ladders of S0 to S2, the center's bounded steps and suppression, the spacing from volatility |
| `ControlledRunner` | the bookkeeping of the S1, S2 and adaptive runners over `PassivePolicy` |
| `RunnerProperties` | the properties |
| `MCRunners` | small paths and prices for the run |
| `RunnerProofs` | the proofs |

A controlled runner walks a path of snapshots. It does itself what a live owner
leaves to the venue: it takes cancellations as confirmed, continues at the same
snapshot, never fills, and counts submissions, cancellations and queue resets.
`Process` is one snapshot: the policy's decision, hard risk, reconciliation, and
then one of `BeginS2` (`research/s2_runner.py:270-300`, before its loop), `Hold`
(a plan without cancellations), `Replace` (cancel and continue) and `Retreat`
(cancel and stop, because hard risk left nothing to continue with). `RunRaises`
ends a run as a `ValueError` does. The policy is `LongGrid` for S1 and S2 and
`AdaptiveGrid` for the adaptive runner (`StartOf`, `DecisionOf`, `LadderOf`), and
`Path` is what each of them reads of a snapshot. `book` is not the runner's: it is
what an account holds that does what the plans say.

Abstractions. Prices and centers are integers with a tick, basis points are
counted in tenths of a whole instead of ten-thousandths, and products are cut
where the code keeps 28 digits. The clock of a path, the path's own generation,
the evidence and the rejection counts are left out.

### Run

`runners`: paths with up to three changes of the snapshot, over four mids, three volatilities,
three or four positions and two references; two levels a side; 61 000 states.
Positions at the limit make hard risk refuse and reduce; mids are chosen so that
a step is bounded, is suppressed, and leads to a price too small to build.

The S1 and S2 runners are given their limits; the adaptive runner makes its own.
There the inventory cap and the position limit are the same number
(`research/adaptive_runner.py:267` and `:300`), 3 here, and twice the three levels
are fewer than the twenty open orders allowed. `AdaptiveLimitsAssumption` says as
much of the constants. It is needed: with a position limit below the cap hard risk
can take a part of an adaptive ladder, and `DeployedWhole` fails.

- `BooksBalance`: what the S1 and adaptive runners believe to work is what the
  account holds, and the counters differ by it, although working orders are
  replaced by the submitted ones, kept or not (`adaptive_runner.py:445`). It
  holds because a ladder is kept whole or cancelled whole.
- `DeployedWhole`: a runner works the whole ladder of its state or nothing.
- `CommitsReachBook`: a state is committed with its whole ladder at the account.

The S2 runner is left out of `BooksBalance`: when hard risk refuses its first
ladder it counts the unsubmitted orders as working
(`research/s2_runner.py:276-281`), keeps them through equal decisions, and asks
to cancel what was never submitted. No document speaks of it.

### Proofs

`RunnerProofs` proves the three for paths of any length over any snapshots, for
every number of levels, every grid and every limit, from
`ControlledRunnerAssumption`, `AdaptiveLimitsAssumption` and the assumptions of
the grids and of hard risk. The invariant `RunInv` adds to `BooksBalance` and
`DeployedWhole` only types and that the S2 runner holds nothing before it begins.
The work is in one step:

- `DecisionOffers`: hard risk takes the ladder of a decision whole or leaves
  nothing of it (`WholeOrNothing`). A long grid has no reduce-only part to fall
  back to (`LongGridsWholeOrNothing`). An adaptive ladder offers on each side no
  more than the room to the cap, so that the filter, slot after slot, has room for
  the next one and takes them all (`LotsUpTo`, `RoomTakes`, `RoomGoesOn`,
  `WholeTaken`). A position over the limit is a breach that takes everything, and
  at the limit the ladder is made of reductions only (`OnlyReductionsAtLimit`).
- `PlanBesideNone`, `PlanBesideItself`, `PlanBesideOthers`: beside no orders a plan
  submits the ladder; beside that same ladder it does nothing; beside the whole of
  another generation, or for an empty ladder, it cancels all that works and submits
  nothing.
- `StepBooks` puts the two together for each way a runner takes a plan, and
  `BooksKeepRun` counts.

## Targets

`TargetPipeline` is the order of the stages in `strategy/adaptive_grid.py`:
baseline, de-risk regimes, conditional short or conditional reversal, the gate
`enforce_flat_before_reverse`, funding bias and its gate; for the long-biased
pipeline and for profiles with a signed baseline. A stage that is not a feature
is computed but not used, as in the code. `TargetTracking` drives it: signals
jump, `DecideLadder` replaces the ladder by that of the pipeline's target, and
the venue fills a ladder in any order, also after the signals changed. Scores
and fractions are quarters of one; targets are cut towards zero to steps. The
order-book reference and the reservation price act on prices and are left out.

`target_tracking`: 11 policies (stages S3 to S6, long, flat and short profiles,
with and without inventory control), cap 4, six trends that lie below, at,
between and beyond the thresholds, three funding rates; 30 000 states.

- `DecisionsPossible`: no decision is refused, whatever the signals become: also
  where a stage has no gate, the target stays within the cap and off the side
  opposite to the position.
- `WorseTrendNeverAsksMore`: through regimes, reversal and both gates, a worse
  trend never asks for more of what the policy prefers.
- `SignThroughFlat`: fills of a ladder, however old, never carry the position
  from one side to the other.

Noted beside: after a gate has flattened a target, the funding stage may move it
off zero again, and its own gate only looks at the position
(`strategy/adaptive_grid.py:211`); `SignThroughFlat` shows that this does not
cross either.

`TargetProofs` proves the three for every set of policies, thresholds, fractions,
scores, cap and lot that the assumptions allow. `TargetFacts` and the lemmas before
it say stage by stage what a target may be for a position of either sign.
`DecisionsPossible` and `SignThroughFlat` need an invariant of the account, because
fills come from a ladder that an earlier trend has built: the orders that rest
against the position are covered by it, order by order (`SellsCovered` or
`BuysCovered`, with a function that adds up a side from the levels on), and the
policies without a gate never leave their preferred side. That a ladder as a
whole stays on one side would not be inductive: a part fill of one order changes
what the others may take.

## Calibrated account

| module | models |
|---|---|
| `CalibratedAdaptive` | readiness, sizing, configuration, and the decisions of `application/calibrated_adaptive.py` over `TargetPipeline` and `PassivePolicy`, instantiated with the cap and lot of each configuration |
| `CalibratedAccount` | an account that runs it as `research/calibrated_adaptive_runner.py` does, against fills and a calibration that moves at any time |
| `MCCalibratedAccount` | readings of the market |

The state carries the configuration its ladder was applied with, since the cap of
one decision need not be that of the next. `MarketMoves` is a new calibration,
between any two steps; `Transit` and `Continue` are the two entry points, with
the limit that was prepared for the transition; `Fill` is the venue, which the
runner itself does not have. `Preparation` gives the reason for which nothing is
decided, or that preparing raises.

`calibrated_account`: 13 readings (caps 6 and 4, one that is not executable,
each component missing once, one too quiet for its costs), two prices, four
generations; 51 000 states.

- `PreparedIsDecidable`: inputs that could be prepared lead to a decision however
  the cap moved against the position.
- `CurrentLadderRebuilds`: the ladder rebuilt from the state and its
  configuration is possible and is the one in the book.
- `AppliedWithWholeLadder`: a configuration is stored only in a step that ends
  with its whole ladder in the book.

Prices are a reference per reading, quantities are floored as with an instrument
specification. What refuses by price is left out with prices, the `ValueError` of a
non-positive microprice included (`application/calibrated_adaptive.py:356-358`), so
that `PreparedIsDecidable` is about refused targets only. `target_profile`
(`application/calibrated_adaptive.py:275`) is none, as the runner leaves it.

`AccountProofs` proves the three for every set of readings, sizing and number of
generations. Each configuration is an instance of the target pipeline with a cap
and lot of its own; `StagesAreAlike` shows that the stages do not depend on them,
so that the lemmas of `TargetProofs` hold of each. The invariant follows a
transition from its decision: a waiting candidate is the state or of the next
generation, what is desired of it is a part of its ladder and the whole once it
was accepted, and the orders of the state's generation are orders of the state's
ladder. It must speak of waiting candidates because a continuation commits one
that was decided with other readings. `PreparedIsDecidable` rests on the
assumption that the policy has a gate (reversal or funding): the runner deploys
the last stage (`research/calibrated_adaptive_runner.py:143`). For a policy without
one, only its history keeps the position off the side opposite to the target, as in
`TargetProofs`; `CalibratedAccount` does not state the property for such policies.

## Tier-2 replay

`Tier2Replay` takes one decision through `research/tier2_replay/`. `Record` grows
the canonical events; `Decide` demands complete funding, asks hard risk and the
liquidity check of the first book, and fixes the eligible orders; the events are
cut before the first loss of visibility at the price of an order; `Advance` goes
on to the next event that is left, and `Execute`, while that event is a trade,
fills any part of the orders on the side it hits, each at most once; `Wake` is the
loop of `replay_passive_orders`, which is told of executions later, any number of
them, and records of each order the last one if it has not seen it (`Look`);
`Settle` computes the funding flow of each full hour. hftbacktest and the venue's
matching are external. Two things are assumed of them: the latency is constant
(`research/hftbacktest_adapter.py:462`), so that the responses of one wake are of one
exchange time, and all or some of those may be there at once.

| run | bounds | result |
|---|---|---|
| `tier2_replay` | four events, time to 3, one level a side, quantities up to 2, an hour of 2 | 80 000 states. `FillsAreTrusted`, `LatestExecutionsKept`, `FundingFollowsFills` hold |
| `funding_boundary` | the same | `FundingBeforeBoundary` is violated |

- `FillsAreTrusted`: no fill is recorded from the boundary of any order on.
- `LatestExecutionsKept`: every fill is an execution, recorded once; and at the end
  each execution is a fill unless the same order executed again at the same time.
  An order may be executed in two parts of the same quantity, which only the
  remaining quantity of the signature tells apart.
- `FundingFollowsFills`: each hour is charged on a position that counts every fill
  before it and none after it. The loop records order by order, and `_position_at`
  stops at the first later fill, so that this needs the constant latency: the mutant
  `WakeLate`, with responses of different times at one wake, breaks it.

Four events hold the first book, a trade, the hour or the loss of the level, and a
trade after it; or two trades of one time.

Finding, `funding_boundary`. A fill at the time of the hour itself counts
(`research/tier2_replay/attribution.py:38`), where section 17 of
`docs/superpowers/specs/2026-08-10-tier2-historical-forward-replay-design.md` (line
409) asks for the position immediately before the boundary. `FundingFollowsFills`
leaves the fills of the hour itself open.

What is lost. When two trades of one time execute an order twice and both
responses are told at one wake, the loop reads the order's last `exec_qty` only
(`research/hftbacktest_adapter.py:501-521`): the first execution is no fill, and is
missing from the ending position and from funding, although
`tests/research/test_hftbacktest_adapter.py:130-156` expects a fill for each part of an
order. `LatestExecutionsKept` says that this is all that can be lost. It is noted here
and not listed as a finding, because whether one wake finds both responses is up to
hftbacktest, which is not in the repository.

Funding is computed over all events, also those after the cut
(`research/tier2_replay/attribution.py:57`), and an hour whose reference is recorded
twice is charged twice; no document says otherwise.

### Proofs

`ReplayProofs` proves the three of `tier2_replay` for every dataset, ladder, risk
decision, number of events, length of an hour and number of responses at a wake.
The invariant is

    IInv == Recording /\ Unstarted /\ Executions /\ Recorded /\ Paid

- `Recording`: the events are in the order of time and the event at hand is a
  trusted one or the first. With it an execution is never at or after a boundary
  (`Executions`), so that `FillsAreTrusted` holds whatever the loop finds at a wake.
- `Executions`: the executions are in the order of time, and there is none before
  the decision (`Unstarted`).
- `Recorded`: every fill is an execution of which the loop was told.
- `Paid`: the flows are those of the fills at settlement.

`LatestExecutionsKept` and `FundingFollowsFills` rest on

    Told == Once /\ InTime /\ Kept /\ Remembered

beside: no fill is recorded twice, fills are in the order of time, every execution
told is a fill or has a later one of its order at its time, and what is seen of an
order is its last execution told. `InTime` is where the constant latency is needed:
what one wake adds is of one time, and not earlier than what is recorded. What
`LatestOf` finds, and that a set of orders has a list in their order, follows from
the well-foundedness of the numbers.

## Calibrated candidate and replay window

`DatasetAudit` is which events an audit accepts and what it finds;
`Tier2Candidate` feeds the accepted events up to a decision to calibration and
audits the events from the decision on again. `Record` and `Publish` append
events and evidence frames in time order, before and after the decision, and
`Run` is `run_calibrated_tier2_replay`. Calibration is a function of what it was
given, so that the list of observations stands for its state.

`dataset`, in its other part: three events out of seven payloads (books with and without a mid,
trades that repeat or contradict an identity, an untraced one, funding with and
without a rate), two frames, time to 3, all demands of a manifest;
220 000 states.

- `FutureIsSilent`: what is recorded later does not change an earlier candidate.
- `SamplesGivenOnce`: each sample reaches calibration once, with the first book
  that is not earlier than its frame.
- `WindowKeepsTheAudit`: the second audit accepts of the window what the first
  accepted of the whole dataset.

Three events are enough for a trade before the decision that is repeated after
it, and for two books with two frames between them. Alignment, gap statistics
and digests are left out. Deadlock is not checked in this run and in those of the
replay: a dataset ends.

### Proofs

`DatasetProofs` proves the three for every set of events, manifests and samples
and for datasets of any length. The derivation is a recursive function of the
events (`Progress`), so that it is reasoned about turn by turn:

- `LaterIsSilent`: added events that are later than the decision are passed over,
  and added frames that are later than it are never due, so that no turn changes
  (`ObserveStays`, `RepeatedStays`). This needs that the loop never consumed more
  frames than there were.
- `DerivationIsSound`: after every turn the observations are in the order of time,
  what is consumed is what was due at the last one, and each observation has the
  samples of the frames that became due since the one before it. Frames are in the
  order of their times, so that those due are the first ones (`DueSays`);
  `SampleIsGivenOnce` reads `SamplesGivenOnce` off this.
- `WindowAccepts`: without conflicts the first trade of an identity has the time of
  every repetition (`IdentityHasAFirst`), so that it is in the window if any of them is.

The invariant is `IInv == Recording /\ Decided /\ FutureIsSilent /\
WindowKeepsTheAudit`, where `Recording` is the order of events and frames and that no
sample is published twice; `SamplesGivenOnce` follows from it, because the candidate
that was returned is still the one that is derived.

## What is proved and what is model-checked

| module | theorems |
|---|---|
| `QuoteProofs` | `TypeOK`, `OneGeneration`, `LiveGenerations`, `CommitMatchesBook`, `NoSmuggledCommit`, refinement of `QuoteBook`; `ExposureBounded`, `ReduceOnlyCovered`, `RiskClearedEntry`, `RaisesOnlyAfterRefusal`, `DecisionsReverseFromFlat` |
| `DatasetProofs` | of the book `BookTypeOK`, `InsideIsTrue`, `TrustedOrderPrices`, `ReplayUncrossed`, `NoInventedDepth`, refinement of `QueueEpochs`; of the candidate `FutureIsSilent`, `SamplesGivenOnce`, `WindowKeepsTheAudit` |
| `CalibrationProofs` | `TypeOK`, `WindowIsLatest`, `HistoriesAreRecent`, `StatesAreConsistent`, `LockStep`, `TrendSpansHorizon`, `GapIsFinal` |
| `RecorderProofs` | `TypeOK`, `EpochSeparates`, `BoundaryRecorded`, `UncoveredIsUncovered`, `QuietLinkIsAlive`, `CapturedGapReported`; of the segment writer `WriterTypeOK`, `ManifestTellsTruth`, `AckedSurvive` |
| `TargetProofs` | `DecisionsPossible`, `WorseTrendNeverAsksMore`, `SignThroughFlat` |
| `AccountProofs` | `PreparedIsDecidable`, `CurrentLadderRebuilds`, `AppliedWithWholeLadder` |
| `ReplayProofs` | `FillsAreTrusted`, `LatestExecutionsKept`, `FundingFollowsFills` |
| `RunnerProofs` | `BooksBalance`, `DeployedWhole`, `CommitsReachBook` |

Their arguments are in the sections above. They rest on the named assumptions of
the modules about their constants and the hypotheses named above, on nothing
else, and hold for the models: the
abstractions named with each module are not proved.

Only model-checked:

- `SettlesOrBlocks`: liveness is out of the prover's reach.
- the four runs that expect a violation.

## Plan

Done, with their proofs: quoting, runners, targets, calibrated account, recorder session and segment
writer, book visibility, calibration, Tier-2 replay, audit and candidate.

Next, in this order:

1. `RiskGate`: the two projections over arbitrary two-sided ladders, against a
   reference that considers every set of fills.
2. Replay: trade rows and participation fractions, PnL attribution and fees.
3. Calibration: intensity and execution cost, and the microstructure calibration
   runner around them.
4. S0 and the evidence payloads; liveness of the runners.

## Not modelled

Decimal arithmetic of the estimators, parsing of venue payloads, canonical
bytes and hashes, the evidence ledger, archives and the Nautilus adapter:
conversions without state or order of events. `PROJECT.json` names every
component and the reason.
