-------------------------- MODULE ControlledRunner --------------------------
(***************************************************************************)
(* The controlled runners (research/s1_runner.py, s2_runner.py and         *)
(* adaptive_runner.py).  A runner walks a path of snapshots and does the   *)
(* bookkeeping that a live owner of the policy would leave to the venue:   *)
(* it takes a plan's cancellations as confirmed at once, continues at the  *)
(* same snapshot, never fills an order, and counts what the plans do.      *)
(*                                                                         *)
(* The s1 and s2 runners run the long grid, the adaptive runner the        *)
(* adaptive grid.  Book is not part of the runners: it is what an account  *)
(* holds that does exactly what the plans say.                             *)
(***************************************************************************)
EXTENDS PassivePolicy, LongGrid, AdaptiveGrid

CONSTANTS
    Runners,        \* the runners to consider: "s1", "s2" or "adaptive"
    Mids,           \* the mids of the snapshots of an s1 or s2 runner
    Volatilities,   \* their volatilities, in parts of a whole, for s2
    LongPositions,  \* their positions
    References,     \* the quoting references of the adaptive runner's signals
    Positions,      \* the positions of its snapshots
    MaxMoves,       \* bound on the changes of the snapshot along the path
    MaxSubmits      \* bound on the orders submitted along the path

ASSUME ControlledRunnerAssumption ==
    /\ Runners \subseteq {"s1", "s2", "adaptive"}
    /\ Mids \cup Volatilities \subseteq Nat
    /\ LongPositions \cup Positions \subseteq Int
    /\ MaxMoves \in Nat
    /\ MaxSubmits \in Nat

\* _config and _risk_limits of the adaptive runner: the ladder's inventory cap is
\* the position limit, and a full ladder stays below the limit of open orders.
ASSUME AdaptiveLimitsAssumption ==
    "adaptive" \in Runners =>
        MaxInventory <= MaxAbsPosition /\ 2 * Levels <= MaxOpenOrders

VARIABLES
    runner,    \* the runner, chosen once
    snapshot,  \* the snapshot to process next
    begun,     \* whether the first snapshot was processed
    state,     \* the runner's policy state
    working,   \* the working orders the runner believes in
    book,      \* the orders an account holds that follows the plans
    counts,    \* the result's counters of orders and queue resets
    raised,    \* whether the run ended in a ValueError
    moves      \* how often the snapshot changed

vars == <<runner, snapshot, begun, state, working, book, counts, raised, moves>>

\* The snapshots of a runner's path.
Path(r) ==
    IF r = "adaptive"
    THEN [signal : {s \in Signal : s.price \in References}, position : Positions]
    ELSE [mid : Mids, volatility : IF r = "s2" THEN Volatilities ELSE {0},
          position : LongPositions]

Counts == [submit : Nat, cancel : Nat, resets : Nat]

TypeOK ==
    /\ runner \in Runners
    /\ snapshot \in Path(runner)
    /\ begun \in BOOLEAN
    /\ state.gen \in Nat
    /\ working \subseteq WorkingOrder
    /\ book \subseteq WorkingOrder
    /\ counts \in Counts
    /\ raised \in BOOLEAN
    /\ moves \in 0..MaxMoves

-----------------------------------------------------------------------------
\* The policy of the runner: the state it starts with, the state it decides on,
\* the ladder of a state, and when the policy itself raises.
StartOf(obs) ==
    CASE runner = "s1" -> StartCenter(obs)
      [] runner = "s2" -> StartGrid(obs)
      [] runner = "adaptive" -> InitialState(obs.position, obs.signal)

DecisionOf(obs, s) ==
    CASE runner = "s1" -> DecideCenter(obs, s)
      [] runner = "s2" -> DecideGrid(obs, s)
      [] runner = "adaptive" -> Decide(obs.position, obs.signal, s)

LadderOf(s) == IF runner = "adaptive" THEN BuildLadder(s) ELSE BuildLongGrid(s)

Impossible ==
    \/ runner = "s1" /\ CenterRaises(snapshot, state)
    \/ runner = "s2" /\ GridRaises(snapshot, state)

Init ==
    /\ runner \in Runners
    /\ snapshot \in Path(runner)
    /\ begun = FALSE
    /\ state = StartOf(snapshot)
    /\ working = {}
    /\ book = {}
    /\ counts = [submit |-> 0, cancel |-> 0, resets |-> 0]
    /\ raised = FALSE
    /\ moves = 0

-----------------------------------------------------------------------------
\* _risk_state: equity at its peak, the clock at the snapshot, and no orders
\* but the working ones.
Account == [drawdown |-> FALSE, others |-> 0]
Observed(orders) == [position |-> snapshot.position, stale |-> FALSE, working |-> orders]

\* What the policy makes of the snapshot: its candidate, the candidate's ladder,
\* whether hard risk allows new risk beside it, and the first cycle's outcome.
DecisionFrom(candidate, ladder) ==
    [candidate |-> candidate,
     ladder    |-> ladder,
     allowed   |-> AssessDesiredLadder(Account, Observed({}), ladder).allowNewRisk,
     result    |-> TransitionPolicy(Account, Observed(working), state, candidate, ladder)]

Decisions ==
    UNION {{DecisionFrom(candidate, ladder) : ladder \in {LadderOf(candidate)}} :
              candidate \in {DecisionOf(snapshot, state)}}

\* The outcome of continuing a cancelling decision with no orders left.
Continuations(d) ==
    {ContinuePolicy(Account, Observed({}),
                    [previous |-> state, candidate |-> d.candidate,
                     desired |-> d.result.desired, accepted |-> d.result.accepted])}

Fails == Impossible \/ \E d \in Decisions : d.result.raises

\* _working_orders: what the runner makes of the intents of a plan.
SubmittedBy(d, result) ==
    {Submitted(d.candidate.gen, result.desired, s) : s \in result.plan.submit}

Cancelled(d) == {w \in working : Id(w) \in d.result.plan.cancel}

\* Whether a decision that cancels is continued at once.
Continues(d) == runner = "adaptive" \/ (d.allowed /\ d.result.desired # EmptyLadder)

\* The queue resets a step counts: s1 wants a cancellation beside the new
\* generation, s2 only the generation, the adaptive runner counts none.
Reset(next, hadCancel) ==
    IF /\ next.gen > state.gen
       /\ runner = "s2" \/ (runner = "s1" /\ hadCancel)
    THEN 1 ELSE 0

\* Count a step that leads to the policy state next.
Count(d, submitted, next) ==
    LET cancelled == Cardinality(d.result.plan.cancel)
    IN  counts' = [submit |-> counts.submit + Cardinality(submitted),
                   cancel |-> counts.cancel + cancelled,
                   resets |-> counts.resets + Reset(next, cancelled > 0)]

-----------------------------------------------------------------------------
\* _run_s2_once before its loop: without a submission the whole ladder of the
\* initial state counts as working, and the state is kept.
BeginS2(d) ==
    /\ ~begun /\ runner = "s2"
    /\ LET submitted == SubmittedBy(d, d.result)
           whole == {Submitted(state.gen, LadderOf(state), s) : s \in Placed(LadderOf(state))}
       IN  /\ working' = IF submitted # {} THEN submitted ELSE whole
           /\ book' = submitted
           /\ state' = IF submitted # {} THEN d.result.next ELSE state
           /\ Count(d, submitted, state)
    /\ begun' = TRUE

InLoop == begun \/ runner # "s2"

\* Faulty variant: a plan without submissions empties the runner's orders.
HoldOnlySubmitted(d) ==
    /\ InLoop
    /\ d.result.plan.cancel = {}
    /\ working' = SubmittedBy(d, d.result)
    /\ book' = book \cup SubmittedBy(d, d.result)
    /\ Count(d, SubmittedBy(d, d.result), d.result.next)
    /\ state' = d.result.next
    /\ begun' = TRUE

\* Faulty variant: the candidate is kept although hard risk refused it.
HoldAndCommit(d) ==
    /\ InLoop
    /\ d.result.plan.cancel = {}
    /\ LET submitted == SubmittedBy(d, d.result)
       IN  /\ working' = IF submitted # {} THEN submitted ELSE working
           /\ book' = book \cup submitted
           /\ Count(d, submitted, d.candidate)
    /\ state' = d.candidate
    /\ begun' = TRUE

\* A plan without cancellations: its orders replace those the runner knew.
Hold(d) ==
    /\ InLoop
    /\ d.result.plan.cancel = {}
    /\ LET submitted == SubmittedBy(d, d.result)
       IN  /\ working' = IF submitted # {} THEN submitted ELSE working
           /\ book' = book \cup submitted
           /\ Count(d, submitted, d.result.next)
    /\ state' = d.result.next
    /\ begun' = TRUE

\* A cancelling plan and its continuation with no orders left.
Replace(d) ==
    /\ InLoop
    /\ d.result.plan.cancel # {}
    /\ Continues(d)
    /\ \E continued \in Continuations(d) :
        LET submitted == SubmittedBy(d, continued)
        IN  /\ working' = submitted
            /\ book' = (book \ Cancelled(d)) \cup submitted
            /\ Count(d, submitted, continued.next)
            /\ state' = continued.next
    /\ UNCHANGED begun

\* A cancelling plan that is not continued: nothing is left.
Retreat(d) ==
    /\ InLoop
    /\ d.result.plan.cancel # {}
    /\ ~Continues(d)
    /\ working' = {}
    /\ book' = book \ Cancelled(d)
    /\ Count(d, {}, d.result.next)
    /\ state' = d.result.next
    /\ UNCHANGED begun

\* One snapshot of the path.  The next one may be like it or differ.
Process ==
    /\ ~raised
    /\ ~Impossible
    /\ counts.submit < MaxSubmits
    /\ \E d \in Decisions :
        /\ ~d.result.raises
        /\ BeginS2(d) \/ Hold(d) \/ Replace(d) \/ Retreat(d)
    /\ UNCHANGED <<runner, snapshot, raised, moves>>

\* The policy or its reconciliation raises: the run ends without a result.
RunRaises ==
    /\ ~raised
    /\ Fails
    /\ raised' = TRUE
    /\ UNCHANGED <<runner, snapshot, begun, state, working, book, counts, moves>>

\* The path goes on with another snapshot.
NextSnapshot ==
    /\ begun /\ ~raised
    /\ moves < MaxMoves
    /\ snapshot' \in Path(runner) \ {snapshot}
    /\ moves' = moves + 1
    /\ UNCHANGED <<runner, begun, state, working, book, counts, raised>>

Next == Process \/ RunRaises \/ NextSnapshot

Spec == Init /\ [][Next]_vars
=============================================================================
