---------------------------- MODULE PassivePolicy ----------------------------
(***************************************************************************)
(* One cycle of passive policy (application/passive_policy.py): assess the *)
(* ladder against hard risk, fall back to its reduce-only part when it is  *)
(* not accepted exactly, reconcile, and decide whether the candidate       *)
(* strategy state may be committed.                                        *)
(*                                                                         *)
(* A cycle reads an observation: the market snapshot's position and age    *)
(* and the working orders, with the account's drawdown and the open orders *)
(* of others beside it.                                                    *)
(***************************************************************************)
EXTENDS RiskController, Reconcile

\* _assess_desired_ladder: the open orders counted against the limit are those
\* of others and the desired ladder, which replaces the working orders.
AssessDesiredLadder(account, obs, ladder) ==
    AssessLadder([position   |-> obs.position,
                  stale      |-> obs.stale,
                  drawdown   |-> account.drawdown,
                  openOrders |-> account.others + Cardinality(Placed(ladder))],
                 ladder)

\* _risk_accepts_exact_ladder.
AcceptsExactly(assessment, ladder) ==
    /\ assessment.filtered = ladder
    /\ \/ assessment.allowNewRisk
       \/ /\ Placed(ladder) # {}
          /\ ~assessment.cancelAll
          /\ ~assessment.targetFlat
          /\ ReduceOnlyPart(ladder) = ladder

\* Faulty variant: an accepted candidate is committed while orders conflict.
CommitEarly(account, obs, before, candidate, ladder, mayAccept) ==
    LET assessment == AssessDesiredLadder(account, obs, ladder)
        accepted == mayAccept /\ AcceptsExactly(assessment, ladder)
        desired == IF accepted THEN ladder ELSE ReduceOnlyPart(assessment.filtered)
    IN  [raises    |-> ReconcileRaises(candidate.gen, desired, obs.working),
         accepted  |-> accepted,
         desired   |-> desired,
         plan      |-> Plan(candidate.gen, desired, obs.working),
         next      |-> IF accepted THEN candidate ELSE before]

\* Faulty variant: of a refused ladder everything risk left is desired.
KeepFiltered(account, obs, before, candidate, ladder, mayAccept) ==
    LET assessment == AssessDesiredLadder(account, obs, ladder)
        accepted == mayAccept /\ AcceptsExactly(assessment, ladder)
        desired == IF accepted THEN ladder ELSE assessment.filtered
        plan == Plan(candidate.gen, desired, obs.working)
    IN  [raises    |-> ReconcileRaises(candidate.gen, desired, obs.working),
         accepted  |-> accepted,
         desired   |-> desired,
         plan      |-> plan,
         next      |-> IF accepted /\ plan.cancel = {} THEN candidate ELSE before]

\* The part that transition_passive_policy and its continuation share.  Before
\* is the state to keep when nothing is committed; mayAccept is TRUE for a new
\* decision and sticky for a continued one.
Cycle(account, obs, before, candidate, ladder, mayAccept) ==
    LET assessment == AssessDesiredLadder(account, obs, ladder)
        accepted == mayAccept /\ AcceptsExactly(assessment, ladder)
        desired == IF accepted THEN ladder ELSE ReduceOnlyPart(assessment.filtered)
        plan == Plan(candidate.gen, desired, obs.working)
    IN  [raises    |-> ReconcileRaises(candidate.gen, desired, obs.working),
         accepted  |-> accepted,
         desired   |-> desired,
         plan      |-> plan,
         next      |-> IF accepted /\ plan.cancel = {} THEN candidate ELSE before]

\* transition_passive_policy.
TransitionPolicy(account, obs, before, candidate, ladder) ==
    Cycle(account, obs, before, candidate, ladder, TRUE)

\* Faulty variant: a refused candidate may be accepted by its continuation.
ContinueAfresh(account, obs, transition) ==
    Cycle(account, obs, transition.previous, transition.candidate,
          transition.desired, TRUE)

\* continue_passive_policy_reconciliation: the desired ladder of the earlier
\* transition is assessed again, the policy is not.
ContinuePolicy(account, obs, transition) ==
    Cycle(account, obs, transition.previous, transition.candidate,
          transition.desired, transition.accepted)
=============================================================================
