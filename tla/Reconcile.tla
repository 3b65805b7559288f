------------------------------ MODULE Reconcile ------------------------------
(***************************************************************************)
(* The diff between a desired ladder and the working orders                *)
(* (execution/reconcile.py).  It cancels what conflicts and submits what   *)
(* is missing, never both in one plan.                                     *)
(***************************************************************************)
EXTENDS Orders

\* _require_unique_ids over the working orders; the ids of a ladder are unique
\* because it is a function over slots.
UniqueIds(working) == \A v, w \in working : Id(v) = Id(w) => v = w

\* Faulty variant: an order of another generation can be desired.
DesiredAnyGeneration(gen, ladder, w) == ladder[w.slot] # NoOrder

\* The desired intent that carries the id of a working order, if there is one.
IsDesired(gen, ladder, w) == w.gen = gen /\ ladder[w.slot] # NoOrder

\* _matches: generation, level, side, price, total quantity and flag.
Matches(gen, ladder, w) == IsDesired(gen, ladder, w) /\ ladder[w.slot] = w.order

\* The inputs for which reconcile_passive_orders raises ValueError.
ReconcileRaises(gen, ladder, working) ==
    \/ ~UniqueIds(working)
    \/ \E w \in working :
        IsDesired(gen, ladder, w) /\ ladder[w.slot].qty < w.filled

\* Faulty variant: only the ids of the working orders are compared.
ConflictsById(gen, ladder, working) == {w \in working : ~IsDesired(gen, ladder, w)}

Conflicts(gen, ladder, working) == {w \in working : ~Matches(gen, ladder, w)}

\* The slots of the ladder that no working order fills.
Missing(gen, ladder, working) ==
    {s \in Placed(ladder) : \A w \in working : Id(w) # <<gen, s>>}

\* Faulty variant: missing slots are submitted beside the cancellations.
PlanAtOnce(gen, ladder, working) ==
    [cancel |-> {Id(w) : w \in Conflicts(gen, ladder, working)},
     submit |-> Missing(gen, ladder, working)]

\* reconcile_passive_orders: ids to cancel and slots to submit.
Plan(gen, ladder, working) ==
    LET conflicts == Conflicts(gen, ladder, working)
    IN  [cancel |-> {Id(w) : w \in conflicts},
         submit |-> IF conflicts = {} THEN Missing(gen, ladder, working) ELSE {}]
=============================================================================
