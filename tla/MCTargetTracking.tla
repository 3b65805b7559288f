-------------------------- MODULE MCTargetTracking --------------------------
(* Policies of the TLC instances: stages S3 to S6 of the legacy pipeline, and *)
(* long, flat and short profiles.                                            *)
EXTENDS TargetTracking

Stage(n) ==
    [inventory |-> TRUE, deRisk |-> n >= 4, reversal |-> n >= 5, funding |-> n >= 6]

Legacy(n) ==
    [features |-> Stage(n), cap |-> MaxInventory, baseLong |-> MaxInventory \div 2,
     maxShort |-> MaxInventory, profile |-> NoProfile]

Directed(n, baseline, opposite) ==
    [Legacy(n) EXCEPT !.profile = [baseline |-> baseline, allowOpposite |-> opposite > 0,
                                   maxOpposite |-> opposite]]

Uncontrolled(c) == [c EXCEPT !.features.inventory = FALSE]

AllPolicies ==
    {Legacy(n) : n \in 3..6}
        \cup {Directed(n, -Unit, Unit) : n \in 3..6}
        \cup {Uncontrolled(Directed(5, Unit, Unit)), Uncontrolled(Directed(6, Unit \div 2, 0)),
              Directed(6, 0, 0)}

ScoresOfTwo == {-4, -3, -2, -1, 0, 4}
RatesOfOne == {-4, 0, 4}
=============================================================================
