----------------------------- MODULE MCRunners -----------------------------
(* Small paths for the three controlled runners. *)
EXTENDS RunnerProperties

EveryRunner == {"s1", "s2", "adaptive"}
LadderPrices == 0..30
BothSides == {-3, -1, 0, 2}
=============================================================================
