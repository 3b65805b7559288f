---------------------------- MODULE QueueEpochs ----------------------------
(***************************************************************************)
(* What the epochs of price levels promise to whoever estimates a place in *)
(* a queue: within one epoch the level was present in every observation.   *)
(* Each return of a level starts an epoch that it never had before.        *)
(***************************************************************************)
EXTENDS Integers

CONSTANT Levels   \* the price levels of both sides

VARIABLES
    present,  \* the levels in the last observation
    epoch     \* the current epoch of each level, -1 before the first

Init == present = {} /\ epoch = [k \in Levels |-> -1]

Remains(k) == k \in present /\ k \in present' /\ epoch'[k] = epoch[k]

\* An absent level stays absent, and its epoch may end without a new presence.
IsAbsent(k) ==
    /\ k \notin present /\ k \notin present'
    /\ \/ epoch'[k] = epoch[k]
       \/ epoch[k] >= 0 /\ epoch'[k] = epoch[k] + 1

Leaves(k) == k \in present /\ k \notin present' /\ epoch'[k] = epoch[k]

Returns(k) == k \notin present /\ k \in present' /\ epoch'[k] = epoch[k] + 1

Observe == \A k \in Levels : Remains(k) \/ IsAbsent(k) \/ Leaves(k) \/ Returns(k)

Spec == Init /\ [][Observe]_<<present, epoch>>
=============================================================================
