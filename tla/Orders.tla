------------------------------- MODULE Orders -------------------------------
(***************************************************************************)
(* Passive order intents, ladders and working orders (domain/orders.py).   *)
(*                                                                         *)
(* A ladder is a function over Slots.  A slot is one (side, level) pair,   *)
(* numbered in the order in which build_adaptive_ladder emits the intents: *)
(* the buys from level 1 outwards, then the sells.  A slot without an      *)
(* intent holds NoOrder.  A client order id is <<generation, slot>>: the   *)
(* source writes "<stage>:g<generation>:<side>:l<level>".                  *)
(***************************************************************************)
EXTENDS Integers

CONSTANTS
    Levels,    \* levels per side of a ladder
    Prices,    \* quoting references; with a slot, one determines a price
    NoOrder    \* what a slot without an intent holds

Order == [price : Prices, qty : Nat \ {0}, reduceOnly : BOOLEAN]

ASSUME OrdersAssumption ==
    /\ Levels \in Nat \ {0}
    /\ NoOrder \notin Order

-----------------------------------------------------------------------------
Slots == 1..(2 * Levels)

IsBuy(slot) == slot <= Levels

LevelOf(slot) == IF IsBuy(slot) THEN slot ELSE slot - Levels

Ladder == [Slots -> Order \cup {NoOrder}]

EmptyLadder == [s \in Slots |-> NoOrder]

Placed(ladder) == {s \in Slots : ladder[s] # NoOrder}

\* The intents of a ladder that may only reduce the position.
ReduceOnlyPart(ladder) ==
    [s \in Slots |-> IF ladder[s] # NoOrder /\ ladder[s].reduceOnly
                     THEN ladder[s] ELSE NoOrder]

\* The change of position that a fill of qty at the slot causes.
SignedFill(slot, qty) == IF IsBuy(slot) THEN qty ELSE -qty

\* A working order: an intent under its id, with what it has filled so far.
WorkingOrder ==
    {w \in [gen : Nat, slot : Slots, order : Order, filled : Nat] :
        w.filled <= w.order.qty}

Id(w) == <<w.gen, w.slot>>

Remaining(w) == w.order.qty - w.filled

\* The order that a submission of the ladder's intent at a slot creates.
Submitted(gen, ladder, slot) ==
    [gen |-> gen, slot |-> slot, order |-> ladder[slot], filled |-> 0]

-----------------------------------------------------------------------------
Abs(n) == IF n < 0 THEN -n ELSE n
Smaller(m, n) == IF m < n THEN m ELSE n
Larger(m, n) == IF m < n THEN n ELSE m
=============================================================================
