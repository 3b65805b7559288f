------------------------------ MODULE QuoteBook ------------------------------
(***************************************************************************)
(* What cancel-before-replace promises, without positions, prices, risk or *)
(* calls: the book of working order ids and the committed generation.      *)
(* Quotes of one generation are placed only beside quotes of the same one, *)
(* only the committed generation and its successor ever quote, and the     *)
(* successor is committed only when the book holds nothing else.           *)
(***************************************************************************)
EXTENDS Integers

CONSTANT QuoteSlots   \* the places of a ladder

VARIABLES
    book,       \* ids <<generation, slot>> of the working orders
    committed   \* the committed generation

Holds(g) == \A id \in book : id[1] = g

Init == book = {} /\ committed = 0

\* Orders leave the book: filled, cancelled or ended by the venue.
Withdraw ==
    /\ book' \subseteq book
    /\ UNCHANGED committed

\* Orders of one generation join the book, and its generation may be committed.
Quote(g) ==
    /\ g \in {committed, committed + 1}
    /\ Holds(g)
    /\ \E slots \in SUBSET QuoteSlots :
        /\ \A s \in slots : <<g, s>> \notin book
        /\ book' = book \cup {<<g, s>> : s \in slots}
    /\ committed' \in {committed, g}

Next == Withdraw \/ \E g \in {committed, committed + 1} : Quote(g)

Spec == Init /\ [][Next]_<<book, committed>>
=============================================================================
