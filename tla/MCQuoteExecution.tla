--------------------------- MODULE MCQuoteExecution ---------------------------
(* Values for the constants of QuoteExecution that a .cfg cannot write.      *)
EXTENDS QuoteProperties

FromFlat == {0}
UpToTwo == -2..2
AtLimits == {-3, 0, 3}
=============================================================================
