--------------------------- MODULE MCCalibration ---------------------------
(* Constants of the TLC instance of Calibration.                           *)
EXTENDS Calibration

Label(feature, matured) == [feature |-> feature, matured |-> matured, value |-> 0]

\* One label more than the window holds, maturing one after the other, so that
\* each may be handed over before, at or after its maturity.
MCLabels == {Label(0, 1), Label(1, 2), Label(1, 3)}
=============================================================================
