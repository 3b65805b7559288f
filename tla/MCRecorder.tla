----------------------------- MODULE MCRecorder -----------------------------
(***************************************************************************)
(* The session and the segment writer of the forward recorder.  They share *)
(* no variable, so that no interleaving of the two shows more than each    *)
(* alone does: one works while the other is as it was made.                *)
(***************************************************************************)
EXTENDS RecorderSession, SegmentWriter

RecorderInit == Init /\ WriterInit

RecorderNext ==
    \/ WriterInit /\ Next /\ UNCHANGED writer
    \/ Init /\ WriterNext /\ UNCHANGED vars

RecorderSpec == RecorderInit /\ [][RecorderNext]_<<vars, writer>>
=============================================================================
