--------------------------- MODULE MCReplayFilter ---------------------------
(* ReplayFilter with a small ring, for TLC.                                *)
EXTENDS ReplayFilter

CONSTANT MaxSeq    \* bound on the sequence numbers that arrive
MCSeqs == 0 .. MaxSeq
=============================================================================
