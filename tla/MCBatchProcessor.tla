------------------------- MODULE MCBatchProcessor --------------------------
(* The instance of BatchProcessor that TLC checks: batches of two, so that  *)
(* a third call starts a batch that only its timer, or a late callback of   *)
(* the first batch's timer, can flush.                                      *)
EXTENDS BatchProcessor

CONSTANTS r1, r2, r3

ThreeCalls == {r1, r2, r3}
Pairs == 2
=============================================================================
