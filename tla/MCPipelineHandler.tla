------------------------- MODULE MCPipelineHandler -------------------------
(* The instance of PipelineHandler that TLC checks: three calls against two *)
(* workers, so that one result, one piece of queued work and one late call  *)
(* can coexist.                                                             *)
EXTENDS PipelineHandler

CONSTANTS r1, r2, r3, w1, w2

ThreeCalls == {r1, r2, r3}
TwoWorkers == {w1, w2}
=============================================================================
