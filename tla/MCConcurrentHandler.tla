------------------------ MODULE MCConcurrentHandler ------------------------
(* Instances of ConcurrentHandler for TLC.  Calls, and workers, are         *)
(* interchangeable; the symmetry is used where only safety is checked.      *)
EXTENDS ConcurrentHandler, TLC

HandlerSymmetry == Permutations(Requests) \cup Permutations(Workers)
=============================================================================
