-------------------------- MODULE MCCommandQueue --------------------------
(* TLC instances of CommandQueue: executions and routers are              *)
(* interchangeable; ids are not, the oldest command goes first.            *)
EXTENDS CommandQueue, TLC

Symmetry == Permutations(Runs) \cup Permutations(Devices)
=============================================================================
