---------------------------- MODULE MCDispatcher ----------------------------
(* Dispatcher for TLC: the coroutines, and the threads that do not own the   *)
(* dispatcher, are interchangeable.                                          *)
EXTENDS Dispatcher, TLC

Symmetry == Permutations(Coros) \cup Permutations(Threads \ {Owner})
=============================================================================
