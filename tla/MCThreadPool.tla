---------------------------- MODULE MCThreadPool ----------------------------
(* ThreadPool for TLC: the coroutines, and the threads of the pool, are      *)
(* interchangeable.                                                          *)
EXTENDS ThreadPool, TLC

Symmetry == Permutations(Coros) \cup Permutations(Threads)
=============================================================================
