--------------------------- MODULE MCTaskPromise ---------------------------
(* Instances of TaskPromise: a coroutine, or the promises of mh::promise.  *)
EXTENDS TaskPromise
============================================================================
