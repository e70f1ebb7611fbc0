--------------------------- MODULE CachedVariable ---------------------------
(***************************************************************************)
(* mh::cached_variable (memory/cached_variable.hpp), the thread-safe one:  *)
(* a value that a function computes, and computes again when someone wants *)
(* it and it is older than an interval.  The clock and the function are    *)
(* the program's; the function takes time, and may throw.                  *)
(*                                                                         *)
(* A value is the time it tells of: any time while the function ran.  The  *)
(* variant that is not thread-safe is this one with a single thread.       *)
(***************************************************************************)
EXTENDS Integers

CONSTANTS
    Threads,
    Interval,   \* m_UpdateInterval
    MaxTime     \* where the clock stops

VARIABLES
    clock,      \* clock_type::now()
    cache,      \* m_Value and m_NextUpdate
    calls       \* of each thread: where it is in get, and what it knows

vars == <<clock, cache, calls>>

\* The constructor reads the clock before it calls the function, which has
\* taken any time since.
Init ==
    /\ clock \in 0..1
    /\ \E value \in 0..clock : cache = [value |-> value, nextUpdate |-> Interval]
    /\ calls = [t \in Threads |-> [at |-> "out", now |-> 0, lockedAt |-> 0]]

Locked == \E t \in Threads : calls[t].at \in {"locked", "updating", "read"}
Goto(t, where) == calls' = [calls EXCEPT ![t].at = where]
-----------------------------------------------------------------------------
Get(t) ==
    /\ calls[t].at = "out"
    /\ Goto(t, "wanting") /\ UNCHANGED <<clock, cache>>

Lock(t) ==
    /\ calls[t].at = "wanting" /\ ~Locked
    /\ calls' = [calls EXCEPT ![t] = [at |-> "locked", now |-> 0, lockedAt |-> clock]]
    /\ UNCHANGED <<clock, cache>>

\* Mutant: one interval too late.
TryUpdateLate(t) ==
    /\ calls[t].at = "locked"
    /\ calls' = [calls EXCEPT
          ![t].at = IF clock > cache.nextUpdate THEN "updating" ELSE "read", ![t].now = clock]
    /\ UNCHANGED <<clock, cache>>

\* try_update reads the clock under the lock.
TryUpdate(t) ==
    /\ calls[t].at = "locked"
    /\ calls' = [calls EXCEPT
          ![t].at = IF clock >= cache.nextUpdate THEN "updating" ELSE "read", ![t].now = clock]
    /\ UNCHANGED <<clock, cache>>

\* The function returns: the next update is due an interval after it began.
Updated(t) ==
    /\ calls[t].at = "updating"
    /\ \E value \in calls[t].now..clock :
          cache' = [value |-> value, nextUpdate |-> calls[t].now + Interval]
    /\ Goto(t, "read") /\ UNCHANGED clock

\* It throws: the lock is released, and the next get tries again.
UpdateThrew(t) ==
    /\ calls[t].at = "updating"
    /\ Goto(t, "out") /\ UNCHANGED <<clock, cache>>

Return(t) ==
    /\ calls[t].at = "read"
    /\ Goto(t, "out") /\ UNCHANGED <<clock, cache>>

Tick ==
    /\ clock < MaxTime
    /\ clock' = clock + 1 /\ UNCHANGED <<cache, calls>>

Next ==
    \/ \E t \in Threads :
         Get(t) \/ Lock(t) \/ TryUpdate(t) \/ Updated(t) \/ UpdateThrew(t) \/ Return(t)
    \/ Tick

Spec == Init /\ [][Next]_vars
-----------------------------------------------------------------------------
\* What get returns was true less than an interval before the call had the
\* lock, however long the thread waited for it, whoever updated the value and
\* however often the function threw; and it is never older than what an earlier
\* get returned.
FreshStep ==
    /\ \A t \in Threads :
         calls[t].at = "read" => cache.value > calls[t].lockedAt - Interval
    /\ cache'.value >= cache.value

NeverStale == [][FreshStep]_vars
=============================================================================
