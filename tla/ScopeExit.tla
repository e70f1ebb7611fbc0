----------------------------- MODULE ScopeExit -----------------------------
(***************************************************************************)
(* scope_exit, scope_fail and scope_success (raii/scope_exit.hpp): guards  *)
(* that call a function when they are destroyed, always, or only when an   *)
(* exception is in flight, or only when none is.  A guard may be moved,    *)
(* and released.                                                           *)
(***************************************************************************)
EXTENDS Integers, FiniteSets

CONSTANTS
    Functions,  \* what guards call
    Guards,     \* the variables of the guards' types
    None,       \* no function, no guard
    MaxThrown   \* bound of the exceptions in flight

VARIABLES
    guards,     \* of each variable: function, kind, m_Active, exceptions at its start
    runs,       \* of each function: how often it ran; which guard owes a call,
                \* how often one was due, and whether one was due in a flight
    uncaught    \* std::uncaught_exceptions()

vars == <<guards, runs, uncaught>>

Kinds == {"exit", "fail", "success"}
Gone == [function |-> None, kind |-> "exit", active |-> FALSE, startedWith |-> 0]

Init ==
    /\ guards = [g \in Guards |-> Gone]
    /\ runs = [f \in Functions |->
                 [guarded |-> FALSE, ran |-> 0, owedBy |-> None, due |-> 0, inFlight |-> FALSE]]
    /\ uncaught = 0

\* Whose turn it is to call f passes from one guard to another, or to none.
Passed(f, from, to) ==
    [runs EXCEPT ![f].owedBy = IF @ = from THEN to ELSE @]
-----------------------------------------------------------------------------
Construct(g, f, kind, enabled) ==
    /\ guards[g] = Gone /\ ~runs[f].guarded
    /\ guards' = [guards EXCEPT ![g] =
          [function |-> f, kind |-> kind, active |-> enabled, startedWith |-> uncaught]]
    /\ runs' = [runs EXCEPT ![f].guarded = TRUE, ![f].owedBy = IF enabled THEN g ELSE None]
    /\ UNCHANGED uncaught

\* Mutant: the guard that is moved from stays active.
MoveActive(g, other) ==
    /\ guards[g] = Gone /\ guards[other] # Gone
    /\ guards' = [guards EXCEPT ![g] = [guards[other] EXCEPT !.startedWith = uncaught]]
    /\ runs' = Passed(guards[other].function, other, g)
    /\ UNCHANGED uncaught

Move(g, other) ==
    /\ guards[g] = Gone /\ guards[other] # Gone
    /\ guards' = [guards EXCEPT ![g] = [guards[other] EXCEPT !.startedWith = uncaught],
                                ![other].active = FALSE]
    /\ runs' = Passed(guards[other].function, other, g)
    /\ UNCHANGED uncaught

Release(g) ==
    /\ guards[g] # Gone
    /\ guards' = [guards EXCEPT ![g].active = FALSE]
    /\ runs' = Passed(guards[g].function, g, None)
    /\ UNCHANGED uncaught

\* The traits: no guard remembers how many exceptions there were at its start.
Calls(guard) ==
    CASE guard.kind = "exit" -> TRUE
      [] guard.kind = "fail" -> uncaught > 0
      [] guard.kind = "success" -> uncaught <= 0

\* What the kinds promise: whether an exception leaves the scope of the guard.
ShouldCall(guard) ==
    CASE guard.kind = "exit" -> TRUE
      [] guard.kind = "fail" -> uncaught > guard.startedWith
      [] guard.kind = "success" -> uncaught = guard.startedWith

Count(condition) == IF condition THEN 1 ELSE 0

Destroy(g) ==
    /\ guards[g] # Gone
    /\ LET guard == guards[g]
           f == guard.function
           owes == runs[f].owedBy = g
       IN  runs' = [Passed(f, g, None) EXCEPT
             ![f].ran = @ + Count(guard.active /\ Calls(guard)),
             ![f].due = @ + Count(owes /\ ShouldCall(guard)),
             ![f].inFlight = @ \/ (owes /\ guard.startedWith > 0)]
    /\ guards' = [guards EXCEPT ![g] = Gone]
    /\ UNCHANGED uncaught

Throw ==
    /\ uncaught < MaxThrown
    /\ uncaught' = uncaught + 1 /\ UNCHANGED <<guards, runs>>

\* An exception is caught when the scopes are left that began in its flight.
Catch ==
    /\ uncaught > 0 /\ \A g \in Guards : guards[g].startedWith < uncaught
    /\ uncaught' = uncaught - 1 /\ UNCHANGED <<guards, runs>>

Next ==
    \/ \E g \in Guards :
         \/ Release(g) \/ Destroy(g) \/ \E other \in Guards : Move(g, other)
         \/ \E f \in Functions, kind \in Kinds, enabled \in BOOLEAN : Construct(g, f, kind, enabled)
    \/ Throw \/ Catch

Spec == Init /\ [][Next]_vars
-----------------------------------------------------------------------------
\* A function runs when the guard that owes the call promises it, once however
\* often the guard was moved, and never after a release.  (A scope_fail or
\* scope_success that starts while an exception is in flight, in a destructor,
\* takes that exception for its own: it is only known to run at most once.)
ReleasedOnce ==
    \A f \in Functions :
        /\ runs[f].ran <= 1
        /\ ~runs[f].inFlight => runs[f].ran = runs[f].due
=============================================================================
