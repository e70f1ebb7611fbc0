----------------------------- MODULE Generator -----------------------------
(***************************************************************************)
(* mh::generator (coroutine/generator.hpp): a coroutine that yields        *)
(* values, the generator that owns its frame and can be moved, and the     *)
(* loops over it.  The values of a coroutine are 1, 2, 3...; it may return *)
(* or throw at any point.  Loops are those of range-for: they look at no   *)
(* value twice, never go on behind the end, and their generator is neither *)
(* destroyed nor empty meanwhile; the rest would be undefined.             *)
(***************************************************************************)
EXTENDS Integers, Sequences, FiniteSets

CONSTANTS
    Frames,     \* the coroutines
    Generators, \* the variables of type generator
    None,       \* no coroutine: m_Handle is null
    MaxYields   \* bound of the values of a coroutine

VARIABLES
    frames,     \* of each coroutine: its frame, m_State, and what its readers have seen
    holds,      \* m_Handle of each generator
    loop        \* the loop that runs: its iterator, and where it is

vars == <<frames, holds, loop>>

Fresh == [frame |-> "none", state |-> "monostate", yielded |-> 0, seen |-> <<>>,
          destroyed |-> 0, thrown |-> FALSE, reported |-> FALSE]

Init ==
    /\ frames = [c \in Frames |-> Fresh]
    /\ holds = [g \in Generators |-> None]
    /\ loop = [it |-> None, at |-> "no loop"]
-----------------------------------------------------------------------------
(* The generator object.                                                   *)

\* A call of the coroutine: it suspends at once, and get_return_object makes
\* the generator.
Create(c, g) ==
    /\ frames[c].frame = "none" /\ holds[g] = None
    /\ frames' = [frames EXCEPT ![c].frame = "suspended"]
    /\ holds' = [holds EXCEPT ![g] = c]
    /\ UNCHANGED loop

Destroyed(c) ==
    IF c = None THEN frames
    ELSE [frames EXCEPT ![c].frame = "destroyed", ![c].destroyed = @ + 1]

MoveConstruct(g, h) ==
    /\ g # h /\ holds[h] = None
    /\ holds' = [holds EXCEPT ![h] = holds[g], ![g] = None]
    /\ UNCHANGED <<frames, loop>>

\* Mutant: the frame that was there is overwritten.
MoveAssignOver(g, h) ==
    /\ g # h /\ (holds[h] = None \/ loop.it # holds[h])
    /\ holds' = [holds EXCEPT ![h] = holds[g], ![g] = None]
    /\ UNCHANGED <<frames, loop>>

MoveAssign(g, h) ==
    /\ g # h /\ (holds[h] = None \/ loop.it # holds[h])
    /\ frames' = Destroyed(holds[h])
    /\ holds' = [holds EXCEPT ![h] = holds[g], ![g] = None]
    /\ UNCHANGED loop

Destroy(g) ==
    /\ holds[g] # None /\ loop.it # holds[g]
    /\ frames' = Destroyed(holds[g])
    /\ holds' = [holds EXCEPT ![g] = None]
    /\ UNCHANGED loop
-----------------------------------------------------------------------------
(* The coroutine, from a resume() to the next suspension.                  *)

YieldValue(c) ==
    /\ frames[c].yielded < MaxYields
    /\ frames' = [frames EXCEPT ![c].state = "value", ![c].yielded = @ + 1]

ReturnVoid(c) == frames' = [frames EXCEPT ![c].frame = "done"]

UnhandledException(c) ==
    frames' = [frames EXCEPT ![c].frame = "done", ![c].state = "exception", ![c].thrown = TRUE]

Resume(c) ==
    /\ frames[c].frame = "suspended"
    /\ YieldValue(c) \/ ReturnVoid(c) \/ UnhandledException(c)
-----------------------------------------------------------------------------
(* Loops.                                                                  *)

\* Mutant: begin() looks at no exception.
BeginSilently(g) ==
    /\ loop.it = None /\ holds[g] # None
    /\ Resume(holds[g])
    /\ loop' = [it |-> holds[g], at |-> "test"]
    /\ UNCHANGED holds

\* begin() resumes and lets an exception of the coroutine out.
Begin(g) ==
    /\ loop.it = None /\ holds[g] # None
    /\ LET c == holds[g]
       IN  \/ /\ Resume(c) /\ frames'[c].state # "exception"
              /\ loop' = [it |-> c, at |-> "test"]
           \/ /\ frames[c].frame = "suspended"
              /\ frames' = [frames EXCEPT ![c].frame = "done", ![c].state = "exception",
                                          ![c].thrown = TRUE, ![c].reported = TRUE]
              /\ UNCHANGED loop
    /\ UNCHANGED holds

Done(c) == frames[c].frame = "done"

\* The value of *it.  (Without one, or with an exception, value() throws.)
Value(c, v) == frames[c].state = "value" /\ v = frames[c].yielded

\* it != end(): done() ends the loop; otherwise *it.
Test ==
    /\ loop.at = "test"
    /\ LET c == loop.it
       IN  \/ /\ Done(c)
              /\ loop' = [it |-> None, at |-> "no loop"] /\ UNCHANGED frames
           \/ /\ ~Done(c)
              /\ \E v \in 1..MaxYields :
                    Value(c, v) /\ frames' = [frames EXCEPT ![c].seen = Append(@, v)]
              /\ loop' = [loop EXCEPT !.at = "body"]
    /\ UNCHANGED holds

\* operator++ resumes, and looks at nothing.
Increment ==
    /\ loop.at = "body"
    /\ Resume(loop.it)
    /\ loop' = [loop EXCEPT !.at = "test"]
    /\ UNCHANGED holds

Break ==
    /\ loop.at = "body"
    /\ loop' = [it |-> None, at |-> "no loop"]
    /\ UNCHANGED <<frames, holds>>

Next ==
    \/ \E g \in Generators :
         \/ Destroy(g) \/ Begin(g) \/ \E c \in Frames : Create(c, g)
         \/ \E h \in Generators : MoveConstruct(g, h) \/ MoveAssign(g, h)
    \/ Test \/ Increment \/ Break

Spec == Init /\ [][Next]_vars
-----------------------------------------------------------------------------
(* Properties.                                                             *)

\* Every frame that exists is owned by one generator, and one that is gone was
\* destroyed once and is owned by none, through moves and assignments.
ReleasedOnce ==
    \A c \in Frames :
        /\ Cardinality({g \in Generators : holds[g] = c})
             = (IF frames[c].frame \in {"suspended", "done"} THEN 1 ELSE 0)
        /\ frames[c].destroyed = (IF frames[c].frame = "destroyed" THEN 1 ELSE 0)

\* The loops over a coroutine, however often they are left and begun again and
\* whichever generator it has moved to, see its values in order, each once:
\* outside of a loop none is missing, and an exception before the first value
\* has come out of begin().  (One after it has not: ++ looks at no exception,
\* and the loop ends as if the coroutine had returned.)
EveryValueOnce ==
    \A c \in Frames :
        LET f == frames[c]
        IN  /\ f.seen = [i \in 1..Len(f.seen) |-> i]
            /\ loop.it # c => Len(f.seen) = f.yielded
            /\ f.thrown /\ f.yielded = 0 => f.reported
=============================================================================
