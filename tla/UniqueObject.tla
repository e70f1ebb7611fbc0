---------------------------- MODULE UniqueObject ----------------------------
(***************************************************************************)
(* mh::unique_object (memory/unique_object.hpp): an object of any kind     *)
(* that is deleted once, whoever it is moved to.  What deleting, releasing *)
(* and being valid mean is up to the traits; those that fit delete and     *)
(* release valid objects only, and leave the variable without one.         *)
(*                                                                         *)
(* A variable of type unique_object is unbuilt before its constructor and  *)
(* after its destructor.  An object is with the program, in a variable, or *)
(* deleted.                                                                *)
(***************************************************************************)
EXTENDS Integers, FiniteSets

CONSTANTS
    Objects,    \* the objects to own
    Variables,  \* the unique_objects
    Unbuilt,    \* a variable before its constructor
    Invalid     \* what m_Object is when it is no object

VARIABLES
    owned,      \* m_Object of each variable
    program,    \* the objects that the program has to take care of itself
    deletions   \* how often each object was deleted

vars == <<owned, program, deletions>>

Init ==
    /\ owned = [v \in Variables |-> Unbuilt]
    /\ program = Objects
    /\ deletions = [o \in Objects |-> 0]

Built(v) == owned[v] # Unbuilt

\* delete_obj of the traits.
DeleteObj(o) == IF o = Invalid THEN deletions ELSE [deletions EXCEPT ![o] = @ + 1]
-----------------------------------------------------------------------------
ConstructEmpty(v) ==
    /\ ~Built(v)
    /\ owned' = [owned EXCEPT ![v] = Invalid]
    /\ UNCHANGED <<program, deletions>>

Construct(v, o) ==
    /\ ~Built(v) /\ o \in program
    /\ owned' = [owned EXCEPT ![v] = o]
    /\ program' = program \ {o}
    /\ UNCHANGED deletions

\* m_Object(other.release()).
MoveConstruct(v, other) ==
    /\ ~Built(v) /\ Built(other)
    /\ owned' = [owned EXCEPT ![v] = owned[other], ![other] = Invalid]
    /\ UNCHANGED <<program, deletions>>

\* Mutant: what v had is overwritten.
MoveAssignOver(v, other) ==
    /\ Built(v) /\ Built(other)
    /\ owned' = [[owned EXCEPT ![other] = Invalid] EXCEPT ![v] = owned[other]]
    /\ UNCHANGED <<program, deletions>>

\* reset() and then other.release(), which finds nothing if other is v.
MoveAssign(v, other) ==
    /\ Built(v) /\ Built(other)
    /\ deletions' = DeleteObj(owned[v])
    /\ owned' = [[owned EXCEPT ![other] = Invalid]
                    EXCEPT ![v] = IF other = v THEN Invalid ELSE owned[other]]
    /\ UNCHANGED program

Destruct(v) ==
    /\ Built(v)
    /\ deletions' = DeleteObj(owned[v])
    /\ owned' = [owned EXCEPT ![v] = Unbuilt]
    /\ UNCHANGED program

\* The caller has the object, if there was one.
Release(v) ==
    /\ Built(v)
    /\ program' = program \cup ({owned[v]} \ {Invalid})
    /\ owned' = [owned EXCEPT ![v] = Invalid]
    /\ UNCHANGED deletions

Reset(v) ==
    /\ Built(v)
    /\ deletions' = DeleteObj(owned[v])
    /\ owned' = [owned EXCEPT ![v] = Invalid]
    /\ UNCHANGED program

\* reset(o) moves from a temporary; through reset_and_get_ref the caller puts
\* the object in himself.
ResetTo(v, o) ==
    /\ Built(v) /\ o \in program
    /\ deletions' = DeleteObj(owned[v])
    /\ owned' = [owned EXCEPT ![v] = o]
    /\ program' = program \ {o}

Next ==
    \E v \in Variables :
        \/ ConstructEmpty(v) \/ Destruct(v) \/ Release(v) \/ Reset(v)
        \/ \E o \in Objects : Construct(v, o) \/ ResetTo(v, o)
        \/ \E other \in Variables : MoveConstruct(v, other) \/ MoveAssign(v, other)

Spec == Init /\ [][Next]_vars
-----------------------------------------------------------------------------
\* Every object is with the program, or in exactly one variable, or was deleted
\* exactly once and is in neither.
ReleasedOnce ==
    \A o \in Objects :
        Cardinality({v \in Variables : owned[v] = o})
          + (IF o \in program THEN 1 ELSE 0) + deletions[o] = 1
=============================================================================
