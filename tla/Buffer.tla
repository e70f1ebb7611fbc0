------------------------------- MODULE Buffer -------------------------------
(***************************************************************************)
(* mh::buffer (memory/buffer.hpp, buffer.inl): a block of memory of the C  *)
(* library that can be copied, moved and resized.  realloc may fail, and   *)
(* may leave the block where it is or move it.                             *)
(*                                                                         *)
(* resize(0) of a buffer that has a block is left out: realloc frees the   *)
(* block then and returns no other, resize throws, and m_Data still points *)
(* to the freed block.  So are sizes of which a half more does not fit in  *)
(* a size_t.                                                               *)
(***************************************************************************)
EXTENDS Integers, FiniteSets

CONSTANTS
    Buffers,    \* the variables of type buffer
    Blocks,     \* the addresses that realloc returns, each once
    Null,       \* nullptr
    MaxSize     \* bound of a size

VARIABLES
    buffers,    \* m_Data and m_Size of each variable, and whether it exists
    heap,       \* of each block: "new", "live" or "freed", and its size
    reserved    \* what the last call of reserve was asked for, and its buffer

vars == <<buffers, heap, reserved>>

Empty == [built |-> TRUE, data |-> Null, size |-> 0]
Unbuilt == [Empty EXCEPT !.built = FALSE]
NoReserve == <<Null, 0>>

Init ==
    /\ buffers = [b \in Buffers |-> Unbuilt]
    /\ heap = [p \in Blocks |-> [state |-> "new", size |-> 0]]
    /\ reserved = NoReserve

Freed(h, p) == IF p = Null THEN h ELSE [h EXCEPT ![p].state = "freed"]

\* realloc that works: the same block, or another one.
Reallocated(p, size, q, h) ==
    /\ q = p \/ heap[q].state = "new"
    /\ h = [(IF q = p THEN heap ELSE Freed(heap, p)) EXCEPT ![q] = [state |-> "live", size |-> size]]

\* Mutant: the old size stays when the block stays.
ResizeForgetsSize(b, old, size) ==
    \E q \in Blocks :
        /\ Reallocated(old.data, size, q, heap')
        /\ buffers' = [buffers EXCEPT ![b] =
              [built |-> TRUE, data |-> q, size |-> IF q = old.data THEN old.size ELSE size]]

\* The block of b, which had the members "old" before.
ResizeWorks(b, old, size) ==
    \E q \in Blocks :
        /\ Reallocated(old.data, size, q, heap')
        /\ buffers' = [buffers EXCEPT ![b] = [built |-> TRUE, data |-> q, size |-> size]]
-----------------------------------------------------------------------------
Construct(b) ==
    /\ ~buffers[b].built
    /\ buffers' = [buffers EXCEPT ![b] = Empty]
    /\ reserved' = NoReserve /\ UNCHANGED heap

\* With a size, or the bytes of another; if there is no memory the constructor
\* throws and there is no buffer.
ConstructSized(b, size) ==
    /\ ~buffers[b].built
    /\ ResizeWorks(b, Empty, size) \/ UNCHANGED <<buffers, heap>>
    /\ reserved' = NoReserve

Copy(b, other) ==
    /\ buffers[other].built
    /\ ConstructSized(b, buffers[other].size)

Move(b, other) ==
    /\ ~buffers[b].built /\ buffers[other].built
    /\ buffers' = [buffers EXCEPT ![b] = buffers[other], ![other] = Empty]
    /\ reserved' = NoReserve /\ UNCHANGED heap

\* resize, which throws if there is no memory and has changed nothing then.
Resize(b, size) ==
    /\ buffers[b].built /\ (size = 0 => buffers[b].data = Null)
    /\ ResizeWorks(b, buffers[b], size) \/ UNCHANGED <<buffers, heap>>
    /\ reserved' = NoReserve

\* reserve: nothing, or half more than is asked for.
Reserve(b, least) ==
    /\ buffers[b].built
    /\ \/ /\ buffers[b].size >= least /\ UNCHANGED <<buffers, heap>>
          /\ reserved' = <<b, least>>
       \/ /\ buffers[b].size < least /\ ResizeWorks(b, buffers[b], least + (least \div 2))
          /\ reserved' = <<b, least>>
       \/ buffers[b].size < least /\ reserved' = NoReserve /\ UNCHANGED <<buffers, heap>>

Clear(b) ==
    /\ buffers[b].built
    /\ heap' = Freed(heap, buffers[b].data)
    /\ buffers' = [buffers EXCEPT ![b] = Empty]
    /\ reserved' = NoReserve

Destroy(b) ==
    /\ buffers[b].built
    /\ heap' = Freed(heap, buffers[b].data)
    /\ buffers' = [buffers EXCEPT ![b] = Unbuilt]
    /\ reserved' = NoReserve

Next ==
    \E b \in Buffers :
        \/ Construct(b) \/ Clear(b) \/ Destroy(b)
        \/ \E size \in 0..MaxSize : ConstructSized(b, size) \/ Resize(b, size) \/ Reserve(b, size)
        \/ \E other \in Buffers : Copy(b, other) \/ Move(b, other)

Spec == Init /\ [][Next]_vars
-----------------------------------------------------------------------------
\* A block that lives belongs to exactly one buffer, which knows its size, one
\* that was freed to none; and after a successful reserve there is room for
\* what was asked for.
ReleasedOnce ==
    /\ \A p \in Blocks :
         Cardinality({b \in Buffers : buffers[b].data = p})
           = (IF heap[p].state = "live" THEN 1 ELSE 0)
    /\ \A b \in Buffers :
         /\ buffers[b].size = (IF buffers[b].data = Null THEN 0 ELSE heap[buffers[b].data].size)
         /\ reserved[1] = b => buffers[b].size >= reserved[2]
=============================================================================
