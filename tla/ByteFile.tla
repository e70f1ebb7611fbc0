------------------------------ MODULE ByteFile ------------------------------
(* What mh::memstream promises about a buffer of its user's: the bytes of  *)
(* one file in it, with a position to read at and one to write at, and     *)
(* what every call stores, finds and answers.  Blocks of bytes extend the  *)
(* file; bytes put one at a time become part of it with the next block at  *)
(* the latest that ends behind them.                                       *)
EXTENDS Integers, Sequences

CONSTANTS
    Size, Chars, Initially,
    Blocks,     \* sequences of Chars
    Mark        \* the character that ends a block before it is stored

VARIABLES
    bytes,      \* the buffer
    length,     \* how many of its bytes the file has
    readAt, writeAt,
    begin,      \* where positions to write at are counted from
    limit,      \* where writing ends
    told        \* the last call, what it was given and what it answered

vars == <<bytes, length, readAt, writeAt, begin, limit, told>>

Longer(end) == IF end > length THEN end ELSE length

Init ==
    /\ bytes \in [1..Size -> Initially] /\ length \in 0..Size
    /\ readAt = 0 /\ writeAt = length /\ begin = length /\ limit \in length..Size
    /\ told = <<"open", length>>

(* The buffer with the first n characters of a block at the write position. *)
With(block, n) ==
    [i \in 1..Size |-> IF i - writeAt \in 1..n THEN block[i - writeAt] ELSE bytes[i]]

(* A block is stored up to a mark in it, or until one byte of room is left. *)
WriteBlock(block) == \E n \in 0..Len(block) :
    /\ told' = <<"write", block, n>>
    /\ n <= limit - writeAt - 1 /\ \A i \in 1..n : block[i] /= Mark
    /\ n < Len(block) => n = limit - writeAt - 1 \/ block[n + 1] = Mark
    /\ bytes' = With(block, n) /\ writeAt' = writeAt + n /\ length' = Longer(writeAt')
    /\ UNCHANGED <<readAt, begin, limit>>

(* At the end of the buffer a block is refused, and costs one position.    *)
Refuse(block) ==
    /\ told' = <<"write", block, -1>>
    /\ writeAt = limit /\ writeAt' = limit - 1 /\ length' = Longer(writeAt')
    /\ UNCHANGED <<bytes, readAt, begin, limit>>

Put(c) ==
    /\ told' = <<"put", c, TRUE>> /\ writeAt < limit
    /\ bytes' = With(<<c>>, 1) /\ writeAt' = writeAt + 1
    /\ UNCHANGED <<length, readAt, begin, limit>>

RefusePut(c) ==
    /\ told' = <<"put", c, FALSE>> /\ writeAt = limit
    /\ UNCHANGED <<bytes, length, readAt, writeAt, begin, limit>>

Read ==
    /\ readAt < length /\ told' = <<"read", <<bytes[readAt + 1]>>>>
    /\ readAt' = readAt + 1
    /\ UNCHANGED <<bytes, length, writeAt, begin, limit>>

ReadNothing ==
    /\ readAt = length /\ told' = <<"read", <<>>>>
    /\ UNCHANGED <<bytes, length, readAt, writeAt, begin, limit>>

(* The unread bytes of the file, and all of them.                          *)
View ==
    /\ told' \in {<<"view", SubSeq(bytes, readAt + 1, length)>>,
                  <<"view_full", SubSeq(bytes, 1, length)>>}
    /\ UNCHANGED <<bytes, length, readAt, writeAt, begin, limit>>

-----------------------------------------------------------------------------
Areas == SUBSET {"in", "out"} \ {{}}
Origins == {"beg", "cur", "end"}

(* off from an origin, in an area of so many bytes; from its end backwards. *)
Position(off, origin, at, bound) ==
    CASE origin = "beg" -> off
      [] origin = "cur" -> at + off
      [] origin = "end" -> bound - off

Seek(off, origin, which) ==
    LET get == Position(off, origin, readAt, length)
        put == Position(off, origin, writeAt - begin, limit - begin)
    IN  /\ told' = <<"seek", off, origin, which, IF "out" \in which THEN put ELSE get>>
        /\ origin = "cur" => off /= 0
        /\ IF "in" \in which THEN get \in 0..length /\ readAt' = get
                             ELSE readAt' = readAt
        /\ IF "out" \in which THEN put \in 0..(limit - begin) /\ writeAt' = begin + put
                              ELSE writeAt' = writeAt
        /\ UNCHANGED <<bytes, length, begin, limit>>

Tell(which) ==
    /\ told' = <<"seek", 0, "cur", which, IF "in" \in which THEN readAt ELSE writeAt - begin>>
    /\ UNCHANGED <<bytes, length, readAt, writeAt, begin, limit>>

Reset(n) ==
    /\ told' = <<"setbuf", n>> /\ limit' = n
    /\ length' = 0 /\ readAt' = 0 /\ writeAt' = 0 /\ begin' = 0 /\ UNCHANGED bytes

Next ==
    \/ \E block \in Blocks : WriteBlock(block) \/ Refuse(block)
    \/ \E c \in Chars : Put(c) \/ RefusePut(c)
    \/ Read \/ ReadNothing \/ View
    \/ \E off \in (-Size)..Size, origin \in Origins, which \in Areas : Seek(off, origin, which)
    \/ \E which \in Areas : Tell(which)
    \/ \E n \in 0..Size : Reset(n)

Spec == Init /\ [][Next]_vars
=============================================================================
