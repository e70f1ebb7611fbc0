----------------------------- MODULE MemStream -----------------------------
(***************************************************************************)
(* basic_memstreambuf (text/memstream.hpp): a std::streambuf on a buffer   *)
(* of the user's.  Pointers are offsets from the buffer's begin; a byte of *)
(* the buffer is bytes[offset + 1].                                        *)
(*                                                                         *)
(* sputc and sbumpc are the inlines of std::basic_streambuf, which call    *)
(* the virtual functions only at the end of an area.  Seeks are those that *)
(* the assertions of seekpos admit; less than half of the buffer exists    *)
(* when a stream is made (see Construct), and areas are not empty          *)
(* (Remaining).                                                            *)
(***************************************************************************)
EXTENDS Integers, Sequences, FiniteSetsExt

CONSTANTS
    Size,       \* size of the buffer
    Chars,      \* the bytes that are written
    Blank,      \* what the buffer holds at first
    EofChar,    \* the byte 0xFF, which as a (signed) char equals Traits::eof()
    MaxExisting,\* bound of existingSize, less than half of Size
    MinArea     \* the smallest n of setbuf, at least 1

VARIABLES
    bytes,
    pbeg, pcur, pend,   \* the put area
    gbeg, gcur, gend,   \* the get area
    told                \* the last call, with its arguments and its result

vars == <<bytes, pbeg, pcur, pend, gbeg, gcur, gend, told>>

SetP(beg, cur, end) == pbeg' = beg /\ pcur' = cur /\ pend' = end
SetG(beg, cur, end) == gbeg' = beg /\ gcur' = cur /\ gend' = end
KeepP == UNCHANGED <<pbeg, pcur, pend>>
KeepG == UNCHANGED <<gbeg, gcur, gend>>

Construct(existing) ==
    /\ pbeg = existing /\ pcur = existing /\ pend = Size - existing
    /\ gbeg = 0 /\ gcur = 0 /\ gend = existing
    /\ told = <<"open", existing>>

Init ==
    /\ bytes = [i \in 1..Size |-> Blank]
    /\ \E existing \in 0..MaxExisting : Construct(existing)

(* setbuf, with the first n bytes of the same memory.                      *)
SetBuf(n) ==
    /\ SetP(0, 0, n) /\ SetG(0, 0, 0)
    /\ told' = <<"setbuf", n>> /\ UNCHANGED bytes

-----------------------------------------------------------------------------
(* Seeking.  An empty set of areas and a position outside are excluded by  *)
(* exceptions and assertions.                                              *)

Areas == SUBSET {"in", "out"} \ {{}}

GetAt(pos) == IF pos \in 0..(gend - gbeg) THEN {pos} ELSE {}
PutAt(pos) == IF pos \in 0..(pend - pbeg) THEN {pos} ELSE {}

(* seekpos in each of the areas, to a position of its own.                 *)
SeekTo(which, getPos, putPos) ==
    /\ IF "in" \in which
       THEN \E pos \in GetAt(getPos) : SetG(gbeg, gbeg + pos, gend)
       ELSE KeepG
    /\ IF "out" \in which
       THEN \E pos \in PutAt(putPos) : SetP(pbeg, pbeg + pos, pend)
       ELSE KeepP
    /\ UNCHANGED bytes

(* The result of a seek in both areas is the put position.                 *)
Told(off, dir, which, getPos, putPos) ==
    told' = <<"seek", off, dir, which, IF "out" \in which THEN putPos ELSE getPos>>

SeekPos(pos, which) == SeekTo(which, pos, pos) /\ Told(pos, "beg", which, pos, pos)

SeekCur(off, which) ==
    /\ off /= 0
    /\ LET getPos == gcur - gbeg + off
           putPos == pcur - pbeg + off
       IN  SeekTo(which, getPos, putPos) /\ Told(off, "cur", which, getPos, putPos)

(* An offset of 0 from there only tells the position; that of the get area *)
(* if asked for both.                                                      *)
TellPos(which) ==
    /\ told' = <<"seek", 0, "cur", which, IF "in" \in which THEN gcur - gbeg ELSE pcur - pbeg>>
    /\ KeepG /\ KeepP /\ UNCHANGED bytes

SeekEnd(off, which) ==
    LET getPos == gend - gbeg - off
        putPos == pend - pbeg - off
    IN  SeekTo(which, getPos, putPos) /\ Told(off, "end", which, getPos, putPos)

-----------------------------------------------------------------------------
(* Writing and reading.                                                    *)

UpdateGetAreaSize == SetG(gbeg, gcur, Max({pcur', gend}))

(* The bytes with a block of them from offset at on.                       *)
Stored(s, n, at) ==
    [i \in 1..Size |-> IF i - at \in 1..n THEN s[i - at] ELSE bytes[i]]

\* Mutant: the room of the whole area.
RemainingFromBegin == pend - pbeg - 1
Remaining == pend - pcur - 1
Fitting(s) == Min({Len(s), Remaining})

\* Mutant: an EofChar is stored like any other character.
CountThroughEof(s) == Fitting(s)
(* xsputn stores up to the first EofChar of what fits.                     *)
Count(s) == Min({Fitting(s)} \cup {i - 1 : i \in {j \in 1..Fitting(s) : s[j] = EofChar}})

XSPutN(s) ==
    LET count == Count(s)
    IN  /\ bytes' = Stored(s, count, pcur)
        /\ SetP(pbeg, pcur + count, pend)
        /\ UpdateGetAreaSize
        /\ told' = <<"write", s, count>>

(* sputc: stores into the put area; at its end, overflow refuses.          *)
PutChar(c) ==
    /\ IF pcur < pend
       THEN bytes' = Stored(<<c>>, 1, pcur) /\ SetP(pbeg, pcur + 1, pend)
       ELSE pcur = pend /\ KeepP /\ UNCHANGED bytes
    /\ told' = <<"put", c, pcur < pend>>
    /\ KeepG

(* sbumpc: at the end of the get area the base class's underflow answers   *)
(* that there is no more.                                                  *)
BumpChar ==
    /\ IF gcur < gend
       THEN SetG(gbeg, gcur + 1, gend) /\ told' = <<"read", <<bytes[gcur + 1]>>>>
       ELSE gcur = gend /\ KeepG /\ told' = <<"read", <<>>>>
    /\ KeepP /\ UNCHANGED bytes

View == told' = <<"view", SubSeq(bytes, gcur + 1, gend)>>
ViewFull == told' = <<"view_full", SubSeq(bytes, gbeg + 1, gend)>>

Blocks == UNION {[1..n -> Chars] : n \in 1..3}

Next ==
    \/ \E n \in MinArea..Size : SetBuf(n)
    \/ \E off \in (-Size)..Size, which \in Areas :
          SeekPos(off, which) \/ SeekCur(off, which) \/ SeekEnd(off, which)
    \/ \E s \in Blocks : XSPutN(s)
    \/ \E c \in Chars : PutChar(c)
    \/ BumpChar
    \/ \E which \in Areas : TellPos(which)
    \/ (View \/ ViewFull) /\ UNCHANGED <<bytes, pbeg, pcur, pend, gbeg, gcur, gend>>

Spec == Init /\ [][Next]_vars

-----------------------------------------------------------------------------
(* The positions that tellp and tellg report are ones that seekp and seekg *)
(* admit (the assertions of seekpos): whatever is written and sought, the  *)
(* positions stay inside their areas, and these inside the buffer.         *)
ToldPositionsAreAdmitted ==
    /\ pcur - pbeg \in 0..(pend - pbeg) /\ pbeg >= 0 /\ pend <= Size
    /\ gcur - gbeg \in 0..(gend - gbeg) /\ gbeg = 0 /\ gend <= Size

(* Every call stores, moves and answers what a call of one file in the     *)
(* buffer does, given the same: bytes written are those read and viewed.   *)
File == INSTANCE ByteFile WITH
    length <- gend, readAt <- gcur, writeAt <- pcur, begin <- pbeg, limit <- pend,
    Initially <- {Blank}, Mark <- EofChar
ImplementsFile == File!Spec
=============================================================================
