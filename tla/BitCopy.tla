------------------------------ MODULE BitCopy ------------------------------
(***************************************************************************)
(* data/bits.hpp: bit_copy, which copies any number of bits from any       *)
(* position in an array of integers to any position in another, and the    *)
(* byte and 16-bit accesses, bit_merge and bit_read that it is built from. *)
(*                                                                         *)
(* A word is the set of the positions of its one bits.  An array is such a *)
(* set too: bit k of object o of n bits is o * n + k, so that byte i holds *)
(* ByteBits positions from i * ByteBits on, as byte_read and byte_write    *)
(* count.  uint_fast16_t is wider than whatever is shifted in it (64 bits) *)
(* and therefore loses nothing.  The forms behind MH_BITS_ENABLE_*, which  *)
(* are not compiled, are left out.                                         *)
(***************************************************************************)
EXTENDS Integers

CONSTANTS
    ByteBits,       \* BITS_PER_BYTE, 8
    Sizes,          \* sizeof(TSrc), sizeof(TDst)
    Counts,         \* bits_to_copy, at least one
    Offsets,        \* src_offset and dst_offset
    Arrays          \* what source and destination may hold

Modes == {"none", "clear_bits", "clear_objects", "contents_zero"}

VARIABLES
    memory,     \* the destination
    call        \* the call that left it so

vars == <<memory, call>>

Init == memory \in Arrays /\ call = [op |-> "none", before |-> memory]
-----------------------------------------------------------------------------
(* Words and bytes.                                                        *)

Mask(n) == 0..(n - 1)
Shifted(word, by) == {k + by : k \in {j \in word : j + by >= 0}}
Part(array, first, bits) == Shifted(array, -first) \cap Mask(bits)

ByteWrite(array, i, value) ==
    (array \ Shifted(Mask(ByteBits), i * ByteBits))
      \cup Shifted(value \cap Mask(ByteBits), i * ByteBits)

\* From byte i to the end of its object: the value is not cut to a byte.
ByteRead(array, size, i) ==
    Part(array, i * ByteBits, (size - (i % size)) * ByteBits)

\* A whole object of two bytes, or two reads.
U16Read(array, size, i) ==
    ByteRead(array, size, i) \cup
      IF size = 2 /\ i % 2 = 0 THEN {}
      ELSE Shifted(ByteRead(array, size, i + 1), ByteBits)

U16Write(array, i, value) ==
    ByteWrite(ByteWrite(array, i, value), i + 1, Shifted(value, -ByteBits))

BitRead(word, bits, from, to) == Shifted(Shifted(word, -from) \cap Mask(bits), to)

BitMerge(existing, word, bits, from, to) ==
    (existing \ Shifted(Mask(bits), to)) \cup BitRead(word, bits, from, to)
-----------------------------------------------------------------------------
(* bit_copy, for a call c with the array "source".                         *)

SrcBits(c) == c.srcSize * ByteBits
DstBits(c) == c.dstSize * ByteBits
SrcOffset(c) == c.from % SrcBits(c)
DstOffset(c) == c.to % DstBits(c)
FirstDstBit(c) == c.to - DstOffset(c)

TouchedObjects(c) ==
    LET count == (DstOffset(c) + c.bits + DstBits(c) - 1) \div DstBits(c)
    IN  Shifted(Mask(count * DstBits(c)), FirstDstBit(c))

ByteAligned(c) ==
    /\ SrcOffset(c) = 0 /\ DstOffset(c) = 0 /\ c.bits % ByteBits = 0
    /\ \/ c.mode \in {"clear_bits", "contents_zero"}
       \/ c.mode = "clear_objects" /\ c.bits % DstBits(c) = 0

ByteCopy(c, array) ==
    LET copied[n \in 0..(c.bits \div ByteBits)] ==
            IF n = 0 THEN array
            ELSE ByteWrite(copied[n - 1], (c.to \div ByteBits) + n - 1,
                           ByteRead(c.source, c.srcSize, (c.from \div ByteBits) + n - 1))
    IN  copied[c.bits \div ByteBits]

InSingleObjects(c) ==
    DstOffset(c) + c.bits <= DstBits(c) /\ SrcOffset(c) + c.bits <= SrcBits(c)

\* One read and one write of an object; the modes that need not keep the other
\* bits replace it.
SingleCopy(c, array) ==
    LET word == Part(c.source, c.from - SrcOffset(c), SrcBits(c))
        value == Shifted(BitRead(word, c.bits, SrcOffset(c), DstOffset(c)), FirstDstBit(c))
        mask == Shifted(Mask(c.bits), c.to)
        kept == CASE c.mode = "none" -> array
                  [] c.mode = "clear_bits" -> array \ mask
                  [] OTHER -> array \ Shifted(Mask(DstBits(c)), FirstDstBit(c))
    IN  kept \cup value

\* bit_copy_helper: reads, masks and writes one or two bytes at index.
CopyHelper(c, array, srcMultibyte, dstMultibyte, mask, index) ==
    LET Read(a, size, i, two) == IF two THEN U16Read(a, size, i) ELSE ByteRead(a, size, i)
        src == (c.from \div ByteBits) + index
        dst == (c.to \div ByteBits) + index
        srcBuf == Shifted(Read(c.source, c.srcSize, src, srcMultibyte),
                          (c.to % ByteBits) - (c.from % ByteBits)) \cap mask
        dstBuf == Read(array, c.dstSize, dst, dstMultibyte)
        result == (IF c.mode = "clear_bits" THEN dstBuf \ mask ELSE dstBuf) \cup srcBuf
    IN  IF dstMultibyte THEN U16Write(array, dst, result) ELSE ByteWrite(array, dst, result)

LoopBytes(c) == (c.bits + DstOffset(c) + ByteBits - 1) \div ByteBits

\* Mutant: the last byte gets a whole byte.
RemainingByte(c) == ByteBits

RemainingBits(c) == DstOffset(c) + c.bits - ((LoopBytes(c) - 1) * ByteBits)

Least(a, b) == IF a < b THEN a ELSE b

\* The first byte, the bytes between, and the last one, each with its mask.
SlowCopy(c, array) ==
    LET At(bits) == Shifted(Mask(bits), DstOffset(c))
        looped[b \in Nat] ==
            IF b = 0
            THEN CopyHelper(c, array, c.bits + SrcOffset(c) > ByteBits,
                            c.bits + DstOffset(c) > ByteBits, At(Least(c.bits, ByteBits)), 0)
            ELSE CopyHelper(c, looped[b - 1], SrcOffset(c) > 0, DstOffset(c) > 0, At(ByteBits), b)
    IN  IF LoopBytes(c) = 1 THEN looped[0]
        ELSE CopyHelper(c, looped[LoopBytes(c) - 2],
                        (SrcOffset(c) + c.bits) % ByteBits # 0,
                        (DstOffset(c) + c.bits) % ByteBits # 0,
                        At(RemainingBits(c)), LoopBytes(c) - 1)

Copied(c, array) ==
    LET cleared == IF c.mode = "clear_objects" THEN array \ TouchedObjects(c) ELSE array
    IN  IF ByteAligned(c) THEN ByteCopy(c, cleared)
        ELSE IF InSingleObjects(c) THEN SingleCopy(c, cleared)
        ELSE SlowCopy(c, cleared)
-----------------------------------------------------------------------------
(* Calls: one for each destination.                                        *)

Calls(ops, modes) ==
    [op : ops, bits : Counts, from : Offsets, to : Offsets, srcSize : Sizes,
     dstSize : Sizes, mode : modes, source : Arrays, before : {memory}]

\* contents_zero is for destinations that hold nothing yet.
Copy ==
    /\ call.op = "none"
    /\ \E c \in Calls({"copy"}, Modes) :
        /\ c.mode = "contents_zero" => memory = {}
        /\ memory' = Copied(c, memory)
        /\ call' = c

\* bit_read from an array into an object of its own.
ReadObject ==
    /\ call.op = "none" /\ memory = {}
    /\ \E c \in Calls({"read"}, {"contents_zero"}) :
        /\ c.to = 0 /\ c.bits <= DstBits(c)
        /\ memory' = Copied(c, {})
        /\ call' = c

\* bit_merge of single words.  (A bit_read that does not fit throws.)
Merge ==
    /\ call.op = "none"
    /\ \E c \in Calls({"merge"}, {"clear_bits"}) :
        /\ c.bits + c.from <= SrcBits(c) /\ c.bits + c.to <= DstBits(c)
        /\ memory' = BitMerge(memory, c.source, c.bits, c.from, c.to)
        /\ call' = c

Next == Copy \/ ReadObject \/ Merge

Spec == Init /\ [][Next]_vars
-----------------------------------------------------------------------------
(* Properties.                                                             *)

WrittenBits(c) == Shifted(Mask(c.bits), c.to)
NewBits(c) == Shifted(c.source, c.to - c.from) \cap WrittenBits(c)

\* Source and destination at most one object, or the destination from the
\* first bit of an object on.
PlainDestination(c) == DstOffset(c) = 0 \/ InSingleObjects(c)

\* Whichever path is taken, the bits of the source arrive where they should,
\* and of the others of the destination only those are cleared that the mode
\* allows (the comments of bit_clear_mode), wherever the source starts.
CopiesTheBits ==
    call.op # "none" /\ PlainDestination(call) =>
        LET lost == CASE call.mode = "none" -> {}
                      [] call.mode = "clear_objects" -> TouchedObjects(call)
                      [] OTHER -> WrittenBits(call)
        IN  memory = (call.before \ lost) \cup NewBits(call)

\* "Clears only the bits being written, leaving others untouched", anywhere.
LeavesOthersUntouched ==
    call.op = "copy" /\ call.mode = "clear_bits" =>
        memory \ WrittenBits(call) = call.before \ WrittenBits(call)
=============================================================================
