----------------------------- MODULE MCNumbers -----------------------------
(* The arithmetic of the library: uint128, bit_copy, bit_float and         *)
(* remap_static.  They share no state: each behaviour is one of one of     *)
(* them, and "last" is its last call.                                      *)
EXTENDS UInt128

CONSTANTS ByteBits, Sizes, Counts, Offsets, Arrays, Formats, Scale, Types, Largest
VARIABLE component

Bits == INSTANCE BitCopy WITH memory <- value, call <- last
Floats == INSTANCE BitFloat WITH conversion <- last
Remaps == INSTANCE RemapStatic WITH remap <- last

\* What the parts need of their constants: integers have bits, numbers a
\* mantissa and an exponent, and none is less than the unit; bytes have bits,
\* objects bytes, a copy bits, and arrays no bits before their first.
ASSUME NumbersAssumption ==
    /\ ByteBits \in Nat \ {0} /\ Sizes \subseteq Nat \ {0}
    /\ Counts \subseteq Nat \ {0} /\ Offsets \subseteq Nat /\ Arrays \subseteq SUBSET Nat
    /\ Types \subseteq [w : Nat \ {0}, signed : BOOLEAN]
    /\ Formats \subseteq [m : Nat \ {0}, e : Nat \ {0}, s : BOOLEAN]
    /\ Scale \in Nat /\ \A f \in Formats : Scale >= f.m + Floats!ExponentZero(f.e)

\* Arrays whose bits follow no period that a shift could hide, and an empty one.
SampleArrays == {{}, {k \in 0..63 : (k * k) % 11 < 5}, {k \in 0..63 : (k * k) % 11 >= 5}}
Format(m, e, s) == [m |-> m, e |-> e, s |-> s]
SampleFormats == {Format(3, 4, TRUE), Format(2, 3, TRUE), Format(1, 3, FALSE), Format(3, 2, TRUE)}
SampleTypes == {[w |-> 2, signed |-> FALSE], [w |-> 4, signed |-> TRUE]}

\* Every value of uint128 is an initial one, so one operation from each covers
\* every step of every behaviour.
UInt128Next == component = "uint128" /\ last[1] = "init" /\ Next
BitsNext == component = "bits" /\ Bits!Next
FloatsNext == component = "floats" /\ Floats!Next /\ UNCHANGED value
RemapsNext == component = "remaps" /\ Remaps!Next /\ UNCHANGED value

NumbersInit ==
    \/ component = "uint128" /\ Init
    \/ component = "bits" /\ Bits!Init
    \/ component = "floats" /\ Floats!Init /\ value = 0
    \/ component = "remaps" /\ Remaps!Init /\ value = 0

NumbersNext ==
    /\ UInt128Next \/ BitsNext \/ FloatsNext \/ RemapsNext
    /\ UNCHANGED component

NumbersSpec == NumbersInit /\ [][NumbersNext]_<<component, vars>>
-----------------------------------------------------------------------------
(* The properties of each, where it is the one that runs.                  *)

\* uint128: every operation is that of numbers modulo the range.
ImplementsModularNumber ==
    /\ component = "uint128" => Number!Init
    /\ [][component = "uint128" => Number!Next \/ UNCHANGED vars]_<<component, vars>>

\* uint128: the comparisons order the values as numbers.
ComparesLikeNumbers == component = "uint128" => OrderedLikeNumbers /\ LeadingZerosFit

\* bit_copy: the bits arrive, and no others are lost than the mode says.
CopiesTheBits == component = "bits" => Bits!CopiesTheBits

\* bit_float: a conversion truncates or becomes infinite, and one to a wider
\* format loses nothing.
ConvertsNumbers ==
    component = "floats" => Floats!TruncatesNormalNumbers /\ Floats!WideningIsLossless

\* remap_static: ends on ends, monotonic, and never off by one.
RemapsLinearly == component = "remaps" => Remaps!RemapsLinearly
=============================================================================
