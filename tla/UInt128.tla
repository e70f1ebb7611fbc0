------------------------------ MODULE UInt128 ------------------------------
(***************************************************************************)
(* mh::uint128 (math/uint128.hpp): a number of two machine words, in the   *)
(* form the code has where the compiler has no __uint128_t or evaluates a  *)
(* constant.  Words have any even number of bits here, 64 there.  A value  *)
(* is a record of its words; bitwise operators on words are written as the *)
(* arithmetic they stand for (x << b is (x * Pow2[b]) % Word, x >> b is    *)
(* x \div Pow2[b], and | of words without a common bit is +).              *)
(***************************************************************************)
EXTENDS Powers

CONSTANTS
    HalfBits,   \* half the bits of a word, 32
    Half        \* the values of that many bits

ASSUME HalfBitsAssumption == HalfBits \in Nat \ {0} /\ Half = Pow2[HalfBits]

WordBits == 2 * HalfBits
Word == Half * Half
Words == 0..(Word - 1)
TopBit == Word \div 2
Shifts == 0..(2 * WordBits + 1)
UInts == [low : Words, high : Words]

Carry(overflowed) == IF overflowed THEN 1 ELSE 0
UInt(low, high) == [low |-> low % Word, high |-> high % Word]

VARIABLES
    value,      \* u64
    last        \* the operation, with its operand, that led to it

vars == <<value, last>>

Init == value \in UInts /\ last = <<"init", 0>>
-----------------------------------------------------------------------------
(* The operators.                                                          *)

Incremented(u) ==
    UInt(u.low + 1, u.high + Carry((u.low + 1) % Word = 0))

Plus(u, r) ==
    LET result == (u.low + r) % Word
    IN  UInt(result, u.high + Carry(result < u.low))

MinusWord(u, r) ==
    LET result == (u.low - r) % Word
    IN  UInt(result, u.high - Carry(result > u.low))

Minus(u, v) ==
    LET result == (u.low - v.low) % Word
    IN  UInt(result, u.high - v.high - Carry(result > u.low))

\* The four products of halves, and the carry out of the middle.
FromMul(a, b) ==
    LET resultLow   == (a % Half) * (b % Half)
        resultHigh  == (a \div Half) * (b \div Half)
        resultMidAB == (a \div Half) * (b % Half)
        resultMidBA == (b \div Half) * (a % Half)
        carryBit    == ((resultMidAB % Half) + (resultMidBA % Half) + (resultLow \div Half)) \div Half
    IN  UInt(a * b, resultHigh + (resultMidAB \div Half) + (resultMidBA \div Half) + carryBit)

CountlZero(x) ==
    IF x = 0 THEN WordBits
    ELSE CHOOSE z \in 0..(WordBits - 1) : x * Pow2[z] < Word /\ x * Pow2[z] >= TopBit

\* Mutant: only the high word is counted.
LeadingZerosOfHigh(u) == CountlZero(u.high)

LeadingZeros(u) ==
    IF CountlZero(u.high) # WordBits THEN CountlZero(u.high)
    ELSE WordBits + CountlZero(u.low)

ShiftedLeft(u, bits) ==
    IF bits = 0 THEN u
    ELSE IF bits >= 2 * WordBits THEN UInt(0, 0)
    ELSE IF bits < WordBits
         THEN UInt(u.low * Pow2[bits], ((u.high * Pow2[bits]) % Word) + (u.low \div Pow2[WordBits - bits]))
    ELSE UInt(0, u.low * Pow2[bits - WordBits])

ShiftedRight(u, bits) ==
    IF bits = 0 THEN u
    ELSE IF bits >= 2 * WordBits THEN UInt(0, 0)
    ELSE IF bits < WordBits
         THEN UInt((u.low \div Pow2[bits]) + ((u.high * Pow2[WordBits - bits]) % Word), u.high \div Pow2[bits])
    ELSE UInt(u.high \div Pow2[bits - WordBits], 0)

\* Mutant: the bit that the shift pushes out is forgotten.
DivisionRoundTrips(d, left, s) ==
    LET shifted == ((s.remainder * 2) % Word) + (s.buffer \div TopBit)
        fits    == shifted >= d
    IN  [remainder |-> IF fits THEN (shifted - d) % Word ELSE shifted,
         buffer    |-> (s.buffer * 2) % Word,
         quotient  |-> s.quotient + (IF fits THEN Pow2[left] ELSE 0)]

\* One round of the long division: the next bit of the buffer into the
\* remainder, and a bit of the quotient if the divisor fits.  The bit that the
\* shift pushes out of the remainder counts for divisors with the top bit set.
DivisionRound(d, left, s) ==
    LET shifted == ((s.remainder * 2) % Word) + (s.buffer \div TopBit)
        fits    == shifted >= d \/ (d >= TopBit /\ s.remainder >= TopBit)
    IN  [remainder |-> IF fits THEN (shifted - d) % Word ELSE shifted,
         buffer    |-> (s.buffer * 2) % Word,
         quotient  |-> s.quotient + (IF fits THEN Pow2[left] ELSE 0)]

\* Without a remainder of the high word the leading zeros of the low word are
\* skipped.
Quotient(u, d) ==
    LET skip  == IF u.high % d # 0 THEN 0 ELSE CountlZero(u.low)
        count == WordBits - skip
        state[k \in 0..count] ==
            IF k = 0
            THEN [remainder |-> u.high % d, buffer |-> (u.low * Pow2[skip]) % Word, quotient |-> 0]
            ELSE DivisionRound(d, count - k, state[k - 1])
    IN  IF u.high = 0 THEN UInt(u.low \div d, 0)
        ELSE UInt(state[count].quotient, u.high \div d)

EqualNumbers(u, v) == u.low = v.low /\ u.high = v.high

\* Mutant: the low words are compared first.
LessLowFirst(u, v) == u.low < v.low \/ (u.low = v.low /\ u.high < v.high)

LessNumbers(u, v) == u.high < v.high \/ (u.high = v.high /\ u.low < v.low)

\* The overloads for a built-in unsigned number.
EqualWord(u, r) == u.high = 0 /\ u.low = r
LessThanWord(u, r) == u.high = 0 /\ u.low < r
WordLessThan(r, u) == u.high # 0 \/ r < u.low
-----------------------------------------------------------------------------
Apply(op, operand, result) ==
    /\ value' = result
    /\ last' = <<op, operand>>

Increment == Apply("++", 0, Incremented(value))
AddTo(r) == Apply("+=", r, Plus(value, r))
SubtractWord(r) == Apply("-=", r, MinusWord(value, r))
Subtract(v) == Apply("-=", v.high * Word + v.low, Minus(value, v))
Multiply(a, b) == Apply("mul", <<a, b>>, FromMul(a, b))
ShiftLeft(bits) == Apply("<<", bits, ShiftedLeft(value, bits))
ShiftRight(bits) == Apply(">>", bits, ShiftedRight(value, bits))
Divide(d) == d > 0 /\ Apply("/", d, Quotient(value, d))

Next ==
    \/ Increment
    \/ \E r \in Words : AddTo(r) \/ SubtractWord(r) \/ Divide(r) \/ \E s \in Words : Multiply(r, s)
    \/ \E v \in UInts : Subtract(v)
    \/ \E bits \in Shifts : ShiftLeft(bits) \/ ShiftRight(bits)

Spec == Init /\ [][Next]_vars
-----------------------------------------------------------------------------
(* Properties.                                                             *)

AsNumber(u) == u.high * Word + u.low

Number == INSTANCE ModularNumber WITH
    n <- AsNumber(value), Range <- Word * Word,
                                     Operands <- Words, Shifts <- Shifts

\* Every operator of uint128 computes what the operator on numbers of twice
\* the width computes, carries, borrows and lost bits included.
ImplementsNumber == Number!Spec

\* The comparisons order the values as numbers, and ==, < and their overloads
\* for words agree with each other.
OrderedLikeNumbers ==
    /\ \A v \in UInts :
         /\ EqualNumbers(value, v) <=> AsNumber(value) = AsNumber(v)
         /\ LessNumbers(value, v) <=> AsNumber(value) < AsNumber(v)
    /\ \A r \in Words :
         /\ EqualWord(value, r) <=> AsNumber(value) = r
         /\ LessThanWord(value, r) <=> AsNumber(value) < r
         /\ WordLessThan(r, value) <=> r < AsNumber(value)

\* leading_zeros is the largest shift to the left that loses no bit.
LeadingZerosFit ==
    LET z == LeadingZeros(value)
    IN  /\ AsNumber(value) * Pow2[z] < Word * Word
        /\ z = 2 * WordBits \/ AsNumber(value) * Pow2[z + 1] >= Word * Word
=============================================================================
