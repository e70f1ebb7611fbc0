------------------------------ MODULE BitFloat ------------------------------
(***************************************************************************)
(* mh::bit_float (data/bit_float.hpp): floating-point numbers of any       *)
(* number of mantissa and exponent bits, with or without a sign, kept as   *)
(* bits, and their conversion into one another.  The float and the double  *)
(* of the machine are formats like the others (bits_to_native and          *)
(* native_to_bits are a conversion and a cast).                            *)
(*                                                                         *)
(* A format is [m, e, s]: mantissa bits, exponent bits, sign or not.       *)
(***************************************************************************)
EXTENDS Powers

CONSTANTS
    Formats,    \* the bit_float types
    Scale       \* every value is a multiple of 2^-Scale

VARIABLE conversion     \* the last call of bits_to_bits

Init == conversion = [op |-> "none"]
-----------------------------------------------------------------------------
(* The code.                                                               *)

ExponentMask(e) == Pow2[e] - 1
ExponentZero(e) == Pow2[e - 1] - 1
ActualValue(exponent, e) == exponent - ExponentZero(e)

\* Mutant: nothing is too large.
ConvertExponentWraps(exponent, e, n) ==
    IF e = n \/ exponent = 0 THEN exponent
    ELSE IF n >= e /\ exponent = ExponentMask(e) THEN ExponentMask(n)
    ELSE (ActualValue(exponent, e) + ExponentZero(n)) % Pow2[n]

\* From e bits to n: zero stays zero, infinity infinity, and what is too large
\* becomes infinity.  What is too small is cut to n bits like any other value.
ConvertExponent(exponent, e, n) ==
    IF e = n \/ exponent = 0 THEN exponent
    ELSE IF n >= e /\ exponent = ExponentMask(e) THEN ExponentMask(n)
    ELSE IF n < e /\ ActualValue(exponent, e) >= ActualValue(ExponentMask(n), n)
         THEN ExponentMask(n)
    ELSE (ActualValue(exponent, e) + ExponentZero(n)) % Pow2[n]

ConvertMantissa(mantissa, m, n) ==
    IF n >= m THEN mantissa * Pow2[n - m] ELSE mantissa \div Pow2[m - n]

BitsToMantissa(f, bits) == bits % Pow2[f.m]
BitsToExponent(f, bits) == (bits \div Pow2[f.m]) % Pow2[f.e]
BitsToSign(f, bits) == f.s /\ bits \div Pow2[f.m + f.e] = 1

IsInf(f, bits) == BitsToExponent(f, bits) = ExponentMask(f.e) /\ BitsToMantissa(f, bits) = 0
IsNan(f, bits) == BitsToExponent(f, bits) = ExponentMask(f.e) /\ BitsToMantissa(f, bits) # 0

ComponentsToBits(f, mantissa, exponent, sign) ==
    mantissa + (exponent * Pow2[f.m]) + (IF f.s /\ sign THEN Pow2[f.m + f.e] ELSE 0)

\* Mutant: infinities and NaNs that were there before count too.
OverflowedOrInfinite(e, n, old, new) == n < e /\ new = ExponentMask(n)

Overflowed(e, n, old, new) == n < e /\ new = ExponentMask(n) /\ old # ExponentMask(e)

\* A negative number becomes zero in a format without a sign.  A number that
\* becomes infinity leaves its mantissa behind.
BitsToBits(f, g, bits) ==
    LET old == BitsToExponent(f, bits)
        new == ConvertExponent(old, f.e, g.e)
        mantissa == IF Overflowed(f.e, g.e, old, new) THEN 0
                    ELSE ConvertMantissa(BitsToMantissa(f, bits), f.m, g.m)
    IN  IF f = g THEN bits
        ELSE IF BitsToSign(f, bits) /\ ~g.s THEN 0
        ELSE ComponentsToBits(g, mantissa, new, BitsToSign(f, bits))

\* numeric_limits::min and max.
MinBits(f) == ComponentsToBits(f, 0, 1, FALSE)
MaxBits(f) == ComponentsToBits(f, Pow2[f.m] - 1, ExponentMask(f.e) - 1, FALSE)

BitsOf(f) == 0..(Pow2[f.m + f.e + (IF f.s THEN 1 ELSE 0)] - 1)

Convert(f, g, bits) ==
    conversion' = [op |-> "convert", from |-> f, to |-> g, bits |-> bits,
                   result |-> BitsToBits(f, g, bits)]

Next ==
    /\ conversion.op = "none"
    /\ \E f, g \in Formats : \E bits \in BitsOf(f) : Convert(f, g, bits)

Spec == Init /\ [][Next]_conversion
-----------------------------------------------------------------------------
(* Properties.                                                             *)

IsNormal(f, bits) == BitsToExponent(f, bits) \notin {0, ExponentMask(f.e)}
Positive(f, bits) == ~BitsToSign(f, bits)

\* The magnitude of a finite number, in units of 2^-Scale; with an exponent of
\* zero the mantissa has no leading one.
Magnitude(f, bits) ==
    LET exponent == BitsToExponent(f, bits)
    IN  IF exponent = 0 THEN BitsToMantissa(f, bits) * Pow2[Scale - f.m + 1 - ExponentZero(f.e)]
        ELSE (Pow2[f.m] + BitsToMantissa(f, bits)) * Pow2[Scale - f.m + ActualValue(exponent, f.e)]

\* What the last bit of the mantissa of the largest number is worth.
LastUnit(f) == Pow2[Scale - f.m + ActualValue(ExponentMask(f.e) - 1, f.e)]

\* The reference for a conversion of x: of the normal numbers of the format the
\* one nearest to x on the side of zero.
Truncated(g, x) ==
    LET numbers == {Magnitude(g, b) : b \in {b \in BitsOf(g) : IsNormal(g, b)}}
    IN  CHOOSE y \in numbers : y <= x /\ \A z \in numbers : z <= x => z <= y

Representable(f, g, bits) == Positive(f, bits) \/ g.s

\* A number that is not too small for the new format is truncated to it, or
\* becomes infinite if it is as large as the first power of two behind the
\* largest number there, and keeps its sign.
TruncatesNormalNumbers ==
    conversion.op # "none" =>
        LET f == conversion.from  g == conversion.to
            bits == conversion.bits  result == conversion.result
            x == Magnitude(f, bits)
        IN  IsNormal(f, bits) /\ Representable(f, g, bits) /\ x >= Magnitude(g, MinBits(g)) =>
              /\ BitsToSign(f, bits) = BitsToSign(g, result)
              /\ IF x >= Magnitude(g, MaxBits(g)) + LastUnit(g) THEN IsInf(g, result)
                 ELSE Magnitude(g, result) = Truncated(g, x)

\* A number put into a format at least as wide in every part, and back, is the
\* same number: no infinity, NaN, zero or subnormal number is lost on the way.
Wider(f, g) == g.m >= f.m /\ g.e >= f.e /\ (f.s => g.s)
WideningIsLossless ==
    conversion.op # "none" /\ Wider(conversion.from, conversion.to) =>
        LET f == conversion.from  g == conversion.to  bits == conversion.bits
        IN  /\ BitsToBits(g, f, conversion.result) = bits
            /\ IsInf(f, bits) <=> IsInf(g, conversion.result)
            /\ IsNan(f, bits) <=> IsNan(g, conversion.result)
=============================================================================
