---------------------------- MODULE RemapStatic ----------------------------
(***************************************************************************)
(* remap_static on integers (math/interpolation.hpp): a constant range of  *)
(* one integer type onto a constant range of another, without floating     *)
(* point.  A type is [w, signed]: bits, and whether it has a sign.  The    *)
(* static assertions decide which instantiations exist.                    *)
(***************************************************************************)
EXTENDS Powers

CONSTANTS
    Types,      \* the integer types
    Largest     \* the bits of the largest ones, 64

VARIABLE remap      \* an instantiation of remap_static

Init == remap = [op |-> "none"]
-----------------------------------------------------------------------------
Unsigned(v, w) == v % Pow2[w]
Typed(v, type) ==
    LET u == Unsigned(v, type.w)
    IN  IF type.signed /\ u >= Pow2[type.w - 1] THEN u - Pow2[type.w] ELSE u

ValuesOf(type) ==
    IF type.signed THEN (-(Pow2[type.w - 1]))..(Pow2[type.w - 1] - 1) ELSE 0..(Pow2[type.w] - 1)

WillOverflowMul(a, b, w) == a # 0 /\ Unsigned(a * b, w) \div a # b
WillOverflowAdd(a, b, w) == Unsigned(a + b, w) < a

HasLargerVersion(w) == w < Largest
LargerVersion(w) == 2 * w

Gcd(a, b) == CHOOSE d \in 1..a : /\ a % d = 0 /\ b % d = 0
                                 /\ \A e \in (d + 1)..a : a % e # 0 \/ b % e # 0

\* The constants of an instantiation r.
Extent(min, max, type) == Unsigned(max - min, type.w)
SrcRange(r) == Extent(r.srcMin, r.srcMax, r.src)
DestRange(r) == Extent(r.destMin, r.destMax, r.dest)
Num(r) == DestRange(r) \div r.gcd
Den(r) == SrcRange(r) \div r.gcd
Whole(r) == Num(r) \div Den(r)
Frac(r) == Num(r) % Den(r)
HalfDen(r) == (Den(r) \div 2) - 1
CommonWidth(r) == IF r.src.w > r.dest.w THEN r.src.w ELSE r.dest.w

FracWidth(r) ==
    IF HasLargerVersion(CommonWidth(r)) THEN LargerVersion(CommonWidth(r)) ELSE CommonWidth(r)

\* 128 bits, if the compiler has them, where nothing smaller holds the product.
In128(r) ==
    /\ r.has128 /\ ~HasLargerVersion(CommonWidth(r))
    /\ WillOverflowMul(SrcRange(r), Frac(r), CommonWidth(r))

Exists(r) ==
    /\ ~WillOverflowMul(SrcRange(r), Whole(r), CommonWidth(r))
    /\ In128(r) \/ ~WillOverflowMul(SrcRange(r), Frac(r), FracWidth(r))

\* Mutant: the sum is taken for one that fits.
FastRounding(r, frac) == Unsigned(frac + HalfDen(r), FracWidth(r)) \div Den(r)

\* frac / den rounded; where the sum would not fit and there is nothing wider,
\* by the remainder.
Rounded(r, frac) ==
    IF \/ In128(r) \/ HasLargerVersion(FracWidth(r))
       \/ ~WillOverflowAdd(SrcRange(r) * Frac(r), HalfDen(r), FracWidth(r))
    THEN (frac + HalfDen(r)) \div Den(r)
    ELSE (frac \div Den(r))
           + (IF frac % Den(r) > (Den(r) \div 2) + (Den(r) % 2) THEN 1 ELSE 0)

Remapped(r, value) ==
    LET offset == Unsigned(value - r.srcMin, r.src.w)
        whole == offset * Whole(r)
        result == whole + (IF Den(r) = 1 THEN 0 ELSE Rounded(r, offset * Frac(r)))
    IN  IF r.srcMin = r.destMin /\ r.srcMax = r.destMax THEN value
        ELSE Typed(Unsigned(result, r.dest.w) + r.destMin, r.dest)

Instantiate ==
    /\ remap.op = "none"
    /\ \E src, dest \in Types, has128 \in BOOLEAN :
       \E srcMin, srcMax \in ValuesOf(src), destMin, destMax \in ValuesOf(dest) :
          /\ srcMin < srcMax /\ destMin < destMax
          /\ remap' = [op |-> "remap", src |-> src, dest |-> dest, has128 |-> has128,
                       srcMin |-> srcMin, srcMax |-> srcMax, destMin |-> destMin, destMax |-> destMax,
                       gcd |-> Gcd(Extent(destMin, destMax, dest), Extent(srcMin, srcMax, src))]
          /\ Exists(remap')

Next == Instantiate

Spec == Init /\ [][Next]_remap
-----------------------------------------------------------------------------
\* Every instantiation is a straight line between the ranges: the ends arrive
\* at the ends, no value is off by as much as one, and larger values do not
\* become smaller ones, in whichever width and with whichever rounding the
\* fraction is computed.
RemapsLinearly ==
    remap.op # "none" =>
        LET r == remap
            at == [v \in r.srcMin..r.srcMax |-> Remapped(r, v)]
            Error(v) == ((at[v] - r.destMin) * SrcRange(r)) - ((v - r.srcMin) * DestRange(r))
        IN  /\ at[r.srcMin] = r.destMin /\ at[r.srcMax] = r.destMax
            /\ \A v \in r.srcMin..r.srcMax :
                 /\ -SrcRange(r) < Error(v) /\ Error(v) < SrcRange(r)
                 /\ v > r.srcMin => at[v - 1] <= at[v]
=============================================================================
