--------------------------- MODULE Numbers_proofs ---------------------------
(***************************************************************************)
(* Proofs about uint128, remap_static, bit_float and bit_copy. Of uint128, *)
(* for words of any even number of bits: two words and the carries and     *)
(* borrows between them compute what the operators of numbers of twice the *)
(* width compute, and compare as those do. Of remap_static, for integers   *)
(* of any number of bits: whichever way the fraction is rounded, the       *)
(* remapped value is less than one from the line through the ends, meets   *)
(* it there, and never goes back. Of bit_float, for formats of any widths: *)
(* a conversion truncates to the nearest number of the new format on the   *)
(* side of zero, or becomes infinite, and into a wider format and back     *)
(* loses nothing. Of bit_copy, for bytes, objects and arrays of any sizes: *)
(* into a destination that begins with an object, or from one object into  *)
(* one, the bits of the source arrive where they should and no others are  *)
(* lost than the mode says.                                                *)
(***************************************************************************)
EXTENDS MCLibrary, Induction_proofs

-----------------------------------------------------------------------------
(* Numbers.                                                                *)

\* Quotient and remainder are the only ones.
LEMMA Division ==
    ASSUME NEW a \in Int, NEW d \in Nat \ {0}, NEW q \in Int, NEW r \in 0..(d - 1), a = (d * q) + r
    PROVE  a \div d = q /\ a % d = r
OBVIOUS

\* What they are.
LEMMA DivMod ==
    ASSUME NEW a \in Int, NEW d \in Nat \ {0}
    PROVE  a \div d \in Int /\ a % d \in 0..(d - 1) /\ a = (d * (a \div d)) + (a % d)
OBVIOUS

\* A quotient of numbers from zero on is one.
LEMMA DivNat ==
    ASSUME NEW a \in Nat, NEW d \in Nat \ {0}
    PROVE  a \div d \in Nat
OBVIOUS

\* What the lower part of a sum has too much goes to the higher one.
LEMMA CarryOver ==
    ASSUME NEW h \in Int, NEW k \in Int, NEW w \in Int, NEW l \in Int, NEW s \in Int, NEW y \in Int,
           l + y = (k * w) + s
    PROVE  ((h * w) + l) + y = ((h + k) * w) + s
<1>1. (h + k) * w = (h * w) + (k * w)
  OBVIOUS
<1> QED
  BY <1>1

\* And what it lacks comes from there.
LEMMA BorrowFrom ==
    ASSUME NEW h \in Int, NEW k \in Int, NEW w \in Int, NEW l \in Int, NEW s \in Int, NEW y \in Int,
           l - y = s - (k * w)
    PROVE  ((h * w) + l) - y = ((h - k) * w) + s
<1>1. (h - k) * w = (h * w) - (k * w)
  OBVIOUS
<1> QED
  BY <1>1

\* The powers of two.
LEMMA PowersOfTwo ==
    /\ Pow2 \in [Nat -> Nat \ {0}] /\ Pow2[0] = 1
    /\ \A k \in Nat \ {0} : Pow2[k] = 2 * Pow2[k - 1]
<1> DEFINE doubled == [t \in Nat \ {0} |-> 2 * t]
           step == [k \in Nat |-> doubled]
<1>1. doubled \in [Nat \ {0} -> Nat \ {0}]
  OBVIOUS
<1>2. \A k \in Nat : step[k] \in [Nat \ {0} -> Nat \ {0}]
  BY <1>1
<1>3. \E f : IteratesForever(Nat \ {0}, 1, step, f)
  <2> DEFINE T == Nat \ {0}
  <2>1. 1 \in T /\ \A k \in Nat : step[k] \in [T -> T]
    BY <1>2
  <2> HIDE DEF step, T
  <2>2. \E f : IteratesForever(T, 1, step, f)
    BY <2>1, Recursion
  <2> QED
    BY <2>2 DEF T
<1>4. PICK f \in [Nat -> Nat \ {0}] : f[0] = 1 /\ \A k \in Nat \ {0} : f[k] = step[k][f[k - 1]]
  BY <1>3 DEF IteratesForever
<1>5. \A k \in Nat \ {0} : f[k] = 2 * f[k - 1]
  <2> TAKE k \in Nat \ {0}
  <2>1. f[k - 1] \in Nat \ {0} /\ step[k] = doubled
    OBVIOUS
  <2> QED
    BY <1>4, <2>1
<1>6. f = [k \in Nat |-> IF k = 0 THEN 1 ELSE 2 * f[k - 1]]
  BY <1>4, <1>5
<1>7. Pow2 = [k \in Nat |-> IF k = 0 THEN 1 ELSE 2 * Pow2[k - 1]]
  BY <1>6 DEF Pow2
<1>8. f = Pow2
  <2> DEFINE S == {k \in Nat : f[k] = Pow2[k]}
  <2>1. 0 \in S
    BY <1>4, <1>7
  <2>2. ASSUME NEW k \in Nat, k \in S PROVE k + 1 \in S
    <3>1. k + 1 \in Nat /\ k + 1 # 0 /\ (k + 1) - 1 = k
      OBVIOUS
    <3>2. f[k + 1] = 2 * f[k] /\ Pow2[k + 1] = 2 * Pow2[k]
      BY <1>5, <1>7, <3>1
    <3> QED
      BY <2>2, <3>2
  <2> HIDE DEF S
  <2>3. Nat \subseteq S
    BY <2>1, <2>2, InductionOnSet
  <2>4. \A k \in Nat : f[k] = Pow2[k]
    BY <2>3 DEF S
  <2> QED
    BY <1>4, <1>7, <2>4
<1> QED
  BY <1>4, <1>5, <1>8

\* Powers of a sum are products.
LEMMA PowerOfSum ==
    ASSUME NEW a \in Nat, NEW b \in Nat
    PROVE  Pow2[a + b] = Pow2[a] * Pow2[b]
<1> DEFINE S == {k \in Nat : Pow2[a + k] = Pow2[a] * Pow2[k]}
<1>1. 0 \in S
  <2>1. Pow2[a] \in Nat /\ a + 0 = a
    BY PowersOfTwo
  <2> QED
    BY <2>1, PowersOfTwo
<1>2. ASSUME NEW k \in Nat, k \in S PROVE k + 1 \in S
  <2>1. k + 1 \in Nat \ {0} /\ (k + 1) - 1 = k /\ a + (k + 1) \in Nat \ {0} /\ (a + (k + 1)) - 1 = a + k
    OBVIOUS
  <2>2. Pow2[a + (k + 1)] = 2 * Pow2[a + k] /\ Pow2[k + 1] = 2 * Pow2[k]
    BY <2>1, PowersOfTwo
  <2>3. Pow2[a] \in Nat /\ Pow2[k] \in Nat
    BY PowersOfTwo
  <2>4. 2 * (Pow2[a] * Pow2[k]) = Pow2[a] * (2 * Pow2[k])
    BY <2>3
  <2> QED
    BY <1>2, <2>1, <2>2, <2>4
<1> HIDE DEF S
<1>3. Nat \subseteq S
  BY <1>1, <1>2, InductionOnSet
<1> QED
  BY <1>3 DEF S

\* A word is what WordBits bits hold, and a number what two words hold.
LEMMA WordPowers ==
    /\ Word \in Nat \ {0, 1} /\ Half \in Nat \ {0, 1} /\ WordBits \in Nat \ {0, 1}
    /\ Word = Pow2[WordBits] /\ Word * Word = Pow2[2 * WordBits] /\ Word * Word \in Nat \ {0}
    /\ TopBit = Pow2[WordBits - 1] /\ Word = 2 * TopBit /\ TopBit \in Nat \ {0}
<1>1. HalfBits \in Nat /\ HalfBits - 1 \in Nat /\ HalfBits # 0 /\ Half = Pow2[HalfBits]
  BY HalfBitsAssumption
<1>2. Half = 2 * Pow2[HalfBits - 1] /\ Pow2[HalfBits - 1] \in Nat \ {0}
  BY <1>1, PowersOfTwo
<1>3. Half \in Nat \ {0, 1}
  BY <1>2
<1>4. WordBits \in Nat \ {0, 1} /\ WordBits = HalfBits + HalfBits /\ 2 * WordBits = WordBits + WordBits
  BY <1>1 DEF WordBits
<1>5. Word = Pow2[WordBits]
  BY <1>1, <1>4, PowerOfSum DEF Word
<1>6. Word \in Nat \ {0, 1}
  BY <1>3 DEF Word
<1>7. Word * Word = Pow2[2 * WordBits] /\ Word * Word \in Nat \ {0}
  <2>1. Pow2[WordBits + WordBits] = Pow2[WordBits] * Pow2[WordBits]
    BY <1>4, PowerOfSum
  <2>2. Word * Word \in Nat \ {0}
    BY <1>6
  <2> QED
    BY <1>4, <1>5, <2>1, <2>2
<1>8. Word = 2 * Pow2[WordBits - 1] /\ Pow2[WordBits - 1] \in Nat \ {0}
  BY <1>4, <1>5, PowersOfTwo
<1>9. TopBit = Pow2[WordBits - 1]
  BY <1>8 DEF TopBit
<1> QED
  BY <1>3, <1>4, <1>5, <1>6, <1>7, <1>8, <1>9
-----------------------------------------------------------------------------
(* Pairs of words.                                                         *)

\* A pair of words is a number of twice their width.
LEMMA WordPairs ==
    ASSUME NEW u \in UInts
    PROVE  /\ u.low \in Nat /\ u.high \in Nat /\ u.low < Word /\ u.high < Word
           /\ AsNumber(u) = (u.high * Word) + u.low /\ AsNumber(u) \in Nat
           /\ AsNumber(u) \in 0..((Word * Word) - 1)
<1>1. u.low \in Nat /\ u.high \in Nat /\ u.low <= Word - 1 /\ u.high <= Word - 1 /\ Word \in Nat
  BY WordPowers DEF UInts, Words
<1>2. AsNumber(u) = (u.high * Word) + u.low
  BY DEF AsNumber
<1>3. u.high * Word <= (Word - 1) * Word /\ u.high * Word \in Nat
  BY <1>1
<1>4. (Word - 1) * Word = (Word * Word) - Word
  BY <1>1
<1> QED
  BY <1>1, <1>2, <1>3, <1>4

\* A pair that is cut to the width of its words is cut like a number.
LEMMA PairIsNumber ==
    ASSUME NEW low \in Int, NEW high \in Int, NEW x \in Int, x = (high * Word) + (low % Word)
    PROVE  UInt(low, high) \in UInts /\ AsNumber(UInt(low, high)) = x % (Word * Word)
<1> DEFINE W == Word
<1>1. W \in Nat \ {0} /\ W * W \in Nat \ {0}
  BY WordPowers
<1> HIDE DEF W
<1>2. /\ high = (W * (high \div W)) + (high % W) /\ high \div W \in Int
      /\ high % W \in 0..(W - 1) /\ low % W \in 0..(W - 1)
  BY <1>1, DivMod
<1>3. UInt(low, high) = [low |-> low % W, high |-> high % W]
  BY DEF UInt, W
<1>4. UInt(low, high) \in UInts
  BY <1>2, <1>3 DEF UInts, Words, W
<1>5. AsNumber(UInt(low, high)) = ((high % W) * W) + (low % W)
  BY <1>3 DEF AsNumber, W
<1> DEFINE q == high \div W
           r == ((high % W) * W) + (low % W)
<1>6. x = ((W * W) * q) + r
  <2> DEFINE h == high % W
  <2>1. x = (((W * q) + h) * W) + (low % W)
    BY <1>2 DEF W
  <2>2. h \in Int /\ q \in Int
    BY <1>2
  <2> HIDE DEF h, q
  <2>3. ((W * q) + h) * W = ((W * W) * q) + (h * W)
    BY <1>1, <2>2
  <2>4. (h * W) \in Int /\ (W * W) * q \in Int /\ low % W \in Int
    BY <1>1, <1>2, <2>2
  <2>5. x = ((W * W) * q) + ((h * W) + (low % W))
    BY <2>1, <2>3, <2>4
  <2> QED
    BY <2>5 DEF h
<1>7. r \in 0..((W * W) - 1)
  <2> DEFINE h == high % W
             l == low % W
  <2>1. h \in Nat /\ l \in Nat /\ h <= W - 1 /\ l <= W - 1
    BY <1>1, <1>2
  <2> HIDE DEF h, l
  <2>2. h * W <= (W - 1) * W /\ h * W \in Nat /\ (W - 1) * W = (W * W) - W
    BY <1>1, <2>1
  <2>3. (h * W) + l \in 0..((W * W) - 1)
    BY <1>1, <2>1, <2>2
  <2> QED
    BY <2>3 DEF h, l
<1>8. q \in Int
  BY <1>2
<1> HIDE DEF q, r
<1>9. x % (W * W) = r
  BY <1>1, <1>6, <1>7, <1>8, Division
<1> QED
  BY <1>4, <1>5, <1>9 DEF r, W
\* What is at most one word too large or too small comes round once.
LEMMA RoundOnce ==
    ASSUME NEW a \in Int
    PROVE  /\ a >= 0 /\ a < Word => a % Word = a
           /\ a >= Word /\ a < Word + Word => a % Word = a - Word
           /\ a < 0 /\ a >= -Word => a % Word = a + Word
<1>1. Word \in Nat \ {0}
  BY WordPowers
<1>2. ASSUME a >= 0, a < Word PROVE a % Word = a
  <2>1. a = (Word * 0) + a /\ a \in 0..(Word - 1)
    BY <1>1, <1>2
  <2> QED
    BY <1>1, <2>1, Division
<1>3. ASSUME a >= Word, a < Word + Word PROVE a % Word = a - Word
  <2>1. a = (Word * 1) + (a - Word) /\ a - Word \in 0..(Word - 1)
    BY <1>1, <1>3
  <2> QED
    BY <1>1, <2>1, Division
<1>4. ASSUME a < 0, a >= -Word PROVE a % Word = a + Word
  <2>1. a = (Word * (-1)) + (a + Word) /\ a + Word \in 0..(Word - 1)
    BY <1>1, <1>4
  <2> QED
    BY <1>1, <2>1, Division
<1> QED
  BY <1>2, <1>3, <1>4
-----------------------------------------------------------------------------
(* The operators.                                                          *)

\* A carry is a number.
LEMMA Carries ==
    ASSUME NEW b
    PROVE  Carry(b) = (IF b THEN 1 ELSE 0) /\ Carry(b) \in {0, 1}
BY DEF Carry

\* ++ carries when the low word comes round to zero.
LEMMA IncrementedIsNext ==
    ASSUME NEW u \in UInts
    PROVE  Incremented(u) \in UInts /\ AsNumber(Incremented(u)) = (AsNumber(u) + 1) % (Word * Word)
<1> DEFINE sum == (u.low + 1) % Word
           carry == Carry(sum = 0)
<1>1. /\ u.low \in Nat /\ u.high \in Nat /\ u.low < Word /\ Word \in Nat \ {0, 1}
      /\ AsNumber(u) = (u.high * Word) + u.low /\ AsNumber(u) \in Int
  BY WordPairs, WordPowers
<1>2. /\ u.low + 1 < Word => sum = u.low + 1
      /\ u.low + 1 = Word => sum = 0
  <2>1. ASSUME u.low + 1 < Word PROVE sum = u.low + 1
    BY <1>1, <2>1, RoundOnce
  <2>2. ASSUME u.low + 1 = Word PROVE sum = 0
    BY <1>1, <2>2, RoundOnce
  <2> QED
    BY <2>1, <2>2
<1> HIDE DEF sum
<1>3. carry = (IF sum = 0 THEN 1 ELSE 0) /\ carry \in {0, 1}
  BY Carries
<1>4. u.low + 1 = (carry * Word) + sum
  BY <1>1, <1>2, <1>3
<1> HIDE DEF carry
<1>5. sum \in Int
  BY <1>1, <1>2
<1>6. AsNumber(u) + 1 = ((u.high + carry) * Word) + sum
  BY <1>1, <1>3, <1>4, <1>5, CarryOver
<1>7. /\ UInt(u.low + 1, u.high + carry) \in UInts
      /\ AsNumber(UInt(u.low + 1, u.high + carry)) = (AsNumber(u) + 1) % (Word * Word)
  BY <1>1, <1>3, <1>5, <1>6, PairIsNumber DEF sum
<1> QED
  BY <1>7 DEF Incremented, carry, sum

\* += of a word carries when the sum is smaller than what it was added to.
LEMMA PlusAdds ==
    ASSUME NEW u \in UInts, NEW r \in Words
    PROVE  Plus(u, r) \in UInts /\ AsNumber(Plus(u, r)) = (AsNumber(u) + r) % (Word * Word)
<1> DEFINE sum == (u.low + r) % Word
           carry == Carry(sum < u.low)
<1>1. /\ u.low \in Nat /\ u.high \in Nat /\ u.low < Word /\ Word \in Nat \ {0, 1}
      /\ AsNumber(u) = (u.high * Word) + u.low /\ AsNumber(u) \in Int /\ r \in Nat /\ r < Word
  BY WordPairs, WordPowers DEF Words
<1>2. /\ u.low + r < Word => sum = u.low + r
      /\ ~(u.low + r < Word) => sum = (u.low + r) - Word
  <2>1. ASSUME u.low + r < Word PROVE sum = u.low + r
    BY <1>1, <2>1, RoundOnce
  <2>2. ASSUME ~(u.low + r < Word) PROVE sum = (u.low + r) - Word
    BY <1>1, <2>2, RoundOnce
  <2> QED
    BY <2>1, <2>2
<1> HIDE DEF sum
<1>3. carry = (IF sum < u.low THEN 1 ELSE 0) /\ carry \in {0, 1}
  BY Carries
<1>4. u.low + r = (carry * Word) + sum /\ sum \in Nat /\ sum < Word
  BY <1>1, <1>2, <1>3
<1> HIDE DEF carry
<1>6. AsNumber(u) + r = ((u.high + carry) * Word) + sum
  BY <1>1, <1>3, <1>4, CarryOver
<1>7. sum % Word = sum
  BY <1>1, <1>4, RoundOnce
<1>8. /\ UInt(sum, u.high + carry) \in UInts
      /\ AsNumber(UInt(sum, u.high + carry)) = (AsNumber(u) + r) % (Word * Word)
  BY <1>1, <1>3, <1>4, <1>6, <1>7, PairIsNumber
<1> QED
  BY <1>8 DEF Plus, carry, sum

\* The low words of a difference, and what is borrowed.
LEMMA LowDifference ==
    ASSUME NEW a \in Words, NEW b \in Words
    PROVE  LET low == (a - b) % Word
               borrow == Carry(low > a)
           IN  low \in Words /\ low % Word = low /\ borrow \in {0, 1} /\ a - b = low - (borrow * Word)
<1> DEFINE low == (a - b) % Word
           borrow == Carry(low > a)
<1>1. a \in Nat /\ a < Word /\ b \in Nat /\ b < Word /\ Word \in Nat \ {0, 1}
  BY WordPowers DEF Words
<1>2. /\ a >= b => low = a - b
      /\ ~(a >= b) => low = (a - b) + Word
  <2>1. ASSUME a >= b PROVE low = a - b
    BY <1>1, <2>1, RoundOnce
  <2>2. ASSUME ~(a >= b) PROVE low = (a - b) + Word
    BY <1>1, <2>2, RoundOnce
  <2> QED
    BY <2>1, <2>2
<1> HIDE DEF low
<1>3. borrow = (IF low > a THEN 1 ELSE 0) /\ borrow \in {0, 1}
  BY Carries
<1>4. low \in Words /\ a - b = low - (borrow * Word)
  BY <1>1, <1>2, <1>3 DEF Words
<1>5. low % Word = low
  BY <1>1, <1>4, RoundOnce DEF Words
<1> QED
  BY <1>3, <1>4, <1>5 DEF low

\* -= of a word.
LEMMA MinusWordSubtracts ==
    ASSUME NEW u \in UInts, NEW r \in Words
    PROVE  MinusWord(u, r) \in UInts /\ AsNumber(MinusWord(u, r)) = (AsNumber(u) - r) % (Word * Word)
<1> DEFINE low == (u.low - r) % Word
           borrow == Carry(low > u.low)
<1>1. /\ u.low \in Words /\ u.low \in Nat /\ u.high \in Nat /\ Word \in Nat \ {0, 1}
      /\ AsNumber(u) = (u.high * Word) + u.low /\ AsNumber(u) \in Int /\ r \in Nat
  BY WordPairs, WordPowers DEF Words, UInts
<1>2. low \in Words /\ low % Word = low /\ borrow \in {0, 1} /\ u.low - r = low - (borrow * Word)
  BY <1>1, LowDifference
<1> HIDE DEF low, borrow
<1>3. low \in Int
  BY <1>1, <1>2 DEF Words
<1>4. AsNumber(u) - r = ((u.high - borrow) * Word) + low
  BY <1>1, <1>2, <1>3, BorrowFrom
<1>5. /\ UInt(low, u.high - borrow) \in UInts
      /\ AsNumber(UInt(low, u.high - borrow)) = (AsNumber(u) - r) % (Word * Word)
  BY <1>1, <1>2, <1>3, <1>4, PairIsNumber
<1> QED
  BY <1>5 DEF MinusWord, borrow, low

\* -= of a pair.
LEMMA MinusSubtracts ==
    ASSUME NEW u \in UInts, NEW v \in UInts
    PROVE  Minus(u, v) \in UInts /\ AsNumber(Minus(u, v)) = (AsNumber(u) - AsNumber(v)) % (Word * Word)
<1> DEFINE low == (u.low - v.low) % Word
           borrow == Carry(low > u.low)
<1>1. /\ u.low \in Words /\ u.low \in Nat /\ u.high \in Nat /\ Word \in Nat \ {0, 1}
      /\ AsNumber(u) = (u.high * Word) + u.low
      /\ v.low \in Words /\ v.low \in Nat /\ v.high \in Nat
      /\ AsNumber(v) = (v.high * Word) + v.low /\ AsNumber(v) \in Int /\ AsNumber(u) \in Int
  BY WordPairs, WordPowers DEF UInts
<1>2. low \in Words /\ low % Word = low /\ borrow \in {0, 1} /\ u.low - v.low = low - (borrow * Word)
  BY <1>1, LowDifference
<1> HIDE DEF low, borrow
<1>3. low \in Int
  BY <1>1, <1>2 DEF Words
<1>4. AsNumber(u) - AsNumber(v) = (((u.high - v.high) - borrow) * Word) + low
  <2>1. (((u.high - v.high) * Word) + u.low) - v.low = (((u.high - v.high) - borrow) * Word) + low
    <3>1. u.high - v.high \in Int /\ borrow \in Int
      BY <1>1, <1>2
    <3> QED
      BY <1>1, <1>2, <1>3, <3>1, BorrowFrom
  <2>2. (u.high - v.high) * Word = (u.high * Word) - (v.high * Word)
    BY <1>1
  <2>3. u.high * Word \in Int /\ v.high * Word \in Int
    BY <1>1
  <2> QED
    BY <1>1, <2>1, <2>2, <2>3
<1>5. /\ UInt(low, (u.high - v.high) - borrow) \in UInts
      /\ AsNumber(UInt(low, (u.high - v.high) - borrow)) = (AsNumber(u) - AsNumber(v)) % (Word * Word)
  BY <1>1, <1>2, <1>3, <1>4, PairIsNumber
<1> QED
  BY <1>5 DEF Minus, borrow, low

\* The product of two numbers of two halves, by the products of the halves.
LEMMA ProductOfHalves ==
    ASSUME NEW h \in Int, NEW a1 \in Int, NEW a0 \in Int, NEW b1 \in Int, NEW b0 \in Int,
           NEW x \in Int, NEW x0 \in Int, NEW y \in Int, NEW y0 \in Int, NEW z \in Int, NEW z0 \in Int,
           NEW c \in Int, NEW c0 \in Int,
           a1 * b0 = (h * x) + x0, b1 * a0 = (h * y) + y0, a0 * b0 = (h * z) + z0,
           x0 + y0 + z = (h * c) + c0
    PROVE  ((h * a1) + a0) * ((h * b1) + b0)
             = ((h * h) * ((a1 * b1) + x + y + c)) + ((h * c0) + z0)
<1>1. ((h * a1) + a0) * ((h * b1) + b0)
        = ((h * h) * (a1 * b1)) + (h * (a1 * b0)) + (h * (b1 * a0)) + (a0 * b0)
  OBVIOUS
<1>2. h * (a1 * b0) = ((h * h) * x) + (h * x0)
  <2>1. h * ((h * x) + x0) = ((h * h) * x) + (h * x0)
    OBVIOUS
  <2> QED
    BY <2>1
<1>3. h * (b1 * a0) = ((h * h) * y) + (h * y0)
  <2>1. h * ((h * y) + y0) = ((h * h) * y) + (h * y0)
    OBVIOUS
  <2> QED
    BY <2>1
<1>4. (h * x0) + (h * y0) + (h * z) = ((h * h) * c) + (h * c0)
  <2>1. (h * x0) + (h * y0) + (h * z) = h * (x0 + y0 + z)
    OBVIOUS
  <2>2. h * ((h * c) + c0) = ((h * h) * c) + (h * c0)
    OBVIOUS
  <2> QED
    BY <2>1, <2>2
<1>5. (h * h) * ((a1 * b1) + x + y + c)
        = ((h * h) * (a1 * b1)) + ((h * h) * x) + ((h * h) * y) + ((h * h) * c)
  OBVIOUS
<1> DEFINE p1 == (h * h) * (a1 * b1)
           p2 == (h * h) * x
           p3 == (h * h) * y
           p4 == (h * h) * c
           q1 == h * x0
           q2 == h * y0
           q3 == h * z
           q4 == h * c0
<1>6. /\ p1 \in Int /\ p2 \in Int /\ p3 \in Int /\ p4 \in Int
      /\ q1 \in Int /\ q2 \in Int /\ q3 \in Int /\ q4 \in Int
  OBVIOUS
<1>7. ((h * a1) + a0) * ((h * b1) + b0) = p1 + (p2 + q1) + (p3 + q2) + (q3 + z0)
  BY <1>1, <1>2, <1>3
<1>8. q1 + q2 + q3 = p4 + q4
  BY <1>4
<1>9. (h * h) * ((a1 * b1) + x + y + c) = p1 + p2 + p3 + p4
  BY <1>5
<1> HIDE DEF p1, p2, p3, p4, q1, q2, q3
<1>10. p1 + (p2 + q1) + (p3 + q2) + (q3 + z0) = (p1 + p2 + p3 + p4) + (q4 + z0)
  <2> HIDE DEF q4
  <2> QED
    BY <1>6, <1>8
<1> QED
  BY <1>7, <1>9, <1>10

\* Below a product of words are two words.
LEMMA ProductsFit ==
    ASSUME NEW a \in Words, NEW b \in Words
    PROVE  a * b \in 0..((Word * Word) - 1)
<1>1. a \in Nat /\ b \in Nat /\ a <= Word - 1 /\ b <= Word - 1 /\ Word \in Nat \ {0}
  BY WordPowers DEF Words
<1>2. a * b \in Nat /\ a * b <= (Word - 1) * b
  BY <1>1
<1>3. (Word - 1) * b <= (Word - 1) * (Word - 1)
  BY <1>1
<1>4. (Word - 1) * (Word - 1) = ((Word * Word) - Word) - (Word - 1)
  BY <1>1
<1> QED
  BY <1>1, <1>2, <1>3, <1>4

\* from_mul: the four products of the halves, and the carry out of the middle.
LEMMA FromMulMultiplies ==
    ASSUME NEW a \in Words, NEW b \in Words
    PROVE  FromMul(a, b) \in UInts /\ AsNumber(FromMul(a, b)) = (a * b) % (Word * Word)
<1> DEFINE a1 == a \div Half
           a0 == a % Half
           b1 == b \div Half
           b0 == b % Half
           x == (a1 * b0) \div Half
           x0 == (a1 * b0) % Half
           y == (b1 * a0) \div Half
           y0 == (b1 * a0) % Half
           z == (a0 * b0) \div Half
           z0 == (a0 * b0) % Half
           c == (x0 + y0 + z) \div Half
           c0 == (x0 + y0 + z) % Half
<1>1. Half \in Nat \ {0} /\ Word = Half * Half /\ Word \in Nat \ {0} /\ a \in Nat /\ b \in Nat
  BY WordPowers DEF Word, Words
<1>2. /\ a1 \in Int /\ a0 \in Int /\ a = (Half * a1) + a0
      /\ b1 \in Int /\ b0 \in Int /\ b = (Half * b1) + b0
  BY <1>1, DivMod
<1> HIDE DEF a1, a0, b1, b0
<1>3. /\ x \in Int /\ x0 \in Int /\ a1 * b0 = (Half * x) + x0
      /\ y \in Int /\ y0 \in Int /\ b1 * a0 = (Half * y) + y0
      /\ z \in Int /\ z0 \in 0..(Half - 1) /\ a0 * b0 = (Half * z) + z0
  <2>1. a1 * b0 \in Int /\ b1 * a0 \in Int /\ a0 * b0 \in Int
    BY <1>2
  <2>2. x \in Int /\ x0 \in 0..(Half - 1) /\ a1 * b0 = (Half * x) + x0
    BY <1>1, <2>1, DivMod
  <2>3. y \in Int /\ y0 \in 0..(Half - 1) /\ b1 * a0 = (Half * y) + y0
    BY <1>1, <2>1, DivMod
  <2>4. z \in Int /\ z0 \in 0..(Half - 1) /\ a0 * b0 = (Half * z) + z0
    BY <1>1, <2>1, DivMod
  <2> QED
    BY <1>1, <2>2, <2>3, <2>4
<1> HIDE DEF x, x0, y, y0, z, z0
<1>4. c \in Int /\ c0 \in 0..(Half - 1) /\ x0 + y0 + z = (Half * c) + c0
  <2>1. x0 + y0 + z \in Int
    BY <1>3
  <2> QED
    BY <1>1, <2>1, DivMod
<1> HIDE DEF c, c0
<1> DEFINE high == (a1 * b1) + x + y + c
           low == (Half * c0) + z0
<1>5. a * b = (Word * high) + low
  BY <1>1, <1>2, <1>3, <1>4, ProductOfHalves
<1>6. high \in Int
  BY <1>2, <1>3, <1>4
<1>7. low \in 0..(Word - 1)
  <2>1. Half * c0 \in Nat /\ Half * c0 <= Half * (Half - 1) /\ Half * (Half - 1) = Word - Half
    BY <1>1, <1>4
  <2> QED
    BY <1>1, <1>3, <1>4, <2>1
<1> HIDE DEF high, low
<1>8. (a * b) % Word = low /\ a * b \in Int
  BY <1>1, <1>5, <1>6, <1>7, Division, SMTT(30)
<1>9. a * b = (high * Word) + ((a * b) % Word)
  BY <1>1, <1>5, <1>6, <1>8
<1>10. UInt(a * b, high) \in UInts /\ AsNumber(UInt(a * b, high)) = (a * b) % (Word * Word)
  BY <1>6, <1>8, <1>9, PairIsNumber
<1> QED
  BY <1>10 DEF FromMul, high, a1, a0, b1, b0, x, x0, y, y0, z, z0, c

\* Multiples do not change a remainder.
LEMMA SameRemainder ==
    ASSUME NEW d \in Nat \ {0}, NEW x \in Int, NEW k \in Int
    PROVE  ((d * k) + x) % d = x % d
<1> DEFINE q == x \div d
           r == x % d
<1>1. q \in Int /\ r \in 0..(d - 1) /\ x = (d * q) + r
  BY DivMod
<1> HIDE DEF q, r
<1>2. (d * k) + x = (d * (k + q)) + r
  <2>1. d * (k + q) = (d * k) + (d * q)
    BY <1>1
  <2> QED
    BY <1>1, <2>1
<1>3. (d * k) + x \in Int /\ k + q \in Int
  BY <1>1
<1> QED
  BY <1>1, <1>2, <1>3, Division DEF r

\* And leave none themselves.
LEMMA MultiplesLeaveNothing ==
    ASSUME NEW d \in Nat \ {0}, NEW k \in Int
    PROVE  (d * k) % d = 0
<1> DEFINE zero == 0
<1>1. d * k = (d * k) + zero /\ zero \in 0..(d - 1) /\ d * k \in Int
  OBVIOUS
<1> HIDE DEF zero
<1>2. (d * k) % d = zero
  BY <1>1, Division
<1> QED
  BY <1>2 DEF zero

\* Nor does it matter when a part of a sum is cut.
LEMMA CutEarly ==
    ASSUME NEW d \in Nat \ {0}, NEW a \in Int, NEW b \in Int
    PROVE  ((a % d) + b) % d = (a + b) % d
<1> DEFINE q == a \div d
           r == a % d
<1>1. q \in Int /\ r \in 0..(d - 1) /\ a = (d * q) + r
  BY DivMod
<1> HIDE DEF q, r
<1>2. a + b = (d * q) + (r + b) /\ r + b \in Int
  BY <1>1
<1>3. (a + b) % d = (r + b) % d
  BY <1>1, <1>2, SameRemainder, ZenonT(60)
<1> QED
  BY <1>3 DEF r

\* Where a word is shifted, what stays in it and what leaves it make it up.
LEMMA ShiftFactors ==
    ASSUME NEW bits \in Nat
    PROVE  /\ Pow2[bits] \in Nat \ {0}
           /\ bits < WordBits => /\ Pow2[WordBits - bits] \in Nat \ {0}
                                 /\ Word = Pow2[bits] * Pow2[WordBits - bits]
           /\ bits >= WordBits => /\ Pow2[bits - WordBits] \in Nat \ {0}
                                  /\ Pow2[bits] = Word * Pow2[bits - WordBits]
           /\ bits >= 2 * WordBits => /\ Pow2[bits - (2 * WordBits)] \in Nat \ {0}
                                      /\ Pow2[bits] = (Word * Word) * Pow2[bits - (2 * WordBits)]
<1>1. Pow2[bits] \in Nat \ {0}
  BY PowersOfTwo
<1>2. WordBits \in Nat /\ 2 * WordBits \in Nat
  BY WordPowers
<1>3. ASSUME bits < WordBits
      PROVE  Pow2[WordBits - bits] \in Nat \ {0} /\ Word = Pow2[bits] * Pow2[WordBits - bits]
  <2>1. WordBits - bits \in Nat /\ bits + (WordBits - bits) = WordBits
    BY <1>2, <1>3
  <2>2. Pow2[bits + (WordBits - bits)] = Pow2[bits] * Pow2[WordBits - bits]
    BY <2>1, PowerOfSum
  <2> QED
    BY <2>1, <2>2, PowersOfTwo, WordPowers
<1>4. ASSUME bits >= WordBits
      PROVE  Pow2[bits - WordBits] \in Nat \ {0} /\ Pow2[bits] = Word * Pow2[bits - WordBits]
  <2>1. bits - WordBits \in Nat /\ WordBits + (bits - WordBits) = bits
    BY <1>2, <1>4
  <2>2. Pow2[WordBits + (bits - WordBits)] = Pow2[WordBits] * Pow2[bits - WordBits]
    BY <1>2, <2>1, PowerOfSum
  <2> QED
    BY <2>1, <2>2, PowersOfTwo, WordPowers
<1>5. ASSUME bits >= 2 * WordBits
      PROVE  /\ Pow2[bits - (2 * WordBits)] \in Nat \ {0}
             /\ Pow2[bits] = (Word * Word) * Pow2[bits - (2 * WordBits)]
  <2>1. bits - (2 * WordBits) \in Nat /\ (2 * WordBits) + (bits - (2 * WordBits)) = bits
    BY <1>2, <1>5
  <2>2. Pow2[(2 * WordBits) + (bits - (2 * WordBits))]
          = Pow2[2 * WordBits] * Pow2[bits - (2 * WordBits)]
    BY <1>2, <2>1, PowerOfSum
  <2> QED
    BY <2>1, <2>2, PowersOfTwo, WordPowers
<1> QED
  BY <1>1, <1>3, <1>4, <1>5

\* Nothing is a pair of zeros.
LEMMA NoNumber ==
    /\ UInt(0, 0) \in UInts /\ AsNumber(UInt(0, 0)) = 0
    /\ 0 % (Word * Word) = 0 /\ 0 % Word = 0
<1>1. Word \in Nat \ {0} /\ Word * Word \in Nat \ {0}
  BY WordPowers
<1>2. 0 % Word = 0 /\ 0 % (Word * Word) = 0
  <2>1. 0 = (Word * 0) + 0 /\ 0 = ((Word * Word) * 0) + 0
    BY <1>1
  <2>2. 0 \in 0..(Word - 1) /\ 0 \in 0..((Word * Word) - 1)
    BY <1>1
  <2> QED
    BY <1>1, <2>1, <2>2, Division
<1>3. 0 = (0 * Word) + (0 % Word)
  BY <1>1, <1>2
<1> QED
  BY <1>2, <1>3, PairIsNumber

\* A number of the range is its own remainder.
LEMMA InRange ==
    ASSUME NEW x \in 0..((Word * Word) - 1)
    PROVE  x % (Word * Word) = x
<1>1. Word * Word \in Nat \ {0}
  BY WordPowers
<1>2. x = ((Word * Word) * 0) + x
  BY <1>1
<1> QED
  BY <1>1, <1>2, Division

\* << : the bits that leave the low word arrive in the high one.
LEMMA ShiftedLeftMultiplies ==
    ASSUME NEW u \in UInts, NEW bits \in Shifts
    PROVE  /\ ShiftedLeft(u, bits) \in UInts
           /\ AsNumber(ShiftedLeft(u, bits)) = (AsNumber(u) * Pow2[bits]) % (Word * Word)
<1> DEFINE l == u.low
           h == u.high
           W == Word
           n == AsNumber(u)
<1>1. /\ l \in Nat /\ h \in Nat /\ l < W /\ h < W /\ n = (h * W) + l /\ n \in 0..((W * W) - 1)
      /\ W \in Nat \ {0} /\ W * W \in Nat \ {0} /\ WordBits \in Nat \ {0} /\ bits \in Nat /\ n \in Int
  BY WordPairs, WordPowers DEF Shifts
<1>2. CASE bits = 0
  <2>1. n * Pow2[bits] = n
    BY <1>1, <1>2, PowersOfTwo
  <2> QED
    BY <1>1, <1>2, <2>1, InRange DEF ShiftedLeft
<1>3. CASE bits >= 2 * WordBits
  <2> DEFINE p == Pow2[bits - (2 * WordBits)]
  <2>1. p \in Nat /\ Pow2[bits] = (W * W) * p
    BY <1>1, <1>3, ShiftFactors
  <2> HIDE DEF n, W, p
  <2> DEFINE k == n * p
             r == W * W
  <2>2. n * Pow2[bits] = r * k /\ k \in Int /\ r \in Nat \ {0}
    BY <1>1, <2>1
  <2> HIDE DEF k, r
  <2>3. (n * Pow2[bits]) % r = 0
    BY <2>2, MultiplesLeaveNothing
  <2>4. ShiftedLeft(u, bits) = UInt(0, 0)
    BY <1>1, <1>3 DEF ShiftedLeft
  <2> QED
    BY <2>3, <2>4, NoNumber DEF n, W, r
<1>4. CASE bits # 0 /\ bits < WordBits
  <2> DEFINE p == Pow2[bits]
             q == Pow2[WordBits - bits]
             s == l \div q
             t == l % q
  <2>1. p \in Nat \ {0} /\ q \in Nat \ {0} /\ W = p * q
    BY <1>1, <1>4, ShiftFactors
  <2>2. ShiftedLeft(u, bits) = UInt(l * p, ((h * p) % W) + s)
    BY <1>1, <1>4 DEF ShiftedLeft
  <2> HIDE DEF n, W, l, h, p, q
  <2>3. s \in Int /\ t \in 0..(q - 1) /\ l = (q * s) + t
    BY <1>1, <2>1, DivMod
  <2> HIDE DEF s, t
  <2>4. (l * p) % W = t * p
    <3>1. l * p = (W * s) + (t * p)
      <4>1. ((q * s) + t) * p = ((p * q) * s) + (t * p)
        BY <2>1, <2>3
      <4> QED
        BY <2>1, <2>3, <4>1
    <3>2. t * p \in 0..(W - 1)
      <4>1. t * p \in Nat /\ t * p <= (q - 1) * p /\ (q - 1) * p = W - p
        BY <2>1, <2>3
      <4> QED
        BY <1>1, <2>1, <4>1
    <3>3. l * p \in Int
      BY <1>1, <2>1
    <3> QED
      BY <1>1, <2>3, <3>1, <3>2, <3>3, Division
  <2>5. n * p = (((h * p) + s) * W) + ((l * p) % W)
    <3>1. ((h * W) + l) * p = ((h * p) * W) + (l * p)
      BY <1>1, <2>1
    <3>2. l * p = (W * s) + (t * p)
      <4>1. ((q * s) + t) * p = ((p * q) * s) + (t * p)
        BY <2>1, <2>3
      <4> QED
        BY <2>1, <2>3, <4>1
    <3>3. ((h * p) + s) * W = ((h * p) * W) + (W * s)
      BY <1>1, <2>1, <2>3
    <3>4. (h * p) * W \in Int /\ W * s \in Int /\ t * p \in Int /\ l * p \in Int
      BY <1>1, <2>1, <2>3
    <3> QED
      BY <1>1, <2>4, <3>1, <3>2, <3>3, <3>4
  <2>6. l * p \in Int /\ (h * p) + s \in Int /\ n * p \in Int /\ h * p \in Int
    BY <1>1, <2>1, <2>3
  <2>7. /\ UInt(l * p, (h * p) + s) \in UInts
        /\ AsNumber(UInt(l * p, (h * p) + s)) = (n * p) % (W * W)
    BY <2>5, <2>6, PairIsNumber DEF W
  <2>8. UInt(l * p, ((h * p) % W) + s) = UInt(l * p, (h * p) + s)
    <3>1. (((h * p) % W) + s) % W = ((h * p) + s) % W
      BY <1>1, <2>3, <2>6, CutEarly
    <3> QED
      BY <3>1 DEF UInt, W
  <2> QED
    BY <2>2, <2>7, <2>8 DEF n, p, W
<1>5. CASE bits >= WordBits /\ bits < 2 * WordBits
  <2> DEFINE p == Pow2[bits - WordBits]
  <2>1. p \in Nat \ {0} /\ Pow2[bits] = W * p
    BY <1>1, <1>5, ShiftFactors
  <2>2. ShiftedLeft(u, bits) = UInt(0, l * p)
    BY <1>1, <1>5 DEF ShiftedLeft
  <2> HIDE DEF n, W, l, h, p
  <2>3. n * Pow2[bits] = ((W * W) * (h * p)) + ((l * p) * W)
    <3>1. ((h * W) + l) * (W * p) = ((W * W) * (h * p)) + ((l * p) * W)
      BY <1>1, <2>1
    <3> QED
      BY <1>1, <2>1, <3>1
  <2>4. h * p \in Int /\ l * p \in Int /\ (l * p) * W \in Int
    BY <1>1, <2>1
  <2>5. (n * Pow2[bits]) % (W * W) = ((l * p) * W) % (W * W)
    <3>1. (((W * W) * (h * p)) + ((l * p) * W)) % (W * W) = ((l * p) * W) % (W * W)
      BY <1>1, <2>4, SameRemainder
    <3> QED
      BY <2>3, <3>1
  <2>6. (l * p) * W = ((l * p) * Word) + (0 % Word)
    BY <2>4, NoNumber DEF W
  <2>7. UInt(0, l * p) \in UInts /\ AsNumber(UInt(0, l * p)) = ((l * p) * W) % (W * W)
    BY <2>4, <2>6, PairIsNumber DEF W
  <2> QED
    BY <2>2, <2>5, <2>7 DEF n, W
<1> QED
  BY <1>1, <1>2, <1>3, <1>4, <1>5

\* What a word holds below a power is less than the other factor.
LEMMA PartOfWord ==
    ASSUME NEW p \in Nat \ {0}, NEW q \in Nat \ {0}, NEW l \in Nat, l < p * q
    PROVE  l \div p \in 0..(q - 1)
<1> DEFINE s == l \div p
           t == l % p
<1>1. s \in Nat /\ t \in 0..(p - 1) /\ l = (p * s) + t
  BY DivMod
<1> HIDE DEF s, t
<1>2. ASSUME s >= q PROVE FALSE
  <2>1. p * s >= p * q
    BY <1>1, <1>2
  <2> QED
    BY <1>1, <2>1
<1>3. s \in 0..(q - 1)
  BY <1>1, <1>2
<1> QED
  BY <1>3 DEF s

\* >> : the bits that leave the high word arrive in the low one.
LEMMA ShiftedRightDivides ==
    ASSUME NEW u \in UInts, NEW bits \in Shifts
    PROVE  /\ ShiftedRight(u, bits) \in UInts
           /\ AsNumber(ShiftedRight(u, bits)) = (AsNumber(u) \div Pow2[bits]) % (Word * Word)
<1> DEFINE l == u.low
           h == u.high
           W == Word
           n == AsNumber(u)
<1>1. /\ l \in Nat /\ h \in Nat /\ l < W /\ h < W /\ n = (h * W) + l /\ n \in 0..((W * W) - 1)
      /\ W \in Nat \ {0} /\ W * W \in Nat \ {0} /\ WordBits \in Nat \ {0} /\ bits \in Nat /\ n \in Nat
  BY WordPairs, WordPowers DEF Shifts
<1>2. CASE bits = 0
  <2>1. n \div Pow2[bits] = n
    <3>1. n = (1 * n) + 0
      BY <1>1
    <3>2. 0 \in 0..(1 - 1) /\ 1 \in Nat \ {0} /\ Pow2[bits] = 1
      BY <1>2, PowersOfTwo
    <3> QED
      BY <1>1, <3>1, <3>2, Division
  <2> QED
    BY <1>1, <1>2, <2>1, InRange DEF ShiftedRight
<1>3. CASE bits >= 2 * WordBits
  <2> DEFINE p == Pow2[bits - (2 * WordBits)]
  <2>1. p \in Nat \ {0} /\ Pow2[bits] = (W * W) * p
    BY <1>1, <1>3, ShiftFactors
  <2>2. ShiftedRight(u, bits) = UInt(0, 0)
    BY <1>1, <1>3 DEF ShiftedRight
  <2> HIDE DEF n, W, p
  <2>3. (W * W) * p \in Nat \ {0} /\ (W * W) * p >= W * W
    <3> DEFINE r == W * W
    <3>1. r \in Nat \ {0}
      BY <1>1
    <3> HIDE DEF r
    <3>2. r * p \in Nat /\ r * p >= r
      BY <2>1, <3>1
    <3> QED
      BY <3>1, <3>2 DEF r
  <2>4. n = (((W * W) * p) * 0) + n /\ n \in 0..(((W * W) * p) - 1)
    BY <1>1, <2>3
  <2>5. n \div ((W * W) * p) = 0
    BY <1>1, <2>3, <2>4, Division
  <2> QED
    BY <2>1, <2>2, <2>5, NoNumber DEF n, W
<1>4. CASE bits # 0 /\ bits < WordBits
  <2> DEFINE p == Pow2[bits]
             q == Pow2[WordBits - bits]
             s == h \div p
             t == h % p
             k == l \div p
             m == l % p
  <2>1. p \in Nat \ {0} /\ q \in Nat \ {0} /\ W = p * q
    BY <1>1, <1>4, ShiftFactors
  <2>2. ShiftedRight(u, bits) = UInt(k + ((h * q) % W), s)
    BY <1>1, <1>4 DEF ShiftedRight
  <2> HIDE DEF n, W, l, h, p, q
  <2>3. /\ s \in Int /\ t \in 0..(p - 1) /\ h = (p * s) + t
        /\ k \in Int /\ m \in 0..(p - 1) /\ l = (p * k) + m
    <3>1. h \in Int /\ l \in Int
      BY <1>1
    <3>2. s \in Int /\ t \in 0..(p - 1) /\ h = (p * s) + t
      BY <2>1, <3>1, DivMod
    <3>3. k \in Int /\ m \in 0..(p - 1) /\ l = (p * k) + m
      BY <2>1, <3>1, DivMod
    <3> QED
      BY <3>2, <3>3
  <2>4. k \in Nat /\ k <= q - 1
    <3>1. l \in Nat /\ l < p * q
      BY <1>1, <2>1
    <3>2. k \in 0..(q - 1)
      BY <2>1, <3>1, PartOfWord
    <3> QED
      BY <2>1, <3>2
  <2> HIDE DEF s, t, k, m
  <2>5. (t * q) \in Nat /\ t * q <= W - q
    <3>1. t * q <= (p - 1) * q /\ (p - 1) * q = W - q
      BY <2>1, <2>3
    <3> QED
      BY <2>1, <2>3, <3>1
  <2>6. (h * q) % W = t * q
    <3>1. h * q = (W * s) + (t * q)
      <4>1. ((p * s) + t) * q = ((p * q) * s) + (t * q)
        BY <2>1, <2>3
      <4> QED
        BY <2>1, <2>3, <4>1
    <3> DEFINE a == h * q
               r == t * q
    <3>2. r \in 0..(W - 1) /\ a \in Int /\ s \in Int /\ W \in Nat \ {0} /\ a = (W * s) + r
      BY <1>1, <2>1, <2>3, <2>5, <3>1
    <3> HIDE DEF a, r
    <3>3. a % W = r
      BY <3>2, Division
    <3> QED
      BY <3>3 DEF a, r
  <2> DEFINE low == k + (t * q)
  <2>7. low \in 0..(W - 1) /\ low \in Int
    BY <1>1, <2>1, <2>3, <2>4, <2>5
  <2> DEFINE x == (s * W) + low
  <2>8. n = (p * x) + m
    <3>1. ((p * s) + t) * W = (p * (s * W)) + (p * (t * q))
      <4>1. ((p * s) + t) * (p * q) = (p * (s * (p * q))) + (p * (t * q))
        BY <2>1, <2>3
      <4> QED
        BY <2>1, <4>1
    <3>2. p * ((s * W) + (k + (t * q))) = (p * (s * W)) + (p * k) + (p * (t * q))
      BY <1>1, <2>1, <2>3, <2>5
    <3>3. p * (s * W) \in Int /\ p * (t * q) \in Int /\ p * k \in Int
      BY <1>1, <2>1, <2>3, <2>5
    <3> QED
      BY <1>1, <2>3, <3>1, <3>2, <3>3
  <2>9. x \in Int
    BY <1>1, <2>3, <2>7
  <2> HIDE DEF low
  <2>10. low % W = low
    BY <1>1, <2>7, RoundOnce DEF W
  <2>11. x = (s * Word) + (low % Word)
    BY <2>10 DEF W
  <2>12. UInt(low, s) \in UInts /\ AsNumber(UInt(low, s)) = x % (W * W)
    BY <2>3, <2>7, <2>9, <2>11, PairIsNumber DEF W
  <2> HIDE DEF x
  <2>13. n \div p = x
    BY <1>1, <2>1, <2>3, <2>8, <2>9, Division
  <2> QED
    BY <2>2, <2>6, <2>12, <2>13 DEF n, p, W, low
<1>5. CASE bits >= WordBits /\ bits < 2 * WordBits
  <2> DEFINE p == Pow2[bits - WordBits]
             s == h \div p
             t == h % p
  <2>1. p \in Nat \ {0} /\ Pow2[bits] = W * p
    BY <1>1, <1>5, ShiftFactors
  <2>2. ShiftedRight(u, bits) = UInt(s, 0)
    BY <1>1, <1>5 DEF ShiftedRight
  <2> HIDE DEF n, W, l, h, p
  <2>3. s \in Nat /\ t \in 0..(p - 1) /\ h = (p * s) + t
    <3>1. h \in Int /\ h \in Nat
      BY <1>1
    <3>2. s \in Int /\ t \in 0..(p - 1) /\ h = (p * s) + t
      BY <2>1, <3>1, DivMod
    <3>3. s \in Nat
      BY <2>1, <3>1, DivNat
    <3> QED
      BY <3>2, <3>3
  <2> HIDE DEF s, t
  <2>4. s < W
    <3>1. p * s >= s
      BY <2>1, <2>3
    <3> QED
      BY <1>1, <2>1, <2>3, <3>1
  <2>5. n = ((W * p) * s) + ((W * t) + l)
    <3>1. ((p * s) + t) * W = ((W * p) * s) + (W * t)
      BY <1>1, <2>1, <2>3
    <3>2. (W * p) * s \in Int /\ W * t \in Int
      BY <1>1, <2>1, <2>3
    <3> QED
      BY <1>1, <2>3, <3>1, <3>2
  <2>6. (W * t) + l \in 0..((W * p) - 1) /\ W * p \in Nat \ {0}
    <3>1. W * t <= W * (p - 1) /\ W * (p - 1) = (W * p) - W /\ W * t \in Nat /\ W * p \in Nat \ {0}
      BY <1>1, <2>1, <2>3
    <3> QED
      BY <1>1, <3>1
  <2>7. n \div (W * p) = s
    <3> DEFINE d == W * p
               r == (W * t) + l
    <3>1. n \in Int /\ d \in Nat \ {0} /\ s \in Int /\ r \in 0..(d - 1) /\ n = (d * s) + r
      BY <1>1, <2>3, <2>5, <2>6
    <3> HIDE DEF d, r
    <3>2. n \div d = s
      BY <3>1, Division
    <3> QED
      BY <3>2 DEF d
  <2>8. s % Word = s
    BY <2>3, <2>4, RoundOnce DEF W
  <2>9. s = (0 * Word) + (s % Word)
    BY <2>3, <2>8, WordPowers
  <2>10. UInt(s, 0) \in UInts /\ AsNumber(UInt(s, 0)) = s % (W * W)
    BY <2>3, <2>9, PairIsNumber DEF W
  <2> QED
    BY <2>1, <2>2, <2>7, <2>10 DEF n, W
<1> QED
  BY <1>1, <1>2, <1>3, <1>4, <1>5

\* A word that is not zero can be shifted until its top bit is set.
LEMMA LeadingZerosOfWord ==
    ASSUME NEW x \in 1..(Word - 1)
    PROVE  /\ CountlZero(x) \in 0..(WordBits - 1)
           /\ x * Pow2[CountlZero(x)] < Word /\ x * Pow2[CountlZero(x)] >= TopBit
<1>1. /\ x \in Nat \ {0} /\ x < Word /\ Word = 2 * TopBit /\ TopBit \in Nat \ {0}
      /\ WordBits \in Nat \ {0} /\ WordBits - 1 \in Nat /\ TopBit = Pow2[WordBits - 1]
  BY WordPowers
<1>2. \E z \in 0..(WordBits - 1) : x * Pow2[z] < Word /\ x * Pow2[z] >= TopBit
  <2> SUFFICES ASSUME \A z \in 0..(WordBits - 1) : x * Pow2[z] < Word => ~(x * Pow2[z] >= TopBit)
               PROVE  FALSE
    OBVIOUS
  <2> DEFINE S == {k \in Nat : k < WordBits => x * Pow2[k] < TopBit}
  <2>1. 0 \in S
    <3>1. x * Pow2[0] = x /\ 0 \in 0..(WordBits - 1)
      BY <1>1, PowersOfTwo
    <3>2. ~(x * Pow2[0] >= TopBit)
      BY <1>1, <3>1
    <3> QED
      BY <1>1, <3>1, <3>2
  <2>2. ASSUME NEW k \in Nat, k \in S PROVE k + 1 \in S
    <3> SUFFICES ASSUME k + 1 < WordBits PROVE x * Pow2[k + 1] < TopBit
      OBVIOUS
    <3>1. Pow2[k] \in Nat /\ Pow2[k + 1] \in Nat /\ Pow2[k + 1] = 2 * Pow2[k]
      <4>1. k + 1 \in Nat \ {0} /\ (k + 1) - 1 = k
        OBVIOUS
      <4> QED
        BY <4>1, PowersOfTwo
    <3>2. x * Pow2[k] < TopBit /\ k + 1 \in 0..(WordBits - 1)
      BY <1>1, <2>2
    <3>3. x * Pow2[k + 1] = 2 * (x * Pow2[k]) /\ x * Pow2[k] \in Nat /\ x * Pow2[k + 1] \in Nat
      BY <1>1, <3>1
    <3>4. x * Pow2[k + 1] < Word
      BY <1>1, <3>2, <3>3
    <3>5. ~(x * Pow2[k + 1] >= TopBit)
      BY <3>2, <3>4
    <3> QED
      BY <1>1, <3>3, <3>5
  <2> HIDE DEF S
  <2>3. Nat \subseteq S
    BY <2>1, <2>2, InductionOnSet
  <2>4. x * TopBit < TopBit
    BY <1>1, <2>3 DEF S
  <2> QED
    BY <1>1, <2>4
<1>3. CountlZero(x) = CHOOSE z \in 0..(WordBits - 1) : x * Pow2[z] < Word /\ x * Pow2[z] >= TopBit
  BY <1>1 DEF CountlZero
<1> QED
  BY <1>2, <1>3

-----------------------------------------------------------------------------
(* The long division.                                                      *)

\* What is divided, t, is what the quotient so far stands for, and the
\* remainder in front of the bits that the buffer has still at its top.
DivisionInv(t, d, left, s) ==
    /\ s.remainder \in 0..(d - 1) /\ s.quotient \in Nat
    /\ \E b \in 0..(Pow2[left] - 1) :
          /\ s.buffer = b * Pow2[WordBits - left]
          /\ t = (d * s.quotient) + (s.remainder * Pow2[left]) + b

\* The comparison of a round sees the bit that its shift pushes out.
LEMMA RoundCompares ==
    ASSUME NEW d \in Words \ {0}, NEW r \in 0..(d - 1), NEW top \in {0, 1}
    PROVE  LET shifted == ((r * 2) % Word) + top
               fits == shifted >= d \/ (d >= TopBit /\ r >= TopBit)
               v == (2 * r) + top
           IN  /\ fits <=> v >= d
               /\ (IF fits THEN (shifted - d) % Word ELSE shifted) = (IF v >= d THEN v - d ELSE v)
               /\ (IF v >= d THEN v - d ELSE v) \in 0..(d - 1)
<1> DEFINE shifted == ((r * 2) % Word) + top
           fits == shifted >= d \/ (d >= TopBit /\ r >= TopBit)
           v == (2 * r) + top
<1>1. /\ d \in Nat \ {0} /\ d < Word /\ r \in Nat /\ r < d /\ Word = 2 * TopBit
      /\ TopBit \in Nat \ {0} /\ Word \in Nat \ {0}
  BY WordPowers DEF Words
<1>2. CASE r < TopBit
  <2>1. shifted = v
    <3>1. (r * 2) % Word = r * 2
      BY <1>1, <1>2, RoundOnce
    <3> QED
      BY <1>1, <3>1
  <2>2. v >= d => (v - d) % Word = v - d
    BY <1>1, RoundOnce
  <2> QED
    BY <1>1, <1>2, <2>1, <2>2
<1>3. CASE r >= TopBit
  <2>1. shifted = v - Word
    <3>1. (r * 2) % Word = (r * 2) - Word
      BY <1>1, <1>3, RoundOnce
    <3> QED
      BY <1>1, <3>1
  <2>2. fits /\ v >= d
    BY <1>1, <1>3
  <2>3. ((v - Word) - d) % Word = v - d
    BY <1>1, <1>3, RoundOnce
  <2> QED
    BY <1>1, <2>1, <2>2, <2>3
<1> QED
  BY <1>1, <1>2, <1>3

\* The buffer has the bits that are left at its top, and a shift takes the
\* first of them from it.
LEMMA NextBit ==
    ASSUME NEW p \in Nat \ {0}, NEW z \in Nat \ {0}, NEW b \in 0..((2 * p) - 1)
    PROVE  \E top \in {0, 1}, rest \in 0..(p - 1) :
              /\ b = (top * p) + rest
              /\ (b * z) \div (p * z) = top
              /\ ((b * z) * 2) % (2 * (p * z)) = rest * (2 * z)
<1> DEFINE top == IF b >= p THEN 1 ELSE 0
           rest == IF b >= p THEN b - p ELSE b
<1>1. top \in {0, 1} /\ rest \in 0..(p - 1) /\ b = (top * p) + rest /\ b \in Nat
  <2>1. CASE b >= p
    BY <2>1
  <2>2. CASE ~(b >= p)
    BY <2>2
  <2> QED
    BY <2>1, <2>2
<1> HIDE DEF top, rest
<1> DEFINE d == p * z
           r == rest * z
<1>2. d \in Nat \ {0} /\ r \in Nat /\ r < d
  <2>1. d \in Nat /\ d > 0
    OBVIOUS
  <2>2. r \in Nat /\ r <= (p - 1) * z /\ (p - 1) * z = d - z
    BY <1>1
  <2> QED
    BY <2>1, <2>2
<1>3. b * z = (d * top) + r
  <2>1. ((top * p) + rest) * z = ((p * z) * top) + (rest * z)
    BY <1>1
  <2> QED
    BY <1>1, <2>1
<1>4. rest * (2 * z) = 2 * r
  BY <1>1
<1>5. b * z \in Int
  BY <1>1
<1> DEFINE a == b * z
           c == rest * (2 * z)
<1>6. a = (d * top) + r /\ c = 2 * r /\ a \in Int /\ top \in Int
  BY <1>1, <1>3, <1>4, <1>5
<1> HIDE DEF a, c, d, r
<1>7. a \div d = top
  BY <1>2, <1>6, Division
<1>8. (a * 2) % (2 * d) = c
  <2> DEFINE e == 2 * d
             f == a * 2
  <2>1. e \in Nat \ {0} /\ f \in Int /\ c \in 0..(e - 1)
    BY <1>2, <1>6
  <2>2. f = (e * top) + c
    <3>1. ((d * top) + r) * 2 = ((2 * d) * top) + (2 * r)
      BY <1>1, <1>2
    <3> QED
      BY <1>6, <3>1
  <2> HIDE DEF e, f
  <2>3. f % e = c
    BY <1>6, <2>1, <2>2, Division
  <2> QED
    BY <2>3 DEF e, f
<1> QED
  BY <1>1, <1>7, <1>8 DEF a, c, d

\* A round of the long division keeps what DivisionInv says, for one bit less.
LEMMA DivisionRoundKeeps ==
    ASSUME NEW d \in Words \ {0}, NEW t \in Nat, NEW left \in 0..(WordBits - 1),
           NEW s, DivisionInv(t, d, left + 1, s)
    PROVE  DivisionInv(t, d, left, DivisionRound(d, left, s))
<1> DEFINE p == Pow2[left]
           z == Pow2[WordBits - left - 1]
           next == DivisionRound(d, left, s)
<1>1. /\ WordBits \in Nat \ {0} /\ Word = 2 * TopBit /\ TopBit = Pow2[WordBits - 1]
      /\ Word \in Nat \ {0} /\ d \in Nat \ {0} /\ d < Word
  BY WordPowers DEF Words
<1>2. /\ p \in Nat \ {0} /\ z \in Nat \ {0} /\ Pow2[left + 1] = 2 * p
      /\ Pow2[WordBits - left] = 2 * z
      /\ WordBits - (left + 1) = WordBits - left - 1
  <2>1. left \in Nat /\ left + 1 \in Nat \ {0} /\ (left + 1) - 1 = left
        /\ WordBits - left \in Nat \ {0} /\ (WordBits - left) - 1 = WordBits - left - 1
        /\ WordBits - left - 1 \in Nat /\ WordBits - (left + 1) = WordBits - left - 1
    BY <1>1
  <2> QED
    BY <2>1, PowersOfTwo
<1>3. TopBit = p * z
  <2>1. left \in Nat /\ WordBits - left - 1 \in Nat /\ left + (WordBits - left - 1) = WordBits - 1
    BY <1>1
  <2> QED
    BY <1>1, <2>1, PowerOfSum
<1>4. PICK b \in 0..((2 * p) - 1) :
        /\ s.buffer = b * z
        /\ t = (d * s.quotient) + (s.remainder * (2 * p)) + b
  BY <1>2 DEF DivisionInv
<1>5. s.remainder \in 0..(d - 1) /\ s.quotient \in Nat
  BY DEF DivisionInv
<1> HIDE DEF p, z
<1>6. PICK top \in {0, 1}, rest \in 0..(p - 1) :
        /\ b = (top * p) + rest
        /\ (b * z) \div (p * z) = top
        /\ ((b * z) * 2) % (2 * (p * z)) = rest * (2 * z)
  BY <1>2, NextBit
<1> DEFINE r == s.remainder
           q == s.quotient
           shifted == ((r * 2) % Word) + top
           fits == shifted >= d \/ (d >= TopBit /\ r >= TopBit)
           v == (2 * r) + top
<1>7. /\ next.remainder = (IF fits THEN (shifted - d) % Word ELSE shifted)
      /\ next.buffer = rest * (2 * z)
      /\ next.quotient = q + (IF fits THEN p ELSE 0)
  BY <1>1, <1>3, <1>4, <1>6 DEF DivisionRound, p
<1>8. /\ fits <=> v >= d
      /\ (IF fits THEN (shifted - d) % Word ELSE shifted) = (IF v >= d THEN v - d ELSE v)
      /\ (IF v >= d THEN v - d ELSE v) \in 0..(d - 1)
  BY <1>5, RoundCompares
<1> HIDE DEF fits, shifted, next
<1>9. next.remainder \in 0..(d - 1) /\ next.quotient \in Nat
  <2>1. next.quotient \in Nat
    BY <1>2, <1>5, <1>7
  <2> QED
    BY <1>7, <1>8, <2>1
<1>10. t = (d * next.quotient) + (next.remainder * p) + rest
  <2>1. t = (d * q) + (v * p) + rest
    <3>1. (r * (2 * p)) + (top * p) = ((2 * r) + top) * p
      BY <1>2, <1>5
    <3>2. r * (2 * p) \in Int /\ top * p \in Int /\ d * q \in Int
      BY <1>1, <1>2, <1>5
    <3> QED
      BY <1>4, <1>6, <3>1, <3>2
  <2>2. CASE v >= d
    <3>1. next.quotient = q + p /\ next.remainder = v - d
      BY <1>7, <1>8, <2>2
    <3>2. (d * (q + p)) + ((v - d) * p) = (d * q) + (v * p)
      BY <1>1, <1>2, <1>5
    <3> QED
      BY <2>1, <3>1, <3>2
  <2>3. CASE ~(v >= d)
    <3>1. next.quotient = q /\ next.remainder = v
      BY <1>5, <1>7, <1>8, <2>3
    <3> QED
      BY <2>1, <3>1
  <2> QED
    BY <2>2, <2>3
<1> QED
  BY <1>2, <1>7, <1>9, <1>10 DEF DivisionInv, p, next

\* The state of the long division, for the numbers that it needs to exist.
LoopStates == [remainder : Int, buffer : Int, quotient : Int]

\* The rounds of the long division end with DivisionInv for no bits left.
LEMMA DivisionLoop ==
    ASSUME NEW d \in Words \ {0}, NEW t \in Nat, NEW count \in 0..WordBits,
           NEW base \in LoopStates, DivisionInv(t, d, count, base)
    PROVE  LET state[k \in 0..count] == IF k = 0 THEN base ELSE DivisionRound(d, count - k, state[k - 1])
           IN  DivisionInv(t, d, 0, state[count])
<1> DEFINE Runs(g) == g = [k \in 0..count |-> IF k = 0 THEN base ELSE DivisionRound(d, count - k, g[k - 1])]
           round(k) == [s \in LoopStates |-> IF k <= count THEN DivisionRound(d, count - k, s) ELSE s]
           step == [k \in Nat |-> round(k)]
<1>1. count \in Nat /\ WordBits \in Nat /\ Word \in Nat \ {0} /\ TopBit \in Nat \ {0} /\ d \in Nat \ {0}
  BY WordPowers DEF Words
<1>2. ASSUME NEW k \in Nat PROVE step[k] \in [LoopStates -> LoopStates]
  <2> SUFFICES ASSUME NEW s \in LoopStates, k <= count PROVE DivisionRound(d, count - k, s) \in LoopStates
    OBVIOUS
  <2>1. Pow2[count - k] \in Nat
    <3>1. count - k \in Nat
      BY <1>1
    <3> QED
      BY <3>1, PowersOfTwo
  <2>2. s.remainder \in Int /\ s.buffer \in Int /\ s.quotient \in Int
    BY DEF LoopStates
  <2> DEFINE top == s.buffer \div TopBit
             shifted == ((s.remainder * 2) % Word) + top
             fits == shifted >= d \/ (d >= TopBit /\ s.remainder >= TopBit)
  <2>3. top \in Int /\ (s.remainder * 2) % Word \in Int /\ (s.buffer * 2) % Word \in Int
    <3>1. s.remainder * 2 \in Int /\ s.buffer * 2 \in Int
      BY <2>2
    <3>2. top \in Int
      BY <1>1, <2>2, DivMod
    <3>3. (s.remainder * 2) % Word \in 0..(Word - 1) /\ (s.buffer * 2) % Word \in 0..(Word - 1)
      BY <1>1, <3>1, DivMod
    <3> QED
      BY <1>1, <3>2, <3>3
  <2>4. shifted \in Int /\ shifted - d \in Int
    BY <1>1, <2>3
  <2>5. (shifted - d) % Word \in Int
    <3> HIDE DEF shifted
    <3>1. (shifted - d) % Word \in 0..(Word - 1)
      BY <1>1, <2>4, DivMod
    <3> QED
      BY <1>1, <3>1
  <2>6. DivisionRound(d, count - k, s)
          = [remainder |-> IF fits THEN (shifted - d) % Word ELSE shifted,
             buffer    |-> (s.buffer * 2) % Word,
             quotient  |-> s.quotient + (IF fits THEN Pow2[count - k] ELSE 0)]
    BY DEF DivisionRound
  <2>7. s.quotient + (IF fits THEN Pow2[count - k] ELSE 0) \in Int
    <3> HIDE DEF fits
    <3> QED
      BY <2>1, <2>2
  <2> HIDE DEF fits, shifted
  <2> QED
    BY <2>3, <2>4, <2>5, <2>6, <2>7 DEF LoopStates
<1>3. \E f : Iterates(LoopStates, base, step, count, f)
  <2> HIDE DEF step
  <2> QED
    BY <1>1, <1>2, Iteration
<1>4. PICK f \in [0..count -> LoopStates] :
        f[0] = base /\ \A k \in 1..count : f[k] = step[k][f[k - 1]]
  BY <1>3 DEF Iterates
<1>5. ASSUME NEW k \in 1..count PROVE f[k] = DivisionRound(d, count - k, f[k - 1])
  <2>1. f[k - 1] \in LoopStates /\ k \in Nat /\ k <= count
    BY <1>1
  <2>2. step[k][f[k - 1]] = DivisionRound(d, count - k, f[k - 1])
    BY <2>1
  <2> QED
    BY <1>4, <2>2
<1> HIDE DEF step
<1>6. Runs(f)
  <2>1. ASSUME NEW k \in 0..count
        PROVE  f[k] = IF k = 0 THEN base ELSE DivisionRound(d, count - k, f[k - 1])
    <3>1. CASE k = 0
      BY <1>4, <3>1
    <3>2. CASE k # 0
      <4>1. k \in 1..count
        BY <1>1, <3>2
      <4> QED
        BY <1>5, <3>2, <4>1
    <3> QED
      BY <3>1, <3>2
  <2> QED
    BY <2>1
<1> DEFINE state == CHOOSE g : Runs(g)
<1>7. state = [k \in 0..count |-> IF k = 0 THEN base ELSE DivisionRound(d, count - k, state[k - 1])]
  <2> HIDE DEF Runs
  <2>1. Runs(state)
    BY <1>6
  <2> QED
    BY <2>1 DEF Runs
<1> HIDE DEF state
<1> DEFINE S == {k \in Nat : k <= count => DivisionInv(t, d, count - k, state[k])}
<1>8. 0 \in S
  <2>1. state[0] = base /\ count - 0 = count
    BY <1>1, <1>7
  <2> QED
    BY <2>1
<1>9. ASSUME NEW k \in Nat, k \in S PROVE k + 1 \in S
  <2> SUFFICES ASSUME k + 1 <= count PROVE DivisionInv(t, d, count - (k + 1), state[k + 1])
    OBVIOUS
  <2> DEFINE left == count - (k + 1)
  <2>1. left \in 0..(WordBits - 1) /\ count - k = left + 1 /\ k + 1 \in 0..count /\ k + 1 # 0 /\ (k + 1) - 1 = k
    BY <1>1
  <2>2. DivisionInv(t, d, left + 1, state[k])
    BY <1>1, <1>9, <2>1
  <2>3. state[k + 1] = DivisionRound(d, left, state[k])
    BY <1>7, <2>1
  <2> HIDE DEF left
  <2>4. DivisionInv(t, d, left, DivisionRound(d, left, state[k]))
    BY <2>1, <2>2, DivisionRoundKeeps
  <2> QED
    BY <2>3, <2>4 DEF left
<1> HIDE DEF S
<1>10. Nat \subseteq S
  BY <1>8, <1>9, InductionOnSet
<1>11. DivisionInv(t, d, 0, state[count])
  <2>1. count \in S /\ count - count = 0
    BY <1>1, <1>10
  <2> QED
    BY <1>1, <2>1 DEF S
<1> QED
  BY <1>11 DEF state

\* The division: the high words leave a remainder, the loop divides it and the
\* low word, and both quotients are words.
LEMMA QuotientDivides ==
    ASSUME NEW u \in UInts, NEW d \in Words \ {0}
    PROVE  /\ Quotient(u, d) \in UInts
           /\ AsNumber(Quotient(u, d)) = (AsNumber(u) \div d) % (Word * Word)
<1> DEFINE l == u.low
           h == u.high
           W == Word
           n == AsNumber(u)
           q == h \div d
           r == h % d
<1>1. /\ l \in Nat /\ h \in Nat /\ l < W /\ h < W /\ n = (h * W) + l /\ n \in 0..((W * W) - 1)
      /\ W \in Nat \ {0} /\ W * W \in Nat \ {0} /\ WordBits \in Nat \ {0} /\ n \in Nat
      /\ d \in Nat \ {0} /\ W = Pow2[WordBits]
  BY WordPairs, WordPowers DEF Words
<1>2. q \in Nat /\ r \in Nat /\ r \in 0..(d - 1) /\ h = (d * q) + r
  <2>1. h \in Int
    BY <1>1
  <2>2. q \in Int /\ r \in 0..(d - 1) /\ h = (d * q) + r
    BY <1>1, <2>1, DivMod
  <2>3. q \in Nat
    BY <1>1, DivNat
  <2> QED
    BY <1>1, <2>2, <2>3
<1>3. CASE h = 0
  <2>1. n = l /\ Quotient(u, d) = UInt(l \div d, 0)
    <3>1. 0 * W = 0
      BY <1>1
    <3> QED
      BY <1>1, <1>3, <3>1 DEF Quotient
  <2> DEFINE s == l \div d
  <2>2. s \in Nat /\ s <= l
    <3> DEFINE m == l % d
    <3>1. l \in Int
      BY <1>1
    <3>2. s \in Nat /\ m \in 0..(d - 1) /\ l = (d * s) + m
      BY <1>1, <3>1, DivMod, DivNat
    <3> HIDE DEF s, m
    <3>3. d * s >= s
      BY <1>1, <3>2
    <3> QED
      BY <1>1, <3>2, <3>3
  <2> HIDE DEF s, l
  <2>3. s % W = s
    BY <1>1, <2>2, RoundOnce
  <2>4. s = (0 * Word) + (s % Word)
    BY <2>2, <2>3, WordPowers
  <2>5. UInt(s, 0) \in UInts /\ AsNumber(UInt(s, 0)) = s % (W * W)
    BY <2>2, <2>4, PairIsNumber
  <2> QED
    BY <2>1, <2>5 DEF s
<1>4. CASE h # 0
  <2> DEFINE skip == IF u.high % d # 0 THEN 0 ELSE CountlZero(u.low)
             count == WordBits - skip
             base == [remainder |-> u.high % d, buffer |-> (u.low * Pow2[skip]) % Word, quotient |-> 0]
             state == CHOOSE g : g = [k \in 0..count |-> IF k = 0 THEN base
                                                        ELSE DivisionRound(d, count - k, g[k - 1])]
             t == (r * W) + l
  <2>1. Quotient(u, d) = UInt(state[count].quotient, q)
    BY <1>4 DEF Quotient
  <2>2. /\ skip \in 0..WordBits /\ count \in 0..WordBits /\ WordBits - count = skip
        /\ (l * Pow2[skip]) % W = l * Pow2[skip] /\ l < Pow2[count] /\ Pow2[skip] \in Nat \ {0}
        /\ t = (r * Pow2[count]) + l
    <3>1. CASE r # 0
      <4>1. skip = 0
        BY <3>1
      <4> HIDE DEF skip
      <4>2. count = WordBits /\ WordBits - count = skip /\ skip \in 0..WordBits /\ count \in 0..WordBits
        BY <1>1, <4>1
      <4>3. Pow2[skip] = 1 /\ Pow2[count] = W
        BY <1>1, <4>1, <4>2, PowersOfTwo
      <4> HIDE DEF count
      <4>4. l * Pow2[skip] = l
        BY <1>1, <4>3
      <4>5. l % W = l
        BY <1>1, RoundOnce
      <4> QED
        BY <1>1, <4>2, <4>3, <4>4, <4>5
    <3>2. CASE r = 0 /\ l = 0
      <4>1. skip = WordBits
        BY <3>2 DEF CountlZero
      <4> HIDE DEF skip
      <4>2. count = 0 /\ WordBits - count = skip /\ skip \in 0..WordBits /\ count \in 0..WordBits
        BY <1>1, <4>1
      <4>3. Pow2[skip] = W /\ Pow2[count] = 1
        BY <1>1, <4>1, <4>2, PowersOfTwo
      <4> HIDE DEF count
      <4>4. l * Pow2[skip] = 0 /\ r * W = 0 /\ r * Pow2[count] = 0
        BY <1>1, <3>2, <4>3
      <4>5. 0 % W = 0
        BY NoNumber
      <4> QED
        BY <1>1, <3>2, <4>2, <4>3, <4>4, <4>5
    <3>3. CASE r = 0 /\ l # 0
      <4>1. l \in 1..(Word - 1)
        BY <1>1, <3>3
      <4>2. skip = CountlZero(l)
        BY <3>3
      <4>3. skip \in 0..(WordBits - 1) /\ l * Pow2[skip] < W
        BY <4>1, <4>2, LeadingZerosOfWord
      <4> HIDE DEF skip
      <4>4. count \in 0..WordBits /\ WordBits - count = skip /\ skip \in Nat /\ skip < WordBits
        BY <1>1, <4>3
      <4>5. Pow2[skip] \in Nat \ {0} /\ Pow2[count] \in Nat \ {0} /\ W = Pow2[skip] * Pow2[count]
        BY <4>4, ShiftFactors
      <4> HIDE DEF count
      <4> DEFINE a == Pow2[skip]
                 b == Pow2[count]
      <4>6. a \in Nat \ {0} /\ b \in Nat \ {0} /\ W = a * b /\ l * a < W
        BY <4>3, <4>5
      <4> HIDE DEF a, b, W, l
      <4>7. l < b
        <5>1. ASSUME l >= b PROVE FALSE
          <6>1. l * a >= b * a
            BY <1>1, <4>6, <5>1
          <6> QED
            BY <1>1, <4>6, <6>1
        <5> QED
          BY <1>1, <4>6, <5>1
      <4>8. l * a \in Int /\ l * a >= 0
        BY <1>1, <4>6
      <4>9. (l * a) % W = l * a
        BY <4>6, <4>8, RoundOnce DEF W
      <4>10. (r * W) + l = (r * b) + l
        BY <1>1, <3>3, <4>6
      <4>11. l < Pow2[count] /\ (l * Pow2[skip]) % W = l * Pow2[skip] /\ Pow2[skip] \in Nat \ {0}
        BY <4>6, <4>7, <4>9 DEF a, b
      <4>12. t = (r * Pow2[count]) + l
        BY <4>10 DEF b
      <4>13. skip \in 0..WordBits
        BY <1>1, <4>3
      <4> HIDE DEF a, b, t
      <4> QED
        BY <4>4, <4>11, <4>12, <4>13
    <3> QED
      BY <1>1, <1>2, <3>1, <3>2, <3>3
  <2> HIDE DEF skip
  <2>3. base = [remainder |-> r, buffer |-> l * Pow2[skip], quotient |-> 0]
    BY <2>2
  <2>4. t \in Nat /\ l * Pow2[skip] \in Int
    BY <1>1, <1>2, <2>2
  <2>5. base \in LoopStates /\ base.remainder = r /\ base.quotient = 0 /\ base.buffer = l * Pow2[skip]
    BY <1>2, <2>3, <2>4 DEF LoopStates
  <2> HIDE DEF base, count
  <2>6. DivisionInv(t, d, count, base)
    <3>1. Pow2[count] \in Nat \ {0} /\ l \in 0..(Pow2[count] - 1)
      <4>1. count \in Nat
        BY <1>1, <2>2
      <4>2. Pow2[count] \in Nat \ {0}
        BY <4>1, PowersOfTwo
      <4> QED
        BY <1>1, <2>2, <4>2
    <3>2. base.buffer = l * Pow2[WordBits - count]
      BY <2>2, <2>5
    <3>3. t = (d * base.quotient) + (base.remainder * Pow2[count]) + l
      <4>1. d * 0 = 0 /\ r * Pow2[count] \in Int
        BY <1>1, <1>2, <3>1
      <4> QED
        BY <1>1, <2>2, <2>5, <4>1
    <3>4. base.remainder \in 0..(d - 1) /\ base.quotient \in Nat
      BY <1>2, <2>5
    <3> HIDE DEF t, l
    <3> QED
      BY <3>1, <3>2, <3>3, <3>4 DEF DivisionInv
  <2>7. DivisionInv(t, d, 0, state[count])
    <3> HIDE DEF t
    <3> QED
      BY <2>2, <2>4, <2>5, <2>6, DivisionLoop
  <2> DEFINE end == state[count]
             s == end.quotient
             m == end.remainder
  <2>8. s \in Nat /\ m \in 0..(d - 1) /\ t = (d * s) + m
    <3> HIDE DEF state, t
    <3>1. Pow2[0] = 1
      BY PowersOfTwo
    <3>2. \E b \in 0..(1 - 1) : t = (d * s) + (m * 1) + b
      BY <2>7, <3>1 DEF DivisionInv
    <3>3. s \in Nat /\ m \in 0..(d - 1)
      BY <2>7 DEF DivisionInv
    <3>4. t = (d * s) + (m * 1) + 0
      BY <3>2
    <3>5. m * 1 = m /\ d * s \in Int
      BY <1>1, <3>3
    <3> QED
      BY <1>1, <3>3, <3>4, <3>5
  <2>9. Quotient(u, d) = UInt(s, q)
    BY <2>1
  <2> HIDE DEF s, m, end, state, l, h, q, r, W, n
  <2>10. t < d * W
    <3>1. (r * W) + W <= d * W
      <4>1. (r + 1) * W = (r * W) + W
        <5>1. r \in Int /\ W \in Int
          BY <1>1, <1>2
        <5> QED
          BY <5>1
      <4>2. (r + 1) * W <= d * W
        <5> DEFINE k == d - (r + 1)
        <5>1. k \in Nat /\ d = (r + 1) + k
          BY <1>1, <1>2
        <5> HIDE DEF k
        <5>2. d * W = ((r + 1) * W) + (k * W) /\ k * W \in Nat /\ (r + 1) * W \in Int
          BY <1>1, <1>2, <5>1
        <5> QED
          BY <5>2
      <4> QED
        BY <4>1, <4>2
    <3>2. r * W \in Int /\ d * W \in Int
      BY <1>1, <1>2
    <3> QED
      BY <1>1, <3>1, <3>2
  <2>11. s < W
    <3>1. ASSUME s >= W PROVE FALSE
      <4>1. d * s >= d * W
        BY <1>1, <2>8, <3>1
      <4> HIDE DEF t
      <4> QED
        BY <1>1, <2>4, <2>8, <2>10, <4>1
    <3> QED
      BY <1>1, <2>8, <3>1
  <2> DEFINE x == (q * W) + s
  <2>12. n = (d * x) + m
    <3>1. n = ((d * q) * W) + t
      <4>1. ((d * q) + r) * W = ((d * q) * W) + (r * W)
        BY <1>1, <1>2
      <4>2. (d * q) * W \in Int /\ r * W \in Int
        BY <1>1, <1>2
      <4> QED
        BY <1>1, <1>2, <4>1, <4>2
    <3>2. d * ((q * W) + s) = ((d * q) * W) + (d * s)
      BY <1>1, <1>2, <2>8
    <3>3. (d * q) * W \in Int /\ d * s \in Int
      BY <1>1, <1>2, <2>8
    <3> HIDE DEF t
    <3> QED
      BY <2>4, <2>8, <3>1, <3>2, <3>3
  <2>13. x \in Int
    BY <1>1, <1>2, <2>8
  <2> HIDE DEF x
  <2>14. n \div d = x
    <3>1. n \in Int /\ d \in Nat \ {0}
      BY <1>1
    <3> QED
      BY <2>8, <2>12, <2>13, <3>1, Division
  <2> USE DEF x
  <2>15. s % W = s
    BY <2>8, <2>11, RoundOnce DEF W
  <2>16. x = (q * Word) + (s % Word)
    BY <2>15 DEF W
  <2> HIDE DEF x
  <2>17. UInt(s, q) \in UInts /\ AsNumber(UInt(s, q)) = x % (W * W)
    BY <1>2, <2>8, <2>13, <2>16, PairIsNumber DEF W
  <2> QED
    BY <2>9, <2>14, <2>17 DEF W, n
<1> QED
  BY <1>3, <1>4

-----------------------------------------------------------------------------
(* The refinement.                                                         *)

\* A step of uint128 is one of numbers modulo the range.
LEMMA NumberSteps ==
    ASSUME value \in UInts, Next
    PROVE  value' \in UInts /\ Number!Next
<1> DEFINE Steps(op, x, result, m) ==
             Apply(op, x, result) /\ result \in UInts /\ <<op, x>> \in Number!Operations
             /\ AsNumber(result) = m % (Word * Word) /\ m = Number!Effect(op, x)
<1>1. ASSUME NEW op, NEW x, NEW result, NEW m, Steps(op, x, result, m)
      PROVE  value' \in UInts /\ Number!Next
  <2>1. last' = <<op, x>> /\ value' = result /\ last'[1] = op /\ last'[2] = x
    BY <1>1 DEF Apply
  <2> QED
    BY <1>1, <2>1 DEF Number!Next
<1>2. CASE Increment
  <2> DEFINE n == AsNumber(value)
  <2>1. Incremented(value) \in UInts /\ AsNumber(Incremented(value)) = (n + 1) % (Word * Word)
    BY IncrementedIsNext
  <2>2. <<"++", 0>> \in Number!Operations /\ n + 1 = Number!Effect("++", 0)
    BY DEF Number!Operations, Number!Effect
  <2> QED
    BY <1>1, <1>2, <2>1, <2>2 DEF Increment
<1>3. ASSUME NEW r \in Words, AddTo(r) PROVE value' \in UInts /\ Number!Next
  <2> DEFINE n == AsNumber(value)
  <2>1. Plus(value, r) \in UInts /\ AsNumber(Plus(value, r)) = (n + r) % (Word * Word)
    BY PlusAdds
  <2>2. <<"+=", r>> \in Number!Operations /\ n + r = Number!Effect("+=", r)
    BY DEF Number!Operations, Number!Effect
  <2> QED
    BY <1>1, <1>3, <2>1, <2>2 DEF AddTo
<1>4. ASSUME NEW r \in Words, SubtractWord(r) PROVE value' \in UInts /\ Number!Next
  <2> DEFINE n == AsNumber(value)
  <2>1. MinusWord(value, r) \in UInts /\ AsNumber(MinusWord(value, r)) = (n - r) % (Word * Word)
    BY MinusWordSubtracts
  <2>2. <<"-=", r>> \in Number!Operations /\ n - r = Number!Effect("-=", r)
    <3>1. r \in 0..((Word * Word) - 1)
      <4>1. [low |-> r, high |-> 0] \in UInts
        BY WordPowers DEF UInts, Words
      <4>2. AsNumber([low |-> r, high |-> 0]) = r
        <5>1. 0 * Word = 0 /\ r \in Nat
          BY WordPowers DEF Words
        <5> QED
          BY <5>1 DEF AsNumber
      <4> QED
        BY <4>1, <4>2, WordPairs
    <3> QED
      BY <3>1 DEF Number!Operations, Number!Effect, Number!Numbers
  <2> QED
    BY <1>1, <1>4, <2>1, <2>2 DEF SubtractWord
<1>5. ASSUME NEW v \in UInts, Subtract(v) PROVE value' \in UInts /\ Number!Next
  <2> DEFINE n == AsNumber(value)
             m == AsNumber(v)
  <2>1. Minus(value, v) \in UInts /\ AsNumber(Minus(value, v)) = (n - m) % (Word * Word)
    BY MinusSubtracts
  <2>2. m \in 0..((Word * Word) - 1) /\ m = v.high * Word + v.low
    BY WordPairs DEF AsNumber
  <2> HIDE DEF m
  <2>3. <<"-=", m>> \in Number!Operations /\ n - m = Number!Effect("-=", m)
    BY <2>2 DEF Number!Operations, Number!Effect, Number!Numbers
  <2> QED
    BY <1>1, <1>5, <2>1, <2>2, <2>3 DEF Subtract
<1>6. ASSUME NEW r \in Words, NEW q \in Words, Multiply(r, q) PROVE value' \in UInts /\ Number!Next
  <2>1. FromMul(r, q) \in UInts /\ AsNumber(FromMul(r, q)) = (r * q) % (Word * Word)
    BY FromMulMultiplies
  <2>2. <<"mul", <<r, q>>>> \in Number!Operations /\ r * q = Number!Effect("mul", <<r, q>>)
    BY DEF Number!Operations, Number!Effect
  <2> QED
    BY <1>1, <1>6, <2>1, <2>2 DEF Multiply
<1>7. ASSUME NEW d \in Words, Divide(d) PROVE value' \in UInts /\ Number!Next
  <2> DEFINE n == AsNumber(value)
  <2>0. d \in Words \ {0}
    BY <1>7 DEF Divide
  <2>1. Quotient(value, d) \in UInts /\ AsNumber(Quotient(value, d)) = (n \div d) % (Word * Word)
    BY <2>0, QuotientDivides
  <2>2. <<"/", d>> \in Number!Operations /\ n \div d = Number!Effect("/", d)
    BY <2>0 DEF Number!Operations, Number!Effect
  <2> QED
    BY <1>1, <1>7, <2>1, <2>2 DEF Divide
<1>8. ASSUME NEW bits \in Shifts, ShiftLeft(bits) PROVE value' \in UInts /\ Number!Next
  <2> DEFINE n == AsNumber(value)
  <2>1. /\ ShiftedLeft(value, bits) \in UInts
        /\ AsNumber(ShiftedLeft(value, bits)) = (n * Pow2[bits]) % (Word * Word)
    BY ShiftedLeftMultiplies
  <2>2. <<"<<", bits>> \in Number!Operations /\ n * Pow2[bits] = Number!Effect("<<", bits)
    BY DEF Number!Operations, Number!Effect, Number!Pow2, Pow2
  <2> QED
    BY <1>1, <1>8, <2>1, <2>2 DEF ShiftLeft
<1>9. ASSUME NEW bits \in Shifts, ShiftRight(bits) PROVE value' \in UInts /\ Number!Next
  <2> DEFINE n == AsNumber(value)
  <2>1. /\ ShiftedRight(value, bits) \in UInts
        /\ AsNumber(ShiftedRight(value, bits)) = (n \div Pow2[bits]) % (Word * Word)
    BY ShiftedRightDivides
  <2>2. <<">>", bits>> \in Number!Operations /\ n \div Pow2[bits] = Number!Effect(">>", bits)
    BY DEF Number!Operations, Number!Effect, Number!Pow2, Pow2
  <2> QED
    BY <1>1, <1>9, <2>1, <2>2 DEF ShiftRight
<1> QED
  BY <1>2, <1>3, <1>4, <1>5, <1>6, <1>7, <1>8, <1>9 DEF Next

\* It begins with a number.
LEMMA NumberBegins ==
    ASSUME Init
    PROVE  value \in UInts /\ Number!Init
BY WordPairs DEF Init, Number!Init, Number!Numbers

\* uint128 implements the numbers modulo its range: ++, +=, -=, from_mul, /, <<
\* and >> compute what they do, for words of every width.
THEOREM UInt128ImplementsNumbers == Spec => ImplementsNumber
<1>1. Init => value \in UInts /\ Number!Init
  BY NumberBegins
<1>2. value \in UInts /\ [Next]_vars => (value \in UInts)' /\ [Number!Next]_<<AsNumber(value), last>>
  <2> SUFFICES ASSUME value \in UInts, [Next]_vars
               PROVE  (value \in UInts)' /\ [Number!Next]_<<AsNumber(value), last>>
    OBVIOUS
  <2>1. CASE Next
    BY <2>1, NumberSteps
  <2>2. CASE UNCHANGED vars
    BY <2>2 DEF vars, AsNumber
  <2> QED
    BY <2>1, <2>2
<1> QED
  BY <1>1, <1>2, PTL DEF Spec, ImplementsNumber, Number!Spec

\* A step of the library is one of uint128, of another part, or of none.
LEMMA UInt128Runs ==
    ASSUME [LibraryNext]_<<component, vars, third>>
    PROVE  component' = component /\ (component = "uint128" => Next \/ UNCHANGED vars)
<1>1. CASE UNCHANGED <<component, vars, third>>
  BY <1>1
<1>2. CASE NumbersStep
  BY <1>2 DEF NumbersStep, NumbersNext, UInt128Next, BitsNext, FloatsNext, RemapsNext
<1>3. CASE LibraryNext /\ ~NumbersStep
  BY <1>3 DEF LibraryNext, OptionsNext, CoroutinesNext, OwnersNext, CachesNext, MemoryNext,
      ScopesNext, ResultsNext
<1> QED
  BY <1>1, <1>2, <1>3

\* Where uint128 is the part that runs, its value is one.
HoldsUInt == component = "uint128" => value \in UInts

\* What a reachable state of the library has of uint128.
LEMMA UInt128Kept ==
    /\ LibraryInit => HoldsUInt /\ (component = "uint128" => Number!Init)
    /\ HoldsUInt /\ [LibraryNext]_<<component, vars, third>> => HoldsUInt'
<1>1. LibraryInit => HoldsUInt /\ (component = "uint128" => Number!Init)
  <2>1. LibraryInit /\ component = "uint128" => Init
    BY DEF LibraryInit, NumbersInit
  <2> QED
    BY <2>1, NumberBegins DEF HoldsUInt
<1>2. HoldsUInt /\ [LibraryNext]_<<component, vars, third>> => HoldsUInt'
  <2> SUFFICES ASSUME HoldsUInt, [LibraryNext]_<<component, vars, third>>, component' = "uint128"
               PROVE  value' \in UInts
    BY DEF HoldsUInt
  <2>1. value \in UInts /\ (Next \/ UNCHANGED vars)
    BY UInt128Runs DEF HoldsUInt
  <2>2. CASE Next
    BY <2>1, <2>2, NumberSteps
  <2>3. CASE UNCHANGED vars
    BY <2>1, <2>3 DEF vars
  <2> QED
    BY <2>1, <2>2, <2>3
<1> QED
  BY <1>1, <1>2

\* The same of uint128 as the part of the library that runs.
THEOREM NumbersOfTwoWords == LibrarySpec => ImplementsModularNumber
<1>1. LibraryInit => HoldsUInt /\ (component = "uint128" => Number!Init)
  BY UInt128Kept
<1>2. HoldsUInt /\ [LibraryNext]_<<component, vars, third>> => HoldsUInt'
  BY UInt128Kept
<1>3. HoldsUInt /\ [LibraryNext]_<<component, vars, third>>
        => [component = "uint128" => Number!Next \/ UNCHANGED vars]_<<component, vars>>
  <2> SUFFICES ASSUME HoldsUInt, [LibraryNext]_<<component, vars, third>>, component = "uint128"
               PROVE  Number!Next \/ UNCHANGED vars
    OBVIOUS
  <2> QED
    BY UInt128Runs, NumberSteps DEF HoldsUInt
<1> QED
  BY <1>1, <1>2, <1>3, PTL DEF LibrarySpec, ImplementsModularNumber
-----------------------------------------------------------------------------
(* The comparisons.                                                        *)

\* The high words decide if they differ.
LEMMA HighWordDecides ==
    ASSUME NEW u \in UInts, NEW v \in UInts, u.high < v.high
    PROVE  AsNumber(u) < AsNumber(v)
<1> DEFINE W == Word
           k == v.high - u.high - 1
<1>1. /\ u.low \in Nat /\ u.high \in Nat /\ u.low < W /\ v.low \in Nat /\ v.high \in Nat /\ W \in Nat
      /\ AsNumber(u) = (u.high * W) + u.low /\ AsNumber(v) = (v.high * W) + v.low
  BY WordPairs, WordPowers
<1>2. k \in Nat /\ v.high = u.high + 1 + k
  BY <1>1
<1> HIDE DEF W, k
<1>3. v.high * W = (u.high * W) + W + (k * W) /\ k * W \in Nat /\ u.high * W \in Nat
  BY <1>1, <1>2
<1> QED
  BY <1>1, <1>3

\* == and < are those of the numbers.
LEMMA ComparedAsNumbers ==
    ASSUME NEW u \in UInts, NEW v \in UInts
    PROVE  /\ EqualNumbers(u, v) <=> AsNumber(u) = AsNumber(v)
           /\ LessNumbers(u, v) <=> AsNumber(u) < AsNumber(v)
<1>1. /\ u.low \in Nat /\ u.high \in Nat /\ v.low \in Nat /\ v.high \in Nat
      /\ AsNumber(u) = (u.high * Word) + u.low /\ AsNumber(v) = (v.high * Word) + v.low
      /\ AsNumber(u) \in Nat /\ AsNumber(v) \in Nat /\ Word \in Nat
  BY WordPairs, WordPowers
<1>2. CASE u.high < v.high
  <2>1. AsNumber(u) < AsNumber(v)
    BY <1>2, HighWordDecides
  <2> QED
    BY <1>1, <1>2, <2>1 DEF EqualNumbers, LessNumbers
<1>3. CASE v.high < u.high
  <2>1. AsNumber(v) < AsNumber(u)
    BY <1>3, HighWordDecides
  <2> QED
    BY <1>1, <1>3, <2>1 DEF EqualNumbers, LessNumbers
<1>4. CASE u.high = v.high
  <2> DEFINE k == u.high * Word
  <2>1. k \in Nat /\ AsNumber(u) = k + u.low /\ AsNumber(v) = k + v.low
    BY <1>1, <1>4
  <2> HIDE DEF k
  <2> QED
    BY <1>1, <1>4, <2>1 DEF EqualNumbers, LessNumbers
<1> QED
  <2>1. u.high < v.high \/ v.high < u.high \/ u.high = v.high
    <3>1. u.high \in Int /\ v.high \in Int
      BY <1>1
    <3> QED
      BY <3>1
  <2> QED
    BY <1>2, <1>3, <1>4, <2>1

\* A word is the number with a high word of zero.
LEMMA WordAsNumber ==
    ASSUME NEW r \in Words
    PROVE  [low |-> r, high |-> 0] \in UInts /\ AsNumber([low |-> r, high |-> 0]) = r
<1>1. r \in Nat /\ Word \in Nat \ {0} /\ 0 * Word = 0
  BY WordPowers DEF Words
<1> QED
  BY <1>1 DEF UInts, Words, AsNumber

\* The overloads for words agree with them.
LEMMA WordsCompared ==
    ASSUME NEW u \in UInts, NEW r \in Words
    PROVE  /\ EqualWord(u, r) <=> AsNumber(u) = r
           /\ LessThanWord(u, r) <=> AsNumber(u) < r
           /\ WordLessThan(r, u) <=> r < AsNumber(u)
<1> DEFINE w == [low |-> r, high |-> 0]
<1>1. w \in UInts /\ AsNumber(w) = r /\ w.low = r /\ w.high = 0
  BY WordAsNumber
<1>2. u.low \in Nat /\ u.high \in Nat /\ r \in Nat
  BY WordPairs, WordPowers DEF Words
<1> HIDE DEF w
<1>3. /\ EqualNumbers(u, w) <=> AsNumber(u) = AsNumber(w)
      /\ LessNumbers(u, w) <=> AsNumber(u) < AsNumber(w)
      /\ LessNumbers(w, u) <=> AsNumber(w) < AsNumber(u)
  BY <1>1, ComparedAsNumbers
<1> QED
  BY <1>1, <1>2, <1>3 DEF EqualNumbers, LessNumbers, EqualWord, LessThanWord, WordLessThan

\* leading_zeros counts the shifts that lose nothing.
LEMMA LeadingZerosCount ==
    ASSUME value \in UInts
    PROVE  LeadingZerosFit
<1> DEFINE l == value.low
           h == value.high
           W == Word
           n == AsNumber(value)
           z == LeadingZeros(value)
<1>1. /\ l \in Nat /\ h \in Nat /\ l < W /\ h < W /\ n = (h * W) + l /\ n \in Nat
      /\ W \in Nat \ {0} /\ W * W \in Nat \ {0} /\ WordBits \in Nat \ {0}
      /\ W = 2 * TopBit /\ TopBit \in Nat
  BY WordPairs, WordPowers
<1>2. CASE h # 0
  <2>1. h \in 1..(Word - 1)
    BY <1>1, <1>2
  <2>2. /\ CountlZero(h) \in 0..(WordBits - 1)
        /\ h * Pow2[CountlZero(h)] < W /\ h * Pow2[CountlZero(h)] >= TopBit
    BY <2>1, LeadingZerosOfWord
  <2>3. z = CountlZero(h)
    BY <1>1, <2>2 DEF LeadingZeros
  <2> HIDE DEF z
  <2>4. z \in Nat /\ z < WordBits /\ z + 1 \in Nat \ {0} /\ (z + 1) - 1 = z
    BY <1>1, <2>2, <2>3
  <2> DEFINE p == Pow2[z]
             q == Pow2[WordBits - z]
  <2>5. p \in Nat \ {0} /\ q \in Nat \ {0} /\ W = p * q
    BY <2>4, ShiftFactors
  <2>6. Pow2[z + 1] = 2 * p
    BY <2>4, PowersOfTwo
  <2>7. h * p < W /\ h * p >= TopBit
    BY <2>2, <2>3
  <2> HIDE DEF n, W, l, h, p, q
  <2>8. h < q
    <3>1. ASSUME h >= q PROVE FALSE
      <4>1. h * p >= q * p
        <5> DEFINE k == h - q
        <5>1. k \in Nat /\ h = q + k
          BY <1>1, <2>5, <3>1
        <5> HIDE DEF k
        <5>2. h * p = (q * p) + (k * p) /\ k * p \in Nat /\ q * p \in Int
          BY <1>1, <2>5, <5>1
        <5> QED
          BY <5>2
      <4> QED
        BY <1>1, <2>5, <2>7, <4>1
    <3> QED
      BY <1>1, <2>5, <3>1
  <2>9. n * p < W * W
    <3> DEFINE k == q - h - 1
               e == k * W + W - l
    <3>1. k \in Nat /\ q = h + 1 + k
      BY <1>1, <2>5, <2>8
    <3> HIDE DEF k
    <3>2. q * W = (h * W) + W + (k * W) /\ k * W \in Nat /\ h * W \in Nat
      <4>1. h \in Int /\ W \in Nat /\ h \in Nat
        BY <1>1
      <4> QED
        BY <3>1, <4>1
    <3>3. e \in Nat \ {0} /\ q * W = n + e
      BY <1>1, <3>2
    <3> HIDE DEF e
    <3>4. (n + e) * p = (n * p) + (e * p) /\ e * p \in Nat \ {0} /\ n * p \in Nat
      <4>1. n \in Nat
        BY <1>1
      <4>2. e * p \in Nat /\ e * p > 0
        BY <2>5, <3>3
      <4> QED
        BY <2>5, <3>3, <4>1, <4>2
    <3>5. (q * W) * p = (p * q) * W
      <4>1. W \in Int
        BY <1>1
      <4> QED
        BY <2>5, <4>1
    <3>6. (q * W) * p = W * W
      BY <2>5, <3>5
    <3>7. W * W = (n * p) + (e * p)
      BY <3>3, <3>4, <3>6
    <3> QED
      BY <3>4, <3>7
  <2>10. n * (2 * p) >= W * W
    <3> DEFINE a == h * p
               k == a - TopBit
    <3>1. n * (2 * p) = ((2 * a) * W) + ((2 * l) * p) /\ (2 * l) * p \in Nat
      <4>1. h \in Nat /\ l \in Nat /\ W \in Nat /\ n = (h * W) + l
        BY <1>1
      <4>2. ((h * W) + l) * (2 * p) = ((2 * (h * p)) * W) + ((2 * l) * p)
        BY <2>5, <4>1
      <4> QED
        BY <2>5, <4>1, <4>2
    <3>2. a \in Nat /\ k \in Nat /\ 2 * a = W + (2 * k)
      <4>1. a \in Nat
        BY <1>1, <2>5
      <4> HIDE DEF a
      <4>2. a >= TopBit
        BY <2>7 DEF a
      <4> QED
        BY <1>1, <4>1, <4>2
    <3> HIDE DEF a, k
    <3>3. (2 * a) * W = (W * W) + ((2 * k) * W) /\ (2 * k) * W \in Nat
      <4>1. W \in Nat
        BY <1>1
      <4> QED
        BY <3>2, <4>1
    <3> QED
      BY <1>1, <3>1, <3>3
  <2> QED
    BY <2>6, <2>9, <2>10 DEF LeadingZerosFit, n, z, p, W
<1>3. CASE h = 0 /\ l # 0
  <2>1. l \in 1..(Word - 1) /\ CountlZero(h) = WordBits
    BY <1>1, <1>3 DEF CountlZero
  <2> DEFINE y == CountlZero(l)
             p == Pow2[y]
  <2>2. y \in 0..(WordBits - 1) /\ l * p < W /\ l * p >= TopBit
    BY <2>1, LeadingZerosOfWord
  <2>3. z = WordBits + y
    BY <2>1 DEF LeadingZeros
  <2> HIDE DEF y, z
  <2>4. /\ p \in Nat \ {0} /\ Pow2[z] = W * p /\ Pow2[z + 1] = 2 * (W * p)
    <3>1. y \in Nat /\ z \in Nat /\ z >= WordBits /\ z - WordBits = y
          /\ z + 1 \in Nat \ {0} /\ (z + 1) - 1 = z
      BY <1>1, <2>2, <2>3
    <3>2. Pow2[z] = W * p /\ p \in Nat \ {0}
      BY <3>1, ShiftFactors
    <3> QED
      BY <3>1, <3>2, PowersOfTwo
  <2>5. n = l
    <3>1. 0 * W = 0
      BY <1>1
    <3> QED
      BY <1>1, <1>3, <3>1
  <2> HIDE DEF n, W, l, h, p
  <2> DEFINE a == l * p
  <2>6. a \in Nat /\ a < W /\ 2 * a >= W
    <3>1. a \in Nat
      BY <1>1, <2>4
    <3>2. a < W /\ a >= TopBit
      BY <2>2
    <3> HIDE DEF a
    <3> QED
      BY <1>1, <3>1, <3>2
  <2>7. l * (W * p) = a * W /\ l * (2 * (W * p)) = (2 * a) * W
    <3>1. l \in Nat /\ W \in Nat
      BY <1>1
    <3> QED
      BY <2>4, <3>1
  <2> HIDE DEF a
  <2>8. a * W < W * W
    <3> DEFINE k == W - a
    <3>1. k \in Nat \ {0} /\ W = a + k /\ W \in Nat \ {0}
      BY <1>1, <2>6
    <3> HIDE DEF k
    <3>2. (a + k) * W = (a * W) + (k * W) /\ k * W \in Nat /\ k * W > 0 /\ a * W \in Nat
      BY <2>6, <3>1
    <3> QED
      BY <3>1, <3>2
  <2>9. (2 * a) * W >= W * W
    <3> DEFINE k == (2 * a) - W
    <3>1. k \in Nat /\ 2 * a = W + k /\ W \in Nat
      BY <1>1, <2>6
    <3> HIDE DEF k
    <3>2. (W + k) * W = (W * W) + (k * W) /\ k * W \in Nat /\ W * W \in Nat
      BY <3>1
    <3> QED
      BY <3>1, <3>2
  <2> QED
    BY <2>4, <2>5, <2>7, <2>8, <2>9 DEF LeadingZerosFit, n, z, W
<1>4. CASE h = 0 /\ l = 0
  <2>1. z = 2 * WordBits
    BY <1>1, <1>4 DEF LeadingZeros, CountlZero
  <2>2. n = 0
    <3>1. 0 * W = 0
      BY <1>1
    <3> QED
      BY <1>1, <1>4, <3>1
  <2>3. n * Pow2[z] < W * W
    <3>1. Pow2[z] \in Nat
      <4>1. 2 * WordBits \in Nat
        BY <1>1
      <4> QED
        BY <2>1, <4>1, PowersOfTwo
    <3> HIDE DEF n, z
    <3>2. n * Pow2[z] = 0
      BY <2>2, <3>1
    <3> QED
      BY <1>1, <3>2
  <2> QED
    BY <2>1, <2>3 DEF LeadingZerosFit
<1> QED
  BY <1>1, <1>2, <1>3, <1>4

\* The comparisons order the values of uint128 as numbers, those with words
\* too, and leading_zeros counts the shifts that lose nothing: for words of
\* every width.
THEOREM OrderOfTwoWords == LibrarySpec => []ComparesLikeNumbers
<1>1. LibraryInit => HoldsUInt
  BY UInt128Kept
<1>2. HoldsUInt /\ [LibraryNext]_<<component, vars, third>> => HoldsUInt'
  BY UInt128Kept
<1>3. HoldsUInt => ComparesLikeNumbers
  <2> SUFFICES ASSUME value \in UInts PROVE OrderedLikeNumbers /\ LeadingZerosFit
    BY DEF HoldsUInt, ComparesLikeNumbers
  <2>1. OrderedLikeNumbers
    BY ComparedAsNumbers, WordsCompared DEF OrderedLikeNumbers
  <2> QED
    BY <2>1, LeadingZerosCount
<1> QED
  BY <1>1, <1>2, <1>3, PTL DEF LibrarySpec

-----------------------------------------------------------------------------
(* remap_static, for integers of any number of bits.                       *)

\* The powers of two are the same in every part.
LEMMA SamePowers == Remaps!Pow2 = Pow2
BY DEF Remaps!Pow2, Pow2

\* The values of a type are those of its bits, with a sign or without, and
\* two of them are no further apart than its unsigned version tells.
LEMMA ValuesOfTypes ==
    ASSUME NEW type \in Types
    PROVE  /\ Remaps!ValuesOf(type) \subseteq Int
           /\ \A v \in Remaps!ValuesOf(type) : Remaps!Typed(v, type) = v
           /\ \A a, b \in Remaps!ValuesOf(type) :
                 a <= b => Remaps!Unsigned(b - a, type.w) = b - a
           /\ \A a, b \in Remaps!ValuesOf(type), v \in Int :
                 a <= v /\ v <= b => v \in Remaps!ValuesOf(type)
<1> DEFINE P == Pow2[type.w]
           H == Pow2[type.w - 1]
<1>1. type.w \in Nat \ {0} /\ type.w - 1 \in Nat /\ type.signed \in BOOLEAN
  BY NumbersAssumption
<1>2. P \in Nat \ {0} /\ H \in Nat \ {0} /\ P = 2 * H
  BY <1>1, PowersOfTwo
<1>3. /\ \A v : Remaps!Unsigned(v, type.w) = v % P
      /\ Remaps!ValuesOf(type) = IF type.signed THEN (-H)..(H - 1) ELSE 0..(P - 1)
      /\ \A v : Remaps!Typed(v, type) = IF type.signed /\ v % P >= H THEN (v % P) - P ELSE v % P
  BY SamePowers DEF Remaps!Unsigned, Remaps!ValuesOf, Remaps!Typed
<1> HIDE DEF P, H
<1>4. Remaps!ValuesOf(type) \subseteq Int
  BY <1>2, <1>3
<1>5. ASSUME NEW x \in Int, 0 <= x, x < P PROVE x % P = x
  <2>1. x = (P * 0) + x /\ x \in 0..(P - 1)
    BY <1>2, <1>5
  <2> QED
    BY <1>2, <2>1, Division
<1>6. ASSUME NEW v \in Remaps!ValuesOf(type) PROVE Remaps!Typed(v, type) = v
  <2>1. CASE v >= 0
    <3>1. v \in Int /\ v < P /\ (type.signed => v < H)
      BY <1>2, <1>3, <2>1
    <3>2. v % P = v
      BY <1>5, <2>1, <3>1
    <3> QED
      BY <1>2, <1>3, <3>1, <3>2
  <2>2. CASE v < 0
    <3>1. v \in Int /\ type.signed /\ -H <= v
      BY <1>2, <1>3, <2>2
    <3>2. v = (P * (-1)) + (v + P) /\ v + P \in 0..(P - 1)
      BY <1>2, <2>2, <3>1
    <3>3. v % P = v + P
      BY <1>2, <3>1, <3>2, Division
    <3> QED
      BY <1>2, <1>3, <3>1, <3>3
  <2> QED
    BY <1>4, <2>1, <2>2
<1>7. ASSUME NEW a \in Remaps!ValuesOf(type), NEW b \in Remaps!ValuesOf(type), a <= b
      PROVE  Remaps!Unsigned(b - a, type.w) = b - a
  <2>1. a \in Int /\ b \in Int /\ b - a < P
    BY <1>2, <1>3
  <2>2. (b - a) % P = b - a
    BY <1>5, <1>7, <2>1
  <2> QED
    BY <1>3, <2>2
<1>8. ASSUME NEW a \in Remaps!ValuesOf(type), NEW b \in Remaps!ValuesOf(type), NEW v \in Int,
             a <= v, v <= b
      PROVE  v \in Remaps!ValuesOf(type)
  BY <1>2, <1>3, <1>8
<1> QED
  BY <1>4, <1>6, <1>7, <1>8

\* The greatest common divisor is one.
LEMMA GcdDivides ==
    ASSUME NEW a \in Nat \ {0}, NEW b \in Nat \ {0}
    PROVE  Remaps!Gcd(a, b) \in Nat \ {0} /\ a % Remaps!Gcd(a, b) = 0 /\ b % Remaps!Gcd(a, b) = 0
<1> DEFINE D == {d \in 1..a : a % d = 0 /\ b % d = 0}
           T == {a - d : d \in D}
<1>1. 1 \in D
  <2>1. (1 * a) % 1 = 0 /\ (1 * b) % 1 = 0
    BY MultiplesLeaveNothing
  <2> QED
    BY <2>1
<1>2. a - 1 \in T /\ T \subseteq Nat
  BY <1>1
<1>3. PICK n \in T : \A m \in T : ~(<<m, n>> \in OpToRel(<, Nat))
  BY <1>2, NatLessThanWellFounded, WFMin
<1>4. PICK d \in D : n = a - d
  OBVIOUS
<1>5. ASSUME NEW e \in (d + 1)..a PROVE a % e # 0 \/ b % e # 0
  <2>1. CASE e \in D
    <3>1. a - e \in T
      BY <2>1
    <3>2. ~(a - e < a - d)
      BY <1>2, <1>3, <1>4, <3>1 DEF OpToRel
    <3> QED
      BY <1>4, <3>2
  <2>2. CASE e \notin D
    <3>1. e \in 1..a
      OBVIOUS
    <3> QED
      BY <2>2, <3>1
  <2> QED
    BY <2>1, <2>2
<1>6. d \in 1..a /\ a % d = 0 /\ b % d = 0
  OBVIOUS
<1> HIDE DEF D, T
<1>7. Remaps!Gcd(a, b) \in 1..a /\ a % Remaps!Gcd(a, b) = 0 /\ b % Remaps!Gcd(a, b) = 0
  <2>1. \E x \in 1..a : a % x = 0 /\ b % x = 0 /\ \A e \in (x + 1)..a : a % e # 0 \/ b % e # 0
    BY <1>5, <1>6
  <2> QED
    BY <2>1 DEF Remaps!Gcd
<1> QED
  BY <1>7

\* What a divisor leaves nothing of is a multiple of it.
LEMMA IsMultiple ==
    ASSUME NEW a \in Nat \ {0}, NEW d \in Nat \ {0}, a % d = 0
    PROVE  a = d * (a \div d) /\ a \div d \in Nat \ {0}
<1>1. a \div d \in Nat /\ a = (d * (a \div d)) + (a % d)
  BY DivMod, DivNat
<1>2. a = d * (a \div d)
  BY <1>1
<1>3. a \div d # 0
  <2>1. d * 0 = 0
    OBVIOUS
  <2> QED
    BY <1>2, <2>1
<1> QED
  BY <1>1, <1>2, <1>3

\* Larger numbers have no smaller quotients.
LEMMA QuotientGrows ==
    ASSUME NEW a \in Nat, NEW b \in Nat, NEW d \in Nat \ {0}, a <= b
    PROVE  /\ a \div d <= b \div d
           /\ a \div d = b \div d => a % d <= b % d
<1> DEFINE p == a \div d
           q == b \div d
           r == a % d
           s == b % d
<1>0. p \in Nat /\ q \in Nat
  BY DivNat
<1>1. p \in Nat /\ q \in Nat /\ r \in 0..(d - 1) /\ s \in 0..(d - 1)
      /\ a = (d * p) + r /\ b = (d * q) + s
  <2>1. r \in 0..(d - 1) /\ a = (d * p) + r
    BY DivMod
  <2>2. s \in 0..(d - 1) /\ b = (d * q) + s
    BY DivMod
  <2> QED
    BY <1>0, <2>1, <2>2
<1> HIDE DEF p, q, r, s
<1>2. p <= q
  <2> SUFFICES ASSUME q + 1 <= p PROVE FALSE
    BY <1>1
  <2> DEFINE k == p - (q + 1)
  <2>1. k \in Nat /\ p = (q + 1) + k
    BY <1>1
  <2> HIDE DEF k
  <2>2. d * p = (d * q) + d + (d * k) /\ d * k \in Nat /\ d * q \in Nat
    BY <1>1, <2>1
  <2> QED
    BY <1>1, <2>2
<1>3. p = q => r <= s
  BY <1>1
<1> QED
  BY <1>2, <1>3 DEF p, q, r, s

\* The fraction y / D, rounded by either way, and the line that a whole part and
\* such a fraction make, whose slope is N / D.
RoundedBy(way, D, y) ==
    IF way = "add" THEN (y + ((D \div 2) - 1)) \div D
    ELSE (y \div D) + (IF y % D > (D \div 2) + (D % 2) THEN 1 ELSE 0)
LineAt(way, D, N, x) ==
    (x * (N \div D)) + (IF D = 1 THEN 0 ELSE RoundedBy(way, D, x * (N % D)))

\* A fraction of D-ths, rounded by either way, is off by less than one, is
\* exact where there is nothing to round, and grows with the numerator.
LEMMA RoundingIsNear ==
    ASSUME NEW D \in Nat \ {0, 1}, NEW way \in {"add", "remainder"}
    PROVE  \A y \in Nat :
              /\ RoundedBy(way, D, y) \in Nat
              /\ -D < (D * RoundedBy(way, D, y)) - y /\ (D * RoundedBy(way, D, y)) - y < D
              /\ \A k \in Nat : y = D * k => RoundedBy(way, D, y) = k
              /\ \A z \in Nat : y <= z => RoundedBy(way, D, y) <= RoundedBy(way, D, z)
<1> DEFINE h == D \div 2
           H == h - 1
           M == h + (D % 2)
           Rd(y) == IF way = "add" THEN (y + H) \div D
                    ELSE (y \div D) + (IF y % D > M THEN 1 ELSE 0)
<1>1. H \in Nat /\ H < D /\ M \in Nat
  <2>1. h \in Nat /\ D % 2 \in 0..1 /\ D = (2 * h) + (D % 2)
    BY DivMod, DivNat
  <2> HIDE DEF h
  <2> QED
    BY <2>1
<1>0. \A y : RoundedBy(way, D, y) = Rd(y)
  BY DEF RoundedBy
<1> HIDE DEF H, M
<1>2. ASSUME NEW y \in Nat
      PROVE  Rd(y) \in Nat /\ -D < (D * Rd(y)) - y /\ (D * Rd(y)) - y < D
  <2>1. CASE way = "add"
    <3> DEFINE a == y + H
               q == a \div D
               r == a % D
    <3>1. a \in Nat /\ a \in Int /\ a = y + H
      BY <1>1
    <3>3. Rd(y) = q
      BY <2>1
    <3> HIDE DEF a, Rd
    <3>2. q \in Nat /\ r \in 0..(D - 1) /\ a = (D * q) + r
      <4>1. q \in Nat
        BY <3>1, DivNat
      <4>2. r \in 0..(D - 1) /\ a = (D * q) + r
        BY <3>1, DivMod
      <4> QED
        BY <4>1, <4>2
    <3> HIDE DEF q, r
    <3>4. D * q \in Nat
      BY <3>2
    <3> DEFINE p == D * q
    <3> HIDE DEF p
    <3>5. -D < p - y /\ p - y < D
      BY <1>1, <3>1, <3>2, <3>4 DEF p
    <3> QED
      BY <3>2, <3>3, <3>5 DEF p
  <2>2. CASE way # "add"
    <3> DEFINE q == y \div D
               r == y % D
               b == IF r > M THEN 1 ELSE 0
    <3>1. q \in Nat /\ r \in 0..(D - 1) /\ y = (D * q) + r
      <4>1. q \in Nat
        BY DivNat
      <4>2. r \in 0..(D - 1) /\ y = (D * q) + r
        BY DivMod
      <4> QED
        BY <4>1, <4>2
    <3>2. Rd(y) = q + b
      BY <2>2
    <3> HIDE DEF q, r, Rd
    <3>3. b \in {0, 1} /\ (b = 1 => r > 0)
      BY <1>1, <3>1
    <3> HIDE DEF b
    <3>4. D * (q + b) = (D * q) + (D * b) /\ D * q \in Nat /\ D * b = (IF b = 1 THEN D ELSE 0)
      BY <3>1, <3>3
    <3> DEFINE p == D * q
               s == D * (q + b)
    <3>5. s = p + (IF b = 1 THEN D ELSE 0) /\ p \in Nat /\ y = p + r
      BY <3>1, <3>4
    <3> HIDE DEF p, s
    <3>6. -D < s - y /\ s - y < D
      BY <3>1, <3>3, <3>5
    <3> QED
      BY <3>1, <3>2, <3>3, <3>6 DEF s
  <2> QED
    BY <2>1, <2>2
<1>3. ASSUME NEW k \in Nat, NEW y \in Nat, y = D * k PROVE Rd(y) = k
  <2>1. CASE way = "add"
    <3>1. y + H = (D * k) + H /\ H \in 0..(D - 1) /\ y + H \in Int
      BY <1>1, <1>3
    <3>2. (y + H) \div D = k
      BY <3>1, Division
    <3> QED
      BY <2>1, <3>2
  <2>2. CASE way # "add"
    <3>1. y = (D * k) + 0 /\ 0 \in 0..(D - 1)
      BY <1>3
    <3>2. y \div D = k /\ y % D = 0
      BY <3>1, Division
    <3>3. ~(0 > M)
      BY <1>1
    <3> QED
      BY <2>2, <3>2, <3>3
  <2> QED
    BY <2>1, <2>2
<1>4. ASSUME NEW y \in Nat, NEW z \in Nat, y <= z PROVE Rd(y) <= Rd(z)
  <2>1. CASE way = "add"
    <3>1. y + H \in Nat /\ z + H \in Nat /\ y + H <= z + H
      BY <1>1, <1>4
    <3>2. (y + H) \div D <= (z + H) \div D
      BY <3>1, QuotientGrows
    <3> QED
      BY <2>1, <3>2
  <2>2. CASE way # "add"
    <3> DEFINE p == y \div D
               q == z \div D
               r == y % D
               s == z % D
    <3>1. p <= q /\ (p = q => r <= s)
      BY <1>4, QuotientGrows
    <3>2. p \in Nat /\ q \in Nat
      BY DivNat
    <3>3. r \in Nat /\ s \in Nat
      BY DivMod
    <3>4. Rd(y) = p + (IF r > M THEN 1 ELSE 0) /\ Rd(z) = q + (IF s > M THEN 1 ELSE 0)
      BY <2>2
    <3> HIDE DEF p, q, r, s, Rd
    <3> QED
      BY <1>1, <3>1, <3>2, <3>3, <3>4
  <2> QED
    BY <2>1, <2>2
<1> HIDE DEF Rd
<1>5. ASSUME NEW y \in Nat
      PROVE  /\ RoundedBy(way, D, y) \in Nat
             /\ -D < (D * RoundedBy(way, D, y)) - y /\ (D * RoundedBy(way, D, y)) - y < D
  BY <1>0, <1>2
<1>6. ASSUME NEW y \in Nat, NEW k \in Nat, y = D * k PROVE RoundedBy(way, D, y) = k
  BY <1>0, <1>3, <1>6
<1>7. ASSUME NEW y \in Nat, NEW z \in Nat, y <= z
      PROVE  RoundedBy(way, D, y) <= RoundedBy(way, D, z)
  BY <1>0, <1>4, <1>7
<1> QED
  BY <1>5, <1>6, <1>7

\* It goes from 0 to Q while its argument goes from 0 to R, never back, and is
\* off the straight line by less than one.
Straight(way, D, N, R, Q) ==
    /\ LineAt(way, D, N, 0) = 0 /\ LineAt(way, D, N, R) = Q
    /\ \A x \in Nat :
         /\ LineAt(way, D, N, x) \in Nat
         /\ -R < (LineAt(way, D, N, x) * R) - (x * Q)
         /\ (LineAt(way, D, N, x) * R) - (x * Q) < R
         /\ \A z \in Nat : x <= z => LineAt(way, D, N, x) <= LineAt(way, D, N, z)

\* So it is with whole and fraction of an offset, for the two extents divided
\* by their greatest common divisor, D and N.
LEMMA LineIsStraight ==
    ASSUME NEW D \in Nat \ {0}, NEW N \in Nat \ {0}, NEW g \in Nat \ {0}, NEW way \in {"add", "remainder"}
    PROVE  Straight(way, D, N, g * D, g * N)
<1> DEFINE Rd(y) == RoundedBy(way, D, y)
           W == N \div D
           F == N % D
           Rest(x) == IF D = 1 THEN 0 ELSE Rd(x * F)
           At(x) == (x * W) + Rest(x)
<1>0. \A x : LineAt(way, D, N, x) = At(x)
  BY DEF LineAt
<1>1. W \in Nat /\ F \in 0..(D - 1) /\ N = (D * W) + F
  <2>1. W \in Nat
    BY DivNat
  <2>2. F \in 0..(D - 1) /\ N = (D * W) + F
    BY DivMod
  <2> QED
    BY <2>1, <2>2
<1> HIDE DEF W, F
<1>2. F \in Nat /\ \A x \in Nat : x * F \in Nat /\ x * W \in Nat
  BY <1>1
<1>3. ASSUME NEW x \in Nat
      PROVE  /\ Rest(x) \in Nat /\ -D < (D * Rest(x)) - (x * F) /\ (D * Rest(x)) - (x * F) < D
             /\ \A k \in Nat : x * F = D * k => Rest(x) = k
             /\ \A z \in Nat : x <= z => Rest(x) <= Rest(z)
  <2>1. CASE D = 1
    <3>1. F = 0 /\ x * F = 0 /\ Rest(x) = 0 /\ \A z \in Nat : Rest(z) = 0
      BY <1>1, <2>1
    <3> HIDE DEF Rest
    <3>2. \A k \in Nat : D * k = k
      BY <2>1
    <3> QED
      BY <2>1, <3>1, <3>2
  <2>2. CASE D # 1
    <3>1. D \in Nat \ {0, 1}
      BY <2>2
    <3>2. Rest(x) = Rd(x * F) /\ \A z \in Nat : Rest(z) = Rd(z * F)
      BY <2>2
    <3> HIDE DEF Rest
    <3>3. \A y \in Nat :
             /\ Rd(y) \in Nat /\ -D < (D * Rd(y)) - y /\ (D * Rd(y)) - y < D
             /\ \A k \in Nat : y = D * k => Rd(y) = k
             /\ \A z \in Nat : y <= z => Rd(y) <= Rd(z)
      BY <3>1, RoundingIsNear
    <3> HIDE DEF Rd
    <3>4. ASSUME NEW z \in Nat, x <= z PROVE x * F <= z * F
      <4> DEFINE k == z - x
      <4>1. k \in Nat /\ z = x + k
        BY <3>4
      <4> HIDE DEF k
      <4>2. z * F = (x * F) + (k * F) /\ k * F \in Nat /\ x * F \in Nat
        BY <1>2, <4>1
      <4> DEFINE a == x * F
                 b == z * F
                 c == k * F
      <4>3. b = a + c /\ c \in Nat /\ a \in Nat
        BY <4>2
      <4> HIDE DEF a, b, c
      <4>4. a <= b
        BY <4>3
      <4> QED
        BY <4>4 DEF a, b
    <3>5. x * F \in Nat
      BY <1>2
    <3>6. Rest(x) \in Nat /\ -D < (D * Rest(x)) - (x * F) /\ (D * Rest(x)) - (x * F) < D
      BY <3>2, <3>3, <3>5
    <3>7. \A k \in Nat : x * F = D * k => Rest(x) = k
      BY <3>2, <3>3, <3>5
    <3>8. ASSUME NEW z \in Nat, x <= z PROVE Rest(x) <= Rest(z)
      <4>1. z * F \in Nat /\ x * F <= z * F
        BY <1>2, <3>4, <3>8
      <4> QED
        BY <3>2, <3>3, <3>5, <4>1
    <3> QED
      BY <3>6, <3>7, <3>8
  <2> QED
    BY <2>1, <2>2
<1> HIDE DEF Rest
<1>4. At(0) = 0
  <2>1. 0 * F = 0 /\ D * 0 = 0 /\ 0 * W = 0
    BY <1>1, <1>2
  <2>2. Rest(0) = 0
    BY <1>3, <2>1
  <2> QED
    BY <2>1, <2>2
<1>5. At(g * D) = g * N
  <2>1. g * D \in Nat /\ g * F \in Nat /\ (g * D) * F = D * (g * F)
    BY <1>2
  <2>2. Rest(g * D) = g * F
    BY <1>3, <2>1
  <2>3. ((g * D) * W) + (g * F) = g * ((D * W) + F)
    BY <1>1, <1>2
  <2> QED
    BY <1>1, <2>2, <2>3
<1>6. ASSUME NEW x \in Nat
      PROVE  /\ At(x) \in Nat
             /\ -(g * D) < (At(x) * (g * D)) - (x * (g * N))
             /\ (At(x) * (g * D)) - (x * (g * N)) < g * D
  <2> DEFINE r == Rest(x)
             e == (D * r) - (x * F)
  <2>1. r \in Nat /\ -D < e /\ e < D /\ D * r \in Nat /\ x * F \in Nat /\ e \in Int
    <3>1. r \in Nat /\ -D < e /\ e < D
      BY <1>3
    <3> HIDE DEF r
    <3>2. D * r \in Nat
      BY <3>1
    <3>3. x * F \in Nat
      BY <1>2
    <3>4. e \in Int
      BY <3>2, <3>3
    <3> HIDE DEF e
    <3> QED
      BY <3>1, <3>2, <3>3, <3>4
  <2>2. At(x) = (x * W) + r
    OBVIOUS
  <2> HIDE DEF r, At
  <2>3. (((x * W) + r) * (g * D)) - (x * (g * ((D * W) + F))) = g * ((D * r) - (x * F))
    BY <1>1, <1>2, <2>1
  <2>4. (At(x) * (g * D)) - (x * (g * N)) = g * e
    BY <1>1, <2>2, <2>3
  <2> HIDE DEF e
  <2>5. -(g * D) < g * e /\ g * e < g * D
    <3> DEFINE p == D - e
               q == D + e
    <3>1. p \in Nat \ {0} /\ q \in Nat \ {0} /\ e = D - p /\ e = q - D
      BY <2>1
    <3> HIDE DEF p, q
    <3>2. g * p \in Nat \ {0} /\ g * q \in Nat \ {0}
      BY <3>1
    <3>3. g * e = (g * D) - (g * p) /\ g * e = (g * q) - (g * D) /\ g * D \in Nat
      BY <3>1
    <3> DEFINE a == g * p
               b == g * q
               c == g * D
               f == g * e
    <3>4. a \in Nat \ {0} /\ b \in Nat \ {0} /\ c \in Nat /\ f = c - a /\ f = b - c
      BY <3>2, <3>3
    <3> HIDE DEF a, b, c, f
    <3>5. -c < f /\ f < c
      BY <3>4
    <3> QED
      BY <3>5 DEF c, f
  <2> QED
    BY <1>2, <2>1, <2>2, <2>4, <2>5
<1>7. ASSUME NEW x \in Nat, NEW z \in Nat, x <= z PROVE At(x) <= At(z)
  <2> DEFINE k == z - x
  <2>1. k \in Nat /\ z = x + k
    BY <1>7
  <2> HIDE DEF k
  <2>2. z * W = (x * W) + (k * W) /\ k * W \in Nat /\ x * W \in Nat
    BY <1>1, <1>2, <2>1
  <2>3. Rest(x) \in Nat /\ Rest(z) \in Nat /\ Rest(x) <= Rest(z)
    BY <1>3, <1>7
  <2> DEFINE a == x * W
             b == z * W
             c == k * W
  <2>4. a \in Nat /\ c \in Nat /\ b = a + c
    BY <2>2
  <2> HIDE DEF a, b, c
  <2>5. a + Rest(x) <= b + Rest(z)
    BY <2>3, <2>4
  <2> QED
    BY <2>5 DEF a, b
<1> HIDE DEF At
<1>8. LineAt(way, D, N, 0) = 0 /\ LineAt(way, D, N, g * D) = g * N
  BY <1>0, <1>4, <1>5
<1>9. ASSUME NEW x \in Nat
      PROVE  /\ LineAt(way, D, N, x) \in Nat
             /\ -(g * D) < (LineAt(way, D, N, x) * (g * D)) - (x * (g * N))
             /\ (LineAt(way, D, N, x) * (g * D)) - (x * (g * N)) < g * D
  BY <1>0, <1>6
<1>10. ASSUME NEW x \in Nat, NEW z \in Nat, x <= z
       PROVE  LineAt(way, D, N, x) <= LineAt(way, D, N, z)
  BY <1>0, <1>7, <1>10
<1> QED
  BY <1>8, <1>9, <1>10 DEF Straight
-----------------------------------------------------------------------------
(* Instantiations of remap_static.                                         *)

\* The static assertions, and the constants that come of the parameters.
RemapInv(r) ==
    /\ r.src \in Types /\ r.dest \in Types
    /\ r.srcMin \in Remaps!ValuesOf(r.src) /\ r.srcMax \in Remaps!ValuesOf(r.src)
    /\ r.destMin \in Remaps!ValuesOf(r.dest) /\ r.destMax \in Remaps!ValuesOf(r.dest)
    /\ r.srcMin < r.srcMax /\ r.destMin < r.destMax
    /\ r.gcd = Remaps!Gcd(Remaps!Extent(r.destMin, r.destMax, r.dest),
                          Remaps!Extent(r.srcMin, r.srcMax, r.src))

\* The extents are the distances of the ends, and divided by their greatest
\* common divisor they are numerator and denominator.
LEMMA ExtentsDivided ==
    ASSUME NEW r, RemapInv(r)
    PROVE  /\ Remaps!SrcRange(r) = r.srcMax - r.srcMin /\ Remaps!DestRange(r) = r.destMax - r.destMin
           /\ Remaps!Den(r) \in Nat \ {0} /\ Remaps!Num(r) \in Nat \ {0} /\ r.gcd \in Nat \ {0}
           /\ Remaps!SrcRange(r) = r.gcd * Remaps!Den(r)
           /\ Remaps!DestRange(r) = r.gcd * Remaps!Num(r)
           /\ Remaps!SrcRange(r) \in Nat \ {0} /\ Remaps!DestRange(r) \in Nat \ {0}
<1> DEFINE R == Remaps!SrcRange(r)
           Q == Remaps!DestRange(r)
<1>1. R = r.srcMax - r.srcMin
  BY ValuesOfTypes DEF RemapInv, Remaps!SrcRange, Remaps!Extent
<1>2. Q = r.destMax - r.destMin
  BY ValuesOfTypes DEF RemapInv, Remaps!DestRange, Remaps!Extent
<1>3. R \in Nat \ {0} /\ Q \in Nat \ {0}
  <2>1. r.srcMin \in Int /\ r.srcMax \in Int /\ r.destMin \in Int /\ r.destMax \in Int
    BY ValuesOfTypes DEF RemapInv
  <2>2. r.srcMin < r.srcMax /\ r.destMin < r.destMax
    BY DEF RemapInv
  <2> QED
    BY <1>1, <1>2, <2>1, <2>2
<1>4. r.gcd = Remaps!Gcd(Q, R)
  BY DEF RemapInv, Remaps!SrcRange, Remaps!DestRange
<1>5. Remaps!Den(r) = R \div r.gcd /\ Remaps!Num(r) = Q \div r.gcd
  BY DEF Remaps!Den, Remaps!Num
<1> HIDE DEF R, Q
<1>6. r.gcd \in Nat \ {0} /\ Q % r.gcd = 0 /\ R % r.gcd = 0
  BY <1>3, <1>4, GcdDivides
<1>7. R = r.gcd * Remaps!Den(r) /\ Remaps!Den(r) \in Nat \ {0}
  BY <1>3, <1>5, <1>6, IsMultiple
<1>8. Q = r.gcd * Remaps!Num(r) /\ Remaps!Num(r) \in Nat \ {0}
  BY <1>3, <1>5, <1>6, IsMultiple
<1> QED
  BY <1>1, <1>2, <1>3, <1>6, <1>7, <1>8 DEF R, Q

\* How far a value of the source goes from the least one of the destination.
Progress(r, x) ==
    (x * Remaps!Whole(r))
      + (IF Remaps!Den(r) = 1 THEN 0 ELSE Remaps!Rounded(r, x * Remaps!Frac(r)))

\* It goes from one end to the other, never back, and is off by less than one.
LEMMA ProgressIsStraight ==
    ASSUME NEW r, RemapInv(r)
    PROVE  LET R == Remaps!SrcRange(r)
               Q == Remaps!DestRange(r)
           IN  /\ Progress(r, 0) = 0 /\ Progress(r, R) = Q
               /\ \A x \in Nat :
                    /\ Progress(r, x) \in Nat
                    /\ -R < (Progress(r, x) * R) - (x * Q)
                    /\ (Progress(r, x) * R) - (x * Q) < R
                    /\ \A z \in Nat : x <= z => Progress(r, x) <= Progress(r, z)
<1>1. PICK D \in Nat \ {0}, N \in Nat \ {0}, g \in Nat \ {0} :
          D = Remaps!Den(r) /\ N = Remaps!Num(r)
          /\ Remaps!SrcRange(r) = g * D /\ Remaps!DestRange(r) = g * N
  BY ExtentsDivided
<1>2. PICK way \in {"add", "remainder"} :
          (way = "add") <=> \/ Remaps!In128(r) \/ Remaps!HasLargerVersion(Remaps!FracWidth(r))
                            \/ ~Remaps!WillOverflowAdd(Remaps!SrcRange(r) * Remaps!Frac(r),
                                                       Remaps!HalfDen(r), Remaps!FracWidth(r))
  OBVIOUS
<1> DEFINE R == Remaps!SrcRange(r)
           Q == Remaps!DestRange(r)
<1>3. ASSUME NEW y PROVE Remaps!Rounded(r, y) = RoundedBy(way, D, y)
  BY <1>1, <1>2 DEF Remaps!Rounded, Remaps!HalfDen, RoundedBy
<1>4. ASSUME NEW x PROVE Progress(r, x) = LineAt(way, D, N, x)
  <2>1. Remaps!Rounded(r, x * (N % D)) = RoundedBy(way, D, x * (N % D))
    BY <1>3
  <2> QED
    BY <1>1, <2>1 DEF Progress, Remaps!Whole, Remaps!Frac, LineAt
<1>5. Straight(way, D, N, R, Q)
  BY <1>1, LineIsStraight
<1> QED
  BY <1>4, <1>5 DEF Straight

\* A value of the source arrives as far from the least of the destination as it
\* goes.
LEMMA RemappedByProgress ==
    ASSUME NEW r, RemapInv(r), NEW v \in r.srcMin..r.srcMax
    PROVE  Remaps!Remapped(r, v) =
              IF r.srcMin = r.destMin /\ r.srcMax = r.destMax THEN v
              ELSE Progress(r, v - r.srcMin) + r.destMin
<1> DEFINE R == Remaps!SrcRange(r)
           Q == Remaps!DestRange(r)
           x == v - r.srcMin
           p == Progress(r, x)
<1>1. /\ r.srcMin \in Int /\ r.srcMax \in Int /\ r.destMin \in Int /\ r.destMax \in Int
      /\ v \in Int /\ r.srcMin <= v /\ v <= r.srcMax
      /\ R = r.srcMax - r.srcMin /\ Q = r.destMax - r.destMin /\ Q \in Nat /\ R \in Nat
  BY ValuesOfTypes, ExtentsDivided DEF RemapInv
<1>2. Remaps!Unsigned(v - r.srcMin, r.src.w) = x
  <2>1. v \in Remaps!ValuesOf(r.src) /\ r.src \in Types
    BY <1>1, ValuesOfTypes DEF RemapInv
  <2> QED
    BY <1>1, <2>1, ValuesOfTypes DEF RemapInv
<1>3. x \in Nat /\ x <= R
  BY <1>1
<1>4. p \in Nat /\ p <= Q
  <2>1. p \in Nat /\ Progress(r, x) <= Progress(r, R) /\ Progress(r, R) = Q
    BY <1>1, <1>3, ProgressIsStraight
  <2> QED
    BY <2>1
<1> HIDE DEF x, p, Q, R
<1>5. p + r.destMin \in Remaps!ValuesOf(r.dest)
  <2>1. p + r.destMin \in Int /\ r.destMin <= p + r.destMin /\ p + r.destMin <= r.destMax
    BY <1>1, <1>4
  <2> QED
    BY <2>1, ValuesOfTypes DEF RemapInv
<1>6. Remaps!Unsigned(p, r.dest.w) = p
  <2>1. (p + r.destMin) - r.destMin = p /\ r.destMin <= p + r.destMin
    BY <1>1, <1>4
  <2>2. Remaps!Unsigned((p + r.destMin) - r.destMin, r.dest.w) = (p + r.destMin) - r.destMin
    BY <1>5, <2>1, ValuesOfTypes DEF RemapInv
  <2> QED
    BY <2>1, <2>2
<1>7. Remaps!Typed(p + r.destMin, r.dest) = p + r.destMin
  BY <1>5, ValuesOfTypes DEF RemapInv
<1>8. Remaps!Remapped(r, v) =
         IF r.srcMin = r.destMin /\ r.srcMax = r.destMax THEN v
         ELSE Remaps!Typed(Remaps!Unsigned(p, r.dest.w) + r.destMin, r.dest)
  BY <1>2 DEF Remaps!Remapped, Progress, p, x
<1> QED
  BY <1>6, <1>7, <1>8 DEF p, x

\* Every instantiation is a straight line between the ranges.
LEMMA RemapIsLinear ==
    ASSUME NEW r, RemapInv(r)
    PROVE  LET at == [v \in r.srcMin..r.srcMax |-> Remaps!Remapped(r, v)]
               Error(v) == ((at[v] - r.destMin) * Remaps!SrcRange(r))
                             - ((v - r.srcMin) * Remaps!DestRange(r))
           IN  /\ at[r.srcMin] = r.destMin /\ at[r.srcMax] = r.destMax
               /\ \A v \in r.srcMin..r.srcMax :
                    /\ -Remaps!SrcRange(r) < Error(v) /\ Error(v) < Remaps!SrcRange(r)
                    /\ v > r.srcMin => at[v - 1] <= at[v]
<1> DEFINE R == Remaps!SrcRange(r)
           Q == Remaps!DestRange(r)
           a == r.srcMin
           b == r.srcMax
           c == r.destMin
           d == r.destMax
           at == [v \in a..b |-> Remaps!Remapped(r, v)]
<1>1. /\ a \in Int /\ b \in Int /\ c \in Int /\ d \in Int /\ a < b
      /\ R = b - a /\ Q = d - c /\ Q \in Nat \ {0} /\ R \in Nat \ {0}
  BY ValuesOfTypes, ExtentsDivided DEF RemapInv
<1>2. ASSUME NEW v \in a..b
      PROVE  at[v] = IF a = c /\ b = d THEN v ELSE Progress(r, v - a) + c
  BY RemappedByProgress
<1>3. /\ Progress(r, 0) = 0 /\ Progress(r, R) = Q
      /\ \A x \in Nat :
            /\ Progress(r, x) \in Nat
            /\ -R < (Progress(r, x) * R) - (x * Q) /\ (Progress(r, x) * R) - (x * Q) < R
            /\ \A z \in Nat : x <= z => Progress(r, x) <= Progress(r, z)
  BY ProgressIsStraight
<1> HIDE DEF at, R, Q, a, b, c, d
<1>4. at[a] = c /\ at[b] = d
  <2>1. a \in a..b /\ b \in a..b /\ a - a = 0 /\ b - a = R /\ Q + c = d /\ 0 + c = c
    BY <1>1
  <2> QED
    BY <1>2, <1>3, <2>1
<1>5. ASSUME NEW v \in a..b
      PROVE  LET e == ((at[v] - c) * R) - ((v - a) * Q)
             IN  -R < e /\ e < R
  <2>1. CASE a = c /\ b = d
    <3>1. at[v] - c = v - a /\ R = Q
      BY <1>1, <1>2, <2>1
    <3> DEFINE x == v - a
               y == x * Q
    <3>2. x \in Int
      BY <1>1
    <3> HIDE DEF x
    <3>3. y \in Int
      BY <1>1, <3>2
    <3> HIDE DEF y
    <3>4. -R < y - y /\ y - y < R
      BY <1>1, <3>3
    <3> QED
      BY <3>1, <3>4 DEF x, y
  <2>2. CASE ~(a = c /\ b = d)
    <3> DEFINE x == v - a
               p == Progress(r, x)
    <3>1. x \in Nat
      BY <1>1
    <3>2. p \in Nat /\ -R < (p * R) - (x * Q) /\ (p * R) - (x * Q) < R
      BY <1>3, <3>1
    <3>3. at[v] = p + c
      BY <1>2, <2>2
    <3> HIDE DEF p, x
    <3>4. at[v] - c = p
      BY <1>1, <3>2, <3>3
    <3> QED
      BY <3>2, <3>4 DEF x
  <2> QED
    BY <2>1, <2>2
<1>6. ASSUME NEW v \in a..b, v > a PROVE at[v - 1] <= at[v]
  <2> DEFINE x == v - a
             y == (v - 1) - a
  <2>1. v - 1 \in a..b /\ x \in Nat /\ y \in Nat /\ y <= x /\ v \in Int
    BY <1>1, <1>6
  <2>2. CASE a = c /\ b = d
    <3>1. at[v] = v /\ at[v - 1] = v - 1
      BY <1>2, <2>1, <2>2
    <3> QED
      BY <2>1, <3>1
  <2>3. CASE ~(a = c /\ b = d)
    <3>1. at[v] = Progress(r, x) + c
      BY <1>2, <2>3
    <3>2. at[v - 1] = Progress(r, y) + c
      BY <1>2, <2>1, <2>3
    <3> HIDE DEF x, y
    <3>3. Progress(r, x) \in Nat /\ Progress(r, y) \in Nat /\ Progress(r, y) <= Progress(r, x)
      BY <1>3, <2>1
    <3> QED
      BY <1>1, <3>1, <3>2, <3>3
  <2> QED
    BY <2>2, <2>3
<1> QED
  BY <1>4, <1>5, <1>6 DEF at, R, Q, a, b, c, d

\* remap_static takes the ends of one range to the ends of the other, no value
\* is off by as much as one, and larger values never become smaller ones, for
\* integer types of any width and any ranges, and whichever way the fraction is
\* rounded.
THEOREM RemapsAreLinear == LibrarySpec => []RemapsLinearly
<1> DEFINE Inv == component = "remaps" => (last.op # "none" => RemapInv(last))
<1>1. LibraryInit => Inv
  <2>1. LibraryInit /\ component = "remaps" => Remaps!Init
    BY DEF LibraryInit, NumbersInit
  <2> QED
    BY <2>1 DEF Remaps!Init
<1>2. Inv /\ [LibraryNext]_<<component, vars, third>> => Inv'
  <2> SUFFICES ASSUME Inv, [LibraryNext]_<<component, vars, third>>,
                      component' = "remaps", last'.op # "none"
               PROVE  RemapInv(last')
    OBVIOUS
  <2>1. component = "remaps" /\ (Remaps!Next \/ last' = last)
    <3>1. CASE NumbersStep
      BY <3>1 DEF NumbersStep, NumbersNext, UInt128Next, BitsNext, FloatsNext, RemapsNext
    <3>2. CASE LibraryNext /\ ~NumbersStep
      BY <3>2 DEF LibraryNext, OptionsNext, CoroutinesNext, OwnersNext, CachesNext, MemoryNext,
          ScopesNext, ResultsNext
    <3>3. CASE UNCHANGED <<component, vars, third>>
      BY <3>3 DEF vars
    <3> QED
      BY <3>1, <3>2, <3>3
  <2>2. CASE last' = last
    BY <2>1, <2>2
  <2>3. CASE Remaps!Next
    <3>0. PICK src \in Types, dest \in Types, has128 \in BOOLEAN :
             \E srcMin, srcMax \in Remaps!ValuesOf(src), destMin, destMax \in Remaps!ValuesOf(dest) :
             /\ srcMin < srcMax /\ destMin < destMax
             /\ last' = [op |-> "remap", src |-> src, dest |-> dest, has128 |-> has128,
                         srcMin |-> srcMin, srcMax |-> srcMax, destMin |-> destMin, destMax |-> destMax,
                         gcd |-> Remaps!Gcd(Remaps!Extent(destMin, destMax, dest),
                                           Remaps!Extent(srcMin, srcMax, src))]
      BY <2>3 DEF Remaps!Next, Remaps!Instantiate
    <3>1. PICK srcMin \in Remaps!ValuesOf(src), srcMax \in Remaps!ValuesOf(src),
               destMin \in Remaps!ValuesOf(dest), destMax \in Remaps!ValuesOf(dest) :
             /\ srcMin < srcMax /\ destMin < destMax
             /\ last' = [op |-> "remap", src |-> src, dest |-> dest, has128 |-> has128,
                         srcMin |-> srcMin, srcMax |-> srcMax, destMin |-> destMin, destMax |-> destMax,
                         gcd |-> Remaps!Gcd(Remaps!Extent(destMin, destMax, dest),
                                           Remaps!Extent(srcMin, srcMax, src))]
      BY <3>0
    <3>2. /\ last'.src = src /\ last'.dest = dest
          /\ last'.srcMin = srcMin /\ last'.srcMax = srcMax
          /\ last'.destMin = destMin /\ last'.destMax = destMax
          /\ last'.gcd = Remaps!Gcd(Remaps!Extent(destMin, destMax, dest),
                                    Remaps!Extent(srcMin, srcMax, src))
      BY <3>1
    <3> QED
      BY <3>1, <3>2 DEF RemapInv
  <2> QED
    BY <2>1, <2>2, <2>3
<1>3. Inv => RemapsLinearly
  <2>1. ASSUME component = "remaps", last.op # "none", RemapInv(last) PROVE Remaps!RemapsLinearly
    BY <2>1, RemapIsLinear DEF Remaps!RemapsLinearly
  <2> QED
    BY <2>1 DEF RemapsLinearly, Remaps!RemapsLinearly
<1> QED
  BY <1>1, <1>2, <1>3, PTL DEF LibrarySpec
-----------------------------------------------------------------------------
(* bit_float, for formats of any number of bits.                           *)

\* The powers of two are the same here, too.
LEMMA FloatPowers == Floats!Pow2 = Pow2
BY DEF Floats!Pow2, Pow2

\* A larger power is a multiple of a smaller one, by two or more.
LEMMA PowersGrow ==
    ASSUME NEW a \in Nat, NEW b \in Nat, a <= b
    PROVE  /\ Pow2[a] \in Nat \ {0} /\ Pow2[b] \in Nat \ {0} /\ Pow2[b - a] \in Nat \ {0}
           /\ Pow2[b] = Pow2[a] * Pow2[b - a] /\ Pow2[a] <= Pow2[b]
           /\ a < b => 2 * Pow2[a] <= Pow2[b]
<1> DEFINE p == Pow2[a]
           q == Pow2[b - a]
           r == Pow2[(b - a) - 1]
<1>1. b - a \in Nat /\ a + (b - a) = b
  OBVIOUS
<1>2. p \in Nat \ {0} /\ q \in Nat \ {0} /\ Pow2[b] \in Nat \ {0}
  BY <1>1, PowersOfTwo
<1>3. Pow2[b] = p * q
  BY <1>1, PowerOfSum
<1>4. a < b => r \in Nat \ {0} /\ q = 2 * r
  BY <1>1, PowersOfTwo
<1> HIDE DEF p, q, r
<1>5. p <= p * q
  BY <1>2
<1>6. ASSUME a < b PROVE 2 * p <= p * q
  <2>1. p * q = 2 * (p * r) /\ p <= p * r
    BY <1>2, <1>4, <1>6
  <2> QED
    BY <1>2, <1>4, <1>6, <2>1
<1> QED
  BY <1>2, <1>3, <1>5, <1>6 DEF p, q

\* M, E and S are what division finds in x.
Parts(A, B, M, E, S, x) ==
    /\ x \in 0..(((S + 1) * (A * B)) - 1)
    /\ x % A = M /\ (x \div A) % B = E /\ x \div (A * B) = S

\* Mantissa, exponent and sign, one behind the other, are found again.
LEMMA PartsAreFound ==
    ASSUME NEW A \in Nat \ {0}, NEW B \in Nat \ {0},
           NEW M \in 0..(A - 1), NEW E \in 0..(B - 1), NEW S \in {0, 1},
           NEW x, x = (M + (E * A)) + (S * (A * B))
    PROVE  Parts(A, B, M, E, S, x)
<1>1. E * A \in Nat /\ A * B \in Nat \ {0} /\ (S + 1) * (A * B) = (S * (A * B)) + (A * B)
  BY SMT
<1>2. M + (E * A) \in 0..((A * B) - 1)
  <2>1. PICK k \in Nat : B = (E + 1) + k
    <3>1. B - (E + 1) \in Nat /\ B = (E + 1) + (B - (E + 1))
      OBVIOUS
    <3> QED
      BY <3>1
  <2>2. A * B = ((E * A) + A) + (A * k) /\ A * k \in Nat
    BY <2>1
  <2> DEFINE c == A * B
             d == E * A
             h == A * k
  <2>3. c = (d + A) + h /\ h \in Nat /\ d \in Nat /\ c \in Nat
    BY <1>1, <2>2
  <2> HIDE DEF c, d, h
  <2>4. M + d \in 0..(c - 1)
    BY <2>3
  <2> QED
    BY <2>4 DEF c, d
<1>3. x \div (A * B) = S /\ x \in 0..(((S + 1) * (A * B)) - 1)
  <2> DEFINE c == A * B
             d == M + (E * A)
  <2>1. c \in Nat \ {0} /\ d \in 0..(c - 1) /\ x = d + (S * c) /\ (S + 1) * c = (S * c) + c
    BY <1>1, <1>2
  <2> HIDE DEF c, d
  <2>2. x = (c * S) + d /\ x \in Int
    BY <2>1
  <2>3. x \div c = S
    BY <2>1, <2>2, Division
  <2>4. x \in 0..(((S + 1) * c) - 1)
    BY <2>1, <2>2
  <2> QED
    BY <2>3, <2>4 DEF c
<1>4. x % A = M /\ x \div A = E + (S * B)
  <2>1. x = (A * (E + (S * B))) + M /\ E + (S * B) \in Int /\ x \in Int
    BY SMT
  <2> QED
    BY <2>1, Division
<1>5. (E + (S * B)) % B = E
  <2>1. E + (S * B) = (B * S) + E /\ E + (S * B) \in Int
    BY SMT
  <2> QED
    BY <2>1, Division
<1> QED
  BY <1>3, <1>4, <1>5 DEF Parts

\* Whatever is in them, they make the bits up.
LEMMA PartsMakeUp ==
    ASSUME NEW A \in Nat \ {0}, NEW B \in Nat \ {0}, NEW x \in 0..((2 * (A * B)) - 1)
    PROVE  /\ x % A \in 0..(A - 1) /\ (x \div A) % B \in 0..(B - 1) /\ x \div (A * B) \in {0, 1}
           /\ x = ((x % A) + (((x \div A) % B) * A)) + ((x \div (A * B)) * (A * B))
           /\ x < A * B => x \div (A * B) = 0
<1> DEFINE M == x % A
           q == x \div A
           E == q % B
           S == q \div B
<1>1. x \in Nat /\ M \in 0..(A - 1) /\ q \in Nat /\ x = (A * q) + M
  <2>1. x \in Nat
    BY SMT
  <2>2. q \in Nat
    BY <2>1, DivNat
  <2> QED
    BY <2>1, <2>2, DivMod
<1>2. E \in 0..(B - 1) /\ S \in Nat /\ q = (B * S) + E
  <2>1. S \in Nat
    BY <1>1, DivNat
  <2>2. q \in Int
    BY <1>1
  <2> HIDE DEF q
  <2> QED
    BY <2>1, <2>2, DivMod
<1> HIDE DEF M, q, E, S
<1>3. x = ((A * B) * S) + (M + (E * A))
  BY <1>1, <1>2
<1>4. M + (E * A) \in 0..((A * B) - 1) /\ A * B \in Nat \ {0}
  <2>1. x % A = M /\ M + (E * A) = (M + (E * A)) + (0 * (A * B)) /\ (0 + 1) * (A * B) = A * B
    BY <1>1, <1>2 DEF M
  <2>2. A * B \in Nat \ {0}
    BY SMT
  <2>3. M + (E * A) \in 0..(((0 + 1) * (A * B)) - 1)
    <3>1. Parts(A, B, M, E, 0, M + (E * A))
      BY <1>1, <1>2, <2>1, PartsAreFound
    <3> QED
      BY <3>1 DEF Parts
  <2> QED
    BY <2>1, <2>2, <2>3
<1>5. x \div (A * B) = S
  BY <1>1, <1>2, <1>3, <1>4, Division
<1>6. S \in {0, 1} /\ (x < A * B => S = 0)
  <2> DEFINE c == A * B
             d == M + (E * A)
  <2>1. c \in Nat \ {0} /\ d \in Nat /\ x = (c * S) + d /\ x < 2 * c
    BY <1>3, <1>4
  <2> HIDE DEF c, d
  <2>2. ASSUME S >= 2 PROVE FALSE
    <3>1. PICK k \in Nat : S = 2 + k
      <4>1. S - 2 \in Nat /\ S = 2 + (S - 2)
        BY <1>2, <2>2
      <4> QED
        BY <4>1
    <3>2. c * S = (2 * c) + (c * k) /\ c * k \in Nat
      BY <2>1, <3>1
    <3> QED
      BY <2>1, <3>2
  <2>3. S = 1 => x >= c
    BY <2>1
  <2> QED
    BY <1>2, <2>1, <2>2, <2>3 DEF c
<1> QED
  BY <1>1, <1>2, <1>3, <1>4, <1>5, <1>6 DEF M, E, q

\* What is assumed of a format, and that its exponents go from the least
\* actual value to one less than the one that stands for infinity.
LEMMA FormatFacts ==
    ASSUME NEW f \in Formats
    PROVE  /\ f.m \in Nat \ {0} /\ f.e \in Nat \ {0} /\ f.s \in BOOLEAN
           /\ Pow2[f.m] \in Nat \ {0} /\ Pow2[f.e] \in Nat \ {0} /\ Pow2[f.e - 1] \in Nat \ {0}
           /\ Pow2[f.e] = 2 * Pow2[f.e - 1]
           /\ Pow2[f.m + f.e] = Pow2[f.m] * Pow2[f.e]
           /\ Scale \in Nat /\ Scale - f.m >= Pow2[f.e - 1] - 1
<1>1. /\ f.m \in Nat \ {0} /\ f.e \in Nat \ {0} /\ f.s \in BOOLEAN /\ Scale \in Nat
      /\ Scale >= f.m + (Pow2[f.e - 1] - 1)
  <2>1. f \in [m : Nat \ {0}, e : Nat \ {0}, s : BOOLEAN]
    BY NumbersAssumption
  <2>2. Scale \in Nat /\ Scale >= f.m + (Pow2[f.e - 1] - 1)
    BY NumbersAssumption, FloatPowers DEF Floats!ExponentZero
  <2> QED
    BY <2>1, <2>2
<1>2. f.e - 1 \in Nat /\ f.m + f.e \in Nat
  BY <1>1
<1>3. /\ Pow2[f.m] \in Nat \ {0} /\ Pow2[f.e] \in Nat \ {0} /\ Pow2[f.e - 1] \in Nat \ {0}
      /\ Pow2[f.e] = 2 * Pow2[f.e - 1]
  BY <1>1, <1>2, PowersOfTwo
<1>4. Pow2[f.m + f.e] = Pow2[f.m] * Pow2[f.e]
  BY <1>1, PowerOfSum
<1>5. Scale - f.m >= Pow2[f.e - 1] - 1
  BY <1>1, <1>3
<1> QED
  BY <1>1, <1>3, <1>4, <1>5

\* How many bits there are.
LEMMA BitsOfFormat ==
    ASSUME NEW f \in Formats
    PROVE  Floats!BitsOf(f) = 0..((IF f.s THEN 2 * (Pow2[f.m] * Pow2[f.e]) ELSE Pow2[f.m] * Pow2[f.e]) - 1)
<1>1. f.m \in Nat /\ f.e \in Nat /\ Pow2[f.m + f.e] = Pow2[f.m] * Pow2[f.e]
  BY FormatFacts
<1>2. (f.m + f.e) + 1 \in Nat \ {0} /\ ((f.m + f.e) + 1) - 1 = f.m + f.e
  BY <1>1
<1>3. Pow2[(f.m + f.e) + 1] = 2 * Pow2[f.m + f.e]
  BY <1>2, PowersOfTwo
<1>4. f.m + f.e + 0 = f.m + f.e /\ f.m + f.e + 1 = (f.m + f.e) + 1
  BY <1>1
<1>5. CASE f.s
  BY <1>1, <1>3, <1>4, <1>5, FloatPowers DEF Floats!BitsOf
<1>6. CASE ~f.s
  BY <1>1, <1>4, <1>6, FloatPowers DEF Floats!BitsOf
<1> QED
  BY <1>5, <1>6

\* components_to_bits puts a number together, and its parts are found in it.
LEMMA FieldsOfComponents ==
    ASSUME NEW f \in Formats, NEW M \in 0..(Pow2[f.m] - 1), NEW E \in 0..(Pow2[f.e] - 1),
           NEW sign \in BOOLEAN, NEW b, b = Floats!ComponentsToBits(f, M, E, sign)
    PROVE  /\ b \in Floats!BitsOf(f)
           /\ Floats!BitsToMantissa(f, b) = M /\ Floats!BitsToExponent(f, b) = E
           /\ Floats!BitsToSign(f, b) <=> f.s /\ sign
<1> DEFINE A == Pow2[f.m]
           B == Pow2[f.e]
           S == IF f.s /\ sign THEN 1 ELSE 0
<1>1. A \in Nat \ {0} /\ B \in Nat \ {0} /\ Pow2[f.m + f.e] = A * B
  BY FormatFacts
<1>2. b = (M + (E * A)) + (IF f.s /\ sign THEN A * B ELSE 0)
  BY <1>1, FloatPowers DEF Floats!ComponentsToBits
<1>3. S \in {0, 1} /\ (S = 1 <=> f.s /\ sign)
  OBVIOUS
<1>4. M \in 0..(A - 1) /\ E \in 0..(B - 1)
  OBVIOUS
<1> HIDE DEF A, B
<1>5. b = (M + (E * A)) + (S * (A * B))
  <2>1. A * B \in Nat /\ E * A \in Nat
    BY <1>1, <1>4
  <2> QED
    BY <1>2, <2>1
<1> HIDE DEF S
<1>6. b \in 0..(((S + 1) * (A * B)) - 1) /\ b % A = M /\ (b \div A) % B = E /\ b \div (A * B) = S
  <2>1. Parts(A, B, M, E, S, b)
    BY <1>1, <1>3, <1>4, <1>5, PartsAreFound
  <2> QED
    BY <2>1 DEF Parts
<1>7. b \in Floats!BitsOf(f)
  <2> DEFINE c == A * B
  <2>1. c \in Nat /\ b \in 0..(((S + 1) * c) - 1)
    BY <1>1, <1>6
  <2>2. Floats!BitsOf(f) = 0..((IF f.s THEN 2 * c ELSE c) - 1)
    BY BitsOfFormat DEF A, B
  <2> HIDE DEF c
  <2>3. S = 0 => (S + 1) * c = c
    BY <2>1
  <2>4. S = 1 => (S + 1) * c = 2 * c
    BY <2>1
  <2> QED
    BY <1>3, <2>1, <2>2, <2>3, <2>4
<1>8. Floats!BitsToMantissa(f, b) = M /\ Floats!BitsToExponent(f, b) = E
  BY <1>6, FloatPowers DEF Floats!BitsToMantissa, Floats!BitsToExponent, A, B
<1>9. Floats!BitsToSign(f, b) <=> f.s /\ sign
  BY <1>1, <1>3, <1>6, FloatPowers DEF Floats!BitsToSign
<1> QED
  BY <1>7, <1>8, <1>9

\* All bits are put together of their parts.
LEMMA ComponentsOfFields ==
    ASSUME NEW f \in Formats, NEW b \in Floats!BitsOf(f)
    PROVE  /\ Floats!BitsToMantissa(f, b) \in 0..(Pow2[f.m] - 1)
           /\ Floats!BitsToExponent(f, b) \in 0..(Pow2[f.e] - 1)
           /\ Floats!BitsToSign(f, b) \in BOOLEAN /\ (Floats!BitsToSign(f, b) => f.s)
           /\ b = Floats!ComponentsToBits(f, Floats!BitsToMantissa(f, b), Floats!BitsToExponent(f, b),
                                          Floats!BitsToSign(f, b))
<1> DEFINE A == Pow2[f.m]
           B == Pow2[f.e]
           S == b \div (A * B)
<1>1. A \in Nat \ {0} /\ B \in Nat \ {0} /\ Pow2[f.m + f.e] = A * B /\ f.s \in BOOLEAN
  BY FormatFacts
<1>2. b \in 0..((2 * (A * B)) - 1) /\ (~f.s => b < A * B)
  <2> DEFINE c == A * B
  <2>1. c \in Nat
    BY <1>1
  <2>2. b \in 0..((IF f.s THEN 2 * c ELSE c) - 1)
    BY BitsOfFormat
  <2> HIDE DEF c
  <2>3. b \in 0..((2 * c) - 1) /\ (~f.s => b < c)
    BY <2>1, <2>2
  <2> QED
    BY <2>3 DEF c
<1>3. Floats!BitsToMantissa(f, b) = b % A /\ Floats!BitsToExponent(f, b) = (b \div A) % B
      /\ (Floats!BitsToSign(f, b) <=> f.s /\ S = 1)
  BY <1>1, FloatPowers DEF Floats!BitsToMantissa, Floats!BitsToExponent, Floats!BitsToSign
<1>4. /\ b % A \in 0..(A - 1) /\ (b \div A) % B \in 0..(B - 1) /\ S \in {0, 1}
      /\ b = ((b % A) + (((b \div A) % B) * A)) + (S * (A * B))
      /\ (b < A * B => S = 0)
  <2> HIDE DEF A, B
  <2> QED
    BY <1>1, <1>2, PartsMakeUp
<1>5. Floats!BitsToSign(f, b) \in BOOLEAN /\ (Floats!BitsToSign(f, b) => f.s)
  BY DEF Floats!BitsToSign
<1> DEFINE M == b % A
           E == (b \div A) % B
           sign == Floats!BitsToSign(f, b)
<1>6. Floats!ComponentsToBits(f, M, E, sign) = (M + (E * A)) + (IF f.s /\ sign THEN A * B ELSE 0)
  BY <1>1, FloatPowers DEF Floats!ComponentsToBits
<1>7. S * (A * B) = IF f.s /\ sign THEN A * B ELSE 0
  <2>1. S = IF f.s /\ sign THEN 1 ELSE 0
    BY <1>2, <1>3, <1>4
  <2>2. A * B \in Nat
    BY <1>1
  <2> HIDE DEF S, sign, A, B
  <2>3. S = 1 => S * (A * B) = A * B
    BY <2>2
  <2>4. S = 0 => S * (A * B) = 0
    BY <2>2
  <2> QED
    BY <2>1, <2>3, <2>4
<1>8. b = Floats!ComponentsToBits(f, M, E, sign)
  BY <1>4, <1>6, <1>7
<1> QED
  BY <1>3, <1>4, <1>5, <1>8

\* An exponent's new value: zero and the mask stay what they are, and of the
\* others the actual value stays, or is too large for n bits.
Converted(e, n, h, g, x, y) ==
    /\ h \in Nat \ {0} /\ g \in Nat \ {0}
    /\ (e = n => h = g) /\ (e < n => h < g) /\ (n < e => g < h)
    /\ Floats!ExponentMask(e) = (2 * h) - 1 /\ Floats!ExponentMask(n) = (2 * g) - 1
    /\ x = 0 => y = 0
    /\ x # 0 /\ (x = (2 * h) - 1 \/ (x - h) + 1 >= g) => y = (2 * g) - 1
    /\ x \notin {0, (2 * h) - 1} /\ (x - h) + 1 < g /\ (x - h) + g >= 0 => y = (x - h) + g

\* The code does so.
LEMMA ExponentConverts ==
    ASSUME NEW e \in Nat \ {0}, NEW n \in Nat \ {0}, NEW h, NEW g, NEW x,
           h = Pow2[e - 1], g = Pow2[n - 1], x \in 0..((2 * h) - 1)
    PROVE  Converted(e, n, h, g, x, Floats!ConvertExponent(x, e, n))
<1>1. e - 1 \in Nat /\ n - 1 \in Nat
  OBVIOUS
<1>2. h \in Nat \ {0} /\ g \in Nat \ {0} /\ Pow2[e] = 2 * h /\ Pow2[n] = 2 * g
  BY <1>1, PowersOfTwo
<1>3. e = n => h = g
  OBVIOUS
<1>4. e < n => h < g
  <2>1. ASSUME e < n PROVE h < g
    <3>1. 2 * Pow2[e - 1] <= Pow2[n - 1]
      BY <1>1, <2>1, PowersGrow
    <3> QED
      BY <1>2, <3>1
  <2> QED
    BY <2>1
<1>5. n < e => g < h
  <2>1. ASSUME n < e PROVE g < h
    <3>1. 2 * Pow2[n - 1] <= Pow2[e - 1]
      BY <1>1, <2>1, PowersGrow
    <3> QED
      BY <1>2, <3>1
  <2> QED
    BY <2>1
<1>6. /\ Floats!ExponentMask(e) = (2 * h) - 1 /\ Floats!ExponentMask(n) = (2 * g) - 1
      /\ Floats!ExponentZero(e) = h - 1 /\ Floats!ExponentZero(n) = g - 1
  BY <1>2, FloatPowers DEF Floats!ExponentMask, Floats!ExponentZero
<1>7. /\ Floats!ActualValue(x, e) = (x - h) + 1
      /\ Floats!ActualValue((2 * g) - 1, n) = g
  BY <1>2, <1>6 DEF Floats!ActualValue
<1>8. Floats!ConvertExponent(x, e, n) =
        IF e = n \/ x = 0 THEN x
        ELSE IF n >= e /\ x = (2 * h) - 1 THEN (2 * g) - 1
        ELSE IF n < e /\ (x - h) + 1 >= g THEN (2 * g) - 1
        ELSE (((x - h) + 1) + (g - 1)) % (2 * g)
  BY <1>2, <1>6, <1>7, FloatPowers DEF Floats!ConvertExponent
<1>9. ASSUME x # 0, x # (2 * h) - 1, (x - h) + 1 < g, (x - h) + g >= 0
      PROVE  Floats!ConvertExponent(x, e, n) = (x - h) + g
  <2>1. CASE e = n
    BY <1>2, <1>3, <1>8, <1>9, <2>1
  <2>2. CASE e # n
    <3> DEFINE v == (x - h) + g
               d == 2 * g
    <3>1. v \in 0..(d - 1) /\ ((x - h) + 1) + (g - 1) = v /\ d \in Nat \ {0}
      BY <1>2, <1>9
    <3>2. Floats!ConvertExponent(x, e, n) = v % d
      BY <1>2, <1>8, <1>9, <2>2, <3>1
    <3> HIDE DEF v, d
    <3>3. v % d = v
      BY <3>1
    <3> QED
      BY <3>2, <3>3 DEF v
  <2> QED
    BY <2>1, <2>2
<1>10. x = 0 => Floats!ConvertExponent(x, e, n) = 0
  BY <1>8
<1>11. ASSUME x # 0, x = (2 * h) - 1 \/ (x - h) + 1 >= g
       PROVE  Floats!ConvertExponent(x, e, n) = (2 * g) - 1
  <2>1. n >= e => h <= g
    BY <1>2, <1>3, <1>4
  <2>2. n < e => g < h
    BY <1>5
  <2>3. CASE x = (2 * h) - 1
    BY <1>2, <1>3, <1>8, <1>11, <2>2, <2>3
  <2>4. CASE x # (2 * h) - 1
    BY <1>2, <1>8, <1>11, <2>1, <2>4
  <2> QED
    BY <2>3, <2>4
<1>12. x \notin {0, (2 * h) - 1} /\ (x - h) + 1 < g /\ (x - h) + g >= 0
         => Floats!ConvertExponent(x, e, n) = (x - h) + g
  BY <1>9
<1> QED
  BY <1>2, <1>3, <1>4, <1>5, <1>6, <1>10, <1>11, <1>12 DEF Converted

\* Into a format that is as wide, and back.
LEMMA ExponentReturns ==
    ASSUME NEW e \in Nat \ {0}, NEW n \in Nat \ {0}, e <= n, NEW x \in 0..(Pow2[e] - 1),
           NEW y, y = Floats!ConvertExponent(x, e, n)
    PROVE  /\ y \in 0..(Pow2[n] - 1) /\ Floats!ConvertExponent(y, n, e) = x
           /\ x = Floats!ExponentMask(e) <=> y = Floats!ExponentMask(n)
<1>1. PICK h \in Nat \ {0}, g \in Nat \ {0} :
          h = Pow2[e - 1] /\ g = Pow2[n - 1] /\ Pow2[e] = 2 * h /\ Pow2[n] = 2 * g
  <2>1. e - 1 \in Nat /\ n - 1 \in Nat
    OBVIOUS
  <2> QED
    BY <2>1, PowersOfTwo
<1>2. x \in 0..((2 * h) - 1)
  BY <1>1
<1>3. /\ h <= g
      /\ Floats!ExponentMask(e) = (2 * h) - 1
      /\ x = 0 => y = 0
      /\ x = (2 * h) - 1 => y = (2 * g) - 1
      /\ x \notin {0, (2 * h) - 1} /\ (x - h) + 1 < g /\ (x - h) + g >= 0 => y = (x - h) + g
  <2>1. Converted(e, n, h, g, x, y)
    BY <1>1, <1>2, ExponentConverts
  <2>2. h <= g
    BY <1>1, <2>1 DEF Converted
  <2>3. x = (2 * h) - 1 => x # 0
    BY <1>1
  <2> QED
    BY <2>1, <2>2, <2>3 DEF Converted
<1>4. \/ x = 0 /\ y = 0 
      \/ x = (2 * h) - 1 /\ y = (2 * g) - 1
      \/ x \notin {0, (2 * h) - 1} /\ y = (x - h) + g
  BY <1>1, <1>2, <1>3
<1>5. y \in 0..((2 * g) - 1) /\ (x = (2 * h) - 1 <=> y = (2 * g) - 1) /\ (x = 0 <=> y = 0)
  BY <1>1, <1>2, <1>3, <1>4
<1>6. /\ Floats!ExponentMask(n) = (2 * g) - 1
      /\ y = 0 => Floats!ConvertExponent(y, n, e) = 0
      /\ y # 0 /\ y = (2 * g) - 1 => Floats!ConvertExponent(y, n, e) = (2 * h) - 1
      /\ y \notin {0, (2 * g) - 1} /\ (y - g) + 1 < h /\ (y - g) + h >= 0
           => Floats!ConvertExponent(y, n, e) = (y - g) + h
  <2>1. y \in 0..((2 * g) - 1)
    BY <1>5
  <2>2. Converted(n, e, g, h, y, Floats!ConvertExponent(y, n, e))
    BY <1>1, <2>1, ExponentConverts
  <2> QED
    BY <2>2 DEF Converted
<1>7. Floats!ConvertExponent(y, n, e) = x
  <2>1. CASE x = 0
    BY <1>4, <1>5, <1>6, <2>1
  <2>2. CASE x = (2 * h) - 1
    BY <1>1, <1>4, <1>5, <1>6, <2>2
  <2>3. CASE x \notin {0, (2 * h) - 1}
    <3>1. y = (x - h) + g /\ y \notin {0, (2 * g) - 1}
      BY <1>4, <1>5, <2>3
    <3>2. (y - g) + 1 < h /\ (y - g) + h = x /\ x >= 0
      BY <1>1, <1>2, <2>3, <3>1
    <3> QED
      BY <1>6, <3>1, <3>2
  <2> QED
    BY <2>1, <2>2, <2>3
<1> QED
  BY <1>1, <1>3, <1>5, <1>6, <1>7

\* A mantissa put into a wider one, and back.
LEMMA MantissaReturns ==
    ASSUME NEW m \in Nat, NEW n \in Nat, m <= n, NEW M \in 0..(Pow2[m] - 1),
           NEW y, y = Floats!ConvertMantissa(M, m, n)
    PROVE  /\ y \in 0..(Pow2[n] - 1) /\ Floats!ConvertMantissa(y, n, m) = M
           /\ y = M * Pow2[n - m] /\ (M = 0 <=> y = 0)
<1>1. PICK p \in Nat \ {0}, q \in Nat \ {0} :
          p = Pow2[m] /\ q = Pow2[n - m] /\ Pow2[n] = p * q
  BY PowersGrow, ZenonT(60)
<1>2. y = M * q
  BY <1>1, FloatPowers DEF Floats!ConvertMantissa
<1>3. M \in 0..(p - 1)
  BY <1>1
<1>4. y \in 0..((p * q) - 1) /\ (M = 0 <=> y = 0)
  <2>1. PICK k \in Nat : p = (M + 1) + k
    <3>1. p - (M + 1) \in Nat /\ p = (M + 1) + (p - (M + 1))
      BY <1>3
    <3> QED
      BY <3>1
  <2>2. p * q = ((M * q) + q) + (k * q) /\ k * q \in Nat /\ M * q \in Nat
    BY <1>3, <2>1
  <2>3. M # 0 => M * q # 0
    BY <1>3
  <2>4. M = 0 => M * q = 0
    BY <1>3
  <2> DEFINE c == p * q
             d == M * q
             h == k * q
  <2>5. c = (d + q) + h /\ h \in Nat /\ d \in Nat
    BY <2>2
  <2> HIDE DEF c, d, h
  <2>6. d \in 0..(c - 1)
    BY <2>5
  <2> QED
    BY <1>2, <2>3, <2>4, <2>6 DEF c, d
<1>5. Floats!ConvertMantissa(y, n, m) = M
  <2>1. CASE m = n
    <3>1. n - m = 0 /\ m - n = 0 /\ Pow2[0] = 1
      BY <2>1, PowersOfTwo
    <3>2. y = M
      BY <1>1, <1>2, <1>3, <3>1
    <3>3. Floats!ConvertMantissa(y, n, m) = y * 1
      BY <2>1, <3>1, FloatPowers DEF Floats!ConvertMantissa
    <3> QED
      BY <1>3, <3>2, <3>3
  <2>2. CASE m < n
    <3>1. Floats!ConvertMantissa(y, n, m) = y \div q
      BY <1>1, <2>2, FloatPowers DEF Floats!ConvertMantissa
    <3>2. y = (q * M) + 0 /\ y \in Int
      BY <1>2, <1>3
    <3>3. y \div q = M
      BY <1>3, <3>2, Division
    <3> QED
      BY <3>1, <3>3
  <2> QED
    BY <2>1, <2>2
<1> QED
  BY <1>1, <1>2, <1>4, <1>5

\* What a conversion does to the parts of a number that has a place for its
\* sign.
LEMMA PartsConvert ==
    ASSUME NEW f \in Formats, NEW g \in Formats, NEW bits \in Floats!BitsOf(f), f # g,
           Floats!BitsToSign(f, bits) => g.s,
           ~Floats!Overflowed(f.e, g.e, Floats!BitsToExponent(f, bits),
                              Floats!ConvertExponent(Floats!BitsToExponent(f, bits), f.e, g.e))
    PROVE  Floats!BitsToBits(f, g, bits) =
              Floats!ComponentsToBits(g,
                  Floats!ConvertMantissa(Floats!BitsToMantissa(f, bits), f.m, g.m),
                  Floats!ConvertExponent(Floats!BitsToExponent(f, bits), f.e, g.e),
                  Floats!BitsToSign(f, bits))
BY DEF Floats!BitsToBits

\* Nothing is lost on the way into a format that is as wide in every part.
LEMMA WideningReturns ==
    ASSUME NEW f \in Formats, NEW g \in Formats, NEW bits \in Floats!BitsOf(f),
           Floats!Wider(f, g), NEW r, r = Floats!BitsToBits(f, g, bits)
    PROVE  /\ Floats!BitsToBits(g, f, r) = bits
           /\ Floats!IsInf(f, bits) <=> Floats!IsInf(g, r)
           /\ Floats!IsNan(f, bits) <=> Floats!IsNan(g, r)
<1>1. CASE f = g
  BY <1>1 DEF Floats!BitsToBits
<1>2. CASE f # g
  <2> DEFINE M == Floats!BitsToMantissa(f, bits)
             E == Floats!BitsToExponent(f, bits)
             sign == Floats!BitsToSign(f, bits)
             N == Floats!ConvertMantissa(M, f.m, g.m)
             F == Floats!ConvertExponent(E, f.e, g.e)
  <2>1. /\ f.m \in Nat /\ g.m \in Nat /\ f.e \in Nat \ {0} /\ g.e \in Nat \ {0}
        /\ f.m <= g.m /\ f.e <= g.e /\ (f.s => g.s) /\ f.s \in BOOLEAN /\ g.s \in BOOLEAN
    BY FormatFacts DEF Floats!Wider
  <2>2. /\ M \in 0..(Pow2[f.m] - 1) /\ E \in 0..(Pow2[f.e] - 1) /\ sign \in BOOLEAN /\ (sign => f.s)
        /\ bits = Floats!ComponentsToBits(f, M, E, sign)
    BY ComponentsOfFields
  <2>3. ~Floats!Overflowed(f.e, g.e, E, F)
    BY <2>1 DEF Floats!Overflowed
  <2>4. r = Floats!ComponentsToBits(g, N, F, sign)
    BY <1>2, <2>1, <2>2, <2>3, PartsConvert
  <2> HIDE DEF M, E, sign
  <2>5. N \in 0..(Pow2[g.m] - 1) /\ Floats!ConvertMantissa(N, g.m, f.m) = M /\ (M = 0 <=> N = 0)
    BY <2>1, <2>2, MantissaReturns
  <2>6. /\ F \in 0..(Pow2[g.e] - 1) /\ Floats!ConvertExponent(F, g.e, f.e) = E
        /\ E = Floats!ExponentMask(f.e) <=> F = Floats!ExponentMask(g.e)
    BY <2>1, <2>2, ExponentReturns
  <2> HIDE DEF N, F
  <2>7. /\ r \in Floats!BitsOf(g)
        /\ Floats!BitsToMantissa(g, r) = N /\ Floats!BitsToExponent(g, r) = F
        /\ Floats!BitsToSign(g, r) <=> g.s /\ sign
    BY <2>2, <2>4, <2>5, <2>6, FieldsOfComponents
  <2>8. Floats!BitsToSign(g, r) = sign
    <3>1. Floats!BitsToSign(g, r) \in BOOLEAN
      BY <2>7, ComponentsOfFields
    <3> QED
      BY <2>1, <2>2, <2>7, <3>1
  <2>9. ~Floats!Overflowed(g.e, f.e, F, E)
    BY <2>6 DEF Floats!Overflowed
  <2>10. Floats!BitsToBits(g, f, r) = Floats!ComponentsToBits(f, M, E, sign)
    BY <1>2, <2>2, <2>5, <2>6, <2>7, <2>8, <2>9, PartsConvert
  <2>11. Floats!IsInf(f, bits) <=> Floats!IsInf(g, r)
    BY <2>5, <2>6, <2>7 DEF Floats!IsInf, M, E
  <2>12. Floats!IsNan(f, bits) <=> Floats!IsNan(g, r)
    BY <2>5, <2>6, <2>7 DEF Floats!IsNan, M, E
  <2> QED
    BY <2>2, <2>10, <2>11, <2>12
<1> QED
  BY <1>1, <1>2

\* The value of a number whose exponent is not zero lies between two powers of
\* two, that of its exponent and the next one.
LEMMA MagnitudeOfNormal ==
    ASSUME NEW f \in Formats, NEW b \in Floats!BitsOf(f), Floats!BitsToExponent(f, b) # 0,
           NEW k, k = (Scale + Floats!BitsToExponent(f, b)) - (Pow2[f.e - 1] - 1)
    PROVE  /\ k \in Nat /\ k >= f.m /\ Pow2[k - f.m] \in Nat \ {0}
           /\ Floats!Magnitude(f, b) = (Pow2[f.m] + Floats!BitsToMantissa(f, b)) * Pow2[k - f.m]
           /\ Floats!Magnitude(f, b) \in Nat
           /\ Pow2[k] <= Floats!Magnitude(f, b) /\ Floats!Magnitude(f, b) < Pow2[k + 1]
<1>1. PICK m \in Nat, h \in Nat \ {0}, p \in Nat \ {0}, E \in Nat \ {0}, M \in Nat :
          /\ m = f.m /\ h = Pow2[f.e - 1] /\ p = Pow2[m] /\ M \in 0..(p - 1)
          /\ E = Floats!BitsToExponent(f, b) /\ M = Floats!BitsToMantissa(f, b)
          /\ Scale \in Nat /\ Scale - m >= h - 1
  <2>1. /\ Floats!BitsToMantissa(f, b) \in 0..(Pow2[f.m] - 1)
        /\ Floats!BitsToExponent(f, b) \in 0..(Pow2[f.e] - 1)
    BY ComponentsOfFields
  <2>2. Floats!BitsToExponent(f, b) \in Nat \ {0} /\ Floats!BitsToMantissa(f, b) \in Nat
    BY <2>1, FormatFacts
  <2>3. /\ f.m \in Nat /\ Pow2[f.e - 1] \in Nat \ {0} /\ Pow2[f.m] \in Nat \ {0}
        /\ Scale \in Nat /\ Scale - f.m >= Pow2[f.e - 1] - 1
    BY FormatFacts
  <2> QED
    BY <2>1, <2>2, <2>3
<1>2. k \in Nat /\ k - m \in Nat /\ k + 1 \in Nat
  BY <1>1
<1>3. Floats!Magnitude(f, b) = (p + M) * Pow2[k - m]
  <2>1. (Scale - m) + (E - (h - 1)) = k - m
    BY <1>1
  <2>2. Floats!Magnitude(f, b) = (p + M) * Pow2[(Scale - m) + (E - (h - 1))]
    BY <1>1, FloatPowers DEF Floats!Magnitude, Floats!ActualValue, Floats!ExponentZero
  <2> QED
    BY <2>1, <2>2
<1>4. PICK u \in Nat \ {0} : u = Pow2[k - m] /\ Pow2[k] = p * u /\ Pow2[k + 1] = 2 * Pow2[k]
  <2>1. Pow2[k + 1] = 2 * Pow2[(k + 1) - 1] /\ (k + 1) - 1 = k
    BY <1>2, PowersOfTwo
  <2>2. m <= k
    BY <1>1, <1>2
  <2>3. Pow2[k - m] \in Nat \ {0} /\ Pow2[k] = p * Pow2[k - m]
    BY <1>1, <1>2, <2>2, PowersGrow
  <2> QED
    BY <2>1, <2>3
<1>5. (p + M) * u \in Nat /\ p * u <= (p + M) * u /\ (p + M) * u < 2 * (p * u)
  <2>1. PICK n \in Nat : p = (M + 1) + n
    <3>1. p - (M + 1) \in Nat /\ p = (M + 1) + (p - (M + 1))
      BY <1>1
    <3> QED
      BY <3>1
  <2> DEFINE c == p * u
             d == M * u
             o == n * u
  <2>2. c = (d + u) + o /\ c \in Nat /\ d \in Nat /\ o \in Nat /\ (p + M) * u = c + d
    BY <1>1, <1>4, <2>1
  <2> HIDE DEF c, d, o
  <2>3. c <= c + d /\ c + d < 2 * c
    BY <1>4, <2>2
  <2> QED
    BY <2>2, <2>3 DEF c
<1> QED
  BY <1>1, <1>2, <1>3, <1>4, <1>5

\* Of a mantissa that changes its width, together with the leading one, less
\* than the last bit is lost.
LEMMA MantissaTruncates ==
    ASSUME NEW m \in Nat, NEW n \in Nat, NEW k \in Nat, m <= k, n <= k,
           NEW M \in 0..(Pow2[m] - 1), NEW N, N = Floats!ConvertMantissa(M, m, n)
    PROVE  /\ N \in 0..(Pow2[n] - 1)
           /\ (Pow2[n] + N) * Pow2[k - n] <= (Pow2[m] + M) * Pow2[k - m]
           /\ (Pow2[m] + M) * Pow2[k - m] < ((Pow2[n] + N) * Pow2[k - n]) + Pow2[k - n]
<1>1. CASE m <= n
  <2>1. PICK p \in Nat \ {0}, q \in Nat \ {0}, u \in Nat \ {0} :
            /\ p = Pow2[m] /\ q = Pow2[n - m] /\ u = Pow2[k - n]
            /\ Pow2[n] = p * q /\ Pow2[k - m] = q * u
    <3>1. Pow2[m] \in Nat \ {0} /\ Pow2[n - m] \in Nat \ {0} /\ Pow2[n] = Pow2[m] * Pow2[n - m]
      BY <1>1, PowersGrow
    <3>2. n - m \in Nat /\ k - n \in Nat /\ (n - m) + (k - n) = k - m
      BY <1>1
    <3>3. Pow2[k - n] \in Nat \ {0}
      BY <3>2, PowersOfTwo
    <3>4. Pow2[k - m] = Pow2[n - m] * Pow2[k - n]
      BY <3>2, PowerOfSum
    <3> QED
      BY <3>1, <3>3, <3>4
  <2>2. N \in 0..(Pow2[n] - 1) /\ N = M * q
    BY <1>1, <2>1, MantissaReturns
  <2>3. ((p * q) + (M * q)) * u = (p + M) * (q * u) /\ (p + M) * (q * u) \in Nat
    <3>1. M \in Nat
      BY <2>1
    <3>2. q * u \in Nat /\ p + M \in Nat
      BY <2>1, <3>1
    <3>3. (p * q) + (M * q) = (p + M) * q
      BY <2>1, <3>1
    <3>4. ((p + M) * q) * u = (p + M) * (q * u)
      BY <2>1, <3>2
    <3> QED
      BY <3>2, <3>3, <3>4
  <2> QED
    BY <2>1, <2>2, <2>3
<1>2. CASE n < m
  <2>1. PICK p \in Nat \ {0}, q \in Nat \ {0}, v \in Nat \ {0} :
            /\ p = Pow2[n] /\ q = Pow2[m - n] /\ v = Pow2[k - m]
            /\ Pow2[m] = p * q /\ Pow2[k - n] = q * v
    <3>1. Pow2[n] \in Nat \ {0} /\ Pow2[m - n] \in Nat \ {0} /\ Pow2[m] = Pow2[n] * Pow2[m - n]
      BY <1>2, PowersGrow
    <3>2. m - n \in Nat /\ k - m \in Nat /\ (m - n) + (k - m) = k - n
      BY <1>2
    <3>3. Pow2[k - m] \in Nat \ {0}
      BY <3>2, PowersOfTwo
    <3>4. Pow2[k - n] = Pow2[m - n] * Pow2[k - m]
      BY <3>2, PowerOfSum
    <3> QED
      BY <3>1, <3>3, <3>4
  <2>2. N = M \div q
    BY <1>2, <2>1, FloatPowers DEF Floats!ConvertMantissa
  <2>3. M \in Nat /\ M < p * q
    BY <2>1
  <2>4. PICK R \in 0..(q - 1) : M = (q * N) + R
    <3>1. M % q \in 0..(q - 1) /\ M = (q * (M \div q)) + (M % q)
      BY <2>3, DivMod
    <3> QED
      BY <2>2, <3>1
  <2>5. N \in Nat
    BY <2>1, <2>2, <2>3, DivNat
  <2>6. N < p
    <3>1. ASSUME N >= p PROVE FALSE
      <4>1. PICK t \in Nat : N = p + t
        <5>1. N - p \in Nat /\ N = p + (N - p)
          BY <2>1, <2>5, <3>1
        <5> QED
          BY <5>1
      <4>2. q * N = (p * q) + (q * t) /\ q * t \in Nat
        BY <2>1, <4>1
      <4> QED
        BY <2>3, <2>4, <4>2
    <3> QED
      BY <2>1, <2>5, <3>1
  <2>7. /\ (p + N) * (q * v) \in Nat /\ R * v \in Nat /\ q * v \in Nat
        /\ ((p * q) + M) * v = ((p + N) * (q * v)) + (R * v)
    <3>1. R \in Nat /\ q * v \in Nat /\ R * v \in Nat
      BY <2>4
    <3>2. (p + N) * (q * v) \in Nat
      BY <2>5, <3>1
    <3>3. (p * q) + M = ((p + N) * q) + R
      BY <2>4, <2>5
    <3>4. (p + N) * q \in Nat /\ ((p + N) * q) * v = (p + N) * (q * v)
      BY <2>5
    <3> DEFINE c == (p + N) * q
    <3>5. (c + R) * v = (c * v) + (R * v)
      BY <3>1, <3>4
    <3> HIDE DEF c
    <3> QED
      BY <3>1, <3>2, <3>3, <3>4, <3>5 DEF c
  <2>8. R * v < q * v
    <3>1. PICK t \in Nat : q = (R + 1) + t
      <4>1. q - (R + 1) \in Nat /\ q = (R + 1) + (q - (R + 1))
        BY <2>4
      <4> QED
        BY <4>1
    <3>2. q * v = ((R * v) + v) + (t * v) /\ t * v \in Nat /\ R * v \in Nat
      BY <2>1, <2>4, <3>1
    <3> QED
      BY <2>1, <3>2
  <2>9. N \in 0..(p - 1)
    BY <2>1, <2>5, <2>6
  <2> DEFINE c == (p + N) * (q * v)
             d == R * v
             o == q * v
             x == ((p * q) + M) * v
  <2>10. c \in Nat /\ d \in Nat /\ o \in Nat /\ x = c + d /\ d < o
    BY <2>7, <2>8
  <2> HIDE DEF c, d, o, x
  <2>11. c <= x /\ x < c + o
    BY <2>10
  <2> QED
    BY <2>1, <2>9, <2>11 DEF c, o, x
<1> QED
  BY <1>1, <1>2

\* Where a number of the format is below x by less than its last bit is worth,
\* it is the one x is truncated to.
LEMMA NearestBelow ==
    ASSUME NEW g \in Formats, NEW r \in Floats!BitsOf(g), Floats!IsNormal(g, r), NEW x \in Nat,
           NEW k, k = (Scale + Floats!BitsToExponent(g, r)) - (Pow2[g.e - 1] - 1),
           NEW y, y = Floats!Magnitude(g, r), y <= x, x < y + Pow2[k - g.m]
    PROVE  Floats!Truncated(g, x) = y
<1> DEFINE numbers == {Floats!Magnitude(g, b) : b \in {b \in Floats!BitsOf(g) : Floats!IsNormal(g, b)}}
<1>1. Floats!BitsToExponent(g, r) # 0
  BY DEF Floats!IsNormal
<1>2. PICK p \in Nat, u \in Nat \ {0}, M \in Nat :
          /\ p = Pow2[g.m] /\ u = Pow2[k - g.m] /\ M = Floats!BitsToMantissa(g, r)
          /\ y = (p + M) * u /\ y \in Nat /\ k \in Nat /\ k >= g.m
          /\ Pow2[k] <= y /\ y < Pow2[k + 1]
  <2>1. Floats!BitsToMantissa(g, r) \in Nat /\ Pow2[g.m] \in Nat
    BY ComponentsOfFields, FormatFacts
  <2>2. /\ k \in Nat /\ k >= g.m /\ Pow2[k - g.m] \in Nat \ {0}
        /\ y = (Pow2[g.m] + Floats!BitsToMantissa(g, r)) * Pow2[k - g.m] /\ y \in Nat
        /\ Pow2[k] <= y /\ y < Pow2[k + 1]
    BY <1>1, MagnitudeOfNormal
  <2> QED
    BY <2>1, <2>2
<1>3. x < ((p + M) + 1) * u
  BY <1>2
<1>4. x < Pow2[k + 1]
  <2>1. PICK v \in Nat \ {0} : v = Pow2[g.m] /\ Pow2[k] = v * u /\ Pow2[k + 1] = 2 * Pow2[k]
    <3>1. g.m \in Nat /\ k \in Nat /\ k + 1 \in Nat \ {0} /\ (k + 1) - 1 = k /\ g.m <= k
      BY <1>2, FormatFacts
    <3>2. Pow2[k + 1] = 2 * Pow2[k]
      BY <3>1, PowersOfTwo
    <3>3. Pow2[k] = Pow2[g.m] * Pow2[k - g.m] /\ Pow2[g.m] \in Nat \ {0}
      BY <3>1, PowersGrow
    <3> QED
      BY <1>2, <3>2, <3>3
  <2>2. v = p /\ M \in 0..(p - 1)
    BY <1>2, <2>1, ComponentsOfFields
  <2>3. PICK n \in Nat : p = (M + 1) + n
    <3>1. p - (M + 1) \in Nat /\ p = (M + 1) + (p - (M + 1))
      BY <1>2, <2>2
    <3> QED
      BY <3>1
  <2>4. 2 * (p * u) = (((p + M) + 1) * u) + (n * u) /\ n * u \in Nat /\ ((p + M) + 1) * u \in Nat
    BY <1>2, <2>3
  <2> DEFINE c == p * u
             d == ((p + M) + 1) * u
             o == n * u
  <2>5. 2 * c = d + o /\ o \in Nat /\ d \in Nat /\ x < d /\ Pow2[k + 1] = 2 * c
    BY <1>3, <2>1, <2>2, <2>4
  <2> HIDE DEF c, d, o
  <2> QED
    BY <2>5
<1>5. ASSUME NEW z \in numbers, z <= x PROVE z <= y
  <2>1. PICK b \in Floats!BitsOf(g) : Floats!IsNormal(g, b) /\ z = Floats!Magnitude(g, b)
    OBVIOUS
  <2>2. Floats!BitsToExponent(g, b) # 0
    BY <2>1 DEF Floats!IsNormal
  <2>3. PICK j : j = (Scale + Floats!BitsToExponent(g, b)) - (Pow2[g.e - 1] - 1)
    OBVIOUS
  <2>4. /\ j \in Nat /\ j >= g.m
        /\ z = (p + Floats!BitsToMantissa(g, b)) * Pow2[j - g.m] /\ z \in Nat
        /\ Pow2[j] <= z /\ z < Pow2[j + 1]
    BY <1>2, <2>1, <2>2, <2>3, MagnitudeOfNormal
  <2>5. CASE j < k
    <3>1. j + 1 \in Nat /\ j + 1 <= k
      BY <1>2, <2>4, <2>5
    <3>2. Pow2[j + 1] <= Pow2[k] /\ Pow2[j + 1] \in Nat /\ Pow2[k] \in Nat
      BY <1>2, <3>1, PowersGrow
    <3> QED
      BY <1>2, <2>4, <3>2
  <2>6. CASE j = k
    <3>1. PICK N \in Nat : N = Floats!BitsToMantissa(g, b)
      BY ComponentsOfFields, FormatFacts
    <3>2. z = (p + N) * u
      BY <1>2, <2>4, <2>6, <3>1
    <3>3. N <= M
      <4>1. ASSUME N > M PROVE FALSE
        <5>1. PICK n \in Nat : N = (M + 1) + n
          <6>1. N - (M + 1) \in Nat /\ N = (M + 1) + (N - (M + 1))
            BY <1>2, <3>1, <4>1
          <6> QED
            BY <6>1
        <5>2. z = (((p + M) + 1) * u) + (n * u) /\ n * u \in Nat /\ ((p + M) + 1) * u \in Nat
          BY <1>2, <3>2, <5>1
        <5> DEFINE d == ((p + M) + 1) * u
                   o == n * u
        <5>3. z = d + o /\ o \in Nat /\ d \in Nat /\ x < d /\ z <= x
          BY <1>3, <1>5, <5>2
        <5> HIDE DEF d, o
        <5> QED
          BY <5>3
      <4> QED
        BY <1>2, <3>1, <4>1
    <3>4. PICK n \in Nat : M = N + n
      <4>1. M - N \in Nat /\ M = N + (M - N)
        BY <1>2, <3>1, <3>3
      <4> QED
        BY <4>1
    <3>5. y = z + (n * u) /\ n * u \in Nat
      BY <1>2, <3>1, <3>2, <3>4
    <3> QED
      BY <2>4, <3>5
  <2>7. CASE j > k
    <3>1. k + 1 \in Nat /\ k + 1 <= j
      BY <1>2, <2>4, <2>7
    <3>2. Pow2[k + 1] <= Pow2[j] /\ Pow2[k + 1] \in Nat /\ Pow2[j] \in Nat
      BY <2>4, <3>1, PowersGrow
    <3> QED
      BY <1>4, <1>5, <2>4, <3>2
  <2>8. j < k \/ j = k \/ j > k
    <3>1. j \in Int /\ k \in Int
      BY <1>2, <2>4
    <3> QED
      BY ONLY <3>1
  <2> QED
    BY <2>5, <2>6, <2>7, <2>8
<1>6. y \in numbers
  OBVIOUS
<1>7. \A z \in numbers : z \in Nat
  <2>1. ASSUME NEW b \in Floats!BitsOf(g), Floats!IsNormal(g, b) PROVE Floats!Magnitude(g, b) \in Nat
    <3>1. Floats!BitsToExponent(g, b) # 0
      BY <2>1 DEF Floats!IsNormal
    <3> QED
      BY <3>1, MagnitudeOfNormal
  <2> QED
    BY <2>1
<1> DEFINE Best(z) == z <= x /\ \A z2 \in numbers : z2 <= x => z2 <= z
<1>8. Floats!Truncated(g, x) = CHOOSE z \in numbers : Best(z)
  BY DEF Floats!Truncated
<1>9. Best(y)
  BY <1>5
<1>10. ASSUME NEW z \in numbers, Best(z) PROVE z = y
  <2>1. z <= y /\ y <= z /\ z \in Nat /\ y \in Nat
    BY <1>2, <1>5, <1>6, <1>7, <1>10
  <2> QED
    BY <2>1
<1> HIDE DEF Best, numbers
<1> QED
  BY <1>6, <1>8, <1>9, <1>10

\* A product where one factor is one less.
LEMMA LessOneTimes ==
    ASSUME NEW a \in Int, NEW b \in Int
    PROVE  (a - 1) * b = (a * b) - b
OBVIOUS

\* The least normal number of a format, and the first power of two behind the
\* largest one; with a single bit of exponent there is no normal number, and
\* the largest is no further from the least power.
LEMMA Ends ==
    ASSUME NEW g \in Formats, NEW h, h = Pow2[g.e - 1], NEW x \in Nat
    PROVE  /\ h \in Nat \ {0} /\ (Scale + 2) - h \in Nat /\ Scale + h \in Nat
           /\ x >= Floats!Magnitude(g, Floats!MinBits(g)) => Pow2[(Scale + 2) - h] <= x
           /\ x >= Pow2[Scale + h]
                => x >= Floats!Magnitude(g, Floats!MaxBits(g)) + Floats!LastUnit(g)
           /\ h > 1 /\ x < Pow2[Scale + h]
                => ~(x >= Floats!Magnitude(g, Floats!MaxBits(g)) + Floats!LastUnit(g))
<1>1. PICK m \in Nat \ {0}, p \in Nat \ {0} :
          /\ m = g.m /\ p = Pow2[g.m] /\ h \in Nat \ {0} /\ Pow2[g.e] = 2 * h
          /\ Scale \in Nat /\ Scale - m >= h - 1
  BY FormatFacts
<1>2. Floats!ExponentMask(g.e) = (2 * h) - 1 /\ Floats!ExponentZero(g.e) = h - 1
  BY <1>1, FloatPowers DEF Floats!ExponentMask, Floats!ExponentZero
<1>3. /\ (Scale + 2) - h \in Nat /\ Pow2[(Scale + 2) - h] \in Nat
      /\ Floats!Magnitude(g, Floats!MinBits(g)) \in Nat
      /\ Floats!Magnitude(g, Floats!MinBits(g)) >= Pow2[(Scale + 2) - h]
  <2> DEFINE b == Floats!MinBits(g)
             k == (Scale + 1) - (h - 1)
  <2>1. b = Floats!ComponentsToBits(g, 0, 1, FALSE)
    BY DEF Floats!MinBits
  <2>2. 0 \in 0..(Pow2[g.m] - 1) /\ 1 \in 0..(Pow2[g.e] - 1)
    BY <1>1
  <2> HIDE DEF b
  <2>3. b \in Floats!BitsOf(g) /\ Floats!BitsToExponent(g, b) = 1
    BY <2>1, <2>2, FieldsOfComponents, ZenonT(60)
  <2>4. k = (Scale + Floats!BitsToExponent(g, b)) - (Pow2[g.e - 1] - 1) /\ k = (Scale + 2) - h
    BY <1>1, <2>3
  <2>5. Pow2[k] <= Floats!Magnitude(g, b) /\ k \in Nat
    BY <2>3, <2>4, MagnitudeOfNormal
  <2> HIDE DEF k
  <2>6. Floats!Magnitude(g, b) \in Nat /\ Pow2[k] \in Nat
    BY <2>3, <2>4, <2>5, MagnitudeOfNormal, PowersOfTwo
  <2> QED
    BY <2>4, <2>5, <2>6 DEF b
<1>4. PICK t \in Nat, w \in Nat \ {0} :
          /\ t = (Scale - m) + (h - 1) /\ w = Pow2[t] /\ Pow2[t + 1] = 2 * w
          /\ Pow2[Scale + h] = 2 * (p * w)
  <2> DEFINE t == (Scale - m) + (h - 1)
  <2>1. t \in Nat /\ t + 1 \in Nat \ {0} /\ (t + 1) - 1 = t /\ m + (t + 1) = Scale + h
    BY <1>1
  <2> HIDE DEF t
  <2>2. Pow2[t] \in Nat \ {0} /\ Pow2[t + 1] = 2 * Pow2[t]
    BY <2>1, PowersOfTwo
  <2>3. Pow2[Scale + h] = p * Pow2[t + 1]
    BY <1>1, <2>1, PowerOfSum, ZenonT(60)
  <2>4. p * (2 * Pow2[t]) = 2 * (p * Pow2[t])
    BY <1>1, <2>2
  <2> QED
    BY <2>1, <2>2, <2>3, <2>4 DEF t
<1> DEFINE b == Floats!MaxBits(g)
<1>5. /\ b \in Floats!BitsOf(g) /\ Floats!BitsToExponent(g, b) = (2 * h) - 2
      /\ Floats!BitsToMantissa(g, b) = p - 1
  <2> DEFINE M == p - 1
             E == ((2 * h) - 1) - 1
  <2>1. b = Floats!ComponentsToBits(g, M, E, FALSE)
    BY <1>1, <1>2, FloatPowers DEF Floats!MaxBits
  <2>2. M \in 0..(Pow2[g.m] - 1) /\ E \in 0..(Pow2[g.e] - 1) /\ E = (2 * h) - 2
    BY <1>1
  <2>3. M = p - 1
    OBVIOUS
  <2> HIDE DEF b, M, E
  <2>4. FALSE \in BOOLEAN
    OBVIOUS
  <2>5. M \in 0..(Pow2[g.m] - 1) /\ E \in 0..(Pow2[g.e] - 1)
    BY <2>2
  <2>6. /\ b \in Floats!BitsOf(g)
        /\ Floats!BitsToMantissa(g, b) = M /\ Floats!BitsToExponent(g, b) = E
    BY ONLY g \in Formats, <2>1, <2>5, <2>4, FieldsOfComponents
  <2> QED
    BY <2>2, <2>3, <2>6
<1>6. Floats!LastUnit(g) = w
  <2>1. (Scale - m) + ((((2 * h) - 1) - 1) - (h - 1)) = t
    BY <1>1, <1>4
  <2> QED
    BY <1>1, <1>2, <1>4, <2>1, FloatPowers DEF Floats!LastUnit, Floats!ActualValue
<1> HIDE DEF b
<1>7. ASSUME h > 1 PROVE Floats!Magnitude(g, b) + w = Pow2[Scale + h]
  <2> DEFINE k == (Scale + ((2 * h) - 2)) - (h - 1)
  <2>1. k = (Scale + Floats!BitsToExponent(g, b)) - (Pow2[g.e - 1] - 1) /\ k - m = t
    BY <1>1, <1>4, <1>5
  <2>2. Floats!BitsToExponent(g, b) # 0
    BY <1>1, <1>5, <1>7
  <2> HIDE DEF k
  <2>3. Floats!Magnitude(g, b)
          = (Pow2[g.m] + Floats!BitsToMantissa(g, b)) * Pow2[k - g.m]
    BY <1>5, <2>1, <2>2, MagnitudeOfNormal
  <2>4. Pow2[g.m] + Floats!BitsToMantissa(g, b) = (2 * p) - 1 /\ Pow2[k - g.m] = w
    BY <1>1, <1>4, <1>5, <2>1
  <2>5. Floats!Magnitude(g, b) = ((2 * p) - 1) * w
    BY <2>3, <2>4
  <2> DEFINE a == 2 * p
  <2>6. a \in Nat /\ a * w = 2 * (p * w) /\ p * w \in Nat
    BY <1>1, <1>4
  <2>7. Floats!Magnitude(g, b) = (a - 1) * w
    BY <2>5
  <2> HIDE DEF a
  <2>8. a \in Int
    BY <2>6
  <2>9. w \in Int
    BY <1>4
  <2>10. (a - 1) * w = (a * w) - w
    BY ONLY <2>8, <2>9, LessOneTimes
  <2> QED
    BY <1>4, <2>6, <2>7, <2>10
<1>8. ASSUME ~(h > 1)
       PROVE  Floats!Magnitude(g, b) = (2 * (p * w)) - (2 * w) /\ p * w \in Nat
  <2>1. h = 1
    BY <1>1, <1>8
  <2>2. Floats!BitsToExponent(g, b) = 0 /\ Floats!ExponentZero(g.e) = 0
        /\ ((Scale - m) + 1) - 0 = t + 1
    BY <1>1, <1>2, <1>4, <1>5, <2>1
  <2>3. Floats!Magnitude(g, b) = (p - 1) * Pow2[((Scale - m) + 1) - 0]
    BY <1>1, <1>5, <2>2, FloatPowers DEF Floats!Magnitude
  <2>4. Floats!Magnitude(g, b) = (p - 1) * (2 * w)
    BY <1>4, <2>2, <2>3
  <2> DEFINE v == 2 * w
  <2>5. v \in Nat /\ p * v = 2 * (p * w) /\ p * w \in Nat
    BY <1>1, <1>4
  <2>6. v = 2 * w
    OBVIOUS
  <2> HIDE DEF v
  <2>7. (p - 1) * v = (p * v) - v
    BY <1>1, <2>5, LessOneTimes
  <2> QED
    BY <2>4, <2>5, <2>6, <2>7
<1>9. ASSUME ~(h > 1) PROVE Floats!Magnitude(g, b) + w <= Pow2[Scale + h]
  <2>1. Floats!Magnitude(g, b) = (2 * (p * w)) - (2 * w) /\ p * w \in Nat
    BY <1>9, <1>8
  <2> QED
    BY <1>4, <2>1
<1>10. ASSUME x >= Pow2[Scale + h] PROVE x >= Floats!Magnitude(g, b) + w
  <2>1. Floats!Magnitude(g, b) + w <= Pow2[Scale + h] /\ Pow2[Scale + h] \in Nat
        /\ Floats!Magnitude(g, b) + w \in Int
    <3>1. Pow2[Scale + h] \in Nat
      BY <1>1, <1>4
    <3>2. Floats!Magnitude(g, b) \in Int
      <4>1. CASE h > 1
        <5> DEFINE k == (Scale + Floats!BitsToExponent(g, b)) - (Pow2[g.e - 1] - 1)
        <5>1. Floats!BitsToExponent(g, b) # 0
          BY <1>1, <1>5, <4>1
        <5>2. k = (Scale + Floats!BitsToExponent(g, b)) - (Pow2[g.e - 1] - 1)
          OBVIOUS
        <5> HIDE DEF k
        <5>3. Floats!Magnitude(g, b) \in Nat
          BY <1>5, <5>1, <5>2, MagnitudeOfNormal
        <5> QED
          BY <5>3
      <4>2. CASE ~(h > 1)
        BY <1>4, <1>8, <4>2
      <4> QED
        BY <4>1, <4>2
    <3> QED
      BY <1>4, <1>7, <1>9, <3>1, <3>2
  <2> QED
    BY <1>10, <2>1
<1>11. h > 1 /\ x < Pow2[Scale + h] => ~(x >= Floats!Magnitude(g, b) + w)
  <2>1. Pow2[Scale + h] \in Nat
    BY <1>1, <1>4
  <2> QED
    BY <1>7, <2>1
<1>12. x >= Floats!Magnitude(g, Floats!MinBits(g)) => Pow2[(Scale + 2) - h] <= x
  BY <1>3
<1>13. h \in Nat \ {0} /\ (Scale + 2) - h \in Nat /\ Scale + h \in Nat
  BY <1>1, <1>3
<1> QED
  BY <1>6, <1>10, <1>11, <1>12, <1>13 DEF b

\* A number that is not too small for the new format keeps its sign, and is
\* truncated to a number of that format or becomes infinite.
LEMMA TruncationIsRight ==
    ASSUME NEW f \in Formats, NEW g \in Formats, NEW bits \in Floats!BitsOf(f),
           Floats!IsNormal(f, bits), Floats!Representable(f, g, bits),
           NEW x, x = Floats!Magnitude(f, bits), x >= Floats!Magnitude(g, Floats!MinBits(g)),
           NEW r, r = Floats!BitsToBits(f, g, bits),
           NEW end, end = Floats!Magnitude(g, Floats!MaxBits(g)) + Floats!LastUnit(g)
    PROVE  /\ Floats!BitsToSign(f, bits) = Floats!BitsToSign(g, r)
           /\ x >= end => Floats!IsInf(g, r)
           /\ ~(x >= end) => Floats!Magnitude(g, r) = Floats!Truncated(g, x)
<1> DEFINE sign == Floats!BitsToSign(f, bits)
<1>1. PICK h \in Nat \ {0}, i \in Nat \ {0}, E \in Nat, M \in Nat :
          /\ h = Pow2[f.e - 1] /\ i = Pow2[g.e - 1] /\ Pow2[f.e] = 2 * h /\ Pow2[g.e] = 2 * i
          /\ E = Floats!BitsToExponent(f, bits) /\ M = Floats!BitsToMantissa(f, bits)
          /\ E \in 0..((2 * h) - 1) /\ M \in 0..(Pow2[f.m] - 1)
  <2> DEFINE X == Floats!BitsToExponent(f, bits)
             Y == Floats!BitsToMantissa(f, bits)
  <2>1. /\ Pow2[f.e - 1] \in Nat \ {0} /\ Pow2[g.e - 1] \in Nat \ {0}
        /\ Pow2[f.e] = 2 * Pow2[f.e - 1] /\ Pow2[g.e] = 2 * Pow2[g.e - 1]
        /\ Pow2[f.m] \in Nat \ {0}
    BY FormatFacts
  <2>2. Y \in 0..(Pow2[f.m] - 1) /\ X \in 0..(Pow2[f.e] - 1)
    BY ComponentsOfFields
  <2>3. X = Floats!BitsToExponent(f, bits) /\ Y = Floats!BitsToMantissa(f, bits)
    OBVIOUS
  <2> HIDE DEF X, Y
  <2>4. X \in Nat /\ Y \in Nat /\ X \in 0..((2 * Pow2[f.e - 1]) - 1)
    BY <2>1, <2>2
  <2> QED
    BY <2>1, <2>2, <2>3, <2>4
<1>2. /\ f.m \in Nat /\ g.m \in Nat /\ f.e \in Nat \ {0} /\ g.e \in Nat \ {0}
      /\ f.s \in BOOLEAN /\ g.s \in BOOLEAN /\ Scale \in Nat
      /\ Scale - f.m >= h - 1 /\ Scale - g.m >= i - 1
  BY <1>1, FormatFacts
<1>3. sign \in BOOLEAN /\ (sign => f.s) /\ (sign => g.s)
  BY ComponentsOfFields DEF Floats!Representable, Floats!Positive
<1>4. E # 0 /\ E # (2 * h) - 1 /\ E \in 1..((2 * h) - 2)
  <2>1. Floats!ExponentMask(f.e) = (2 * h) - 1
    BY <1>1, FloatPowers DEF Floats!ExponentMask
  <2> QED
    BY <1>1, <2>1 DEF Floats!IsNormal
<1>5. PICK a \in Int, k \in Int : a = (E - h) + 1 /\ k = Scale + a
  BY <1>1, <1>2
<1>6. k = (Scale + E) - (h - 1)
  BY <1>1, <1>2, <1>5
<1>7. /\ k \in Nat /\ k >= f.m /\ x = (Pow2[f.m] + M) * Pow2[k - f.m]
      /\ x \in Nat /\ Pow2[k] <= x /\ x < Pow2[k + 1]
  BY <1>1, <1>4, <1>6, MagnitudeOfNormal
<1>8. /\ (Scale + 2) - i \in Nat /\ Scale + i \in Nat /\ Pow2[(Scale + 2) - i] <= x
      /\ x >= Pow2[Scale + i] => x >= end
      /\ i > 1 /\ x < Pow2[Scale + i] => ~(x >= end)
  BY <1>1, <1>7, Ends
<1>9. a >= 2 - i
  <2>1. ASSUME k + 1 <= (Scale + 2) - i PROVE FALSE
    <3>1. /\ Pow2[k + 1] <= Pow2[(Scale + 2) - i]
          /\ Pow2[k + 1] \in Nat /\ Pow2[(Scale + 2) - i] \in Nat
      BY <1>7, <1>8, <2>1, PowersGrow
    <3> QED
      BY <1>7, <1>8, <3>1
  <2> QED
    BY <1>1, <1>2, <1>5, <2>1
<1>10. /\ (f.e = g.e => h = i) /\ (f.e < g.e => h < i)
       /\ Floats!ExponentMask(g.e) = (2 * i) - 1 /\ Floats!ExponentMask(f.e) = (2 * h) - 1
       /\ a >= i => Floats!ConvertExponent(E, f.e, g.e) = (2 * i) - 1
       /\ a < i => Floats!ConvertExponent(E, f.e, g.e) = (E - h) + i
  <2>1. a < i => (E - h) + i >= 0
    BY <1>1, <1>5, <1>9
  <2>2. Floats!ExponentMask(g.e) = (2 * i) - 1
    BY <1>1, FloatPowers DEF Floats!ExponentMask
  <2>3. /\ (f.e = g.e => h = i) /\ (f.e < g.e => h < i)
        /\ Floats!ExponentMask(f.e) = (2 * h) - 1
        /\ E # 0 /\ (E = (2 * h) - 1 \/ (E - h) + 1 >= i)
             => Floats!ConvertExponent(E, f.e, g.e) = (2 * i) - 1
        /\ E \notin {0, (2 * h) - 1} /\ (E - h) + 1 < i /\ (E - h) + i >= 0
             => Floats!ConvertExponent(E, f.e, g.e) = (E - h) + i
    <3>1. /\ f.e \in Nat \ {0} /\ g.e \in Nat \ {0} /\ E \in 0..((2 * h) - 1)
          /\ h = Pow2[f.e - 1] /\ i = Pow2[g.e - 1]
      BY <1>1, <1>2
    <3>2. Converted(f.e, g.e, h, i, E, Floats!ConvertExponent(E, f.e, g.e))
      BY ONLY <3>1, ExponentConverts
    <3> QED
      BY <3>2 DEF Converted
  <2> QED
    BY <1>4, <1>5, <2>1, <2>2, <2>3
<1> HIDE DEF sign
<1>11. CASE a < i
  <2>1. PICK F, N : F = (E - h) + i /\ N = Floats!ConvertMantissa(M, f.m, g.m)
    OBVIOUS
  <2>2. i > 1 /\ F \in 1..((2 * i) - 2) /\ k = (Scale + F) - (i - 1) /\ g.m <= k
    BY <1>1, <1>2, <1>5, <1>9, <1>11, <2>1
  <2>3. /\ N \in 0..(Pow2[g.m] - 1)
        /\ (Pow2[g.m] + N) * Pow2[k - g.m] <= x
        /\ x < ((Pow2[g.m] + N) * Pow2[k - g.m]) + Pow2[k - g.m]
    <3>1. /\ f.m \in Nat /\ g.m \in Nat /\ k \in Nat /\ f.m <= k /\ g.m <= k
          /\ M \in 0..(Pow2[f.m] - 1) /\ N = Floats!ConvertMantissa(M, f.m, g.m)
      BY <1>1, <1>2, <1>7, <2>1, <2>2
    <3>2. /\ N \in 0..(Pow2[g.m] - 1)
          /\ (Pow2[g.m] + N) * Pow2[k - g.m] <= (Pow2[f.m] + M) * Pow2[k - f.m]
          /\ (Pow2[f.m] + M) * Pow2[k - f.m]
               < ((Pow2[g.m] + N) * Pow2[k - g.m]) + Pow2[k - g.m]
      BY ONLY <3>1, MantissaTruncates
    <3> QED
      BY <1>7, <3>2
  <2>4. /\ r \in Floats!BitsOf(g) /\ Floats!BitsToMantissa(g, r) = N
        /\ Floats!BitsToExponent(g, r) = F /\ sign = Floats!BitsToSign(g, r)
    <3>1. CASE f = g
      <4>1. r = bits
        BY <3>1 DEF Floats!BitsToBits
      <4>2. F = E
        BY <1>1, <2>1, <3>1
      <4>3. N = M
        <5>1. f.m - f.m \in Nat /\ f.m - f.m = 0
          BY <1>2
        <5>2. Pow2[f.m - f.m] = 1
          BY <5>1, PowersOfTwo
        <5> QED
          BY <1>2, <2>1, <3>1, <5>2, FloatPowers DEF Floats!ConvertMantissa
      <4> QED
        BY <1>1, <3>1, <4>1, <4>2, <4>3 DEF sign
    <3>2. CASE f # g
      <4>1. Floats!ConvertExponent(E, f.e, g.e) = F /\ F # Floats!ExponentMask(g.e)
        BY <1>10, <1>11, <2>1, <2>2
      <4>2. ~Floats!Overflowed(f.e, g.e, E, F)
        BY <4>1 DEF Floats!Overflowed
      <4>3. r = Floats!ComponentsToBits(g, N, F, sign)
        BY <1>1, <1>3, <2>1, <3>2, <4>1, <4>2, PartsConvert DEF sign
      <4>4. F \in 0..(Pow2[g.e] - 1)
        BY <1>1, <2>2
      <4>5. /\ r \in Floats!BitsOf(g)
            /\ Floats!BitsToMantissa(g, r) = N /\ Floats!BitsToExponent(g, r) = F
            /\ Floats!BitsToSign(g, r) <=> g.s /\ sign
        BY <1>3, <2>3, <4>3, <4>4, FieldsOfComponents
      <4>6. Floats!BitsToSign(g, r) \in BOOLEAN
        BY <1>2 DEF Floats!BitsToSign
      <4> QED
        BY <1>3, <4>5, <4>6
    <3> QED
      BY <3>1, <3>2
  <2>5. Floats!BitsToExponent(g, r) # 0 /\ Floats!IsNormal(g, r)
    BY <1>1, <1>10, <2>2, <2>4 DEF Floats!IsNormal
  <2>6. k = (Scale + Floats!BitsToExponent(g, r)) - (Pow2[g.e - 1] - 1)
    BY <1>1, <2>2, <2>4
  <2>7. Floats!Magnitude(g, r) = (Pow2[g.m] + N) * Pow2[k - g.m]
    BY <2>4, <2>5, <2>6, MagnitudeOfNormal
  <2>8. Floats!Truncated(g, x) = Floats!Magnitude(g, r)
    BY <1>7, <2>3, <2>4, <2>5, <2>6, <2>7, NearestBelow
  <2>9. ~(x >= end)
    <3>1. Pow2[k + 1] <= Pow2[Scale + i] /\ Pow2[k + 1] \in Nat /\ Pow2[Scale + i] \in Nat
      <4>1. k + 1 \in Nat /\ k + 1 <= Scale + i
        BY <1>1, <1>2, <1>5, <1>7, <1>11
      <4> QED
        BY <1>8, <4>1, PowersGrow
    <3> QED
      BY <1>7, <1>8, <2>2, <3>1
  <2> QED
    BY <2>4, <2>8, <2>9 DEF sign
<1>12. CASE a >= i
  <2>1. f # g /\ g.e < f.e
    BY <1>1, <1>2, <1>4, <1>5, <1>10, <1>12
  <2> DEFINE F == (2 * i) - 1
  <2>2. Floats!Overflowed(f.e, g.e, E, F)
    BY <1>4, <1>10, <2>1 DEF Floats!Overflowed
  <2>3. F \in 0..(Pow2[g.e] - 1) /\ F = Floats!ExponentMask(g.e) /\ 0 \in 0..(Pow2[g.m] - 1)
    <3>1. Pow2[g.m] \in Nat \ {0}
      BY FormatFacts
    <3> QED
      BY <1>1, <1>10, <3>1
  <2>4. Floats!ConvertExponent(E, f.e, g.e) = F
    BY <1>10, <1>12
  <2> HIDE DEF F
  <2>5. r = Floats!ComponentsToBits(g, 0, F, sign)
    BY <1>1, <1>3, <2>1, <2>2, <2>4 DEF Floats!BitsToBits, sign
  <2>6. /\ Floats!BitsToMantissa(g, r) = 0 /\ Floats!BitsToExponent(g, r) = F
        /\ Floats!BitsToSign(g, r) <=> g.s /\ sign
    BY <1>3, <2>3, <2>5, FieldsOfComponents
  <2>7. Floats!BitsToSign(g, r) \in BOOLEAN
    BY <1>2 DEF Floats!BitsToSign
  <2>8. Floats!IsInf(g, r)
    BY <2>3, <2>6 DEF Floats!IsInf
  <2>9. x >= end
    <3>1. Pow2[Scale + i] <= Pow2[k] /\ Pow2[k] \in Nat /\ Pow2[Scale + i] \in Nat
      <4>1. Scale + i <= k
        BY <1>1, <1>2, <1>5, <1>12
      <4> QED
        BY <1>7, <1>8, <4>1, PowersGrow
    <3> QED
      BY <1>7, <1>8, <3>1
  <2> QED
    BY <1>3, <2>6, <2>7, <2>8, <2>9 DEF sign
<1> QED
  BY <1>1, <1>5, <1>11, <1>12

\* What is known of the last conversion.
ConversionInv ==
    component = "floats" /\ last.op # "none" =>
        /\ last.from \in Formats /\ last.to \in Formats /\ last.bits \in Floats!BitsOf(last.from)
        /\ last.result = Floats!BitsToBits(last.from, last.to, last.bits)

\* bit_float: for formats of any widths, a conversion truncates to a number of
\* the new format or becomes infinite, and keeps the sign (bits_to_bits,
\* convert_exponent, convert_mantissa); and into a format at least as wide in
\* every part and back, nothing is lost.
THEOREM NumbersConvert == LibrarySpec => []ConvertsNumbers
<1>1. LibraryInit => ConversionInv
  <2>1. LibraryInit /\ component = "floats" => Floats!Init
    BY DEF LibraryInit, NumbersInit
  <2> QED
    BY <2>1 DEF Floats!Init, ConversionInv
<1>2. ConversionInv /\ [LibraryNext]_<<component, vars, third>> => ConversionInv'
  <2> SUFFICES ASSUME ConversionInv, [LibraryNext]_<<component, vars, third>>,
                      component' = "floats", last'.op # "none"
               PROVE  /\ last'.from \in Formats /\ last'.to \in Formats
                      /\ last'.bits \in Floats!BitsOf(last'.from)
                      /\ last'.result = Floats!BitsToBits(last'.from, last'.to, last'.bits)
    BY DEF ConversionInv
  <2>1. component = "floats" /\ (Floats!Next \/ last' = last)
    <3>1. CASE NumbersStep
      BY <3>1 DEF NumbersStep, NumbersNext, UInt128Next, BitsNext, FloatsNext, RemapsNext
    <3>2. CASE LibraryNext /\ ~NumbersStep
      BY <3>2 DEF LibraryNext, OptionsNext, CoroutinesNext, OwnersNext, CachesNext, MemoryNext,
          ScopesNext, ResultsNext
    <3>3. CASE UNCHANGED <<component, vars, third>>
      BY <3>3 DEF vars
    <3> QED
      BY <3>1, <3>2, <3>3
  <2>2. CASE last' = last
    BY <2>1, <2>2 DEF ConversionInv
  <2>3. CASE Floats!Next
    BY <2>3 DEF Floats!Next, Floats!Convert
  <2> QED
    BY <2>1, <2>2, <2>3
<1>3. ConversionInv => ConvertsNumbers
  <2> SUFFICES ASSUME ConversionInv, component = "floats", last.op # "none"
               PROVE  Floats!TruncatesNormalNumbers /\ Floats!WideningIsLossless
    BY DEF ConvertsNumbers, Floats!TruncatesNormalNumbers, Floats!WideningIsLossless
  <2>1. PICK f, g, bits, r :
            /\ f \in Formats /\ g \in Formats
            /\ f = last.from /\ g = last.to /\ bits = last.bits /\ r = last.result
            /\ bits \in Floats!BitsOf(f) /\ r = Floats!BitsToBits(f, g, bits)
    BY DEF ConversionInv
  <2>2. Floats!TruncatesNormalNumbers
    <3>1. ASSUME Floats!IsNormal(f, bits), Floats!Representable(f, g, bits),
                 Floats!Magnitude(f, bits) >= Floats!Magnitude(g, Floats!MinBits(g))
          PROVE  /\ Floats!BitsToSign(f, bits) = Floats!BitsToSign(g, r)
                 /\ IF Floats!Magnitude(f, bits)
                        >= Floats!Magnitude(g, Floats!MaxBits(g)) + Floats!LastUnit(g)
                    THEN Floats!IsInf(g, r)
                    ELSE Floats!Magnitude(g, r) = Floats!Truncated(g, Floats!Magnitude(f, bits))
      BY <2>1, <3>1, TruncationIsRight
    <3> QED
      BY <2>1, <3>1 DEF Floats!TruncatesNormalNumbers
  <2>3. Floats!WideningIsLossless
    BY <2>1, WideningReturns DEF Floats!WideningIsLossless
  <2> QED
    BY <2>2, <2>3
<1> QED
  BY <1>1, <1>2, <1>3, PTL DEF LibrarySpec
-----------------------------------------------------------------------------
(* bit_copy, for bytes, objects and offsets of any sizes.                  *)

\* A shifted word: what was below position 0 is gone.
LEMMA ShiftedIs ==
    ASSUME NEW word \in SUBSET Int, NEW by \in Int
    PROVE  Bits!Shifted(word, by) = {k \in Nat : k - by \in word}
<1>1. ASSUME NEW k \in Bits!Shifted(word, by) PROVE k \in Nat /\ k - by \in word
  <2>1. PICK j \in word : j + by >= 0 /\ k = j + by
    BY DEF Bits!Shifted
  <2>2. k \in Nat /\ k - by = j
    BY <2>1
  <2> QED
    BY <2>1, <2>2
<1>2. ASSUME NEW k \in Nat, k - by \in word PROVE k \in Bits!Shifted(word, by)
  <2>1. (k - by) + by = k /\ k >= 0
    OBVIOUS
  <2> QED
    BY <1>2, <2>1 DEF Bits!Shifted
<1> QED
  BY <1>1, <1>2

\* A part of an array: its positions count from the first.
LEMMA PartIs ==
    ASSUME NEW array \in SUBSET Int, NEW first \in Int, NEW bits \in Int
    PROVE  Bits!Part(array, first, bits) = {k \in Nat : k < bits /\ k + first \in array}
<1>1. -first \in Int /\ \A k \in Nat : k - (-first) = k + first /\ (k \in 0..(bits - 1) <=> k < bits)
  OBVIOUS
<1>2. Bits!Shifted(array, -first) = {k \in Nat : k - (-first) \in array}
  BY <1>1, ShiftedIs
<1> QED
  BY <1>1, <1>2 DEF Bits!Part, Bits!Mask

\* A word has what an array holds from a position on, and all of it up to a
\* number of bits.
ReadAt(word, array, first, bits) ==
    /\ word \subseteq Nat /\ \A k \in word : k + first \in array
    /\ \A k \in Nat : k < bits /\ k + first \in array => k \in word

\* A byte that is read has at least the bits of a byte.
LEMMA ByteIsRead ==
    ASSUME NEW array \in SUBSET Nat, NEW size \in Nat \ {0}, NEW i \in Nat
    PROVE  ReadAt(Bits!ByteRead(array, size, i), array, i * ByteBits, ByteBits)
<1> DEFINE rest == size - (i % size)
           bits == rest * ByteBits
           first == i * ByteBits
<1>1. ByteBits \in Nat \ {0}
  BY NumbersAssumption
<1>2. rest \in Nat \ {0}
  BY DivMod
<1> HIDE DEF rest
<1>3. bits \in Nat /\ ByteBits <= bits /\ first \in Nat
  <2>1. PICK more \in Nat : rest = 1 + more
    BY <1>2
  <2>2. bits = ByteBits + (more * ByteBits) /\ more * ByteBits \in Nat
    BY <1>1, <2>1
  <2> QED
    BY <1>1, <2>2
<1>4. Bits!ByteRead(array, size, i) = Bits!Part(array, first, bits)
  BY DEF Bits!ByteRead, rest
<1> HIDE DEF bits, first
<1>5. Bits!ByteRead(array, size, i) = {k \in Nat : k < bits /\ k + first \in array}
  <2>1. array \in SUBSET Int
    OBVIOUS
  <2> QED
    BY <1>3, <1>4, <2>1, PartIs
<1>6. ReadAt(Bits!ByteRead(array, size, i), array, first, ByteBits)
  BY <1>1, <1>3, <1>5 DEF ReadAt
<1> QED
  BY <1>6 DEF first

\* Two bytes, of one object or of two, have the bits of both.
LEMMA TwoBytesAreRead ==
    ASSUME NEW array \in SUBSET Nat, NEW size \in Nat \ {0}, NEW i \in Nat
    PROVE  ReadAt(Bits!U16Read(array, size, i), array, i * ByteBits, 2 * ByteBits)
<1> DEFINE first == i * ByteBits
           next == (i + 1) * ByteBits
           low == Bits!ByteRead(array, size, i)
           high == Bits!ByteRead(array, size, i + 1)
<1>1. ByteBits \in Nat \ {0} /\ first \in Nat /\ next = first + ByteBits
  BY NumbersAssumption
<1>2. ReadAt(low, array, first, ByteBits)
  BY ByteIsRead
<1>3. ReadAt(high, array, next, ByteBits)
  <2>1. i + 1 \in Nat
    OBVIOUS
  <2> QED
    BY <2>1, ByteIsRead
<1>4. CASE size = 2 /\ i % 2 = 0
  <2>1. low = Bits!Part(array, first, 2 * ByteBits)
    BY <1>4 DEF Bits!ByteRead
  <2> HIDE DEF low, first
  <2>2. low = {k \in Nat : k < 2 * ByteBits /\ k + first \in array}
    <3>1. array \in SUBSET Int /\ 2 * ByteBits \in Int /\ first \in Int
      BY <1>1
    <3> QED
      BY <2>1, <3>1, PartIs
  <2>3. ReadAt(low, array, first, 2 * ByteBits)
    BY <1>1, <2>2 DEF ReadAt
  <2>4. Bits!U16Read(array, size, i) = low
    BY <1>4 DEF Bits!U16Read, low
  <2> QED
    BY <2>3, <2>4 DEF first
<1>5. CASE ~(size = 2 /\ i % 2 = 0)
  <2> DEFINE upper == Bits!Shifted(high, ByteBits)
  <2>1. Bits!U16Read(array, size, i) = low \cup upper
    BY <1>5 DEF Bits!U16Read
  <2>2. upper = {k \in Nat : k - ByteBits \in high}
    <3>1. high \in SUBSET Int /\ ByteBits \in Int
      BY <1>1, <1>3 DEF ReadAt
    <3> HIDE DEF high
    <3> QED
      BY <3>1, ShiftedIs
  <2> HIDE DEF low, high, first, next, upper
  <2>3. ASSUME NEW k \in low \cup upper PROVE k \in Nat /\ k + first \in array
    <3>1. CASE k \in low
      BY <1>2, <3>1 DEF ReadAt
    <3>2. CASE k \in upper
      <4>1. k \in Nat /\ k - ByteBits \in high
        BY <2>2, <3>2
      <4>2. (k - ByteBits) + next \in array
        BY <1>3, <4>1 DEF ReadAt
      <4>3. (k - ByteBits) + next = k + first
        BY <1>1, <4>1
      <4> QED
        BY <4>1, <4>2, <4>3
    <3> QED
      BY <3>1, <3>2
  <2>4. ASSUME NEW k \in Nat, k < 2 * ByteBits, k + first \in array PROVE k \in low \cup upper
    <3>1. CASE k < ByteBits
      BY <1>2, <2>4, <3>1 DEF ReadAt
    <3>2. CASE k >= ByteBits
      <4>1. k - ByteBits \in Nat /\ k - ByteBits < ByteBits /\ (k - ByteBits) + next = k + first
        BY <1>1, <2>4, <3>2
      <4>2. k - ByteBits \in high
        BY <1>3, <2>4, <4>1 DEF ReadAt
      <4> QED
        BY <2>2, <4>2
    <3> QED
      BY <1>1, <3>1, <3>2
  <2>5. ReadAt(low \cup upper, array, first, 2 * ByteBits)
    BY <2>3, <2>4 DEF ReadAt
  <2> QED
    BY <2>1, <2>5 DEF first
<1> QED
  BY <1>4, <1>5

\* A write replaces a range of positions by those of a piece.
WrittenAt(array, first, bits, piece) ==
    {k \in Nat : IF first <= k /\ k < first + bits THEN k - first \in piece ELSE k \in array}

\* A byte that is written replaces the bits of a byte.
LEMMA ByteIsWritten ==
    ASSUME NEW array \in SUBSET Nat, NEW i \in Nat, NEW piece \in SUBSET Int
    PROVE  Bits!ByteWrite(array, i, piece) = WrittenAt(array, i * ByteBits, ByteBits, piece)
<1> DEFINE first == i * ByteBits
           mask == Bits!Mask(ByteBits)
<1>1. ByteBits \in Nat \ {0} /\ first \in Nat
  BY NumbersAssumption
<1>2. mask = 0..(ByteBits - 1)
  BY DEF Bits!Mask
<1>3. Bits!ByteWrite(array, i, piece)
        = (array \ Bits!Shifted(mask, first)) \cup Bits!Shifted(piece \cap mask, first)
  BY DEF Bits!ByteWrite
<1> HIDE DEF first, mask
<1>4. /\ Bits!Shifted(mask, first) = {k \in Nat : k - first \in mask}
      /\ Bits!Shifted(piece \cap mask, first) = {k \in Nat : k - first \in piece \cap mask}
  <2>1. mask \in SUBSET Int /\ piece \cap mask \in SUBSET Int /\ first \in Int
    BY <1>1, <1>2
  <2> QED
    BY <2>1, ShiftedIs
<1>5. \A k \in Nat : k - first \in mask <=> first <= k /\ k < first + ByteBits
  BY <1>1, <1>2
<1>6. Bits!ByteWrite(array, i, piece) = WrittenAt(array, first, ByteBits, piece)
  BY <1>3, <1>4, <1>5 DEF WrittenAt
<1> QED
  BY <1>6 DEF first

\* Two bytes replace the bits of both.
LEMMA TwoBytesAreWritten ==
    ASSUME NEW array \in SUBSET Nat, NEW i \in Nat, NEW piece \in SUBSET Int
    PROVE  Bits!U16Write(array, i, piece) = WrittenAt(array, i * ByteBits, 2 * ByteBits, piece)
<1> DEFINE first == i * ByteBits
           next == (i + 1) * ByteBits
           low == Bits!ByteWrite(array, i, piece)
           upper == Bits!Shifted(piece, -ByteBits)
           both == Bits!ByteWrite(low, i + 1, upper)
<1>1. ByteBits \in Nat \ {0} /\ first \in Nat /\ next = first + ByteBits /\ i + 1 \in Nat
  BY NumbersAssumption
<1>2. low = WrittenAt(array, first, ByteBits, piece)
  BY ByteIsWritten
<1>3. upper = {k \in Nat : k + ByteBits \in piece}
  <2>1. -ByteBits \in Int /\ \A k \in Nat : k - (-ByteBits) = k + ByteBits
    BY <1>1
  <2>2. upper = {k \in Nat : k - (-ByteBits) \in piece}
    BY <2>1, ShiftedIs
  <2> QED
    BY <2>1, <2>2
<1>4. both = WrittenAt(low, next, ByteBits, upper)
  <2>1. low \in SUBSET Nat /\ upper \in SUBSET Int
    BY <1>2, <1>3 DEF WrittenAt
  <2> HIDE DEF low, upper
  <2> QED
    BY <1>1, <2>1, ByteIsWritten
<1>5. Bits!U16Write(array, i, piece) = both
  BY DEF Bits!U16Write
<1> HIDE DEF low, upper, both, first, next
<1>6. ASSUME NEW k \in Nat
      PROVE  k \in both <=> k \in WrittenAt(array, first, 2 * ByteBits, piece)
  <2>1. CASE next <= k /\ k < next + ByteBits
    <3>1. k \in both <=> (k - next) + ByteBits \in piece
      BY <1>1, <1>3, <1>4, <2>1 DEF WrittenAt
    <3>2. (k - next) + ByteBits = k - first
      BY <1>1
    <3> QED
      BY <1>1, <2>1, <3>1, <3>2 DEF WrittenAt
  <2>2. CASE ~(next <= k /\ k < next + ByteBits)
    <3>1. k \in both <=> k \in low
      BY <1>4, <2>2 DEF WrittenAt
    <3>2. first <= k /\ k < first + ByteBits <=> first <= k /\ k < first + (2 * ByteBits)
      BY <1>1, <2>2
    <3> QED
      BY <1>2, <3>1, <3>2 DEF WrittenAt
  <2> QED
    BY <2>1, <2>2
<1>7. both \subseteq Nat /\ WrittenAt(array, first, 2 * ByteBits, piece) \subseteq Nat
  BY <1>4 DEF WrittenAt
<1> QED
  BY <1>5, <1>6, <1>7 DEF first

\* What a call of bit_copy may be.
BitCall(c) ==
    /\ c.bits \in Nat \ {0} /\ c.from \in Nat /\ c.to \in Nat
    /\ c.srcSize \in Nat \ {0} /\ c.dstSize \in Nat \ {0}
    /\ c.source \in SUBSET Nat /\ c.mode \in Bits!Modes

\* A range of positions of the destination gets the bits of the source, and
\* loses its own, if it is to.
Pasted(c, array, first, bits, clears) ==
    {k \in Nat : IF first <= k /\ k < first + bits
                 THEN (k - c.to) + c.from \in c.source \/ (~clears /\ k \in array)
                 ELSE k \in array}

\* Ranges next to each other make one.
LEMMA PastedNext ==
    ASSUME NEW c, BitCall(c), NEW array \in SUBSET Nat, NEW clears \in BOOLEAN,
           NEW first \in Nat, NEW n \in Nat, NEW m \in Nat
    PROVE  Pasted(c, Pasted(c, array, first, n, clears), first + n, m, clears)
             = Pasted(c, array, first, n + m, clears)
<1> DEFINE one == Pasted(c, array, first, n, clears)
           two == Pasted(c, one, first + n, m, clears)
           both == Pasted(c, array, first, n + m, clears)
<1>1. ASSUME NEW k \in Nat PROVE k \in two <=> k \in both
  <2>1. CASE first + n <= k /\ k < (first + n) + m
    <3>1. k \in one <=> k \in array
      BY <2>1 DEF Pasted
    <3>2. first <= k /\ k < first + (n + m)
      BY <2>1
    <3> QED
      BY <2>1, <3>1, <3>2 DEF Pasted
  <2>2. CASE ~(first + n <= k /\ k < (first + n) + m)
    <3>1. k \in two <=> k \in one
      BY <2>2 DEF Pasted
    <3>2. first <= k /\ k < first + n <=> first <= k /\ k < first + (n + m)
      BY <2>2
    <3> QED
      BY <3>1, <3>2 DEF Pasted
  <2> QED
    BY <2>1, <2>2
<1>2. two \subseteq Nat /\ both \subseteq Nat
  BY DEF Pasted
<1> HIDE DEF two, both
<1>3. two = both
  BY <1>1, <1>2
<1> QED
  BY <1>3 DEF two, both, one

\* Where the byte of a call and an index begins, in source and destination.
LEMMA BytePositions ==
    ASSUME NEW a \in Nat, NEW i \in Nat
    PROVE  /\ (a \div ByteBits) + i \in Nat /\ a % ByteBits \in 0..(ByteBits - 1)
           /\ ((a \div ByteBits) + i) * ByteBits = (a - (a % ByteBits)) + (i * ByteBits)
           /\ i * ByteBits \in Nat
<1> DEFINE q == a \div ByteBits
           r == a % ByteBits
<1>1. ByteBits \in Nat \ {0}
  BY NumbersAssumption
<1>2. q \in Nat /\ r \in 0..(ByteBits - 1) /\ a = (ByteBits * q) + r
  <2>1. q \in Nat
    BY <1>1, DivNat
  <2>2. a % ByteBits \in 0..(ByteBits - 1) /\ a = (ByteBits * (a \div ByteBits)) + (a % ByteBits)
    BY <1>1, DivMod
  <2> QED
    BY <2>1, <2>2
<1> HIDE DEF q, r
<1>3. (q + i) * ByteBits = (ByteBits * q) + (i * ByteBits) /\ i * ByteBits \in Nat
  BY <1>1, <1>2
<1>4. q + i \in Nat /\ r \in 0..(ByteBits - 1) /\ (q + i) * ByteBits = (a - r) + (i * ByteBits)
      /\ i * ByteBits \in Nat
  <2> DEFINE p == ByteBits * q
             s == i * ByteBits
  <2>1. p \in Int /\ s \in Int /\ q + i \in Nat
    BY <1>1, <1>2
  <2>2. (q + i) * ByteBits = p + s /\ a = p + r
    BY <1>2, <1>3
  <2> HIDE DEF p
  <2>3. (q + i) * ByteBits = (a - r) + s
    BY <1>1, <1>2, <2>1, <2>2
  <2> QED
    BY <1>2, <1>3, <2>1, <2>3
<1> QED
  BY <1>4 DEF q, r

\* Where the bits to copy are read as far as they go, bit_copy_helper pastes
\* them, whether it reads and writes one byte or two.
LEMMA HelperPastes ==
    ASSUME NEW c, BitCall(c), c.to % ByteBits = 0, NEW array \in SUBSET Nat,
           NEW srcTwo \in BOOLEAN, NEW dstTwo \in BOOLEAN, NEW i \in Nat,
           NEW n \in 1..ByteBits, NEW mask, mask = 0..(n - 1),
           srcTwo \/ (c.from % ByteBits) + n <= ByteBits
    PROVE  Bits!CopyHelper(c, array, srcTwo, dstTwo, mask, i)
             = Pasted(c, array, c.to + (i * ByteBits), n, c.mode = "clear_bits")
<1> DEFINE Read(a, size, j, two) == IF two THEN Bits!U16Read(a, size, j) ELSE Bits!ByteRead(a, size, j)
           src == (c.from \div ByteBits) + i
           dst == (c.to \div ByteBits) + i
           f == c.from % ByteBits
           first == c.to + (i * ByteBits)
           begin == (c.from - f) + (i * ByteBits)
           read == Read(c.source, c.srcSize, src, srcTwo)
           by == (c.to % ByteBits) - f
           srcBuf == Bits!Shifted(read, by) \cap mask
           dstBuf == Read(array, c.dstSize, dst, dstTwo)
           result == (IF c.mode = "clear_bits" THEN dstBuf \ mask ELSE dstBuf) \cup srcBuf
           width == IF dstTwo THEN 2 * ByteBits ELSE ByteBits
           reach == IF srcTwo THEN 2 * ByteBits ELSE ByteBits
           after == Bits!CopyHelper(c, array, srcTwo, dstTwo, mask, i)
           wanted == Pasted(c, array, first, n, c.mode = "clear_bits")
<1>1. /\ ByteBits \in Nat \ {0} /\ c.from \in Nat /\ c.to \in Nat /\ c.source \in SUBSET Nat
      /\ c.srcSize \in Nat \ {0} /\ c.dstSize \in Nat \ {0}
  BY NumbersAssumption DEF BitCall
<1>2. /\ src \in Nat /\ dst \in Nat /\ f \in 0..(ByteBits - 1) /\ src * ByteBits = begin
      /\ dst * ByteBits = first /\ first \in Nat /\ i * ByteBits \in Nat
  <2>1. /\ dst \in Nat /\ i * ByteBits \in Nat
        /\ dst * ByteBits = (c.to - (c.to % ByteBits)) + (i * ByteBits)
    BY <1>1, BytePositions
  <2>2. src \in Nat /\ f \in 0..(ByteBits - 1) /\ src * ByteBits = begin
    BY <1>1, BytePositions
  <2>3. c.to - (c.to % ByteBits) = c.to
    BY <1>1
  <2> HIDE DEF dst, src, f, begin
  <2>4. dst * ByteBits = first /\ first \in Nat
    <3> DEFINE rest == c.to - (c.to % ByteBits)
               s == i * ByteBits
    <3>1. dst * ByteBits = rest + s /\ rest = c.to /\ s \in Nat
      BY <2>1, <2>3
    <3> HIDE DEF rest, s
    <3>2. dst * ByteBits = c.to + s /\ c.to + s \in Nat
      BY <1>1, <3>1
    <3> QED
      BY <3>2 DEF s
  <2> QED
    BY <2>1, <2>2, <2>4
<1>3. after = IF dstTwo THEN Bits!U16Write(array, dst, result) ELSE Bits!ByteWrite(array, dst, result)
  BY DEF Bits!CopyHelper
<1>4. by = -f
  BY <1>1, <1>2
<1> HIDE DEF src, dst
<1>5. ReadAt(read, c.source, begin, reach)
  <2>1. CASE srcTwo
    <3>1. ReadAt(Bits!U16Read(c.source, c.srcSize, src), c.source, src * ByteBits, 2 * ByteBits)
      BY <1>1, <1>2, TwoBytesAreRead
    <3> QED
      BY <1>2, <2>1, <3>1
  <2>2. CASE ~srcTwo
    <3>1. ReadAt(Bits!ByteRead(c.source, c.srcSize, src), c.source, src * ByteBits, ByteBits)
      BY <1>1, <1>2, ByteIsRead
    <3> QED
      BY <1>2, <2>2, <3>1
  <2> QED
    BY <2>1, <2>2
<1>6. ReadAt(dstBuf, array, first, width)
  <2>1. CASE dstTwo
    <3>1. ReadAt(Bits!U16Read(array, c.dstSize, dst), array, dst * ByteBits, 2 * ByteBits)
      BY <1>1, <1>2, TwoBytesAreRead
    <3> QED
      BY <1>2, <2>1, <3>1
  <2>2. CASE ~dstTwo
    <3>1. ReadAt(Bits!ByteRead(array, c.dstSize, dst), array, dst * ByteBits, ByteBits)
      BY <1>1, <1>2, ByteIsRead
    <3> QED
      BY <1>2, <2>2, <3>1
  <2> QED
    BY <2>1, <2>2
<1> HIDE DEF read, dstBuf
<1>7. Bits!Shifted(read, by) = {k \in Nat : k + f \in read}
  <2>1. read \in SUBSET Int /\ by \in Int /\ \A k \in Nat : k - by = k + f
    BY <1>2, <1>4, <1>5 DEF ReadAt
  <2> HIDE DEF by
  <2>2. Bits!Shifted(read, by) = {k \in Nat : k - by \in read}
    BY <2>1, ShiftedIs
  <2> QED
    BY <2>1, <2>2
<1>8. ASSUME NEW k \in mask PROVE k \in srcBuf <=> (k + c.from) + (i * ByteBits) \in c.source
  <2>1. k \in Nat /\ k < n /\ k + f \in Nat /\ k + f < reach
    <3> HIDE DEF f
    <3>1. k \in Nat /\ k < n /\ k + f \in Nat
      BY <1>1, <1>2
    <3>2. CASE srcTwo
      BY <1>1, <1>2, <3>1, <3>2
    <3>3. CASE ~srcTwo
      <4>1. f + n <= ByteBits
        BY <3>3 DEF f
      <4> QED
        BY <1>1, <1>2, <3>1, <3>3, <4>1
    <3> QED
      BY <3>1, <3>2, <3>3
  <2>2. (k + f) + begin = (k + c.from) + (i * ByteBits)
    <3> DEFINE s == i * ByteBits
    <3>1. s \in Nat /\ begin = (c.from - f) + s
      BY <1>2
    <3> HIDE DEF f, s, begin
    <3>2. (k + f) + begin = (k + c.from) + s
      BY <1>1, <1>2, <2>1, <3>1, SMTT(30)
    <3> QED
      BY <3>2 DEF s
  <2> HIDE DEF f, begin, reach
  <2>3. k + f \in read <=> (k + f) + begin \in c.source
    BY <1>5, <2>1 DEF ReadAt
  <2> QED
    BY <1>7, <2>1, <2>2, <2>3
<1> HIDE DEF srcBuf
<1>9. result \in SUBSET Int
  <2>1. srcBuf \subseteq mask /\ mask \subseteq Int /\ dstBuf \subseteq Int
    BY <1>6 DEF ReadAt, srcBuf
  <2> QED
    BY <2>1
<1>10. srcBuf \subseteq mask
  BY DEF srcBuf
<1> HIDE DEF result, first
<1>11. after = WrittenAt(array, first, width, result)
  <2>1. CASE dstTwo
    <3>1. Bits!U16Write(array, dst, result) = WrittenAt(array, dst * ByteBits, 2 * ByteBits, result)
      BY <1>2, <1>9, TwoBytesAreWritten
    <3> QED
      BY <1>2, <1>3, <2>1, <3>1
  <2>2. CASE ~dstTwo
    <3>1. Bits!ByteWrite(array, dst, result) = WrittenAt(array, dst * ByteBits, ByteBits, result)
      BY <1>2, <1>9, ByteIsWritten
    <3> QED
      BY <1>2, <1>3, <2>2, <3>1
  <2> QED
    BY <2>1, <2>2
<1>12. width \in Nat /\ n <= width
  BY <1>1
<1> HIDE DEF width, after, wanted
<1>13. ASSUME NEW k \in Nat PROVE k \in after <=> k \in wanted
  <2>1. CASE first <= k /\ k < first + width
    <3> DEFINE j == k - first
    <3>1. j \in Nat /\ j < width /\ j + first = k /\ (j \in mask <=> k < first + n)
      BY <1>1, <1>2, <1>12, <2>1
    <3>2. k \in after <=> j \in result
      BY <1>11, <2>1 DEF WrittenAt
    <3> HIDE DEF j
    <3>3. j \in dstBuf <=> k \in array
      BY <1>6, <3>1 DEF ReadAt
    <3>4. CASE j \in mask
      <4>1. j \in srcBuf <=> (k - c.to) + c.from \in c.source
        <5>1. (j + c.from) + (i * ByteBits) = (k - c.to) + c.from
          <6> DEFINE s == i * ByteBits
          <6>1. s \in Nat /\ first = c.to + s
            BY <1>2 DEF first
          <6> HIDE DEF s
          <6>2. (j + c.from) + s = (k - c.to) + c.from
            BY ONLY <1>1, <3>1, <6>1, k \in Nat
          <6> QED
            BY <6>2 DEF s
        <5> QED
          BY <1>8, <3>4, <5>1
      <4>2. j \in result <=> j \in srcBuf \/ (c.mode # "clear_bits" /\ j \in dstBuf)
        BY <3>4 DEF result
      <4> QED
        BY <2>1, <3>1, <3>2, <3>3, <3>4, <4>1, <4>2 DEF wanted, Pasted
    <3>5. CASE j \notin mask
      <4>1. j \in result <=> j \in dstBuf
        BY <1>10, <3>5 DEF result
      <4> QED
        BY <3>1, <3>2, <3>3, <3>5, <4>1 DEF wanted, Pasted
    <3> QED
      BY <3>4, <3>5
  <2>2. CASE ~(first <= k /\ k < first + width)
    <3>1. ~(first <= k /\ k < first + n)
      BY <1>2, <1>12, <2>2
    <3> QED
      BY <1>11, <2>2, <3>1 DEF wanted, WrittenAt, Pasted
  <2> QED
    BY <2>1, <2>2
<1>14. after \subseteq Nat /\ wanted \subseteq Nat
  BY <1>11 DEF WrittenAt, wanted, Pasted
<1>15. after = wanted
  BY <1>13, <1>14
<1> QED
  BY <1>15 DEF after, wanted, first

\* An offset into objects is one into their bytes.
LEMMA OffsetInBytes ==
    ASSUME NEW a \in Nat, NEW size \in Nat \ {0}
    PROVE  LET o == a % (size * ByteBits)
           IN  o \in Nat /\ o % ByteBits = a % ByteBits /\ (o < ByteBits => a % ByteBits = o)
<1> DEFINE d == size * ByteBits
           o == a % d
           q == a \div d
           u == o \div ByteBits
           v == o % ByteBits
<1>1. ByteBits \in Nat \ {0}
  BY NumbersAssumption
<1>2. d \in Nat \ {0}
  BY <1>1
<1>3. o \in Nat /\ q \in Int /\ a = (d * q) + o
  <2> HIDE DEF d
  <2> QED
    BY <1>2, DivMod
<1> HIDE DEF o, q
<1>4. u \in Int /\ v \in 0..(ByteBits - 1) /\ o = (ByteBits * u) + v
  BY <1>1, <1>3, DivMod
<1> HIDE DEF u, v
<1>5. a = (ByteBits * ((size * q) + u)) + v
  <2>1. d * q = ByteBits * (size * q)
    BY <1>1, <1>3
  <2>2. (ByteBits * (size * q)) + (ByteBits * u) = ByteBits * ((size * q) + u)
    <3>1. size * q \in Int
      BY <1>3
    <3> QED
      BY <1>1, <1>4, <3>1
  <2> DEFINE x == ByteBits * (size * q)
             y == ByteBits * u
             z == ByteBits * ((size * q) + u)
             p == d * q
  <2>3. x \in Int /\ y \in Int /\ a = p + o /\ p = x /\ o = y + v /\ x + y = z
    <3>1. size * q \in Int
      BY <1>3
    <3> QED
      BY <1>1, <1>3, <1>4, <2>1, <2>2, <3>1
  <2> HIDE DEF x, y, z, p
  <2>4. a = z + v
    BY <1>1, <1>4, <2>3
  <2> QED
    BY <2>4 DEF z
<1>6. a % ByteBits = v
  <2>1. (size * q) + u \in Int
    BY <1>3, <1>4
  <2> DEFINE w == (size * q) + u
  <2> HIDE DEF w
  <2>2. w \in Int /\ a = (ByteBits * w) + v
    BY <1>5, <2>1 DEF w
  <2> QED
    BY <1>1, <1>4, <2>2, Division
<1>7. o < ByteBits => o = v
  <2> SUFFICES ASSUME o < ByteBits PROVE o = v
    OBVIOUS
  <2>1. o = (ByteBits * 0) + o /\ o \in 0..(ByteBits - 1)
    BY <1>1, <1>3
  <2>2. o % ByteBits = o
    BY <1>1, <2>1, Division
  <2> QED
    BY <2>2 DEF v
<1>8. o \in Nat /\ o % ByteBits = v
  BY <1>3 DEF v
<1> QED
  BY <1>6, <1>7, <1>8 DEF o, d

\* What is known of a call whose destination begins with an object.
SlowFacts(c) ==
    LET o == Bits!SrcOffset(c)
        f == c.from % ByteBits
        L == Bits!LoopBytes(c)
        R == Bits!RemainingBits(c)
    IN  /\ c.to % ByteBits = 0 /\ o \in Nat /\ f \in 0..(ByteBits - 1) /\ (o < ByteBits => f = o)
        /\ L \in Nat \ {0} /\ R \in 1..ByteBits /\ c.bits = ((L - 1) * ByteBits) + R
        /\ (o + c.bits) % ByteBits # 0 \/ f + R <= ByteBits

\* The last byte gets what is left, and two bytes are read for it if it needs
\* them.
LEMMA SlowCall ==
    ASSUME NEW c, BitCall(c), Bits!DstOffset(c) = 0
    PROVE  SlowFacts(c)
<1> DEFINE o == Bits!SrcOffset(c)
           f == c.from % ByteBits
           L == Bits!LoopBytes(c)
           R == Bits!RemainingBits(c)
           u == o \div ByteBits
<1>1. /\ ByteBits \in Nat \ {0} /\ c.from \in Nat /\ c.to \in Nat /\ c.bits \in Nat \ {0}
      /\ c.srcSize \in Nat \ {0} /\ c.dstSize \in Nat \ {0}
  BY NumbersAssumption DEF BitCall
<1>2. c.to % ByteBits = 0
  <2>1. c.to % (c.dstSize * ByteBits) = 0
    BY DEF Bits!DstOffset, Bits!DstBits
  <2>2. (c.to % (c.dstSize * ByteBits)) % ByteBits = c.to % ByteBits
    BY <1>1, OffsetInBytes
  <2>3. 0 % ByteBits = 0
    BY <1>1
  <2> QED
    BY <2>1, <2>2, <2>3
<1>3. o \in Nat /\ o % ByteBits = f /\ (o < ByteBits => f = o)
  BY <1>1, OffsetInBytes DEF Bits!SrcOffset, Bits!SrcBits
<1> HIDE DEF o
<1>4. f \in 0..(ByteBits - 1) /\ u \in Int /\ o = (ByteBits * u) + f
  <2>1. u \in Int /\ o % ByteBits \in 0..(ByteBits - 1) /\ o = (ByteBits * u) + (o % ByteBits)
    <3>1. o \in Int /\ ByteBits \in Nat \ {0}
      BY <1>1, <1>3
    <3> QED
      BY ONLY <3>1, DivMod
  <2> QED
    BY <1>3, <2>1
<1> HIDE DEF f, u
<1>5. /\ L \in Nat \ {0} /\ R \in 1..ByteBits /\ c.bits = ((L - 1) * ByteBits) + R
      /\ (L - 1) * ByteBits = (ByteBits * L) - ByteBits
  <2> DEFINE t == (c.bits + ByteBits) - 1
             s == t % ByteBits
             p == ByteBits * L
             e == (L - 1) * ByteBits
  <2>1. t \in Nat /\ t >= ByteBits
    BY <1>1
  <2>2. L = t \div ByteBits
    <3>1. L = ((c.bits + Bits!DstOffset(c)) + (ByteBits - 1)) \div ByteBits
      BY DEF Bits!LoopBytes
    <3>2. (c.bits + Bits!DstOffset(c)) + (ByteBits - 1) = t
      BY <1>1
    <3> QED
      BY <3>1, <3>2
  <2> HIDE DEF t
  <2>3. L \in Int /\ s \in 0..(ByteBits - 1) /\ t = (ByteBits * L) + s
    BY <1>1, <2>1, <2>2, DivMod
  <2>4. L \in Nat
    BY <1>1, <2>1, <2>2, DivNat
  <2> HIDE DEF L, s
  <2>5. L # 0
    BY <1>1, <2>1, <2>3
  <2>6. e = p - ByteBits /\ p \in Nat /\ t = p + s
    BY <1>1, <2>3, <2>4
  <2>7. R = c.bits - e
    <3>1. R = Bits!DstOffset(c) + (c.bits - e)
      BY DEF Bits!RemainingBits, L
    <3>2. e \in Int
      BY <1>1, <2>6
    <3> HIDE DEF e
    <3> QED
      BY <1>1, <3>1, <3>2
  <2> HIDE DEF e, p, R
  <2>8. R \in 1..ByteBits /\ c.bits = e + R
    BY <1>1, <2>3, <2>6, <2>7 DEF t
  <2> QED
    BY <2>4, <2>5, <2>6, <2>8 DEF e, p
<1> HIDE DEF L, R
<1>6. ASSUME f + R > ByteBits PROVE (o + c.bits) % ByteBits # 0
  <2> DEFINE x == ByteBits * u
             y == ByteBits * L
             z == ByteBits * (u + L)
             r == (f + R) - ByteBits
  <2>1. x \in Int /\ y \in Int /\ z = x + y
    BY <1>1, <1>4, <1>5
  <2>2. r \in 0..(ByteBits - 1) /\ r # 0
    BY <1>1, <1>4, <1>5, <1>6
  <2>3. o = x + f /\ c.bits = (y - ByteBits) + R
    BY <1>4, <1>5
  <2> HIDE DEF x, y, z
  <2>4. o + c.bits = z + r
    BY <1>1, <1>4, <1>5, <2>1, <2>3
  <2> HIDE DEF r
  <2>5. (o + c.bits) % ByteBits = r
    <3>1. u + L \in Int /\ o + c.bits \in Int /\ o + c.bits = (ByteBits * (u + L)) + r
      BY <1>1, <1>3, <1>4, <1>5, <2>4 DEF z
    <3> QED
      BY <1>1, <2>2, <3>1, Division
  <2> QED
    BY <2>2, <2>5
<1>7. (o + c.bits) % ByteBits # 0 \/ f + R <= ByteBits
  BY <1>1, <1>4, <1>5, <1>6
<1> QED
  BY <1>2, <1>3, <1>4, <1>5, <1>7 DEF SlowFacts, o, f, L, R

\* The mask of a number of bits, moved to a position.
LEMMA MaskAt ==
    ASSUME NEW n \in Nat, NEW first \in Nat
    PROVE  Bits!Shifted(Bits!Mask(n), first) = {k \in Nat : first <= k /\ k < first + n}
<1> DEFINE mask == Bits!Mask(n)
<1>1. mask \in SUBSET Int /\ \A k \in Int : k \in mask <=> 0 <= k /\ k < n
  BY DEF Bits!Mask
<1> HIDE DEF mask
<1>2. Bits!Shifted(mask, first) = {k \in Nat : k - first \in mask}
  BY <1>1, ShiftedIs
<1>3. \A k \in Nat : k - first \in mask <=> first <= k /\ k < first + n
  <2> TAKE k \in Nat
  <2>1. k - first \in Int
    OBVIOUS
  <2> QED
    BY <1>1, <2>1
<1> QED
  BY <1>2, <1>3 DEF mask

\* One after the other, the first byte, those between and the last one get the
\* bits of the source, wherever it starts.
LEMMA SlowPastes ==
    ASSUME NEW c, BitCall(c), Bits!DstOffset(c) = 0, NEW array \in SUBSET Nat
    PROVE  Bits!SlowCopy(c, array) = Pasted(c, array, c.to, c.bits, c.mode = "clear_bits")
<1> DEFINE o == Bits!SrcOffset(c)
           f == c.from % ByteBits
           L == Bits!LoopBytes(c)
           R == Bits!RemainingBits(c)
           clears == c.mode = "clear_bits"
           At(bits) == Bits!Shifted(Bits!Mask(bits), Bits!DstOffset(c))
           least == Bits!Least(c.bits, ByteBits)
           begun == Bits!CopyHelper(c, array, c.bits + o > ByteBits,
                                    c.bits + Bits!DstOffset(c) > ByteBits, At(least), 0)
           NextOf(a, b) == Bits!CopyHelper(c, a, o > 0, Bits!DstOffset(c) > 0, At(ByteBits), b)
           Runs(g) == g = [b \in Nat |-> IF b = 0 THEN begun ELSE NextOf(g[b - 1], b)]
           looped == CHOOSE g : Runs(g)
           ended == Bits!CopyHelper(c, looped[L - 2], (o + c.bits) % ByteBits # 0,
                                    (Bits!DstOffset(c) + c.bits) % ByteBits # 0, At(R), L - 1)
           step == [b \in Nat |-> [a \in SUBSET Nat |-> NextOf(a, b)]]
<1>1. /\ ByteBits \in Nat \ {0} /\ c.from \in Nat /\ c.to \in Nat /\ c.bits \in Nat \ {0}
  BY NumbersAssumption DEF BitCall
<1>2. /\ c.to % ByteBits = 0 /\ o \in Nat /\ f \in 0..(ByteBits - 1) /\ (o < ByteBits => f = o)
      /\ L \in Nat \ {0} /\ R \in 1..ByteBits /\ c.bits = ((L - 1) * ByteBits) + R
      /\ (o + c.bits) % ByteBits # 0 \/ f + R <= ByteBits
  BY SlowCall DEF SlowFacts
<1>3. Bits!SlowCopy(c, array) = IF L = 1 THEN looped[0] ELSE ended
  BY DEF Bits!SlowCopy
<1>4. ASSUME NEW n \in Nat PROVE At(n) = 0..(n - 1)
  <2>1. At(n) = {k \in Nat : 0 <= k /\ k < 0 + n}
    BY MaskAt
  <2>2. {k \in Nat : 0 <= k /\ k < 0 + n} = 0..(n - 1)
    OBVIOUS
  <2> QED
    BY <2>1, <2>2
<1> HIDE DEF At
<1>5. least \in 1..ByteBits /\ least <= c.bits /\ (c.bits <= ByteBits => least = c.bits)
      /\ (c.bits >= ByteBits => least = ByteBits)
  BY <1>1 DEF Bits!Least
<1> HIDE DEF o, f, L, R, least
<1>6. begun = Pasted(c, array, c.to, least, clears)
  <2> DEFINE srcTwo == c.bits + o > ByteBits
             dstTwo == c.bits + Bits!DstOffset(c) > ByteBits
  <2>1. srcTwo \/ f + least <= ByteBits
    BY <1>1, <1>2, <1>5
  <2>2. At(least) = 0..(least - 1)
    BY <1>4, <1>5
  <2>3. srcTwo \in BOOLEAN /\ dstTwo \in BOOLEAN
    OBVIOUS
  <2> DEFINE mask == At(least)
  <2> HIDE DEF srcTwo, dstTwo, mask
  <2>4. Bits!CopyHelper(c, array, srcTwo, dstTwo, mask, 0)
          = Pasted(c, array, c.to + (0 * ByteBits), least, c.mode = "clear_bits")
    BY <1>2, <1>5, <2>1, <2>2, <2>3, HelperPastes DEF mask, f
  <2>5. c.to + (0 * ByteBits) = c.to
    BY <1>1
  <2> QED
    BY <2>4, <2>5 DEF mask, srcTwo, dstTwo
<1>7. ASSUME NEW a \in SUBSET Nat, NEW b \in Nat
      PROVE  NextOf(a, b) = Pasted(c, a, c.to + (b * ByteBits), ByteBits, clears)
  <2> DEFINE srcTwo == o > 0
             dstTwo == Bits!DstOffset(c) > 0
             mask == At(ByteBits)
  <2>1. srcTwo \/ f + ByteBits <= ByteBits
    BY <1>1, <1>2
  <2>2. mask = 0..(ByteBits - 1) /\ ByteBits \in 1..ByteBits
    BY <1>1, <1>4
  <2>3. srcTwo \in BOOLEAN /\ dstTwo \in BOOLEAN
    OBVIOUS
  <2> HIDE DEF srcTwo, dstTwo, mask
  <2>4. Bits!CopyHelper(c, a, srcTwo, dstTwo, mask, b)
          = Pasted(c, a, c.to + (b * ByteBits), ByteBits, c.mode = "clear_bits")
    BY <1>2, <2>1, <2>2, <2>3, HelperPastes DEF f
  <2> QED
    BY <2>4 DEF mask, srcTwo, dstTwo
<1> HIDE DEF begun, NextOf
<1>8. begun \in SUBSET Nat /\ \A b \in Nat : step[b] \in [SUBSET Nat -> SUBSET Nat]
  <2>1. begun \in SUBSET Nat
    BY <1>6 DEF Pasted
  <2>2. ASSUME NEW b \in Nat, NEW a \in SUBSET Nat PROVE NextOf(a, b) \in SUBSET Nat
    BY <1>7 DEF Pasted
  <2> QED
    BY <2>1, <2>2
<1>9. \E g : IteratesForever(SUBSET Nat, begun, step, g)
  <2> HIDE DEF step
  <2> QED
    BY <1>8, Recursion
<1>10. PICK g \in [Nat -> SUBSET Nat] : g[0] = begun /\ \A b \in Nat \ {0} : g[b] = step[b][g[b - 1]]
  BY <1>9 DEF IteratesForever
<1>11. Runs(g)
  <2>1. ASSUME NEW b \in Nat \ {0} PROVE g[b] = NextOf(g[b - 1], b)
    <3>1. b - 1 \in Nat /\ g[b - 1] \in SUBSET Nat
      OBVIOUS
    <3>2. step[b][g[b - 1]] = NextOf(g[b - 1], b)
      BY <3>1
    <3> QED
      BY <1>10, <3>2
  <2>2. ASSUME NEW b \in Nat PROVE g[b] = IF b = 0 THEN begun ELSE NextOf(g[b - 1], b)
    BY <1>10, <2>1
  <2> QED
    BY <2>2
<1> HIDE DEF step
<1>12. looped = [b \in Nat |-> IF b = 0 THEN begun ELSE NextOf(looped[b - 1], b)]
  <2> HIDE DEF Runs
  <2>1. Runs(looped)
    BY <1>11
  <2> QED
    BY <2>1 DEF Runs
<1> HIDE DEF looped
<1>13. looped[0] = begun
  BY <1>12
<1>14. CASE L = 1
  <2>1. c.bits = R /\ least = c.bits
    BY <1>1, <1>2, <1>5, <1>14
  <2> QED
    BY <1>3, <1>6, <1>13, <1>14, <2>1
<1>15. CASE L # 1
  <2> DEFINE S == {b \in Nat : looped[b] = Pasted(c, array, c.to, (b + 1) * ByteBits, clears)}
  <2>1. 0 \in S
    <3>1. least = ByteBits
      <4>1. PICK m \in Nat : L = m + 2
        <5>1. L - 2 \in Nat /\ L = (L - 2) + 2
          BY <1>2, <1>15
        <5> QED
          BY <5>1
      <4>2. c.bits = ByteBits + ((m * ByteBits) + R) /\ m * ByteBits \in Nat
        BY <1>1, <1>2, <4>1
      <4> DEFINE p == m * ByteBits
      <4> HIDE DEF p
      <4>3. c.bits >= ByteBits
        BY <1>1, <1>2, <4>2 DEF p
      <4> QED
        BY <1>5, <4>3
    <3>2. (0 + 1) * ByteBits = ByteBits
      BY <1>1
    <3> QED
      BY <1>6, <1>13, <3>1, <3>2
  <2>2. ASSUME NEW b \in Nat, b \in S PROVE b + 1 \in S
    <3> DEFINE n == (b + 1) * ByteBits
               a == Pasted(c, array, c.to, n, clears)
    <3>1. n \in Nat /\ a \in SUBSET Nat /\ b + 1 \in Nat /\ (b + 1) - 1 = b /\ b + 1 # 0
      BY <1>1 DEF Pasted
    <3>2. looped[b + 1] = NextOf(looped[b], b + 1) /\ looped[b] = a
      BY <1>12, <2>2, <3>1
    <3>3. looped[b + 1] = Pasted(c, a, c.to + n, ByteBits, clears)
      <4> HIDE DEF a
      <4> QED
        BY <1>7, <3>1, <3>2
    <3>4. n + ByteBits = ((b + 1) + 1) * ByteBits
      BY <1>1
    <3> HIDE DEF n
    <3>5. Pasted(c, a, c.to + n, ByteBits, clears) = Pasted(c, array, c.to, n + ByteBits, clears)
      <4>1. clears \in BOOLEAN /\ ByteBits \in Nat
        BY <1>1
      <4> HIDE DEF clears
      <4> QED
        BY <1>1, <3>1, <4>1, PastedNext
    <3> QED
      BY <3>1, <3>3, <3>4, <3>5
  <2> HIDE DEF S
  <2>3. Nat \subseteq S
    BY <2>1, <2>2, InductionOnSet
  <2> DEFINE n == (L - 1) * ByteBits
             a == Pasted(c, array, c.to, n, clears)
             srcTwo == (o + c.bits) % ByteBits # 0
             dstTwo == (Bits!DstOffset(c) + c.bits) % ByteBits # 0
             mask == At(R)
  <2>4. L - 2 \in Nat /\ (L - 2) + 1 = L - 1 /\ L - 1 \in Nat /\ n \in Nat /\ a \in SUBSET Nat
    <3>1. L - 2 \in Nat /\ (L - 2) + 1 = L - 1 /\ L - 1 \in Nat
      BY <1>2, <1>15
    <3> QED
      BY <1>1, <3>1 DEF Pasted
  <2>5. looped[L - 2] = a
    BY <2>3, <2>4 DEF S
  <2>6. srcTwo \in BOOLEAN /\ dstTwo \in BOOLEAN /\ mask = 0..(R - 1) /\ (srcTwo \/ f + R <= ByteBits)
    BY <1>2, <1>4
  <2> HIDE DEF a, srcTwo, dstTwo, mask
  <2>7. Bits!CopyHelper(c, a, srcTwo, dstTwo, mask, L - 1)
          = Pasted(c, a, c.to + n, R, c.mode = "clear_bits")
    BY <1>2, <2>4, <2>6, HelperPastes DEF f
  <2>8. Pasted(c, a, c.to + n, R, clears) = Pasted(c, array, c.to, n + R, clears)
    <3>1. clears \in BOOLEAN /\ R \in Nat
      BY <1>1, <1>2
    <3> HIDE DEF clears, n
    <3> QED
      BY <1>1, <2>4, <3>1, PastedNext DEF a
  <2> QED
    BY <1>2, <1>3, <1>15, <2>5, <2>7, <2>8 DEF mask, srcTwo, dstTwo
<1> QED
  BY <1>14, <1>15

\* A byte that is read from the beginning of a byte and written to that of
\* another takes its bits there.
LEMMA BytePastes ==
    ASSUME NEW c, BitCall(c), c.from % ByteBits = 0, c.to % ByteBits = 0,
           NEW array \in SUBSET Nat, NEW i \in Nat
    PROVE  Bits!ByteWrite(array, (c.to \div ByteBits) + i,
                          Bits!ByteRead(c.source, c.srcSize, (c.from \div ByteBits) + i))
             = Pasted(c, array, c.to + (i * ByteBits), ByteBits, TRUE)
<1> DEFINE src == (c.from \div ByteBits) + i
           dst == (c.to \div ByteBits) + i
           s == i * ByteBits
           first == c.to + s
           begin == c.from + s
           read == Bits!ByteRead(c.source, c.srcSize, src)
           after == Bits!ByteWrite(array, dst, read)
           wanted == Pasted(c, array, first, ByteBits, TRUE)
<1>1. /\ ByteBits \in Nat \ {0} /\ c.from \in Nat /\ c.to \in Nat /\ c.source \in SUBSET Nat
      /\ c.srcSize \in Nat \ {0}
  BY NumbersAssumption DEF BitCall
<1>2. src \in Nat /\ src * ByteBits = begin /\ s \in Nat
  <2>1. src \in Nat /\ src * ByteBits = (c.from - (c.from % ByteBits)) + s /\ s \in Nat
    BY <1>1, BytePositions
  <2>2. c.from - (c.from % ByteBits) = c.from
    BY <1>1
  <2> QED
    BY <2>1, <2>2
<1>3. dst \in Nat /\ dst * ByteBits = first
  <2>1. dst \in Nat /\ dst * ByteBits = (c.to - (c.to % ByteBits)) + s
    BY <1>1, BytePositions
  <2>2. c.to - (c.to % ByteBits) = c.to
    BY <1>1
  <2> QED
    BY <2>1, <2>2
<1> HIDE DEF src, dst
<1>4. ReadAt(read, c.source, begin, ByteBits)
  <2>1. ReadAt(read, c.source, src * ByteBits, ByteBits)
    BY <1>1, <1>2, ByteIsRead
  <2> QED
    BY <1>2, <2>1
<1> HIDE DEF read
<1>5. after = WrittenAt(array, first, ByteBits, read)
  <2>1. read \in SUBSET Int
    BY <1>4 DEF ReadAt
  <2>2. after = WrittenAt(array, dst * ByteBits, ByteBits, read)
    BY <1>3, <2>1, ByteIsWritten
  <2> QED
    BY <1>3, <2>2
<1> HIDE DEF after, wanted, first, begin, s
<1>6. first = c.to + s /\ begin = c.from + s
  BY DEF first, begin
<1>7. ASSUME NEW k \in Nat PROVE k \in after <=> k \in wanted
  <2>1. CASE first <= k /\ k < first + ByteBits
    <3> DEFINE j == k - first
    <3>1. j \in Nat /\ j < ByteBits /\ j + begin = (k - c.to) + c.from
      BY ONLY <1>1, <1>2, <1>6, <2>1, k \in Nat
    <3>2. j \in read <=> (k - c.to) + c.from \in c.source
      <4> HIDE DEF j
      <4> QED
        BY <1>4, <3>1 DEF ReadAt
    <3> QED
      BY <1>5, <2>1, <3>2 DEF wanted, Pasted, WrittenAt
  <2>2. CASE ~(first <= k /\ k < first + ByteBits)
    BY <1>5, <2>2 DEF wanted, Pasted, WrittenAt
  <2> QED
    BY <2>1, <2>2
<1>8. after \subseteq Nat /\ wanted \subseteq Nat
  BY <1>5 DEF wanted, Pasted, WrittenAt
<1>9. after = wanted
  BY <1>7, <1>8
<1> QED
  BY <1>9 DEF after, wanted, read, src, dst, first, s

\* Whole bytes, one after the other.
LEMMA BytesPaste ==
    ASSUME NEW c, BitCall(c), Bits!SrcOffset(c) = 0, Bits!DstOffset(c) = 0,
           c.bits % ByteBits = 0, NEW array \in SUBSET Nat
    PROVE  Bits!ByteCopy(c, array) = Pasted(c, array, c.to, c.bits, TRUE)
<1> DEFINE count == c.bits \div ByteBits
           NextOf(a, n) == Bits!ByteWrite(a, (c.to \div ByteBits) + (n - 1),
                             Bits!ByteRead(c.source, c.srcSize, (c.from \div ByteBits) + (n - 1)))
           Runs(g) == g = [n \in 0..count |-> IF n = 0 THEN array ELSE NextOf(g[n - 1], n)]
           copied == CHOOSE g : Runs(g)
           step == [n \in Nat |-> [a \in SUBSET Nat |-> IF n = 0 THEN a ELSE NextOf(a, n)]]
<1>1. /\ ByteBits \in Nat \ {0} /\ c.from \in Nat /\ c.to \in Nat /\ c.bits \in Nat
      /\ c.srcSize \in Nat \ {0} /\ c.dstSize \in Nat \ {0}
  BY NumbersAssumption DEF BitCall
<1>2. c.from % ByteBits = 0 /\ c.to % ByteBits = 0
  <2>1. 0 % ByteBits = 0
    BY <1>1
  <2>2. c.from % (c.srcSize * ByteBits) = 0 /\ c.to % (c.dstSize * ByteBits) = 0
    BY DEF Bits!SrcOffset, Bits!SrcBits, Bits!DstOffset, Bits!DstBits
  <2>3. (c.from % (c.srcSize * ByteBits)) % ByteBits = c.from % ByteBits
    BY <1>1, OffsetInBytes
  <2>4. (c.to % (c.dstSize * ByteBits)) % ByteBits = c.to % ByteBits
    BY <1>1, OffsetInBytes
  <2> QED
    BY <2>1, <2>2, <2>3, <2>4
<1>3. count \in Nat /\ count * ByteBits = c.bits
  <2>1. count \in Nat
    BY <1>1, DivNat
  <2>2. c.bits = (ByteBits * count) + (c.bits % ByteBits)
    <3>1. c.bits \in Int /\ ByteBits \in Nat \ {0}
      BY <1>1
    <3> QED
      BY ONLY <3>1, DivMod DEF count
  <2> HIDE DEF count
  <2> DEFINE p == ByteBits * count
  <2>3. p \in Nat /\ count * ByteBits = p /\ c.bits = p + 0
    BY <1>1, <2>1, <2>2
  <2> QED
    BY <2>1, <2>3
<1>4. Bits!ByteCopy(c, array) = copied[count]
  BY DEF Bits!ByteCopy
<1> HIDE DEF count
<1>5. ASSUME NEW a \in SUBSET Nat, NEW n \in Nat \ {0}
      PROVE  NextOf(a, n) = Pasted(c, a, c.to + ((n - 1) * ByteBits), ByteBits, TRUE)
  <2>1. n - 1 \in Nat
    OBVIOUS
  <2> QED
    BY <1>2, <2>1, BytePastes
<1> HIDE DEF NextOf
<1>6. \A n \in Nat : step[n] \in [SUBSET Nat -> SUBSET Nat]
  <2>1. ASSUME NEW n \in Nat \ {0}, NEW a \in SUBSET Nat PROVE NextOf(a, n) \in SUBSET Nat
    BY <1>5 DEF Pasted
  <2> QED
    BY <2>1
<1>7. \E g : Iterates(SUBSET Nat, array, step, count, g)
  <2> HIDE DEF step
  <2> QED
    BY <1>3, <1>6, Iteration
<1>8. PICK g \in [0..count -> SUBSET Nat] : g[0] = array /\ \A n \in 1..count : g[n] = step[n][g[n - 1]]
  BY <1>7 DEF Iterates
<1>9. Runs(g)
  <2>1. ASSUME NEW n \in 1..count PROVE g[n] = NextOf(g[n - 1], n)
    <3>1. n - 1 \in 0..count /\ g[n - 1] \in SUBSET Nat /\ n \in Nat /\ n # 0
      BY <1>3
    <3>2. step[n][g[n - 1]] = NextOf(g[n - 1], n)
      BY <3>1
    <3> QED
      BY <1>8, <3>2
  <2>2. ASSUME NEW n \in 0..count PROVE g[n] = IF n = 0 THEN array ELSE NextOf(g[n - 1], n)
    <3>1. CASE n = 0
      BY <1>8, <3>1
    <3>2. CASE n # 0
      <4>1. n \in 1..count
        BY <1>3, <3>2
      <4> QED
        BY <2>1, <3>2, <4>1
    <3> QED
      BY <3>1, <3>2
  <2> QED
    BY <2>2
<1> HIDE DEF step
<1>10. copied = [n \in 0..count |-> IF n = 0 THEN array ELSE NextOf(copied[n - 1], n)]
  <2> HIDE DEF Runs
  <2>1. Runs(copied)
    BY <1>9
  <2> QED
    BY <2>1 DEF Runs
<1> HIDE DEF copied
<1> DEFINE S == {n \in Nat : n <= count => copied[n] = Pasted(c, array, c.to, n * ByteBits, TRUE)}
<1>11. 0 \in S
  <2>1. copied[0] = array
    BY <1>3, <1>10
  <2>2. Pasted(c, array, c.to, 0, TRUE) = array
    <3>1. \A k \in Nat : ~(c.to <= k /\ k < c.to + 0)
      BY <1>1
    <3> QED
      BY <3>1 DEF Pasted
  <2>3. 0 * ByteBits = 0
    BY <1>1
  <2> QED
    BY <2>1, <2>2, <2>3
<1>12. ASSUME NEW n \in Nat, n \in S PROVE n + 1 \in S
  <2>0. n + 1 \in Nat
    OBVIOUS
  <2> SUFFICES ASSUME n + 1 <= count
               PROVE  copied[n + 1] = Pasted(c, array, c.to, (n + 1) * ByteBits, TRUE)
    BY <2>0, Zenon
  <2> DEFINE p == n * ByteBits
             a == Pasted(c, array, c.to, p, TRUE)
  <2>1. p \in Nat /\ a \in SUBSET Nat /\ n + 1 \in 0..count /\ n + 1 # 0 /\ (n + 1) - 1 = n
    BY <1>1, <1>3 DEF Pasted
  <2>2. copied[n + 1] = NextOf(a, n + 1)
    <3>1. copied[n] = a
      <4>1. n <= count
        BY <1>3
      <4> QED
        BY <1>12, <4>1, Zenon
    <3> HIDE DEF a
    <3> QED
      BY <1>10, <2>1, <3>1
  <2>3. NextOf(a, n + 1) = Pasted(c, a, c.to + p, ByteBits, TRUE)
    <3> HIDE DEF a
    <3>1. n + 1 \in Nat \ {0}
      OBVIOUS
    <3>2. NextOf(a, n + 1) = Pasted(c, a, c.to + (((n + 1) - 1) * ByteBits), ByteBits, TRUE)
      BY <1>5, <2>1, <3>1
    <3> QED
      BY <2>1, <3>2
  <2>4. p + ByteBits = (n + 1) * ByteBits
    BY <1>1
  <2> HIDE DEF p
  <2>5. Pasted(c, a, c.to + p, ByteBits, TRUE) = Pasted(c, array, c.to, p + ByteBits, TRUE)
    <3> DEFINE clears == TRUE
    <3>1. clears \in BOOLEAN /\ ByteBits \in Nat
      BY <1>1
    <3> HIDE DEF clears
    <3>2. Pasted(c, Pasted(c, array, c.to, p, clears), c.to + p, ByteBits, clears)
            = Pasted(c, array, c.to, p + ByteBits, clears)
      BY <1>1, <2>1, <3>1, PastedNext
    <3> QED
      BY <3>2 DEF clears
  <2> QED
    BY <2>2, <2>3, <2>4, <2>5
<1> HIDE DEF S
<1>13. Nat \subseteq S
  BY <1>11, <1>12, InductionOnSet
<1>14. copied[count] = Pasted(c, array, c.to, count * ByteBits, TRUE)
  <2>1. count \in S /\ count <= count
    BY <1>3, <1>13
  <2> QED
    BY <2>1, Zenon DEF S
<1> QED
  BY <1>3, <1>4, <1>14

\* The bits that are written, and those of them that the source has.
LEMMA NewBitsAre ==
    ASSUME NEW c, BitCall(c)
    PROVE  /\ Bits!WrittenBits(c) = {k \in Nat : c.to <= k /\ k < c.to + c.bits}
           /\ Bits!NewBits(c) = {k \in Bits!WrittenBits(c) : (k - c.to) + c.from \in c.source}
<1>1. c.from \in Nat /\ c.to \in Nat /\ c.bits \in Nat /\ c.source \in SUBSET Int
  BY DEF BitCall
<1>2. Bits!WrittenBits(c) = {k \in Nat : c.to <= k /\ k < c.to + c.bits}
  BY <1>1, MaskAt DEF Bits!WrittenBits
<1>3. Bits!Shifted(c.source, c.to - c.from) = {k \in Nat : k - (c.to - c.from) \in c.source}
  <2>1. c.to - c.from \in Int
    BY <1>1
  <2> QED
    BY <1>1, <2>1, ShiftedIs
<1>4. \A k \in Nat : k - (c.to - c.from) = (k - c.to) + c.from
  BY <1>1
<1> QED
  BY <1>2, <1>3, <1>4 DEF Bits!NewBits

\* What is pasted is the new bits.
LEMMA PastedIs ==
    ASSUME NEW c, BitCall(c), NEW array \in SUBSET Nat, NEW clears \in BOOLEAN
    PROVE  Pasted(c, array, c.to, c.bits, clears)
             = (array \ (IF clears THEN Bits!WrittenBits(c) ELSE {})) \cup Bits!NewBits(c)
<1> DEFINE written == Bits!WrittenBits(c)
           new == Bits!NewBits(c)
           pasted == Pasted(c, array, c.to, c.bits, clears)
           wanted == (array \ (IF clears THEN written ELSE {})) \cup new
<1>1. /\ written = {k \in Nat : c.to <= k /\ k < c.to + c.bits}
      /\ new = {k \in written : (k - c.to) + c.from \in c.source}
  BY NewBitsAre
<1> HIDE DEF written, new
<1>2. ASSUME NEW k \in Nat PROVE k \in pasted <=> k \in wanted
  <2>1. CASE k \in written
    <3>1. /\ c.to <= k /\ k < c.to + c.bits
          /\ k \in new <=> (k - c.to) + c.from \in c.source
      BY <1>1, <2>1
    <3>2. k \in pasted <=> k \in new \/ (~clears /\ k \in array)
      BY <3>1 DEF Pasted
    <3> QED
      BY <2>1, <3>2
  <2>2. CASE k \notin written
    <3>1. ~(c.to <= k /\ k < c.to + c.bits) /\ k \notin new
      BY <1>1, <2>2
    <3>2. k \in pasted <=> k \in array
      BY <3>1 DEF Pasted
    <3> QED
      BY <2>2, <3>1, <3>2
  <2> QED
    BY <2>1, <2>2
<1>3. pasted \subseteq Nat /\ wanted \subseteq Nat
  BY <1>1 DEF Pasted
<1> HIDE DEF pasted, wanted
<1>4. pasted = wanted
  BY <1>2, <1>3
<1> QED
  BY <1>4 DEF pasted, wanted, written, new

\* The objects that are touched have all bits that are written, and are one if
\* these are in one.
LEMMA TouchedAre ==
    ASSUME NEW c, BitCall(c)
    PROVE  /\ Bits!WrittenBits(c) \subseteq Bits!TouchedObjects(c)
           /\ Bits!DstBits(c) \in Nat \ {0} /\ Bits!FirstDstBit(c) \in Nat
           /\ Bits!DstOffset(c) \in Nat /\ c.to = Bits!FirstDstBit(c) + Bits!DstOffset(c)
           /\ Bits!DstOffset(c) + c.bits <= Bits!DstBits(c) =>
                Bits!TouchedObjects(c)
                  = Bits!Shifted(Bits!Mask(Bits!DstBits(c)), Bits!FirstDstBit(c))
<1> DEFINE D == Bits!DstBits(c)
           o == Bits!DstOffset(c)
           first == Bits!FirstDstBit(c)
           sum == (o + c.bits) + (D - 1)
           count == sum \div D
           r == sum % D
           p == count * D
<1>1. c.to \in Nat /\ c.bits \in Nat \ {0}
  BY DEF BitCall
<1>2. D \in Nat \ {0}
  BY NumbersAssumption DEF BitCall, Bits!DstBits
<1>3. Bits!TouchedObjects(c) = Bits!Shifted(Bits!Mask(p), first)
  BY DEF Bits!TouchedObjects
<1> HIDE DEF D
<1>4. o \in 0..(D - 1) /\ first = c.to - o /\ first \in Nat
  <2> DEFINE q == c.to \div D
             t == D * q
  <2>1. o = c.to % D /\ first = c.to - o
    BY DEF Bits!DstOffset, Bits!FirstDstBit, D
  <2>2. c.to % D \in 0..(D - 1) /\ c.to = (D * q) + (c.to % D)
    <3>1. c.to \in Int
      BY <1>1
    <3> QED
      BY ONLY <1>2, <3>1, DivMod DEF q
  <2>3. q \in Nat
    BY ONLY <1>1, <1>2, DivNat DEF q
  <2> HIDE DEF q
  <2> HIDE DEF o, first
  <2>4. t \in Nat /\ c.to = t + o /\ o \in 0..(D - 1)
    BY <1>2, <2>1, <2>2, <2>3
  <2> HIDE DEF t
  <2>5. first = c.to - o
    BY <2>1
  <2> QED
    BY ONLY <1>1, <1>2, <2>4, <2>5
<1> HIDE DEF o, first
<1>5. sum \in Nat
  BY <1>1, <1>2, <1>4
<1> HIDE DEF sum
<1>6. count \in Nat /\ r \in 0..(D - 1) /\ sum = (D * count) + r
  <2>1. count \in Nat
    BY <1>2, <1>5, DivNat
  <2>2. r \in 0..(D - 1) /\ sum = (D * count) + r
    BY <1>2, <1>5, DivMod
  <2> QED
    BY <2>1, <2>2
<1>7. p \in Nat /\ o + c.bits <= p
  <2> HIDE DEF count, r
  <2>1. p \in Nat /\ D * count = p
    BY <1>2, <1>6
  <2> HIDE DEF p
  <2> QED
    BY <1>1, <1>2, <1>4, <1>6, <2>1 DEF sum
<1> HIDE DEF p, r, count
<1>8. Bits!WrittenBits(c) \subseteq Bits!TouchedObjects(c)
  <2>1. Bits!WrittenBits(c) = {k \in Nat : c.to <= k /\ k < c.to + c.bits}
    BY NewBitsAre
  <2>2. Bits!TouchedObjects(c) = {k \in Nat : first <= k /\ k < first + p}
    BY <1>3, <1>4, <1>7, MaskAt
  <2> QED
    BY <1>1, <1>4, <1>7, <2>1, <2>2
<1>9. ASSUME o + c.bits <= D PROVE Bits!TouchedObjects(c) = Bits!Shifted(Bits!Mask(D), first)
  <2> DEFINE s == (o + c.bits) - 1
  <2>1. s \in 0..(D - 1) /\ sum = (D * 1) + s
    BY <1>1, <1>2, <1>4, <1>9 DEF sum
  <2> HIDE DEF s
  <2>2. count = 1
    BY <1>2, <1>5, <2>1, Division DEF count
  <2>3. p = D
    BY <1>2, <2>2 DEF p
  <2> QED
    BY <1>3, <2>3
<1>10. o \in Nat /\ c.to = first + o
  BY <1>1, <1>2, <1>4
<1> QED
  BY <1>2, <1>4, <1>8, <1>9, <1>10 DEF D, o, first

\* What a call may lose of what the destination held.
Lost(c) ==
    CASE c.mode = "none" -> {}
      [] c.mode = "clear_objects" -> Bits!TouchedObjects(c)
      [] OTHER -> Bits!WrittenBits(c)

\* bit_read takes bits from one position to another.
LEMMA BitsAreRead ==
    ASSUME NEW word \in SUBSET Nat, NEW bits \in Nat, NEW from \in Nat, NEW to \in Nat
    PROVE  Bits!BitRead(word, bits, from, to)
             = {k \in Nat : to <= k /\ k < to + bits /\ (k - to) + from \in word}
<1> DEFINE low == Bits!Shifted(word, -from)
           cut == low \cap Bits!Mask(bits)
           read == Bits!Shifted(cut, to)
           wanted == {k \in Nat : to <= k /\ k < to + bits /\ (k - to) + from \in word}
<1>1. low = {k \in Nat : k - (-from) \in word}
  <2>1. -from \in Int /\ word \in SUBSET Int
    OBVIOUS
  <2> QED
    BY <2>1, ShiftedIs
<1>2. Bits!BitRead(word, bits, from, to) = read
  BY DEF Bits!BitRead
<1> HIDE DEF low
<1>3. read = {k \in Nat : k - to \in cut}
  <2>1. cut \in SUBSET Int
    BY <1>1
  <2> HIDE DEF cut
  <2> QED
    BY <2>1, ShiftedIs
<1> HIDE DEF read
<1>4. ASSUME NEW k \in Nat PROVE k \in read <=> k \in wanted
  <2> DEFINE j == k - to
  <2>1. j \in Int /\ j - (-from) = j + from /\ (to <= k <=> 0 <= j) /\ (k < to + bits <=> j < bits)
    OBVIOUS
  <2>2. k \in read <=> j \in low /\ 0 <= j /\ j < bits
    BY <1>3, <2>1 DEF Bits!Mask
  <2>3. 0 <= j => (j \in low <=> j + from \in word)
    <3> HIDE DEF j
    <3> QED
      BY <1>1, <2>1
  <2>4. k \in wanted <=> 0 <= j /\ j < bits /\ j + from \in word
    BY <2>1
  <2> HIDE DEF j, wanted
  <2> QED
    BY <2>2, <2>3, <2>4
<1>5. read \subseteq Nat /\ wanted \subseteq Nat
  BY <1>3
<1> HIDE DEF wanted
<1>6. read = wanted
  BY <1>4, <1>5
<1> QED
  BY <1>2, <1>6 DEF wanted

\* A read and a write of one object take the bits from where they are to where
\* they should be.
LEMMA SinglePastes ==
    ASSUME NEW c, BitCall(c), Bits!InSingleObjects(c), NEW array \in SUBSET Nat,
           c.mode = "contents_zero" => array = {}
    PROVE  Bits!SingleCopy(c, array) = (array \ Lost(c)) \cup Bits!NewBits(c)
<1> DEFINE o == Bits!SrcOffset(c)
           w == Bits!SrcBits(c)
           d == Bits!DstOffset(c)
           first == Bits!FirstDstBit(c)
           base == c.from - o
           word == Bits!Part(c.source, base, w)
           read == Bits!BitRead(word, c.bits, o, d)
           copy == Bits!Shifted(read, first)
           object == Bits!Shifted(Bits!Mask(Bits!DstBits(c)), first)
           mask == Bits!Shifted(Bits!Mask(c.bits), c.to)
           kept == CASE c.mode = "none" -> array
                     [] c.mode = "clear_bits" -> array \ mask
                     [] OTHER -> array \ object
           new == Bits!NewBits(c)
<1>1. /\ ByteBits \in Nat \ {0} /\ c.from \in Nat /\ c.to \in Nat /\ c.bits \in Nat \ {0}
      /\ c.srcSize \in Nat \ {0} /\ c.source \in SUBSET Int /\ c.mode \in Bits!Modes
  BY NumbersAssumption DEF BitCall
<1>2. Bits!SingleCopy(c, array) = kept \cup copy
  BY DEF Bits!SingleCopy
<1>3. w \in Nat \ {0} /\ o \in Nat /\ base \in Int /\ o + c.bits <= w
  <2>1. w \in Nat \ {0}
    BY <1>1 DEF Bits!SrcBits
  <2>2. o = c.from % w /\ o + c.bits <= w
    BY DEF Bits!SrcOffset, Bits!InSingleObjects
  <2> HIDE DEF w, o
  <2>3. c.from % w \in 0..(w - 1)
    <3>1. c.from \in Int
      BY <1>1
    <3> QED
      BY ONLY <2>1, <3>1, DivMod
  <2> QED
    BY <1>1, <2>1, <2>2, <2>3
<1>4. first \in Nat /\ d \in Nat /\ c.to = first + d /\ d + c.bits <= Bits!DstBits(c)
  BY TouchedAre DEF Bits!InSingleObjects
<1>5. object = Bits!TouchedObjects(c)
  BY <1>4, TouchedAre
<1>6. mask = Bits!WrittenBits(c)
  BY DEF Bits!WrittenBits
<1> HIDE DEF o, w, d, first, object, mask, kept
<1>7. word = {k \in Nat : k < w /\ k + base \in c.source}
  <2> HIDE DEF base
  <2> QED
    BY <1>1, <1>3, PartIs
<1> HIDE DEF word
<1>8. read = {k \in Nat : d <= k /\ k < d + c.bits /\ (k - d) + o \in word}
  <2>1. word \in SUBSET Nat
    BY <1>7
  <2> QED
    BY <1>1, <1>3, <1>4, <2>1, BitsAreRead
<1> HIDE DEF read
<1>9. copy = {k \in Nat : k - first \in read}
  <2>1. read \in SUBSET Int
    BY <1>8
  <2> QED
    BY <1>4, <2>1, ShiftedIs
<1>10. new = {k \in Nat : c.to <= k /\ k < c.to + c.bits /\ (k - c.to) + c.from \in c.source}
  BY NewBitsAre
<1> HIDE DEF copy, new
<1>11. ASSUME NEW k \in Nat PROVE k \in copy <=> k \in new
  <2> DEFINE j == k - c.to
  <2>1. j \in Int /\ (k - first) - d = j
    BY <1>1, <1>4
  <2>2. CASE 0 <= j /\ j < c.bits
    <3>1. k - first \in Nat /\ d <= k - first /\ k - first < d + c.bits
      BY <1>1, <1>4, <2>2
    <3>2. k \in copy <=> j + o \in word
      BY <1>8, <1>9, <2>1, <3>1
    <3>3. j + o \in Nat /\ j + o < w /\ (j + o) + base = j + c.from
      BY <1>1, <1>3, <2>2
    <3>4. c.to <= k /\ k < c.to + c.bits
      BY <1>1, <2>2
    <3> HIDE DEF j, base
    <3>5. j + o \in word <=> j + c.from \in c.source
      BY <1>7, <3>3
    <3> QED
      BY <1>10, <3>2, <3>4, <3>5 DEF j
  <2>3. CASE ~(0 <= j /\ j < c.bits)
    <3>1. ~(c.to <= k /\ k < c.to + c.bits)
      BY <1>1, <2>3
    <3>2. ~(d <= k - first /\ k - first < d + c.bits)
      BY <1>1, <1>4, <2>3
    <3> QED
      BY <1>8, <1>9, <1>10, <3>1, <3>2
  <2> QED
    BY <2>2, <2>3
<1>12. copy = new
  BY <1>9, <1>10, <1>11
<1>13. kept = array \ Lost(c)
  BY <1>1, <1>5, <1>6 DEF kept, Lost, Bits!Modes
<1> QED
  BY <1>2, <1>12, <1>13 DEF new

\* Whichever path bit_copy takes, the destination loses what the mode allows and
\* has the bits of the source where they should be.
LEMMA CopiedIs ==
    ASSUME NEW c, BitCall(c), Bits!PlainDestination(c), NEW array \in SUBSET Nat,
           c.mode = "contents_zero" => array = {}
    PROVE  Bits!Copied(c, array) = (array \ Lost(c)) \cup Bits!NewBits(c)
<1> DEFINE touched == Bits!TouchedObjects(c)
           cleared == IF c.mode = "clear_objects" THEN array \ touched ELSE array
           written == Bits!WrittenBits(c)
           new == Bits!NewBits(c)
<1>1. c.mode \in Bits!Modes /\ written \subseteq touched
  BY TouchedAre DEF BitCall
<1>2. cleared \in SUBSET Nat /\ (c.mode = "contents_zero" => cleared = {})
  OBVIOUS
<1>3. Bits!Copied(c, array) = IF Bits!ByteAligned(c) THEN Bits!ByteCopy(c, cleared)
                              ELSE IF Bits!InSingleObjects(c) THEN Bits!SingleCopy(c, cleared)
                              ELSE Bits!SlowCopy(c, cleared)
  BY DEF Bits!Copied
<1> HIDE DEF written, new, touched
<1>4. CASE Bits!ByteAligned(c)
  <2>1. /\ Bits!SrcOffset(c) = 0 /\ Bits!DstOffset(c) = 0 /\ c.bits % ByteBits = 0
        /\ c.mode \in {"clear_bits", "contents_zero", "clear_objects"}
    BY <1>4 DEF Bits!ByteAligned
  <2> DEFINE clears == TRUE
  <2>2. clears \in BOOLEAN /\ clears
    OBVIOUS
  <2>3. Bits!ByteCopy(c, cleared) = Pasted(c, cleared, c.to, c.bits, clears)
    <3> HIDE DEF cleared
    <3> QED
      BY <1>2, <2>1, BytesPaste
  <2> HIDE DEF clears
  <2>4. Pasted(c, cleared, c.to, c.bits, clears) = (cleared \ written) \cup new
    <3> HIDE DEF cleared
    <3>1. Pasted(c, cleared, c.to, c.bits, clears)
            = (cleared \ (IF clears THEN written ELSE {})) \cup new
      BY <1>2, <2>2, PastedIs DEF written, new
    <3> QED
      BY <2>2, <3>1
  <2>5. cleared \ written = array \ Lost(c)
    BY <1>1, <2>1 DEF Lost, touched, written
  <2> QED
    BY <1>3, <1>4, <2>3, <2>4, <2>5 DEF new
<1>5. CASE ~Bits!ByteAligned(c) /\ Bits!InSingleObjects(c)
  <2>1. Bits!SingleCopy(c, cleared) = (cleared \ Lost(c)) \cup new
    <3> HIDE DEF cleared
    <3> QED
      BY <1>2, <1>5, SinglePastes DEF new
  <2>2. cleared \ Lost(c) = array \ Lost(c)
    BY DEF Lost, touched
  <2> QED
    BY <1>3, <1>5, <2>1, <2>2 DEF new
<1>6. CASE ~Bits!ByteAligned(c) /\ ~Bits!InSingleObjects(c)
  <2> DEFINE clears == c.mode = "clear_bits"
  <2>1. Bits!DstOffset(c) = 0 /\ clears \in BOOLEAN
    BY <1>6 DEF Bits!PlainDestination
  <2>2. Bits!SlowCopy(c, cleared) = Pasted(c, cleared, c.to, c.bits, clears)
    <3> HIDE DEF cleared
    <3> QED
      BY <1>2, <2>1, SlowPastes
  <2>3. Pasted(c, cleared, c.to, c.bits, clears)
          = (cleared \ (IF clears THEN written ELSE {})) \cup new
    <3> HIDE DEF cleared, clears
    <3> QED
      BY <1>2, <2>1, PastedIs DEF written, new
  <2>4. cleared \ (IF clears THEN written ELSE {}) = array \ Lost(c)
    BY <1>1 DEF Lost, touched, written, Bits!Modes
  <2> QED
    BY <1>3, <1>6, <2>2, <2>3, <2>4 DEF new
<1> QED
  BY <1>4, <1>5, <1>6

\* Where the call has been made, the bits are right; where not, the destination
\* holds what it began with.
BitsInv ==
    component = "bits" => Bits!CopiesTheBits /\ (last.op = "none" => value \in Arrays)

\* A call of bit_copy, bit_read or bit_merge makes the bits right.
LEMMA BitsAreRight ==
    ASSUME last.op = "none", value \in Arrays, Bits!Next
    PROVE  Bits!CopiesTheBits' /\ last'.op # "none"
<1>1. value \in SUBSET Nat
  BY NumbersAssumption
<1>2. ASSUME NEW ops, NEW modes \in SUBSET Bits!Modes, NEW c \in Bits!Calls(ops, modes)
      PROVE  BitCall(c) /\ c.op \in ops /\ c.before = value /\ c.mode \in modes
  BY <1>2, NumbersAssumption DEF Bits!Calls, BitCall
<1>3. ASSUME NEW c, BitCall(c), c.op # "none", c.before = value, last' = c,
             Bits!PlainDestination(c) => value' = (value \ Lost(c)) \cup Bits!NewBits(c)
      PROVE  Bits!CopiesTheBits' /\ last'.op # "none"
  BY <1>3 DEF Bits!CopiesTheBits, Lost, Bits!PlainDestination, Bits!NewBits
<1>4. CASE Bits!Copy
  <2>1. PICK c \in Bits!Calls({"copy"}, Bits!Modes) :
            (c.mode = "contents_zero" => value = {}) /\ value' = Bits!Copied(c, value) /\ last' = c
    BY <1>4 DEF Bits!Copy
  <2>2. BitCall(c) /\ c.op = "copy" /\ c.before = value
    BY <1>2
  <2>3. Bits!PlainDestination(c) => value' = (value \ Lost(c)) \cup Bits!NewBits(c)
    BY <1>1, <2>1, <2>2, CopiedIs
  <2> QED
    BY <1>3, <2>1, <2>2, <2>3
<1>5. CASE Bits!ReadObject
  <2>1. PICK c \in Bits!Calls({"read"}, {"contents_zero"}) :
            value = {} /\ value' = Bits!Copied(c, {}) /\ last' = c
    BY <1>5 DEF Bits!ReadObject
  <2>2. BitCall(c) /\ c.op = "read" /\ c.before = value
    <3>1. {"contents_zero"} \in SUBSET Bits!Modes
      BY DEF Bits!Modes
    <3> QED
      BY <1>2, <3>1
  <2>3. Bits!PlainDestination(c) => value' = (value \ Lost(c)) \cup Bits!NewBits(c)
    BY <1>1, <2>1, <2>2, CopiedIs
  <2> QED
    BY <1>3, <2>1, <2>2, <2>3
<1>6. CASE Bits!Merge
  <2>1. PICK c \in Bits!Calls({"merge"}, {"clear_bits"}) :
            value' = Bits!BitMerge(value, c.source, c.bits, c.from, c.to) /\ last' = c
    BY <1>6 DEF Bits!Merge
  <2>2. BitCall(c) /\ c.op = "merge" /\ c.before = value /\ c.mode = "clear_bits"
    <3>1. {"clear_bits"} \in SUBSET Bits!Modes
      BY DEF Bits!Modes
    <3> QED
      BY <1>2, <3>1
  <2>3. Bits!BitRead(c.source, c.bits, c.from, c.to)
          = {k \in Nat : c.to <= k /\ k < c.to + c.bits /\ (k - c.to) + c.from \in c.source}
    <3>1. c.source \in SUBSET Nat /\ c.bits \in Nat /\ c.from \in Nat /\ c.to \in Nat
      BY <2>2 DEF BitCall
    <3> QED
      BY <3>1, BitsAreRead
  <2>4. Bits!BitRead(c.source, c.bits, c.from, c.to) = Bits!NewBits(c)
    BY <2>2, <2>3, NewBitsAre
  <2>5. value' = (value \ Lost(c)) \cup Bits!NewBits(c)
    BY <2>1, <2>2, <2>4 DEF Bits!BitMerge, Bits!WrittenBits, Lost
  <2> QED
    BY <1>3, <2>1, <2>2, <2>5
<1> QED
  BY <1>4, <1>5, <1>6 DEF Bits!Next

\* bit_copy, bit_read and bit_merge: for bytes, objects, counts and offsets of
\* any sizes, the bits of the source arrive where they should, and no others are
\* lost than the mode says, whichever way they are copied: by whole bytes, one
\* object, or bytes with a first and a last that are shared.
THEOREM BitsAreCopied == LibrarySpec => []CopiesTheBits
<1>1. LibraryInit => BitsInv
  <2>1. LibraryInit /\ component = "bits" => Bits!Init
    BY DEF LibraryInit, NumbersInit
  <2> QED
    BY <2>1 DEF Bits!Init, BitsInv, Bits!CopiesTheBits
<1>2. BitsInv /\ [LibraryNext]_<<component, vars, third>> => BitsInv'
  <2> SUFFICES ASSUME BitsInv, [LibraryNext]_<<component, vars, third>>, component' = "bits"
               PROVE  Bits!CopiesTheBits' /\ (last'.op = "none" => value' \in Arrays)
    BY DEF BitsInv
  <2>1. component = "bits" /\ (Bits!Next \/ UNCHANGED vars)
    <3>1. CASE NumbersStep
      BY <3>1 DEF NumbersStep, NumbersNext, UInt128Next, BitsNext, FloatsNext, RemapsNext
    <3>2. CASE LibraryNext /\ ~NumbersStep
      BY <3>2 DEF LibraryNext, OptionsNext, CoroutinesNext, OwnersNext, CachesNext, MemoryNext,
          ScopesNext, ResultsNext
    <3>3. CASE UNCHANGED <<component, vars, third>>
      BY <3>3
    <3> QED
      BY <3>1, <3>2, <3>3
  <2>2. CASE UNCHANGED vars
    BY <2>1, <2>2 DEF BitsInv, vars, Bits!CopiesTheBits
  <2>3. CASE Bits!Next
    <3>1. last.op = "none" /\ value \in Arrays
      BY <2>1, <2>3 DEF BitsInv, Bits!Next, Bits!Copy, Bits!ReadObject, Bits!Merge
    <3> QED
      BY <2>3, <3>1, BitsAreRight
  <2> QED
    BY <2>1, <2>2, <2>3
<1>3. BitsInv => CopiesTheBits
  BY DEF BitsInv, CopiesTheBits
<1> QED
  BY <1>1, <1>2, <1>3, PTL DEF LibrarySpec
=============================================================================
