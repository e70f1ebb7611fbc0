-------------------------- MODULE Induction_proofs --------------------------
(***************************************************************************)
(* Induction over the natural numbers, and definitions by recursion on     *)
(* them, in a form without operator parameters: what is proved of a number *)
(* is that it is an element of a set, and a step of a recursion is a       *)
(* function on the values.                                                 *)
(***************************************************************************)
EXTENDS Integers, WellFoundedInduction, TLAPS

\* A set that has zero, and with every number the next one, has them all.
THEOREM InductionOnSet ==
    ASSUME NEW S, 0 \in S, \A n \in Nat : n \in S => n + 1 \in S
    PROVE  Nat \subseteq S
<1> DEFINE T == Nat \ S
<1>1. SUFFICES ASSUME T # {} PROVE FALSE
  OBVIOUS
<1>2. PICK n \in T : \A m \in T : ~(<<m, n>> \in OpToRel(<, Nat))
  BY <1>1, NatLessThanWellFounded, WFMin
<1>3. n \in Nat /\ n \notin S /\ n # 0 /\ n - 1 \in Nat
  <2>1. n \in Nat /\ n \notin S
    OBVIOUS
  <2>2. n # 0
    BY <2>1
  <2> QED
    BY <2>1, <2>2
<1>4. <<n - 1, n>> \in OpToRel(<, Nat)
  BY <1>3 DEF OpToRel
<1>5. n - 1 \in S
  BY <1>2, <1>3, <1>4
<1>6. (n - 1) + 1 \in S
  BY <1>3, <1>5
<1>7. (n - 1) + 1 = n
  BY <1>3
<1> QED
  BY <1>3, <1>6, <1>7

\* f begins with base, and makes each value up to the n-th from the one before
\* it.
Iterates(T, base, step, n, f) ==
    f \in [0..n -> T] /\ f[0] = base /\ \A k \in 1..n : f[k] = step[k][f[k - 1]]

\* A sequence of values, each made from the one before it, exists.
THEOREM Iteration ==
    ASSUME NEW T, NEW base \in T, NEW step, \A k \in Nat : step[k] \in [T -> T], NEW n \in Nat
    PROVE  \E f : Iterates(T, base, step, n, f)
<1> DEFINE Is(m, f) == Iterates(T, base, step, m, f)
           S == {m \in Nat : \E f : Is(m, f)}
<1>1. 0 \in S
  <2> DEFINE f == [k \in 0..0 |-> base]
  <2>1. Is(0, f)
    BY DEF Iterates
  <2> QED
    BY <2>1
<1>2. ASSUME NEW m \in Nat, m \in S PROVE m + 1 \in S
  <2>1. PICK f : /\ f \in [0..m -> T] /\ f[0] = base
                 /\ \A k \in 1..m : f[k] = step[k][f[k - 1]]
    BY <1>2 DEF Iterates
  <2> DEFINE g == [k \in 0..(m + 1) |-> IF k = m + 1 THEN step[k][f[m]] ELSE f[k]]
  <2>2. step[m + 1][f[m]] \in T
    <3>1. f[m] \in T /\ step[m + 1] \in [T -> T]
      BY <2>1
    <3> QED
      BY <3>1
  <2>3. g \in [0..(m + 1) -> T] /\ g[0] = base
    BY <2>1, <2>2
  <2>4. ASSUME NEW k \in 1..(m + 1) PROVE g[k] = step[k][g[k - 1]]
    <3>1. CASE k = m + 1
      BY <3>1
    <3>2. CASE k # m + 1
      BY <2>1, <3>2
    <3> QED
      BY <3>1, <3>2
  <2>5. Is(m + 1, g)
    BY <2>3, <2>4 DEF Iterates
  <2> HIDE DEF Is
  <2> QED
    BY <2>5
<1> HIDE DEF S
<1>3. n \in S
  BY <1>1, <1>2, InductionOnSet
<1> QED
  BY <1>3 DEF S

\* The same of f for all numbers.
IteratesForever(T, base, step, f) ==
    f \in [Nat -> T] /\ f[0] = base /\ \A k \in Nat \ {0} : f[k] = step[k][f[k - 1]]

\* And so does an endless one: the sequences that exist agree with each other.
THEOREM Recursion ==
    ASSUME NEW T, NEW base \in T, NEW step, \A k \in Nat : step[k] \in [T -> T]
    PROVE  \E f : IteratesForever(T, base, step, f)
<1> DEFINE Is(m, f) == Iterates(T, base, step, m, f)
           upTo == [m \in Nat |-> CHOOSE f : Is(m, f)]
           all == [m \in Nat |-> upTo[m][m]]
<1>1. \A m \in Nat : /\ upTo[m] \in [0..m -> T] /\ upTo[m][0] = base
                     /\ \A k \in 1..m : upTo[m][k] = step[k][upTo[m][k - 1]]
  <2> SUFFICES ASSUME NEW m \in Nat PROVE Iterates(T, base, step, m, upTo[m])
    BY DEF Iterates
  <2>1. \E f : Is(m, f)
    BY Iteration
  <2> QED
    BY <2>1
<1>2. ASSUME NEW m \in Nat, NEW n \in Nat, m <= n
      PROVE  \A k \in 0..m : upTo[m][k] = upTo[n][k]
  <2> DEFINE S == {k \in Nat : k <= m => upTo[m][k] = upTo[n][k]}
  <2> HIDE DEF upTo
  <2>1. 0 \in S
    BY <1>1
  <2>2. ASSUME NEW k \in Nat, k \in S PROVE k + 1 \in S
    <3> SUFFICES ASSUME k + 1 <= m PROVE upTo[m][k + 1] = upTo[n][k + 1]
      OBVIOUS
    <3>1. upTo[m][k] = upTo[n][k] /\ k + 1 \in 1..m /\ k + 1 \in 1..n /\ (k + 1) - 1 = k
      BY <1>2, <2>2
    <3>2. upTo[m][k + 1] = step[k + 1][upTo[m][(k + 1) - 1]]
      BY <1>1, <3>1
    <3>3. upTo[n][k + 1] = step[k + 1][upTo[n][(k + 1) - 1]]
      BY <1>1, <3>1
    <3> QED
      BY <3>1, <3>2, <3>3
  <2> HIDE DEF S
  <2>3. Nat \subseteq S
    BY <2>1, <2>2, InductionOnSet
  <2> QED
    BY <2>3 DEF S
<1> HIDE DEF upTo
<1>3. all \in [Nat -> T]
  BY <1>1
<1>4. all[0] = base
  BY <1>1
<1>5. ASSUME NEW k \in Nat \ {0} PROVE all[k] = step[k][all[k - 1]]
  <2>1. k - 1 \in Nat /\ k - 1 <= k /\ k - 1 \in 0..(k - 1) /\ k \in 1..k
    OBVIOUS
  <2>2. upTo[k - 1][k - 1] = upTo[k][k - 1]
    BY <1>2, <2>1
  <2>3. upTo[k][k] = step[k][upTo[k][k - 1]]
    BY <1>1, <2>1
  <2> QED
    BY <2>1, <2>2, <2>3
<1> HIDE DEF all
<1> QED
  BY <1>3, <1>4, <1>5 DEF IteratesForever
=============================================================================
