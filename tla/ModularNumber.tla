--------------------------- MODULE ModularNumber ---------------------------
(* What mh::uint128 promises: one unsigned number of fixed width, and the  *)
(* arithmetic of numbers modulo its range.  "last" names the operation and *)
(* the operand that led to the number.                                     *)
EXTENDS Powers

CONSTANTS
    Range,      \* the number of values of the type
    Operands,   \* the values of a machine word, for the operands
    Shifts      \* the distances of a shift

VARIABLES n, last

Numbers == 0..(Range - 1)

Operations ==
    ({"++"} \X {0}) \cup ({"+="} \X Operands) \cup ({"-="} \X Numbers)
    \cup ({"mul"} \X (Operands \X Operands)) \cup ({"/"} \X (Operands \ {0}))
    \cup ({"<<", ">>"} \X Shifts)

Effect(op, operand) ==
    CASE op = "++"  -> n + 1
      [] op = "+="  -> n + operand
      [] op = "-="  -> n - operand
      [] op = "mul" -> operand[1] * operand[2]
      [] op = "/"   -> n \div operand
      [] op = "<<"  -> n * Pow2[operand]
      [] op = ">>"  -> n \div Pow2[operand]

Init == n \in Numbers /\ last = <<"init", 0>>

Next ==
    /\ last' \in Operations
    /\ n' = Effect(last'[1], last'[2]) % Range

Spec == Init /\ [][Next]_<<n, last>>
=============================================================================
