----------------------------- MODULE MCCodecvt -----------------------------
(* Instances of Codecvt: code points and units at the boundaries of the    *)
(* encodings' ranges, and ill-formed ones.                                 *)
EXTENDS Codecvt

Scalars == {0, 36, 127, 128, 2047, 2048, 8364, 55295, 57344, 65535,
            65536, 66376, 1114111}

SampleUnits(enc) ==
    CASE enc = "u32"  -> Scalars \cup {55357, 56336, 1114112}
      [] enc = "u8"   -> {36, 130, 194, 226, 240, 255}
      [] enc = "u16"  -> {36, 55357, 56336}
      [] enc = "mb"   -> {0, 36, 130, 194, 240}
      [] enc = "wide" -> {0, 36}

Direct == Utf \cup {"mb"}
Joined(p) == \A i \in 1..Len(p) - 1 : p[i] /= p[i + 1]

(* Through three conversions and back; then from each of the others, with  *)
(* any units at all.                                                       *)
SamplePaths ==
    {p \in [1..3 -> Direct] \cup [1..4 -> Direct] : Joined(p) /\ p[1] = "u32" /\ Last(p) = "u32"}
    \cup {p \in [1..2 -> Direct] : Joined(p)}
    \cup {<<"wide", "mb", "wide">>, <<"u32", "mb", "wide">>}

WidePaths == {<<"u32", "mb", "wide", "mb", "u32">>}
=============================================================================
