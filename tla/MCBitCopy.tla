----------------------------- MODULE MCBitCopy -----------------------------
(* BitCopy for TLC: arrays whose bits follow no period that a shift could  *)
(* hide, and an empty one.                                                 *)
EXTENDS BitCopy

SampleArrays == {{}, {k \in 0..63 : (k * k) % 11 < 5}, {k \in 0..63 : (k * k) % 11 >= 5}}
=============================================================================
