--------------------------- MODULE MCPermutation ---------------------------
EXTENDS Permutation, Bitwise, TLC

(* Sizes around the powers of four: one and two bits per half word.        *)
MCSizes == {1, 2, 3, 4, 5, 7, 11, 15, 16}
(* A constant, a one-to-one and two many-to-one functions; only their low  *)
(* bits are used when the half word is narrower.                           *)
MCHash ==
    {0 :> 3 @@ 1 :> 3 @@ 2 :> 3 @@ 3 :> 3,
     0 :> 1 @@ 1 :> 2 @@ 2 :> 3 @@ 3 :> 0,
     0 :> 2 @@ 1 :> 7 @@ 2 :> 1 @@ 3 :> 2}
MCxor(a, b) == a ^^ b
=============================================================================
