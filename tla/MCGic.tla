-------------------------------- MODULE MCGic --------------------------------
(* Gic on two cores. Interrupts s1 and s2 are in one IPTR word, s2 and s3 in    *)
(* one IPR word, all three in one ICFR word.                                   *)
EXTENDS Gic, TLC

CONSTANTS s1, s2, s3

MCSpis == {s1, s2, s3}
MCIptr == s1 :> 0 @@ s2 :> 0 @@ s3 :> 1
MCIpr  == s1 :> 0 @@ s2 :> 1 @@ s3 :> 1
MCIcfr == s1 :> 0 @@ s2 :> 0 @@ s3 :> 0

MCSymmetry == Permutations(Cores)
=============================================================================
