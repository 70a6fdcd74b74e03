-------------------------------- MODULE MCFrameChoice --------------------------------
(* Four frames are the fewest where the cap leaves one out of more than it keeps *)
(* and two near steps could be chained; two bits give distances 0, 1 and 2.      *)
EXTENDS FrameChoice, TLC

MCThresholds == {0, 1}
MCCaps == {0, 2, 3}
MCSymmetry == Permutations(Bits)

======================================================================================
