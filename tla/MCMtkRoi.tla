------------------------------- MODULE MCMtkRoi -------------------------------
(* MtkRoi instantiated for TLC: roi-on 1 and 2 reach the two application  *)
(* modes and 3 the mode 4; the counts -1 and 33 sit just outside 0..32.    *)
EXTENDS MtkRoi

MCRoiOnVals  == {0, 1, 2, 3}
MCProiOnVals == {0, 1}
MCCountVals  == {-1, 0, 32, 33}

=============================================================================
