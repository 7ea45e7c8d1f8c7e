-------------------------------- MODULE MCStudio --------------------------------
(***************************************************************************)
(* Instances of the workflow called directly, for TLC.                       *)
(***************************************************************************)
EXTENDS ReviewStudio, ReviewSerial, TLC

CONSTANTS t1, c1, c2, c3

OneThread == {t1}
ThreeCalls == {c1, c2, c3}
AllEdits == {"none", "some", "unusable", "unprintable"}
CallSymmetry == Permutations(Calls)
================================================================================
