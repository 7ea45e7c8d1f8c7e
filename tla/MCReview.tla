-------------------------------- MODULE MCReview --------------------------------
(***************************************************************************)
(* Instances of the review service for TLC.                                  *)
(***************************************************************************)
EXTENDS ReviewOutcome, TLC

CONSTANTS t1, c1, c2, c3

OneThread == {t1}
ThreeCalls == {c1, c2, c3}
AllUploads == {"unsupported", "unreadable", "readable"}
Contract == {"readable"}
PlainEdits == {"none"}
RetriedEdits == {"none", "unusable"}
BadEdits == {"none", "unusable", "unprintable"}
CallSymmetry == Permutations(Calls)
================================================================================
