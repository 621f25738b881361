--------------------------- MODULE MCBatchPipeline ---------------------------
(***************************************************************************)
(* Instances of BatchPipeline for TLC.                                     *)
(***************************************************************************)
EXTENDS BatchPipeline, TLC

CONSTANTS p1, p2

(* Three reviews, the first and the last of them of the same profile. *)
ThreeReviews == 1 .. 3
TwoProfiles == {p1, p2}
ThreeTargets == [r \in ThreeReviews |-> IF r = 2 THEN p2 ELSE p1]

(* Two reviews of one profile. *)
TwoReviews == 1 .. 2
OneProfile == {p1}
TwoTargets == [r \in TwoReviews |-> p1]

(* Ids and tasks are interchangeable. *)
IdSymmetry == Permutations(Batches) \cup Permutations(Starters)
=============================================================================
