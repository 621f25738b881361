----------------------------- MODULE MCReviewGate -----------------------------
(***************************************************************************)
(* An instance of ReviewGate for TLC.                                      *)
(***************************************************************************)
EXTENDS ReviewGate, TLC

CONSTANTS q1, q2, q3, q4, q5, i1, i2, anna, ben, carl

Submission(id, rater, target) ==
  [id |-> id, rater |-> rater, target |-> target, media |-> rater = anna]

(* q1 and q2 submit the same review and q3 another one of the same pair,   *)
(* whose id q4 uses for another pair and q5 for a review of oneself.       *)
RacingRequests == {q1, q2, q3, q4, q5}
RacingForms == [q \in RacingRequests |->
  CASE q \in {q1, q2} -> Submission(i1, anna, ben)
    [] q = q3 -> Submission(i2, anna, ben)
    [] q = q4 -> Submission(i2, carl, ben)
    [] q = q5 -> Submission(i2, ben, ben)]

(* q1 and q2 are interchangeable. *)
SameForm == Permutations({q1, q2})
=============================================================================
