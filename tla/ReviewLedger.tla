---------------------------- MODULE ReviewLedger ----------------------------
(***************************************************************************)
(* What the review pipeline promises to whoever submits a review and to    *)
(* whoever reads a reputation: an accepted review stays pending until it   *)
(* is either folded into its target's reputation, once, together with the  *)
(* other reviews of its group, or dead-lettered without being folded.      *)
(* Neither outcome is ever revised.  Batches, tasks, statements, retries   *)
(* and failures do not appear here; BatchPipeline implements this module.  *)
(***************************************************************************)
EXTENDS Naturals

CONSTANT Reviews

VARIABLES
  standing,   \* what became of each review
  credited    \* how often the review is contained in its target's reputation

vars == <<standing, credited>>

Standings == {"none", "pending", "counted", "dead"}

TypeOK ==
  /\ standing \in [Reviews -> Standings]
  /\ credited \in [Reviews -> Nat]

Init ==
  /\ standing = [r \in Reviews |-> "none"]
  /\ credited = [r \in Reviews |-> 0]

(* The gate accepts a review. *)
Accept(r) ==
  /\ standing[r] = "none"
  /\ standing' = [standing EXCEPT ![r] = "pending"]
  /\ UNCHANGED credited

(* A group of pending reviews enters the reputation in one step. *)
Count(G) ==
  /\ G # {}
  /\ \A r \in G : standing[r] = "pending"
  /\ standing' = [r \in Reviews |-> IF r \in G THEN "counted" ELSE standing[r]]
  /\ credited' = [r \in Reviews |-> IF r \in G THEN credited[r] + 1 ELSE credited[r]]

(* A pending review is given up. *)
Bury(r) ==
  /\ standing[r] = "pending"
  /\ standing' = [standing EXCEPT ![r] = "dead"]
  /\ UNCHANGED credited

Next ==
  \/ \E r \in Reviews : Accept(r) \/ Bury(r)
  \/ \E G \in SUBSET Reviews : Count(G)

Spec == Init /\ [][Next]_vars
=============================================================================
