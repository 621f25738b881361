--------------------------- MODULE MCEvidenceFold ---------------------------
(***************************************************************************)
(* Instances of EvidenceFold for TLC.                                      *)
(***************************************************************************)
EXTENDS EvidenceFold

CONSTANTS x, y,           \* sessions
          unpaid,         \* outcome:<tag>, of reports without a session
          ask, scam,      \* tags
          anna, ben,      \* counterparties
          r1, r2, r3      \* reviews

(* The record of a session names its other party, or nobody. *)
Counterparties == [t \in Threads |-> IF t = x THEN {anna} ELSE {ben, NULL}]

(* r2 was written later than the others. *)
WrittenAt == [r \in Reviews |-> IF r = r2 THEN 1 ELSE 0]

(* Two people report without naming a session. *)
Reporters == [t \in Threads |-> {anna, ben}]
=============================================================================
