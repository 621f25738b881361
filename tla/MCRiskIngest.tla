---------------------------- MODULE MCRiskIngest ----------------------------
(***************************************************************************)
(* An instance of RiskIngest for TLC.                                      *)
(***************************************************************************)
EXTENDS RiskIngest

CONSTANTS anna, ben,           \* profiles
          x, y,                \* sessions
          a1, a2, b1,          \* records: of anna in x and y, of ben in y
          q1,                  \* a report about anna in thread x
          ask, unpaid          \* tags: of signals, of outcomes

TwoSessions == {x, y}
TwoProfiles == {anna, ben}
TwoTags == {ask, unpaid}
ThreeRecords == {a1, a2, b1}
SessionOf == [r \in ThreeRecords |-> IF r = a1 THEN x ELSE y]
SenderOf == [r \in ThreeRecords |-> IF r = b1 THEN ben ELSE anna]
AsksForMoney == [r \in ThreeRecords |-> {ask}]
OneReport == {q1}
AboutAnna == [q \in OneReport |-> anna]
InX == [q \in OneReport |-> x]
Unpaid == [q \in OneReport |-> unpaid]

(* a1 is delivered twice and the report is sent twice.                     *)
Deliveries == 1 .. 6
ItemOf == [t \in Deliveries |-> <<a1, a1, a2, b1, q1, q1>>[t]]

(* The worst of hashes: the keys collide crosswise.                        *)
Hash == [k \in TwoSessions \cup TwoProfiles |->
           IF k \in {x, ben} THEN 1 ELSE 2]
=============================================================================
