--------------------------- MODULE ReviewGateProofs ---------------------------
(***************************************************************************)
(* Theorems about ReviewGate, for any number of submissions, ids and       *)
(* profiles, any quota and window, and any skew of the clocks.             *)
(***************************************************************************)
EXTENDS ReviewGate, FiniteSetTheorems, TLAPS

(***************************************************************************)
(* Types, and what a step does to the request it belongs to.               *)
(***************************************************************************)
Reasons == RejectionCodes \cup {"NONE"}

(* The new state of a request; the others keep theirs.                     *)
Becomes(q, pc, reason, started, answer) ==
  /\ request'[q].pc = pc /\ request'[q].reason = reason
  /\ request'[q].started = started /\ request'[q].answer = answer
  /\ \A u \in Requests \ {q} : request'[u] = request[u]
  /\ request' \in [Requests -> Request]

LEMMA FormType ==
  ASSUME NEW q \in Requests
  PROVE  Form[q].id \in Ids /\ PairOf(q) \in Pairs
BY FormAssumption DEF PairOf, Pairs

LEMMA IdleType == Idle \in Request
BY DEF Idle, Request

LEMMA AnswerMeans ==
  ASSUME TypeOK, NEW q \in Requests, NEW code \in Answers \cup {"NONE"}, Answer(q, code)
  PROVE  Becomes(q, "done", "NONE", 0, code)
<1> DEFINE x == [Idle EXCEPT !.pc = "done", !.answer = code]
<1>1. x \in Request /\ x.pc = "done" /\ x.reason = "NONE" /\ x.started = 0 /\ x.answer = code
  BY DEF Idle, Request
<1>2. request' = [request EXCEPT ![q] = x]
  BY DEF Answer
<1> HIDE DEF x
<1> QED
  BY <1>1, <1>2 DEF Becomes, TypeOK

LEMMA GoToMeans ==
  ASSUME TypeOK, NEW q \in Requests,
         NEW place \in {"lock", "dup", "reject", "count", "insert"}, GoTo(q, place)
  PROVE  Becomes(q, place, request[q].reason, request[q].started, request[q].answer)
<1> DEFINE x == [request[q] EXCEPT !.pc = place]
<1>1. request[q] \in Request
  BY DEF TypeOK
<1>2. /\ x \in Request /\ x.pc = place /\ x.reason = request[q].reason
      /\ x.started = request[q].started /\ x.answer = request[q].answer
  BY <1>1 DEF Request
<1>3. request' = [request EXCEPT ![q] = x]
  BY DEF GoTo
<1> HIDE DEF x
<1> QED
  BY <1>2, <1>3 DEF Becomes, TypeOK

LEMMA ValidateMeans ==
  ASSUME TypeOK, NEW q \in Requests, Validate(q)
  PROVE  \E reason \in Reasons : Becomes(q, "lock", reason, clock, request[q].answer)
<1>1. PICK found \in [{Form[q].target, Form[q].rater} -> Standings], failsOpen \in BOOLEAN :
        request' = [request EXCEPT
          ![q].pc = "lock",
          ![q].started = clock,
          ![q].reason = IF failsOpen THEN "NONE"
                        ELSE VerdictOn(found, Form[q].target, Form[q].rater)]
  BY DEF Validate
<1> DEFINE reason == IF failsOpen THEN "NONE"
                     ELSE VerdictOn(found, Form[q].target, Form[q].rater)
<1>2. reason \in Reasons
  BY DEF VerdictOn, Reasons, RejectionCodes, VerdictCodes
<1> HIDE DEF reason
<1> DEFINE x == [[[request[q] EXCEPT !.pc = "lock"] EXCEPT !.started = clock]
                 EXCEPT !.reason = reason]
<1>3. request[q] \in Request /\ clock \in Nat
  BY DEF TypeOK
<1>4. /\ x \in Request /\ x.pc = "lock" /\ x.reason = reason
      /\ x.started = clock /\ x.answer = request[q].answer
  BY <1>2, <1>3 DEF Request, Reasons
<1>5. request' = [request EXCEPT ![q] = x]
  BY <1>1 DEF reason
<1> HIDE DEF x
<1>6. Becomes(q, "lock", reason, clock, request[q].answer)
  BY <1>4, <1>5 DEF Becomes, TypeOK
<1> QED
  BY <1>2, <1>6

LEMMA CountMeans ==
  ASSUME TypeOK, NEW q \in Requests, NEW now, Count(q, now)
  PROVE  IF Cardinality(Recent(PairOf(q), now, Window)) >= RateLimit
         THEN Becomes(q, "reject", "RATE_LIMITED", request[q].started, request[q].answer)
         ELSE Becomes(q, "insert", request[q].reason, request[q].started, request[q].answer)
<1>1. CASE Cardinality(Recent(PairOf(q), now, Window)) >= RateLimit
  <2> DEFINE x == [[request[q] EXCEPT !.pc = "reject"] EXCEPT !.reason = "RATE_LIMITED"]
  <2>1. request[q] \in Request
    BY DEF TypeOK
  <2>2. /\ x \in Request /\ x.pc = "reject" /\ x.reason = "RATE_LIMITED"
        /\ x.started = request[q].started /\ x.answer = request[q].answer
    BY <2>1 DEF Request, RejectionCodes
  <2>3. request' = [request EXCEPT ![q] = x]
    BY <1>1 DEF Count
  <2> HIDE DEF x
  <2> QED
    BY <1>1, <2>2, <2>3 DEF Becomes, TypeOK
<1>2. CASE ~(Cardinality(Recent(PairOf(q), now, Window)) >= RateLimit)
  BY <1>2, GoToMeans DEF Count
<1> QED
  BY <1>1, <1>2

(***************************************************************************)
(* What the steps do to the table.                                         *)
(***************************************************************************)
LEMMA NoRowType == NoRow \in Row
BY DEF NoRow, Row, Statuses

LEMMA SubmittedMeans ==
  ASSUME TypeOK, NEW q \in Requests
  PROVE  /\ Submitted(q) \in Row
         /\ Submitted(q).status = "GATED" /\ Submitted(q).pair = PairOf(q)
         /\ Submitted(q).media = Form[q].media
<1>1. PairOf(q) \in Pairs /\ Form[q].media \in BOOLEAN
  BY FormType, FormAssumption
<1>2. request[q].started \in Nat
  BY DEF TypeOK, Request
<1> QED
  BY <1>1, <1>2 DEF Submitted, NoRow, Row, Statuses

(* A rejection is recorded over nothing that was accepted.                 *)
LEMMA PersistMeans ==
  ASSUME TypeOK, NEW q \in Requests, NEW reason \in Reasons, NEW now \in Nat,
         PersistRejected(q, reason, now)
  PROVE  /\ row' \in [Ids -> Row]
         /\ \A i \in Ids : Accepted(row[i].status) => row'[i] = row[i]
         /\ \A i \in Ids : ~Accepted(row[i].status) => ~Accepted(row'[i].status)
<1> DEFINE i == Form[q].id
<1>1. i \in Ids /\ PairOf(q) \in Pairs /\ row \in [Ids -> Row] /\ row[i] \in Row
  BY FormType DEF TypeOK
<1>2. CASE row[i].status = "NONE"
  <2> DEFINE x == [NoRow EXCEPT !.status = "GATE_REJECTED", !.pair = PairOf(q),
                                !.reason = reason, !.received = now]
  <2>1. x \in Row /\ x.status = "GATE_REJECTED"
    BY <1>1 DEF NoRow, Row, Statuses, Reasons
  <2>2. row' = [row EXCEPT ![i] = x]
    BY <1>2 DEF PersistRejected, Accepted
  <2> HIDE DEF x
  <2> QED
    BY <1>1, <1>2, <2>1, <2>2 DEF Accepted
<1>3. CASE row[i].status = "GATE_REJECTED"
  <2> DEFINE x == [[row[i] EXCEPT !.reason = reason] EXCEPT !.received = now]
  <2>1. x \in Row /\ x.status = "GATE_REJECTED"
    BY <1>1, <1>3 DEF Row, Reasons
  <2>2. row' = [row EXCEPT ![i] = x]
    BY <1>3 DEF PersistRejected, Accepted
  <2> HIDE DEF x
  <2> QED
    BY <1>1, <1>3, <2>1, <2>2 DEF Accepted
<1>4. CASE Accepted(row[i].status)
  <2>1. row' = row
    BY <1>4 DEF PersistRejected, Accepted
  <2> QED
    BY <1>1, <2>1
<1>5. row[i].status \in {"NONE", "GATE_REJECTED"} \/ Accepted(row[i].status)
  BY <1>1 DEF Row, Statuses, Accepted
<1> QED
  BY <1>2, <1>3, <1>4, <1>5

(* An insert takes effect unless the id is accepted already.               *)
LEMMA InsertMeans ==
  ASSUME TypeOK, NEW q \in Requests, NEW acknowledged \in BOOLEAN, Insert(q, acknowledged)
  PROVE  LET old == Accepted(row[Form[q].id].status)
         IN  /\ row' \in [Ids -> Row]
             /\ \A i \in Ids \ {Form[q].id} : row'[i] = row[i]
             /\ row'[Form[q].id] = IF old THEN row[Form[q].id] ELSE Submitted(q)
             /\ \E code \in {"ACCEPTED", "DUPLICATE", "ERROR"} :
                  /\ Becomes(q, "done", "NONE", 0, code)
                  /\ code = "ACCEPTED" => ~old
                  /\ code = "DUPLICATE" => old
<1> DEFINE i == Form[q].id
           old == Accepted(row[i].status)
           code == IF ~acknowledged THEN "ERROR" ELSE IF old THEN "DUPLICATE" ELSE "ACCEPTED"
<1>1. i \in Ids /\ row \in [Ids -> Row] /\ row[i] \in Row /\ Submitted(q) \in Row
  BY FormType, SubmittedMeans DEF TypeOK
<1>2. Answer(q, code)
  BY DEF Insert
<1>3. code \in {"ACCEPTED", "DUPLICATE", "ERROR"}
  OBVIOUS
<1>4. Becomes(q, "done", "NONE", 0, code)
  BY <1>2, <1>3, AnswerMeans DEF Answers
<1>5. row' = IF old THEN row ELSE [row EXCEPT ![i] = Submitted(q)]
  BY <1>1 DEF Insert, Upgraded, Row, Statuses, Accepted
<1>6. /\ row' \in [Ids -> Row]
      /\ \A j \in Ids \ {i} : row'[j] = row[j]
      /\ row'[i] = IF old THEN row[i] ELSE Submitted(q)
  BY <1>1, <1>5
<1> QED
  BY <1>3, <1>4, <1>6

LEMMA ProcessMeans ==
  ASSUME TypeOK, NEW j \in Ids, Process(j)
  PROVE  /\ row' \in [Ids -> Row]
         /\ \A i \in Ids \ {j} : row'[i] = row[i]
         /\ Accepted(row[j].status) /\ Accepted(row'[j].status)
         /\ [row'[j] EXCEPT !.status = row[j].status] = row[j]
<1> DEFINE status == IF row[j].status = "GATED" THEN "BATCHED" ELSE "GATED"
           x == [row[j] EXCEPT !.status = status]
<1>1. row[j] \in Row /\ row \in [Ids -> Row]
  BY DEF TypeOK
<1>2. x \in Row /\ Accepted(x.status) /\ [x EXCEPT !.status = row[j].status] = row[j]
  BY <1>1 DEF Row, Statuses, Accepted
<1>3. row' = [row EXCEPT ![j] = x] /\ Accepted(row[j].status)
  BY DEF Process
<1> HIDE DEF x
<1> QED
  BY <1>1, <1>2, <1>3

(* What a step of q leaves to the other requests.                          *)
Quiet(q) ==
  /\ \A u \in Requests \ {q} : request'[u] = request[u]
  /\ \A u \in Requests \ {q}, p \in Pairs : pairLock[p] = u => pairLock'[p] = u
  /\ request' \in [Requests -> Request]
  /\ pairLock' \in [Pairs -> Requests \cup {NULL}]
  /\ clock' = clock
  /\ faults' \in Nat

LEMMA ReleaseMeans ==
  ASSUME TypeOK, NEW q \in Requests, Release(q)
  PROVE  /\ \A u \in Requests \ {q}, p \in Pairs : pairLock[p] = u => pairLock'[p] = u
         /\ pairLock' \in [Pairs -> Requests \cup {NULL}]
BY DEF Release, TypeOK

LEMMA GateQuiet ==
  ASSUME TypeOK, NEW q \in Requests, Gate(q) \/ Abort(q)
  PROVE  Quiet(q)
<1>1. ASSUME NEW pc, NEW reason, NEW started, NEW answer,
             Becomes(q, pc, reason, started, answer),
             UNCHANGED pairLock \/ Release(q), clock' = clock, UNCHANGED faults \/ Fault
      PROVE  Quiet(q)
  <2>1. faults' \in Nat
    BY <1>1 DEF Fault, TypeOK
  <2>2. /\ \A u \in Requests \ {q}, p \in Pairs : pairLock[p] = u => pairLock'[p] = u
        /\ pairLock' \in [Pairs -> Requests \cup {NULL}]
    BY <1>1, ReleaseMeans DEF TypeOK
  <2> QED
    BY <1>1, <2>1, <2>2 DEF Becomes, Quiet
<1>2. ASSUME NEW ok \in BOOLEAN, RejectSelf(q, ok) PROVE Quiet(q)
  <2>1. Becomes(q, "done", "NONE", 0, "SELF_REVIEW")
    BY <1>2, AnswerMeans DEF RejectSelf, Answers, RejectionCodes
  <2> QED
    BY <1>1, <1>2, <2>1 DEF RejectSelf
<1>3. CASE Validate(q)
  BY <1>1, <1>3, ValidateMeans DEF Validate
<1>4. CASE LockPair(q)
  <2>1. Becomes(q, "dup", request[q].reason, request[q].started, request[q].answer)
    BY <1>4, GoToMeans DEF LockPair
  <2>2. /\ \A u \in Requests \ {q}, p \in Pairs : pairLock[p] = u => pairLock'[p] = u
        /\ pairLock' \in [Pairs -> Requests \cup {NULL}]
    BY <1>4, FormType, GateNullAssumption DEF LockPair, TypeOK
  <2>3. clock' = clock /\ faults' = faults
    BY <1>4 DEF LockPair
  <2> QED
    BY <2>1, <2>2, <2>3 DEF Becomes, Quiet, TypeOK
<1>5. CASE CheckDuplicate(q)
  <2>1. CASE Accepted(row[Form[q].id].status)
    <3>1. Answer(q, "DUPLICATE") /\ Release(q)
      BY <1>5, <2>1 DEF CheckDuplicate
    <3>2. Becomes(q, "done", "NONE", 0, "DUPLICATE")
      BY <3>1, AnswerMeans DEF Answers
    <3> QED
      BY <1>1, <1>5, <3>1, <3>2 DEF CheckDuplicate
  <2>2. CASE ~Accepted(row[Form[q].id].status)
    <3>1. PICK place \in {"count", "reject"} : GoTo(q, place) /\ UNCHANGED pairLock
      BY <1>5, <2>2 DEF CheckDuplicate
    <3>2. Becomes(q, place, request[q].reason, request[q].started, request[q].answer)
      BY <3>1, GoToMeans
    <3> QED
      BY <1>1, <1>5, <3>1, <3>2 DEF CheckDuplicate
  <2> QED
    BY <2>1, <2>2
<1>6. ASSUME NEW ok \in BOOLEAN, Reject(q, ok) PROVE Quiet(q)
  <2>1. request[q].reason \in Answers \cup {"NONE"}
    BY DEF TypeOK, Request, Answers
  <2>2. Becomes(q, "done", "NONE", 0, request[q].reason)
    BY <1>6, <2>1, AnswerMeans DEF Reject
  <2> QED
    BY <1>1, <1>6, <2>2 DEF Reject
<1>7. ASSUME NEW now, Count(q, now) PROVE Quiet(q)
  BY <1>1, <1>7, CountMeans DEF Count
<1>8. ASSUME NEW acknowledged \in BOOLEAN, Insert(q, acknowledged) PROVE Quiet(q)
  <2>1. PICK code : Becomes(q, "done", "NONE", 0, code)
    BY <1>8, InsertMeans
  <2> QED
    BY <1>1, <1>8, <2>1 DEF Insert
<1>9. CASE Abort(q)
  <2>1. Becomes(q, "done", "NONE", 0, "ERROR")
    BY <1>9, AnswerMeans DEF Abort, Answers
  <2> QED
    BY <1>1, <1>9, <2>1 DEF Abort
<1> QED
  BY <1>2, <1>3, <1>4, <1>5, <1>6, <1>7, <1>8, <1>9 DEF Gate

(***************************************************************************)
(* Accepted rows.  Final(i): row i stays as it was accepted.  Only Insert  *)
(* accepts a row.                                                          *)
(***************************************************************************)
Final(i) ==
  Accepted(row[i].status) => /\ Accepted(row'[i].status)
                             /\ [row'[i] EXCEPT !.status = row[i].status] = row[i]

NewlyAccepted(i) == ~Accepted(row[i].status) /\ Accepted(row'[i].status)

LEMMA SameIsFinal ==
  ASSUME TypeOK, NEW i \in Ids, row'[i] = row[i]
  PROVE  Final(i) /\ ~NewlyAccepted(i)
<1>1. row[i] \in Row
  BY DEF TypeOK
<1>2. [row[i] EXCEPT !.status = row[i].status] = row[i]
  BY <1>1 DEF Row
<1> QED
  BY <1>2 DEF Final, NewlyAccepted

LEMMA RowsMean ==
  ASSUME TypeOK, NEW q \in Requests, Gate(q) \/ Abort(q)
  PROVE  /\ row' \in [Ids -> Row]
         /\ \A i \in Ids : Final(i)
         /\ \A i \in Ids : NewlyAccepted(i) =>
              /\ i = Form[q].id /\ row'[i] = Submitted(q)
              /\ request[q].pc = "insert"
<1>1. CASE row' = row
  BY <1>1, SameIsFinal DEF TypeOK
<1>2. ASSUME NEW reason \in Reasons, NEW now \in Nat, PersistRejected(q, reason, now)
      PROVE  /\ row' \in [Ids -> Row]
             /\ \A i \in Ids : Final(i) /\ ~NewlyAccepted(i)
  <2> SUFFICES ASSUME NEW i \in Ids PROVE Final(i) /\ ~NewlyAccepted(i)
    BY <1>2, PersistMeans
  <2>1. CASE Accepted(row[i].status)
    BY <1>2, <2>1, PersistMeans, SameIsFinal
  <2>2. CASE ~Accepted(row[i].status)
    BY <1>2, <2>2, PersistMeans DEF Final, NewlyAccepted
  <2> QED
    BY <2>1, <2>2
<1>3. ASSUME NEW ok \in BOOLEAN, RejectSelf(q, ok)
      PROVE  row' = row \/ \E reason \in Reasons, now \in Nat : PersistRejected(q, reason, now)
  BY <1>3 DEF RejectSelf, Reasons, RejectionCodes, TypeOK
<1>4. ASSUME NEW ok \in BOOLEAN, Reject(q, ok)
      PROVE  row' = row \/ \E reason \in Reasons, now \in Nat : PersistRejected(q, reason, now)
  BY <1>4 DEF Reject, Reasons, TypeOK, Request
<1>5. ASSUME NEW acknowledged \in BOOLEAN, Insert(q, acknowledged)
      PROVE  /\ row' \in [Ids -> Row]
             /\ \A i \in Ids : Final(i)
             /\ \A i \in Ids : NewlyAccepted(i) =>
                  /\ i = Form[q].id /\ row'[i] = Submitted(q)
                  /\ request[q].pc = "insert"
  <2> SUFFICES ASSUME NEW i \in Ids
               PROVE  /\ Final(i)
                      /\ NewlyAccepted(i) => /\ i = Form[q].id /\ row'[i] = Submitted(q)
                                             /\ request[q].pc = "insert"
    BY <1>5, InsertMeans
  <2>1. request[q].pc = "insert"
    BY <1>5 DEF Insert, At
  <2>2. row'[i] = row[i] \/ (i = Form[q].id /\ ~Accepted(row[i].status) /\ row'[i] = Submitted(q))
    BY <1>5, InsertMeans
  <2> QED
    BY <2>1, <2>2, SameIsFinal DEF Final, NewlyAccepted
<1>6. ASSUME NEW now, Count(q, now) PROVE row' = row
  BY <1>6 DEF Count
<1>7. CASE Validate(q) \/ LockPair(q) \/ CheckDuplicate(q) \/ Abort(q)
  BY <1>1, <1>7 DEF Validate, LockPair, CheckDuplicate, Abort
<1> QED
  BY <1>1, <1>2, <1>3, <1>4, <1>5, <1>6, <1>7 DEF Gate

LEMMA FinalMeans ==
  ASSUME NEW i \in Ids, row[i] \in Row, row'[i] \in Row, Final(i), Accepted(row[i].status)
  PROVE  /\ Accepted(row'[i].status) /\ row'[i].pair = row[i].pair
         /\ row'[i].media = row[i].media /\ row'[i].received = row[i].received
<1> DEFINE x == [row'[i] EXCEPT !.status = row[i].status]
<1>1. x = row[i] /\ Accepted(row'[i].status)
  BY DEF Final
<1>2. x.pair = row'[i].pair /\ x.media = row'[i].media /\ x.received = row'[i].received
  BY DEF Row
<1> QED
  BY <1>1, <1>2

LEMMA TypeNext ==
  ASSUME TypeOK, [Next]_vars
  PROVE  TypeOK'
<1>1. ASSUME NEW q \in Requests, Gate(q) \/ Abort(q) PROVE TypeOK'
  BY <1>1, GateQuiet, RowsMean DEF Quiet, TypeOK
<1>2. CASE Tick
  BY <1>2 DEF Tick, TypeOK
<1>3. ASSUME NEW i \in Ids, Process(i) PROVE TypeOK'
  <2>1. UNCHANGED <<clock, pairLock, request, faults>> /\ row' \in [Ids -> Row]
    BY <1>3, ProcessMeans DEF Process
  <2> QED
    BY <2>1 DEF TypeOK
<1>4. CASE UNCHANGED vars
  BY <1>4 DEF vars, TypeOK
<1> QED
  BY <1>1, <1>2, <1>3, <1>4 DEF Next

LEMMA TypeInit == Init => TypeOK
<1> SUFFICES ASSUME Init PROVE TypeOK
  OBVIOUS
<1>1. \A q \in Requests : NewRequest(q) \in Request
  BY IdleType DEF NewRequest, Request
<1> QED
  BY <1>1, NoRowType DEF Init, TypeOK

(* Every variable keeps its type. *)
THEOREM GateTypeCorrect == Spec => []TypeOK
BY TypeInit, TypeNext, PTL DEF Spec

LEMMA FinalNext ==
  ASSUME TypeOK, [Next]_vars
  PROVE  \A i \in Ids : Final(i)
<1>1. ASSUME NEW q \in Requests, Gate(q) \/ Abort(q) PROVE \A i \in Ids : Final(i)
  BY <1>1, RowsMean
<1>2. ASSUME NEW j \in Ids, Process(j), NEW i \in Ids PROVE Final(i)
  BY <1>2, ProcessMeans, SameIsFinal DEF Final
<1>3. CASE Tick \/ UNCHANGED vars
  BY <1>3, SameIsFinal DEF Tick, vars
<1> QED
  BY <1>1, <1>2, <1>3 DEF Next

(* An accepted review is not rejected, replaced or renewed by any later    *)
(* submission (gate_and_store, _persist_rejected): it is only moved on.    *)
THEOREM AcceptedForGood == Spec => AcceptedIsFinal
<1>1. TypeOK /\ [Next]_vars =>
        [\A i \in Ids : Accepted(row[i].status) =>
           /\ Accepted(row'[i].status)
           /\ [row'[i] EXCEPT !.status = row[i].status] = row[i]]_vars
  BY FinalNext DEF Final
<1> QED
  BY <1>1, GateTypeCorrect, PTL DEF Spec, AcceptedIsFinal

(***************************************************************************)
(* The inductive invariant of acceptance.  From the duplicate check to its *)
(* COMMIT a request holds the lock of its pair; so while the pair of an id *)
(* is immutable nobody else can accept the id meanwhile.                   *)
(***************************************************************************)
Inside == {"dup", "reject", "count", "insert"}

Path(q) ==
  /\ request[q].pc = "self" => Form[q].rater = Form[q].target
  /\ request[q].pc \in Inside \cup {"start", "lock"} => Form[q].rater # Form[q].target
  /\ request[q].pc \in Inside => pairLock[PairOf(q)] = q

NotTaken(q) ==
  request[q].pc \in Inside \ {"dup"} /\ Stable(Form[q].id) => ~Accepted(row[Form[q].id].status)

Told(q) ==
  /\ request[q].answer # "NONE" => request[q].pc = "done"
  /\ request[q].answer \in {"ACCEPTED", "DUPLICATE"} => Accepted(row[Form[q].id].status)
  /\ request[q].answer = "ACCEPTED" => /\ row[Form[q].id].pair = PairOf(q)
                                       /\ row[Form[q].id].media = Form[q].media

(* No row is accepted that nobody could have had accepted.                 *)
Claimed ==
  \A i \in Ids : Accepted(row[i].status) =>
    \E q \in Requests : Form[q].id = i /\ Form[q].rater # Form[q].target

GateInv ==
  /\ TypeOK /\ Claimed /\ AcceptedOnce
  /\ \A q \in Requests : Path(q) /\ NotTaken(q) /\ Told(q)

LEMMA GateInvInit == Init => GateInv
<1> SUFFICES ASSUME Init PROVE GateInv
  OBVIOUS
<1>1. \A q \in Requests : /\ request[q].answer = "NONE"
                          /\ request[q].pc = IF Form[q].rater = Form[q].target
                                             THEN "self" ELSE "start"
  BY DEF Init, NewRequest, Idle
<1>2. \A i \in Ids : ~Accepted(row[i].status)
  BY DEF Init, NoRow, Accepted
<1>3. \A q \in Requests : Path(q) /\ NotTaken(q) /\ Told(q)
  BY <1>1, <1>2 DEF Path, NotTaken, Told, Inside
<1> QED
  BY <1>1, <1>2, <1>3, TypeInit DEF GateInv, Claimed, AcceptedOnce

(* How a request proceeds.                                                 *)
LEMMA StepMeans ==
  ASSUME GateInv, NEW q \in Requests, Gate(q) \/ Abort(q)
  PROVE  \/ /\ request[q].pc = "start" /\ request'[q].pc = "lock"
            /\ request'[q].answer = request[q].answer
         \/ /\ request[q].pc = "lock" /\ request'[q].pc = "dup"
            /\ request'[q].answer = request[q].answer /\ pairLock'[PairOf(q)] = q
         \/ /\ request[q].pc \in Inside \ {"insert"} /\ request'[q].pc \in Inside \ {"dup"}
            /\ request'[q].answer = request[q].answer /\ UNCHANGED <<row, pairLock>>
            /\ request[q].pc = "dup" => ~Accepted(row[Form[q].id].status)
         \/ /\ request[q].pc \in {"self", "reject"} /\ request'[q].pc = "done"
            /\ request'[q].answer \in Reasons
         \/ /\ request'[q].pc = "done" /\ request'[q].answer = "ERROR"
         \/ /\ request'[q].pc = "done" /\ request'[q].answer = "DUPLICATE"
            /\ Accepted(row[Form[q].id].status)
         \/ /\ request'[q].pc = "done" /\ request'[q].answer = "ACCEPTED"
            /\ ~Accepted(row[Form[q].id].status) /\ row'[Form[q].id] = Submitted(q)
<1>0. TypeOK
  BY DEF GateInv
<1>2. ASSUME NEW ok \in BOOLEAN, RejectSelf(q, ok)
      PROVE  /\ request[q].pc = "self" /\ request'[q].pc = "done"
             /\ request'[q].answer \in Reasons
  <2>1. Becomes(q, "done", "NONE", 0, "SELF_REVIEW")
    BY <1>0, <1>2, AnswerMeans DEF RejectSelf, Answers, RejectionCodes
  <2> QED
    BY <1>2, <2>1 DEF Becomes, RejectSelf, At, Reasons, RejectionCodes
<1>3. CASE Validate(q)
  BY <1>0, <1>3, ValidateMeans DEF Validate, At, Becomes
<1>4. CASE LockPair(q)
  <2>1. pairLock'[PairOf(q)] = q /\ request[q].pc = "lock"
    BY <1>0, <1>4, FormType DEF LockPair, At, TypeOK
  <2> QED
    BY <1>0, <1>4, <2>1, GoToMeans DEF LockPair, Becomes
<1>5. CASE CheckDuplicate(q)
  <2>0. request[q].pc = "dup"
    BY <1>5 DEF CheckDuplicate, At
  <2>1. CASE Accepted(row[Form[q].id].status)
    <3>1. Answer(q, "DUPLICATE")
      BY <1>5, <2>1 DEF CheckDuplicate
    <3>2. Becomes(q, "done", "NONE", 0, "DUPLICATE")
      BY <1>0, <3>1, AnswerMeans DEF Answers
    <3> QED
      BY <2>1, <3>2 DEF Becomes
  <2>2. CASE ~Accepted(row[Form[q].id].status)
    <3>1. PICK place \in {"count", "reject"} : GoTo(q, place) /\ UNCHANGED pairLock
      BY <1>5, <2>2 DEF CheckDuplicate
    <3>2. Becomes(q, place, request[q].reason, request[q].started, request[q].answer)
      BY <1>0, <3>1, GoToMeans
    <3>3. UNCHANGED row
      BY <1>5 DEF CheckDuplicate
    <3> QED
      BY <2>0, <2>2, <3>1, <3>2, <3>3 DEF Becomes, Inside
  <2> QED
    BY <2>1, <2>2
<1>6. ASSUME NEW ok \in BOOLEAN, Reject(q, ok)
      PROVE  /\ request[q].pc = "reject" /\ request'[q].pc = "done"
             /\ request'[q].answer \in Reasons
  <2>1. request[q].reason \in Answers \cup {"NONE"} /\ request[q].reason \in Reasons
    BY <1>0 DEF TypeOK, Request, Answers, Reasons
  <2>2. Becomes(q, "done", "NONE", 0, request[q].reason)
    BY <1>0, <1>6, <2>1, AnswerMeans DEF Reject
  <2> QED
    BY <1>6, <2>1, <2>2 DEF Becomes, Reject, At
<1>7. ASSUME NEW now, Count(q, now)
      PROVE  /\ request[q].pc = "count" /\ request'[q].pc \in {"reject", "insert"}
             /\ request'[q].answer = request[q].answer /\ UNCHANGED <<row, pairLock>>
  BY <1>0, <1>7, CountMeans DEF Count, Becomes, At
<1>8. ASSUME NEW acknowledged \in BOOLEAN, Insert(q, acknowledged)
      PROVE  /\ request'[q].pc = "done"
             /\ \/ request'[q].answer = "ERROR"
                \/ request'[q].answer = "DUPLICATE" /\ Accepted(row[Form[q].id].status)
                \/ /\ request'[q].answer = "ACCEPTED"
                   /\ ~Accepted(row[Form[q].id].status) /\ row'[Form[q].id] = Submitted(q)
  BY <1>0, <1>8, InsertMeans DEF Becomes
<1>9. CASE Abort(q)
  <2>1. Becomes(q, "done", "NONE", 0, "ERROR")
    BY <1>0, <1>9, AnswerMeans DEF Abort, Answers
  <2> QED
    BY <2>1 DEF Becomes
<1> QED
  BY <1>2, <1>3, <1>4, <1>5, <1>6, <1>7, <1>8, <1>9 DEF Gate, Inside

LEMMA MoverOnPath ==
  ASSUME GateInv, NEW q \in Requests, Gate(q) \/ Abort(q)
  PROVE  Path(q)' /\ NotTaken(q)' /\ Told(q)'
<1>0. TypeOK /\ Path(q) /\ NotTaken(q) /\ Told(q) /\ Form[q].id \in Ids
  BY FormType DEF GateInv
<1>1. PairOf(q)' = PairOf(q) /\ Stable(Form[q].id)' = Stable(Form[q].id)
  BY DEF PairOf, Stable
<1>2. /\ row \in [Ids -> Row] /\ row' \in [Ids -> Row]
      /\ Final(Form[q].id)
  BY <1>0, RowsMean DEF TypeOK
<1>3. Path(q)'
  BY <1>0, <1>1, StepMeans DEF Path, Inside
<1>4. NotTaken(q)'
  BY <1>0, <1>1, StepMeans DEF NotTaken, Inside
<1>5. request'[q].answer # "NONE" => request'[q].pc = "done"
  BY <1>0, StepMeans DEF Told, Inside
<1>6. ASSUME request'[q].answer \in {"ACCEPTED", "DUPLICATE"}
      PROVE  Accepted(row'[Form[q].id].status)
  <2>1. \/ request'[q].answer = request[q].answer
        \/ Accepted(row[Form[q].id].status)
        \/ row'[Form[q].id] = Submitted(q)
    BY <1>6, StepMeans DEF Reasons, RejectionCodes, VerdictCodes
  <2>2. Submitted(q).status = "GATED"
    BY <1>0, SubmittedMeans
  <2> QED
    BY <1>0, <1>2, <1>6, <2>1, <2>2, FinalMeans DEF Told, Accepted
<1>7. ASSUME request'[q].answer = "ACCEPTED"
      PROVE  row'[Form[q].id].pair = PairOf(q) /\ row'[Form[q].id].media = Form[q].media
  <2>1. request'[q].answer = request[q].answer \/ row'[Form[q].id] = Submitted(q)
    BY <1>7, StepMeans DEF Reasons, RejectionCodes, VerdictCodes
  <2>2. CASE row'[Form[q].id] = Submitted(q)
    BY <1>0, <2>2, SubmittedMeans
  <2>3. CASE request[q].answer = "ACCEPTED"
    <3>1. Accepted(row[Form[q].id].status) /\ row[Form[q].id].pair = PairOf(q)
            /\ row[Form[q].id].media = Form[q].media
      BY <1>0, <2>3 DEF Told
    <3> QED
      BY <1>0, <1>2, <3>1, FinalMeans
  <2> QED
    BY <1>7, <2>1, <2>2, <2>3
<1>8. Told(q)'
  BY <1>1, <1>5, <1>6, <1>7 DEF Told
<1> QED
  BY <1>3, <1>4, <1>8

(* Whatever changes the rows only, or belongs to another request.          *)
LEMMA OthersOnPath ==
  ASSUME GateInv, row' \in [Ids -> Row], \A i \in Ids : Final(i),
         NEW u \in Requests, request'[u] = request[u],
         \A p \in Pairs : pairLock[p] = u => pairLock'[p] = u,
         NewlyAccepted(Form[u].id) => \E q \in Requests \ {u} :
           /\ Form[q].id = Form[u].id
           /\ request[q].pc = "insert"
  PROVE  Path(u)' /\ NotTaken(u)' /\ Told(u)'
<1>0. TypeOK /\ Path(u) /\ NotTaken(u) /\ Told(u) /\ Form[u].id \in Ids /\ PairOf(u) \in Pairs
  BY FormType DEF GateInv
<1>1. PairOf(u)' = PairOf(u) /\ Stable(Form[u].id)' = Stable(Form[u].id)
  BY DEF PairOf, Stable
<1>2. Path(u)'
  BY <1>0, <1>1 DEF Path, Inside
<1>3. NotTaken(u)'
  <2> SUFFICES ASSUME request[u].pc \in Inside \ {"dup"}, Stable(Form[u].id)
               PROVE  ~Accepted(row'[Form[u].id].status)
    BY <1>1 DEF NotTaken
  <2>1. ~Accepted(row[Form[u].id].status) /\ pairLock[PairOf(u)] = u
    BY <1>0 DEF NotTaken, Path
  <2>2. ASSUME NewlyAccepted(Form[u].id) PROVE FALSE
    <3>1. PICK q \in Requests \ {u} : Form[q].id = Form[u].id /\ request[q].pc = "insert"
      BY <2>2
    <3>2. pairLock[PairOf(q)] = q
      BY <3>1 DEF GateInv, Path, Inside
    <3>3. PairOf(q) = PairOf(u)
      BY <3>1 DEF Stable
    <3> QED
      BY <2>1, <3>2, <3>3
  <2> QED
    BY <2>1, <2>2 DEF NewlyAccepted
<1>4. Told(u)'
  <2>1. row[Form[u].id] \in Row /\ row'[Form[u].id] \in Row /\ Final(Form[u].id)
    BY <1>0 DEF TypeOK
  <2>2. Accepted(row[Form[u].id].status) =>
          /\ Accepted(row'[Form[u].id].status)
          /\ row'[Form[u].id].pair = row[Form[u].id].pair
          /\ row'[Form[u].id].media = row[Form[u].id].media
    BY <1>0, <2>1, FinalMeans
  <2> QED
    BY <1>0, <1>1, <2>2 DEF Told
<1> QED
  BY <1>2, <1>3, <1>4

LEMMA GateInvNext == GateInv /\ [Next]_vars => GateInv'
<1> SUFFICES ASSUME GateInv, [Next]_vars PROVE GateInv'
  OBVIOUS
<1>0. TypeOK /\ TypeOK' /\ \A i \in Ids : Final(i)
  BY TypeNext, FinalNext DEF GateInv
<1>1. row' \in [Ids -> Row]
  BY <1>0 DEF TypeOK
<1>2. ASSUME NEW q \in Requests, Gate(q) \/ Abort(q) PROVE GateInv'
  <2>1. \A i \in Ids : NewlyAccepted(i) => i = Form[q].id /\ request[q].pc = "insert"
    BY <1>0, <1>2, RowsMean
  <2>2. Quiet(q)
    BY <1>0, <1>2, GateQuiet
  <2>3. \A u \in Requests : Path(u)' /\ NotTaken(u)' /\ Told(u)'
    <3> SUFFICES ASSUME NEW u \in Requests \ {q} PROVE Path(u)' /\ NotTaken(u)' /\ Told(u)'
      BY <1>2, MoverOnPath
    <3>1. Form[u].id \in Ids
      BY FormType
    <3>2. NewlyAccepted(Form[u].id) => Form[q].id = Form[u].id /\ request[q].pc = "insert"
      BY <2>1, <3>1
    <3>3. /\ request'[u] = request[u]
          /\ \A p \in Pairs : pairLock[p] = u => pairLock'[p] = u
      BY <2>2 DEF Quiet
    <3> QED
      BY <1>0, <1>1, <3>2, <3>3, OthersOnPath
  <2>4. Claimed'
    <3>1. request[q].pc = "insert" => Form[q].rater # Form[q].target
      BY DEF GateInv, Path, Inside
    <3> QED
      BY <2>1, <3>1 DEF GateInv, Claimed, NewlyAccepted
  <2>5. AcceptedOnce'
    <3>1. \A u \in Requests \ {q} : request'[u] = request[u]
      BY <2>2 DEF Quiet
    <3>2. request'[q].answer = "ACCEPTED" =>
            request[q].answer = "ACCEPTED" \/ ~Accepted(row[Form[q].id].status)
      BY <1>2, StepMeans DEF Reasons, RejectionCodes, VerdictCodes
    <3>3. \A u \in Requests : request[u].answer = "ACCEPTED" => Accepted(row[Form[u].id].status)
      BY DEF GateInv, Told
    <3> QED
      BY <3>1, <3>2, <3>3 DEF GateInv, AcceptedOnce
  <2> QED
    BY <1>0, <2>3, <2>4, <2>5 DEF GateInv
<1>3. ASSUME UNCHANGED <<pairLock, request>>, \A i \in Ids : ~NewlyAccepted(i) PROVE GateInv'
  <2>1. \A u \in Requests : Path(u)' /\ NotTaken(u)' /\ Told(u)'
    <3> SUFFICES ASSUME NEW u \in Requests PROVE Path(u)' /\ NotTaken(u)' /\ Told(u)'
      OBVIOUS
    <3>1. Form[u].id \in Ids
      BY FormType
    <3> QED
      BY <1>0, <1>1, <1>3, <3>1, OthersOnPath
  <2>2. Claimed' /\ AcceptedOnce'
    BY <1>3 DEF GateInv, Claimed, AcceptedOnce, NewlyAccepted
  <2> QED
    BY <1>0, <2>1, <2>2 DEF GateInv
<1>4. CASE Tick \/ UNCHANGED vars
  <2>1. UNCHANGED <<row, pairLock, request>>
    BY <1>4 DEF Tick, vars
  <2> QED
    BY <1>3, <2>1 DEF NewlyAccepted
<1>5. ASSUME NEW j \in Ids, Process(j) PROVE GateInv'
  <2>1. UNCHANGED <<pairLock, request>>
    BY <1>5 DEF Process
  <2>2. \A i \in Ids : ~NewlyAccepted(i)
    BY <1>0, <1>5, ProcessMeans DEF NewlyAccepted
  <2> QED
    BY <1>3, <2>1, <2>2
<1> QED
  BY <1>2, <1>4, <1>5 DEF Next

LEMMA GateInvariant == Spec => []GateInv
BY GateInvInit, GateInvNext, PTL DEF Spec

(* H1: of all the submissions of an id at most one is told "accepted"      *)
(* (gate_and_store), however many race.                                    *)
THEOREM OneAcceptance == Spec => []AcceptedOnce
<1>1. GateInv => AcceptedOnce
  BY DEF GateInv
<1> QED
  BY <1>1, GateInvariant, PTL

(* Whoever is told "accepted" or "duplicate" (gate_and_store) is told of a *)
(* review that is, and stays, on file as accepted.                         *)
THEOREM TruthfulAcceptance == Spec => []AcceptanceIsTruthful
<1>1. GateInv => AcceptanceIsTruthful
  BY DEF GateInv, Told, AcceptanceIsTruthful
<1> QED
  BY <1>1, GateInvariant, PTL

(* What is on file of an accepted review is what the accepted submission   *)
(* carried (the upsert of gate_and_store), not what a rejected one did.    *)
THEOREM FiledAsSubmitted == Spec => []AcceptedAsSubmitted
<1>1. GateInv => AcceptedAsSubmitted
  BY DEF GateInv, Told, AcceptedAsSubmitted
<1> QED
  BY <1>1, GateInvariant, PTL

(* A rejection (gate_and_store) is never the answer for an id on file as   *)
(* accepted, as long as the pair is immutable for an id.                   *)
THEOREM TruthfulRejection == Spec => RejectionIsTruthful
<1> DEFINE A == \A q \in Requests :
                  /\ request[q].answer = "NONE"
                  /\ request'[q].answer \in RejectionCodes
                  /\ Stable(Form[q].id)
                  => ~Accepted(row'[Form[q].id].status)
<1>1. GateInv /\ [Next]_vars => [A]_vars
  <2> SUFFICES ASSUME GateInv, [Next]_vars, NEW u \in Requests, request[u].answer = "NONE",
                      request'[u].answer \in RejectionCodes, Stable(Form[u].id)
               PROVE  ~Accepted(row'[Form[u].id].status)
    OBVIOUS
  <2>0. TypeOK /\ Form[u].id \in Ids /\ "NONE" \notin RejectionCodes
    BY FormType DEF GateInv, RejectionCodes, VerdictCodes
  <2>1. CASE Tick \/ (\E i \in Ids : Process(i)) \/ UNCHANGED vars
    <3>1. request' = request
      BY <2>1 DEF Tick, Process, vars
    <3> QED
      BY <2>0, <3>1
  <2>2. ASSUME NEW q \in Requests, Gate(q) \/ Abort(q)
        PROVE  ~Accepted(row'[Form[u].id].status)
    <3>1. u = q
      BY <2>0, <2>2, GateQuiet DEF Quiet
    <3>2. request[u].pc \in {"self", "reject"}
      BY <2>0, <2>2, <3>1, StepMeans DEF RejectionCodes, VerdictCodes
    <3>3. ~Accepted(row[Form[u].id].status)
      <4>1. CASE request[u].pc = "reject"
        BY <4>1 DEF GateInv, NotTaken, Inside
      <4>2. CASE request[u].pc = "self"
        <5>1. Form[u].rater = Form[u].target
          BY <4>2 DEF GateInv, Path
        <5>2. \A s \in Requests : Form[s].id = Form[u].id => Form[s].rater = Form[s].target
          BY <5>1 DEF Stable, PairOf
        <5> QED
          BY <2>0, <5>2 DEF GateInv, Claimed
      <4> QED
        BY <3>2, <4>1, <4>2
    <3>4. ~NewlyAccepted(Form[u].id)
      BY <2>0, <2>2, <3>1, <3>2, RowsMean
    <3> QED
      BY <3>3, <3>4 DEF NewlyAccepted
  <2> QED
    BY <2>1, <2>2 DEF Next
<1> QED
  BY <1>1, GateInvariant, PTL DEF Spec, RejectionIsTruthful

(***************************************************************************)
(* The quota.  A request that has counted holds the lock of its pair, and  *)
(* while it does, what it counted can only shrink: rows of the pair grow   *)
(* old, and no other request can add one.                                  *)
(***************************************************************************)
AcceptedIds == {i \in Ids : Accepted(row[i].status)}

(* The reviews of a pair that are certainly inside the window.             *)
Young(pair) == Recent(pair, clock, Window - Skew)

Room(q) == request[q].pc = "insert" => Cardinality(Young(PairOf(q))) < RateLimit

QuotaInv == GateInv /\ IsFiniteSet(AcceptedIds) /\ WithinQuota /\ \A q \in Requests : Room(q)

LEMMA YoungIsFinite ==
  ASSUME IsFiniteSet(AcceptedIds), NEW pair
  PROVE  IsFiniteSet(Young(pair)) /\ Cardinality(Young(pair)) \in Nat
<1>1. Young(pair) \subseteq AcceptedIds
  BY DEF Young, Recent, AcceptedIds
<1> QED
  BY <1>1, FS_Subset, FS_CardinalityType

(* Whatever the application's clock shows, its window holds what is inside *)
(* the window less the skew by the database's clock.                       *)
LEMMA ReadingsCover ==
  ASSUME TypeOK, NEW now \in Readings, NEW pair
  PROVE  Young(pair) \subseteq Recent(pair, now, Window)
<1> SUFFICES ASSUME NEW i \in Young(pair) PROVE i \in Recent(pair, now, Window)
  OBVIOUS
<1>1. /\ i \in Ids /\ Accepted(row[i].status) /\ row[i].pair = pair
      /\ row[i].received + (Window - Skew) >= clock
  BY DEF Young, Recent
<1>2. row[i].received \in Nat /\ clock \in Nat
  BY <1>1 DEF TypeOK, Row
<1>3. Window \in Nat /\ Skew \in Nat /\ Skew <= Window /\ now \in Nat /\ now <= clock + Skew
  BY <1>2, GateBoundsAssumption DEF Readings
<1>4. row[i].received + Window >= now
  BY <1>1, <1>2, <1>3
<1> QED
  BY <1>1, <1>4 DEF Recent

(* Without a newly accepted row of the pair nothing becomes young.         *)
LEMMA YoungShrinks ==
  ASSUME TypeOK, TypeOK', clock' >= clock, \A i \in Ids : Final(i), NEW pair,
         NEW X, \A i \in Ids : NewlyAccepted(i) => row'[i].pair # pair \/ i \in X
  PROVE  Young(pair)' \subseteq Young(pair) \cup X
<1> SUFFICES ASSUME NEW i \in Ids, Accepted(row'[i].status), row'[i].pair = pair, i \notin X,
                    row'[i].received + (Window - Skew) >= clock'
             PROVE  i \in Young(pair)
  BY DEF Young, Recent
<1>1. row[i] \in Row /\ row'[i] \in Row /\ Final(i)
  BY DEF TypeOK
<1>2. Accepted(row[i].status)
  BY DEF NewlyAccepted
<1>3. row'[i].pair = row[i].pair /\ row'[i].received = row[i].received
  BY <1>1, <1>2, FinalMeans
<1>4. row[i].received \in Nat /\ clock \in Nat /\ clock' \in Nat /\ Window - Skew \in Nat
  BY <1>1, GateBoundsAssumption DEF TypeOK, Row
<1>5. row[i].received + (Window - Skew) >= clock
  BY <1>3, <1>4
<1> QED
  BY <1>2, <1>3, <1>5 DEF Young, Recent

LEMMA SmallerSet ==
  ASSUME NEW S, IsFiniteSet(S), NEW T, T \subseteq S
  PROVE  /\ IsFiniteSet(T) /\ Cardinality(T) <= Cardinality(S)
         /\ Cardinality(T) \in Nat /\ Cardinality(S) \in Nat
BY FS_Subset, FS_CardinalityType

LEMMA OneMore ==
  ASSUME NEW S, IsFiniteSet(S), NEW x, NEW T, T \subseteq S \cup {x}
  PROVE  /\ IsFiniteSet(T) /\ Cardinality(T) <= Cardinality(S) + 1
         /\ Cardinality(T) \in Nat /\ Cardinality(S) \in Nat
<1>1. /\ IsFiniteSet(S \cup {x}) /\ Cardinality(S) \in Nat
      /\ Cardinality(S \cup {x}) \in {Cardinality(S), Cardinality(S) + 1}
  BY FS_AddElement, FS_CardinalityType
<1>2. /\ IsFiniteSet(T) /\ Cardinality(T) <= Cardinality(S \cup {x})
      /\ Cardinality(T) \in Nat
  BY <1>1, SmallerSet
<1> QED
  BY <1>1, <1>2

(* Steps that accept no row. *)
LEMMA QuotaAtRest ==
  ASSUME QuotaInv, GateInv', clock' >= clock, \A i \in Ids : Final(i) /\ ~NewlyAccepted(i)
  PROVE  /\ IsFiniteSet(AcceptedIds)' /\ WithinQuota'
         /\ \A pair \in Pairs : /\ Cardinality(Young(pair))' <= Cardinality(Young(pair))
                                /\ Cardinality(Young(pair))' \in Nat
<1>0. TypeOK /\ TypeOK' /\ RateLimit \in Nat /\ IsFiniteSet(AcceptedIds)
  BY GateBoundsAssumption DEF QuotaInv, GateInv
<1>1. AcceptedIds' \subseteq AcceptedIds
  BY DEF AcceptedIds, NewlyAccepted
<1>2. IsFiniteSet(AcceptedIds)'
  BY <1>0, <1>1, SmallerSet
<1>3. ASSUME NEW pair \in Pairs
      PROVE  /\ Cardinality(Young(pair))' <= Cardinality(Young(pair))
             /\ Cardinality(Young(pair))' <= RateLimit
             /\ Cardinality(Young(pair))' \in Nat
  <2>1. Young(pair)' \subseteq Young(pair) \cup {}
    BY <1>0, YoungShrinks
  <2>2. IsFiniteSet(Young(pair)) /\ Cardinality(Young(pair)) <= RateLimit
    BY <1>0, YoungIsFinite DEF QuotaInv, WithinQuota, Young
  <2>3. Young(pair)' \subseteq Young(pair)
    BY <2>1
  <2>4. /\ Cardinality(Young(pair)') <= Cardinality(Young(pair))
        /\ Cardinality(Young(pair)') \in Nat /\ Cardinality(Young(pair)) \in Nat
    BY <2>2, <2>3, SmallerSet
  <2> QED
    BY <1>0, <2>2, <2>4
<1>4. WithinQuota'
  BY <1>3 DEF WithinQuota, Young
<1> QED
  BY <1>2, <1>3, <1>4

LEMMA RoomAtRest ==
  ASSUME QuotaInv, GateInv', NEW u \in Requests, request'[u] = request[u],
         Cardinality(Young(PairOf(u)))' <= Cardinality(Young(PairOf(u))),
         Cardinality(Young(PairOf(u)))' \in Nat
  PROVE  Room(u)'
<1>1. PairOf(u)' = PairOf(u)
  BY DEF PairOf
<1>2. Cardinality(Young(PairOf(u))) \in Nat
  BY YoungIsFinite DEF QuotaInv
<1> QED
  BY <1>1, <1>2, GateBoundsAssumption DEF QuotaInv, Room

(* A request is about to insert because it has just counted. *)
LEMMA StepCounts ==
  ASSUME TypeOK, NEW q \in Requests, Gate(q) \/ Abort(q), request'[q].pc = "insert"
  PROVE  request[q].pc = "count" /\ \E now \in 0 .. MaxTime + Skew : Count(q, now)
<1>1. ASSUME NEW ok \in BOOLEAN, RejectSelf(q, ok) PROVE FALSE
  <2>1. Becomes(q, "done", "NONE", 0, "SELF_REVIEW")
    BY <1>1, AnswerMeans DEF RejectSelf, Answers, RejectionCodes
  <2> QED
    BY <2>1 DEF Becomes
<1>2. CASE Validate(q)
  BY <1>2, ValidateMeans DEF Becomes
<1>3. CASE LockPair(q)
  BY <1>3, GoToMeans DEF LockPair, Becomes
<1>4. CASE CheckDuplicate(q)
  <2>1. \/ Answer(q, "DUPLICATE")
        \/ \E place \in {"count", "reject"} : GoTo(q, place)
    BY <1>4 DEF CheckDuplicate
  <2> QED
    BY <2>1, AnswerMeans, GoToMeans DEF Becomes, Answers
<1>5. ASSUME NEW ok \in BOOLEAN, Reject(q, ok) PROVE FALSE
  <2>1. request[q].reason \in Answers \cup {"NONE"}
    BY DEF TypeOK, Request, Answers
  <2>2. Becomes(q, "done", "NONE", 0, request[q].reason)
    BY <1>5, <2>1, AnswerMeans DEF Reject
  <2> QED
    BY <2>2 DEF Becomes
<1>6. ASSUME NEW now, Count(q, now) PROVE request[q].pc = "count"
  BY <1>6 DEF Count, At
<1>7. ASSUME NEW acknowledged \in BOOLEAN, Insert(q, acknowledged) PROVE FALSE
  BY <1>7, InsertMeans DEF Becomes
<1>8. CASE Abort(q)
  BY <1>8, AnswerMeans DEF Abort, Answers, Becomes
<1> QED
  BY <1>1, <1>2, <1>3, <1>4, <1>5, <1>6, <1>7, <1>8 DEF Gate

(* An insert is the last of it. *)
LEMMA StepInserts ==
  ASSUME GateInv, NEW q \in Requests, Gate(q) \/ Abort(q), request[q].pc = "insert"
  PROVE  request'[q].pc = "done"
BY StepMeans DEF Inside

LEMMA QuotaInvNext == QuotaInv /\ [Next]_vars => QuotaInv'
<1> SUFFICES ASSUME QuotaInv, [Next]_vars PROVE QuotaInv'
  OBVIOUS
<1>0. /\ GateInv /\ TypeOK /\ TypeOK' /\ GateInv' /\ \A i \in Ids : Final(i)
      /\ IsFiniteSet(AcceptedIds) /\ RateLimit \in Nat
  BY GateInvNext, TypeNext, FinalNext, GateBoundsAssumption DEF QuotaInv, GateInv
<1>1. ASSUME \A i \in Ids : ~NewlyAccepted(i), clock' >= clock,
             \A u \in Requests : \/ request'[u] = request[u] \/ request'[u].pc # "insert"
                                 \/ Cardinality(Young(PairOf(u))) < RateLimit
      PROVE  QuotaInv'
  <2>1. /\ IsFiniteSet(AcceptedIds)' /\ WithinQuota'
        /\ \A pair \in Pairs : /\ Cardinality(Young(pair))' <= Cardinality(Young(pair))
                               /\ Cardinality(Young(pair))' \in Nat
    BY <1>0, <1>1, QuotaAtRest
  <2>2. ASSUME NEW u \in Requests PROVE Room(u)'
    <3>1. PairOf(u) \in Pairs /\ PairOf(u)' = PairOf(u)
      BY FormType DEF PairOf
    <3>2. Cardinality(Young(PairOf(u))) \in Nat
      BY <1>0, YoungIsFinite
    <3>3. /\ Cardinality(Young(PairOf(u)))' <= Cardinality(Young(PairOf(u)))
          /\ Cardinality(Young(PairOf(u)))' \in Nat
      BY <2>1, <3>1
    <3>4. CASE request'[u] = request[u]
      BY <1>0, <3>3, <3>4, RoomAtRest
    <3>5. CASE request'[u].pc # "insert"
      BY <3>5 DEF Room
    <3>6. CASE Cardinality(Young(PairOf(u))) < RateLimit
      BY <1>0, <3>1, <3>2, <3>3, <3>6 DEF Room
    <3> QED
      BY <1>1, <3>4, <3>5, <3>6
  <2> QED
    BY <1>0, <2>1, <2>2 DEF QuotaInv
<1>2. CASE Tick \/ UNCHANGED vars
  <2>1. row' = row /\ request' = request /\ clock' >= clock
    BY <1>0, <1>2 DEF Tick, vars, TypeOK
  <2> QED
    BY <1>1, <2>1 DEF NewlyAccepted
<1>3. ASSUME NEW j \in Ids, Process(j) PROVE QuotaInv'
  <2>1. request' = request /\ clock' >= clock
    BY <1>0, <1>3 DEF Process, TypeOK
  <2>2. \A i \in Ids : ~NewlyAccepted(i)
    BY <1>0, <1>3, ProcessMeans DEF NewlyAccepted
  <2> QED
    BY <1>1, <2>1, <2>2
<1>4. ASSUME NEW q \in Requests, Gate(q) \/ Abort(q) PROVE QuotaInv'
  <2>0. /\ \A u \in Requests \ {q} : request'[u] = request[u]
        /\ clock' >= clock
    BY <1>0, <1>4, GateQuiet DEF Quiet, TypeOK
  <2>1. /\ \A i \in Ids : NewlyAccepted(i) => /\ i = Form[q].id /\ row'[i] = Submitted(q)
                                              /\ request[q].pc = "insert"
    BY <1>0, <1>4, RowsMean
  <2>2. CASE request[q].pc = "count"
    <3>1. \A i \in Ids : ~NewlyAccepted(i)
      BY <2>1, <2>2
    <3>2. CASE request'[q].pc # "insert"
      BY <1>1, <2>0, <3>1, <3>2
    <3>3. CASE request'[q].pc = "insert"
      <4>1. PICK now \in 0 .. MaxTime + Skew : Count(q, now)
        BY <1>0, <1>4, <2>2, <3>3, StepCounts
      <4>2. ~(Cardinality(Recent(PairOf(q), now, Window)) >= RateLimit) /\ now \in Readings
        BY <1>0, <3>3, <4>1, CountMeans DEF Count, Becomes
      <4>3. Recent(PairOf(q), now, Window) \subseteq AcceptedIds
        BY DEF Recent, AcceptedIds
      <4>4. IsFiniteSet(Recent(PairOf(q), now, Window))
              /\ Cardinality(Recent(PairOf(q), now, Window)) \in Nat
        BY <1>0, <4>3, SmallerSet
      <4>5. Young(PairOf(q)) \subseteq Recent(PairOf(q), now, Window)
        BY <1>0, <4>2, ReadingsCover
      <4>6. /\ Cardinality(Young(PairOf(q))) <= Cardinality(Recent(PairOf(q), now, Window))
            /\ Cardinality(Young(PairOf(q))) \in Nat
        BY <4>4, <4>5, SmallerSet
      <4>7. Cardinality(Young(PairOf(q))) < RateLimit
        BY <1>0, <4>2, <4>4, <4>6
      <4> QED
        BY <1>1, <2>0, <3>1, <4>7
    <3> QED
      BY <3>2, <3>3
  <2>3. CASE request[q].pc = "insert"
    <3>1. request'[q].pc = "done"
      BY <1>0, <1>4, <2>3, StepInserts
    <3>2. CASE \A i \in Ids : ~NewlyAccepted(i)
      BY <1>1, <2>0, <3>1, <3>2
    <3>3. CASE \E i \in Ids : NewlyAccepted(i)
      <4>1. AcceptedIds' \subseteq AcceptedIds \cup {Form[q].id}
        BY <2>1 DEF AcceptedIds, NewlyAccepted
      <4>2. IsFiniteSet(AcceptedIds')
        BY <1>0, <4>1, OneMore
      <4>3. ASSUME NEW pair \in Pairs
            PROVE  /\ Cardinality(Young(pair)') <= RateLimit
                   /\ pair # PairOf(q) => /\ Cardinality(Young(pair)') <= Cardinality(Young(pair))
                                          /\ Cardinality(Young(pair)') \in Nat
        <5>1. IsFiniteSet(Young(pair)) /\ Cardinality(Young(pair)) \in Nat
              /\ Cardinality(Young(pair)) <= RateLimit
          BY <1>0, YoungIsFinite DEF QuotaInv, WithinQuota, Young
        <5>2. CASE pair = PairOf(q)
          <6>1. Young(pair)' \subseteq Young(pair) \cup {Form[q].id}
            BY <1>0, <2>0, <2>1, YoungShrinks
          <6>2. /\ Cardinality(Young(pair)') <= Cardinality(Young(pair)) + 1
                /\ Cardinality(Young(pair)') \in Nat
            BY <5>1, <6>1, OneMore
          <6>3. Cardinality(Young(pair)) < RateLimit
            BY <2>3, <5>2 DEF QuotaInv, Room
          <6> QED
            BY <1>0, <5>1, <5>2, <6>2, <6>3
        <5>3. CASE pair # PairOf(q)
          <6>1. Submitted(q).pair = PairOf(q)
            BY <1>0, SubmittedMeans
          <6>2. Young(pair)' \subseteq Young(pair) \cup {}
            BY <1>0, <2>0, <2>1, <5>3, <6>1, YoungShrinks
          <6>3. Young(pair)' \subseteq Young(pair)
            BY <6>2
          <6>4. /\ Cardinality(Young(pair)') <= Cardinality(Young(pair))
                /\ Cardinality(Young(pair)') \in Nat
            BY <5>1, <6>3, SmallerSet
          <6> QED
            BY <1>0, <5>1, <6>4
        <5> QED
          BY <5>2, <5>3
      <4>4. WithinQuota'
        BY <4>3 DEF WithinQuota, Young
      <4>5. ASSUME NEW u \in Requests PROVE Room(u)'
        <5>1. CASE u = q
          BY <3>1, <5>1 DEF Room
        <5>2. CASE u # q /\ request[u].pc # "insert"
          BY <2>0, <5>2 DEF Room
        <5>3. CASE u # q /\ request[u].pc = "insert"
          <6>1. pairLock[PairOf(u)] = u /\ pairLock[PairOf(q)] = q
            BY <1>0, <2>3, <5>3 DEF GateInv, Path, Inside
          <6>2. PairOf(u) # PairOf(q) /\ PairOf(u) \in Pairs
            BY <5>3, <6>1, FormType
          <6>3. /\ Cardinality(Young(PairOf(u)))' <= Cardinality(Young(PairOf(u)))
                /\ Cardinality(Young(PairOf(u)))' \in Nat
            BY <4>3, <6>2
          <6> QED
            BY <1>0, <2>0, <5>3, <6>3, RoomAtRest
        <5> QED
          BY <5>1, <5>2, <5>3
      <4> QED
        BY <1>0, <4>2, <4>4, <4>5 DEF QuotaInv
    <3> QED
      BY <3>2, <3>3
  <2>4. CASE request[q].pc \notin {"count", "insert"}
    <3>1. \A i \in Ids : ~NewlyAccepted(i)
      BY <2>1, <2>4
    <3>2. request'[q].pc # "insert"
      BY <1>0, <1>4, <2>4, StepCounts
    <3> QED
      BY <1>1, <2>0, <3>1, <3>2
  <2> QED
    BY <2>2, <2>3, <2>4
<1> QED
  BY <1>2, <1>3, <1>4 DEF Next

LEMMA QuotaInvInit == Init => QuotaInv
<1> SUFFICES ASSUME Init PROVE QuotaInv
  OBVIOUS
<1>1. AcceptedIds = {}
  BY DEF Init, AcceptedIds, NoRow, Accepted
<1>2. ASSUME NEW pair PROVE Young(pair) = {}
  BY <1>1 DEF Young, Recent, AcceptedIds
<1>3. WithinQuota
  BY <1>2, FS_EmptySet, GateBoundsAssumption DEF WithinQuota, Young
<1>4. \A q \in Requests : Room(q)
  BY GateBoundsAssumption, <1>2, FS_EmptySet DEF Room
<1> QED
  BY <1>1, <1>3, <1>4, GateInvInit, FS_EmptySet DEF QuotaInv

(* C3: of one pair no more than RateLimit accepted reviews are ever inside *)
(* the window less the skew (the lock and the count of gate_and_store),    *)
(* however many submissions race and whichever of the clocks is ahead.     *)
THEOREM QuotaHolds == Spec => []WithinQuota
<1>1. QuotaInv => WithinQuota
  BY DEF QuotaInv
<1> QED
  BY <1>1, QuotaInvInit, QuotaInvNext, PTL DEF Spec

(***************************************************************************)
(* Refinement.  What a request has in its hands suffices for its answer to *)
(* be one of ReviewDesk's, from the book as it is when the answer is given.*)
(***************************************************************************)
OfPair(pair) == {i \in AcceptedIds : row[i].pair = pair}

DeskInHand(q) ==
  /\ request[q].started <= clock
  /\ request[q].pc \in {"lock", "dup"} => request[q].reason \in VerdictCodes \cup {"NONE"}
  /\ request[q].pc = "reject" =>
       /\ request[q].reason \in VerdictCodes \cup {"RATE_LIMITED"}
       /\ request[q].reason = "RATE_LIMITED" => Cardinality(OfPair(PairOf(q))) >= RateLimit

DeskInv == QuotaInv /\ \A q \in Requests : DeskInHand(q)

LEMMA OfPairGrows ==
  ASSUME TypeOK, TypeOK', IsFiniteSet(AcceptedIds), IsFiniteSet(AcceptedIds)',
         \A i \in Ids : Final(i), NEW pair
  PROVE  /\ Cardinality(OfPair(pair)) <= Cardinality(OfPair(pair)')
         /\ Cardinality(OfPair(pair)) \in Nat /\ Cardinality(OfPair(pair)') \in Nat
<1>1. OfPair(pair) \subseteq OfPair(pair)'
  <2> SUFFICES ASSUME NEW i \in OfPair(pair) PROVE i \in OfPair(pair)'
    OBVIOUS
  <2>1. i \in Ids /\ Accepted(row[i].status) /\ row[i].pair = pair
    BY DEF OfPair, AcceptedIds
  <2>2. row[i] \in Row /\ row'[i] \in Row /\ Final(i)
    BY <2>1 DEF TypeOK
  <2>3. Accepted(row'[i].status) /\ row'[i].pair = pair
    BY <2>1, <2>2, FinalMeans
  <2> QED
    BY <2>1, <2>3 DEF OfPair, AcceptedIds
<1>2. OfPair(pair)' \subseteq AcceptedIds' /\ OfPair(pair) \subseteq AcceptedIds
  BY DEF OfPair
<1>3. IsFiniteSet(OfPair(pair)')
  BY <1>2, SmallerSet
<1> QED
  BY <1>1, <1>3, SmallerSet

LEMMA DeskInHandMover ==
  ASSUME DeskInv, NEW q \in Requests, Gate(q) \/ Abort(q)
  PROVE  DeskInHand(q)'
<1>0. /\ TypeOK /\ IsFiniteSet(AcceptedIds) /\ DeskInHand(q) /\ clock \in Nat
      /\ RateLimit \in Nat /\ request[q].started \in Nat
  BY GateBoundsAssumption DEF DeskInv, QuotaInv, GateInv, TypeOK, Request
<1>a. PairOf(q)' = PairOf(q) /\ clock' = clock
  BY <1>0, GateQuiet DEF PairOf, Quiet
<1>1. ASSUME NEW code, Becomes(q, "done", "NONE", 0, code) PROVE DeskInHand(q)'
  BY <1>0, <1>a, <1>1 DEF DeskInHand, Becomes
<1>2. ASSUME NEW ok \in BOOLEAN, RejectSelf(q, ok) PROVE DeskInHand(q)'
  BY <1>0, <1>1, <1>2, AnswerMeans DEF RejectSelf, Answers, RejectionCodes
<1>3. CASE Validate(q)
  <2>1. PICK found \in [{Form[q].target, Form[q].rater} -> Standings], failsOpen \in BOOLEAN :
          request' = [request EXCEPT
            ![q].pc = "lock",
            ![q].started = clock,
            ![q].reason = IF failsOpen THEN "NONE"
                          ELSE VerdictOn(found, Form[q].target, Form[q].rater)]
    BY <1>3 DEF Validate
  <2> DEFINE reason == IF failsOpen THEN "NONE"
                       ELSE VerdictOn(found, Form[q].target, Form[q].rater)
  <2>2. reason \in VerdictCodes \cup {"NONE"}
    BY DEF VerdictOn, VerdictCodes
  <2> HIDE DEF reason
  <2>3. request[q] \in Request /\ request \in [Requests -> Request]
    BY <1>0 DEF TypeOK
  <2>4. /\ request'[q].pc = "lock" /\ request'[q].started = clock
        /\ request'[q].reason = reason
    BY <2>1, <2>3 DEF reason, Request
  <2> QED
    BY <1>0, <1>a, <2>2, <2>4 DEF DeskInHand
<1>4. CASE LockPair(q)
  <2>1. request[q].pc = "lock"
    BY <1>4 DEF LockPair, At
  <2>2. Becomes(q, "dup", request[q].reason, request[q].started, request[q].answer)
    BY <1>0, <1>4, GoToMeans DEF LockPair
  <2> QED
    BY <1>0, <1>a, <2>1, <2>2 DEF DeskInHand, Becomes
<1>5. CASE CheckDuplicate(q)
  <2>1. CASE Accepted(row[Form[q].id].status)
    BY <1>0, <1>1, <1>5, <2>1, AnswerMeans DEF CheckDuplicate, Answers
  <2>2. CASE ~Accepted(row[Form[q].id].status)
    <3>1. request[q].pc = "dup"
      BY <1>5 DEF CheckDuplicate, At
    <3>2. PICK place \in {"count", "reject"} :
            /\ GoTo(q, place)
            /\ place = IF request[q].reason = "NONE" THEN "count" ELSE "reject"
      BY <1>5, <2>2 DEF CheckDuplicate
    <3>3. Becomes(q, place, request[q].reason, request[q].started, request[q].answer)
      BY <1>0, <3>2, GoToMeans
    <3>4. "RATE_LIMITED" \notin VerdictCodes
      BY DEF VerdictCodes
    <3> QED
      BY <1>0, <1>a, <3>1, <3>2, <3>3, <3>4 DEF DeskInHand, Becomes
  <2> QED
    BY <2>1, <2>2
<1>6. ASSUME NEW ok \in BOOLEAN, Reject(q, ok) PROVE DeskInHand(q)'
  <2>1. request[q].reason \in Answers \cup {"NONE"}
    BY <1>0 DEF TypeOK, Request, Answers
  <2> QED
    BY <1>0, <1>1, <1>6, <2>1, AnswerMeans DEF Reject
<1>7. ASSUME NEW now, Count(q, now) PROVE DeskInHand(q)'
  <2>1. CASE Cardinality(Recent(PairOf(q), now, Window)) >= RateLimit
    <3>1. Becomes(q, "reject", "RATE_LIMITED", request[q].started, request[q].answer)
      BY <1>0, <1>7, <2>1, CountMeans
    <3>2. row' = row
      BY <1>7 DEF Count
    <3>3. Recent(PairOf(q), now, Window) \subseteq OfPair(PairOf(q))
          /\ OfPair(PairOf(q)) \subseteq AcceptedIds
      BY DEF Recent, OfPair, AcceptedIds
    <3>4. IsFiniteSet(OfPair(PairOf(q)))
      BY <1>0, <3>3, SmallerSet
    <3>5. /\ Cardinality(Recent(PairOf(q), now, Window)) <= Cardinality(OfPair(PairOf(q)))
          /\ Cardinality(Recent(PairOf(q), now, Window)) \in Nat
          /\ Cardinality(OfPair(PairOf(q))) \in Nat
      BY <3>3, <3>4, SmallerSet
    <3>6. Cardinality(OfPair(PairOf(q))) >= RateLimit
      BY <1>0, <2>1, <3>5
    <3>7. OfPair(PairOf(q))' = OfPair(PairOf(q))
      BY <1>a, <3>2 DEF OfPair, AcceptedIds
    <3> QED
      BY <1>0, <1>a, <3>1, <3>6, <3>7 DEF DeskInHand, Becomes
  <2>2. CASE ~(Cardinality(Recent(PairOf(q), now, Window)) >= RateLimit)
    <3>1. Becomes(q, "insert", request[q].reason, request[q].started, request[q].answer)
      BY <1>0, <1>7, <2>2, CountMeans
    <3> QED
      BY <1>0, <1>a, <3>1 DEF DeskInHand, Becomes
  <2> QED
    BY <2>1, <2>2
<1>8. ASSUME NEW acknowledged \in BOOLEAN, Insert(q, acknowledged) PROVE DeskInHand(q)'
  BY <1>0, <1>1, <1>8, InsertMeans
<1>9. CASE Abort(q)
  BY <1>0, <1>1, <1>9, AnswerMeans DEF Abort, Answers
<1> QED
  BY <1>2, <1>3, <1>4, <1>5, <1>6, <1>7, <1>8, <1>9 DEF Gate

LEMMA DeskInvNext == DeskInv /\ [Next]_vars => DeskInv'
<1> SUFFICES ASSUME DeskInv, [Next]_vars PROVE DeskInv'
  OBVIOUS
<1>0. /\ QuotaInv /\ QuotaInv' /\ TypeOK /\ TypeOK' /\ \A i \in Ids : Final(i)
      /\ IsFiniteSet(AcceptedIds) /\ IsFiniteSet(AcceptedIds)' /\ RateLimit \in Nat
  BY QuotaInvNext, TypeNext, FinalNext, GateBoundsAssumption DEF DeskInv, QuotaInv, GateInv
<1>1. ASSUME NEW u \in Requests, request'[u] = request[u], clock' >= clock
      PROVE  DeskInHand(u)'
  <2>1. PairOf(u)' = PairOf(u)
    BY DEF PairOf
  <2>2. /\ Cardinality(OfPair(PairOf(u))) <= Cardinality(OfPair(PairOf(u))')
        /\ Cardinality(OfPair(PairOf(u))) \in Nat /\ Cardinality(OfPair(PairOf(u))') \in Nat
    BY <1>0, <2>1, OfPairGrows
  <2>3. DeskInHand(u) /\ request[u].started \in Nat /\ clock \in Nat /\ clock' \in Nat
    BY <1>0 DEF DeskInv, TypeOK, Request
  <2> QED
    BY <1>0, <1>1, <2>1, <2>2, <2>3 DEF DeskInHand
<1>2. ASSUME NEW q \in Requests, Gate(q) \/ Abort(q) PROVE DeskInv'
  <2>1. clock' >= clock /\ \A u \in Requests \ {q} : request'[u] = request[u]
    BY <1>0, <1>2, GateQuiet DEF Quiet, TypeOK
  <2> QED
    BY <1>0, <1>1, <1>2, <2>1, DeskInHandMover DEF DeskInv
<1>3. CASE Tick \/ (\E i \in Ids : Process(i)) \/ UNCHANGED vars
  <2>1. clock' >= clock /\ request' = request
    BY <1>0, <1>3 DEF Tick, Process, vars, TypeOK
  <2> QED
    BY <1>0, <1>1, <2>1 DEF DeskInv
<1> QED
  BY <1>2, <1>3 DEF Next

LEMMA DeskInvInit == Init => DeskInv
<1> SUFFICES ASSUME Init, NEW q \in Requests PROVE DeskInHand(q)
  BY QuotaInvInit DEF DeskInv
<1>1. request[q].started = 0 /\ request[q].pc \in {"start", "self"} /\ clock = 0
  BY DEF Init, NewRequest, Idle
<1> QED
  BY <1>1 DEF DeskInHand

LEMMA BookMeans ==
  /\ DOMAIN Book = AcceptedIds
  /\ \A i \in AcceptedIds : Book[i] = OnFile(i)
  /\ \A i \in AcceptedIds : /\ Book[i].pair = row[i].pair
                            /\ Book[i].received = row[i].received
BY DEF Book, AcceptedIds, OnFile

(* The book changes only by what is newly accepted.                        *)
LEMMA EntryStays ==
  ASSUME TypeOK, TypeOK', NEW i \in AcceptedIds, Final(i)
  PROVE  i \in AcceptedIds' /\ OnFile(i)' = OnFile(i)
<1>1. i \in Ids /\ row[i] \in Row /\ row'[i] \in Row /\ Accepted(row[i].status)
  BY DEF TypeOK, AcceptedIds
<1> QED
  BY <1>1, FinalMeans DEF AcceptedIds, OnFile

LEMMA BookStays ==
  ASSUME TypeOK, TypeOK', \A i \in Ids : Final(i) /\ ~NewlyAccepted(i)
  PROVE  Book' = Book
<1>1. \A i \in AcceptedIds : i \in AcceptedIds' /\ OnFile(i)' = OnFile(i)
  BY EntryStays DEF AcceptedIds
<1>2. AcceptedIds' \subseteq AcceptedIds
  BY DEF AcceptedIds, NewlyAccepted
<1> QED
  BY <1>1, <1>2 DEF Book, AcceptedIds

LEMMA BookGrows ==
  ASSUME TypeOK, TypeOK', \A i \in Ids : Final(i), NEW n \in Ids, ~Accepted(row[n].status),
         Accepted(row'[n].status), \A i \in Ids \ {n} : ~NewlyAccepted(i)
  PROVE  Book' = [i \in DOMAIN Book \cup {n} |-> IF i = n THEN OnFile(n)' ELSE Book[i]]
<1>1. AcceptedIds' = AcceptedIds \cup {n} /\ n \notin AcceptedIds
  BY EntryStays DEF AcceptedIds, NewlyAccepted
<1>2. \A i \in AcceptedIds : OnFile(i)' = OnFile(i)
  BY EntryStays DEF AcceptedIds
<1>3. Book' = [i \in AcceptedIds' |-> OnFile(i)']
  BY DEF Book, AcceptedIds
<1>4. \A i \in AcceptedIds' : OnFile(i)' = IF i = n THEN OnFile(n)' ELSE Book[i]
  BY <1>1, <1>2, BookMeans
<1> QED
  BY <1>1, <1>3, <1>4, BookMeans

(* A request that goes on leaves its answer open; one that is answered is  *)
(* answered for the first time.                                            *)
LEMMA ResponseStays ==
  ASSUME NEW q \in Requests, NEW pc, NEW reason, NEW started,
         Becomes(q, pc, reason, started, request[q].answer)
  PROVE  Response' = Response
BY DEF Becomes, Response

(* The desk counts as the gate does.                                       *)
LEMMA DeskCounts ==
  ASSUME NEW S
  PROVE  Desk!Cardinality(S) = Cardinality(S)
BY DEF Desk!Cardinality, Cardinality

LEMMA ResponseTells ==
  ASSUME GateInv, NEW q \in Requests, request[q].pc # "done", NEW code \in Answers,
         Becomes(q, "done", "NONE", 0, code), clock' = clock
  PROVE  Desk!Tell(q, code) /\ q \in {u \in Requests : Response'[u] # Response[u]}
<1>1. request[q].answer = "NONE" /\ request'[q].answer = code /\ code # "NONE"
  BY DEF GateInv, Told, Becomes, Answers, RejectionCodes, VerdictCodes
<1>2. Response[q] = "NONE" /\ Response'[q] = code
  BY <1>1 DEF Response
<1>3. Response' = [Response EXCEPT ![q] = code]
  BY <1>1 DEF Response, Becomes
<1> QED
  BY <1>1, <1>2, <1>3 DEF Desk!Tell

LEMMA DeskRefuses ==
  ASSUME DeskInv, TypeOK', NEW q \in Requests, Gate(q), request[q].pc \in {"self", "reject"},
         NEW code \in RejectionCodes, Becomes(q, "done", "NONE", 0, code),
         request[q].pc = "self" => code = "SELF_REVIEW",
         request[q].pc = "reject" => code = request[q].reason
  PROVE  Desk!Next
<1>0. /\ GateInv /\ TypeOK /\ DeskInHand(q) /\ Path(q) /\ NotTaken(q) /\ Claimed
      /\ code \in Answers /\ request[q].pc # "done" /\ clock' = clock
  BY GateQuiet DEF DeskInv, QuotaInv, GateInv, Answers, Quiet
<1>1. Book' = Book
  BY <1>0, RowsMean, BookStays
<1>2. Desk!Tell(q, code) /\ q \in {u \in Requests : Response'[u] # Response[u]}
  BY <1>0, ResponseTells
<1>3. Desk!Stable(q) => Form[q].id \notin DOMAIN Book
  <2> SUFFICES ASSUME Stable(Form[q].id) PROVE ~Accepted(row[Form[q].id].status)
    BY BookMeans DEF Desk!Stable, Stable, Desk!PairOf, PairOf, AcceptedIds
  <2>1. CASE request[q].pc = "reject"
    BY <1>0, <2>1 DEF NotTaken, Inside
  <2>2. CASE request[q].pc = "self"
    <3>1. Form[q].rater = Form[q].target
      BY <1>0, <2>2 DEF Path
    <3>2. \A s \in Requests : Form[s].id = Form[q].id => Form[s].rater = Form[s].target
      BY <3>1 DEF Stable, PairOf
    <3> QED
      BY <1>0, <3>2, FormType DEF Claimed
  <2> QED
    BY <2>1, <2>2
<1>4. code = "SELF_REVIEW" <=> Desk!OfOneself(q)
  BY <1>0 DEF Path, Inside, DeskInHand, VerdictCodes, Desk!OfOneself
<1>5. code = "RATE_LIMITED" => Cardinality(Desk!OfPair(Desk!PairOf(q))) >= RateLimit
  <2>1. Desk!OfPair(Desk!PairOf(q)) = OfPair(PairOf(q))
    BY BookMeans DEF Desk!OfPair, Desk!PairOf, PairOf, OfPair
  <2> QED
    BY <1>0, <2>1 DEF DeskInHand
<1>6. Desk!Refuse(q, code)
  BY <1>1, <1>3, <1>4, <1>5, DeskCounts DEF Desk!Refuse
<1> QED
  BY <1>2, <1>6 DEF Desk!Next

LEMMA DeskInserts ==
  ASSUME DeskInv, TypeOK', NEW q \in Requests, NEW acknowledged \in BOOLEAN,
         Insert(q, acknowledged)
  PROVE  Desk!Next
<1>0. /\ GateInv /\ TypeOK /\ DeskInHand(q) /\ Path(q) /\ Room(q) /\ Form[q].id \in Ids
      /\ request[q].pc = "insert" /\ clock' = clock /\ clock \in Nat
      /\ request[q].started \in Nat
  BY FormType DEF DeskInv, QuotaInv, GateInv, Insert, At, TypeOK, Request
<1>1. Gate(q)
  BY DEF Gate
<1>2. \A i \in Ids : Final(i) /\ (NewlyAccepted(i) => i = Form[q].id)
  BY <1>0, <1>1, RowsMean
<1>3. PICK code \in {"ACCEPTED", "DUPLICATE", "ERROR"} :
        /\ Becomes(q, "done", "NONE", 0, code)
        /\ code = "ACCEPTED" => ~Accepted(row[Form[q].id].status)
        /\ code = "DUPLICATE" => Accepted(row[Form[q].id].status)
  BY <1>0, InsertMeans
<1>4. Desk!Tell(q, code) /\ q \in {u \in Requests : Response'[u] # Response[u]}
  BY <1>0, <1>3, ResponseTells DEF Answers
<1>5. CASE Accepted(row[Form[q].id].status)
  <2>1. Book' = Book
    BY <1>0, <1>2, <1>5, BookStays DEF NewlyAccepted
  <2>2. Form[q].id \in DOMAIN Book
    BY <1>0, <1>5, BookMeans DEF AcceptedIds
  <2> QED
    BY <1>3, <1>4, <1>5, <2>1, <2>2 DEF Desk!Repeat, Desk!Next
<1>6. CASE ~Accepted(row[Form[q].id].status)
  <2> DEFINE n == Form[q].id
  <2>1. row'[n] = Submitted(q) /\ Accepted(Submitted(q).status)
    BY <1>0, <1>6, InsertMeans, SubmittedMeans DEF Accepted
  <2>2. OnFile(n)' = [pair |-> PairOf(q), media |-> Form[q].media,
                      received |-> request[q].started]
    <3>1. Submitted(q).received = request[q].started
      BY DEF Submitted, NoRow
    <3> QED
      BY <1>0, <2>1, <3>1, SubmittedMeans DEF OnFile
  <2>3. Book' = [i \in DOMAIN Book \cup {n} |-> IF i = n THEN OnFile(n)' ELSE Book[i]]
    BY <1>0, <1>2, <1>6, <2>1, BookGrows
  <2>4. n \notin DOMAIN Book /\ ~Desk!OfOneself(q)
    BY <1>0, <1>6, BookMeans DEF AcceptedIds, Path, Inside, Desk!OfOneself
  <2>5. Cardinality(Desk!Young(Desk!PairOf(q))) < RateLimit
    <3>1. Desk!Young(Desk!PairOf(q)) = Young(PairOf(q))
      BY BookMeans DEF Desk!Young, Desk!OfPair, Desk!PairOf, PairOf, Young, Recent, AcceptedIds
    <3> QED
      BY <1>0, <3>1 DEF Room
  <2>6. request[q].started \in 0 .. clock
    BY <1>0 DEF DeskInHand
  <2>7. Desk!Accept(q)
    <3>1. Book' = [i \in DOMAIN Book \cup {Form[q].id} |->
                     IF i = Form[q].id
                     THEN [pair |-> Desk!PairOf(q), media |-> Form[q].media,
                           received |-> request[q].started]
                     ELSE Book[i]]
      BY <2>2, <2>3 DEF Desk!PairOf, PairOf
    <3> HIDE DEF Book
    <3> QED
      BY <2>4, <2>5, <2>6, <3>1, DeskCounts DEF Desk!Accept
  <2> QED
    BY <1>3, <1>4, <1>6, <2>7 DEF Desk!Next
<1> QED
  BY <1>5, <1>6

LEMMA DeskStep ==
  ASSUME DeskInv, TypeOK', NEW q \in Requests, Gate(q) \/ Abort(q)
  PROVE  [Desk!Next]_(Desk!vars)
<1>0. GateInv /\ TypeOK /\ DeskInHand(q) /\ clock' = clock
  BY GateQuiet DEF DeskInv, QuotaInv, GateInv, Quiet
<1>a. request[q].pc # "insert" => Book' = Book
  BY <1>0, RowsMean, BookStays
<1>1. ASSUME NEW pc, NEW reason, NEW started, request[q].pc # "insert",
             Becomes(q, pc, reason, started, request[q].answer)
      PROVE  UNCHANGED Desk!vars
  BY <1>0, <1>a, <1>1, ResponseStays DEF Desk!vars
<1>2. ASSUME NEW ok \in BOOLEAN, RejectSelf(q, ok) PROVE Desk!Next
  <2>1. Becomes(q, "done", "NONE", 0, "SELF_REVIEW")
    BY <1>0, <1>2, AnswerMeans DEF RejectSelf, Answers, RejectionCodes
  <2>2. request[q].pc = "self" /\ Gate(q)
    BY <1>2 DEF RejectSelf, At, Gate
  <2> QED
    BY <2>1, <2>2, DeskRefuses DEF RejectionCodes
<1>3. CASE Validate(q)
  BY <1>0, <1>1, <1>3, ValidateMeans DEF Validate, At
<1>4. CASE LockPair(q)
  BY <1>0, <1>1, <1>4, GoToMeans DEF LockPair, At
<1>5. CASE CheckDuplicate(q)
  <2>0. request[q].pc = "dup"
    BY <1>5 DEF CheckDuplicate, At
  <2>1. CASE Accepted(row[Form[q].id].status)
    <3>1. Becomes(q, "done", "NONE", 0, "DUPLICATE")
      BY <1>0, <1>5, <2>1, AnswerMeans DEF CheckDuplicate, Answers
    <3>2. Desk!Tell(q, "DUPLICATE") /\ q \in {u \in Requests : Response'[u] # Response[u]}
      BY <1>0, <2>0, <3>1, ResponseTells DEF Answers
    <3>3. Form[q].id \in DOMAIN Book /\ Book' = Book
      BY <1>a, <2>0, <2>1, BookMeans, FormType DEF AcceptedIds
    <3> QED
      BY <3>2, <3>3 DEF Desk!Repeat, Desk!Next
  <2>2. CASE ~Accepted(row[Form[q].id].status)
    <3>1. PICK place \in {"count", "reject"} : GoTo(q, place)
      BY <1>5, <2>2 DEF CheckDuplicate
    <3> QED
      BY <1>0, <1>1, <2>0, <3>1, GoToMeans
  <2> QED
    BY <2>1, <2>2
<1>6. ASSUME NEW ok \in BOOLEAN, Reject(q, ok) PROVE Desk!Next
  <2>1. request[q].pc = "reject" /\ Gate(q)
    BY <1>6 DEF Reject, At, Gate
  <2>2. request[q].reason \in RejectionCodes
    BY <1>0, <2>1 DEF DeskInHand, RejectionCodes
  <2>3. Becomes(q, "done", "NONE", 0, request[q].reason)
    BY <1>0, <1>6, <2>2, AnswerMeans DEF Reject, Answers
  <2> QED
    BY <2>1, <2>2, <2>3, DeskRefuses
<1>7. ASSUME NEW now, Count(q, now) PROVE UNCHANGED Desk!vars
  BY <1>0, <1>1, <1>7, CountMeans DEF Count, At
<1>8. ASSUME NEW acknowledged \in BOOLEAN, Insert(q, acknowledged) PROVE Desk!Next
  BY <1>8, DeskInserts
<1>9. CASE Abort(q)
  <2>1. Becomes(q, "done", "NONE", 0, "ERROR") /\ request[q].pc # "done"
    BY <1>0, <1>9, AnswerMeans DEF Abort, Answers
  <2>2. Desk!Tell(q, "ERROR") /\ q \in {u \in Requests : Response'[u] # Response[u]}
    BY <1>0, <2>1, ResponseTells DEF Answers
  <2>3. Book' = Book
    BY <1>9 DEF Abort, Book, OnFile
  <2> QED
    BY <2>2, <2>3 DEF Desk!Next
<1> QED
  BY <1>2, <1>3, <1>4, <1>5, <1>6, <1>7, <1>8, <1>9 DEF Gate

(* gate_and_store answers like a clerk who takes one submission after the  *)
(* other: whatever races, fails or is lost between its statements, each    *)
(* answer is right for the book of accepted reviews at that moment.        *)
THEOREM GateIsADesk == Spec => ImplementsDesk
<1>1. Init => Desk!Init
  <2> SUFFICES ASSUME Init PROVE Desk!Init
    OBVIOUS
  <2>1. Book = [i \in {} |-> {}]
    <3>1. {i \in Ids : Accepted(row[i].status)} = {}
      BY DEF Init, NoRow, Accepted
    <3> QED
      BY <3>1 DEF Book
  <2>2. Response = [q \in Requests |-> "NONE"]
    BY DEF Init, NewRequest, Idle, Response
  <2> QED
    BY <2>1, <2>2 DEF Init, Desk!Init
<1>2. DeskInv /\ [Next]_vars => [Desk!Next]_(Desk!vars)
  <2> SUFFICES ASSUME DeskInv, [Next]_vars PROVE [Desk!Next]_(Desk!vars)
    OBVIOUS
  <2>0. TypeOK /\ TypeOK' /\ \A i \in Ids : Final(i)
    BY TypeNext, FinalNext DEF DeskInv, QuotaInv, GateInv
  <2>1. CASE Tick
    <3>1. UNCHANGED <<row, request>> /\ clock' = clock + 1
      BY <2>1 DEF Tick
    <3>2. UNCHANGED <<Book, Response>>
      BY <3>1 DEF Book, OnFile, Response
    <3> QED
      BY <3>1, <3>2 DEF Desk!Tick, Desk!Next
  <2>2. ASSUME NEW j \in Ids, Process(j) PROVE UNCHANGED Desk!vars
    <3>1. Book' = Book
      BY <2>0, <2>2, ProcessMeans, BookStays DEF NewlyAccepted
    <3> QED
      BY <2>2, <3>1 DEF Process, Response, Desk!vars
  <2>3. CASE UNCHANGED vars
    BY <2>3 DEF vars, Desk!vars, Book, OnFile, Response
  <2> QED
    BY <2>0, <2>1, <2>2, <2>3, DeskStep DEF Next
<1> QED
  BY <1>1, <1>2, DeskInvInit, DeskInvNext, PTL DEF Spec, ImplementsDesk, Desk!Spec
=============================================================================
