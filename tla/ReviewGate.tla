------------------------------ MODULE ReviewGate ------------------------------
(***************************************************************************)
(* The gate (app/gate.py): concurrent submissions of reviews, each a task  *)
(* running gate_and_store.  A step is one statement or one await; the last *)
(* statement of a transaction is merged with its COMMIT, before which no   *)
(* other transaction sees it and a writer of the same id waits for it.     *)
(* Onboard's profile table and the batches belong to the environment.      *)
(***************************************************************************)
EXTENDS Naturals, FiniteSets

CONSTANTS
  Requests,    \* the submissions of a behaviour
  Ids,         \* review ids
  Profiles,
  Form,        \* what each request submits
  RateLimit,   \* settings.rate_limit_per_rater_per_target
  Window,      \* 24 hours
  Skew,        \* how far the application's clock may be from the database's
  MaxTime,     \* bound on the clock
  MaxFaults,   \* bound on failing statements and dying requests
  Standings,   \* what Onboard may say of a profile
  NULL

ASSUME FormAssumption ==
  Form \in [Requests -> [id : Ids, rater : Profiles, target : Profiles, media : BOOLEAN]]
ASSUME GateNullAssumption == NULL \notin Requests
ASSUME StandingsAssumption == Standings \subseteq {"ACTIVE", "INACTIVE", "ABSENT"}
ASSUME GateBoundsAssumption ==
  /\ RateLimit \in Nat \ {0}
  /\ Window \in Nat \ {0}
  /\ Skew \in 0 .. Window
  /\ MaxTime \in Nat
  /\ MaxFaults \in Nat

VARIABLES
  row,       \* the review table
  clock,     \* the time of the database
  pairLock,  \* holders of the advisory locks, one per (rater, target)
  request,   \* local state of the submissions
  faults     \* number of faults so far

vars == <<row, clock, pairLock, request, faults>>

Pairs == Profiles \X Profiles
PairOf(q) == <<Form[q].rater, Form[q].target>>

VerdictCodes == {"TARGET_NOT_FOUND", "TARGET_INACTIVE", "RATER_NOT_FOUND", "RATER_INACTIVE"}
RejectionCodes == VerdictCodes \cup {"SELF_REVIEW", "RATE_LIMITED"}
Answers == RejectionCodes \cup {"ACCEPTED", "DUPLICATE", "ERROR"}

(* The gate does not tell PROCESSING, COMMITTED and FAILED apart: BATCHED. *)
Statuses == {"NONE", "GATE_REJECTED", "GATED", "BATCHED"}

(* pair: rater_profile_id and target_profile_id; media: multimedia_json is *)
(* not NULL; reason: gate_reason; received: received_at.                   *)
Row == [status : Statuses, pair : Pairs \cup {NULL}, media : BOOLEAN,
        reason : RejectionCodes \cup {"NONE"}, received : Nat]

NoRow == [status |-> "NONE", pair |-> NULL, media |-> FALSE, reason |-> "NONE",
          received |-> 0]

(* started: NOW(), the time of BEGIN; reason: the code to persist; answer: *)
(* the error_code of the GateResult, "ERROR" for a response of 500.        *)
Request == [pc : {"self", "start", "lock", "dup", "reject", "count", "insert", "done"},
            reason : RejectionCodes \cup {"NONE"}, started : Nat,
            answer : Answers \cup {"NONE"}]

Idle == [pc |-> "start", reason |-> "NONE", started |-> 0, answer |-> "NONE"]

(* Bug: nobody looks whether a review is of oneself. *)
NewRequestUnchecked(q) == Idle

(* A self review never gets as far as the transaction. *)
NewRequest(q) == [Idle EXCEPT !.pc = IF Form[q].rater = Form[q].target THEN "self" ELSE "start"]

Accepted(st) == st \in {"GATED", "BATCHED"}

Init ==
  /\ row = [i \in Ids |-> NoRow]
  /\ clock = 0
  /\ pairLock = [p \in Pairs |-> NULL]
  /\ request = [q \in Requests |-> NewRequest(q)]
  /\ faults = 0

At(q, place) == request[q].pc = place
GoTo(q, place) == request' = [request EXCEPT ![q].pc = place]

Answer(q, code) == request' = [request EXCEPT ![q] = [Idle EXCEPT !.pc = "done", !.answer = code]]

(* The transaction ends and its advisory lock with it. *)
Release(q) == pairLock' = [p \in Pairs |-> IF pairLock[p] = q THEN NULL ELSE pairLock[p]]

Fault == faults < MaxFaults /\ faults' = faults + 1

(***************************************************************************)
(* The environment: time passes, and batches take accepted reviews, which  *)
(* they may also give back (run_batch and _handle_failed_reviews do no     *)
(* more, and less often).                                                  *)
(***************************************************************************)
Tick ==
  /\ clock < MaxTime
  /\ clock' = clock + 1
  /\ UNCHANGED <<row, pairLock, request, faults>>

Process(i) ==
  /\ Accepted(row[i].status)
  /\ row' = [row EXCEPT ![i].status = IF @ = "GATED" THEN "BATCHED" ELSE "GATED"]
  /\ UNCHANGED <<clock, pairLock, request, faults>>

(***************************************************************************)
(* gate_and_store.                                                         *)
(***************************************************************************)
(* Bug: the conflicting row is overwritten whatever its status. *)
PersistUnguarded(q, reason, now) ==
  row' = [row EXCEPT ![Form[q].id] = [NoRow EXCEPT
    !.status = "GATE_REJECTED", !.pair = PairOf(q), !.reason = reason, !.received = now]]

(* _persist_rejected: INSERT ... ON CONFLICT (id) DO UPDATE ... WHERE      *)
(* review.status = 'GATE_REJECTED'.  An existing row keeps its columns.    *)
PersistRejected(q, reason, now) ==
  LET i == Form[q].id
  IN  CASE row[i].status = "NONE" ->
             row' = [row EXCEPT ![i] = [NoRow EXCEPT
               !.status = "GATE_REJECTED", !.pair = PairOf(q), !.reason = reason,
               !.received = now]]
        [] row[i].status = "GATE_REJECTED" ->
             row' = [row EXCEPT ![i].reason = reason, ![i].received = now]
        [] Accepted(row[i].status) -> UNCHANGED row

(* On a connection of its own; an exception is swallowed. *)
RejectSelf(q, ok) ==
  /\ At(q, "self")
  /\ IF ok THEN PersistRejected(q, "SELF_REVIEW", clock) /\ UNCHANGED faults
     ELSE Fault /\ UNCHANGED row
  /\ Answer(q, "SELF_REVIEW")
  /\ UNCHANGED <<clock, pairLock>>

(* Bug: a code that no caller knows. *)
VerdictUnknown(found, target, rater) ==
  IF found[target] = "ABSENT" THEN "PROFILE_NOT_FOUND" ELSE "NONE"

(* The checks of _validate_profiles, in their order. *)
VerdictOn(found, target, rater) ==
  CASE found[target] = "ABSENT" -> "TARGET_NOT_FOUND"
    [] found[target] = "INACTIVE" -> "TARGET_INACTIVE"
    [] found[target] = "ACTIVE" /\ found[rater] = "ABSENT" -> "RATER_NOT_FOUND"
    [] found[target] = "ACTIVE" /\ found[rater] = "INACTIVE" -> "RATER_INACTIVE"
    [] OTHER -> "NONE"

(* The lookup finds what Onboard says at that moment; without an Onboard   *)
(* pool, on an error and on a timeout the gate fails open.  The verdict is *)
(* kept while Onboard may change its mind, and the transaction begins.     *)
Validate(q) ==
  /\ At(q, "start")
  /\ \E found \in [{Form[q].target, Form[q].rater} -> Standings], failsOpen \in BOOLEAN :
       request' = [request EXCEPT
         ![q].pc = "lock",
         ![q].started = clock,
         ![q].reason = IF failsOpen THEN "NONE"
                       ELSE VerdictOn(found, Form[q].target, Form[q].rater)]
  /\ UNCHANGED <<row, clock, pairLock, faults>>

(* Bug: the lock does not exclude. *)
LockShared(q) ==
  /\ At(q, "lock")
  /\ pairLock' = [pairLock EXCEPT ![PairOf(q)] = q]
  /\ GoTo(q, "dup")
  /\ UNCHANGED <<row, clock, faults>>

LockPair(q) ==
  /\ At(q, "lock")
  /\ pairLock[PairOf(q)] = NULL
  /\ pairLock' = [pairLock EXCEPT ![PairOf(q)] = q]
  /\ GoTo(q, "dup")
  /\ UNCHANGED <<row, clock, faults>>

(* Bug: the verdict is applied before the duplicate check. *)
VerdictFirst(q) ==
  /\ At(q, "dup")
  /\ IF request[q].reason # "NONE"
     THEN GoTo(q, "reject") /\ UNCHANGED pairLock
     ELSE IF Accepted(row[Form[q].id].status)
     THEN Answer(q, "DUPLICATE") /\ Release(q)
     ELSE GoTo(q, "count") /\ UNCHANGED pairLock
  /\ UNCHANGED <<row, clock, faults>>

(* An accepted id is a duplicate; otherwise the verdict is applied. *)
CheckDuplicate(q) ==
  /\ At(q, "dup")
  /\ IF Accepted(row[Form[q].id].status)
     THEN Answer(q, "DUPLICATE") /\ Release(q)
     ELSE /\ GoTo(q, IF request[q].reason = "NONE" THEN "count" ELSE "reject")
          /\ UNCHANGED pairLock
  /\ UNCHANGED <<row, clock, faults>>

(* Persist the rejection inside the transaction and commit.  A failing     *)
(* statement is swallowed too, but its transaction is aborted: the COMMIT  *)
(* that follows rolls back and the same answer is given.                   *)
Reject(q, ok) ==
  /\ At(q, "reject")
  /\ IF ok THEN PersistRejected(q, request[q].reason, request[q].started) /\ UNCHANGED faults
     ELSE Fault /\ UNCHANGED row
  /\ Answer(q, request[q].reason)
  /\ Release(q)
  /\ UNCHANGED clock

(* The accepted rows of the pair that at time now are at most span old. *)
Recent(pair, now, span) ==
  {i \in Ids : Accepted(row[i].status) /\ row[i].pair = pair /\ row[i].received + span >= now}

(* What the application's clock may show; before 0 as much as at 0. *)
Readings == {now \in 0 .. clock + Skew : now + Skew >= clock}

(* received_at is of the database, the window of the application's clock. *)
Count(q, now) ==
  /\ At(q, "count")
  /\ now \in Readings
  /\ IF Cardinality(Recent(PairOf(q), now, Window)) >= RateLimit
     THEN request' = [request EXCEPT ![q].pc = "reject", ![q].reason = "RATE_LIMITED"]
     ELSE GoTo(q, "insert")
  /\ UNCHANGED <<row, clock, pairLock, faults>>

(* A new row and the upgrade of a rejected one take the columns of the     *)
(* request; gate_reason becomes NULL and received_at NOW().                *)
Submitted(q) == [NoRow EXCEPT !.status = "GATED", !.pair = PairOf(q),
                              !.media = Form[q].media, !.received = request[q].started]

(* Bug: the upgrade leaves one column as the rejection wrote it. *)
UpgradedPartly(q) == [Submitted(q) EXCEPT !.media = row[Form[q].id].media]

Upgraded(q) == Submitted(q)

(* Bug: the conflicting row is overwritten whatever its status. *)
InsertUnguarded(q, acknowledged) ==
  /\ At(q, "insert")
  /\ IF acknowledged THEN UNCHANGED faults ELSE Fault
  /\ row' = [row EXCEPT ![Form[q].id] =
              IF row[Form[q].id].status = "NONE" THEN Submitted(q) ELSE Upgraded(q)]
  /\ Answer(q, IF acknowledged THEN "ACCEPTED" ELSE "ERROR")
  /\ Release(q)
  /\ UNCHANGED clock

(* INSERT ... ON CONFLICT (id) DO UPDATE ... WHERE review.status =         *)
(* 'GATE_REJECTED', and COMMIT.  No row affected means a lost race.        *)
Insert(q, acknowledged) ==
  /\ At(q, "insert")
  /\ IF acknowledged THEN UNCHANGED faults ELSE Fault
  /\ LET i == Form[q].id IN
       /\ row' = CASE row[i].status = "NONE" -> [row EXCEPT ![i] = Submitted(q)]
                   [] row[i].status = "GATE_REJECTED" -> [row EXCEPT ![i] = Upgraded(q)]
                   [] Accepted(row[i].status) -> row
       /\ Answer(q, IF ~acknowledged THEN "ERROR"
                    ELSE IF Accepted(row[i].status) THEN "DUPLICATE" ELSE "ACCEPTED")
  /\ Release(q)
  /\ UNCHANGED clock

(* A statement raises or the task dies: the transaction is rolled back. *)
Abort(q) ==
  /\ request[q].pc # "done"
  /\ Fault
  /\ Answer(q, "ERROR")
  /\ Release(q)
  /\ UNCHANGED <<row, clock>>

Gate(q) ==
  \/ \E ok \in BOOLEAN : RejectSelf(q, ok)
  \/ Validate(q)
  \/ LockPair(q)
  \/ CheckDuplicate(q)
  \/ \E ok \in BOOLEAN : Reject(q, ok)
  \/ \E now \in 0 .. MaxTime + Skew : Count(q, now)
  \/ \E acknowledged \in BOOLEAN : Insert(q, acknowledged)

Next ==
  \/ Tick
  \/ \E i \in Ids : Process(i)
  \/ \E q \in Requests : Gate(q) \/ Abort(q)

Spec == Init /\ [][Next]_vars

(***************************************************************************)
(* Properties.                                                             *)
(***************************************************************************)
(* Every variable has its type. *)
TypeOK ==
  /\ row \in [Ids -> Row]
  /\ clock \in Nat
  /\ pairLock \in [Pairs -> Requests \cup {NULL}]
  /\ request \in [Requests -> Request]
  /\ faults \in Nat

(* C3: of one (rater, target) pair no more than RateLimit accepted reviews *)
(* are ever younger than 24 hours, however many submissions race; the skew *)
(* between the two clocks is all that the window may lose.                 *)
WithinQuota ==
  \A pair \in Pairs : Cardinality(Recent(pair, clock, Window - Skew)) <= RateLimit

(* Nobody is told "accepted" or "duplicate" of a review that is not on     *)
(* file as accepted, then or later: no racing rejection takes it back.     *)
AcceptanceIsTruthful ==
  \A q \in Requests :
    request[q].answer \in {"ACCEPTED", "DUPLICATE"} => Accepted(row[Form[q].id].status)

(* H1: of all the submissions of an id, at most one is told "accepted",    *)
(* even when they name different pairs and so take different locks.        *)
AcceptedOnce ==
  \A q, s \in Requests :
    /\ request[q].answer = "ACCEPTED"
    /\ request[s].answer = "ACCEPTED"
    /\ Form[q].id = Form[s].id
    => q = s

(* The pair is immutable for a reviewId, as gate_and_store assumes. *)
Stable(i) == \A q, s \in Requests : Form[q].id = i /\ Form[s].id = i => PairOf(q) = PairOf(s)

(* "An already-accepted reviewId gets DUPLICATE either way": a submission  *)
(* is only answered with a rejection when its id is not accepted, although *)
(* its verdict may be older than a racing acceptance of the same id.       *)
RejectionIsTruthful ==
  [][\A q \in Requests :
       /\ request[q].answer = "NONE"
       /\ request'[q].answer \in RejectionCodes
       /\ Stable(Form[q].id)
       => ~Accepted(row'[Form[q].id].status)]_vars

(* Once accepted, a review is only moved on by batches: no submission      *)
(* rejects it, replaces its content or renews its received_at.             *)
AcceptedIsFinal ==
  [][\A i \in Ids :
       Accepted(row[i].status) =>
         /\ Accepted(row'[i].status)
         /\ [row'[i] EXCEPT !.status = row[i].status] = row[i]]_vars

(* A rejected row is "not a permanent claim on the id", nor on its         *)
(* contents: what is on file of a review is what the submission carried    *)
(* that was accepted, not what an earlier or a racing one left there.      *)
AcceptedAsSubmitted ==
  \A q \in Requests :
    request[q].answer = "ACCEPTED" =>
      /\ row[Form[q].id].pair = PairOf(q)
      /\ row[Form[q].id].media = Form[q].media

(***************************************************************************)
(* Refinement.                                                             *)
(***************************************************************************)
OnFile(i) == [pair |-> row[i].pair, media |-> row[i].media, received |-> row[i].received]

Book == [i \in {i \in Ids : Accepted(row[i].status)} |-> OnFile(i)]
Response == [q \in Requests |-> request[q].answer]

Desk == INSTANCE ReviewDesk WITH
  Window <- Window - Skew, Reasons <- RejectionCodes, book <- Book, answer <- Response

(* Racing submissions, failing statements and lost answers cannot be told  *)
(* from outside: the gate answers like a clerk who looks at one submission *)
(* after the other, keeps the quota, accepts no review of oneself, and     *)
(* says "rate limited" only of a pair that has used its quota.             *)
ImplementsDesk == Desk!Spec
=============================================================================
