---------------------------- MODULE BatchPipeline ----------------------------
(***************************************************************************)
(* The batch pipeline (app/batch_runner.py, app/batch_engine.py) over the  *)
(* three tables it works on: review, batch_run and profile_reputation.     *)
(*                                                                         *)
(* Tasks are the callers of start_batch and of the startup sweep (starter) *)
(* and, per batch, the task executing run_batch_to_completion (runner).    *)
(* A step is one SQL statement, one transaction or one engine call, since  *)
(* other tasks run between them.  A statement has one of three outcomes:   *)
(* "ok"; "error" (it changed nothing and raised); "lost" (it took effect,  *)
(* and the connection broke before the client learned of it, so it raised  *)
(* all the same).                                                          *)
(***************************************************************************)
EXTENDS Naturals, FiniteSets

CONSTANTS
  Reviews,         \* accepted review ids, numbered in the order of received_at
  Profiles,        \* target profiles
  Target,          \* target_profile_id of each review
  Batches,         \* ids for batch_run rows
  Starters,        \* tasks that sweep and start batches: cron, requests, boot
  MaxRetries,      \* settings.max_review_retries
  BatchLimit,      \* settings.max_reviews_per_batch
  EngineVerdicts,  \* the values of willRetry the engine's errors carry
  Faults,          \* which kinds of fault the environment may inflict
  MaxFaults,       \* bound on their number in a behaviour
  NULL

(* "error", "lost": the outcomes above.  "crash": a task dies between two  *)
(* steps.  The rest name the circumstances each of which breaks a property *)
(* and is therefore only admitted by name: "lostfold", a lost answer to    *)
(* the COMMIT of a fold; "gap", a failure between the two statements that  *)
(* retire a batch and requeue its reviews; "slow", a live batch that       *)
(* outlasts the stale threshold.                                           *)
FaultKinds == {"error", "lost", "crash", "lostfold", "gap", "slow"}

ASSUME ReviewsAssumption == Reviews \subseteq Nat /\ IsFiniteSet(Reviews)
ASSUME TargetAssumption == Target \in [Reviews -> Profiles]
ASSUME NullAssumption == NULL \notin Profiles \cup Batches \cup Starters
ASSUME BoundsAssumption ==
  /\ MaxRetries \in Nat \ {0}
  /\ BatchLimit \in Nat \ {0}
  /\ MaxFaults \in Nat
ASSUME ChoicesAssumption == EngineVerdicts \subseteq BOOLEAN /\ Faults \subseteq FaultKinds

VARIABLES
  status, batchId, retryCount,  \* columns of review, per review
  rep,        \* profile_reputation.state: how often it contains each review
  batchRun,   \* batch_run.status, per batch
  stale,      \* batch_run.started_at is older than the stale threshold
  starter,    \* local state of the tasks in sweep_stale_batches/start_batch
  startLock,  \* holder of the advisory lock 'batch_run:start'
  runner,     \* local state of the tasks in run_batch_to_completion
  faults      \* number of faults so far

reviewVars == <<status, batchId, retryCount>>
batchVars == <<batchRun, stale>>
vars == <<status, batchId, retryCount, rep, batchRun, stale, starter, startLock,
          runner, faults>>

Statuses == {"NONE", "GATED", "PROCESSING", "COMMITTED", "FAILED"}
RunStatuses == {"NONE", "RUNNING", "COMPLETED", "FAILED"}

State == [Reviews -> Nat]
EmptyState == [r \in Reviews |-> 0]

(* run_batch: between the claim and the end of the last group. *)
Working == {"claim", "group", "engine", "commit", "handle", "finish"}

(* rows: the claimed rows whose group is not finished; retry: their        *)
(* retry_count as claimed; cur: the profile of the current group; base:    *)
(* its state as read; left: the rows _handle_failed_reviews has yet to     *)
(* write; willRetry: its argument; inTry: it was called inside the try.    *)
Runner == [pc : Working \cup {"none", "markFailed", "requeue"},
           rows : SUBSET Reviews, retry : [Reviews -> Nat],
           cur : Profiles \cup {NULL}, base : State,
           left : SUBSET Reviews, willRetry : BOOLEAN, inTry : BOOLEAN]

NoRunner == [pc |-> "none", rows |-> {}, retry |-> EmptyState, cur |-> NULL,
             base |-> EmptyState, left |-> {}, willRetry |-> TRUE, inTry |-> FALSE]

(* swept: the ids RETURNING gave the sweep; next: what follows the sweep,  *)
(* the rest of start_batch or, for the sweep at startup, nothing.          *)
Starter == [pc : {"idle", "requeue", "lock", "check", "insert"},
            swept : SUBSET Batches, next : {"lock", "idle"}]

NoStarter == [pc |-> "idle", swept |-> {}, next |-> "idle"]

Init ==
  /\ status = [r \in Reviews |-> "NONE"]
  /\ batchId = [r \in Reviews |-> NULL]
  /\ retryCount = [r \in Reviews |-> 0]
  /\ rep = [p \in Profiles |-> EmptyState]
  /\ batchRun = [b \in Batches |-> "NONE"]
  /\ stale = [b \in Batches |-> FALSE]
  /\ starter = [s \in Starters |-> NoStarter]
  /\ startLock = NULL
  /\ runner = [b \in Batches |-> NoRunner]
  /\ faults = 0

(***************************************************************************)
(* Outcomes of statements and faults.                                      *)
(***************************************************************************)
Outcomes == {"ok", "error", "lost"}

Suffer(kind) ==
  /\ kind \in Faults
  /\ faults < MaxFaults
  /\ faults' = faults + 1

Outcome(o) ==
  \/ o = "ok" /\ UNCHANGED faults
  \/ o # "ok" /\ Suffer(o)

Applied(o) == o # "error"

(***************************************************************************)
(* The gate inserts an accepted review (gate_and_store, see ReviewGate).   *)
(***************************************************************************)
Accept(r) ==
  /\ status[r] = "NONE"
  /\ status' = [status EXCEPT ![r] = "GATED"]
  /\ UNCHANGED <<batchId, retryCount, rep, batchRun, stale, starter, startLock,
                 runner, faults>>

(***************************************************************************)
(* Time: a RUNNING batch passes the stale threshold.  The code takes every *)
(* such batch for dead.  That its runner really is dead is the assumption  *)
(* behind the threshold; a batch that outlasts it counts as a fault.       *)
(***************************************************************************)
Age(b) ==
  /\ batchRun[b] = "RUNNING"
  /\ ~stale[b]
  /\ IF runner[b].pc = "none" THEN UNCHANGED faults ELSE Suffer("slow")
  /\ stale' = [stale EXCEPT ![b] = TRUE]
  /\ UNCHANGED <<status, batchId, retryCount, rep, batchRun, starter, startLock, runner>>

(***************************************************************************)
(* sweep_stale_batches and start_batch.                                    *)
(***************************************************************************)
(* Bug: the requeue forgets the condition on status. *)
RequeueAnyStatusOf(B) ==
  /\ status' = [r \in Reviews |-> IF batchId[r] \in B THEN "GATED" ELSE status[r]]
  /\ UNCHANGED <<batchId, retryCount>>

(* UPDATE review SET status = 'GATED' WHERE status = 'PROCESSING' AND      *)
(* batch_id IN B.  retry_count keeps its value.                            *)
RequeueReviewsOf(B) ==
  /\ status' = [r \in Reviews |->
                  IF status[r] = "PROCESSING" /\ batchId[r] \in B
                  THEN "GATED" ELSE status[r]]
  /\ UNCHANGED <<batchId, retryCount>>

GoTo(s, place) == starter' = [starter EXCEPT ![s] = [NoStarter EXCEPT !.pc = place]]

(* Bugs: the threshold is ignored; no batch is ever swept. *)
AllRunningBatches == {b \in Batches : batchRun[b] = "RUNNING"}
NoBatches == {}

StaleBatches == {b \in Batches : batchRun[b] = "RUNNING" /\ stale[b]}

(* Marking the stale batches FAILED is the first statement of both callers. *)
SweepMark(s, next, o) ==
  /\ starter[s].pc = "idle"
  /\ Outcome(o)
  /\ o = "lost" => "gap" \in Faults
  /\ batchRun' = IF Applied(o)
                 THEN [b \in Batches |-> IF b \in StaleBatches THEN "FAILED" ELSE batchRun[b]]
                 ELSE batchRun
  /\ IF o # "ok" THEN GoTo(s, "idle")
     ELSE IF StaleBatches = {} THEN GoTo(s, next)
     ELSE starter' = [starter EXCEPT
                        ![s] = [pc |-> "requeue", swept |-> StaleBatches, next |-> next]]
  /\ UNCHANGED <<status, batchId, retryCount, rep, stale, startLock, runner>>

(* The second statement requeues their reviews.  It is a transaction of    *)
(* its own: nothing repeats it when it fails.                              *)
SweepRequeue(s, o) ==
  /\ starter[s].pc = "requeue"
  /\ Outcome(o)
  /\ o = "error" => "gap" \in Faults
  /\ IF Applied(o) THEN RequeueReviewsOf(starter[s].swept) ELSE UNCHANGED reviewVars
  /\ GoTo(s, IF o = "ok" THEN starter[s].next ELSE "idle")
  /\ UNCHANGED <<rep, batchRun, stale, startLock, runner>>

(* Bug: the lock is not exclusive. *)
LockShared(s) ==
  /\ starter[s].pc = "lock"
  /\ startLock' = s
  /\ GoTo(s, "check")
  /\ UNCHANGED <<status, batchId, retryCount, rep, batchRun, stale, runner, faults>>

(* pg_advisory_xact_lock: blocks while another starter holds it. *)
Lock(s) ==
  /\ starter[s].pc = "lock"
  /\ startLock = NULL
  /\ startLock' = s
  /\ GoTo(s, "check")
  /\ UNCHANGED <<status, batchId, retryCount, rep, batchRun, stale, runner, faults>>

(* With a batch RUNNING the transaction ends here, releasing the lock. *)
Check(s) ==
  /\ starter[s].pc = "check"
  /\ IF \E b \in Batches : batchRun[b] = "RUNNING"
     THEN GoTo(s, "idle") /\ startLock' = NULL
     ELSE GoTo(s, "insert") /\ UNCHANGED startLock
  /\ UNCHANGED <<status, batchId, retryCount, rep, batchRun, stale, runner, faults>>

(* uuid4(): an id nothing refers to.  The ids of finished batches that no  *)
(* task and no PROCESSING review mentions any more serve again, so that a  *)
(* finite set of ids stands for an endless supply.                         *)
Fresh(b) ==
  /\ batchRun[b] # "RUNNING"
  /\ runner[b].pc = "none"
  /\ \A s \in Starters : b \notin starter[s].swept
  /\ \A r \in Reviews : status[r] = "PROCESSING" => batchId[r] # b

(* The batch_run row is committed and, unless the answer is lost, the      *)
(* caller goes on to run_batch_to_completion, directly (execute_batch) or  *)
(* as a background task of the request (trigger_batch).                    *)
Insert(s, b, o) ==
  /\ starter[s].pc = "insert"
  /\ Fresh(b)
  /\ Outcome(o)
  /\ IF Applied(o)
     THEN /\ batchRun' = [batchRun EXCEPT ![b] = "RUNNING"]
          /\ stale' = [stale EXCEPT ![b] = FALSE]
     ELSE UNCHANGED batchVars
  /\ runner' = IF o = "ok" THEN [runner EXCEPT ![b].pc = "claim"] ELSE runner
  /\ startLock' = NULL
  /\ GoTo(s, "idle")
  /\ UNCHANGED <<status, batchId, retryCount, rep>>

(***************************************************************************)
(* run_batch, run_batch_to_completion and _handle_failed_reviews.          *)
(***************************************************************************)
RunnerAt(b, place) == runner[b].pc = place
Continue(b, place) == runner' = [runner EXCEPT ![b].pc = place]

Group(b) == {r \in runner[b].rows : Target[r] = runner[b].cur}

(* Bug: the group stays among the groups to do. *)
NextGroupAgain(b) == Continue(b, "group")

(* The next iteration of the loop over the groups, or the end of it. *)
NextGroup(b) ==
  LET remaining == runner[b].rows \ Group(b)
  IN  runner' = [runner EXCEPT ![b] = [NoRunner EXCEPT
        !.pc = IF remaining = {} THEN "finish" ELSE "group",
        !.rows = remaining,
        !.retry = runner[b].retry]]

(* ORDER BY received_at LIMIT n *)
Oldest(S, n) == {r \in S : Cardinality({q \in S : q < r}) < n}

(* Call _handle_failed_reviews on the rows of the current group. *)
Handle(b, p, willRetry, inTry) ==
  runner' = [runner EXCEPT ![b] = [NoRunner EXCEPT
    !.pc = "handle", !.rows = runner[b].rows, !.retry = runner[b].retry, !.cur = p,
    !.left = {r \in runner[b].rows : Target[r] = p},
    !.willRetry = willRetry, !.inTry = inTry]]

(* Bug: dead-lettered reviews are claimed again. *)
ClaimableWithFailed == Oldest({r \in Reviews : status[r] \in {"GATED", "FAILED"}}, BatchLimit)

Claimable == Oldest({r \in Reviews : status[r] = "GATED"}, BatchLimit)

(* One statement selects, locks, marks and returns the rows. *)
Claim(b, o) ==
  /\ RunnerAt(b, "claim")
  /\ Outcome(o)
  /\ IF Applied(o)
     THEN /\ status' = [r \in Reviews |->
                          IF r \in Claimable THEN "PROCESSING" ELSE status[r]]
          /\ batchId' = [r \in Reviews |-> IF r \in Claimable THEN b ELSE batchId[r]]
     ELSE UNCHANGED <<status, batchId>>
  /\ runner' = [runner EXCEPT ![b] = [NoRunner EXCEPT
        !.pc = IF o # "ok" THEN "markFailed"
               ELSE IF Claimable = {} THEN "finish" ELSE "group",
        !.rows = IF o = "ok" THEN Claimable ELSE {},
        !.retry = [r \in Reviews |->
                     IF o = "ok" /\ r \in Claimable THEN retryCount[r] ELSE 0]]]
  /\ UNCHANGED <<retryCount, rep, batchRun, stale, starter, startLock>>

(* Read the state of a profile, outside any transaction. *)
LoadState(b, p, o) ==
  /\ RunnerAt(b, "group")
  /\ p \in {Target[r] : r \in runner[b].rows}
  /\ o # "lost"
  /\ Outcome(o)
  /\ IF o = "ok"
     THEN runner' = [runner EXCEPT ![b].pc = "engine", ![b].cur = p, ![b].base = rep[p]]
     ELSE Handle(b, p, TRUE, FALSE)
  /\ UNCHANGED <<status, batchId, retryCount, rep, batchRun, stale, starter, startLock>>

(* process_reputation on a worker thread succeeds ...                      *)
EngineFolds(b) ==
  /\ RunnerAt(b, "engine")
  /\ Continue(b, "commit")
  /\ UNCHANGED <<status, batchId, retryCount, rep, batchRun, stale, starter,
                 startLock, faults>>

(* ... returns an error, whose willRetry is honoured ...                   *)
EngineRefuses(b, willRetry) ==
  /\ RunnerAt(b, "engine")
  /\ Handle(b, runner[b].cur, willRetry, TRUE)
  /\ UNCHANGED <<status, batchId, retryCount, rep, batchRun, stale, starter,
                 startLock, faults>>

(* ... or raises.                                                          *)
EngineRaises(b) ==
  /\ RunnerAt(b, "engine")
  /\ Handle(b, runner[b].cur, TRUE, FALSE)
  /\ UNCHANGED <<status, batchId, retryCount, rep, batchRun, stale, starter,
                 startLock, faults>>

(* What process_reputation returns as the new state: base with G folded in. *)
Fold(base, G) == [r \in Reviews |-> IF r \in G THEN base[r] + 1 ELSE base[r]]

(* Bug: the upsert is not part of the transaction. *)
CommitInTwo(b, o) ==
  /\ RunnerAt(b, "commit")
  /\ Outcome(o)
  /\ o = "lost" => "lostfold" \in Faults
  /\ rep' = [rep EXCEPT ![runner[b].cur] = Fold(runner[b].base, Group(b))]
  /\ status' = IF Applied(o)
               THEN [r \in Reviews |-> IF r \in Group(b) THEN "COMMITTED" ELSE status[r]]
               ELSE status
  /\ IF o = "ok" THEN NextGroup(b) ELSE Handle(b, runner[b].cur, TRUE, FALSE)
  /\ UNCHANGED <<batchId, retryCount, batchRun, stale, starter, startLock>>

(* One transaction overwrites the state and marks the reviews by id,       *)
(* whatever their status or batch_id is by now.                            *)
Commit(b, o) ==
  /\ RunnerAt(b, "commit")
  /\ Outcome(o)
  /\ o = "lost" => "lostfold" \in Faults
  /\ IF Applied(o)
     THEN /\ rep' = [rep EXCEPT ![runner[b].cur] = Fold(runner[b].base, Group(b))]
          /\ status' = [r \in Reviews |->
                          IF r \in Group(b) THEN "COMMITTED" ELSE status[r]]
     ELSE UNCHANGED <<rep, status>>
  /\ IF o = "ok" THEN NextGroup(b) ELSE Handle(b, runner[b].cur, TRUE, FALSE)
  /\ UNCHANGED <<batchId, retryCount, batchRun, stale, starter, startLock>>

(* Bugs: one retry too many; a status chk_review_status does not admit. *)
VerdictOneMore(b, r) ==
  IF ~runner[b].willRetry \/ runner[b].retry[r] + 1 > MaxRetries THEN "FAILED" ELSE "GATED"
VerdictUnknown(b, r) ==
  IF ~runner[b].willRetry \/ runner[b].retry[r] + 1 >= MaxRetries THEN "DEAD" ELSE "GATED"

(* Dead-letter or retry, decided by the row as it was claimed. *)
Verdict(b, r) ==
  IF ~runner[b].willRetry \/ runner[b].retry[r] + 1 >= MaxRetries
  THEN "FAILED" ELSE "GATED"

(* One row of _handle_failed_reviews.  An exception out of the call made   *)
(* inside the try reaches the except clause, which calls again for all the *)
(* rows of the group; out of that call it leaves run_batch.                *)
HandleRow(b, r, o) ==
  /\ RunnerAt(b, "handle")
  /\ r \in runner[b].left
  /\ Outcome(o)
  /\ IF Applied(o)
     THEN /\ status' = [status EXCEPT ![r] = Verdict(b, r)]
          /\ retryCount' = [retryCount EXCEPT ![r] = runner[b].retry[r] + 1]
     ELSE UNCHANGED <<status, retryCount>>
  /\ IF o = "ok"
     THEN IF runner[b].left = {r} THEN NextGroup(b)
          ELSE runner' = [runner EXCEPT ![b].left = @ \ {r}]
     ELSE IF runner[b].inTry THEN Handle(b, runner[b].cur, TRUE, FALSE)
          ELSE runner' = [runner EXCEPT ![b] = [NoRunner EXCEPT !.pc = "markFailed"]]
  /\ UNCHANGED <<batchId, rep, batchRun, stale, starter, startLock>>

(* UPDATE batch_run SET status = 'COMPLETED' WHERE id = b *)
Finish(b, o) ==
  /\ RunnerAt(b, "finish")
  /\ Outcome(o)
  /\ batchRun' = IF Applied(o) THEN [batchRun EXCEPT ![b] = "COMPLETED"] ELSE batchRun
  /\ runner' = [runner EXCEPT ![b] =
                  [NoRunner EXCEPT !.pc = IF o = "ok" THEN "none" ELSE "markFailed"]]
  /\ UNCHANGED <<status, batchId, retryCount, rep, stale, starter, startLock>>

(* The except clause of run_batch_to_completion: two statements, the       *)
(* second of which is attempted whether or not the first one raised.       *)
MarkFailed(b, o) ==
  /\ RunnerAt(b, "markFailed")
  /\ Outcome(o)
  /\ batchRun' = IF Applied(o) THEN [batchRun EXCEPT ![b] = "FAILED"] ELSE batchRun
  /\ Continue(b, "requeue")
  /\ UNCHANGED <<status, batchId, retryCount, rep, stale, starter, startLock>>

(* Bug: the second statement is missing. *)
RequeueNothing(b, o) ==
  /\ RunnerAt(b, "requeue")
  /\ Outcome(o)
  /\ Continue(b, "none")
  /\ UNCHANGED <<status, batchId, retryCount, rep, batchRun, stale, starter, startLock>>

Requeue(b, o) ==
  /\ RunnerAt(b, "requeue")
  /\ Outcome(o)
  /\ o = "error" => "gap" \in Faults
  /\ IF Applied(o) THEN RequeueReviewsOf({b}) ELSE UNCHANGED reviewVars
  /\ Continue(b, "none")
  /\ UNCHANGED <<rep, batchRun, stale, starter, startLock>>

(***************************************************************************)
(* Death of a task: the process is killed, or the task is cancelled, which *)
(* no except Exception clause sees.                                        *)
(***************************************************************************)
CrashRunner(b) ==
  /\ runner[b].pc # "none"
  /\ Suffer("crash")
  /\ RunnerAt(b, "requeue") => "gap" \in Faults
  /\ runner' = [runner EXCEPT ![b] = NoRunner]
  /\ UNCHANGED <<status, batchId, retryCount, rep, batchRun, stale, starter, startLock>>

CrashStarter(s) ==
  /\ starter[s].pc # "idle"
  /\ Suffer("crash")
  /\ starter[s].pc = "requeue" => "gap" \in Faults
  /\ GoTo(s, "idle")
  /\ startLock' = IF startLock = s THEN NULL ELSE startLock
  /\ UNCHANGED <<status, batchId, retryCount, rep, batchRun, stale, runner>>

(***************************************************************************)
(* The system.                                                             *)
(***************************************************************************)
Sweep(s) ==
  \/ \E next \in {"lock", "idle"}, o \in Outcomes : SweepMark(s, next, o)
  \/ \E o \in Outcomes : SweepRequeue(s, o)

Start(s) ==
  \/ Lock(s)
  \/ Check(s)
  \/ \E b \in Batches, o \in Outcomes : Insert(s, b, o)

Run(b) ==
  \/ \E o \in Outcomes : Claim(b, o)
  \/ \E p \in Profiles, o \in Outcomes : LoadState(b, p, o)
  \/ EngineFolds(b)
  \/ \E willRetry \in EngineVerdicts : EngineRefuses(b, willRetry)
  \/ EngineRaises(b)
  \/ \E o \in Outcomes : Commit(b, o)
  \/ \E r \in Reviews, o \in Outcomes : HandleRow(b, r, o)
  \/ \E o \in Outcomes : Finish(b, o)
  \/ \E o \in Outcomes : MarkFailed(b, o)
  \/ \E o \in Outcomes : Requeue(b, o)

Next ==
  \/ \E r \in Reviews : Accept(r)
  \/ \E s \in Starters : Sweep(s) \/ Start(s) \/ CrashStarter(s)
  \/ \E b \in Batches : Age(b) \/ Run(b) \/ CrashRunner(b)

Spec == Init /\ [][Next]_vars

(* asyncio and Postgres run every ready task, the cron job fires again and *)
(* again, and time passes.  Nothing is assumed of the gate or of faults.   *)
Triggered(s) == \E o \in Outcomes : SweepMark(s, "lock", o)

Fairness ==
  /\ \A s \in Starters : /\ WF_vars(Triggered(s))
                         /\ WF_vars(\E o \in Outcomes : SweepRequeue(s, o))
                         /\ WF_vars(Start(s))
  /\ \A b \in Batches : WF_vars(Age(b)) /\ WF_vars(Run(b))

FairSpec == Spec /\ Fairness

(***************************************************************************)
(* Properties.                                                             *)
(***************************************************************************)
(* Every variable has its type; the lock is held by a task inside the      *)
(* transaction of start_batch and by no other.                             *)
TypeOK ==
  /\ status \in [Reviews -> Statuses]
  /\ batchId \in [Reviews -> Batches \cup {NULL}]
  /\ retryCount \in [Reviews -> Nat]
  /\ rep \in [Profiles -> State]
  /\ batchRun \in [Batches -> RunStatuses]
  /\ stale \in [Batches -> BOOLEAN]
  /\ starter \in [Starters -> Starter]
  /\ startLock \in Starters \cup {NULL}
  /\ runner \in [Batches -> Runner]
  /\ faults \in Nat

(* C2: check-then-insert under the advisory lock admits one RUNNING batch, *)
(* whatever starters race, die or get lost answers, and even when live     *)
(* batches are swept.                                                      *)
AtMostOneRunning ==
  \A b, c \in Batches : batchRun[b] = "RUNNING" /\ batchRun[c] = "RUNNING" => b = c

(* C2, no double-processing: a review is contained in the state of its     *)
(* target exactly once if it is COMMITTED and otherwise not at all, so no  *)
(* fold is repeated and none is overwritten by another's.                  *)
ExactlyOnce ==
  \A p \in Profiles, r \in Reviews :
    rep[p][r] = IF status[r] = "COMMITTED" /\ Target[r] = p THEN 1 ELSE 0

(* C2, the part of ExactlyOnce that batch_engine.py promises in so many    *)
(* words, "prevents double-processing": no state contains a review twice.  *)
NoDoubleProcessing == \A p \in Profiles, r \in Reviews : rep[p][r] <= 1

(* Some task will see to the reviews of a batch that is not RUNNING: its   *)
(* own, or one that swept it and has yet to requeue them.                  *)
InGoodHands(b) ==
  \/ runner[b].pc # "none"
  \/ \E s \in Starters : b \in starter[s].swept

(* No review is left behind in PROCESSING: its batch is RUNNING, so it has *)
(* a task or will be swept, or a task has it in hand.                      *)
NoStranded ==
  \A r \in Reviews :
    status[r] = "PROCESSING" =>
      /\ batchId[r] \in Batches
      /\ batchRun[batchId[r]] = "RUNNING" \/ InGoodHands(batchId[r])

(* A task inside run_batch owns a RUNNING batch that no sweep has retired: *)
(* its claimed rows cannot be requeued or claimed under its hands.         *)
RunnerOwnsBatch ==
  \A b \in Batches :
    runner[b].pc \in Working =>
      /\ batchRun[b] = "RUNNING"
      /\ \A s \in Starters : b \notin starter[s].swept
      /\ \A r \in runner[b].rows : batchId[r] = b

(* H3: a review is dead-lettered exactly when it has used up its retries.  *)
(* Crashes, sweeps and requeues consume none; a batch that fails it twice  *)
(* over (inside the try and again in the except) consumes one.             *)
DeadLetterAtLimit ==
  \A r \in Reviews : /\ status[r] = "FAILED" <=> retryCount[r] >= MaxRetries
                     /\ retryCount[r] <= MaxRetries

(* A finished review is finished: COMMITTED is never revised. *)
CommittedIsFinal ==
  [][\A r \in Reviews : status[r] = "COMMITTED" => status'[r] = "COMMITTED"]_vars

(* H3: a dead-lettered review is "permanently" FAILED. *)
DeadLetterIsFinal ==
  [][\A r \in Reviews : status[r] = "FAILED" => status'[r] = "FAILED"]_vars

(* A batch that was retired as FAILED is not reported COMPLETED later. *)
FailedRunStaysFailed ==
  [][\A b \in Batches : batchRun[b] = "FAILED" => batchRun'[b] # "COMPLETED"]_vars

(* An accepted review is eventually decided: folded or dead-lettered. *)
EventuallyDecided ==
  \A r \in Reviews :
    status[r] = "GATED" ~> status[r] \in {"COMMITTED", "FAILED"}

(* A crashed run cannot block triggering forever (start_batch). *)
EventuallyRetired ==
  \A b \in Batches : batchRun[b] = "RUNNING" ~> batchRun[b] # "RUNNING"

(***************************************************************************)
(* Refinement: the pipeline implements ReviewLedger.                       *)
(***************************************************************************)
Standing(st) == CASE st = "NONE" -> "none"
                  [] st \in {"GATED", "PROCESSING"} -> "pending"
                  [] st = "COMMITTED" -> "counted"
                  [] st = "FAILED" -> "dead"

Ledger == INSTANCE ReviewLedger WITH
  standing <- [r \in Reviews |-> Standing(status[r])],
  credited <- [r \in Reviews |-> rep[Target[r]][r]]

(* Seen from outside, batches, retries and failures are invisible: each    *)
(* step accepts a review, folds a group once, buries one, or does nothing. *)
ImplementsLedger == Ledger!Spec
=============================================================================
