--------------------------- MODULE BatchFoldProofs ---------------------------
(***************************************************************************)
(* What the batch pipeline promises while no live batch outlasts the stale *)
(* threshold: the task that works on reviews owns them (RunnerOwnsBatch)   *)
(* and folds each of them at least once, every further time at the price   *)
(* of a retry (EveryFoldCharged); unless the answer to the COMMIT of a fold*)
(* is lost, just once (ExactlyOnce) and for good (CommittedIsFinal).       *)
(***************************************************************************)
EXTENDS BatchPipelineProofs

(***************************************************************************)
(* The inductive invariant of ownership.  A task inside run_batch has a    *)
(* RUNNING batch, and there is only one of those; a batch can be swept     *)
(* only after its task is gone; so nobody changes the batch_id of the rows *)
(* the task has claimed.                                                   *)
(***************************************************************************)
InGroups == {"group", "engine", "commit", "handle"}

WorkerIsRunning ==
  \A b \in Batches : runner[b].pc \in Working => batchRun[b] = "RUNNING"

SweptIsRetired ==
  \A s \in Starters : \A b \in starter[s].swept : batchRun[b] # "RUNNING"

StaleIsDead ==
  \A b \in Batches : batchRun[b] = "RUNNING" /\ stale[b] => runner[b].pc = "none"

RowsOwned ==
  \A b \in Batches : /\ \A r \in runner[b].rows : batchId[r] = b
                     /\ runner[b].pc \notin InGroups => runner[b].rows = {}

OwnInv == StartInv /\ WorkerIsRunning /\ SweptIsRetired /\ StaleIsDead /\ RowsOwned

(* What a step of run_batch_to_completion does, as far as ownership goes.  *)
RunStep(b) ==
  /\ \A c \in Batches \ {b} : runner'[c] = runner[c]
  /\ \A c \in Batches : batchRun'[c] = "RUNNING" => batchRun[c] = "RUNNING"
  /\ \A c \in Batches \ {b} : batchRun'[c] = batchRun[c]
  /\ UNCHANGED <<starter, stale>>
  /\ runner[b].pc # "none"
  /\ runner'[b].pc \in Working => runner[b].pc \in Working /\ batchRun' = batchRun
  /\ \A r \in Reviews :
       batchId'[r] # batchId[r] => runner[b].pc \in Working /\ batchId'[r] = b
  /\ \A r \in runner'[b].rows : batchId'[r] = b
  /\ runner'[b].pc \notin InGroups => runner'[b].rows = {}

(* Calling _handle_failed_reviews and going on to the next group keep or   *)
(* drop rows and never gain any.                                           *)
LEMMA HandleRows ==
  ASSUME TypeOK, NEW b \in Batches, NEW p, NEW w, NEW t, Handle(b, p, w, t)
  PROVE  /\ \A c \in Batches \ {b} : runner'[c] = runner[c]
         /\ runner'[b].pc = "handle" /\ runner'[b].rows = runner[b].rows
         /\ runner'[b].retry = runner[b].retry /\ runner'[b].cur = p
         /\ runner'[b].left = {r \in runner[b].rows : Target[r] = p}
BY DEF Handle, NoRunner, TypeOK

LEMMA NextGroupRows ==
  ASSUME TypeOK, NEW b \in Batches, NextGroup(b)
  PROVE  /\ \A c \in Batches \ {b} : runner'[c] = runner[c]
         /\ runner'[b].pc \in {"group", "finish"}
         /\ runner'[b].rows = runner[b].rows \ Group(b) /\ runner'[b].retry = runner[b].retry
         /\ runner'[b].pc = "finish" => runner'[b].rows = {}
         /\ runner'[b].left = {}
BY DEF NextGroup, NoRunner, TypeOK

LEMMA RunSteps ==
  ASSUME OwnInv, NEW b \in Batches, Run(b)
  PROVE  RunStep(b)
<1>0. TypeOK /\ RowsOwned
  BY DEF OwnInv, StartInv
<1>1. /\ UNCHANGED <<starter, stale>>
      /\ \A c \in Batches : batchRun'[c] = "RUNNING" => batchRun[c] = "RUNNING"
  BY <1>0, RunLeavesStart
<1>2. ASSUME NEW o \in Outcomes, Claim(b, o) PROVE RunStep(b)
  <2> DEFINE R == [NoRunner EXCEPT
        !.pc = IF o # "ok" THEN "markFailed"
               ELSE IF Claimable = {} THEN "finish" ELSE "group",
        !.rows = IF o = "ok" THEN Claimable ELSE {},
        !.retry = [r \in Reviews |->
                     IF o = "ok" /\ r \in Claimable THEN retryCount[r] ELSE 0]]
  <2>1. runner' = [runner EXCEPT ![b] = R] /\ runner[b].pc = "claim" /\ batchRun' = batchRun
    BY <1>2 DEF Claim, RunnerAt
  <2>2. /\ R.rows = IF o = "ok" THEN Claimable ELSE {}
        /\ R.pc = IF o # "ok" THEN "markFailed"
                  ELSE IF Claimable = {} THEN "finish" ELSE "group"
    BY DEF NoRunner
  <2> HIDE DEF R
  <2>3. runner'[b] = R /\ \A c \in Batches \ {b} : runner'[c] = runner[c]
    BY <1>0, <2>1 DEF TypeOK
  <2>4. /\ \A r \in Reviews : batchId'[r] # batchId[r] => batchId'[r] = b
        /\ o = "ok" => \A r \in Claimable : batchId'[r] = b
    BY <1>0, <1>2 DEF Claim, TypeOK, Applied, Claimable, Oldest
  <2> QED
    BY <1>1, <2>1, <2>2, <2>3, <2>4 DEF RunStep, Working, InGroups
<1>3. ASSUME NEW p \in Profiles, NEW o \in Outcomes, LoadState(b, p, o) PROVE RunStep(b)
  <2>1. UNCHANGED <<batchId, batchRun>> /\ runner[b].pc = "group"
    BY <1>3 DEF LoadState, RunnerAt
  <2>2. /\ \A c \in Batches \ {b} : runner'[c] = runner[c]
        /\ runner'[b].rows = runner[b].rows
        /\ runner'[b].pc \in {"engine", "handle"}
    <3>1. CASE o = "ok"
      BY <1>0, <1>3, <3>1 DEF LoadState, TypeOK, Runner
    <3>2. CASE o # "ok"
      BY <1>0, <1>3, <3>2, HandleRows DEF LoadState
    <3> QED
      BY <3>1, <3>2
  <2> QED
    BY <1>0, <1>1, <2>1, <2>2 DEF RunStep, Working, InGroups, RowsOwned
<1>4. ASSUME EngineFolds(b) \/ EngineRaises(b) \/ \E w \in EngineVerdicts : EngineRefuses(b, w)
      PROVE  RunStep(b)
  <2>1. UNCHANGED <<batchId, batchRun>> /\ runner[b].pc = "engine"
    BY <1>4 DEF EngineFolds, EngineRaises, EngineRefuses, RunnerAt
  <2>2. /\ \A c \in Batches \ {b} : runner'[c] = runner[c]
        /\ runner'[b].rows = runner[b].rows
        /\ runner'[b].pc \in {"commit", "handle"}
    <3>1. CASE EngineFolds(b)
      BY <1>0, <3>1 DEF EngineFolds, Continue, TypeOK, Runner
    <3>2. CASE EngineRaises(b) \/ \E w \in EngineVerdicts : EngineRefuses(b, w)
      BY <1>0, <3>2, HandleRows DEF EngineRaises, EngineRefuses
    <3> QED
      BY <1>4, <3>1, <3>2
  <2> QED
    BY <1>0, <1>1, <2>1, <2>2 DEF RunStep, Working, InGroups, RowsOwned
<1>5. ASSUME NEW o \in Outcomes, Commit(b, o) PROVE RunStep(b)
  <2>1. UNCHANGED <<batchId, batchRun>> /\ runner[b].pc = "commit"
    BY <1>5 DEF Commit, RunnerAt
  <2>2. /\ \A c \in Batches \ {b} : runner'[c] = runner[c]
        /\ runner'[b].rows \subseteq runner[b].rows
        /\ runner'[b].pc \in {"group", "handle", "finish"}
        /\ runner'[b].pc = "finish" => runner'[b].rows = {}
    BY <1>0, <1>5, HandleRows, NextGroupRows DEF Commit
  <2> QED
    BY <1>0, <1>1, <2>1, <2>2 DEF RunStep, Working, InGroups, RowsOwned
<1>6. ASSUME NEW r \in Reviews, NEW o \in Outcomes, HandleRow(b, r, o) PROVE RunStep(b)
  <2>1. UNCHANGED <<batchId, batchRun>> /\ runner[b].pc = "handle"
    BY <1>6 DEF HandleRow, RunnerAt
  <2>2. /\ \A c \in Batches \ {b} : runner'[c] = runner[c]
        /\ runner'[b].rows \subseteq runner[b].rows
        /\ runner'[b].pc \in {"group", "handle", "finish", "markFailed"}
        /\ runner'[b].pc \in {"finish", "markFailed"} => runner'[b].rows = {}
    <3>1. CASE NextGroup(b) \/ Handle(b, runner[b].cur, TRUE, FALSE)
      BY <1>0, <3>1, HandleRows, NextGroupRows
    <3>2. CASE runner' = [runner EXCEPT ![b].left = @ \ {r}]
      BY <1>0, <2>1, <3>2 DEF TypeOK, Runner
    <3>3. CASE runner' = [runner EXCEPT ![b] = [NoRunner EXCEPT !.pc = "markFailed"]]
      BY <1>0, <3>3 DEF TypeOK, NoRunner
    <3> QED
      BY <1>6, <3>1, <3>2, <3>3 DEF HandleRow
  <2> QED
    BY <1>0, <1>1, <2>1, <2>2 DEF RunStep, Working, InGroups, RowsOwned
<1>7. ASSUME NEW o \in Outcomes, Finish(b, o) \/ MarkFailed(b, o) \/ Requeue(b, o)
      PROVE  RunStep(b)
  <2>1. /\ UNCHANGED batchId
        /\ \A c \in Batches \ {b} : batchRun'[c] = batchRun[c]
        /\ runner[b].pc \in {"finish", "markFailed", "requeue"}
    BY <1>0, <1>7 DEF Finish, MarkFailed, Requeue, RunnerAt, RequeueReviewsOf, reviewVars, TypeOK
  <2>2. /\ \A c \in Batches \ {b} : runner'[c] = runner[c]
        /\ runner'[b].pc \in {"none", "markFailed", "requeue"}
        /\ runner'[b].rows = {}
    <3>1. CASE Finish(b, o)
      BY <1>0, <3>1 DEF Finish, NoRunner, TypeOK
    <3>2. ASSUME NEW place \in {"none", "requeue"}, Continue(b, place),
                 runner[b].pc \in {"markFailed", "requeue"}
          PROVE  <2>2!:
      BY <1>0, <3>2 DEF Continue, RowsOwned, InGroups, TypeOK, Runner
    <3>3. CASE MarkFailed(b, o) \/ Requeue(b, o)
      BY <3>2, <3>3 DEF MarkFailed, Requeue, RunnerAt
    <3> QED
      BY <1>7, <3>1, <3>3
  <2> QED
    BY <1>1, <2>1, <2>2 DEF RunStep, Working, InGroups
<1> QED
  BY <1>2, <1>3, <1>4, <1>5, <1>6, <1>7 DEF Run

LEMMA OwnInvInit == Init => OwnInv
<1> SUFFICES ASSUME Init PROVE OwnInv
  OBVIOUS
<1>1. StartInv
  BY StartInvInit
<1> QED
  BY <1>1 DEF OwnInv, Init, NoRunner, NoStarter, Working, InGroups,
              WorkerIsRunning, SweptIsRetired, StaleIsDead, RowsOwned

LEMMA OwnInvNext ==
  ASSUME "slow" \notin Faults
  PROVE  OwnInv /\ [Next]_vars => OwnInv'
<1> SUFFICES ASSUME OwnInv, [Next]_vars PROVE OwnInv'
  OBVIOUS
<1>0. TypeOK /\ StartInv /\ StartInv' /\ AtMostOneRunning
  BY StartInvNext DEF OwnInv, StartInv
<1>a. \A s \in Starters : starter[s].swept \subseteq Batches
                         /\ starter'[s].swept \subseteq Batches
  BY <1>0 DEF StartInv, TypeOK, Starter
<1> DEFINE Goal == WorkerIsRunning' /\ SweptIsRetired' /\ StaleIsDead' /\ RowsOwned'
<1> USE DEF WorkerIsRunning, SweptIsRetired, StaleIsDead, RowsOwned
<1>1. ASSUME NEW b \in Batches, Run(b) PROVE Goal
  <2>1. RunStep(b)
    BY <1>1, RunSteps
  <2>2. \A c \in Batches : runner[c].pc \in InGroups /\ runner[b].pc \in Working => c = b
    BY <1>0 DEF OwnInv, AtMostOneRunning, InGroups, Working
  <2>3. WorkerIsRunning' /\ SweptIsRetired' /\ StaleIsDead'
    BY <1>a, <2>1 DEF OwnInv, RunStep
  <2>4. ASSUME NEW c \in Batches \ {b}
        PROVE  /\ \A r \in runner'[c].rows : batchId'[r] = c
               /\ runner'[c].pc \notin InGroups => runner'[c].rows = {}
    BY <1>0, <2>1, <2>2, <2>4 DEF OwnInv, RunStep, TypeOK, Runner
  <2> QED
    BY <2>1, <2>3, <2>4 DEF RunStep
<1>2. ASSUME NEW s \in Starters, Sweep(s) PROVE Goal
  <2>1. UNCHANGED <<batchId, runner, stale>>
    BY <1>2 DEF Sweep, SweepMark, SweepRequeue, RequeueReviewsOf, reviewVars
  <2>2. \A c \in Batches : batchRun'[c] # batchRun[c] => c \in StaleBatches /\ batchRun'[c] = "FAILED"
    BY <1>0, <1>2 DEF Sweep, SweepMark, SweepRequeue, TypeOK, StaleBatches
  <2>3. \A t \in Starters : \A c \in starter'[t].swept :
           c \in starter[t].swept \/ batchRun'[c] = "FAILED"
    <3>1. ASSUME NEW next \in {"lock", "idle"}, NEW o \in Outcomes, SweepMark(s, next, o)
          PROVE  <2>3!:
      <4>1. CASE \E place : GoTo(s, place)
        BY <1>0, <4>1 DEF GoTo, NoStarter, TypeOK
      <4>2. CASE /\ o = "ok"
                 /\ starter' = [starter EXCEPT
                      ![s] = [pc |-> "requeue", swept |-> StaleBatches, next |-> next]]
        BY <1>0, <3>1, <4>2 DEF SweepMark, Applied, TypeOK, StaleBatches
      <4> QED
        BY <3>1, <4>1, <4>2 DEF SweepMark
    <3>2. ASSUME NEW o \in Outcomes, SweepRequeue(s, o) PROVE <2>3!:
      BY <1>0, <3>2 DEF SweepRequeue, GoTo, NoStarter, TypeOK
    <3> QED
      BY <1>2, <3>1, <3>2 DEF Sweep
  <2> QED
    BY <1>a, <2>1, <2>2, <2>3 DEF OwnInv, StaleBatches, Working
<1>3. ASSUME NEW s \in Starters, Lock(s) \/ Check(s) \/ CrashStarter(s) PROVE Goal
  <2>1. /\ UNCHANGED <<batchId, runner, batchRun, stale>>
        /\ \E place : GoTo(s, place)
    BY <1>3 DEF Lock, Check, CrashStarter
  <2>2. \A t \in Starters : starter'[t].swept \subseteq starter[t].swept
    BY <1>0, <2>1 DEF GoTo, NoStarter, TypeOK
  <2> QED
    BY <2>1, <2>2 DEF OwnInv
<1>4. ASSUME NEW s \in Starters, NEW b \in Batches, NEW o \in Outcomes, Insert(s, b, o)
      PROVE  Goal
  <2>1. /\ UNCHANGED batchId
        /\ runner[b].pc = "none" /\ \A t \in Starters : b \notin starter[t].swept
        /\ \A c \in Batches \ {b} : batchRun'[c] = batchRun[c] /\ stale'[c] = stale[c]
        /\ \/ batchRun' = batchRun /\ stale' = stale
           \/ batchRun'[b] = "RUNNING" /\ stale'[b] = FALSE
        /\ o = "ok" => batchRun'[b] = "RUNNING" /\ stale'[b] = FALSE
    BY <1>0, <1>4 DEF Insert, Fresh, Applied, batchVars, TypeOK
  <2>2. \A t \in Starters : starter'[t].swept \subseteq starter[t].swept
    BY <1>0, <1>4 DEF Insert, GoTo, NoStarter, TypeOK
  <2>3. /\ \A c \in Batches \ {b} : runner'[c] = runner[c]
        /\ runner'[b].rows = runner[b].rows
        /\ \/ runner' = runner
           \/ runner'[b].pc = "claim" /\ o = "ok"
    BY <1>0, <1>4 DEF Insert, TypeOK, Runner
  <2>4. runner[b].rows = {}
    BY <2>1 DEF OwnInv, InGroups
  <2> QED
    BY <1>a, <2>1, <2>2, <2>3, <2>4 DEF OwnInv, Working, InGroups
<1>5. ASSUME NEW b \in Batches, Age(b) PROVE Goal
  <2>1. /\ UNCHANGED <<batchId, runner, batchRun, starter>>
        /\ runner[b].pc = "none"
        /\ \A c \in Batches \ {b} : stale'[c] = stale[c]
    BY <1>0, <1>5 DEF Age, Suffer, TypeOK
  <2> QED
    BY <2>1 DEF OwnInv
<1>6. ASSUME NEW b \in Batches, CrashRunner(b) PROVE Goal
  <2>1. /\ UNCHANGED <<batchId, batchRun, starter, stale>>
        /\ \A c \in Batches \ {b} : runner'[c] = runner[c]
        /\ runner'[b] = NoRunner
    BY <1>0, <1>6 DEF CrashRunner, TypeOK
  <2> QED
    BY <2>1 DEF OwnInv, NoRunner, Working
<1>7. ASSUME (\E r \in Reviews : Accept(r)) \/ UNCHANGED vars PROVE Goal
  <2>1. UNCHANGED <<batchId, batchRun, starter, stale, runner>>
    BY <1>7 DEF Accept, vars
  <2> QED
    BY <2>1 DEF OwnInv
<1>8. Goal
  BY <1>1, <1>2, <1>3, <1>4, <1>5, <1>6, <1>7 DEF Next, Start
<1> QED
  BY <1>0, <1>8 DEF OwnInv

(* While no live batch outlasts the threshold, the task inside run_batch   *)
(* owns a RUNNING batch and its rows; crashes, errors and lost answers do  *)
(* not change that.                                                        *)
THEOREM Ownership ==
  ASSUME "slow" \notin Faults
  PROVE  Spec => []RunnerOwnsBatch
<1>1. Spec => []OwnInv
  BY OwnInvInit, OwnInvNext, PTL DEF Spec
<1>2. OwnInv => RunnerOwnsBatch
  BY DEF OwnInv, WorkerIsRunning, SweptIsRetired, RowsOwned, RunnerOwnsBatch
<1> QED
  BY <1>1, <1>2, PTL

(***************************************************************************)
(* The inductive invariant of the rows in hand.  Claimed rows stay         *)
(* PROCESSING until their task writes them; between reading the state of a *)
(* profile and overwriting it the task is the only one that writes states. *)
(* A row being handled may be COMMITTED: the answer to its COMMIT was lost.*)
(***************************************************************************)
InHand(b) ==
  /\ \A r \in runner[b].rows :
       \/ status[r] = "PROCESSING"
       \/ /\ runner[b].pc = "handle"
          /\ Target[r] = runner[b].cur
          /\ status[r] \in {"GATED", "FAILED", "COMMITTED"}
  /\ runner[b].left \subseteq Group(b)
  /\ runner[b].pc # "handle" => runner[b].left = {}
  /\ runner[b].pc \in {"engine", "commit", "handle"} => runner[b].cur \in Profiles
  /\ runner[b].pc \in {"engine", "commit"} => runner[b].base = rep[runner[b].cur]

HeldInv == OwnInv /\ \A b \in Batches : InHand(b)

LEMMA HeldInvInit == Init => HeldInv
<1> SUFFICES ASSUME Init PROVE HeldInv
  OBVIOUS
<1> QED
  BY OwnInvInit DEF HeldInv, InHand, Init, NoRunner

(* Only one task has claimed rows or a state in hand. *)
LEMMA OneWorker ==
  ASSUME OwnInv, NEW b \in Batches, runner[b].pc \in Working, NEW c \in Batches \ {b}
  PROVE  runner[c].pc \notin Working /\ runner[c].rows = {}
BY DEF OwnInv, StartInv, AtMostOneRunning, WorkerIsRunning, RowsOwned, Working, InGroups

HeldGoal == \A b \in Batches : InHand(b)'

(* The idle hands of the tasks other than the worker. *)
LEMMA OthersInHand ==
  ASSUME HeldInv, NEW b \in Batches, runner[b].pc \in Working,
         \A c \in Batches \ {b} : runner'[c] = runner[c], InHand(b)'
  PROVE  HeldGoal
<1> SUFFICES ASSUME NEW c \in Batches \ {b} PROVE InHand(c)'
  BY DEF HeldGoal
<1>1. runner'[c] = runner[c] /\ runner[c].rows = {} /\ runner[c].pc \notin Working
  BY OneWorker DEF HeldInv
<1>2. InHand(c)
  BY DEF HeldInv
<1>3. Group(c)' = Group(c)
  BY <1>1 DEF Group
<1> QED
  BY <1>1, <1>2, <1>3 DEF InHand, Working

(* Both ways on from a group keep the rows in hand, given that the rows of *)
(* the other groups are still PROCESSING.                                  *)
LEMMA MoveOn ==
  ASSUME TypeOK, NEW b \in Batches, runner[b].cur \in Profiles,
         NEW w, NEW t,
         Handle(b, runner[b].cur, w, t) \/ NextGroup(b),
         \A r \in runner[b].rows \ Group(b) : status'[r] = "PROCESSING",
         Handle(b, runner[b].cur, w, t) =>
           \A r \in Group(b) : status'[r] \in {"PROCESSING", "GATED", "FAILED", "COMMITTED"}
  PROVE  InHand(b)' /\ \A c \in Batches \ {b} : runner'[c] = runner[c]
<1>1. CASE Handle(b, runner[b].cur, w, t)
  BY <1>1, HandleRows DEF InHand, Group
<1>2. CASE NextGroup(b)
  BY <1>2, NextGroupRows DEF InHand
<1> QED
  BY <1>1, <1>2

LEMMA ClaimHeld ==
  ASSUME HeldInv, NEW b \in Batches, NEW o \in Outcomes, Claim(b, o)
  PROVE  HeldGoal
<1>0. TypeOK
  BY DEF HeldInv, OwnInv, StartInv
<1>1. o = "ok" => \A r \in Claimable : status'[r] = "PROCESSING"
  BY <1>0 DEF Claim, TypeOK, Claimable, Oldest, Applied
<1>2. /\ \A c \in Batches \ {b} : runner'[c] = runner[c]
      /\ runner[b].pc \in Working
      /\ runner'[b].pc \in {"markFailed", "finish", "group"}
      /\ runner'[b].left = {}
      /\ runner'[b].rows = IF o = "ok" THEN Claimable ELSE {}
  BY <1>0 DEF Claim, RunnerAt, Working, TypeOK, NoRunner
<1>3. InHand(b)'
  BY <1>1, <1>2 DEF InHand
<1> QED
  BY <1>2, <1>3, OthersInHand

LEMMA LoadStateHeld ==
  ASSUME HeldInv, NEW b \in Batches, NEW p \in Profiles, NEW o \in Outcomes,
         LoadState(b, p, o)
  PROVE  HeldGoal
<1>0. TypeOK /\ InHand(b)
  BY DEF HeldInv, OwnInv, StartInv
<1>1. UNCHANGED <<status, rep>> /\ runner[b].pc = "group"
  BY DEF LoadState, RunnerAt
<1>2. CASE o = "ok"
  <2>1. runner' = [runner EXCEPT ![b].pc = "engine", ![b].cur = p, ![b].base = rep[p]]
    BY <1>2 DEF LoadState
  <2>2. /\ \A c \in Batches \ {b} : runner'[c] = runner[c]
        /\ runner'[b].pc = "engine" /\ runner'[b].cur = p /\ runner'[b].base = rep[p]
        /\ runner'[b].rows = runner[b].rows /\ runner'[b].left = runner[b].left
    BY <1>0, <2>1 DEF TypeOK, Runner
  <2>3. InHand(b)'
    BY <1>0, <1>1, <2>2 DEF InHand
  <2> QED
    BY <1>1, <2>2, <2>3, OthersInHand DEF Working
<1>3. CASE o # "ok"
  <2>1. /\ \A c \in Batches \ {b} : runner'[c] = runner[c]
        /\ runner'[b].pc = "handle" /\ runner'[b].rows = runner[b].rows
        /\ runner'[b].cur = p
        /\ runner'[b].left = {r \in runner[b].rows : Target[r] = p}
    BY <1>0, <1>3, HandleRows DEF LoadState
  <2>2. InHand(b)'
    BY <1>0, <1>1, <2>1 DEF InHand, Group
  <2> QED
    BY <1>1, <2>1, <2>2, OthersInHand DEF Working
<1> QED
  BY <1>2, <1>3

LEMMA EngineHeld ==
  ASSUME HeldInv, NEW b \in Batches,
         EngineFolds(b) \/ EngineRaises(b) \/ \E w \in EngineVerdicts : EngineRefuses(b, w)
  PROVE  HeldGoal
<1>0. TypeOK /\ InHand(b)
  BY DEF HeldInv, OwnInv, StartInv
<1>1. UNCHANGED <<status, rep>> /\ runner[b].pc = "engine"
  BY DEF EngineFolds, EngineRaises, EngineRefuses, RunnerAt
<1>2. CASE EngineFolds(b)
  <2>1. /\ \A c \in Batches \ {b} : runner'[c] = runner[c]
        /\ runner'[b] = [runner[b] EXCEPT !.pc = "commit"]
    BY <1>0, <1>2 DEF EngineFolds, Continue, TypeOK
  <2>2. /\ runner'[b].pc = "commit" /\ runner'[b].rows = runner[b].rows
        /\ runner'[b].cur = runner[b].cur /\ runner'[b].base = runner[b].base
        /\ runner'[b].left = runner[b].left
    BY <1>0, <2>1 DEF TypeOK, Runner
  <2>3. InHand(b)'
    BY <1>0, <1>1, <2>2 DEF InHand, Group
  <2> QED
    BY <1>1, <2>1, <2>3, OthersInHand DEF Working
<1>3. ASSUME NEW w, NEW t, Handle(b, runner[b].cur, w, t) PROVE HeldGoal
  <2>1. runner[b].cur \in Profiles /\ \A r \in runner[b].rows : status'[r] = "PROCESSING"
    BY <1>0, <1>1 DEF InHand
  <2>2. InHand(b)' /\ \A c \in Batches \ {b} : runner'[c] = runner[c]
    BY <1>0, <1>3, <2>1, MoveOn DEF Group
  <2> QED
    BY <1>1, <2>2, OthersInHand DEF Working
<1> QED
  BY <1>2, <1>3 DEF EngineRaises, EngineRefuses

(* What a task that commits has in its hands. *)
LEMMA AtCommit ==
  ASSUME HeldInv, NEW b \in Batches, RunnerAt(b, "commit")
  PROVE  /\ runner[b].cur \in Profiles /\ runner[b].base = rep[runner[b].cur]
         /\ \A r \in runner[b].rows : status[r] = "PROCESSING"
         /\ Group(b) \subseteq runner[b].rows /\ runner[b].rows \subseteq Reviews
         /\ \A r \in Group(b) : Target[r] = runner[b].cur
BY DEF HeldInv, OwnInv, StartInv, TypeOK, Runner, RunnerAt, InHand, Group

LEMMA CommitHeld ==
  ASSUME HeldInv, NEW b \in Batches, NEW o \in Outcomes, Commit(b, o)
  PROVE  HeldGoal
<1>0. TypeOK /\ RunnerAt(b, "commit")
  BY DEF HeldInv, OwnInv, StartInv, Commit
<1>1. \A r \in runner[b].rows :
        /\ status'[r] \in {"PROCESSING", "COMMITTED"}
        /\ r \notin Group(b) => status'[r] = "PROCESSING"
  BY <1>0, AtCommit DEF Commit
<1>2. InHand(b)' /\ \A c \in Batches \ {b} : runner'[c] = runner[c]
  BY <1>0, <1>1, AtCommit, MoveOn DEF Commit
<1> QED
  BY <1>0, <1>2, OthersInHand DEF RunnerAt, Working

(* ... and one that passes verdicts; what the verdict changes.             *)
LEMMA AtHandle ==
  ASSUME HeldInv, NEW b \in Batches, NEW r \in Reviews, NEW o \in Outcomes, HandleRow(b, r, o)
  PROVE  /\ runner[b].pc = "handle" /\ runner[b].cur \in Profiles
         /\ r \in Group(b) /\ Group(b) \subseteq runner[b].rows /\ runner[b].rows \subseteq Reviews
         /\ \A q \in Reviews \ {r} : status'[q] = status[q] /\ retryCount'[q] = retryCount[q]
         /\ \/ status'[r] = status[r] /\ retryCount'[r] = retryCount[r]
            \/ status'[r] = Verdict(b, r) /\ retryCount'[r] = runner[b].retry[r] + 1
         /\ Verdict(b, r) \in {"GATED", "FAILED"}
<1>0. TypeOK /\ InHand(b)
  BY DEF HeldInv, OwnInv, StartInv
<1>1. Verdict(b, r) \in {"GATED", "FAILED"}
  BY DEF Verdict
<1> QED
  BY <1>0, <1>1 DEF HandleRow, RunnerAt, InHand, Group, TypeOK, Runner

LEMMA HandleRowHeld ==
  ASSUME HeldInv, NEW b \in Batches, NEW r \in Reviews, NEW o \in Outcomes, HandleRow(b, r, o)
  PROVE  HeldGoal
<1>0. TypeOK /\ InHand(b) /\ UNCHANGED rep
  BY DEF HeldInv, OwnInv, StartInv, HandleRow
<1>1. /\ runner[b].pc = "handle" /\ runner[b].cur \in Profiles
      /\ Group(b) \subseteq runner[b].rows
      /\ \A q \in Group(b) : Target[q] = runner[b].cur
  BY <1>0, AtHandle DEF Group
<1>2. /\ \A q \in Group(b) : status'[q] \in {"PROCESSING", "GATED", "FAILED", "COMMITTED"}
      /\ \A q \in runner[b].rows \ Group(b) : status'[q] = "PROCESSING"
  <2>1. \A q \in runner[b].rows : \/ status'[q] = status[q]
                                  \/ q \in Group(b) /\ status'[q] \in {"GATED", "FAILED"}
    BY AtHandle
  <2> QED
    BY <1>0, <1>1, <2>1 DEF InHand, Group
<1>3. InHand(b)' /\ \A c \in Batches \ {b} : runner'[c] = runner[c]
  <2>1. CASE NextGroup(b) \/ Handle(b, runner[b].cur, TRUE, FALSE)
    BY <1>0, <1>1, <1>2, <2>1, MoveOn
  <2>2. CASE runner' = [runner EXCEPT ![b].left = @ \ {r}]
    <3>1. /\ \A c \in Batches \ {b} : runner'[c] = runner[c]
          /\ runner'[b].pc = "handle" /\ runner'[b].rows = runner[b].rows
          /\ runner'[b].cur = runner[b].cur
          /\ runner'[b].left = runner[b].left \ {r}
      BY <1>0, <1>1, <2>2 DEF TypeOK, Runner
    <3> QED
      BY <1>0, <1>1, <1>2, <3>1 DEF InHand, Group
  <2>3. CASE runner' = [runner EXCEPT ![b] = [NoRunner EXCEPT !.pc = "markFailed"]]
    BY <1>0, <2>3 DEF TypeOK, NoRunner, InHand
  <2> QED
    BY <2>1, <2>2, <2>3 DEF HandleRow
<1> QED
  BY <1>1, <1>3, OthersInHand DEF Working

(* The other steps leave the states and the retry counts; at most they put *)
(* a review that nobody has in hand (back) among those to be claimed, and  *)
(* take rows out of hands.                                                 *)
Aside ==
  /\ UNCHANGED <<rep, retryCount>>
  /\ \A r \in Reviews :
       \/ status'[r] = status[r]
       \/ /\ status[r] \in {"NONE", "PROCESSING"} /\ status'[r] = "GATED"
          /\ \A b \in Batches : r \notin runner[b].rows
  /\ \A b \in Batches : /\ runner'[b].rows \subseteq runner[b].rows
                        /\ runner'[b].rows # {} => runner'[b].retry = runner[b].retry

(* ... and, when they do not move a task through run_batch, empty hands.   *)
Resting ==
  \A b \in Batches :
    \/ runner'[b] = runner[b]
    \/ /\ runner'[b].rows = {} /\ runner'[b].left = {}
       /\ runner'[b].pc \notin {"engine", "commit", "handle"}

LEMMA RestingHeld ==
  ASSUME HeldInv, Aside, Resting
  PROVE  HeldGoal
<1> SUFFICES ASSUME NEW b \in Batches PROVE InHand(b)'
  BY DEF HeldGoal
<1>0. InHand(b) /\ UNCHANGED rep /\ runner[b].rows \subseteq Reviews
  BY DEF HeldInv, OwnInv, StartInv, TypeOK, Runner, Aside
<1>1. CASE runner'[b] = runner[b]
  <2>1. \A r \in runner[b].rows : status'[r] = status[r]
    BY <1>0 DEF Aside
  <2>2. Group(b)' = Group(b)
    BY <1>1 DEF Group
  <2> QED
    BY <1>0, <1>1, <2>1, <2>2 DEF InHand
<1>2. CASE runner'[b] # runner[b]
  BY <1>2 DEF Resting, InHand
<1> QED
  BY <1>1, <1>2

(* The reviews of a batch without a task are in nobody's hands. *)
LEMMA RequeueAside ==
  ASSUME HeldInv, NEW B \in SUBSET Batches, \A b \in B : runner[b].rows = {},
         RequeueReviewsOf(B) \/ UNCHANGED reviewVars
  PROVE  /\ UNCHANGED retryCount
         /\ \A r \in Reviews :
              \/ status'[r] = status[r]
              \/ /\ status[r] = "PROCESSING" /\ status'[r] = "GATED"
                 /\ \A b \in Batches : r \notin runner[b].rows
BY DEF HeldInv, OwnInv, RowsOwned, RequeueReviewsOf, reviewVars

LEMMA EndAside ==
  ASSUME HeldInv, NEW b \in Batches, NEW o \in Outcomes,
         Finish(b, o) \/ MarkFailed(b, o) \/ Requeue(b, o)
  PROVE  Aside /\ Resting
<1>0. TypeOK /\ InHand(b)
  BY DEF HeldInv, OwnInv, StartInv
<1>1. runner[b].rows = {} /\ runner[b].left = {}
  BY <1>0 DEF HeldInv, OwnInv, RowsOwned, InHand, Finish, MarkFailed, Requeue, RunnerAt, InGroups
<1>2. UNCHANGED rep /\ (RequeueReviewsOf({b}) \/ UNCHANGED reviewVars)
  BY DEF Finish, MarkFailed, Requeue, reviewVars
<1>3. /\ \A c \in Batches \ {b} : runner'[c] = runner[c]
      /\ runner'[b].rows = {} /\ runner'[b].left = {}
      /\ runner'[b].pc \notin {"engine", "commit", "handle"}
  <2>1. CASE Finish(b, o)
    BY <1>0, <2>1 DEF Finish, NoRunner, TypeOK
  <2>2. ASSUME NEW place \in {"none", "requeue"}, Continue(b, place) PROVE <1>3!:
    BY <1>0, <1>1, <2>2 DEF Continue, TypeOK, Runner
  <2>3. CASE MarkFailed(b, o) \/ Requeue(b, o)
    BY <2>2, <2>3 DEF MarkFailed, Requeue
  <2> QED
    BY <2>1, <2>3
<1> DEFINE B == {b}
<1>4. B \in SUBSET Batches /\ (\A c \in B : runner[c].rows = {})
      /\ (RequeueReviewsOf(B) \/ UNCHANGED reviewVars)
  BY <1>1, <1>2
<1> HIDE DEF B
<1>5. UNCHANGED retryCount /\ \A r \in Reviews :
        \/ status'[r] = status[r]
        \/ /\ status[r] = "PROCESSING" /\ status'[r] = "GATED"
           /\ \A c \in Batches : r \notin runner[c].rows
  BY <1>4, RequeueAside
<1> QED
  BY <1>2, <1>3, <1>5 DEF Aside, Resting

LEMMA SweepAside ==
  ASSUME HeldInv, NEW s \in Starters, Sweep(s)
  PROVE  Aside /\ Resting
<1>1. UNCHANGED <<runner, rep>>
  BY DEF Sweep, SweepMark, SweepRequeue
<1> DEFINE B == starter[s].swept
<1>2. RequeueReviewsOf(B) \/ UNCHANGED reviewVars
  BY DEF Sweep, SweepMark, SweepRequeue, reviewVars
<1>3. B \in SUBSET Batches /\ \A b \in B : runner[b].rows = {}
  BY DEF HeldInv, OwnInv, StartInv, TypeOK, Starter, SweptIsRetired, WorkerIsRunning,
         RowsOwned, Working, InGroups
<1> HIDE DEF B
<1>4. UNCHANGED retryCount /\ \A r \in Reviews :
        \/ status'[r] = status[r]
        \/ /\ status[r] = "PROCESSING" /\ status'[r] = "GATED"
           /\ \A c \in Batches : r \notin runner[c].rows
  BY <1>2, <1>3, RequeueAside
<1> QED
  BY <1>1, <1>4 DEF Aside, Resting

LEMMA RestAside ==
  ASSUME HeldInv,
         \/ \E s \in Starters : Start(s) \/ CrashStarter(s)
         \/ \E b \in Batches : Age(b) \/ CrashRunner(b)
         \/ (\E r \in Reviews : Accept(r))
         \/ UNCHANGED vars
  PROVE  Aside /\ Resting
<1>0. TypeOK /\ \A b \in Batches : InHand(b)
  BY DEF HeldInv, OwnInv, StartInv
<1>1. CASE UNCHANGED <<status, retryCount, rep, runner>>
  BY <1>1 DEF Aside, Resting
<1>2. ASSUME NEW s \in Starters, NEW b \in Batches, NEW o \in Outcomes, Insert(s, b, o)
      PROVE  Aside /\ Resting
  <2>1. /\ UNCHANGED <<status, retryCount, rep>> /\ runner[b].pc = "none"
        /\ \A c \in Batches \ {b} : runner'[c] = runner[c]
        /\ runner'[b].pc \in {"none", "claim"}
        /\ runner'[b].rows = runner[b].rows /\ runner'[b].left = runner[b].left
    BY <1>0, <1>2 DEF Insert, Fresh, TypeOK, Runner
  <2>2. runner[b].rows = {} /\ runner[b].left = {}
    BY <1>0, <2>1 DEF HeldInv, OwnInv, RowsOwned, InHand, InGroups
  <2> QED
    BY <2>1, <2>2 DEF Aside, Resting
<1>3. ASSUME NEW b \in Batches, CrashRunner(b) PROVE Aside /\ Resting
  <2>1. /\ UNCHANGED <<status, retryCount, rep>>
        /\ \A c \in Batches \ {b} : runner'[c] = runner[c]
        /\ runner'[b] = NoRunner
    BY <1>0, <1>3 DEF CrashRunner, TypeOK
  <2> QED
    BY <2>1 DEF Aside, Resting, NoRunner
<1>4. ASSUME NEW r \in Reviews, Accept(r) PROVE Aside /\ Resting
  <2>1. /\ UNCHANGED <<retryCount, rep, runner>> /\ status[r] = "NONE" /\ status'[r] = "GATED"
        /\ \A q \in Reviews \ {r} : status'[q] = status[q]
    BY <1>0, <1>4 DEF Accept, TypeOK
  <2>2. \A b \in Batches : r \notin runner[b].rows
    BY <1>0, <2>1 DEF InHand
  <2> QED
    BY <2>1, <2>2 DEF Aside, Resting
<1> QED
  BY <1>1, <1>2, <1>3, <1>4 DEF Start, Lock, Check, CrashStarter, Age, vars

LEMMA HeldInvNext ==
  ASSUME "slow" \notin Faults
  PROVE  HeldInv /\ [Next]_vars => HeldInv'
<1> SUFFICES ASSUME HeldInv, [Next]_vars PROVE OwnInv' /\ HeldGoal
  BY DEF HeldInv, HeldGoal
<1>1. OwnInv'
  BY OwnInvNext DEF HeldInv
<1>2. ASSUME NEW b \in Batches, Run(b) PROVE HeldGoal
  BY <1>2, ClaimHeld, LoadStateHeld, EngineHeld, CommitHeld, HandleRowHeld, EndAside, RestingHeld
     DEF Run
<1>3. ASSUME NEW s \in Starters, Sweep(s) PROVE HeldGoal
  BY <1>3, SweepAside, RestingHeld
<1> QED
  BY <1>1, <1>2, <1>3, RestAside, RestingHeld DEF Next

(***************************************************************************)
(* What matters to the fold: a step claims rows, commits a group, passes a *)
(* verdict on a row, or stands aside.                                      *)
(***************************************************************************)
LEMMA GroupAside ==
  ASSUME HeldInv, NEW b \in Batches,
         \/ \E p \in Profiles, o \in Outcomes : LoadState(b, p, o)
         \/ EngineFolds(b) \/ EngineRaises(b)
         \/ \E w \in EngineVerdicts : EngineRefuses(b, w)
  PROVE  Aside
<1>0. TypeOK /\ UNCHANGED <<status, rep, retryCount>>
  BY DEF HeldInv, OwnInv, StartInv, LoadState, EngineFolds, EngineRaises, EngineRefuses
<1>1. ASSUME /\ \A c \in Batches \ {b} : runner'[c] = runner[c]
             /\ runner'[b].rows = runner[b].rows /\ runner'[b].retry = runner[b].retry
      PROVE  Aside
  BY <1>0, <1>1 DEF Aside
<1>2. ASSUME NEW p, NEW w, NEW t, Handle(b, p, w, t) PROVE Aside
  BY <1>0, <1>1, <1>2, HandleRows
<1>3. CASE EngineFolds(b)
  BY <1>0, <1>1, <1>3 DEF EngineFolds, Continue, TypeOK, Runner
<1>4. ASSUME NEW p \in Profiles, NEW o \in Outcomes, LoadState(b, p, o) PROVE Aside
  <2>1. CASE o = "ok"
    <3>1. runner' = [runner EXCEPT ![b].pc = "engine", ![b].cur = p, ![b].base = rep[p]]
      BY <1>4, <2>1 DEF LoadState
    <3> QED
      BY <1>0, <1>1, <3>1 DEF TypeOK, Runner
  <2>2. CASE o # "ok"
    BY <1>2, <1>4, <2>2 DEF LoadState
  <2> QED
    BY <2>1, <2>2
<1> QED
  BY <1>2, <1>3, <1>4 DEF EngineRaises, EngineRefuses

LEMMA StepKinds ==
  ASSUME HeldInv, [Next]_vars
  PROVE  \/ Aside
         \/ \E b \in Batches, o \in Outcomes : Claim(b, o) \/ Commit(b, o)
         \/ \E b \in Batches, r \in Reviews, o \in Outcomes : HandleRow(b, r, o)
<1>1. ASSUME NEW b \in Batches, Run(b)
      PROVE  \/ Aside
             \/ \E o \in Outcomes : Claim(b, o) \/ Commit(b, o)
             \/ \E r \in Reviews, o \in Outcomes : HandleRow(b, r, o)
  BY <1>1, GroupAside, EndAside DEF Run
<1> QED
  BY <1>1, SweepAside, RestAside DEF Next

(* What the three kinds that are not Aside do to the rows in hand.         *)
LEMMA ClaimTakes ==
  ASSUME HeldInv, NEW b \in Batches, NEW o \in Outcomes, Claim(b, o)
  PROVE  /\ UNCHANGED <<rep, retryCount>>
         /\ \A r \in Reviews : \/ status'[r] = status[r]
                               \/ status[r] = "GATED" /\ status'[r] = "PROCESSING"
         /\ \A c \in Batches \ {b} : runner'[c] = runner[c]
         /\ \A r \in runner'[b].rows : /\ r \in Reviews
                                       /\ status[r] = "GATED" /\ status'[r] = "PROCESSING"
                                       /\ runner'[b].retry[r] = retryCount[r]
<1>0. TypeOK
  BY DEF HeldInv, OwnInv, StartInv
<1>1. /\ \A c \in Batches \ {b} : runner'[c] = runner[c]
      /\ runner'[b].rows = IF o = "ok" THEN Claimable ELSE {}
      /\ runner'[b].retry = [r \in Reviews |->
                               IF o = "ok" /\ r \in Claimable THEN retryCount[r] ELSE 0]
  BY <1>0 DEF Claim, TypeOK, NoRunner
<1>2. \A r \in Claimable : r \in Reviews /\ status[r] = "GATED"
  BY DEF Claimable, Oldest
<1>3. /\ UNCHANGED <<rep, retryCount>>
      /\ \A r \in Reviews : \/ status'[r] = status[r]
                            \/ status[r] = "GATED" /\ status'[r] = "PROCESSING"
  BY <1>0, <1>2 DEF Claim, TypeOK
<1>4. o = "ok" => \A r \in Claimable : status'[r] = "PROCESSING"
  BY <1>0, <1>2 DEF Claim, Applied
<1> QED
  BY <1>1, <1>2, <1>3, <1>4

LEMMA CommitFolds ==
  ASSUME HeldInv, NEW b \in Batches, NEW o \in Outcomes, Commit(b, o)
  PROVE  /\ UNCHANGED retryCount
         /\ \A c \in Batches \ {b} : runner'[c] = runner[c]
         /\ runner'[b].rows \subseteq runner[b].rows /\ runner'[b].retry = runner[b].retry
         /\ o = "ok" => runner'[b].rows = runner[b].rows \ Group(b)
         /\ Applied(o) =>
              /\ \A p \in Profiles, r \in Reviews :
                   rep'[p][r] = IF p = runner[b].cur /\ r \in Group(b)
                                THEN rep[p][r] + 1 ELSE rep[p][r]
              /\ \A r \in Reviews :
                   status'[r] = IF r \in Group(b) THEN "COMMITTED" ELSE status[r]
         /\ ~Applied(o) => UNCHANGED <<rep, status>>
<1>0. TypeOK /\ RunnerAt(b, "commit")
  BY DEF HeldInv, OwnInv, StartInv, Commit
<1>1. /\ \A c \in Batches \ {b} : runner'[c] = runner[c]
      /\ runner'[b].rows = IF o = "ok" THEN runner[b].rows \ Group(b) ELSE runner[b].rows
      /\ runner'[b].retry = runner[b].retry
  BY <1>0, HandleRows, NextGroupRows DEF Commit
<1>2. ASSUME Applied(o), NEW p \in Profiles, NEW r \in Reviews
      PROVE  rep'[p][r] = IF p = runner[b].cur /\ r \in Group(b)
                          THEN rep[p][r] + 1 ELSE rep[p][r]
  BY <1>0, <1>2, AtCommit DEF Commit, Fold, TypeOK
<1> QED
  BY <1>1, <1>2 DEF Commit

LEMMA VerdictKeeps ==
  ASSUME HeldInv, NEW b \in Batches, NEW r \in Reviews, NEW o \in Outcomes, HandleRow(b, r, o)
  PROVE  /\ UNCHANGED rep
         /\ \A c \in Batches \ {b} : runner'[c] = runner[c]
         /\ runner'[b].rows \subseteq runner[b].rows
         /\ runner'[b].rows # {} => runner'[b].retry = runner[b].retry
<1>0. TypeOK /\ UNCHANGED rep
  BY DEF HeldInv, OwnInv, StartInv, HandleRow
<1>1. CASE NextGroup(b) \/ Handle(b, runner[b].cur, TRUE, FALSE)
  BY <1>0, <1>1, HandleRows, NextGroupRows
<1>2. CASE runner' = [runner EXCEPT ![b].left = @ \ {r}]
  BY <1>0, <1>2 DEF TypeOK, Runner
<1>3. CASE runner' = [runner EXCEPT ![b] = [NoRunner EXCEPT !.pc = "markFailed"]]
  BY <1>0, <1>3 DEF TypeOK, NoRunner
<1> QED
  BY <1>1, <1>2, <1>3 DEF HandleRow

(***************************************************************************)
(* Every fold is charged.                                                  *)
(***************************************************************************)
Due(r) == IF status[r] = "COMMITTED" THEN 1 ELSE 0

(* At least once: the state of a profile contains each COMMITTED review of *)
(* its own, no review of another's, and a review more often than that only *)
(* if each surplus fold has cost the review one of its retries.            *)
EveryFoldCharged ==
  \A p \in Profiles, r \in Reviews :
    IF Target[r] = p
    THEN Due(r) <= rep[p][r] /\ rep[p][r] <= retryCount[r] + Due(r)
    ELSE rep[p][r] = 0

(* A row in hand has been folded since it was claimed once at most.        *)
RowsCharged ==
  \A b \in Batches : \A r \in runner[b].rows :
    /\ rep[Target[r]][r] <= runner[b].retry[r] + 1
    /\ status[r] = "PROCESSING" => runner[b].retry[r] = retryCount[r]

ChargeInv == HeldInv /\ EveryFoldCharged /\ RowsCharged

LEMMA ChargeInvInit == Init => ChargeInv
<1> SUFFICES ASSUME Init PROVE ChargeInv
  OBVIOUS
<1> QED
  BY HeldInvInit DEF ChargeInv, EveryFoldCharged, RowsCharged, Due, Init, EmptyState, NoRunner

LEMMA CommitCharged ==
  ASSUME ChargeInv, TypeOK', NEW b \in Batches, NEW o \in Outcomes, Commit(b, o)
  PROVE  EveryFoldCharged' /\ RowsCharged'
<1>0. TypeOK /\ HeldInv /\ RunnerAt(b, "commit") /\ UNCHANGED retryCount
  BY CommitFolds DEF ChargeInv, HeldInv, OwnInv, StartInv, Commit
<1>1. \A c \in Batches \ {b} : runner'[c] = runner[c] /\ runner[c].rows = {}
  BY <1>0, CommitFolds, OneWorker DEF HeldInv, RunnerAt, Working
<1>2. CASE Applied(o)
  <2>1. ASSUME NEW p \in Profiles, NEW r \in Reviews
        PROVE  IF Target[r] = p
               THEN Due(r)' <= rep'[p][r] /\ rep'[p][r] <= retryCount'[r] + Due(r)'
               ELSE rep'[p][r] = 0
    <3>0. /\ rep[p][r] \in Nat /\ retryCount[r] \in Nat
          /\ IF Target[r] = p
             THEN Due(r) <= rep[p][r] /\ rep[p][r] <= retryCount[r] + Due(r)
             ELSE rep[p][r] = 0
      BY <1>0 DEF TypeOK, State, ChargeInv, EveryFoldCharged
    <3>1. CASE r \in Group(b)
      <4>1. Due(r) = 0 /\ Due(r)' = 1 /\ Target[r] = runner[b].cur
        BY <1>0, <1>2, <3>1, AtCommit, CommitFolds DEF Due
      <4> QED
        BY <1>0, <1>2, <3>0, <3>1, <4>1, CommitFolds
    <3>2. CASE r \notin Group(b)
      <4>1. Due(r)' = Due(r) /\ rep'[p][r] = rep[p][r]
        BY <1>0, <1>2, <3>2, CommitFolds DEF Due
      <4> QED
        BY <1>0, <3>0, <4>1
    <3> QED
      BY <3>1, <3>2
  <2>2. ASSUME NEW r \in runner'[b].rows
        PROVE  /\ rep'[Target[r]][r] <= runner'[b].retry[r] + 1
               /\ status'[r] = "PROCESSING" => runner'[b].retry[r] = retryCount'[r]
    <3>1. /\ r \in runner[b].rows /\ r \in Reviews /\ status[r] = "PROCESSING"
          /\ Target[r] \in Profiles /\ runner'[b].retry = runner[b].retry
      BY <1>0, AtCommit, CommitFolds, TargetAssumption
    <3>2. runner[b].retry[r] = retryCount[r]
      BY <3>1 DEF ChargeInv, RowsCharged
    <3>3. rep'[Target[r]][r] <= retryCount'[r] + Due(r)' /\ Due(r)' <= 1
      BY <2>1, <3>1 DEF Due
    <3>4. rep'[Target[r]][r] \in Nat /\ retryCount[r] \in Nat /\ Due(r)' \in Nat
      BY <1>0, <3>1 DEF TypeOK, State, Due
    <3> QED
      BY <1>0, <3>1, <3>2, <3>3, <3>4
  <2> QED
    BY <1>1, <2>1, <2>2 DEF EveryFoldCharged, RowsCharged
<1>3. CASE ~Applied(o)
  <2>1. UNCHANGED <<rep, status>> /\ runner'[b].rows \subseteq runner[b].rows
        /\ runner'[b].retry = runner[b].retry
    BY <1>0, <1>3, CommitFolds
  <2> QED
    BY <1>0, <1>1, <2>1 DEF ChargeInv, EveryFoldCharged, RowsCharged, Due
<1> QED
  BY <1>2, <1>3

LEMMA HandleRowCharged ==
  ASSUME ChargeInv, NEW b \in Batches, NEW r \in Reviews, NEW o \in Outcomes, HandleRow(b, r, o)
  PROVE  EveryFoldCharged' /\ RowsCharged'
<1>0. TypeOK /\ HeldInv /\ UNCHANGED rep /\ r \in runner[b].rows
  BY AtHandle, VerdictKeeps DEF ChargeInv, HeldInv, OwnInv, StartInv
<1>1. \A c \in Batches \ {b} : runner'[c] = runner[c] /\ runner[c].rows = {}
  BY <1>0, AtHandle, VerdictKeeps, OneWorker DEF HeldInv, Working
<1>2. /\ rep[Target[r]][r] <= runner[b].retry[r] + 1
      /\ runner[b].retry[r] \in Nat /\ Target[r] \in Profiles
  BY <1>0, TargetAssumption DEF ChargeInv, RowsCharged, TypeOK, Runner
<1>3. \/ status'[r] = status[r] /\ retryCount'[r] = retryCount[r]
      \/ status'[r] \in {"GATED", "FAILED"} /\ retryCount'[r] = runner[b].retry[r] + 1
  BY <1>0, AtHandle
<1>4. \A q \in Reviews \ {r} : status'[q] = status[q] /\ retryCount'[q] = retryCount[q]
  BY <1>0, AtHandle
<1>5. EveryFoldCharged'
  <2> SUFFICES ASSUME NEW p \in Profiles, NEW q \in Reviews
               PROVE  IF Target[q] = p
                      THEN Due(q)' <= rep[p][q] /\ rep[p][q] <= retryCount'[q] + Due(q)'
                      ELSE rep[p][q] = 0
    BY <1>0 DEF EveryFoldCharged
  <2>1. /\ rep[p][q] \in Nat
        /\ IF Target[q] = p
           THEN Due(q) <= rep[p][q] /\ rep[p][q] <= retryCount[q] + Due(q)
           ELSE rep[p][q] = 0
    BY <1>0 DEF TypeOK, State, ChargeInv, EveryFoldCharged
  <2>2. CASE status'[q] = status[q] /\ retryCount'[q] = retryCount[q]
    BY <2>1, <2>2 DEF Due
  <2>3. CASE q = r /\ status'[r] \in {"GATED", "FAILED"}
             /\ retryCount'[r] = runner[b].retry[r] + 1
    BY <1>2, <2>1, <2>3 DEF Due
  <2> QED
    BY <1>3, <1>4, <2>2, <2>3
<1>6. RowsCharged'
  <2> SUFFICES ASSUME NEW q \in runner'[b].rows
               PROVE  /\ rep[Target[q]][q] <= runner'[b].retry[q] + 1
                      /\ status'[q] = "PROCESSING" => runner'[b].retry[q] = retryCount'[q]
    BY <1>0, <1>1 DEF RowsCharged
  <2>1. q \in runner[b].rows /\ q \in Reviews /\ runner'[b].retry = runner[b].retry
    BY <1>0, VerdictKeeps DEF TypeOK, Runner
  <2> QED
    BY <1>3, <1>4, <2>1 DEF ChargeInv, RowsCharged
<1> QED
  BY <1>5, <1>6

LEMMA ChargeInvNext ==
  ASSUME "slow" \notin Faults
  PROVE  ChargeInv /\ [Next]_vars => ChargeInv'
<1> SUFFICES ASSUME ChargeInv, [Next]_vars PROVE EveryFoldCharged' /\ RowsCharged'
  BY HeldInvNext DEF ChargeInv
<1>0. HeldInv /\ TypeOK /\ TypeOK'
  BY NextType DEF ChargeInv, HeldInv, OwnInv, StartInv
<1>1. CASE Aside
  <2>1. \A r \in Reviews : Due(r)' = Due(r)
    BY <1>1 DEF Aside, Due
  <2>2. EveryFoldCharged'
    BY <1>1, <2>1 DEF Aside, ChargeInv, EveryFoldCharged
  <2>3. RowsCharged'
    <3> SUFFICES ASSUME NEW b \in Batches, NEW r \in runner'[b].rows
                 PROVE  /\ rep'[Target[r]][r] <= runner'[b].retry[r] + 1
                        /\ status'[r] = "PROCESSING" => runner'[b].retry[r] = retryCount'[r]
      BY DEF RowsCharged
    <3>1. r \in runner[b].rows /\ r \in Reviews /\ runner'[b].retry = runner[b].retry
      BY <1>0, <1>1 DEF Aside, TypeOK, Runner
    <3>2. UNCHANGED <<rep, retryCount>> /\ status'[r] = status[r]
      BY <1>1, <3>1 DEF Aside
    <3> QED
      BY <3>1, <3>2 DEF ChargeInv, RowsCharged
  <2> QED
    BY <2>2, <2>3
<1>2. ASSUME NEW b \in Batches, NEW o \in Outcomes, Claim(b, o)
      PROVE  EveryFoldCharged' /\ RowsCharged'
  <2>1. \A r \in Reviews : Due(r)' = Due(r)
    BY <1>0, <1>2, ClaimTakes DEF Due
  <2>2. EveryFoldCharged'
    BY <1>0, <1>2, <2>1, ClaimTakes DEF ChargeInv, EveryFoldCharged
  <2>3. \A c \in Batches \ {b} : runner'[c] = runner[c] /\ runner[c].rows = {}
    BY <1>0, <1>2, ClaimTakes, OneWorker DEF HeldInv, Claim, RunnerAt, Working
  <2>4. ASSUME NEW r \in runner'[b].rows
        PROVE  rep[Target[r]][r] <= retryCount[r] + 1
    <3>1. r \in Reviews /\ Due(r) = 0 /\ Target[r] \in Profiles
      BY <1>0, <1>2, ClaimTakes, TargetAssumption DEF Due
    <3>2. rep[Target[r]][r] <= retryCount[r] + 0
      BY <3>1 DEF ChargeInv, EveryFoldCharged
    <3> QED
      BY <1>0, <3>1, <3>2 DEF TypeOK, State
  <2> QED
    BY <1>0, <1>2, <2>2, <2>3, <2>4, ClaimTakes DEF RowsCharged
<1>3. ASSUME NEW b \in Batches, NEW o \in Outcomes, Commit(b, o)
      PROVE  EveryFoldCharged' /\ RowsCharged'
  BY <1>0, <1>3, CommitCharged
<1>4. ASSUME NEW b \in Batches, NEW r \in Reviews, NEW o \in Outcomes, HandleRow(b, r, o)
      PROVE  EveryFoldCharged' /\ RowsCharged'
  BY <1>4, HandleRowCharged
<1> QED
  BY <1>0, <1>1, <1>2, <1>3, <1>4, StepKinds

(* Whatever fails, dies or goes unanswered, a lost answer to the COMMIT of *)
(* a fold included: while no live batch outlasts the threshold, no         *)
(* COMMITTED review is missing from its profile's state, and every fold    *)
(* beyond the first has cost the review a retry.                           *)
THEOREM FoldedAtLeastOnce ==
  ASSUME "slow" \notin Faults
  PROVE  Spec => []EveryFoldCharged
<1>1. Spec => []ChargeInv
  BY ChargeInvInit, ChargeInvNext, PTL DEF Spec
<1>2. ChargeInv => EveryFoldCharged
  BY DEF ChargeInv
<1> QED
  BY <1>1, <1>2, PTL

(***************************************************************************)
(* Exactly once.  Unless the answer to a COMMIT is lost, no row in hand is *)
(* COMMITTED: so none is folded twice, and none is sent back.              *)
(***************************************************************************)
RowsUncommitted == \A b \in Batches : \A r \in runner[b].rows : status[r] # "COMMITTED"

FoldInv == HeldInv /\ RowsUncommitted /\ ExactlyOnce

LEMMA FoldInvInit == Init => FoldInv
<1> SUFFICES ASSUME Init PROVE FoldInv
  OBVIOUS
<1> QED
  BY HeldInvInit DEF FoldInv, RowsUncommitted, ExactlyOnce, Init, EmptyState, NoRunner

FoldGoal ==
  /\ RowsUncommitted' /\ ExactlyOnce'
  /\ \A r \in Reviews : status[r] = "COMMITTED" => status'[r] = "COMMITTED"

(* A step that writes no state, turns no review COMMITTED or back and puts *)
(* no COMMITTED row into a task's hands.                                   *)
LEMMA NoFold ==
  ASSUME FoldInv, UNCHANGED rep,
         \A r \in Reviews : status'[r] = "COMMITTED" <=> status[r] = "COMMITTED",
         \A b \in Batches : \A r \in runner'[b].rows :
           r \in Reviews /\ (r \in runner[b].rows \/ status'[r] # "COMMITTED")
  PROVE  FoldGoal
BY DEF FoldInv, ExactlyOnce, RowsUncommitted, FoldGoal

LEMMA CommitFold ==
  ASSUME "lostfold" \notin Faults, FoldInv, TypeOK', NEW b \in Batches, NEW o \in Outcomes,
         Commit(b, o)
  PROVE  FoldGoal
<1>0. TypeOK /\ HeldInv /\ RunnerAt(b, "commit")
      /\ \A c \in Batches : runner'[c].rows \subseteq Reviews
  BY DEF FoldInv, HeldInv, OwnInv, StartInv, Commit, TypeOK, Runner
<1>1. CASE o = "ok"
  <2>1. ASSUME NEW p \in Profiles, NEW r \in Reviews
        PROVE  rep'[p][r] = IF status'[r] = "COMMITTED" /\ Target[r] = p THEN 1 ELSE 0
    <3>1. rep[p][r] = IF status[r] = "COMMITTED" /\ Target[r] = p THEN 1 ELSE 0
      BY DEF FoldInv, ExactlyOnce
    <3>2. CASE r \in Group(b)
      BY <1>0, <1>1, <3>1, <3>2, AtCommit, CommitFolds DEF Applied
    <3>3. CASE r \notin Group(b)
      BY <1>0, <1>1, <3>1, <3>3, CommitFolds DEF Applied
    <3> QED
      BY <3>2, <3>3
  <2>2. RowsUncommitted'
    <3> SUFFICES ASSUME NEW c \in Batches, NEW r \in runner'[c].rows
                 PROVE  status'[r] # "COMMITTED"
      BY DEF RowsUncommitted
    <3>1. CASE c = b
      BY <1>0, <1>1, <3>1, AtCommit, CommitFolds DEF Applied
    <3>2. CASE c # b
      <4>1. r \in {}
        BY <1>0, <3>2, CommitFolds, OneWorker DEF HeldInv, RunnerAt, Working
      <4> QED
        BY <4>1
    <3> QED
      BY <3>1, <3>2
  <2> QED
    BY <1>0, <1>1, <2>1, <2>2, CommitFolds DEF ExactlyOnce, FoldGoal, Applied
<1>2. CASE o # "ok"
  <2>1. ~Applied(o)
    BY <1>2 DEF Commit, Outcomes, Applied
  <2> QED
    BY <1>0, <2>1, CommitFolds, NoFold
<1> QED
  BY <1>1, <1>2

LEMMA FoldInvStep ==
  ASSUME "lostfold" \notin Faults, FoldInv, [Next]_vars
  PROVE  FoldGoal
<1>0. HeldInv /\ TypeOK /\ TypeOK' /\ \A b \in Batches : runner'[b].rows \subseteq Reviews
  BY NextType DEF FoldInv, HeldInv, OwnInv, StartInv, TypeOK, Runner
<1>1. CASE Aside
  BY <1>0, <1>1, NoFold DEF Aside
<1>2. ASSUME NEW b \in Batches, NEW o \in Outcomes, Claim(b, o) PROVE FoldGoal
  BY <1>0, <1>2, ClaimTakes, NoFold
<1>3. ASSUME NEW b \in Batches, NEW o \in Outcomes, Commit(b, o) PROVE FoldGoal
  BY <1>0, <1>3, CommitFold
<1>4. ASSUME NEW b \in Batches, NEW r \in Reviews, NEW o \in Outcomes, HandleRow(b, r, o)
      PROVE  FoldGoal
  <2>1. \A c \in Batches : runner'[c].rows \subseteq runner[c].rows
    BY <1>0, <1>4, VerdictKeeps
  <2>2. \A q \in Reviews : status'[q] = "COMMITTED" <=> status[q] = "COMMITTED"
    <3>1. status[r] # "COMMITTED"
      BY <1>0, <1>4, AtHandle DEF FoldInv, RowsUncommitted
    <3> QED
      BY <1>0, <1>4, <3>1, AtHandle
  <2> QED
    BY <1>0, <1>4, <2>1, <2>2, VerdictKeeps, NoFold
<1> QED
  BY <1>0, <1>1, <1>2, <1>3, <1>4, StepKinds

LEMMA FoldInvNext ==
  ASSUME "slow" \notin Faults, "lostfold" \notin Faults
  PROVE  FoldInv /\ [Next]_vars => FoldInv'
BY HeldInvNext, FoldInvStep DEF FoldInv, FoldGoal

(* C2: while no live batch outlasts the threshold and no answer to the     *)
(* COMMIT of a fold is lost, a state contains each COMMITTED review of its *)
(* profile exactly once and no other review.                               *)
THEOREM FoldedExactlyOnce ==
  ASSUME "slow" \notin Faults, "lostfold" \notin Faults
  PROVE  Spec => []ExactlyOnce
<1>1. Spec => []FoldInv
  BY FoldInvInit, FoldInvNext, PTL DEF Spec
<1>2. FoldInv => ExactlyOnce
  BY DEF FoldInv
<1> QED
  BY <1>1, <1>2, PTL

(* Under the same conditions no step takes a review out of COMMITTED.      *)
THEOREM CommittedForGood ==
  ASSUME "slow" \notin Faults, "lostfold" \notin Faults
  PROVE  Spec => CommittedIsFinal
<1>1. Spec => []FoldInv
  BY FoldInvInit, FoldInvNext, PTL DEF Spec
<1>2. FoldInv /\ [Next]_vars =>
        [\A r \in Reviews : status[r] = "COMMITTED" => status'[r] = "COMMITTED"]_vars
  BY FoldInvStep DEF FoldGoal
<1> QED
  BY <1>1, <1>2, PTL DEF Spec, CommittedIsFinal
=============================================================================
