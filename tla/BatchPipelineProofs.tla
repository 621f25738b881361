------------------------- MODULE BatchPipelineProofs -------------------------
(***************************************************************************)
(* Theorems about BatchPipeline, for any number of reviews, profiles,      *)
(* batches, starters and faults.                                           *)
(***************************************************************************)
EXTENDS BatchPipeline, TLAPS

(***************************************************************************)
(* Type correctness.                                                       *)
(***************************************************************************)
LEMMA EmptyStateType == EmptyState \in State
BY DEF EmptyState, State

LEMMA NoRunnerType == NoRunner \in Runner
BY EmptyStateType DEF NoRunner, Runner, State

LEMMA InitType == Init => TypeOK
BY EmptyStateType, NoRunnerType
   DEF Init, TypeOK, Statuses, RunStatuses, NoStarter, Starter, State

LEMMA OutcomeType ==
  ASSUME NEW o, faults \in Nat, Outcome(o)
  PROVE  faults' \in Nat
BY DEF Outcome, Suffer

Places == Working \cup {"none", "markFailed", "requeue"}

LEMMA SetRunnerType ==
  ASSUME runner \in [Batches -> Runner], NEW b \in Batches, NEW x \in Runner,
         runner' = [runner EXCEPT ![b] = x]
  PROVE  runner' \in [Batches -> Runner]
OBVIOUS

LEMMA ContinueType ==
  ASSUME runner \in [Batches -> Runner], NEW b \in Batches, NEW place \in Places,
         Continue(b, place)
  PROVE  runner' \in [Batches -> Runner]
<1>1. [runner[b] EXCEPT !.pc = place] \in Runner
  BY DEF Runner, Places
<1> QED
  BY <1>1 DEF Continue

(* A task that drops what it was doing is well formed ... *)
LEMMA ResetType ==
  ASSUME NEW place \in Places
  PROVE  [NoRunner EXCEPT !.pc = place] \in Runner
BY NoRunnerType DEF Runner, Places

(* ... so is one that handles a failed group ... *)
LEMMA HandleType ==
  ASSUME runner \in [Batches -> Runner], NEW b \in Batches, NEW p \in Profiles \cup {NULL},
         NEW w \in BOOLEAN, NEW t \in BOOLEAN, Handle(b, p, w, t)
  PROVE  runner' \in [Batches -> Runner]
<1>1. [NoRunner EXCEPT
        !.pc = "handle", !.rows = runner[b].rows, !.retry = runner[b].retry, !.cur = p,
        !.left = {r \in runner[b].rows : Target[r] = p},
        !.willRetry = w, !.inTry = t] \in Runner
  <2>1. {r \in runner[b].rows : Target[r] = p} \in SUBSET Reviews
    BY DEF Runner
  <2> QED
    BY <2>1, EmptyStateType DEF NoRunner, Runner, Working
<1> QED
  BY <1>1 DEF Handle

(* ... and one that goes on to the next group. *)
LEMMA NextGroupType ==
  ASSUME runner \in [Batches -> Runner], NEW b \in Batches, NextGroup(b)
  PROVE  runner' \in [Batches -> Runner]
<1> DEFINE remaining == runner[b].rows \ Group(b)
<1>1. [NoRunner EXCEPT
        !.pc = IF remaining = {} THEN "finish" ELSE "group",
        !.rows = remaining, !.retry = runner[b].retry] \in Runner
  <2>1. remaining \in SUBSET Reviews
    BY DEF Runner
  <2> HIDE DEF remaining
  <2> QED
    BY <2>1, EmptyStateType DEF NoRunner, Runner, Working
<1> QED
  BY <1>1 DEF NextGroup

LEMMA RunType ==
  ASSUME TypeOK, NEW b \in Batches, Run(b)
  PROVE  TypeOK'
<1> USE DEF TypeOK
<1>1. ASSUME NEW o \in Outcomes, Claim(b, o) PROVE TypeOK'
  <2> DEFINE x == [NoRunner EXCEPT
        !.pc = IF o # "ok" THEN "markFailed"
               ELSE IF Claimable = {} THEN "finish" ELSE "group",
        !.rows = IF o = "ok" THEN Claimable ELSE {},
        !.retry = [r \in Reviews |->
                     IF o = "ok" /\ r \in Claimable THEN retryCount[r] ELSE 0]]
  <2>1. x \in Runner
    <3>1. Claimable \in SUBSET Reviews
      BY DEF Claimable, Oldest
    <3> QED
      BY <3>1, EmptyStateType DEF NoRunner, Runner, Working
  <2>2. runner' \in [Batches -> Runner]
    BY <1>1, <2>1, SetRunnerType DEF Claim
  <2>3. status' \in [Reviews -> Statuses] /\ batchId' \in [Reviews -> Batches \cup {NULL}]
    BY <1>1 DEF Claim, Statuses
  <2> QED
    BY <1>1, <2>2, <2>3, OutcomeType DEF Claim
<1>2. ASSUME NEW p \in Profiles, NEW o \in Outcomes, LoadState(b, p, o) PROVE TypeOK'
  <2>1. CASE o = "ok"
    <3>1. [[[runner[b] EXCEPT !.pc = "engine"] EXCEPT !.cur = p] EXCEPT !.base = rep[p]]
            \in Runner
      BY DEF Runner, Working
    <3>2. runner' \in [Batches -> Runner]
      BY <1>2, <2>1, <3>1 DEF LoadState
    <3> QED
      BY <1>2, <3>2, OutcomeType DEF LoadState
  <2>2. CASE o # "ok"
    <3>1. runner' \in [Batches -> Runner]
      BY <1>2, <2>2, HandleType DEF LoadState
    <3> QED
      BY <1>2, <3>1, OutcomeType DEF LoadState
  <2> QED
    BY <2>1, <2>2
<1>3. CASE EngineFolds(b)
  <2>1. runner' \in [Batches -> Runner]
    BY <1>3, ContinueType DEF EngineFolds, Places, Working
  <2> QED
    BY <1>3, <2>1 DEF EngineFolds
<1>4. ASSUME NEW w \in EngineVerdicts, EngineRefuses(b, w) PROVE TypeOK'
  <2>1. runner[b].cur \in Profiles \cup {NULL} /\ w \in BOOLEAN
    BY ChoicesAssumption DEF Runner
  <2>2. runner' \in [Batches -> Runner]
    BY <1>4, <2>1, HandleType DEF EngineRefuses
  <2> QED
    BY <1>4, <2>2 DEF EngineRefuses
<1>5. CASE EngineRaises(b)
  <2>1. runner[b].cur \in Profiles \cup {NULL}
    BY DEF Runner
  <2>2. runner' \in [Batches -> Runner]
    BY <1>5, <2>1, HandleType DEF EngineRaises
  <2> QED
    BY <1>5, <2>2 DEF EngineRaises
<1>6. ASSUME NEW o \in Outcomes, Commit(b, o) PROVE TypeOK'
  <2>1. runner[b].cur \in Profiles \cup {NULL}
    BY DEF Runner
  <2>2. runner' \in [Batches -> Runner]
    BY <1>6, <2>1, HandleType, NextGroupType DEF Commit
  <2>3. Fold(runner[b].base, Group(b)) \in State
    BY DEF Fold, Runner, State
  <2>4. rep' \in [Profiles -> State]
    BY <1>6, <2>3 DEF Commit
  <2>5. status' \in [Reviews -> Statuses]
    BY <1>6 DEF Commit, Statuses
  <2> QED
    BY <1>6, <2>2, <2>4, <2>5, OutcomeType DEF Commit
<1>7. ASSUME NEW r \in Reviews, NEW o \in Outcomes, HandleRow(b, r, o) PROVE TypeOK'
  <2>1. runner[b].cur \in Profiles \cup {NULL}
    BY DEF Runner
  <2>2. runner' \in [Batches -> Runner]
    <3>1. [runner[b] EXCEPT !.left = @ \ {r}] \in Runner
      BY DEF Runner
    <3>2. [NoRunner EXCEPT !.pc = "markFailed"] \in Runner
      BY ResetType DEF Places
    <3> QED
      BY <1>7, <2>1, <3>1, <3>2, HandleType, NextGroupType DEF HandleRow
  <2>3. retryCount' \in [Reviews -> Nat]
    <3>1. runner[b].retry[r] + 1 \in Nat
      BY DEF Runner
    <3> QED
      BY <1>7, <3>1 DEF HandleRow
  <2>4. status' \in [Reviews -> Statuses]
    BY <1>7 DEF HandleRow, Verdict, Statuses
  <2> QED
    BY <1>7, <2>2, <2>3, <2>4, OutcomeType DEF HandleRow
<1>8. ASSUME NEW o \in Outcomes, Finish(b, o) PROVE TypeOK'
  <2>1. [NoRunner EXCEPT !.pc = IF o = "ok" THEN "none" ELSE "markFailed"] \in Runner
    BY ResetType DEF Places
  <2>2. runner' \in [Batches -> Runner]
    BY <1>8, <2>1, SetRunnerType DEF Finish
  <2>3. batchRun' \in [Batches -> RunStatuses]
    BY <1>8 DEF Finish, RunStatuses
  <2> QED
    BY <1>8, <2>2, <2>3, OutcomeType DEF Finish
<1>9. ASSUME NEW o \in Outcomes, MarkFailed(b, o) PROVE TypeOK'
  <2>1. runner' \in [Batches -> Runner]
    BY <1>9, ContinueType DEF MarkFailed, Places
  <2>2. batchRun' \in [Batches -> RunStatuses]
    BY <1>9 DEF MarkFailed, RunStatuses
  <2> QED
    BY <1>9, <2>1, <2>2, OutcomeType DEF MarkFailed
<1>10. ASSUME NEW o \in Outcomes, Requeue(b, o) PROVE TypeOK'
  <2>1. runner' \in [Batches -> Runner]
    BY <1>10, ContinueType DEF Requeue, Places
  <2>2. status' \in [Reviews -> Statuses] /\ UNCHANGED <<batchId, retryCount>>
    BY <1>10 DEF Requeue, RequeueReviewsOf, reviewVars, Statuses
  <2> QED
    BY <1>10, <2>1, <2>2, OutcomeType DEF Requeue
<1> QED
  BY <1>1, <1>2, <1>3, <1>4, <1>5, <1>6, <1>7, <1>8, <1>9, <1>10 DEF Run

LEMMA GoToType ==
  ASSUME starter \in [Starters -> Starter], NEW s \in Starters,
         NEW place \in {"idle", "lock", "check", "insert"}, GoTo(s, place)
  PROVE  starter' \in [Starters -> Starter]
<1>1. [NoStarter EXCEPT !.pc = place] \in Starter
  BY DEF NoStarter, Starter
<1> QED
  BY <1>1 DEF GoTo

LEMMA StarterType ==
  ASSUME TypeOK, NEW s \in Starters, Sweep(s) \/ Start(s) \/ CrashStarter(s)
  PROVE  TypeOK'
<1> USE DEF TypeOK
<1>1. ASSUME NEW next \in {"lock", "idle"}, NEW o \in Outcomes, SweepMark(s, next, o)
      PROVE TypeOK'
  <2>1. [pc |-> "requeue", swept |-> StaleBatches, next |-> next] \in Starter
    BY DEF StaleBatches, Starter
  <2>2. starter' \in [Starters -> Starter]
    BY <1>1, <2>1, GoToType DEF SweepMark
  <2>3. batchRun' \in [Batches -> RunStatuses]
    BY <1>1 DEF SweepMark, RunStatuses
  <2> QED
    BY <1>1, <2>2, <2>3, OutcomeType DEF SweepMark
<1>2. ASSUME NEW o \in Outcomes, SweepRequeue(s, o) PROVE TypeOK'
  <2>1. (IF o = "ok" THEN starter[s].next ELSE "idle") \in {"idle", "lock"}
    BY DEF Starter
  <2>2. starter' \in [Starters -> Starter]
    BY <1>2, <2>1, GoToType DEF SweepRequeue
  <2>3. status' \in [Reviews -> Statuses] /\ UNCHANGED <<batchId, retryCount>>
    BY <1>2 DEF SweepRequeue, RequeueReviewsOf, reviewVars, Statuses
  <2> QED
    BY <1>2, <2>2, <2>3, OutcomeType DEF SweepRequeue
<1>3. CASE Lock(s)
  BY <1>3, GoToType DEF Lock
<1>4. CASE Check(s)
  BY <1>4, GoToType DEF Check
<1>5. ASSUME NEW b \in Batches, NEW o \in Outcomes, Insert(s, b, o) PROVE TypeOK'
  <2>1. [runner[b] EXCEPT !.pc = "claim"] \in Runner
    BY DEF Runner, Working
  <2>2. runner' \in [Batches -> Runner]
    BY <1>5, <2>1 DEF Insert
  <2>3. batchRun' \in [Batches -> RunStatuses] /\ stale' \in [Batches -> BOOLEAN]
    BY <1>5 DEF Insert, RunStatuses, batchVars
  <2>4. starter' \in [Starters -> Starter]
    BY <1>5, GoToType DEF Insert
  <2> QED
    BY <1>5, <2>2, <2>3, <2>4, OutcomeType DEF Insert
<1>6. CASE CrashStarter(s)
  BY <1>6, GoToType DEF CrashStarter, Suffer
<1> QED
  BY <1>1, <1>2, <1>3, <1>4, <1>5, <1>6 DEF Sweep, Start

LEMMA NextType == TypeOK /\ [Next]_vars => TypeOK'
<1> SUFFICES ASSUME TypeOK, [Next]_vars PROVE TypeOK'
  OBVIOUS
<1>1. ASSUME NEW r \in Reviews, Accept(r) PROVE TypeOK'
  BY <1>1 DEF TypeOK, Accept, Statuses
<1>2. ASSUME NEW b \in Batches, Age(b) PROVE TypeOK'
  BY <1>2 DEF TypeOK, Age, Suffer
<1>3. ASSUME NEW b \in Batches, CrashRunner(b) PROVE TypeOK'
  BY <1>3, NoRunnerType DEF TypeOK, CrashRunner, Suffer
<1>4. CASE UNCHANGED vars
  BY <1>4 DEF TypeOK, vars
<1> QED
  BY <1>1, <1>2, <1>3, <1>4, RunType, StarterType DEF Next

(* Every variable keeps its type, whatever faults occur. *)
THEOREM TypeCorrect == Spec => []TypeOK
BY InitType, NextType, PTL DEF Spec

(***************************************************************************)
(* At most one batch is RUNNING.  Only Insert makes one RUNNING, and it    *)
(* does so holding the lock under which Check saw none; whoever else       *)
(* writes batch_run meanwhile can only retire a batch.                     *)
(***************************************************************************)
LockHeld ==
  \A s \in Starters : starter[s].pc \in {"check", "insert"} => startLock = s

NoneAtInsert ==
  \A s \in Starters : starter[s].pc = "insert" => \A b \in Batches : batchRun[b] # "RUNNING"

StartInv == TypeOK /\ LockHeld /\ NoneAtInsert /\ AtMostOneRunning

LEMMA RunLeavesStart ==
  ASSUME TypeOK, NEW b \in Batches, Run(b)
  PROVE  /\ UNCHANGED <<starter, startLock, stale>>
         /\ \A c \in Batches : batchRun'[c] = "RUNNING" => batchRun[c] = "RUNNING"
<1>1. CASE \E o \in Outcomes : Claim(b, o)
  BY <1>1 DEF Claim
<1>2. CASE \E p \in Profiles, o \in Outcomes : LoadState(b, p, o)
  BY <1>2 DEF LoadState
<1>3. CASE EngineFolds(b) \/ EngineRaises(b) \/ \E w \in EngineVerdicts : EngineRefuses(b, w)
  BY <1>3 DEF EngineFolds, EngineRaises, EngineRefuses
<1>4. CASE \E o \in Outcomes : Commit(b, o)
  BY <1>4 DEF Commit
<1>5. CASE \E r \in Reviews, o \in Outcomes : HandleRow(b, r, o)
  BY <1>5 DEF HandleRow
<1>6. CASE \E o \in Outcomes : Finish(b, o)
  BY <1>6 DEF Finish, TypeOK
<1>7. CASE \E o \in Outcomes : MarkFailed(b, o)
  BY <1>7 DEF MarkFailed, TypeOK
<1>8. CASE \E o \in Outcomes : Requeue(b, o)
  BY <1>8 DEF Requeue
<1> QED
  BY <1>1, <1>2, <1>3, <1>4, <1>5, <1>6, <1>7, <1>8 DEF Run

LEMMA StartInvInit == Init => StartInv
<1> SUFFICES ASSUME Init PROVE StartInv
  OBVIOUS
<1>1. TypeOK
  BY InitType
<1>2. LockHeld /\ NoneAtInsert /\ AtMostOneRunning
  BY DEF Init, LockHeld, NoneAtInsert, AtMostOneRunning, NoStarter
<1> QED
  BY <1>1, <1>2 DEF StartInv

LEMMA StartInvNext == StartInv /\ [Next]_vars => StartInv'
<1> SUFFICES ASSUME StartInv, [Next]_vars PROVE StartInv'
  OBVIOUS
<1>0. TypeOK /\ TypeOK'
  BY NextType DEF StartInv
<1> DEFINE Goal == LockHeld' /\ NoneAtInsert' /\ AtMostOneRunning'
<1> USE DEF LockHeld, NoneAtInsert, AtMostOneRunning
<1>1. ASSUME UNCHANGED <<starter, startLock>>,
             \A c \in Batches : batchRun'[c] = "RUNNING" => batchRun[c] = "RUNNING"
      PROVE  Goal
  BY <1>1 DEF StartInv
<1>2. ASSUME NEW s \in Starters, Sweep(s) PROVE Goal
  <2>1. /\ starter'[s].pc \notin {"check", "insert"}
        /\ \A t \in Starters \ {s} : starter'[t] = starter[t]
        /\ UNCHANGED startLock
        /\ \A c \in Batches : batchRun'[c] = "RUNNING" => batchRun[c] = "RUNNING"
    <3>1. ASSUME NEW next \in {"lock", "idle"}, NEW o \in Outcomes, SweepMark(s, next, o)
          PROVE  <2>1!:
      BY <1>0, <3>1 DEF SweepMark, GoTo, NoStarter, TypeOK
    <3>2. ASSUME NEW o \in Outcomes, SweepRequeue(s, o)
          PROVE  <2>1!:
      BY <1>0, <3>2 DEF SweepRequeue, GoTo, NoStarter, TypeOK, Starter
    <3> QED
      BY <1>2, <3>1, <3>2 DEF Sweep
  <2> QED
    BY <2>1 DEF StartInv
<1>3. ASSUME NEW s \in Starters, Lock(s) PROVE Goal
  <2>1. /\ starter' = [starter EXCEPT ![s] = [NoStarter EXCEPT !.pc = "check"]]
        /\ startLock = NULL /\ startLock' = s /\ batchRun' = batchRun
    BY <1>3 DEF Lock, GoTo
  <2>2. \A t \in Starters : starter[t].pc \notin {"check", "insert"}
    BY <2>1, NullAssumption DEF StartInv
  <2> QED
    BY <1>0, <2>1, <2>2 DEF StartInv, NoStarter, TypeOK
<1>4. ASSUME NEW s \in Starters, Check(s) PROVE Goal
  <2>1. \A t \in Starters \ {s} : starter'[t] = starter[t] /\ starter[t].pc \notin {"check", "insert"}
    BY <1>0, <1>4, NullAssumption DEF Check, GoTo, StartInv, TypeOK
  <2>2. startLock = s /\ batchRun' = batchRun
    BY <1>4 DEF Check, StartInv
  <2>3. CASE \E b \in Batches : batchRun[b] = "RUNNING"
    <3>1. starter'[s].pc = "idle"
      BY <1>0, <1>4, <2>3 DEF Check, GoTo, NoStarter, TypeOK
    <3> QED
      BY <2>1, <2>2, <3>1 DEF StartInv
  <2>4. CASE ~ \E b \in Batches : batchRun[b] = "RUNNING"
    <3>1. startLock' = s
      BY <1>4, <2>2, <2>4 DEF Check
    <3> QED
      BY <2>1, <2>2, <2>4, <3>1 DEF StartInv
  <2> QED
    BY <2>3, <2>4
<1>5. ASSUME NEW s \in Starters, NEW b \in Batches, NEW o \in Outcomes, Insert(s, b, o)
      PROVE  Goal
  <2>1. \A t \in Starters \ {s} : starter'[t] = starter[t] /\ starter[t].pc \notin {"check", "insert"}
    BY <1>0, <1>5 DEF Insert, GoTo, StartInv, TypeOK
  <2>2. starter'[s].pc = "idle"
    BY <1>0, <1>5 DEF Insert, GoTo, NoStarter, TypeOK
  <2>3. \A c \in Batches : batchRun[c] # "RUNNING"
    BY <1>5 DEF Insert, StartInv
  <2>4. \A c \in Batches \ {b} : batchRun'[c] # "RUNNING"
    BY <1>0, <1>5, <2>3 DEF Insert, batchVars, TypeOK
  <2> QED
    BY <2>1, <2>2, <2>4
<1>6. ASSUME NEW s \in Starters, CrashStarter(s) PROVE Goal
  <2>1. /\ starter'[s].pc = "idle"
        /\ \A t \in Starters \ {s} : starter'[t] = starter[t]
        /\ startLock' = IF startLock = s THEN NULL ELSE startLock
        /\ batchRun' = batchRun
    BY <1>0, <1>6 DEF CrashStarter, GoTo, NoStarter, TypeOK
  <2> QED
    BY <2>1 DEF StartInv
<1>7. ASSUME \/ \E r \in Reviews : Accept(r)
             \/ \E b \in Batches : Age(b) \/ CrashRunner(b)
             \/ UNCHANGED vars
      PROVE  Goal
  <2>1. UNCHANGED <<starter, startLock, batchRun>>
    BY <1>7 DEF Accept, Age, CrashRunner, vars
  <2> QED
    BY <1>1, <2>1
<1>8. ASSUME NEW b \in Batches, Run(b) PROVE Goal
  BY <1>0, <1>1, <1>8, RunLeavesStart
<1>9. Goal
  BY <1>2, <1>3, <1>4, <1>5, <1>6, <1>7, <1>8 DEF Next, Start
<1> QED
  BY <1>0, <1>9 DEF StartInv

(* C2: the check-then-insert of start_batch admits one RUNNING batch,      *)
(* whatever faults occur and however many tasks start batches.             *)
THEOREM MutualExclusion == Spec => []AtMostOneRunning
<1>1. Spec => []StartInv
  BY StartInvInit, StartInvNext, PTL DEF Spec
<1>2. StartInv => AtMostOneRunning
  BY DEF StartInv
<1> QED
  BY <1>1, <1>2, PTL
=============================================================================
