-------------------------- MODULE BatchRescueProofs --------------------------
(***************************************************************************)
(* No review is left behind: as long as batches are retired without a gap  *)
(* and none outlasts the stale threshold, every review in PROCESSING has a *)
(* task that will see to it (NoStranded), and a batch that was retired is  *)
(* not reported COMPLETED later (FailedRunStaysFailed).                    *)
(***************************************************************************)
EXTENDS BatchFoldProofs

(***************************************************************************)
(* The inductive invariant of rescue.  The reviews a batch has taken are   *)
(* among the rows its task has still to write; and whoever ends a batch    *)
(* that has taken any goes on to requeue them.                             *)
(***************************************************************************)
Taken(b) == {r \in Reviews : status[r] = "PROCESSING" /\ batchId[r] = b}

Kept(b) ==
  /\ runner[b].pc \in Working => Taken(b) \subseteq runner[b].rows
  /\ runner[b].pc = "handle" => Taken(b) \cap Group(b) \subseteq runner[b].left
  /\ Taken(b) # {} => \/ batchRun[b] = "RUNNING"
                      \/ runner[b].pc = "requeue"
                      \/ \E s \in Starters : b \in starter[s].swept

TakenByBatch == \A r \in Reviews : status[r] = "PROCESSING" => batchId[r] \in Batches

SweptInHand == \A s \in Starters : starter[s].pc # "requeue" => starter[s].swept = {}

RescueInv == OwnInv /\ (\A b \in Batches : Kept(b)) /\ TakenByBatch /\ SweptInHand

LEMMA RescueInvInit == Init => RescueInv
<1> SUFFICES ASSUME Init PROVE RescueInv
  OBVIOUS
<1>1. OwnInv
  BY OwnInvInit
<1>2. \A b \in Batches : Taken(b) = {} /\ runner[b].pc = "none"
  BY DEF Init, Taken, NoRunner
<1>3. TakenByBatch /\ SweptInHand
  BY DEF Init, TakenByBatch, SweptInHand, NoStarter
<1> QED
  BY <1>1, <1>2, <1>3 DEF RescueInv, Kept, Working

(* A batch whose task does not move loses reviews at most. *)
LEMMA KeptAtRest ==
  ASSUME NEW b \in Batches, Kept(b), runner'[b] = runner[b],
         Taken(b)' \subseteq Taken(b),
         batchRun[b] = "RUNNING" => batchRun'[b] = "RUNNING",
         \A s \in Starters : b \in starter[s].swept =>
           b \in starter'[s].swept \/ Taken(b)' = {}
  PROVE  Kept(b)'
<1>1. Group(b)' = Group(b)
  BY DEF Group
<1> QED
  BY <1>1 DEF Kept

(* The steps of a task inside run_batch that touch no batch_run row. *)
LEMMA KeptAtWork ==
  ASSUME RescueInv, NEW b \in Batches, runner[b].pc \in Working,
         UNCHANGED <<starter, batchRun>>,
         \A c \in Batches \ {b} : runner'[c] = runner[c] /\ Taken(c)' \subseteq Taken(c),
         runner'[b].pc \in Working => Taken(b)' \subseteq runner'[b].rows,
         runner'[b].pc = "handle" =>
           \A r \in Taken(b)' : Target[r] = runner'[b].cur => r \in runner'[b].left
  PROVE  \A c \in Batches : Kept(c)'
<1>1. \A c \in Batches \ {b} : Kept(c)'
  BY KeptAtRest DEF RescueInv
<1>2. batchRun'[b] = "RUNNING"
  BY DEF RescueInv, OwnInv, WorkerIsRunning
<1>3. Kept(b)'
  BY <1>2 DEF Kept, Group
<1> QED
  BY <1>1, <1>3

LEMMA ClaimKeeps ==
  ASSUME RescueInv, NEW b \in Batches, NEW o \in Outcomes, Claim(b, o)
  PROVE  (\A c \in Batches : Kept(c)') /\ TakenByBatch'
<1>0. TypeOK /\ runner[b].pc = "claim" /\ runner[b].rows = {}
  BY DEF RescueInv, OwnInv, StartInv, RowsOwned, Claim, RunnerAt, InGroups
<1>1. Taken(b) = {}
  BY <1>0 DEF RescueInv, Kept, Working
<1>2. \A r \in Reviews :
        \/ status'[r] = status[r] /\ batchId'[r] = batchId[r]
        \/ Applied(o) /\ r \in Claimable /\ status'[r] = "PROCESSING" /\ batchId'[r] = b
  BY <1>0 DEF Claim, TypeOK
<1>3. \A c \in Batches \ {b} : Taken(c)' \subseteq Taken(c)
  BY <1>2 DEF Taken
<1>4. Taken(b)' \subseteq IF Applied(o) THEN Claimable ELSE {}
  BY <1>1, <1>2 DEF Taken
<1>5. /\ \A c \in Batches \ {b} : runner'[c] = runner[c]
      /\ runner'[b].pc = IF o # "ok" THEN "markFailed"
                         ELSE IF Claimable = {} THEN "finish" ELSE "group"
      /\ runner'[b].rows = IF o = "ok" THEN Claimable ELSE {}
  BY <1>0 DEF Claim, NoRunner, TypeOK
<1>6. UNCHANGED <<starter, batchRun>>
  BY DEF Claim
<1>7. \A c \in Batches : Kept(c)'
  BY <1>0, <1>3, <1>4, <1>5, <1>6, KeptAtWork DEF Applied, Working
<1>8. TakenByBatch'
  BY <1>2 DEF RescueInv, TakenByBatch
<1> QED
  BY <1>7, <1>8

(* A step that takes no review for anybody. *)
NothingTaken ==
  \A r \in Reviews : status'[r] = "PROCESSING" => /\ status[r] = "PROCESSING"
                                                  /\ batchId'[r] = batchId[r]

LEMMA NothingTakenMeans ==
  ASSUME NothingTaken, TakenByBatch
  PROVE  (\A c \in Batches : Taken(c)' \subseteq Taken(c)) /\ TakenByBatch'
BY DEF NothingTaken, TakenByBatch, Taken

(* Handling the group keeps its rows in hand ... *)
LEMMA HandleKeeps ==
  ASSUME RescueInv, NEW b \in Batches, runner[b].pc \in Working, NothingTaken,
         UNCHANGED <<starter, batchRun>>, NEW p, NEW w, NEW t, Handle(b, p, w, t)
  PROVE  \A c \in Batches : Kept(c)'
<1>0. TypeOK /\ Taken(b) \subseteq runner[b].rows
  BY DEF RescueInv, OwnInv, StartInv, Kept
<1>1. \A c \in Batches : Taken(c)' \subseteq Taken(c)
  BY NothingTakenMeans DEF RescueInv
<1>2. /\ \A c \in Batches \ {b} : runner'[c] = runner[c]
      /\ runner'[b].rows = runner[b].rows /\ runner'[b].cur = p
      /\ runner'[b].left = {r \in runner[b].rows : Target[r] = p}
  BY <1>0, HandleRows
<1> QED
  BY <1>0, <1>1, <1>2, KeptAtWork

(* ... and leaving it needs them out of PROCESSING. *)
LEMMA MoveOnKeeps ==
  ASSUME RescueInv, NEW b \in Batches, runner[b].pc \in Working, NothingTaken,
         UNCHANGED <<starter, batchRun>>,
         NextGroup(b), \A r \in Group(b) : r \notin Taken(b)'
  PROVE  \A c \in Batches : Kept(c)'
<1>0. TypeOK /\ Taken(b) \subseteq runner[b].rows
  BY DEF RescueInv, OwnInv, StartInv, Kept
<1>1. \A c \in Batches : Taken(c)' \subseteq Taken(c)
  BY NothingTakenMeans DEF RescueInv
<1>2. /\ \A c \in Batches \ {b} : runner'[c] = runner[c]
      /\ runner'[b].pc \in {"group", "finish"}
      /\ runner'[b].rows = runner[b].rows \ Group(b)
  BY <1>0, NextGroupRows
<1> QED
  BY <1>0, <1>1, <1>2, KeptAtWork

LEMMA GroupKeeps ==
  ASSUME RescueInv, NEW b \in Batches,
         \/ \E p \in Profiles, o \in Outcomes : LoadState(b, p, o)
         \/ EngineFolds(b) \/ EngineRaises(b)
         \/ \E w \in EngineVerdicts : EngineRefuses(b, w)
  PROVE  NothingTaken /\ \A c \in Batches : Kept(c)'
<1>0. TypeOK /\ runner[b].pc \in {"group", "engine"}
  BY DEF RescueInv, OwnInv, StartInv, LoadState, EngineFolds, EngineRaises, EngineRefuses,
         RunnerAt
<1>1. UNCHANGED <<status, batchId, starter, batchRun>> /\ NothingTaken
  BY DEF LoadState, EngineFolds, EngineRaises, EngineRefuses, NothingTaken
<1>2. ASSUME NEW p, NEW w, NEW t, Handle(b, p, w, t)
      PROVE  \A c \in Batches : Kept(c)'
  BY <1>0, <1>1, <1>2, HandleKeeps DEF Working
<1>3. ASSUME /\ \A c \in Batches \ {b} : runner'[c] = runner[c]
             /\ runner'[b].pc \in {"engine", "commit"}
             /\ runner'[b].rows = runner[b].rows
      PROVE  \A c \in Batches : Kept(c)'
  <2>1. Taken(b) \subseteq runner[b].rows /\ \A c \in Batches : Taken(c)' = Taken(c)
    BY <1>0, <1>1 DEF RescueInv, Kept, Working, Taken
  <2> QED
    BY <1>0, <1>1, <1>3, <2>1, KeptAtWork DEF Working
<1>4. ASSUME NEW p \in Profiles, NEW o \in Outcomes, LoadState(b, p, o)
      PROVE  \A c \in Batches : Kept(c)'
  <2>1. CASE o = "ok"
    <3>1. runner' = [runner EXCEPT ![b].pc = "engine", ![b].cur = p, ![b].base = rep[p]]
      BY <1>4, <2>1 DEF LoadState
    <3>2. /\ \A c \in Batches \ {b} : runner'[c] = runner[c]
          /\ runner'[b].pc = "engine" /\ runner'[b].rows = runner[b].rows
      BY <1>0, <3>1 DEF TypeOK, Runner
    <3> QED
      BY <1>3, <3>2
  <2>2. CASE o # "ok"
    BY <1>2, <1>4, <2>2 DEF LoadState
  <2> QED
    BY <2>1, <2>2
<1>5. CASE EngineFolds(b)
  <2>1. /\ \A c \in Batches \ {b} : runner'[c] = runner[c]
        /\ runner'[b].pc = "commit" /\ runner'[b].rows = runner[b].rows
    BY <1>0, <1>5 DEF EngineFolds, Continue, TypeOK, Runner
  <2> QED
    BY <1>1, <1>3, <2>1
<1>6. CASE EngineRaises(b) \/ \E w \in EngineVerdicts : EngineRefuses(b, w)
  BY <1>1, <1>2, <1>6 DEF EngineRaises, EngineRefuses
<1> QED
  BY <1>1, <1>4, <1>5, <1>6

LEMMA CommitKeeps ==
  ASSUME RescueInv, NEW b \in Batches, NEW o \in Outcomes, Commit(b, o)
  PROVE  NothingTaken /\ \A c \in Batches : Kept(c)'
<1>0. TypeOK /\ runner[b].pc = "commit" /\ UNCHANGED <<batchId, starter, batchRun>>
  BY DEF RescueInv, OwnInv, StartInv, Commit, RunnerAt
<1>1. NothingTaken
  BY <1>0 DEF Commit, NothingTaken, TypeOK
<1>2. CASE o = "ok"
  <2>1. /\ NextGroup(b)
        /\ status' = [r \in Reviews |-> IF r \in Group(b) THEN "COMMITTED" ELSE status[r]]
    BY <1>2 DEF Commit, Applied
  <2>2. \A r \in Group(b) : r \notin Taken(b)'
    BY <2>1 DEF Taken
  <2> QED
    BY <1>0, <1>1, <2>1, <2>2, MoveOnKeeps DEF Working
<1>3. CASE o # "ok"
  BY <1>0, <1>1, <1>3, HandleKeeps DEF Commit, Working
<1> QED
  BY <1>1, <1>2, <1>3

LEMMA HandleRowKeeps ==
  ASSUME RescueInv, NEW b \in Batches, NEW r \in Reviews, NEW o \in Outcomes, HandleRow(b, r, o)
  PROVE  NothingTaken /\ \A c \in Batches : Kept(c)'
<1>0. /\ TypeOK /\ runner[b].pc = "handle" /\ r \in runner[b].left
      /\ UNCHANGED <<batchId, starter, batchRun>>
  BY DEF RescueInv, OwnInv, StartInv, HandleRow, RunnerAt
<1>1. /\ NothingTaken
      /\ o = "ok" => status'[r] # "PROCESSING"
  BY <1>0 DEF HandleRow, NothingTaken, Verdict, Applied, TypeOK
<1>2. /\ Taken(b) \subseteq runner[b].rows
      /\ Taken(b) \cap Group(b) \subseteq runner[b].left
      /\ \A c \in Batches : Taken(c)' \subseteq Taken(c)
  BY <1>0, <1>1, NothingTakenMeans DEF RescueInv, Kept, Working
<1>3. CASE o = "ok" /\ runner[b].left = {r}
  <2>1. NextGroup(b) /\ \A q \in Group(b) : q \notin Taken(b)'
    BY <1>1, <1>2, <1>3 DEF HandleRow, Taken
  <2> QED
    BY <1>0, <1>1, <2>1, MoveOnKeeps DEF Working
<1>4. CASE o = "ok" /\ runner[b].left # {r}
  <2>1. /\ \A c \in Batches \ {b} : runner'[c] = runner[c]
        /\ runner'[b].pc = "handle" /\ runner'[b].rows = runner[b].rows
        /\ runner'[b].cur = runner[b].cur
        /\ runner'[b].left = runner[b].left \ {r}
    BY <1>0, <1>4 DEF HandleRow, TypeOK, Runner
  <2>2. \A q \in Taken(b)' : Target[q] = runner'[b].cur => q \in runner'[b].left
    BY <1>1, <1>2, <1>4, <2>1 DEF Taken, Group
  <2> QED
    BY <1>0, <1>1, <1>2, <2>1, <2>2, KeptAtWork DEF Working
<1>5. CASE Handle(b, runner[b].cur, TRUE, FALSE)
  BY <1>0, <1>1, <1>5, HandleKeeps DEF Working
<1>6. CASE runner' = [runner EXCEPT ![b] = [NoRunner EXCEPT !.pc = "markFailed"]]
  <2>1. /\ \A c \in Batches \ {b} : runner'[c] = runner[c]
        /\ runner'[b].pc = "markFailed"
    BY <1>0, <1>6 DEF NoRunner, TypeOK
  <2> QED
    BY <1>0, <1>1, <1>2, <2>1, KeptAtWork DEF Working
<1>7. \/ o = "ok"
      \/ Handle(b, runner[b].cur, TRUE, FALSE)
      \/ runner' = [runner EXCEPT ![b] = [NoRunner EXCEPT !.pc = "markFailed"]]
  BY DEF HandleRow
<1> QED
  BY <1>1, <1>3, <1>4, <1>5, <1>6, <1>7

(* The end of a task: COMPLETED with nothing left to do, or FAILED and     *)
(* then a requeue, which without a gap takes place.                        *)
LEMMA EndKeeps ==
  ASSUME "gap" \notin Faults, RescueInv, NEW b \in Batches, NEW o \in Outcomes,
         Finish(b, o) \/ MarkFailed(b, o) \/ Requeue(b, o)
  PROVE  NothingTaken /\ \A c \in Batches : Kept(c)'
<1>0. TypeOK /\ RowsOwned /\ Kept(b) /\ UNCHANGED <<batchId, starter>>
  BY DEF RescueInv, OwnInv, StartInv, Finish, MarkFailed, Requeue, RequeueReviewsOf, reviewVars
<1>1. NothingTaken
  BY <1>0 DEF Finish, MarkFailed, Requeue, RequeueReviewsOf, reviewVars, NothingTaken, TypeOK
<1>2. \A c \in Batches : Taken(c)' \subseteq Taken(c)
  BY <1>1, NothingTakenMeans DEF RescueInv
<1>3. /\ \A c \in Batches \ {b} : runner'[c] = runner[c] /\ batchRun'[c] = batchRun[c]
      /\ Finish(b, o) => runner'[b].pc \in {"none", "markFailed"}
      /\ MarkFailed(b, o) => runner'[b].pc = "requeue"
      /\ Requeue(b, o) => runner'[b].pc = "none"
  BY <1>0 DEF Finish, MarkFailed, Requeue, Continue, NoRunner, TypeOK, Runner
<1>4. \A c \in Batches \ {b} : Kept(c)'
  BY <1>0, <1>2, <1>3, KeptAtRest DEF RescueInv
<1>5. CASE Finish(b, o)
  <2>1. Taken(b) = {}
    BY <1>0, <1>5 DEF Finish, RunnerAt, RowsOwned, InGroups, Kept, Working
  <2> QED
    BY <1>1, <1>2, <1>3, <1>4, <1>5, <2>1 DEF Kept, Working
<1>6. CASE MarkFailed(b, o)
  BY <1>1, <1>3, <1>4, <1>6 DEF Kept, Working
<1>7. CASE Requeue(b, o)
  <2>1. Applied(o)
    BY <1>7 DEF Requeue, Applied
  <2>2. Taken(b)' = {}
    BY <1>0, <1>7, <2>1 DEF Requeue, RequeueReviewsOf, Taken, TypeOK
  <2> QED
    BY <1>1, <1>3, <1>4, <1>7, <2>2 DEF Kept, Working
<1> QED
  BY <1>5, <1>6, <1>7

LEMMA RunKeeps ==
  ASSUME "gap" \notin Faults, RescueInv, NEW b \in Batches, Run(b)
  PROVE  (\A c \in Batches : Kept(c)') /\ TakenByBatch'
<1>1. CASE \E o \in Outcomes : Claim(b, o)
  BY <1>1, ClaimKeeps
<1>2. CASE NothingTaken /\ \A c \in Batches : Kept(c)'
  BY <1>2, NothingTakenMeans DEF RescueInv
<1> QED
  BY <1>1, <1>2, GroupKeeps, CommitKeeps, HandleRowKeeps, EndKeeps DEF Run

(***************************************************************************)
(* The other steps.                                                        *)
(***************************************************************************)
(* A step that changes no review and ends no batch. *)
LEMMA AsideKeeps ==
  ASSUME RescueInv, UNCHANGED <<status, batchId>>,
         \A c \in Batches : /\ runner'[c] = runner[c] \/ Taken(c) = {}
                            /\ batchRun[c] = "RUNNING" => batchRun'[c] = "RUNNING",
         \A s \in Starters : starter[s].swept \subseteq starter'[s].swept
  PROVE  (\A c \in Batches : Kept(c)') /\ TakenByBatch'
<1>1. TakenByBatch' /\ \A c \in Batches : Taken(c)' = Taken(c)
  BY DEF RescueInv, TakenByBatch, Taken
<1>2. ASSUME NEW c \in Batches, Taken(c) = {} PROVE Kept(c)'
  BY <1>1, <1>2 DEF Kept
<1>3. ASSUME NEW c \in Batches, runner'[c] = runner[c] PROVE Kept(c)'
  BY <1>1, <1>3, KeptAtRest DEF RescueInv
<1> QED
  BY <1>1, <1>2, <1>3

LEMMA GoToSwept ==
  ASSUME TypeOK, NEW s \in Starters, NEW place, GoTo(s, place)
  PROVE  /\ \A t \in Starters \ {s} : starter'[t] = starter[t]
         /\ starter'[s].pc = place /\ starter'[s].swept = {}
BY DEF GoTo, NoStarter, TypeOK

(* Whoever retires batches takes them in hand ... *)
LEMMA SweepMarkKeeps ==
  ASSUME "gap" \notin Faults, RescueInv, NEW s \in Starters, NEW next \in {"lock", "idle"},
         NEW o \in Outcomes, SweepMark(s, next, o)
  PROVE  (\A c \in Batches : Kept(c)') /\ TakenByBatch' /\ SweptInHand'
<1>0. TypeOK /\ UNCHANGED <<status, batchId, runner>> /\ starter[s].swept = {}
  BY DEF RescueInv, OwnInv, StartInv, SweptInHand, SweepMark
<1>1. o \in {"ok", "error"}
  BY DEF SweepMark, Outcomes
<1>2. TakenByBatch' /\ \A c \in Batches : Taken(c)' = Taken(c)
  BY <1>0 DEF RescueInv, TakenByBatch, Taken
<1>3. CASE o = "ok" /\ StaleBatches # {}
  <2>1. /\ starter' = [starter EXCEPT
             ![s] = [pc |-> "requeue", swept |-> StaleBatches, next |-> next]]
        /\ batchRun' = [b \in Batches |-> IF b \in StaleBatches THEN "FAILED" ELSE batchRun[b]]
    BY <1>3 DEF SweepMark, Applied
  <2>2. /\ starter'[s].pc = "requeue" /\ starter'[s].swept = StaleBatches
        /\ \A t \in Starters \ {s} : starter'[t] = starter[t]
    BY <1>0, <2>1 DEF TypeOK
  <2>3. ASSUME NEW c \in Batches \ StaleBatches PROVE Kept(c)'
    <3>1. batchRun'[c] = batchRun[c]
      BY <2>1, <2>3
    <3> QED
      BY <1>0, <1>2, <2>2, <2>3, <3>1, KeptAtRest DEF RescueInv
  <2>4. ASSUME NEW c \in StaleBatches PROVE Kept(c)'
    <3>1. c \in Batches /\ runner'[c].pc = "none"
      BY <1>0, <2>4 DEF RescueInv, OwnInv, StaleIsDead, StaleBatches
    <3> QED
      BY <2>2, <2>4, <3>1 DEF Kept, Working
  <2> QED
    BY <1>2, <2>2, <2>3, <2>4 DEF RescueInv, SweptInHand
<1>4. CASE o = "error" \/ StaleBatches = {}
  <2>1. (\E place \in {"idle", next} : GoTo(s, place)) /\ next # "requeue"
    BY <1>4 DEF SweepMark
  <2>2. batchRun' = batchRun
    BY <1>0, <1>1, <1>4 DEF SweepMark, Applied, TypeOK
  <2>3. /\ \A t \in Starters \ {s} : starter'[t] = starter[t]
        /\ starter'[s].pc # "requeue" /\ starter'[s].swept = {}
    BY <1>0, <2>1, GoToSwept
  <2> QED
    BY <1>0, <2>2, <2>3, AsideKeeps DEF RescueInv, SweptInHand
<1> QED
  BY <1>1, <1>3, <1>4

(* ... until their reviews are requeued. *)
LEMMA SweepRequeueKeeps ==
  ASSUME "gap" \notin Faults, RescueInv, NEW s \in Starters, NEW o \in Outcomes,
         SweepRequeue(s, o)
  PROVE  (\A c \in Batches : Kept(c)') /\ TakenByBatch' /\ SweptInHand'
<1>0. /\ TypeOK /\ UNCHANGED <<batchId, runner, batchRun>>
      /\ status' = [r \in Reviews |->
                      IF status[r] = "PROCESSING" /\ batchId[r] \in starter[s].swept
                      THEN "GATED" ELSE status[r]]
  BY DEF RescueInv, OwnInv, StartInv, SweepRequeue, RequeueReviewsOf, Applied
<1>1. NothingTaken /\ \A c \in starter[s].swept : Taken(c)' = {}
  BY <1>0 DEF NothingTaken, Taken, TypeOK
<1>2. TakenByBatch' /\ \A c \in Batches : Taken(c)' \subseteq Taken(c)
  BY <1>1, NothingTakenMeans DEF RescueInv
<1>3. /\ \A t \in Starters \ {s} : starter'[t] = starter[t]
      /\ starter'[s].swept = {}
  BY <1>0, GoToSwept DEF SweepRequeue
<1>4. \A c \in Batches : Kept(c)'
  BY <1>0, <1>1, <1>2, <1>3, KeptAtRest DEF RescueInv
<1> QED
  BY <1>2, <1>3, <1>4 DEF RescueInv, SweptInHand

(* Neither the rest of start_batch nor its death loses a swept batch: a    *)
(* starter holds those only between the two statements of the sweep.       *)
LEMMA StartKeeps ==
  ASSUME "gap" \notin Faults, RescueInv, NEW s \in Starters,
         \/ Lock(s) \/ Check(s) \/ CrashStarter(s)
         \/ \E b \in Batches, o \in Outcomes : Insert(s, b, o)
  PROVE  (\A c \in Batches : Kept(c)') /\ TakenByBatch' /\ SweptInHand'
<1>0. TypeOK /\ starter[s].pc # "requeue" /\ starter[s].swept = {}
  BY DEF RescueInv, OwnInv, StartInv, SweptInHand, Lock, Check, CrashStarter, Insert
<1>1. /\ UNCHANGED <<status, batchId>>
      /\ \E place \in {"idle", "check", "insert"} : GoTo(s, place)
  BY DEF Lock, Check, CrashStarter, Insert
<1>2. /\ \A t \in Starters \ {s} : starter'[t] = starter[t]
      /\ starter'[s].pc # "requeue" /\ starter'[s].swept = {}
  BY <1>0, <1>1, GoToSwept
<1>3. \A c \in Batches : /\ runner'[c] = runner[c] \/ Taken(c) = {}
                         /\ batchRun[c] = "RUNNING" => batchRun'[c] = "RUNNING"
  <2>1. CASE Lock(s) \/ Check(s) \/ CrashStarter(s)
    BY <2>1 DEF Lock, Check, CrashStarter
  <2>2. ASSUME NEW b \in Batches, NEW o \in Outcomes, Insert(s, b, o) PROVE <1>3
    <3>1. Taken(b) = {}
      BY <2>2 DEF Insert, Fresh, Taken
    <3>2. \A c \in Batches : /\ c # b => runner'[c] = runner[c]
                             /\ batchRun[c] = "RUNNING" => batchRun'[c] = "RUNNING"
      BY <1>0, <2>2 DEF Insert, batchVars, TypeOK
    <3> QED
      BY <3>1, <3>2
  <2> QED
    BY <2>1, <2>2
<1>4. (\A c \in Batches : Kept(c)') /\ TakenByBatch'
  BY <1>0, <1>1, <1>2, <1>3, AsideKeeps
<1> QED
  BY <1>2, <1>4 DEF RescueInv, SweptInHand

(* A task that dies leaves its batch RUNNING, for the sweep to find. *)
LEMMA CrashKeeps ==
  ASSUME "gap" \notin Faults, RescueInv, NEW b \in Batches, CrashRunner(b)
  PROVE  (\A c \in Batches : Kept(c)') /\ TakenByBatch'
<1>0. /\ TypeOK /\ Kept(b) /\ runner[b].pc # "requeue"
      /\ UNCHANGED <<status, batchId, batchRun, starter>>
  BY DEF RescueInv, OwnInv, StartInv, CrashRunner, RunnerAt
<1>1. runner'[b].pc = "none" /\ \A c \in Batches \ {b} : runner'[c] = runner[c]
  BY <1>0 DEF CrashRunner, NoRunner, TypeOK
<1>2. TakenByBatch' /\ \A c \in Batches : Taken(c)' = Taken(c)
  BY <1>0 DEF RescueInv, TakenByBatch, Taken
<1>3. Kept(b)'
  BY <1>0, <1>1, <1>2 DEF Kept, Working
<1>4. \A c \in Batches \ {b} : Kept(c)'
  BY <1>0, <1>1, <1>2, KeptAtRest DEF RescueInv
<1> QED
  BY <1>2, <1>3, <1>4

LEMMA RescueInvNext ==
  ASSUME "slow" \notin Faults, "gap" \notin Faults
  PROVE  RescueInv /\ [Next]_vars => RescueInv'
<1> SUFFICES ASSUME RescueInv, [Next]_vars PROVE RescueInv'
  OBVIOUS
<1>0. TypeOK /\ OwnInv'
  BY OwnInvNext DEF RescueInv, OwnInv, StartInv
<1> DEFINE Goal == (\A c \in Batches : Kept(c)') /\ TakenByBatch' /\ SweptInHand'
<1>1. ASSUME NEW b \in Batches, Run(b) \/ CrashRunner(b) PROVE Goal
  <2>1. UNCHANGED starter
    BY <1>0, <1>1, RunLeavesStart DEF CrashRunner
  <2> QED
    BY <1>1, <2>1, RunKeeps, CrashKeeps DEF RescueInv, SweptInHand
<1>2. ASSUME NEW s \in Starters, Sweep(s) PROVE Goal
  BY <1>2, SweepMarkKeeps, SweepRequeueKeeps DEF Sweep
<1>3. ASSUME NEW s \in Starters, Start(s) \/ CrashStarter(s) PROVE Goal
  BY <1>3, StartKeeps DEF Start
<1>4. ASSUME NEW r \in Reviews, Accept(r) PROVE Goal
  <2>1. NothingTaken /\ UNCHANGED <<starter, runner, batchRun>>
    BY <1>0, <1>4 DEF Accept, NothingTaken, TypeOK
  <2>2. TakenByBatch' /\ \A c \in Batches : Taken(c)' \subseteq Taken(c)
    BY <2>1, NothingTakenMeans DEF RescueInv
  <2> QED
    BY <2>1, <2>2, KeptAtRest DEF RescueInv, SweptInHand
<1>5. ASSUME (\E b \in Batches : Age(b)) \/ UNCHANGED vars PROVE Goal
  <2>1. UNCHANGED <<status, batchId, runner, batchRun, starter>>
    BY <1>5 DEF Age, vars
  <2> QED
    BY <2>1, AsideKeeps DEF RescueInv, SweptInHand
<1>6. Goal
  BY <1>1, <1>2, <1>3, <1>4, <1>5 DEF Next
<1> QED
  BY <1>0, <1>6 DEF RescueInv

(* As long as no live batch outlasts the stale threshold and no process    *)
(* dies between the two statements that end a batch, every review in       *)
(* PROCESSING has a RUNNING batch, a task about to requeue it or a sweep   *)
(* that has its batch in hand: none is stranded, whatever else fails.      *)
THEOREM NothingStranded ==
  ASSUME "slow" \notin Faults, "gap" \notin Faults
  PROVE  Spec => []NoStranded
<1>1. Spec => []RescueInv
  BY RescueInvInit, RescueInvNext, PTL DEF Spec
<1>2. RescueInv => NoStranded
  BY DEF RescueInv, TakenByBatch, Kept, Taken, NoStranded, InGoodHands
<1> QED
  BY <1>1, <1>2, PTL

(* While no live batch outlasts the stale threshold, a task completes a    *)
(* batch only while it is RUNNING: what a sweep retired stays FAILED.      *)
THEOREM RetiredForGood ==
  ASSUME "slow" \notin Faults
  PROVE  Spec => FailedRunStaysFailed
<1>1. Spec => []OwnInv
  BY OwnInvInit, OwnInvNext, PTL DEF Spec
<1>2. ASSUME OwnInv, [Next]_vars, NEW b \in Batches, batchRun[b] = "FAILED"
      PROVE  batchRun'[b] # "COMPLETED"
  <2>0. TypeOK
    BY <1>2 DEF OwnInv, StartInv
  <2>1. ASSUME NEW c \in Batches, Run(c) PROVE batchRun'[b] # "COMPLETED"
    <3>1. CASE \E o \in Outcomes : Finish(c, o)
      <4>1. c # b
        BY <1>2, <3>1 DEF Finish, RunnerAt, OwnInv, WorkerIsRunning, Working
      <4> QED
        BY <1>2, <2>0, <3>1, <4>1 DEF Finish, TypeOK
    <3>2. CASE \E o \in Outcomes : MarkFailed(c, o)
      BY <1>2, <2>0, <3>2 DEF MarkFailed, TypeOK
    <3>3. CASE UNCHANGED batchRun
      BY <1>2, <3>3
    <3> QED
      BY <2>1, <3>1, <3>2, <3>3
         DEF Run, Claim, LoadState, EngineFolds, EngineRefuses, EngineRaises, Commit, HandleRow,
             Requeue
  <2>2. ASSUME NEW s \in Starters, NEW next, NEW o \in Outcomes, SweepMark(s, next, o)
        PROVE  batchRun'[b] # "COMPLETED"
    BY <1>2, <2>0, <2>2 DEF SweepMark, TypeOK
  <2>3. ASSUME NEW s \in Starters, NEW c \in Batches, NEW o \in Outcomes, Insert(s, c, o)
        PROVE  batchRun'[b] # "COMPLETED"
    BY <1>2, <2>0, <2>3 DEF Insert, batchVars, TypeOK
  <2>4. CASE UNCHANGED batchRun
    BY <1>2, <2>4
  <2>5. CASE \E s \in Starters : Lock(s) \/ Check(s) \/ CrashStarter(s)
                                 \/ \E o \in Outcomes : SweepRequeue(s, o)
    BY <2>4, <2>5 DEF Lock, Check, CrashStarter, SweepRequeue
  <2>6. CASE \/ \E r \in Reviews : Accept(r)
             \/ \E c \in Batches : Age(c) \/ CrashRunner(c)
             \/ UNCHANGED vars
    BY <2>4, <2>6 DEF Accept, Age, CrashRunner, vars
  <2> QED
    BY <1>2, <2>1, <2>2, <2>3, <2>5, <2>6 DEF Next, Sweep, Start
<1>3. OwnInv /\ [Next]_vars =>
        [\A b \in Batches : batchRun[b] = "FAILED" => batchRun'[b] # "COMPLETED"]_vars
  BY <1>2
<1> QED
  BY <1>1, <1>3, PTL DEF Spec, FailedRunStaysFailed
=============================================================================
