-------------------------- MODULE BatchLedgerProofs --------------------------
(***************************************************************************)
(* What becomes of a review, seen from outside: it is dead-lettered when   *)
(* its retries are used up and only then (DeadLetterAtLimit), that verdict *)
(* stands (DeadLetterIsFinal), and altogether the pipeline implements      *)
(* ReviewLedger (ImplementsLedger).                                        *)
(***************************************************************************)
EXTENDS BatchFoldProofs

(***************************************************************************)
(* The dead letter.  While the engine honours retries, the row that decides*)
(* a verdict was claimed with retries left: so the verdict is FAILED       *)
(* exactly when this try was the last, and the same when it is repeated.   *)
(***************************************************************************)
LastTry(b, r) == runner[b].retry[r] + 1 >= MaxRetries

LEMMA RowsAreReviews ==
  ASSUME TypeOK, NEW b \in Batches
  PROVE  runner[b].rows \subseteq Reviews /\ runner[b].retry \in [Reviews -> Nat]
BY DEF TypeOK, Runner

Retriable(b) ==
  /\ \A r \in runner[b].rows :
       /\ runner[b].retry[r] < MaxRetries
       /\ status[r] = "FAILED" => LastTry(b, r)
  /\ runner[b].willRetry = TRUE

RetryInv == HeldInv /\ DeadLetterAtLimit /\ \A b \in Batches : Retriable(b)

LEMMA RetryInvInit == Init => RetryInv
<1> SUFFICES ASSUME Init PROVE RetryInv
  OBVIOUS
<1>1. HeldInv
  BY HeldInvInit
<1>2. DeadLetterAtLimit
  BY BoundsAssumption DEF Init, DeadLetterAtLimit
<1>3. \A b \in Batches : Retriable(b)
  BY DEF Init, NoRunner, Retriable
<1> QED
  BY <1>1, <1>2, <1>3 DEF RetryInv

(* A step that passes no verdict. *)
LEMMA NoVerdict ==
  ASSUME DeadLetterAtLimit, UNCHANGED retryCount,
         \A r \in Reviews : status'[r] = "FAILED" <=> status[r] = "FAILED"
  PROVE  DeadLetterAtLimit'
BY DEF DeadLetterAtLimit

(* The ways on within run_batch keep what was claimed about the rows. *)
LEMMA HandleRetriable ==
  ASSUME TypeOK, NEW b \in Batches, Retriable(b), NEW p, NEW t, Handle(b, p, TRUE, t),
         \A r \in runner[b].rows : status'[r] = "FAILED" => LastTry(b, r)
  PROVE  Retriable(b)' /\ \A c \in Batches \ {b} : runner'[c] = runner[c]
BY DEF Handle, NoRunner, TypeOK, Retriable, LastTry

LEMMA NextGroupRetriable ==
  ASSUME TypeOK, NEW b \in Batches, Retriable(b), NextGroup(b),
         \A r \in runner[b].rows : status'[r] = "FAILED" => LastTry(b, r)
  PROVE  Retriable(b)' /\ \A c \in Batches \ {b} : runner'[c] = runner[c]
BY DEF NextGroup, NoRunner, TypeOK, Retriable, LastTry

LEMMA ContinueRetriable ==
  ASSUME TypeOK, NEW b \in Batches, Retriable(b), NEW place, Continue(b, place),
         \A r \in runner[b].rows : status'[r] = "FAILED" => LastTry(b, r)
  PROVE  Retriable(b)' /\ \A c \in Batches \ {b} : runner'[c] = runner[c]
BY DEF Continue, TypeOK, Runner, Retriable, LastTry

RetryGoal ==
  /\ DeadLetterAtLimit'
  /\ \A b \in Batches : Retriable(b)'
  /\ \A r \in Reviews : status[r] = "FAILED" => status'[r] = "FAILED"

LEMMA OthersRetriable ==
  ASSUME RetryInv, NEW b \in Batches, runner[b].pc \in Working, Retriable(b)',
         \A c \in Batches \ {b} : runner'[c] = runner[c]
  PROVE  \A c \in Batches : Retriable(c)'
<1>1. \A c \in Batches \ {b} : runner[c].rows = {}
  BY OneWorker DEF RetryInv, HeldInv
<1> QED
  BY <1>1 DEF RetryInv, Retriable

LEMMA ClaimRetries ==
  ASSUME RetryInv, NEW b \in Batches, NEW o \in Outcomes, Claim(b, o)
  PROVE  RetryGoal
<1>0. TypeOK /\ DeadLetterAtLimit
  BY DEF RetryInv, HeldInv, OwnInv, StartInv
<1>1. \A r \in Reviews : status'[r] = "FAILED" <=> status[r] = "FAILED"
  <2>1. \A r \in Claimable : status[r] = "GATED"
    BY DEF Claimable, Oldest
  <2> QED
    BY <1>0, <2>1 DEF Claim, TypeOK
<1>2. \A r \in Claimable :
        /\ r \in Reviews /\ status[r] # "FAILED"
        /\ retryCount[r] < MaxRetries
  BY <1>0, BoundsAssumption DEF DeadLetterAtLimit, Claimable, Oldest, TypeOK
<1>3. /\ \A c \in Batches \ {b} : runner'[c] = runner[c]
      /\ runner'[b].rows = IF o = "ok" THEN Claimable ELSE {}
      /\ runner'[b].retry = [r \in Reviews |->
                               IF o = "ok" /\ r \in Claimable THEN retryCount[r] ELSE 0]
      /\ runner'[b].willRetry = TRUE
  BY <1>0 DEF Claim, TypeOK, NoRunner
<1>4. Retriable(b)'
  BY <1>1, <1>2, <1>3 DEF Retriable
<1>5. DeadLetterAtLimit'
  BY <1>0, <1>1, NoVerdict DEF Claim
<1> QED
  BY <1>1, <1>3, <1>4, <1>5, OthersRetriable DEF RetryGoal, Claim, RunnerAt, Working

LEMMA GroupRetries ==
  ASSUME EngineVerdicts \subseteq {TRUE}, RetryInv, NEW b \in Batches,
         \/ \E p \in Profiles, o \in Outcomes : LoadState(b, p, o)
         \/ EngineFolds(b) \/ EngineRaises(b)
         \/ \E w \in EngineVerdicts : EngineRefuses(b, w)
  PROVE  RetryGoal
<1>0. TypeOK /\ DeadLetterAtLimit /\ Retriable(b)
  BY DEF RetryInv, HeldInv, OwnInv, StartInv
<1>1. UNCHANGED <<status, retryCount>> /\ runner[b].pc \in Working
  BY DEF LoadState, EngineFolds, EngineRaises, EngineRefuses, RunnerAt, Working
<1>b. DeadLetterAtLimit'
  BY <1>0, <1>1, NoVerdict
<1>a. \A r \in runner[b].rows : status'[r] = "FAILED" => LastTry(b, r)
  BY <1>0, <1>1 DEF Retriable
<1>2. ASSUME NEW p, NEW t, Handle(b, p, TRUE, t) PROVE RetryGoal
  BY <1>0, <1>1, <1>a, <1>b, <1>2, HandleRetriable, OthersRetriable DEF RetryGoal
<1>3. ASSUME NEW p \in Profiles, NEW o \in Outcomes, LoadState(b, p, o) PROVE RetryGoal
  <2>1. CASE o = "ok"
    <3>1. runner' = [runner EXCEPT ![b].pc = "engine", ![b].cur = p, ![b].base = rep[p]]
      BY <1>3, <2>1 DEF LoadState
    <3>2. /\ \A c \in Batches \ {b} : runner'[c] = runner[c]
          /\ runner'[b].rows = runner[b].rows /\ runner'[b].retry = runner[b].retry
          /\ runner'[b].willRetry = runner[b].willRetry
      BY <1>0, <3>1 DEF TypeOK, Runner
    <3> QED
      BY <1>0, <1>1, <1>b, <3>2, OthersRetriable DEF RetryGoal, Retriable, LastTry
  <2>2. CASE o # "ok"
    BY <1>2, <1>3, <2>2 DEF LoadState
  <2> QED
    BY <2>1, <2>2
<1>4. CASE EngineFolds(b)
  BY <1>0, <1>1, <1>a, <1>b, <1>4, ContinueRetriable, OthersRetriable DEF RetryGoal, EngineFolds
<1>5. CASE EngineRaises(b) \/ \E w \in EngineVerdicts : EngineRefuses(b, w)
  BY <1>2, <1>5 DEF EngineRaises, EngineRefuses
<1> QED
  BY <1>3, <1>4, <1>5

LEMMA CommitRetries ==
  ASSUME RetryInv, NEW b \in Batches, NEW o \in Outcomes, Commit(b, o)
  PROVE  RetryGoal
<1>0. TypeOK /\ DeadLetterAtLimit /\ Retriable(b) /\ InHand(b)
  BY DEF RetryInv, HeldInv, OwnInv, StartInv
<1>1. runner[b].pc = "commit" /\ \A r \in runner[b].rows : status[r] = "PROCESSING"
  BY <1>0 DEF Commit, RunnerAt, InHand
<1>a. \A r \in Reviews : status'[r] = "FAILED" <=> status[r] = "FAILED"
  BY <1>0, <1>1 DEF Commit, TypeOK, Group
<1>b. \A r \in runner[b].rows : status'[r] = "FAILED" => LastTry(b, r)
  BY <1>0, <1>1, <1>a DEF TypeOK, Runner
<1>2. DeadLetterAtLimit'
  BY <1>0, <1>a, NoVerdict DEF Commit
<1>3. NextGroup(b) \/ Handle(b, runner[b].cur, TRUE, FALSE)
  BY DEF Commit
<1>4. Retriable(b)' /\ \A c \in Batches \ {b} : runner'[c] = runner[c]
  BY <1>0, <1>b, <1>3, HandleRetriable, NextGroupRetriable
<1> QED
  BY <1>1, <1>a, <1>2, <1>4, OthersRetriable DEF RetryGoal, Working

LEMMA HandleRowRetries ==
  ASSUME RetryInv, NEW b \in Batches, NEW r \in Reviews, NEW o \in Outcomes, HandleRow(b, r, o)
  PROVE  RetryGoal
<1>0. TypeOK /\ DeadLetterAtLimit /\ Retriable(b) /\ InHand(b)
  BY DEF RetryInv, HeldInv, OwnInv, StartInv
<1>1. /\ runner[b].pc = "handle" /\ r \in runner[b].rows
      /\ runner[b].retry[r] \in Nat /\ runner[b].retry[r] < MaxRetries
  <2>1. runner[b].pc = "handle" /\ r \in Group(b)
    BY <1>0 DEF HandleRow, RunnerAt, InHand
  <2>2. r \in runner[b].rows
    BY <2>1 DEF Group
  <2> QED
    BY <1>0, <2>1, <2>2, RowsAreReviews DEF Retriable
<1>2. /\ \A q \in Reviews \ {r} : status'[q] = status[q] /\ retryCount'[q] = retryCount[q]
      /\ \/ status'[r] = status[r] /\ retryCount'[r] = retryCount[r]
         \/ /\ status'[r] = IF LastTry(b, r) THEN "FAILED" ELSE "GATED"
            /\ retryCount'[r] = runner[b].retry[r] + 1
  <2>1. CASE Applied(o)
    <3>1. /\ status' = [status EXCEPT ![r] = IF LastTry(b, r) THEN "FAILED" ELSE "GATED"]
          /\ retryCount' = [retryCount EXCEPT ![r] = runner[b].retry[r] + 1]
      BY <1>0, <2>1 DEF HandleRow, Verdict, Retriable, LastTry
    <3> QED
      BY <1>0, <3>1 DEF TypeOK
  <2>2. CASE ~Applied(o)
    BY <1>0, <2>2 DEF HandleRow
  <2> QED
    BY <2>1, <2>2
<1>3. DeadLetterAtLimit'
  BY <1>0, <1>1, <1>2, BoundsAssumption DEF DeadLetterAtLimit, LastTry
<1>4. \A q \in Reviews : status[q] = "FAILED" => status'[q] = "FAILED"
  BY <1>0, <1>1, <1>2 DEF Retriable
<1>5. \A q \in runner[b].rows : status'[q] = "FAILED" => LastTry(b, q)
  BY <1>0, <1>2, RowsAreReviews DEF Retriable
<1>6. Retriable(b)' /\ \A c \in Batches \ {b} : runner'[c] = runner[c]
  <2>1. CASE NextGroup(b) \/ Handle(b, runner[b].cur, TRUE, FALSE)
    BY <1>0, <1>5, <2>1, HandleRetriable, NextGroupRetriable
  <2>2. CASE runner' = [runner EXCEPT ![b].left = @ \ {r}]
    BY <1>0, <1>5, <2>2 DEF Retriable, LastTry, TypeOK, Runner
  <2>3. CASE runner' = [runner EXCEPT ![b] = [NoRunner EXCEPT !.pc = "markFailed"]]
    BY <1>0, <2>3 DEF Retriable, TypeOK, NoRunner
  <2> QED
    BY <2>1, <2>2, <2>3 DEF HandleRow
<1> QED
  BY <1>1, <1>3, <1>4, <1>6, OthersRetriable DEF RetryGoal, Working

(* The steps that pass no verdict: at most they requeue what is PROCESSING. *)
LEMMA AsideRetries ==
  ASSUME RetryInv, UNCHANGED retryCount,
         \A r \in Reviews : \/ status'[r] = status[r]
                            \/ status[r] # "FAILED" /\ status'[r] # "FAILED",
         \A b \in Batches : runner'[b] = runner[b] \/ Retriable(b)'
  PROVE  RetryGoal
<1>1. DeadLetterAtLimit'
  BY NoVerdict DEF RetryInv
<1>2. \A b \in Batches : Retriable(b)'
  BY DEF RetryInv, HeldInv, OwnInv, StartInv, TypeOK, Runner, Retriable, LastTry
<1> QED
  BY <1>1, <1>2 DEF RetryGoal

LEMMA EndRetries ==
  ASSUME RetryInv, NEW b \in Batches, NEW o \in Outcomes,
         Finish(b, o) \/ MarkFailed(b, o) \/ Requeue(b, o)
  PROVE  RetryGoal
<1>0. TypeOK /\ Retriable(b) /\ UNCHANGED retryCount
  BY DEF RetryInv, HeldInv, OwnInv, StartInv, Finish, MarkFailed, Requeue, RequeueReviewsOf,
         reviewVars
<1>1. \A r \in Reviews : \/ status'[r] = status[r]
                         \/ status[r] # "FAILED" /\ status'[r] # "FAILED"
  BY <1>0 DEF Finish, MarkFailed, Requeue, RequeueReviewsOf, reviewVars
<1>a. \A r \in runner[b].rows : status'[r] = "FAILED" => LastTry(b, r)
  BY <1>0, <1>1, RowsAreReviews DEF Retriable
<1>2. Retriable(b)' /\ \A c \in Batches \ {b} : runner'[c] = runner[c]
  <2>1. CASE Finish(b, o)
    BY <1>0, <2>1 DEF Finish, NoRunner, TypeOK, Retriable
  <2>2. CASE MarkFailed(b, o) \/ Requeue(b, o)
    BY <1>0, <1>a, <2>2, ContinueRetriable DEF MarkFailed, Requeue
  <2> QED
    BY <2>1, <2>2
<1> QED
  BY <1>0, <1>1, <1>2, AsideRetries

LEMMA RetryInvStep ==
  ASSUME EngineVerdicts \subseteq {TRUE}, RetryInv, [Next]_vars
  PROVE  RetryGoal
<1>0. TypeOK
  BY DEF RetryInv, HeldInv, OwnInv, StartInv
<1>1. ASSUME NEW b \in Batches, Run(b) PROVE RetryGoal
  BY <1>1, ClaimRetries, GroupRetries, CommitRetries, HandleRowRetries, EndRetries DEF Run
<1>2. ASSUME NEW b \in Batches, CrashRunner(b) PROVE RetryGoal
  <2>1. Retriable(b)' /\ \A c \in Batches \ {b} : runner'[c] = runner[c]
    BY <1>0, <1>2 DEF CrashRunner, NoRunner, TypeOK, Retriable
  <2> QED
    BY <1>2, <2>1, AsideRetries DEF CrashRunner
<1>3. ASSUME NEW s \in Starters, Sweep(s) PROVE RetryGoal
  <2>1. UNCHANGED <<runner, retryCount>>
    BY <1>3 DEF Sweep, SweepMark, SweepRequeue, RequeueReviewsOf, reviewVars
  <2>2. \A r \in Reviews : \/ status'[r] = status[r]
                           \/ status[r] # "FAILED" /\ status'[r] # "FAILED"
    BY <1>3 DEF Sweep, SweepMark, SweepRequeue, RequeueReviewsOf, reviewVars
  <2> QED
    BY <2>1, <2>2, AsideRetries
<1>4. ASSUME NEW s \in Starters, NEW b \in Batches, NEW o \in Outcomes, Insert(s, b, o)
      PROVE  RetryGoal
  <2>1. /\ \A c \in Batches \ {b} : runner'[c] = runner[c]
        /\ runner'[b].rows = runner[b].rows /\ runner'[b].retry = runner[b].retry
        /\ runner'[b].willRetry = runner[b].willRetry
    BY <1>0, <1>4 DEF Insert, TypeOK, Runner
  <2>2. Retriable(b)'
    BY <1>4, <2>1 DEF RetryInv, Retriable, LastTry, Insert
  <2> QED
    BY <1>4, <2>1, <2>2, AsideRetries DEF Insert
<1>5. ASSUME NEW s \in Starters, Lock(s) \/ Check(s) \/ CrashStarter(s) PROVE RetryGoal
  BY <1>5, AsideRetries DEF Lock, Check, CrashStarter
<1>6. ASSUME NEW r \in Reviews, Accept(r) PROVE RetryGoal
  BY <1>0, <1>6, AsideRetries DEF Accept, TypeOK
<1>7. ASSUME (\E b \in Batches : Age(b)) \/ UNCHANGED vars PROVE RetryGoal
  BY <1>7, AsideRetries DEF Age, vars
<1> QED
  BY <1>1, <1>2, <1>3, <1>4, <1>5, <1>6, <1>7 DEF Next, Start

LEMMA RetryInvNext ==
  ASSUME EngineVerdicts \subseteq {TRUE}, "slow" \notin Faults
  PROVE  RetryInv /\ [Next]_vars => RetryInv'
BY HeldInvNext, RetryInvStep DEF RetryInv, RetryGoal

(* With an engine that leaves retrying to the pipeline and no live batch   *)
(* beyond the stale threshold, FAILED is the status of exactly the reviews *)
(* whose retries are used up, and retry_count never passes the limit: no   *)
(* lost answer, be it to a COMMIT, no crash and no sweep gives a review up *)
(* early or tries it once more.                                            *)
THEOREM DeadLetterIsLast ==
  ASSUME EngineVerdicts \subseteq {TRUE}, "slow" \notin Faults
  PROVE  Spec => []DeadLetterAtLimit
<1>1. Spec => []RetryInv
  BY RetryInvInit, RetryInvNext, PTL DEF Spec
<1>2. RetryInv => DeadLetterAtLimit
  BY DEF RetryInv
<1> QED
  BY <1>1, <1>2, PTL

(* Under the same conditions no step takes a review out of FAILED: not even*)
(* the second call of _handle_failed_reviews, which writes rows the first  *)
(* has already dead-lettered.                                              *)
THEOREM DeadForGood ==
  ASSUME EngineVerdicts \subseteq {TRUE}, "slow" \notin Faults
  PROVE  Spec => DeadLetterIsFinal
<1>1. Spec => []RetryInv
  BY RetryInvInit, RetryInvNext, PTL DEF Spec
<1>2. RetryInv /\ [Next]_vars =>
        [\A r \in Reviews : status[r] = "FAILED" => status'[r] = "FAILED"]_vars
  BY RetryInvStep DEF RetryGoal
<1> QED
  BY <1>1, <1>2, PTL DEF Spec, DeadLetterIsFinal

(* How often a review can be counted, come what may on the connection.     *)
FoldsBounded == \A p \in Profiles, r \in Reviews : rep[p][r] <= MaxRetries

(* Together with FoldedAtLeastOnce: as many lost answers as there may be,  *)
(* no review is folded more than max_review_retries times.                 *)
THEOREM FoldedWithinRetries ==
  ASSUME EngineVerdicts \subseteq {TRUE}, "slow" \notin Faults
  PROVE  Spec => []FoldsBounded
<1>1. Spec => []RetryInv
  BY RetryInvInit, RetryInvNext, PTL DEF Spec
<1>2. Spec => []ChargeInv
  BY ChargeInvInit, ChargeInvNext, PTL DEF Spec
<1>3. RetryInv /\ ChargeInv => FoldsBounded
  <2> SUFFICES ASSUME RetryInv, ChargeInv, NEW p \in Profiles, NEW r \in Reviews
               PROVE  rep[p][r] <= MaxRetries
    BY DEF FoldsBounded
  <2>1. rep[p][r] \in Nat /\ retryCount[r] \in Nat
    BY DEF RetryInv, HeldInv, OwnInv, StartInv, TypeOK, State
  <2>2. /\ status[r] = "FAILED" <=> retryCount[r] >= MaxRetries
        /\ retryCount[r] <= MaxRetries
    BY DEF RetryInv, DeadLetterAtLimit
  <2>3. rep[p][r] <= retryCount[r] + Due(r)
    BY <2>1 DEF ChargeInv, EveryFoldCharged, Due
  <2> QED
    BY <2>1, <2>2, <2>3, BoundsAssumption DEF Due
<1> QED
  BY <1>1, <1>2, <1>3, PTL

(***************************************************************************)
(* Refinement.  RetryInv and FoldInv say enough about the rows in hand for *)
(* each step to be one of ReviewLedger's, or none.                         *)
(***************************************************************************)
LEMMA StandingOf ==
  /\ Standing("NONE") = "none" /\ Standing("COMMITTED") = "counted"
  /\ Standing("GATED") = "pending" /\ Standing("PROCESSING") = "pending"
  /\ Standing("FAILED") = "dead"
BY DEF Standing

LEMMA LedgerInit == Init => Ledger!Init
<1> SUFFICES ASSUME Init PROVE Ledger!Init
  OBVIOUS
<1>1. \A r \in Reviews : Standing(status[r]) = "none"
  BY StandingOf DEF Init
<1>2. \A r \in Reviews : rep[Target[r]][r] = 0
  BY TargetAssumption DEF Init, EmptyState
<1> QED
  BY <1>1, <1>2 DEF Ledger!Init

(* A step that leaves the standing of every review, and every state.       *)
LEMMA LedgerStutter ==
  ASSUME UNCHANGED rep,
         \A r \in Reviews : Standing(status'[r]) = Standing(status[r])
  PROVE  UNCHANGED Ledger!vars
BY DEF Ledger!vars

LEMMA LedgerCommit ==
  ASSUME RetryInv, NEW b \in Batches, NEW o \in Outcomes, Commit(b, o)
  PROVE  [Ledger!Next]_(Ledger!vars)
<1>0. TypeOK
  BY DEF RetryInv, HeldInv, OwnInv, StartInv
<1>1. /\ runner[b].cur \in Profiles /\ runner[b].base = rep[runner[b].cur]
      /\ \A r \in runner[b].rows : status[r] = "PROCESSING"
  BY AtCommit DEF RetryInv, Commit
<1>2. /\ Group(b) \in SUBSET Reviews /\ Group(b) \subseteq runner[b].rows
      /\ \A r \in Group(b) : Target[r] = runner[b].cur
  BY <1>0, RowsAreReviews DEF Group
<1>3. CASE Applied(o)
  <2>1. /\ rep' = [rep EXCEPT ![runner[b].cur] = Fold(rep[runner[b].cur], Group(b))]
        /\ status' = [r \in Reviews |-> IF r \in Group(b) THEN "COMMITTED" ELSE status[r]]
    BY <1>1, <1>3 DEF Commit
  <2>2. \A r \in Reviews :
          rep'[Target[r]][r] = IF r \in Group(b) THEN rep[Target[r]][r] + 1 ELSE rep[Target[r]][r]
    BY <1>0, <1>1, <1>2, <2>1, TargetAssumption DEF TypeOK, Fold
  <2>3. /\ \A r \in Group(b) : Standing(status[r]) = "pending"
        /\ \A r \in Reviews :
             Standing(status'[r]) = IF r \in Group(b) THEN "counted" ELSE Standing(status[r])
    BY <1>1, <1>2, <2>1, StandingOf
  <2>4. CASE Group(b) # {}
    <3>1. PICK G \in SUBSET Reviews : G = Group(b)
      BY <1>2
    <3>2. Ledger!Count(G)
      BY <1>2, <2>2, <2>3, <2>4, <3>1 DEF Ledger!Count
    <3> QED
      BY <3>2 DEF Ledger!Next
  <2>5. CASE Group(b) = {}
    BY <2>2, <2>3, <2>5 DEF Ledger!vars
  <2> QED
    BY <2>4, <2>5
<1>4. CASE ~Applied(o)
  BY <1>4, LedgerStutter DEF Commit
<1> QED
  BY <1>3, <1>4

LEMMA LedgerHandleRow ==
  ASSUME RetryInv, FoldInv, NEW b \in Batches, NEW r \in Reviews, NEW o \in Outcomes,
         HandleRow(b, r, o)
  PROVE  [Ledger!Next]_(Ledger!vars)
<1>0. TypeOK /\ InHand(b) /\ UNCHANGED rep /\ r \in runner[b].rows
  BY AtHandle DEF RetryInv, HeldInv, OwnInv, StartInv, HandleRow
<1>1. status[r] \in {"PROCESSING", "GATED", "FAILED"}
  BY <1>0 DEF InHand, FoldInv, RowsUncommitted
<1>2. status[r] = "FAILED" => status'[r] = "FAILED"
  BY HandleRowRetries DEF RetryGoal
<1>3. /\ \A q \in Reviews \ {r} : status'[q] = status[q]
      /\ status'[r] \in {status[r], "GATED", "FAILED"}
  BY <1>0 DEF HandleRow, Verdict, TypeOK
<1>4. CASE Standing(status'[r]) = Standing(status[r])
  BY <1>0, <1>3, <1>4, LedgerStutter
<1>5. CASE Standing(status'[r]) # Standing(status[r])
  <2>1. Standing(status[r]) = "pending" /\ Standing(status'[r]) = "dead"
    BY <1>1, <1>2, <1>3, <1>5 DEF Standing
  <2>2. Ledger!Bury(r)
    BY <1>0, <1>3, <2>1 DEF Ledger!Bury
  <2> QED
    BY <2>2 DEF Ledger!Next
<1> QED
  BY <1>4, <1>5

LEMMA LedgerStep ==
  ASSUME RetryInv, FoldInv, [Next]_vars
  PROVE  [Ledger!Next]_(Ledger!vars)
<1>0. TypeOK
  BY DEF RetryInv, HeldInv, OwnInv, StartInv
<1>1. ASSUME UNCHANGED rep,
             \A r \in Reviews : \/ status'[r] = status[r]
                                \/ {status[r], status'[r]} \subseteq {"GATED", "PROCESSING"}
      PROVE  [Ledger!Next]_(Ledger!vars)
  BY <1>1, LedgerStutter DEF Standing
<1>2. ASSUME NEW r \in Reviews, Accept(r) PROVE [Ledger!Next]_(Ledger!vars)
  <2>1. Ledger!Accept(r)
    <3>1. /\ status[r] = "NONE" /\ status'[r] = "GATED" /\ UNCHANGED rep
          /\ \A q \in Reviews \ {r} : status'[q] = status[q]
      BY <1>0, <1>2 DEF Accept, TypeOK
    <3> QED
      BY <3>1, StandingOf DEF Ledger!Accept
  <2> QED
    BY <2>1 DEF Ledger!Next
<1>3. ASSUME NEW b \in Batches, NEW o \in Outcomes, Claim(b, o)
      PROVE  [Ledger!Next]_(Ledger!vars)
  <2>1. \A r \in Claimable : status[r] = "GATED"
    BY DEF Claimable, Oldest
  <2> QED
    BY <1>0, <1>1, <1>3, <2>1 DEF Claim, TypeOK
<1>4. ASSUME NEW B, RequeueReviewsOf(B) \/ UNCHANGED reviewVars, UNCHANGED rep
      PROVE  [Ledger!Next]_(Ledger!vars)
  BY <1>1, <1>4 DEF RequeueReviewsOf, reviewVars
<1>5. ASSUME NEW b \in Batches, Run(b) PROVE [Ledger!Next]_(Ledger!vars)
  <2>1. CASE \/ \E p \in Profiles, o \in Outcomes : LoadState(b, p, o)
             \/ EngineFolds(b) \/ EngineRaises(b)
             \/ \E w \in EngineVerdicts : EngineRefuses(b, w)
             \/ \E o \in Outcomes : Finish(b, o) \/ MarkFailed(b, o)
    BY <1>1, <2>1 DEF LoadState, EngineFolds, EngineRaises, EngineRefuses, Finish, MarkFailed
  <2>2. CASE \E o \in Outcomes : Requeue(b, o)
    BY <1>4, <2>2 DEF Requeue
  <2> QED
    BY <1>3, <1>5, <2>1, <2>2, LedgerCommit, LedgerHandleRow DEF Run
<1>6. ASSUME NEW s \in Starters, Sweep(s) \/ Start(s) \/ CrashStarter(s)
      PROVE  [Ledger!Next]_(Ledger!vars)
  <2>1. CASE \E o \in Outcomes : SweepRequeue(s, o)
    BY <1>4, <2>1 DEF SweepRequeue
  <2>2. CASE UNCHANGED <<status, rep>>
    BY <1>1, <2>2
  <2> QED
    BY <1>6, <2>1, <2>2 DEF Sweep, Start, SweepMark, Lock, Check, Insert, CrashStarter
<1>7. ASSUME (\E b \in Batches : Age(b) \/ CrashRunner(b)) \/ UNCHANGED vars
      PROVE  [Ledger!Next]_(Ledger!vars)
  BY <1>1, <1>7 DEF Age, CrashRunner, vars
<1> QED
  BY <1>2, <1>5, <1>6, <1>7 DEF Next

(* If, moreover, the answer to the COMMIT of a fold is never lost, the     *)
(* pipeline implements the ledger: batches, retries, sweeps and crashes    *)
(* cannot be told from outside, where reviews are accepted, counted once   *)
(* or buried, for good.                                                    *)
THEOREM LedgerIsImplemented ==
  ASSUME EngineVerdicts \subseteq {TRUE}, "slow" \notin Faults, "lostfold" \notin Faults
  PROVE  Spec => ImplementsLedger
<1>1. Spec => []RetryInv
  BY RetryInvInit, RetryInvNext, PTL DEF Spec
<1>2. Spec => []FoldInv
  BY FoldInvInit, FoldInvNext, PTL DEF Spec
<1>3. RetryInv /\ FoldInv /\ [Next]_vars => [Ledger!Next]_(Ledger!vars)
  BY LedgerStep
<1> QED
  BY <1>1, <1>2, <1>3, LedgerInit, PTL DEF Spec, ImplementsLedger, Ledger!Spec
=============================================================================
