--------------------------- MODULE RiskIngestProofs ---------------------------
(***************************************************************************)
(* Theorems about RiskIngest, for any number of records, reports, tasks,   *)
(* connections and faults, and for any hash of the lock keys.              *)
(***************************************************************************)
EXTENDS RiskIngest, FiniteSetTheorems, TLAPS

(***************************************************************************)
(* Type correctness.                                                       *)
(***************************************************************************)
LEMMA ItemType ==
  ASSUME NEW t \in Tasks
  PROVE  /\ IsRecord(t) => /\ Item[t] \in Records
                           /\ Session[Item[t]] \in Sessions
                           /\ Raises[Item[t]] \in SUBSET Tags
         /\ ~IsRecord(t) => Item[t] \in Reports /\ OutcomeTag[Item[t]] \in Tags
         /\ Profile(t) \in Profiles
         /\ ThreadOf(t) \in Threads
         /\ OuterLock(t) \in LockIds /\ InnerLock(t) \in LockIds
BY RecordsAssumption, ReportsAssumption, ItemAssumption, LockAssumption
   DEF IsRecord, Profile, ThreadOf, OuterLock, InnerLock

LEMMA NewTaskType ==
  /\ NewConversation \in Conversation
  /\ NewAccount \in Account
  /\ NewTask \in Task
<1>1. NewConversation \in Conversation /\ NewAccount \in Account
  BY DEF NewConversation, Conversation, NewAccount, Account
<1> QED
  BY <1>1 DEF NewTask, Task, Answers

LEMMA InitType == Init => TypeOK
BY NewTaskType DEF Init, TypeOK

LEMMA SufferType ==
  ASSUME faults \in Nat, NEW kind, Suffer(kind)
  PROVE  faults' \in Nat
BY DEF Suffer

LEMMA SetTaskType ==
  ASSUME task \in [Tasks -> Task], NEW t \in Tasks, NEW x \in Task,
         task' = [task EXCEPT ![t] = x]
  PROVE  task' \in [Tasks -> Task]
OBVIOUS

LEMMA GoToType ==
  ASSUME task \in [Tasks -> Task], NEW t \in Tasks, NEW place \in InTransaction, GoTo(t, place)
  PROVE  task' \in [Tasks -> Task]
<1>1. [task[t] EXCEPT !.pc = place] \in Task
  BY DEF Task
<1> QED
  BY <1>1 DEF GoTo

LEMMA EndType ==
  ASSUME task \in [Tasks -> Task], holder \in [LockIds -> Tasks \cup {NULL}],
         NEW t \in Tasks, NEW answer \in Answers, End(t, answer)
  PROVE  task' \in [Tasks -> Task] /\ holder' \in [LockIds -> Tasks \cup {NULL}]
<1>1. [NewTask EXCEPT !.pc = "done", !.answer = answer] \in Task
  BY NewTaskType DEF Task, NewTask
<1> QED
  BY <1>1, SetTaskType DEF End

TablesType ==
  /\ filed \subseteq Records
  /\ reported \in [Reports -> Nat]
  /\ conv \in [Sessions -> Conversation]
  /\ account \in [Profiles -> Account]
  /\ open \subseteq Profiles

LEMMA TurnedType ==
  ASSUME TypeOK, NEW t \in Tasks, IsRecord(t), NEW derived \in SUBSET Tags
  PROVE  Turned(t, derived) \in Conversation
<1>1. task[t].conv \in Conversation
  BY DEF TypeOK, Task
<1>2. Sender[Item[t]] \in Profiles
  BY RecordsAssumption DEF IsRecord
<1> QED
  BY <1>1, <1>2 DEF Turned, Conversation

LEMMA FoldedType ==
  ASSUME TypeOK, NEW t \in Tasks, NEW high \in BOOLEAN, NEW pruned \in SUBSET Threads
  PROVE  Folded(t, high, pruned) \in Account
<1>1. task[t].account \in Account /\ Fresh(t) \subseteq Tags /\ ThreadOf(t) \in Threads
  BY ItemType DEF TypeOK, Task, Fresh
<1> DEFINE a == task[t].account
           kept == {entry \in a.seen : entry[1] \notin pruned} \cup ({ThreadOf(t)} \X Fresh(t))
           counted == [tag \in Tags |-> a.count[tag] + IF tag \in Fresh(t) THEN 1 ELSE 0]
<1>2. kept \in SUBSET (Threads \X Tags) /\ a.aged \cup pruned \in SUBSET Threads
  BY <1>1 DEF Account
<1>3. counted \in [Tags -> Nat]
  BY <1>1 DEF Account
<1>4. Folded(t, high, pruned) =
        [seen |-> kept, count |-> counted, aged |-> a.aged \cup pruned, high |-> high]
  BY DEF Folded
<1> HIDE DEF kept, counted
<1> QED
  BY <1>2, <1>3, <1>4 DEF Account

(* Only a record gets as far as the conversation. *)
RecordAtRead == \A t \in Tasks : task[t].pc \in {"read", "write"} => IsRecord(t)

TypeInv == TypeOK /\ RecordAtRead

(* What a step of task t leaves alone. *)
Alone(t) ==
  /\ \A u \in Tasks \ {t} : task'[u] = task[u]
  /\ \A u \in Tasks \ {t}, l \in LockIds : holder[l] = u => holder'[l] = u

(* How a step of a task that is not the last one of its transaction moves  *)
(* it: by giving new values to some of the fields of its state.            *)
Moves(t, place, c, a, folds, queue) ==
  /\ task'[t].pc = place /\ task'[t].conv = c /\ task'[t].account = a
  /\ task'[t].folds = folds /\ task'[t].queue = queue /\ task'[t].answer = task[t].answer
  /\ \A u \in Tasks \ {t} : task'[u] = task[u]
  /\ task' \in [Tasks -> Task]

LEMMA GoToMoves ==
  ASSUME TypeOK, NEW t \in Tasks, NEW place \in InTransaction, GoTo(t, place)
  PROVE  Moves(t, place, task[t].conv, task[t].account, task[t].folds, task[t].queue)
<1>1. task[t] \in Task
  BY DEF TypeOK
<1>2. task'[t] = [task[t] EXCEPT !.pc = place] /\ \A u \in Tasks \ {t} : task'[u] = task[u]
  BY DEF GoTo, TypeOK
<1> QED
  BY <1>1, <1>2, GoToType DEF Moves, Task, TypeOK

LEMMA InsertOutcomeMoves ==
  ASSUME TypeOK, NEW t \in Tasks, InsertOutcome(t)
  PROVE  Moves(t, "nest", task[t].conv, task[t].account, {OutcomeTag[Item[t]]}, task[t].queue)
<1> DEFINE x == [[task[t] EXCEPT !.pc = "nest"] EXCEPT !.folds = {OutcomeTag[Item[t]]}]
<1>1. task[t] \in Task /\ OutcomeTag[Item[t]] \in Tags
  BY ItemType DEF TypeOK, InsertOutcome
<1>2. task' = [task EXCEPT ![t] = x]
  BY DEF InsertOutcome
<1>3. x \in Task
  BY <1>1 DEF Task, InTransaction
<1> QED
  BY <1>1, <1>2, <1>3, SetTaskType DEF Moves, Task, TypeOK

LEMMA ReadConversationMoves ==
  ASSUME TypeInv, NEW t \in Tasks, ReadConversation(t)
  PROVE  Moves(t, "write", conv[Session[Item[t]]], task[t].account, task[t].folds, task[t].queue)
<1> DEFINE x == [[task[t] EXCEPT !.pc = "write"] EXCEPT !.conv = conv[Session[Item[t]]]]
<1>0. TypeOK
  BY DEF TypeInv
<1>1. task[t] \in Task /\ conv[Session[Item[t]]] \in Conversation
  BY ItemType DEF TypeInv, TypeOK, ReadConversation, At, RecordAtRead
<1>2. task' = [task EXCEPT ![t] = x]
  BY DEF ReadConversation
<1>3. x \in Task
  BY <1>1 DEF Task, InTransaction
<1> QED
  BY <1>0, <1>1, <1>2, <1>3, SetTaskType DEF Moves, Task, TypeOK

LEMMA FoldConversationMoves ==
  ASSUME TypeInv, NEW t \in Tasks, NEW derived \in SUBSET Tags, FoldConversation(t, derived)
  PROVE  Moves(t, IF derived = {} THEN "commit" ELSE "nest", Turned(t, derived),
               task[t].account, derived, task[t].queue)
<1> DEFINE x == [[[task[t] EXCEPT !.pc = IF derived = {} THEN "commit" ELSE "nest"]
                            EXCEPT !.conv = Turned(t, derived)] EXCEPT !.folds = derived]
<1>0. TypeOK /\ IsRecord(t)
  BY DEF TypeInv, FoldConversation, At, RecordAtRead
<1>1. task[t] \in Task /\ Turned(t, derived) \in Conversation
  BY <1>0, TurnedType DEF TypeOK
<1>2. task' = [task EXCEPT ![t] = x]
  BY DEF FoldConversation
<1>3. x \in Task
  BY <1>1 DEF Task, InTransaction
<1> QED
  BY <1>0, <1>1, <1>2, <1>3, SetTaskType DEF Moves, Task, TypeOK

LEMMA LoadAccountMoves ==
  ASSUME TypeOK, NEW t \in Tasks, LoadAccount(t)
  PROVE  Moves(t, "fold", task[t].conv, account[Profile(t)], task[t].folds, task[t].queue)
<1> DEFINE x == [[task[t] EXCEPT !.pc = "fold"] EXCEPT !.account = account[Profile(t)]]
<1>1. task[t] \in Task /\ account[Profile(t)] \in Account
  BY ItemType DEF TypeOK
<1>2. task' = [task EXCEPT ![t] = x]
  BY DEF LoadAccount
<1>3. x \in Task
  BY <1>1 DEF Task, InTransaction
<1> QED
  BY <1>1, <1>2, <1>3, SetTaskType DEF Moves, Task, TypeOK

LEMMA FoldAccountMoves ==
  ASSUME TypeOK, NEW t \in Tasks, NEW high \in BOOLEAN, NEW pruned \in SUBSET Threads,
         FoldAccount(t, high, pruned)
  PROVE  Moves(t, "commit", task[t].conv, Folded(t, high, pruned), task[t].folds, Queue(t, high))
<1> DEFINE x == [[[task[t] EXCEPT !.pc = "commit"] EXCEPT !.account = Folded(t, high, pruned)]
                           EXCEPT !.queue = Queue(t, high)]
<1>1. task[t] \in Task /\ Folded(t, high, pruned) \in Account /\ Queue(t, high) \in BOOLEAN
  BY FoldedType DEF TypeOK, Queue
<1>2. task' = [task EXCEPT ![t] = x]
  BY DEF FoldAccount
<1>3. x \in Task
  BY <1>1 DEF Task, InTransaction
<1> QED
  BY <1>1, <1>2, <1>3, SetTaskType DEF Moves, Task, TypeOK

(* The end of a transaction, whatever its outcome. *)
LEMMA EndMeans ==
  ASSUME TypeOK, NEW t \in Tasks, NEW answer \in Answers, End(t, answer)
  PROVE  /\ task' \in [Tasks -> Task] /\ holder' \in [LockIds -> Tasks \cup {NULL}]
         /\ task'[t].pc = "done" /\ task'[t].answer = answer
         /\ Alone(t)
<1>1. /\ task'[t] = [NewTask EXCEPT !.pc = "done", !.answer = answer]
      /\ \A u \in Tasks \ {t} : task'[u] = task[u]
      /\ \A l \in LockIds : holder'[l] = IF holder[l] = t THEN NULL ELSE holder[l]
  BY DEF End, TypeOK
<1>2. task'[t].pc = "done" /\ task'[t].answer = answer
  BY <1>1 DEF NewTask
<1> QED
  BY <1>1, <1>2, EndType DEF Alone, TypeOK

(* Of the steps only a COMMIT writes to the database, and only the steps   *)
(* of task t change what is its own.                                       *)
Inner(t) ==
  \/ Acquire(t) \/ Lock(t) \/ InsertSignal(t) \/ InsertOutcome(t) \/ ReadConversation(t)
  \/ (\E derived \in SUBSET Tags : FoldConversation(t, derived))
  \/ Nest(t) \/ LoadAccount(t)
  \/ (\E high \in BOOLEAN, pruned \in SUBSET Threads : FoldAccount(t, high, pruned))
  \/ Abort(t) \/ Reject(t) \/ Fail(t)

LEMMA NextMeans == [Next]_vars <=> (\E t \in Tasks : Inner(t) \/ Commit(t)) \/ UNCHANGED vars
BY DEF Next, Proceed, Inner

LEMMA Ends ==
  ASSUME NEW t \in Tasks, Abort(t) \/ Reject(t) \/ Fail(t) \/ Commit(t)
  PROVE  \E answer \in Answers : End(t, answer)
BY DEF Abort, Reject, Fail, Commit, Rollback, Answers

LEMMA InnerKeepsTables ==
  ASSUME NEW t \in Tasks, Inner(t)
  PROVE  UNCHANGED tables
BY DEF Inner, Acquire, Lock, InsertSignal, InsertOutcome, ReadConversation, FoldConversation,
       Nest, LoadAccount, FoldAccount, Abort, Reject, Fail, Rollback

(* What the lock table gains. *)
LEMMA HolderMeans ==
  ASSUME TypeOK, NEW t \in Tasks, NEW l \in LockIds, holder[l] \in {NULL, t},
         holder' = [holder EXCEPT ![l] = t]
  PROVE  /\ holder' \in [LockIds -> Tasks \cup {NULL}]
         /\ holder'[l] = t
         /\ \A k \in LockIds : holder[k] \in Tasks => holder'[k] = holder[k]
BY LockAssumption DEF TypeOK

Quiet(t) ==
  Alone(t) /\ task' \in [Tasks -> Task] /\ holder' \in [LockIds -> Tasks \cup {NULL}]

LEMMA InnerQuiet ==
  ASSUME TypeInv, NEW t \in Tasks, Inner(t)
  PROVE  Quiet(t)
<1>0. TypeOK /\ OuterLock(t) \in LockIds /\ InnerLock(t) \in LockIds
  BY ItemType DEF TypeInv
<1>1. ASSUME NEW place, NEW c, NEW a, NEW folds, NEW queue,
             Moves(t, place, c, a, folds, queue), UNCHANGED holder
      PROVE  Quiet(t)
  BY <1>0, <1>1 DEF Moves, Alone, Quiet, TypeOK
<1>2. ASSUME NEW answer \in Answers, End(t, answer) PROVE Quiet(t)
  BY <1>0, <1>2, EndMeans DEF Quiet
<1>3. ASSUME NEW l \in LockIds, holder[l] \in {NULL, t}, holder' = [holder EXCEPT ![l] = t],
             NEW place \in InTransaction, GoTo(t, place)
      PROVE  Quiet(t)
  <2>1. task' \in [Tasks -> Task] /\ \A u \in Tasks \ {t} : task'[u] = task[u]
    BY <1>0, <1>3, GoToMoves DEF Moves
  <2>2. /\ holder' \in [LockIds -> Tasks \cup {NULL}]
        /\ \A k \in LockIds : holder[k] \in Tasks => holder'[k] = holder[k]
    BY <1>0, <1>3, HolderMeans
  <2> QED
    BY <2>1, <2>2 DEF Alone, Quiet
<1>4. CASE Acquire(t)
  BY <1>0, <1>1, <1>4, GoToMoves DEF Acquire, InTransaction
<1>5. CASE Lock(t)
  BY <1>0, <1>3, <1>5 DEF Lock, InTransaction
<1>6. CASE InsertSignal(t)
  BY <1>0, <1>1, <1>2, <1>6, GoToMoves DEF InsertSignal, InTransaction, Rollback, Answers
<1>7. CASE InsertOutcome(t)
  BY <1>0, <1>1, <1>7, InsertOutcomeMoves DEF InsertOutcome
<1>8. CASE ReadConversation(t)
  BY <1>1, <1>8, ReadConversationMoves DEF ReadConversation
<1>9. ASSUME NEW derived \in SUBSET Tags, FoldConversation(t, derived) PROVE Quiet(t)
  BY <1>1, <1>9, FoldConversationMoves DEF FoldConversation
<1>10. CASE Nest(t)
  BY <1>0, <1>3, <1>10 DEF Nest, InTransaction
<1>11. CASE LoadAccount(t)
  BY <1>0, <1>1, <1>11, LoadAccountMoves DEF LoadAccount
<1>12. ASSUME NEW high \in BOOLEAN, NEW pruned \in SUBSET Threads,
             FoldAccount(t, high, pruned) PROVE Quiet(t)
  BY <1>0, <1>1, <1>12, FoldAccountMoves DEF FoldAccount
<1>13. CASE Abort(t) \/ Reject(t) \/ Fail(t)
  BY <1>2, <1>13, Ends
<1> QED
  BY <1>4, <1>5, <1>6, <1>7, <1>8, <1>9, <1>10, <1>11, <1>12, <1>13 DEF Inner

(* The writes of a transaction are well typed. *)
LEMMA WriteType ==
  ASSUME TypeOK, NEW t \in Tasks, Write(t)
  PROVE  TablesType'
<1>1. task[t].conv \in Conversation /\ task[t].account \in Account
  BY DEF TypeOK, Task
<1>2. /\ IsRecord(t) => Item[t] \in Records /\ Session[Item[t]] \in Sessions
      /\ ~IsRecord(t) => Item[t] \in Reports
      /\ Profile(t) \in Profiles
  BY ItemType
<1>3. /\ filed' \subseteq Records /\ reported' \in [Reports -> Nat]
      /\ conv' \in [Sessions -> Conversation]
  BY <1>1, <1>2 DEF Write, TypeOK
<1>4. account' \in [Profiles -> Account] /\ open' \subseteq Profiles
  BY <1>1, <1>2 DEF Write, TypeOK
<1> QED
  BY <1>3, <1>4 DEF TablesType

LEMMA CommitMeans ==
  ASSUME TypeOK, NEW t \in Tasks, Commit(t)
  PROVE  Quiet(t) /\ task'[t].pc = "done" /\ TablesType'
<1>1. PICK answer \in Answers : End(t, answer)
  BY Ends
<1>2. TablesType'
  BY WriteType DEF Commit
<1> QED
  BY <1>1, <1>2, EndMeans DEF Quiet

LEMMA FaultsType ==
  ASSUME TypeOK, NEW t \in Tasks, Inner(t) \/ Commit(t)
  PROVE  faults' \in Nat
<1>1. faults \in Nat
  BY DEF TypeOK
<1>2. CASE Commit(t)
  BY <1>1, <1>2 DEF Commit, Suffer
<1>3. CASE Abort(t) \/ Reject(t) \/ Fail(t)
  BY <1>1, <1>3 DEF Abort, Reject, Fail, Suffer
<1>4. CASE UNCHANGED faults
  BY <1>1, <1>4
<1> QED
  BY <1>2, <1>3, <1>4
     DEF Inner, Acquire, Lock, InsertSignal, InsertOutcome, ReadConversation, FoldConversation,
         Nest, LoadAccount, FoldAccount

(* Where a step leaves its task. *)
LEMMA InnerPlace ==
  ASSUME TypeInv, NEW t \in Tasks, Inner(t)
  PROVE  task'[t].pc \in {"read", "write"} => IsRecord(t)
<1>0. TypeOK
  BY DEF TypeInv
<1>1. CASE Acquire(t) \/ Lock(t) \/ Nest(t)
  <2>1. PICK place \in {"lock", "insert", "load"} : GoTo(t, place)
    BY <1>1 DEF Acquire, Lock, Nest
  <2> QED
    BY <1>0, <2>1, GoToMoves DEF Moves, InTransaction
<1>2. CASE InsertSignal(t)
  BY <1>2 DEF InsertSignal
<1>3. CASE InsertOutcome(t)
  BY <1>0, <1>3, InsertOutcomeMoves DEF Moves
<1>4. CASE ReadConversation(t)
  BY <1>4 DEF TypeInv, RecordAtRead, ReadConversation, At
<1>5. ASSUME NEW derived \in SUBSET Tags, FoldConversation(t, derived)
      PROVE  IsRecord(t)
  BY <1>5 DEF TypeInv, RecordAtRead, FoldConversation, At
<1>6. CASE LoadAccount(t)
  BY <1>0, <1>6, LoadAccountMoves DEF Moves
<1>7. ASSUME NEW high \in BOOLEAN, NEW pruned \in SUBSET Threads,
             FoldAccount(t, high, pruned) PROVE task'[t].pc = "commit"
  BY <1>0, <1>7, FoldAccountMoves DEF Moves
<1>8. CASE Abort(t) \/ Reject(t) \/ Fail(t)
  BY <1>0, <1>8, Ends, EndMeans
<1> QED
  BY <1>1, <1>2, <1>3, <1>4, <1>5, <1>6, <1>7, <1>8 DEF Inner

LEMMA TypeInvNext == TypeInv /\ [Next]_vars => TypeInv'
<1> SUFFICES ASSUME TypeInv, [Next]_vars PROVE TypeInv'
  OBVIOUS
<1>0. TypeOK
  BY DEF TypeInv
<1>1. ASSUME NEW t \in Tasks, Inner(t) PROVE TypeInv'
  <2>1. UNCHANGED tables /\ Quiet(t) /\ faults' \in Nat
    BY <1>0, <1>1, InnerKeepsTables, InnerQuiet, FaultsType
  <2>2. TypeOK'
    BY <1>0, <2>1 DEF TypeOK, Quiet, tables
  <2>3. RecordAtRead'
    BY <1>1, <2>1, InnerPlace DEF TypeInv, RecordAtRead, Quiet, Alone, IsRecord
  <2> QED
    BY <2>2, <2>3 DEF TypeInv
<1>2. ASSUME NEW t \in Tasks, Commit(t) PROVE TypeInv'
  <2>1. TablesType' /\ Quiet(t) /\ task'[t].pc = "done" /\ faults' \in Nat
    BY <1>0, <1>2, CommitMeans, FaultsType
  <2>2. TypeOK'
    BY <2>1 DEF TypeOK, TablesType, Quiet
  <2>3. RecordAtRead'
    BY <2>1 DEF TypeInv, RecordAtRead, Quiet, Alone, IsRecord
  <2> QED
    BY <2>2, <2>3 DEF TypeInv
<1>3. CASE UNCHANGED vars
  BY <1>3 DEF vars, tables, TypeInv, TypeOK, RecordAtRead, IsRecord
<1> QED
  BY <1>1, <1>2, <1>3, NextMeans

LEMMA TypeInvInit == Init => TypeInv
BY InitType DEF Init, TypeInv, RecordAtRead, NewTask

(* Every variable keeps its type, whatever fails. *)
THEOREM RiskTypeCorrect == Spec => []TypeOK
<1>1. TypeInv => TypeOK
  BY DEF TypeInv
<1> QED
  BY <1>1, TypeInvInit, TypeInvNext, PTL DEF Spec

(***************************************************************************)
(* Mutual exclusion.  From its first statement to its COMMIT a transaction *)
(* holds the lock of its session, or of the profile a report is about, and *)
(* from the read of the account on, that of the account.                   *)
(***************************************************************************)
Inside == InTransaction \ {"lock"}

FoldsAccount(t) ==
  task[t].pc \in {"load", "fold"} \/ (task[t].pc = "commit" /\ task[t].folds # {})

LocksOf(t) ==
  /\ task[t].pc \in Inside => holder[OuterLock(t)] = t
  /\ FoldsAccount(t) => holder[InnerLock(t)] = t

Locked == \A t \in Tasks : LocksOf(t)

LEMMA LocksOfOthers ==
  ASSUME Locked, NEW t \in Tasks, Alone(t)
  PROVE  \A u \in Tasks \ {t} : LocksOf(u)'
<1> SUFFICES ASSUME NEW u \in Tasks \ {t} PROVE LocksOf(u)'
  OBVIOUS
<1>1. OuterLock(u) \in LockIds /\ InnerLock(u) \in LockIds
  BY ItemType
<1>2. task'[u] = task[u]
  BY DEF Alone
<1>3. OuterLock(u)' = OuterLock(u) /\ InnerLock(u)' = InnerLock(u)
  BY DEF OuterLock, InnerLock, Profile, IsRecord
<1> QED
  BY <1>1, <1>2, <1>3 DEF Locked, LocksOf, FoldsAccount, Alone

LEMMA LocksOfMover ==
  ASSUME TypeInv, Locked, NEW t \in Tasks, Inner(t)
  PROVE  LocksOf(t)'
<1>0. TypeOK /\ LocksOf(t) /\ OuterLock(t) \in LockIds /\ InnerLock(t) \in LockIds
  BY ItemType DEF TypeInv, Locked
<1>a. OuterLock(t)' = OuterLock(t) /\ InnerLock(t)' = InnerLock(t)
  BY DEF OuterLock, InnerLock, Profile, IsRecord
<1> USE DEF LocksOf, FoldsAccount, Inside
<1>1. ASSUME UNCHANGED holder, task'[t].pc \in Inside => task[t].pc \in Inside,
             FoldsAccount(t)' => FoldsAccount(t)
      PROVE  LocksOf(t)'
  BY <1>0, <1>a, <1>1
<1>2. CASE Acquire(t)
  <2>1. task'[t].pc = "lock" /\ UNCHANGED holder
    BY <1>0, <1>2, GoToMoves DEF Acquire, InTransaction, Moves
  <2> QED
    BY <2>1
<1>3. CASE Lock(t)
  <2>1. task'[t].pc = "insert"
    BY <1>0, <1>3, GoToMoves DEF Lock, InTransaction, Moves
  <2>2. holder'[OuterLock(t)] = t
    BY <1>0, <1>3 DEF Lock, TypeOK
  <2> QED
    BY <1>a, <2>1, <2>2
<1>4. CASE InsertSignal(t)
  <2>1. CASE Item[t] \in filed
    BY <1>0, <1>4, <2>1, EndMeans DEF InsertSignal, Rollback, Answers, InTransaction
  <2>2. CASE Item[t] \notin filed
    <3>1. task[t].pc = "insert" /\ task'[t].pc = "read" /\ UNCHANGED holder
      BY <1>0, <1>4, <2>2, GoToMoves DEF InsertSignal, InTransaction, Moves, At
    <3> QED
      BY <1>1, <3>1 DEF InTransaction
  <2> QED
    BY <2>1, <2>2
<1>5. CASE InsertOutcome(t)
  <2>1. task[t].pc = "insert" /\ task'[t].pc = "nest" /\ UNCHANGED holder
    BY <1>0, <1>5, InsertOutcomeMoves DEF InsertOutcome, Moves, At
  <2> QED
    BY <1>1, <2>1 DEF InTransaction
<1>6. CASE ReadConversation(t)
  <2>1. task[t].pc = "read" /\ task'[t].pc = "write" /\ UNCHANGED holder
    BY <1>6, ReadConversationMoves DEF ReadConversation, Moves, At
  <2> QED
    BY <1>1, <2>1 DEF InTransaction
<1>7. ASSUME NEW derived \in SUBSET Tags, FoldConversation(t, derived) PROVE LocksOf(t)'
  <2>1. /\ task[t].pc = "write" /\ UNCHANGED holder
        /\ task'[t].pc \in {"commit", "nest"}
        /\ task'[t].pc = "commit" => task'[t].folds = {}
    <3> DEFINE place == IF derived = {} THEN "commit" ELSE "nest"
    <3>1. Moves(t, place, Turned(t, derived), task[t].account, derived, task[t].queue)
      BY <1>7, FoldConversationMoves
    <3>2. task'[t].pc = place /\ task'[t].folds = derived
      BY <3>1 DEF Moves
    <3>3. task[t].pc = "write" /\ UNCHANGED holder
      BY <1>7 DEF FoldConversation, At
    <3> QED
      BY <3>2, <3>3
  <2> QED
    BY <1>1, <2>1 DEF InTransaction
<1>8. CASE Nest(t)
  <2>1. task[t].pc = "nest" /\ task'[t].pc = "load"
    BY <1>0, <1>8, GoToMoves DEF Nest, InTransaction, Moves, At
  <2>2. holder'[InnerLock(t)] = t /\ holder'[OuterLock(t)] = t
    <3>1. holder[OuterLock(t)] = t
      BY <1>0, <2>1 DEF InTransaction
    <3>2. /\ holder[InnerLock(t)] \in {NULL, t}
          /\ holder' = [holder EXCEPT ![InnerLock(t)] = t]
      BY <1>8 DEF Nest
    <3> HIDE DEF LocksOf, FoldsAccount, Inside
    <3>3. /\ holder'[InnerLock(t)] = t
          /\ \A k \in LockIds : holder[k] \in Tasks => holder'[k] = holder[k]
      BY <1>0, <3>2, HolderMeans
    <3> QED
      BY <1>0, <3>1, <3>3
  <2> QED
    BY <1>a, <2>1, <2>2
<1>9. CASE LoadAccount(t)
  <2>1. task[t].pc = "load" /\ task'[t].pc = "fold" /\ UNCHANGED holder
    BY <1>0, <1>9, LoadAccountMoves DEF LoadAccount, Moves, At
  <2> QED
    BY <1>1, <2>1 DEF InTransaction
<1>10. ASSUME NEW high \in BOOLEAN, NEW pruned \in SUBSET Threads,
             FoldAccount(t, high, pruned) PROVE LocksOf(t)'
  <2>1. task[t].pc = "fold" /\ task'[t].pc = "commit" /\ UNCHANGED holder
    BY <1>0, <1>10, FoldAccountMoves DEF FoldAccount, Moves, At
  <2> QED
    BY <1>1, <2>1 DEF InTransaction
<1>11. CASE Abort(t) \/ Reject(t) \/ Fail(t)
  <2>1. task'[t].pc = "done"
    BY <1>0, <1>11, Ends, EndMeans
  <2> QED
    BY <2>1 DEF InTransaction
<1> QED
  BY <1>2, <1>3, <1>4, <1>5, <1>6, <1>7, <1>8, <1>9, <1>10, <1>11 DEF Inner

(* Two tasks inside transactions work on different sessions, and two that  *)
(* fold into accounts, on different accounts.                              *)
LEMMA Exclusion ==
  ASSUME Locked, NEW t \in Tasks, NEW u \in Tasks \ {t},
         task[t].pc \in Inside, task[u].pc \in Inside
  PROVE  /\ IsRecord(t) /\ IsRecord(u) => Session[Item[t]] # Session[Item[u]]
         /\ FoldsAccount(t) /\ FoldsAccount(u) => Profile(t) # Profile(u)
<1>1. OuterLock(t) # OuterLock(u)
  BY DEF Locked, LocksOf
<1>2. FoldsAccount(t) /\ FoldsAccount(u) => InnerLock(t) # InnerLock(u)
  BY DEF Locked, LocksOf
<1> QED
  BY <1>1, <1>2 DEF OuterLock, InnerLock

(***************************************************************************)
(* Whoever's score is high has an OPEN review.                             *)
(***************************************************************************)
QueuedInHand ==
  \A t \in Tasks :
    task[t].pc = "commit" /\ task[t].folds # {} /\ task[t].account.high =>
      Profile(t) \in open \/ task[t].queue

(***************************************************************************)
(* What a task has in its hands is what the database holds, or what its    *)
(* own COMMIT will make of that: nobody else can change it meanwhile.      *)
(***************************************************************************)
Late == {"nest", "load", "fold", "commit"}

(* The record of a task that has come past "insert" is not on file.        *)
NotFiled(t) == task[t].pc \in {"read", "write"} \cup Late /\ IsRecord(t) => Item[t] \notin filed

ConversationInHand(t) ==
  LET c == conv[Session[Item[t]]]
  IN  IsRecord(t) =>
        /\ task[t].pc = "write" => task[t].conv = c
        /\ task[t].pc \in Late =>
             /\ task[t].conv.turns = c.turns + IF Item[t] \in Unreadable THEN 0 ELSE 1
             /\ task[t].conv.fired = c.fired \cup (task[t].folds \X {Sender[Item[t]]})
             /\ \A tag \in task[t].folds : <<tag, Sender[Item[t]]>> \notin c.fired

ReportInHand(t) == ~IsRecord(t) /\ task[t].pc \in Late => task[t].folds = {OutcomeTag[Item[t]]}

(* Which of the account's records the fold has pruned, its own thread's    *)
(* never.                                                                  *)
Prunes(t, a, pruned) ==
  /\ ThreadOf(t) \notin pruned
  /\ task[t].account.seen =
       {entry \in a.seen : entry[1] \notin pruned} \cup ({ThreadOf(t)} \X task[t].folds)
  /\ task[t].account.aged = a.aged \cup pruned

AccountInHand(t) ==
  LET a == account[Profile(t)]
      isNew(tag) == tag \in task[t].folds /\ <<ThreadOf(t), tag>> \notin a.seen
  IN  /\ task[t].pc = "fold" => task[t].account = a
      /\ task[t].pc = "commit" /\ task[t].folds # {} =>
           /\ \E pruned \in SUBSET Threads : Prunes(t, a, pruned)
           /\ \A tag \in Tags : task[t].account.count[tag] =
                                  a.count[tag] + IF isNew(tag) THEN 1 ELSE 0

InHand(t) == NotFiled(t) /\ ConversationInHand(t) /\ ReportInHand(t) /\ AccountInHand(t)

AllInHand == \A t \in Tasks : InHand(t)

(* What the tables say of each other. *)
TurnsOf(s) == {r \in filed \ Unreadable : Session[r] = s}

TurnsAreFiled ==
  \A s \in Sessions : IsFiniteSet(TurnsOf(s)) /\ conv[s].turns = Cardinality(TurnsOf(s))

Fired(p, thread, tag) == thread \in Sessions /\ <<tag, p>> \in conv[thread].fired
Told(p, thread, tag) ==
  \E q \in Reports : reported[q] > 0 /\ About[q] = p /\ OutcomeTag[q] = tag /\ Thread[q] = thread

Detected(p, thread, tag) == Fired(p, thread, tag) \/ Told(p, thread, tag)

(* What an account has on record was detected, and what was detected is on *)
(* record or has aged out.                                                 *)
SeenIsDetected ==
  \A p \in Profiles, thread \in Threads, tag \in Tags :
    /\ <<thread, tag>> \in account[p].seen => Detected(p, thread, tag)
    /\ Detected(p, thread, tag) =>
         <<thread, tag>> \in account[p].seen \/ thread \in account[p].aged

ThreadsOf(p, tag) == {thread \in Threads : Detected(p, thread, tag)}
NoneToldAged(p, tag) == \A thread \in account[p].aged : ~Told(p, thread, tag)

CountIsDetected ==
  \A p \in Profiles, tag \in Tags :
    /\ IsFiniteSet(ThreadsOf(p, tag))
    /\ Cardinality(ThreadsOf(p, tag)) <= account[p].count[tag]
    /\ NoneToldAged(p, tag) => account[p].count[tag] = Cardinality(ThreadsOf(p, tag))

FoldInv ==
  /\ TypeInv /\ Locked /\ AllInHand
  /\ TurnsAreFiled /\ SeenIsDetected /\ CountIsDetected

LEMMA Fixed ==
  ASSUME NEW t \in Tasks
  PROVE  /\ IsRecord(t)' = IsRecord(t) /\ Profile(t)' = Profile(t)
         /\ ThreadOf(t)' = ThreadOf(t)
BY DEF IsRecord, Profile, ThreadOf

LEMMA HandOfOthers ==
  ASSUME AllInHand, NEW t \in Tasks, Alone(t), UNCHANGED tables
  PROVE  \A u \in Tasks \ {t} : InHand(u)'
<1> SUFFICES ASSUME NEW u \in Tasks \ {t} PROVE InHand(u)'
  OBVIOUS
<1>1. task'[u] = task[u] /\ filed' = filed /\ conv' = conv /\ account' = account
  BY DEF Alone, tables
<1>2. InHand(u)
  BY DEF AllInHand
<1>3. NotFiled(u)' /\ ReportInHand(u)'
  BY <1>1, <1>2, Fixed DEF InHand, NotFiled, ReportInHand
<1>4. ConversationInHand(u)'
  BY <1>1, <1>2, Fixed DEF InHand, ConversationInHand
<1>5. AccountInHand(u)'
  BY <1>1, <1>2, Fixed DEF InHand, AccountInHand, Prunes
<1> QED
  BY <1>3, <1>4, <1>5 DEF InHand

(* A task outside has nothing in its hands. *)
LEMMA EmptyHanded ==
  ASSUME NEW t \in Tasks, task'[t].pc \notin {"read", "write"} \cup Late
  PROVE  InHand(t)'
<1>1. NotFiled(t)' /\ ReportInHand(t)'
  BY DEF NotFiled, ReportInHand, Late
<1>2. ConversationInHand(t)'
  BY DEF ConversationInHand, Late
<1>3. AccountInHand(t)'
  BY DEF AccountInHand, Late
<1> QED
  BY <1>1, <1>2, <1>3 DEF InHand

LEMMA TurnedMeans ==
  ASSUME NEW t \in Tasks, NEW derived
  PROVE  /\ Turned(t, derived).turns =
              task[t].conv.turns + IF Item[t] \in Unreadable THEN 0 ELSE 1
         /\ Turned(t, derived).fired = task[t].conv.fired \cup (derived \X {Sender[Item[t]]})
BY DEF Turned

LEMMA FoldedMeans ==
  ASSUME NEW t \in Tasks, NEW high, NEW pruned, ThreadOf(t) \notin pruned
  PROVE  LET a == task[t].account
             b == Folded(t, high, pruned)
         IN  /\ b.seen = {entry \in a.seen : entry[1] \notin pruned}
                         \cup ({ThreadOf(t)} \X task[t].folds)
             /\ \A tag \in Tags : b.count[tag] = a.count[tag] +
                  IF tag \in task[t].folds /\ <<ThreadOf(t), tag>> \notin a.seen THEN 1 ELSE 0
             /\ b.aged = a.aged \cup pruned
             /\ b.high = high
<1> DEFINE a == task[t].account
           b == Folded(t, high, pruned)
<1>1. b.seen = {entry \in a.seen : entry[1] \notin pruned} \cup ({ThreadOf(t)} \X Fresh(t))
  BY DEF Folded
<1>2. @ = {entry \in a.seen : entry[1] \notin pruned} \cup ({ThreadOf(t)} \X task[t].folds)
  BY DEF Fresh
<1>3. b.count = [tag \in Tags |-> a.count[tag] + IF tag \in Fresh(t) THEN 1 ELSE 0]
  BY DEF Folded
<1>4. \A tag \in Tags : b.count[tag] = a.count[tag] + IF tag \in Fresh(t) THEN 1 ELSE 0
  BY <1>3
<1>5. b.aged = a.aged \cup pruned /\ b.high = high
  BY DEF Folded
<1> QED
  BY <1>1, <1>2, <1>4, <1>5 DEF Fresh

LEMMA HandOfMover ==
  ASSUME TypeInv, AllInHand, NEW t \in Tasks, Inner(t)
  PROVE  InHand(t)'
<1>0. TypeOK /\ InHand(t)
  BY DEF TypeInv, AllInHand
<1>a. filed' = filed /\ conv' = conv /\ account' = account
  BY InnerKeepsTables DEF tables
<1>b. /\ IsRecord(t)' = IsRecord(t) /\ Profile(t)' = Profile(t)
      /\ ThreadOf(t)' = ThreadOf(t)
  BY Fixed
<1>1. CASE Acquire(t) \/ Lock(t)
  <2>1. PICK place \in {"lock", "insert"} : GoTo(t, place)
    BY <1>1 DEF Acquire, Lock
  <2>2. task'[t].pc = place
    BY <1>0, <2>1, GoToMoves DEF Moves, InTransaction
  <2> QED
    BY <2>2, EmptyHanded DEF Late
<1>2. CASE InsertSignal(t)
  <2>1. CASE Item[t] \in filed
    <3>1. End(t, "duplicate")
      BY <1>2, <2>1 DEF InsertSignal, Rollback
    <3>2. task'[t].pc = "done"
      BY <1>0, <3>1, EndMeans DEF Answers
    <3> QED
      BY <3>2, EmptyHanded DEF Late
  <2>2. CASE Item[t] \notin filed
    <3>1. GoTo(t, "read")
      BY <1>2, <2>2 DEF InsertSignal
    <3>2. task'[t].pc = "read"
      BY <1>0, <3>1, GoToMoves DEF Moves, InTransaction
    <3>3. NotFiled(t)' /\ ReportInHand(t)'
      BY <1>a, <2>2, <3>2 DEF NotFiled, ReportInHand, Late
    <3>4. ConversationInHand(t)'
      BY <3>2 DEF ConversationInHand, Late
    <3>5. AccountInHand(t)'
      BY <3>2 DEF AccountInHand
    <3> QED
      BY <3>3, <3>4, <3>5 DEF InHand
  <2> QED
    BY <2>1, <2>2
<1>3. CASE InsertOutcome(t)
  <2>1. task'[t].pc = "nest" /\ task'[t].folds = {OutcomeTag[Item[t]]}
    BY <1>0, <1>3, InsertOutcomeMoves DEF Moves
  <2>2. ~IsRecord(t)
    BY <1>3 DEF InsertOutcome
  <2>3. NotFiled(t)' /\ ReportInHand(t)'
    BY <1>b, <2>1, <2>2 DEF NotFiled, ReportInHand
  <2>4. ConversationInHand(t)'
    BY <1>b, <2>2 DEF ConversationInHand
  <2>5. AccountInHand(t)'
    BY <2>1 DEF AccountInHand
  <2> QED
    BY <2>3, <2>4, <2>5 DEF InHand
<1>4. CASE ReadConversation(t)
  <2>1. task'[t].pc = "write" /\ task'[t].conv = conv[Session[Item[t]]]
    BY <1>4, ReadConversationMoves DEF Moves
  <2>2. task[t].pc = "read"
    BY <1>4 DEF ReadConversation, At
  <2>3. NotFiled(t)' /\ ReportInHand(t)'
    BY <1>0, <1>a, <1>b, <2>1, <2>2 DEF InHand, NotFiled, ReportInHand, Late
  <2>4. ConversationInHand(t)'
    BY <1>a, <2>1 DEF ConversationInHand, Late
  <2>5. AccountInHand(t)'
    BY <2>1 DEF AccountInHand
  <2> QED
    BY <2>3, <2>4, <2>5 DEF InHand
<1>5. ASSUME NEW derived \in SUBSET Tags, FoldConversation(t, derived) PROVE InHand(t)'
  <2> DEFINE place == IF derived = {} THEN "commit" ELSE "nest"
  <2>1. Moves(t, place, Turned(t, derived), task[t].account, derived, task[t].queue)
    BY <1>5, FoldConversationMoves
  <2>2. /\ task'[t].pc = place /\ task'[t].folds = derived
        /\ task'[t].conv = Turned(t, derived)
    BY <2>1 DEF Moves
  <2>3. task[t].pc = "write" /\ IsRecord(t)
    BY <1>5 DEF FoldConversation, At, TypeInv, RecordAtRead
  <2>4. Item[t] \notin filed /\ task[t].conv = conv[Session[Item[t]]]
    BY <1>0, <2>3 DEF InHand, NotFiled, ConversationInHand
  <2>5. NotFiled(t)' /\ ReportInHand(t)'
    BY <1>a, <1>b, <2>3, <2>4 DEF NotFiled, ReportInHand
  <2>6. /\ task'[t].conv.turns = conv[Session[Item[t]]].turns
                                 + IF Item[t] \in Unreadable THEN 0 ELSE 1
        /\ task'[t].conv.fired = conv[Session[Item[t]]].fired
                                 \cup (task'[t].folds \X {Sender[Item[t]]})
    BY <2>2, <2>4, TurnedMeans
  <2>a. \A tag \in task'[t].folds : <<tag, Sender[Item[t]]>> \notin conv[Session[Item[t]]].fired
    BY <1>5, <2>2, <2>4 DEF FoldConversation, Derivable
  <2>7. task'[t].pc # "write" /\ task'[t].pc # "fold"
    BY <2>2
  <2>8. ConversationInHand(t)'
    BY <1>a, <2>6, <2>7, <2>a DEF ConversationInHand
  <2>9. task'[t].pc = "commit" => task'[t].folds = {}
    BY <2>2
  <2>10. AccountInHand(t)'
    BY <2>7, <2>9 DEF AccountInHand
  <2> QED
    BY <2>5, <2>8, <2>10 DEF InHand
<1>6. CASE Nest(t) \/ LoadAccount(t)
  <2>1. \/ task[t].pc = "nest" /\ task'[t].pc = "load"
        \/ /\ task[t].pc = "load" /\ task'[t].pc = "fold"
           /\ task'[t].account = account[Profile(t)]
    <3>1. CASE Nest(t)
      BY <1>0, <3>1, GoToMoves DEF Nest, Moves, InTransaction, At
    <3>2. CASE LoadAccount(t)
      BY <1>0, <3>2, LoadAccountMoves DEF LoadAccount, Moves, At
    <3> QED
      BY <1>6, <3>1, <3>2
  <2>2. task'[t].conv = task[t].conv /\ task'[t].folds = task[t].folds
    <3>1. CASE Nest(t)
      BY <1>0, <3>1, GoToMoves DEF Nest, Moves, InTransaction
    <3>2. CASE LoadAccount(t)
      BY <1>0, <3>2, LoadAccountMoves DEF Moves
    <3> QED
      BY <1>6, <3>1, <3>2
  <2>3. NotFiled(t)' /\ ReportInHand(t)'
    BY <1>0, <1>a, <1>b, <2>1, <2>2 DEF InHand, NotFiled, ReportInHand, Late
  <2>4. ConversationInHand(t)'
    BY <1>0, <1>a, <1>b, <2>1, <2>2 DEF InHand, ConversationInHand, Late
  <2>5. AccountInHand(t)'
    BY <1>a, <1>b, <2>1 DEF AccountInHand
  <2> QED
    BY <2>3, <2>4, <2>5 DEF InHand
<1>7. ASSUME NEW high \in BOOLEAN, NEW pruned \in SUBSET Threads,
             FoldAccount(t, high, pruned) PROVE InHand(t)'
  <2>1. /\ task'[t].pc = "commit" /\ task'[t].conv = task[t].conv
        /\ task'[t].folds = task[t].folds /\ task'[t].account = Folded(t, high, pruned)
    BY <1>0, <1>7, FoldAccountMoves DEF Moves
  <2>2. task[t].pc = "fold"
    BY <1>7 DEF FoldAccount, At
  <2>3. NotFiled(t)' /\ ReportInHand(t)'
    BY <1>0, <1>a, <1>b, <2>1, <2>2 DEF InHand, NotFiled, ReportInHand, Late
  <2>4. ConversationInHand(t)'
    BY <1>0, <1>a, <1>b, <2>1, <2>2 DEF InHand, ConversationInHand, Late
  <2>5. task[t].account = account[Profile(t)]
    BY <1>0, <2>2 DEF InHand, AccountInHand
  <2>6. ThreadOf(t) \notin pruned
    BY <1>7 DEF FoldAccount, Prunable
  <2>7. Prunes(t, account[Profile(t)], pruned)'
    BY <1>a, <1>b, <2>1, <2>5, <2>6, FoldedMeans DEF Prunes
  <2>8. AccountInHand(t)'
    BY <1>a, <1>b, <2>1, <2>5, <2>6, <2>7, FoldedMeans DEF AccountInHand
  <2> QED
    BY <2>3, <2>4, <2>8 DEF InHand
<1>8. CASE Abort(t) \/ Reject(t) \/ Fail(t)
  <2>1. task'[t].pc = "done"
    BY <1>0, <1>8, Ends, EndMeans
  <2> QED
    BY <2>1, EmptyHanded DEF Late
<1> QED
  BY <1>1, <1>2, <1>3, <1>4, <1>5, <1>6, <1>7, <1>8 DEF Inner

(***************************************************************************)
(* A COMMIT.                                                               *)
(***************************************************************************)
(* What it adds to what the account of a profile has seen.                 *)
Adds(t, p, thread, tag) == p = Profile(t) /\ thread = ThreadOf(t) /\ tag \in task[t].folds

LEMMA CommitConversation ==
  ASSUME TypeOK, AllInHand, NEW t \in Tasks, Commit(t), NEW s \in Sessions
  PROVE  LET own == IsRecord(t) /\ s = Session[Item[t]]
         IN  /\ own => /\ conv'[s].turns = conv[s].turns
                                           + IF Item[t] \in Unreadable THEN 0 ELSE 1
                       /\ conv'[s].fired = conv[s].fired
                                           \cup (task[t].folds \X {Sender[Item[t]]})
             /\ ~own => conv'[s] = conv[s]
<1>1. task[t].pc = "commit" /\ Write(t)
  BY DEF Commit, At
<1>2. IsRecord(t) /\ s = Session[Item[t]] => conv'[s] = task[t].conv
  BY <1>1 DEF Write, TypeOK
<1>3. ~(IsRecord(t) /\ s = Session[Item[t]]) => conv'[s] = conv[s]
  BY <1>1 DEF Write, TypeOK
<1>4. InHand(t)
  BY DEF AllInHand
<1>5. IsRecord(t) => /\ task[t].conv.turns = conv[Session[Item[t]]].turns
                                             + IF Item[t] \in Unreadable THEN 0 ELSE 1
                     /\ task[t].conv.fired = conv[Session[Item[t]]].fired
                                             \cup (task[t].folds \X {Sender[Item[t]]})
  BY <1>1, <1>4 DEF InHand, ConversationInHand, Late
<1> QED
  BY <1>2, <1>3, <1>5

LEMMA CommitAccount ==
  ASSUME TypeOK, AllInHand, NEW t \in Tasks, Commit(t), NEW p \in Profiles
  PROVE  LET own == p = Profile(t) /\ task[t].folds # {}
         IN  /\ own => /\ account'[p] = task[t].account
                       /\ \E pruned \in SUBSET Threads : Prunes(t, account[p], pruned)
                       /\ \A tag \in Tags : account'[p].count[tag] = account[p].count[tag] +
                            IF tag \in task[t].folds /\ <<ThreadOf(t), tag>> \notin account[p].seen
                            THEN 1 ELSE 0
             /\ ~own => account'[p] = account[p]
<1>1. task[t].pc = "commit" /\ Write(t)
  BY DEF Commit, At
<1>2. p = Profile(t) /\ task[t].folds # {} => account'[p] = task[t].account
  BY <1>1 DEF Write, TypeOK
<1>3. ~(p = Profile(t) /\ task[t].folds # {}) => account'[p] = account[p]
  BY <1>1 DEF Write, TypeOK
<1>4. InHand(t)
  BY DEF AllInHand
<1>5. task[t].folds # {} =>
        /\ \E pruned \in SUBSET Threads : Prunes(t, account[Profile(t)], pruned)
        /\ \A tag \in Tags : task[t].account.count[tag] = account[Profile(t)].count[tag] +
             IF tag \in task[t].folds /\ <<ThreadOf(t), tag>> \notin account[Profile(t)].seen
             THEN 1 ELSE 0
  BY <1>1, <1>4 DEF InHand, AccountInHand
<1> QED
  BY <1>2, <1>3, <1>5

LEMMA CommitTurns ==
  ASSUME TypeOK, AllInHand, TurnsAreFiled, NEW t \in Tasks, Commit(t)
  PROVE  TurnsAreFiled'
<1> SUFFICES ASSUME NEW s \in Sessions
             PROVE  (IsFiniteSet(TurnsOf(s)) /\ conv[s].turns = Cardinality(TurnsOf(s)))'
  BY DEF TurnsAreFiled
<1>1. task[t].pc = "commit" /\ Write(t) /\ InHand(t)
  BY DEF Commit, At, AllInHand
<1>2. IsFiniteSet(TurnsOf(s)) /\ conv[s].turns = Cardinality(TurnsOf(s))
  BY DEF TurnsAreFiled
<1>3. CASE IsRecord(t) /\ s = Session[Item[t]] /\ Item[t] \notin Unreadable
  <2>1. Item[t] \notin filed /\ filed' = filed \cup {Item[t]}
    BY <1>1, <1>3 DEF InHand, NotFiled, Write, Late
  <2>2. TurnsOf(s)' = TurnsOf(s) \cup {Item[t]} /\ Item[t] \notin TurnsOf(s)
    BY <1>3, <2>1 DEF TurnsOf
  <2>3. IsFiniteSet(TurnsOf(s))' /\ Cardinality(TurnsOf(s))' = Cardinality(TurnsOf(s)) + 1
    <3> DEFINE S == TurnsOf(s)
    <3>1. IsFiniteSet(S) /\ Item[t] \notin S
      BY <1>2, <2>2
    <3> HIDE DEF S
    <3>2. IsFiniteSet(S \cup {Item[t]}) /\ Cardinality(S \cup {Item[t]}) = Cardinality(S) + 1
      BY <3>1, FS_AddElement
    <3> USE DEF S
    <3> QED
      BY <2>2, <3>2
  <2>4. conv'[s].turns = conv[s].turns + 1
    BY <1>3, CommitConversation
  <2> QED
    BY <1>2, <2>3, <2>4
<1>4. CASE ~(IsRecord(t) /\ s = Session[Item[t]] /\ Item[t] \notin Unreadable)
  <2>1. filed' = IF IsRecord(t) THEN filed \cup {Item[t]} ELSE filed
    BY <1>1 DEF Write
  <2>2. TurnsOf(s)' = TurnsOf(s)
    BY <1>4, <2>1 DEF TurnsOf
  <2>3. conv[s].turns \in Nat
    BY DEF TypeOK, Conversation
  <2>4. conv'[s].turns = conv[s].turns
    BY <1>4, <2>3, CommitConversation
  <2> QED
    BY <1>2, <2>2, <2>4
<1> QED
  BY <1>3, <1>4

LEMMA CommitDetects ==
  ASSUME TypeOK, AllInHand, NEW t \in Tasks, Commit(t),
         NEW p \in Profiles, NEW thread \in Threads, NEW tag \in Tags
  PROVE  /\ Detected(p, thread, tag)' <=> Detected(p, thread, tag) \/ Adds(t, p, thread, tag)
         /\ Told(p, thread, tag) => Told(p, thread, tag)'
         /\ ~IsRecord(t) /\ Adds(t, p, thread, tag) => Told(p, thread, tag)'
<1>1. task[t].pc = "commit" /\ Write(t) /\ InHand(t)
  BY DEF Commit, At, AllInHand
<1>2. CASE IsRecord(t)
  <2>1. Told(p, thread, tag)' <=> Told(p, thread, tag)
    BY <1>1, <1>2 DEF Write, Told
  <2>2. Profile(t) = Sender[Item[t]] /\ ThreadOf(t) = Session[Item[t]] /\ ThreadOf(t) \in Sessions
    BY <1>2, RecordsAssumption DEF Profile, ThreadOf, IsRecord
  <2>3. Fired(p, thread, tag)' <=> Fired(p, thread, tag) \/ Adds(t, p, thread, tag)
    <3>1. CASE thread = ThreadOf(t)
      <4>1. conv'[thread].fired = conv[thread].fired \cup (task[t].folds \X {Profile(t)})
        BY <1>2, <2>2, <3>1, CommitConversation
      <4> QED
        BY <2>2, <3>1, <4>1 DEF Fired, Adds
    <3>2. CASE thread # ThreadOf(t)
      <4>1. thread \in Sessions => conv'[thread] = conv[thread]
        BY <2>2, <3>2, CommitConversation
      <4> QED
        BY <3>2, <4>1 DEF Fired, Adds
    <3> QED
      BY <3>1, <3>2
  <2> QED
    BY <1>2, <2>1, <2>3 DEF Detected
<1>3. CASE ~IsRecord(t)
  <2>1. Fired(p, thread, tag)' <=> Fired(p, thread, tag)
    BY <1>1, <1>3 DEF Write, Fired
  <2>2. Profile(t) = About[Item[t]] /\ ThreadOf(t) = Thread[Item[t]] /\ Item[t] \in Reports
    BY <1>3, ItemType DEF Profile, ThreadOf
  <2>3. task[t].folds = {OutcomeTag[Item[t]]}
    BY <1>1, <1>3 DEF InHand, ReportInHand, Late
  <2>4. \A q \in Reports : reported'[q] > 0 <=> reported[q] > 0 \/ q = Item[t]
    BY <1>1, <1>3, <2>2 DEF Write, TypeOK
  <2>5. Told(p, thread, tag)' <=> Told(p, thread, tag) \/ Adds(t, p, thread, tag)
    BY <2>2, <2>3, <2>4 DEF Told, Adds
  <2> QED
    BY <2>1, <2>5 DEF Detected
<1> QED
  BY <1>2, <1>3

LEMMA CommitSeen ==
  ASSUME TypeOK, AllInHand, NEW t \in Tasks, Commit(t),
         NEW p \in Profiles, NEW thread \in Threads, NEW tag \in Tags
  PROVE  /\ <<thread, tag>> \in account'[p].seen =>
              <<thread, tag>> \in account[p].seen \/ Adds(t, p, thread, tag)
         /\ <<thread, tag>> \in account[p].seen \/ Adds(t, p, thread, tag) =>
              <<thread, tag>> \in account'[p].seen \/ thread \in account'[p].aged
         /\ account[p].aged \subseteq account'[p].aged
<1>1. CASE p = Profile(t) /\ task[t].folds # {}
  <2>1. account'[p] = task[t].account
    BY <1>1, CommitAccount
  <2>2. PICK pruned \in SUBSET Threads : Prunes(t, account[p], pruned)
    BY <1>1, CommitAccount
  <2>3. /\ account'[p].seen = {entry \in account[p].seen : entry[1] \notin pruned}
                              \cup ({ThreadOf(t)} \X task[t].folds)
        /\ account'[p].aged = account[p].aged \cup pruned
    BY <2>1, <2>2 DEF Prunes
  <2> QED
    BY <1>1, <2>3 DEF Adds
<1>2. CASE ~(p = Profile(t) /\ task[t].folds # {})
  <2>1. account'[p] = account[p]
    BY <1>2, CommitAccount
  <2> QED
    BY <1>2, <2>1 DEF Adds
<1> QED
  BY <1>1, <1>2

(* A tag is counted again in a thread that it was detected in before only  *)
(* if the thread's record has aged out, and then it was or is reported     *)
(* there: a conversation derives no tag twice for one sender.              *)
LEMMA CommitRecounts ==
  ASSUME TypeOK, AllInHand, SeenIsDetected, NEW t \in Tasks, Commit(t),
         NEW p \in Profiles, NEW tag \in Tags, Adds(t, p, ThreadOf(t), tag),
         <<ThreadOf(t), tag>> \notin account[p].seen, Detected(p, ThreadOf(t), tag)
  PROVE  ThreadOf(t) \in account'[p].aged /\ Told(p, ThreadOf(t), tag)'
<1>1. ThreadOf(t) \in Threads
  BY ItemType
<1>2. ThreadOf(t) \in account'[p].aged
  BY <1>1, CommitSeen DEF SeenIsDetected
<1>3. CASE IsRecord(t)
  <2>1. InHand(t) /\ task[t].pc \in Late
    BY DEF AllInHand, Commit, At, Late
  <2>2. p = Sender[Item[t]] /\ ThreadOf(t) = Session[Item[t]] /\ tag \in task[t].folds
    BY <1>3 DEF Adds, Profile, ThreadOf
  <2>3. ~Fired(p, ThreadOf(t), tag)
    BY <1>3, <2>1, <2>2 DEF InHand, ConversationInHand, Fired
  <2> QED
    BY <1>1, <1>2, <2>3, CommitDetects DEF Detected
<1>4. CASE ~IsRecord(t)
  BY <1>1, <1>2, <1>4, CommitDetects
<1> QED
  BY <1>3, <1>4

LEMMA CommitCounts ==
  ASSUME TypeOK, AllInHand, SeenIsDetected, CountIsDetected, NEW t \in Tasks, Commit(t)
  PROVE  CountIsDetected'
<1> SUFFICES ASSUME NEW p \in Profiles, NEW tag \in Tags
             PROVE  (/\ IsFiniteSet(ThreadsOf(p, tag))
                     /\ Cardinality(ThreadsOf(p, tag)) <= account[p].count[tag]
                     /\ NoneToldAged(p, tag) =>
                          account[p].count[tag] = Cardinality(ThreadsOf(p, tag)))'
  BY DEF CountIsDetected
<1>1. /\ IsFiniteSet(ThreadsOf(p, tag))
      /\ Cardinality(ThreadsOf(p, tag)) \in Nat
      /\ Cardinality(ThreadsOf(p, tag)) <= account[p].count[tag]
      /\ NoneToldAged(p, tag) => account[p].count[tag] = Cardinality(ThreadsOf(p, tag))
  BY FS_CardinalityType DEF CountIsDetected
<1>2. account[p].count[tag] \in Nat /\ account[p].aged \subseteq Threads
  BY DEF TypeOK, Account
<1>3. ThreadOf(t) \in Threads
  BY ItemType
<1>a. NoneToldAged(p, tag)' => NoneToldAged(p, tag)
  BY <1>2, CommitSeen, CommitDetects DEF NoneToldAged
<1>b. \A thread \in Threads : Detected(p, thread, tag)' <=>
                               Detected(p, thread, tag) \/ Adds(t, p, thread, tag)
  BY CommitDetects
<1>4. CASE Adds(t, p, ThreadOf(t), tag) /\ <<ThreadOf(t), tag>> \notin account[p].seen
  <2>1. account'[p].count[tag] = account[p].count[tag] + 1
    BY <1>4, CommitAccount DEF Adds
  <2>2. CASE ThreadOf(t) \notin ThreadsOf(p, tag)
    <3>1. ThreadsOf(p, tag)' = ThreadsOf(p, tag) \cup {ThreadOf(t)}
      BY <1>3, <1>4, <1>b DEF ThreadsOf, Adds
    <3>2. IsFiniteSet(ThreadsOf(p, tag))'
          /\ Cardinality(ThreadsOf(p, tag))' = Cardinality(ThreadsOf(p, tag)) + 1
      BY <1>1, <2>2, <3>1, FS_AddElement
    <3> QED
      BY <1>1, <1>2, <1>a, <2>1, <3>2
  <2>3. CASE ThreadOf(t) \in ThreadsOf(p, tag)
    <3>1. ThreadsOf(p, tag)' = ThreadsOf(p, tag)
      BY <1>3, <1>4, <1>b, <2>3 DEF ThreadsOf, Adds
    <3>2. ThreadOf(t) \in account'[p].aged /\ Told(p, ThreadOf(t), tag)'
      BY <1>4, <2>3, CommitRecounts DEF ThreadsOf
    <3>3. ~NoneToldAged(p, tag)'
      BY <3>2 DEF NoneToldAged
    <3> QED
      BY <1>1, <1>2, <2>1, <3>1, <3>3
  <2> QED
    BY <2>2, <2>3
<1>5. CASE ~(Adds(t, p, ThreadOf(t), tag) /\ <<ThreadOf(t), tag>> \notin account[p].seen)
  <2>1. ThreadsOf(p, tag)' = ThreadsOf(p, tag)
    BY <1>3, <1>5, <1>b DEF ThreadsOf, Adds, SeenIsDetected
  <2>2. account'[p].count[tag] = account[p].count[tag]
    <3>1. CASE p = Profile(t) /\ task[t].folds # {}
      BY <1>2, <1>5, <3>1, CommitAccount DEF Adds
    <3>2. CASE ~(p = Profile(t) /\ task[t].folds # {})
      BY <3>2, CommitAccount
    <3> QED
      BY <3>1, <3>2
  <2> QED
    BY <1>1, <1>a, <2>1, <2>2
<1> QED
  BY <1>4, <1>5

(* What another task has in its hands is not what this COMMIT writes.      *)
LEMMA CommitHands ==
  ASSUME TypeInv, Locked, AllInHand, NEW t \in Tasks, Commit(t), NEW u \in Tasks \ {t}
  PROVE  InHand(u)'
<1>0. TypeOK /\ InHand(u) /\ task[t].pc = "commit" /\ Write(t)
  BY DEF TypeInv, AllInHand, Commit, At
<1>1. task'[u] = task[u]
  BY <1>0, CommitMeans DEF Quiet, Alone
<1>2. CASE task[u].pc \notin Inside
  <2>1. task'[u].pc \notin {"read", "write"} \cup Late
    BY <1>1, <1>2 DEF Inside, InTransaction, Late
  <2> QED
    BY <2>1, EmptyHanded
<1>3. CASE task[u].pc \in Inside
  <2>1. task[t].pc \in Inside
    BY <1>0 DEF Inside, InTransaction
  <2>2. /\ IsRecord(u)' = IsRecord(u) /\ Profile(u)' = Profile(u)
        /\ ThreadOf(u)' = ThreadOf(u)
    BY Fixed
  <2>3. IsRecord(u) => Session[Item[u]] \in Sessions
    BY ItemType
  <2>4. IsRecord(t) /\ IsRecord(u) => Session[Item[t]] # Session[Item[u]]
    BY <1>3, <2>1, Exclusion
  <2>5. NotFiled(u)'
    <3>1. filed' = IF IsRecord(t) THEN filed \cup {Item[t]} ELSE filed
      BY <1>0 DEF Write
    <3>2. IsRecord(u) => (Item[u] \in filed' <=> Item[u] \in filed)
      BY <2>4, <3>1
    <3> QED
      BY <1>0, <1>1, <2>2, <3>2 DEF InHand, NotFiled
  <2>6. ConversationInHand(u)'
    <3>1. IsRecord(u) => conv'[Session[Item[u]]] = conv[Session[Item[u]]]
      BY <1>0, <2>3, <2>4, CommitConversation
    <3> QED
      BY <1>0, <1>1, <2>2, <3>1 DEF InHand, ConversationInHand
  <2>7. ReportInHand(u)'
    BY <1>0, <1>1, <2>2 DEF InHand, ReportInHand
  <2>8. AccountInHand(u)'
    <3>1. CASE FoldsAccount(u)
      <4>1. Profile(t) # Profile(u) \/ task[t].folds = {}
        BY <1>0, <1>3, <2>1, <3>1, Exclusion DEF FoldsAccount
      <4>2. Profile(u) \in Profiles
        BY ItemType
      <4>3. account'[Profile(u)] = account[Profile(u)]
        BY <1>0, <4>1, <4>2, CommitAccount
      <4> QED
        BY <1>0, <1>1, <2>2, <4>3 DEF InHand, AccountInHand, Prunes
    <3>2. CASE ~FoldsAccount(u)
      BY <1>1, <3>2 DEF AccountInHand, FoldsAccount
    <3> QED
      BY <3>1, <3>2
  <2> QED
    BY <2>5, <2>6, <2>7, <2>8 DEF InHand
<1> QED
  BY <1>2, <1>3

LEMMA FoldInvInit == Init => FoldInv
<1> SUFFICES ASSUME Init PROVE FoldInv
  OBVIOUS
<1>1. \A t \in Tasks : task[t].pc = "start"
  BY DEF Init, NewTask
<1>2. Locked
  BY <1>1 DEF Locked, LocksOf, Inside, InTransaction, FoldsAccount
<1>3. AllInHand
  BY <1>1 DEF AllInHand, InHand, NotFiled, ConversationInHand, ReportInHand, AccountInHand, Late
<1>4. TurnsAreFiled
  <2> SUFFICES ASSUME NEW s \in Sessions
               PROVE  IsFiniteSet(TurnsOf(s)) /\ conv[s].turns = Cardinality(TurnsOf(s))
    BY DEF TurnsAreFiled
  <2>1. TurnsOf(s) = {}
    BY DEF TurnsOf, Init
  <2>2. conv[s].turns = 0
    BY DEF Init, NewConversation
  <2> QED
    BY <2>1, <2>2, FS_EmptySet
<1>5. SeenIsDetected
  BY DEF SeenIsDetected, Detected, Fired, Told, Init, NewConversation, NewAccount
<1>6. CountIsDetected
  <2> SUFFICES ASSUME NEW p \in Profiles, NEW tag \in Tags
               PROVE  /\ IsFiniteSet(ThreadsOf(p, tag))
                      /\ Cardinality(ThreadsOf(p, tag)) = 0 /\ account[p].count[tag] = 0
    BY DEF CountIsDetected
  <2>1. account[p] = NewAccount
    BY DEF Init
  <2>2. ThreadsOf(p, tag) = {}
    BY DEF ThreadsOf, Detected, Fired, Told, Init, NewConversation
  <2>3. account[p].count[tag] = 0
    BY <2>1 DEF NewAccount
  <2> QED
    BY <2>2, <2>3, FS_EmptySet
<1> QED
  BY <1>2, <1>3, <1>4, <1>5, <1>6, TypeInvInit DEF FoldInv

LEMMA SameTables ==
  ASSUME TurnsAreFiled, SeenIsDetected, CountIsDetected, UNCHANGED tables
  PROVE  TurnsAreFiled' /\ SeenIsDetected' /\ CountIsDetected'
<1>1. TurnsAreFiled'
  BY DEF tables, TurnsAreFiled, TurnsOf
<1>2. account' = account /\ conv' = conv /\ reported' = reported
  BY DEF tables
<1>3. ASSUME NEW p \in Profiles, NEW thread, NEW tag
      PROVE  /\ Detected(p, thread, tag)' <=> Detected(p, thread, tag)
             /\ Told(p, thread, tag)' <=> Told(p, thread, tag)
  BY <1>2 DEF Detected, Fired, Told
<1>4. SeenIsDetected'
  <2> SUFFICES ASSUME NEW p \in Profiles, NEW thread \in Threads, NEW tag \in Tags
               PROVE  /\ <<thread, tag>> \in account'[p].seen => Detected(p, thread, tag)'
                      /\ Detected(p, thread, tag)' =>
                           <<thread, tag>> \in account'[p].seen \/ thread \in account'[p].aged
    BY DEF SeenIsDetected
  <2> QED
    BY <1>2, <1>3 DEF SeenIsDetected
<1>5. CountIsDetected'
  <2>1. \A p \in Profiles, tag \in Tags :
          /\ ThreadsOf(p, tag)' = ThreadsOf(p, tag)
          /\ NoneToldAged(p, tag)' <=> NoneToldAged(p, tag)
    BY <1>2, <1>3 DEF ThreadsOf, NoneToldAged
  <2> QED
    BY <1>2, <2>1 DEF CountIsDetected
<1> QED
  BY <1>1, <1>4, <1>5

LEMMA FoldInvNext == FoldInv /\ [Next]_vars => FoldInv'
<1> SUFFICES ASSUME FoldInv, [Next]_vars PROVE FoldInv'
  OBVIOUS
<1>0. /\ TypeInv /\ TypeOK /\ Locked /\ AllInHand
      /\ TurnsAreFiled /\ SeenIsDetected /\ CountIsDetected
  BY DEF FoldInv, TypeInv
<1>1. TypeInv'
  BY <1>0, TypeInvNext
<1>2. ASSUME NEW t \in Tasks, Inner(t) PROVE FoldInv'
  <2>1. Alone(t) /\ UNCHANGED tables
    BY <1>0, <1>2, InnerQuiet, InnerKeepsTables DEF Quiet
  <2>2. Locked'
    BY <1>0, <1>2, <2>1, LocksOfOthers, LocksOfMover DEF Locked
  <2>3. AllInHand'
    BY <1>0, <1>2, <2>1, HandOfOthers, HandOfMover DEF AllInHand
  <2> QED
    BY <1>0, <1>1, <2>1, <2>2, <2>3, SameTables DEF FoldInv
<1>3. ASSUME NEW t \in Tasks, Commit(t) PROVE FoldInv'
  <2>1. Alone(t) /\ task'[t].pc = "done"
    BY <1>0, <1>3, CommitMeans DEF Quiet
  <2>2. Locked'
    <3>1. LocksOf(t)'
      BY <2>1 DEF LocksOf, Inside, InTransaction, FoldsAccount
    <3> QED
      BY <1>0, <2>1, <3>1, LocksOfOthers DEF Locked
  <2>3. AllInHand'
    <3>1. InHand(t)'
      BY <2>1, EmptyHanded DEF Late
    <3> QED
      BY <1>0, <1>3, <3>1, CommitHands DEF AllInHand
  <2>4. SeenIsDetected'
    <3> SUFFICES ASSUME NEW p \in Profiles, NEW thread \in Threads, NEW tag \in Tags
                 PROVE  /\ <<thread, tag>> \in account'[p].seen => Detected(p, thread, tag)'
                        /\ Detected(p, thread, tag)' =>
                             <<thread, tag>> \in account'[p].seen \/ thread \in account'[p].aged
      BY DEF SeenIsDetected
    <3> QED
      BY <1>0, <1>3, CommitSeen, CommitDetects DEF SeenIsDetected
  <2> QED
    BY <1>0, <1>1, <1>3, <2>2, <2>3, <2>4, CommitTurns, CommitCounts DEF FoldInv
<1>4. CASE UNCHANGED vars
  <2>1. UNCHANGED tables /\ task' = task /\ holder' = holder
    BY <1>4 DEF vars, tables
  <2>2. Locked'
    BY <1>0, <2>1
       DEF Locked, LocksOf, FoldsAccount, OuterLock, InnerLock, Profile, IsRecord
  <2>3. AllInHand'
    <3> SUFFICES ASSUME NEW u \in Tasks PROVE InHand(u)'
      BY DEF AllInHand
    <3>1. InHand(u) /\ filed' = filed /\ conv' = conv /\ account' = account
      BY <1>0, <2>1 DEF AllInHand, tables
    <3>2. NotFiled(u)' /\ ReportInHand(u)'
      BY <2>1, <3>1, Fixed DEF InHand, NotFiled, ReportInHand
    <3>3. ConversationInHand(u)'
      BY <2>1, <3>1, Fixed DEF InHand, ConversationInHand
    <3>4. AccountInHand(u)'
      BY <2>1, <3>1, Fixed DEF InHand, AccountInHand, Prunes
    <3> QED
      BY <3>2, <3>3, <3>4 DEF InHand
  <2> QED
    BY <1>0, <1>1, <2>1, <2>2, <2>3, SameTables DEF FoldInv
<1> QED
  BY <1>2, <1>3, <1>4, NextMeans

(* Of records whose time can be read, one is on file exactly if it was     *)
(* folded into its conversation, and once (ingest_record), however the     *)
(* tasks overlap and fail.                                                 *)
THEOREM FiledAndFolded ==
  ASSUME Unreadable = {}
  PROVE  Spec => []FiledIsFolded
<1>1. FoldInv => FiledIsFolded
  <2> SUFFICES ASSUME FoldInv, NEW s \in Sessions
               PROVE  conv[s].turns = Cardinality({r \in filed : Session[r] = s})
    BY DEF FiledIsFolded
  <2>1. TurnsOf(s) = {r \in filed : Session[r] = s}
    BY DEF TurnsOf
  <2> QED
    BY <2>1 DEF FoldInv, TurnsAreFiled
<1> QED
  BY <1>1, FoldInvInit, FoldInvNext, PTL DEF Spec

(* However ingests overlap, fail and are repeated, an account has counted  *)
(* a tag at least once for each thread in which it fired for the profile   *)
(* or was reported of it, and exactly so often unless the record of a      *)
(* thread it was reported in has aged out (process_signals under _fold).   *)
THEOREM DetectionsAreCounted == Spec => []CountedAsDetected
<1>1. FoldInv => CountedAsDetected
  <2> SUFFICES ASSUME FoldInv, NEW p \in Profiles, NEW tag \in Tags
               PROVE  LET fired == {s \in Sessions : <<tag, p>> \in conv[s].fired}
                          told == {Thread[q] : q \in {q \in Reports : /\ reported[q] > 0
                                                                      /\ About[q] = p
                                                                      /\ OutcomeTag[q] = tag}}
                          threads == Cardinality(fired \cup told)
                      IN  /\ threads <= account[p].count[tag]
                          /\ told \cap account[p].aged = {} => account[p].count[tag] = threads
    BY DEF CountedAsDetected
  <2> DEFINE fired == {s \in Sessions : <<tag, p>> \in conv[s].fired}
             told == {Thread[q] : q \in {q \in Reports : /\ reported[q] > 0
                                                         /\ About[q] = p
                                                         /\ OutcomeTag[q] = tag}}
  <2>1. \A thread : thread \in told <=> Told(p, thread, tag)
    BY DEF Told
  <2>2. \A thread : thread \in fired <=> Fired(p, thread, tag)
    BY DEF Fired
  <2>3. fired \cup told \subseteq Threads
    BY RecordsAssumption, ReportsAssumption
  <2>4. ThreadsOf(p, tag) = fired \cup told
    BY <2>1, <2>2, <2>3 DEF ThreadsOf, Detected
  <2>5. told \cap account[p].aged = {} => NoneToldAged(p, tag)
    BY <2>1 DEF NoneToldAged
  <2> HIDE DEF fired, told
  <2>6. /\ Cardinality(fired \cup told) <= account[p].count[tag]
        /\ told \cap account[p].aged = {} =>
             account[p].count[tag] = Cardinality(fired \cup told)
    BY <2>4, <2>5 DEF FoldInv, CountIsDetected
  <2> USE DEF fired, told
  <2> QED
    BY <2>6
<1> QED
  BY <1>1, FoldInvInit, FoldInvNext, PTL DEF Spec

(***************************************************************************)
(* The queue of reviews.                                                   *)
(***************************************************************************)
QueueInv == TypeInv /\ QueuedInHand /\ HighIsQueued

LEMMA QueuedMover ==
  ASSUME TypeOK, QueuedInHand, NEW t \in Tasks, Inner(t),
         task'[t].pc = "commit", task'[t].folds # {}, task'[t].account.high
  PROVE  Profile(t) \in open \/ task'[t].queue
<1>1. CASE Acquire(t) \/ Lock(t) \/ Nest(t)
  <2>1. PICK place \in {"lock", "insert", "load"} : GoTo(t, place)
    BY <1>1 DEF Acquire, Lock, Nest
  <2> QED
    BY <2>1, GoToMoves DEF Moves, InTransaction
<1>2. CASE InsertSignal(t)
  <2>1. GoTo(t, "read") \/ End(t, "duplicate")
    BY <1>2 DEF InsertSignal, Rollback
  <2> QED
    BY <2>1, GoToMoves, EndMeans DEF Moves, InTransaction, Answers
<1>3. CASE InsertOutcome(t)
  BY <1>3, InsertOutcomeMoves DEF Moves
<1>4. CASE ReadConversation(t)
  <2>1. task'[t].pc = "write"
    BY <1>4 DEF ReadConversation, TypeOK, Task
  <2> QED
    BY <2>1
<1>5. ASSUME NEW derived \in SUBSET Tags, FoldConversation(t, derived)
      PROVE  task'[t].pc = "commit" => task'[t].folds = {}
  <2>1. task[t] \in Task
    BY DEF TypeOK
  <2>2. task'[t].pc = (IF derived = {} THEN "commit" ELSE "nest") /\ task'[t].folds = derived
    BY <1>5, <2>1 DEF FoldConversation, TypeOK, Task
  <2> QED
    BY <2>2
<1>6. CASE LoadAccount(t)
  BY <1>6, LoadAccountMoves DEF Moves
<1>7. ASSUME NEW high \in BOOLEAN, NEW pruned \in SUBSET Threads,
             FoldAccount(t, high, pruned)
      PROVE  task'[t].account.high => Profile(t) \in open \/ task'[t].queue
  <2>1. task'[t].account = Folded(t, high, pruned) /\ task'[t].queue = Queue(t, high)
    BY <1>7, FoldAccountMoves DEF Moves
  <2>2. Folded(t, high, pruned).high = high
    BY DEF Folded
  <2> QED
    BY <2>1, <2>2 DEF Queue
<1>8. CASE Abort(t) \/ Reject(t) \/ Fail(t)
  BY <1>8, Ends, EndMeans
<1> QED
  BY <1>1, <1>2, <1>3, <1>4, <1>5, <1>6, <1>7, <1>8 DEF Inner

LEMMA QueueInvNext == QueueInv /\ [Next]_vars => QueueInv'
<1> SUFFICES ASSUME QueueInv, [Next]_vars PROVE QueueInv'
  OBVIOUS
<1>0. TypeInv /\ TypeOK /\ TypeInv' /\ QueuedInHand /\ HighIsQueued
  BY TypeInvNext DEF QueueInv, TypeInv
<1>a. \A u \in Tasks : Profile(u)' = Profile(u)
  BY Fixed
<1>1. ASSUME NEW t \in Tasks, Inner(t) PROVE QueueInv'
  <2>1. open' = open /\ account' = account
    BY <1>1, InnerKeepsTables DEF tables
  <2>2. HighIsQueued'
    BY <1>0, <2>1 DEF HighIsQueued
  <2>3. \A u \in Tasks \ {t} : task'[u] = task[u]
    BY <1>0, <1>1, InnerQuiet DEF Quiet, Alone
  <2>4. QueuedInHand'
    BY <1>0, <1>1, <1>a, <2>1, <2>3, QueuedMover DEF QueuedInHand
  <2> QED
    BY <1>0, <2>2, <2>4 DEF QueueInv
<1>2. ASSUME NEW t \in Tasks, Commit(t) PROVE QueueInv'
  <2>1. task[t].pc = "commit" /\ Write(t)
    BY <1>2 DEF Commit, At
  <2>2. open' = IF task[t].queue THEN open \cup {Profile(t)} ELSE open
    BY <2>1 DEF Write
  <2>3. /\ \A u \in Tasks \ {t} : task'[u] = task[u]
        /\ task'[t].pc = "done"
    BY <1>0, <1>2, CommitMeans DEF Quiet, Alone
  <2>4. QueuedInHand'
    BY <1>0, <1>a, <2>2, <2>3 DEF QueuedInHand
  <2>5. HighIsQueued'
    <3> SUFFICES ASSUME NEW p \in Profiles, account'[p].high PROVE p \in open'
      BY DEF HighIsQueued
    <3>1. CASE p = Profile(t) /\ task[t].folds # {}
      <4>1. account'[p] = task[t].account
        BY <1>0, <2>1, <3>1 DEF Write, TypeOK
      <4> QED
        BY <1>0, <2>1, <2>2, <3>1, <4>1 DEF QueuedInHand
    <3>2. CASE ~(p = Profile(t) /\ task[t].folds # {})
      <4>1. account'[p] = account[p]
        BY <1>0, <2>1, <3>2 DEF Write, TypeOK
      <4> QED
        BY <1>0, <2>2, <4>1 DEF HighIsQueued
    <3> QED
      BY <3>1, <3>2
  <2> QED
    BY <1>0, <2>4, <2>5 DEF QueueInv
<1>3. CASE UNCHANGED vars
  <2>1. task' = task /\ open' = open /\ account' = account
    BY <1>3 DEF vars, tables
  <2>2. HighIsQueued' /\ QueuedInHand'
    BY <1>0, <1>a, <2>1 DEF HighIsQueued, QueuedInHand
  <2> QED
    BY <1>0, <2>2 DEF QueueInv
<1> QED
  BY <1>1, <1>2, <1>3, NextMeans

LEMMA QueueInvInit == Init => QueueInv
<1> SUFFICES ASSUME Init PROVE QueueInv
  OBVIOUS
<1>1. QueuedInHand
  BY DEF Init, QueuedInHand, NewTask
<1>2. HighIsQueued
  BY DEF Init, HighIsQueued, NewAccount
<1> QED
  BY <1>1, <1>2, TypeInvInit DEF QueueInv

(* Whoever's stored score reaches QUEUE_AT has an OPEN review (_fold,      *)
(* enqueue_review): the two are written by one COMMIT.                     *)
THEOREM NobodyIsOverlooked == Spec => []HighIsQueued
<1>1. QueueInv => HighIsQueued
  BY DEF QueueInv
<1> QED
  BY <1>1, QueueInvInit, QueueInvNext, PTL DEF Spec

(***************************************************************************)
(* Answers and errors.                                                     *)
(***************************************************************************)
(* The answer a step gives to its request, if any.                         *)
LEMMA InnerAnswers ==
  ASSUME TypeInv, NEW t \in Tasks, Inner(t)
  PROVE  \/ task'[t].answer = task[t].answer
         \/ task'[t].answer = "duplicate" /\ IsRecord(t) /\ Item[t] \in filed
         \/ task'[t].answer = "rejected"
         \/ task'[t].answer = "accepted" /\ "refuse" \in Faults
         \/ task'[t].answer = "error" /\ (faults' = faults + 1 \/ Deadlocked(t))
<1>0. TypeOK
  BY DEF TypeInv
<1>1. CASE Acquire(t) \/ Lock(t) \/ Nest(t)
  <2>1. PICK place \in {"lock", "insert", "load"} : GoTo(t, place)
    BY <1>1 DEF Acquire, Lock, Nest
  <2> QED
    BY <1>0, <2>1, GoToMoves DEF Moves, InTransaction
<1>2. CASE InsertSignal(t)
  <2>1. IsRecord(t)
    BY <1>2 DEF InsertSignal
  <2>2. CASE Item[t] \in filed
    BY <1>0, <1>2, <2>1, <2>2, EndMeans DEF InsertSignal, Rollback, Answers
  <2>3. CASE Item[t] \notin filed
    BY <1>0, <1>2, <2>3, GoToMoves DEF InsertSignal, Moves, InTransaction
  <2> QED
    BY <2>2, <2>3
<1>3. CASE InsertOutcome(t)
  BY <1>0, <1>3, InsertOutcomeMoves DEF Moves
<1>4. CASE ReadConversation(t)
  BY <1>4, ReadConversationMoves DEF Moves
<1>5. ASSUME NEW derived \in SUBSET Tags, FoldConversation(t, derived)
      PROVE  task'[t].answer = task[t].answer
  BY <1>5, FoldConversationMoves DEF Moves
<1>6. CASE LoadAccount(t)
  BY <1>0, <1>6, LoadAccountMoves DEF Moves
<1>7. ASSUME NEW high \in BOOLEAN, NEW pruned \in SUBSET Threads,
             FoldAccount(t, high, pruned)
      PROVE  task'[t].answer = task[t].answer
  BY <1>0, <1>7, FoldAccountMoves DEF Moves
<1>8. CASE Abort(t) \/ Fail(t)
  <2>1. End(t, "error") /\ (faults' = faults + 1 \/ Deadlocked(t))
    BY <1>8 DEF Abort, Fail, Rollback, Suffer
  <2> QED
    BY <1>0, <2>1, EndMeans DEF Answers
<1>9. CASE Reject(t)
  <2>1. IsRecord(t) => End(t, "rejected")
    BY <1>9 DEF Reject, Rollback
  <2>2. ~IsRecord(t) => End(t, "accepted") /\ "refuse" \in Faults
    BY <1>9 DEF Reject, Rollback, Suffer
  <2> QED
    BY <1>0, <2>1, <2>2, EndMeans DEF Answers
<1> QED
  BY <1>1, <1>2, <1>3, <1>4, <1>5, <1>6, <1>7, <1>8, <1>9 DEF Inner

LEMMA CommitAnswers ==
  ASSUME TypeOK, NEW t \in Tasks, Commit(t)
  PROVE  \/ task'[t].answer = "accepted"
         \/ task'[t].answer = "error" /\ faults' = faults + 1
<1>1. End(t, "accepted") \/ (End(t, "error") /\ faults' = faults + 1)
  BY DEF Commit, Suffer
<1> QED
  BY <1>1, EndMeans DEF Answers

(* What is on file stays there, and what is committed is.                  *)
LEMMA FilesGrow ==
  ASSUME TypeOK, NEW t \in Tasks, Commit(t)
  PROVE  /\ filed \subseteq filed'
         /\ \A q \in Reports : reported[q] > 0 => reported'[q] > 0
         /\ IF IsRecord(t) THEN Item[t] \in filed' ELSE reported'[Item[t]] > 0
<1>1. Write(t)
  BY DEF Commit
<1>2. ~IsRecord(t) => Item[t] \in Reports
  BY ItemType
<1> QED
  BY <1>1, <1>2 DEF Write, TypeOK

(* 202 and "duplicate" are only answered when the item is on file          *)
(* (post_signal, post_outcome), unless the engine refuses a report, which  *)
(* post_outcome answers 202.                                               *)
THEOREM TruthfulAnswers ==
  ASSUME "refuse" \notin Faults
  PROVE  Spec => []AnswersAreTruthful
<1> DEFINE Inv == TypeInv /\ AnswersAreTruthful
           OnFile(t) == IF IsRecord(t) THEN Item[t] \in filed ELSE reported[Item[t]] > 0
<1>1. Init => Inv
  <2> SUFFICES ASSUME Init PROVE AnswersAreTruthful
    BY TypeInvInit
  <2> QED
    BY DEF Init, AnswersAreTruthful, NewTask
<1>2. Inv /\ [Next]_vars => Inv'
  <2> SUFFICES ASSUME Inv, [Next]_vars PROVE AnswersAreTruthful'
    BY TypeInvNext
  <2>0. /\ TypeOK /\ TypeInv
        /\ \A u \in Tasks : task[u].answer \in {"accepted", "duplicate"} => OnFile(u)
    BY DEF TypeInv, AnswersAreTruthful
  <2>1. SUFFICES ASSUME NEW u \in Tasks, task'[u].answer \in {"accepted", "duplicate"}
                 PROVE  OnFile(u)'
    BY DEF AnswersAreTruthful, IsRecord
  <2>2. IsRecord(u)' = IsRecord(u) /\ (~IsRecord(u) => Item[u] \in Reports)
    BY Fixed, ItemType
  <2>3. ASSUME NEW t \in Tasks, Inner(t) PROVE OnFile(u)'
    <3>1. filed' = filed /\ reported' = reported
      BY <2>3, InnerKeepsTables DEF tables
    <3>2. u # t => task'[u] = task[u]
      BY <2>0, <2>3, InnerQuiet DEF Quiet, Alone
    <3>3. OnFile(u)
      BY <2>0, <2>1, <2>3, <3>2, InnerAnswers
    <3> QED
      BY <2>2, <3>1, <3>3
  <2>4. ASSUME NEW t \in Tasks, Commit(t) PROVE OnFile(u)'
    <3>1. u # t => task'[u] = task[u]
      BY <2>0, <2>4, CommitMeans DEF Quiet, Alone
    <3>2. u # t => OnFile(u)
      BY <2>0, <2>1, <3>1
    <3> QED
      BY <2>0, <2>2, <2>4, <3>2, FilesGrow
  <2>5. CASE UNCHANGED vars
    <3>1. task' = task /\ filed' = filed /\ reported' = reported
      BY <2>5 DEF vars, tables
    <3>2. OnFile(u)
      BY <2>0, <2>1, <3>1
    <3> QED
      BY <2>2, <3>1, <3>2
  <2> QED
    BY <2>3, <2>4, <2>5, NextMeans
<1>3. Inv => AnswersAreTruthful
  OBVIOUS
<1> QED
  BY <1>1, <1>2, <1>3, PTL DEF Spec

(***************************************************************************)
(* Deadlocks.  The converse of Locked: up to "nest" a transaction holds    *)
(* nothing but its first lock.                                             *)
(***************************************************************************)
Single == {"insert", "read", "write", "nest"}

HoldsOnly(t) ==
  \A l \in LockIds : holder[l] = t =>
    task[t].pc \in Inside /\ (task[t].pc \in Single => l = OuterLock(t))

HeldInv == FoldInv /\ \A t \in Tasks : HoldsOnly(t)

LEMMA HolderSteps ==
  ASSUME NEW t \in Tasks, Inner(t) \/ Commit(t)
  PROVE  \/ UNCHANGED holder
         \/ \E l \in LockIds : holder' = [holder EXCEPT ![l] = t]
         \/ holder' = [l \in LockIds |-> IF holder[l] = t THEN NULL ELSE holder[l]]
<1>1. OuterLock(t) \in LockIds /\ InnerLock(t) \in LockIds
  BY ItemType
<1>2. CASE Lock(t) \/ Nest(t)
  BY <1>1, <1>2 DEF Lock, Nest
<1>3. CASE InsertSignal(t)
  BY <1>3 DEF InsertSignal, Rollback, End
<1>4. CASE Abort(t) \/ Reject(t) \/ Fail(t) \/ Commit(t)
  BY <1>4 DEF Abort, Reject, Fail, Commit, Rollback, End
<1>5. CASE UNCHANGED holder
  BY <1>5
<1> QED
  BY <1>2, <1>3, <1>4, <1>5
     DEF Inner, Acquire, InsertOutcome, ReadConversation, FoldConversation, LoadAccount,
         FoldAccount

LEMMA HoldsOnlyOthers ==
  ASSUME TypeOK, NEW t \in Tasks, Inner(t) \/ Commit(t), Alone(t),
         NEW u \in Tasks \ {t}, HoldsOnly(u)
  PROVE  HoldsOnly(u)'
<1>1. task'[u] = task[u] /\ OuterLock(u)' = OuterLock(u)
  BY DEF Alone, OuterLock, Profile, IsRecord
<1>2. \A l \in LockIds : holder'[l] = u => holder[l] = u
  <2>1. NULL # u
    BY LockAssumption
  <2> QED
    BY <2>1, HolderSteps DEF TypeOK
<1> QED
  BY <1>1, <1>2 DEF HoldsOnly

LEMMA HoldsOnlyMover ==
  ASSUME TypeInv, NEW t \in Tasks, HoldsOnly(t), Inner(t) \/ Commit(t)
  PROVE  HoldsOnly(t)'
<1>0. TypeOK /\ OuterLock(t) \in LockIds /\ InnerLock(t) \in LockIds
  BY ItemType DEF TypeInv
<1>a. OuterLock(t)' = OuterLock(t)
  BY DEF OuterLock, Profile, IsRecord
<1>1. ASSUME UNCHANGED holder,
             task[t].pc \in Inside => task'[t].pc \in Inside,
             task[t].pc \in Inside /\ task'[t].pc \in Single => task[t].pc \in Single
      PROVE  HoldsOnly(t)'
  BY <1>a, <1>1 DEF HoldsOnly
<1>2. ASSUME NEW answer \in Answers, End(t, answer) PROVE HoldsOnly(t)'
  <2>1. \A l \in LockIds : holder'[l] # t
    BY <1>2, LockAssumption DEF End
  <2> QED
    BY <2>1 DEF HoldsOnly
<1> USE DEF Single, Inside, InTransaction
<1>3. CASE Acquire(t)
  <2>1. task[t].pc = "start" /\ UNCHANGED holder
    BY <1>3 DEF Acquire, At
  <2> QED
    BY <1>1, <2>1
<1>4. CASE Lock(t)
  <2>1. task[t].pc = "lock" /\ task'[t].pc = "insert"
    BY <1>0, <1>4, GoToMoves DEF Lock, Moves, At
  <2>2. \A l \in LockIds : holder'[l] = t => l = OuterLock(t)
    BY <1>0, <1>4, <2>1 DEF Lock, TypeOK, HoldsOnly
  <2> QED
    BY <1>a, <2>1, <2>2 DEF HoldsOnly
<1>5. CASE InsertSignal(t)
  <2>1. CASE Item[t] \in filed
    BY <1>2, <1>5, <2>1 DEF InsertSignal, Rollback, Answers
  <2>2. CASE Item[t] \notin filed
    <3>1. task[t].pc = "insert" /\ task'[t].pc = "read" /\ UNCHANGED holder
      BY <1>0, <1>5, <2>2, GoToMoves DEF InsertSignal, Moves, At
    <3> QED
      BY <1>1, <3>1
  <2> QED
    BY <2>1, <2>2
<1>6. CASE InsertOutcome(t)
  <2>1. task[t].pc = "insert" /\ task'[t].pc = "nest" /\ UNCHANGED holder
    BY <1>0, <1>6, InsertOutcomeMoves DEF InsertOutcome, Moves, At
  <2> QED
    BY <1>1, <2>1
<1>7. CASE ReadConversation(t)
  <2>1. task[t].pc = "read" /\ task'[t].pc = "write" /\ UNCHANGED holder
    BY <1>7, ReadConversationMoves DEF ReadConversation, Moves, At
  <2> QED
    BY <1>1, <2>1
<1>8. ASSUME NEW derived \in SUBSET Tags, FoldConversation(t, derived) PROVE HoldsOnly(t)'
  <2>1. task[t].pc = "write" /\ UNCHANGED holder
    BY <1>8 DEF FoldConversation, At
  <2>2. task'[t].pc \in {"commit", "nest"}
    BY <1>8, FoldConversationMoves DEF Moves
  <2> QED
    BY <1>1, <2>1, <2>2
<1>9. CASE Nest(t)
  <2>1. task[t].pc = "nest" /\ task'[t].pc = "load"
    BY <1>0, <1>9, GoToMoves DEF Nest, Moves, At
  <2> QED
    BY <2>1 DEF HoldsOnly
<1>10. CASE LoadAccount(t)
  <2>1. task[t].pc = "load" /\ task'[t].pc = "fold" /\ UNCHANGED holder
    BY <1>0, <1>10, LoadAccountMoves DEF LoadAccount, Moves, At
  <2> QED
    BY <1>1, <2>1
<1>11. ASSUME NEW high \in BOOLEAN, NEW pruned \in SUBSET Threads,
             FoldAccount(t, high, pruned) PROVE HoldsOnly(t)'
  <2>1. task[t].pc = "fold" /\ task'[t].pc = "commit" /\ UNCHANGED holder
    BY <1>0, <1>11, FoldAccountMoves DEF FoldAccount, Moves, At
  <2> QED
    BY <1>1, <2>1
<1>12. CASE Abort(t) \/ Reject(t) \/ Fail(t) \/ Commit(t)
  BY <1>2, <1>12, Ends
<1> QED
  BY <1>3, <1>4, <1>5, <1>6, <1>7, <1>8, <1>9, <1>10, <1>11, <1>12 DEF Inner

LEMMA HeldInvInit == Init => HeldInv
<1> SUFFICES ASSUME Init PROVE HeldInv
  OBVIOUS
<1>1. \A t \in Tasks : HoldsOnly(t)
  BY LockAssumption DEF Init, HoldsOnly
<1> QED
  BY <1>1, FoldInvInit DEF HeldInv

LEMMA HeldInvNext == HeldInv /\ [Next]_vars => HeldInv'
<1> SUFFICES ASSUME HeldInv, [Next]_vars PROVE HeldInv'
  OBVIOUS
<1>0. FoldInv /\ FoldInv' /\ TypeInv /\ TypeOK
  BY FoldInvNext DEF HeldInv, FoldInv, TypeInv
<1>1. ASSUME NEW t \in Tasks, Inner(t) \/ Commit(t) PROVE HeldInv'
  <2>1. Alone(t)
    BY <1>0, <1>1, InnerQuiet, CommitMeans DEF Quiet
  <2> QED
    BY <1>0, <1>1, <2>1, HoldsOnlyOthers, HoldsOnlyMover DEF HeldInv
<1>2. CASE UNCHANGED vars
  <2>1. task' = task /\ holder' = holder
    BY <1>2 DEF vars
  <2>2. \A t \in Tasks : HoldsOnly(t)'
    BY <2>1 DEF HeldInv, HoldsOnly, OuterLock, Profile, IsRecord
  <2> QED
    BY <1>0, <2>2 DEF HeldInv
<1> QED
  BY <1>1, <1>2, NextMeans

(* A task that waits with a lock in its hands carries a record, and waits  *)
(* for a lock that is the other task's first.                              *)
LEMMA WaitsMeans ==
  ASSUME HeldInv, NEW u \in Tasks, NEW v \in Tasks,
         task[u].pc = "nest", task[v].pc = "nest", Waits(u, v)
  PROVE  IsRecord(u) /\ InnerLock(u) = OuterLock(v)
<1>1. holder[InnerLock(u)] = v /\ u # v /\ InnerLock(u) \in LockIds
  BY ItemType DEF Waits
<1>2. holder[OuterLock(u)] = u
  BY DEF HeldInv, FoldInv, Locked, LocksOf, Inside, InTransaction
<1>3. InnerLock(u) = OuterLock(v)
  BY <1>1 DEF HeldInv, HoldsOnly, Single
<1>4. ~IsRecord(u) => InnerLock(u) = OuterLock(u)
  BY DEF InnerLock, OuterLock
<1> QED
  BY <1>1, <1>2, <1>3, <1>4

(* In a circle of waiting tasks each has the first lock of the one that    *)
(* waits for it.                                                           *)
LEMMA DeadlockedMeans ==
  ASSUME HeldInv, NEW t \in Tasks, Deadlocked(t)
  PROVE  Crossed(t)
<1>1. PICK W \in SUBSET {u \in Tasks : task[u].pc = "nest"} :
             t \in W /\ \A u \in W : \E v \in W, w \in W : Waits(u, v) /\ Waits(w, u)
  BY DEF Deadlocked, At
<1>2. PICK u \in W, v \in W : Waits(t, u) /\ Waits(v, t)
  BY <1>1
<1>3. \A x \in W : x \in Tasks /\ task[x].pc = "nest" /\ IsRecord(x)
  BY <1>1, WaitsMeans
<1>4. InnerLock(t) = OuterLock(u) /\ InnerLock(v) = OuterLock(t)
  BY <1>1, <1>2, <1>3, WaitsMeans
<1>5. Session[Item[t]] # Session[Item[u]]
  <2>1. u # t /\ task[t].pc \in Inside /\ task[u].pc \in Inside
    BY <1>1, <1>2, <1>3 DEF Waits, Inside, InTransaction
  <2> QED
    BY <1>1, <1>3, <2>1, Exclusion DEF HeldInv, FoldInv
<1>6. Sender[Item[t]] # Sender[Item[v]]
  BY <1>1, <1>2, <1>3 DEF Waits, InnerLock, Profile
<1>7. /\ LockOf[Sender[Item[t]]] = LockOf[Session[Item[u]]]
      /\ LockOf[Sender[Item[v]]] = LockOf[Session[Item[t]]]
  BY <1>1, <1>3, <1>4 DEF InnerLock, OuterLock, Profile
<1>8. IsRecord(t) /\ u \in {x \in Tasks : IsRecord(x)} /\ v \in {x \in Tasks : IsRecord(x)}
  BY <1>1, <1>3
<1> QED
  BY <1>5, <1>6, <1>7, <1>8 DEF Crossed

(* "A collision between two keys only serializes two ingests that did not  *)
(* need it" (app/risk/store.py): a deadlock takes two collisions, of the   *)
(* keys of two sessions with those of two senders, whatever the hash.      *)
THEOREM DeadlocksTakeCollisions == Spec => []DeadlockTakesCollisions
<1>1. HeldInv => DeadlockTakesCollisions
  BY DeadlockedMeans DEF DeadlockTakesCollisions
<1> QED
  BY <1>1, HeldInvInit, HeldInvNext, PTL DEF Spec

(***************************************************************************)
(* Errors.                                                                 *)
(***************************************************************************)
Failed == {t \in Tasks : task[t].answer = "error" /\ ~Crossed(t)}

FaultInv == HeldInv /\ IsFiniteSet(Failed) /\ Cardinality(Failed) <= faults

LEMMA FaultsGrow ==
  ASSUME TypeOK, NEW t \in Tasks, Inner(t) \/ Commit(t)
  PROVE  faults' >= faults
<1>1. faults \in Nat
  BY DEF TypeOK
<1>2. CASE Commit(t)
  BY <1>1, <1>2 DEF Commit, Suffer
<1>3. CASE Abort(t) \/ Reject(t) \/ Fail(t)
  BY <1>1, <1>3 DEF Abort, Reject, Fail, Suffer
<1>4. CASE UNCHANGED faults
  BY <1>1, <1>4
<1> QED
  BY <1>2, <1>3, <1>4
     DEF Inner, Acquire, Lock, InsertSignal, InsertOutcome, ReadConversation, FoldConversation,
         Nest, LoadAccount, FoldAccount

LEMMA FailedGrows ==
  ASSUME HeldInv, NEW t \in Tasks, Inner(t) \/ Commit(t)
  PROVE  Failed' \subseteq Failed \/ (Failed' \subseteq Failed \cup {t} /\ faults' = faults + 1)
<1>0. TypeInv /\ TypeOK
  BY DEF HeldInv, FoldInv, TypeInv
<1>1. \A u \in Tasks \ {t} : task'[u] = task[u]
  BY <1>0, InnerQuiet, CommitMeans DEF Quiet, Alone
<1>2. \/ task'[t].answer = task[t].answer \/ task'[t].answer # "error"
      \/ faults' = faults + 1 \/ Crossed(t)
  BY <1>0, InnerAnswers, CommitAnswers, DeadlockedMeans
<1>3. \A u \in Tasks : Crossed(u)' <=> Crossed(u)
  BY DEF Crossed, IsRecord
<1> QED
  BY <1>1, <1>2, <1>3 DEF Failed

LEMMA FaultInvNext == FaultInv /\ [Next]_vars => FaultInv'
<1> SUFFICES ASSUME FaultInv, [Next]_vars PROVE FaultInv'
  OBVIOUS
<1>0. /\ HeldInv /\ TypeOK /\ HeldInv' /\ IsFiniteSet(Failed) /\ Cardinality(Failed) <= faults
      /\ faults \in Nat /\ Cardinality(Failed) \in Nat
  BY HeldInvNext, FS_CardinalityType DEF FaultInv, HeldInv, FoldInv, TypeInv, TypeOK
<1>1. ASSUME NEW t \in Tasks, Inner(t) \/ Commit(t) PROVE FaultInv'
  <2>1. faults' \in Nat /\ faults' >= faults
    BY <1>0, <1>1, FaultsType, FaultsGrow
  <2>2. CASE Failed' \subseteq Failed
    <3>1. IsFiniteSet(Failed') /\ Cardinality(Failed') <= Cardinality(Failed)
          /\ Cardinality(Failed') \in Nat
      BY <1>0, <2>2, FS_Subset, FS_CardinalityType
    <3>2. Cardinality(Failed') <= faults'
      BY <1>0, <2>1, <3>1
    <3> QED
      BY <1>0, <3>1, <3>2 DEF FaultInv
  <2>3. CASE Failed' \subseteq Failed \cup {t} /\ faults' = faults + 1
    <3> DEFINE S == Failed \cup {t}
    <3>1. IsFiniteSet(S) /\ Cardinality(S) <= Cardinality(Failed) + 1 /\ Cardinality(S) \in Nat
      <4>1. CASE t \in Failed
        <5>1. S = Failed
          BY <4>1
        <5>2. Cardinality(Failed) <= Cardinality(Failed) + 1
          BY <1>0
        <5> HIDE DEF S
        <5> QED
          BY <1>0, <5>1, <5>2
      <4>2. CASE t \notin Failed
        <5>1. IsFiniteSet(S) /\ Cardinality(S) = Cardinality(Failed) + 1
          BY <1>0, <4>2, FS_AddElement
        <5> QED
          BY <1>0, <5>1
      <4> QED
        BY <4>1, <4>2
    <3>2. IsFiniteSet(Failed') /\ Cardinality(Failed') <= Cardinality(S)
          /\ Cardinality(Failed') \in Nat
      BY <2>3, <3>1, FS_Subset, FS_CardinalityType
    <3>3. Cardinality(Failed') <= faults'
      BY <1>0, <2>1, <2>3, <3>1, <3>2
    <3> QED
      BY <1>0, <3>2, <3>3 DEF FaultInv
  <2> QED
    BY <1>0, <1>1, <2>2, <2>3, FailedGrows
<1>2. CASE UNCHANGED vars
  <2>1. Failed' = Failed /\ faults' = faults
    BY <1>2 DEF vars, Failed, Crossed, IsRecord
  <2> QED
    BY <1>0, <2>1 DEF FaultInv
<1> QED
  BY <1>1, <1>2, NextMeans

(* No ingest makes another one fail (ingest_record, ingest_outcome), but   *)
(* for records whose keys collide crosswise: every other error is the      *)
(* doing of a fault of its own.  Deadlocked tasks fail without any fault,  *)
(* so this rests on what the locks are taken for and in which order.       *)
THEOREM NoneMakesAnotherFail == Spec => []NoneFailsForOthers
<1>1. Init => FaultInv
  <2> SUFFICES ASSUME Init PROVE IsFiniteSet(Failed) /\ Cardinality(Failed) <= faults
    BY HeldInvInit DEF FaultInv
  <2>1. Failed = {}
    BY DEF Failed, Init, NewTask
  <2>2. faults = 0
    BY DEF Init
  <2> QED
    BY <2>1, <2>2, FS_EmptySet
<1>2. FaultInv => NoneFailsForOthers
  BY DEF FaultInv, NoneFailsForOthers, Failed
<1> QED
  BY <1>1, <1>2, FaultInvNext, PTL DEF Spec

(***************************************************************************)
(* Refinement.  What a task has in its hands at its COMMIT is a step of    *)
(* RiskLedger from the tables as they are then.                            *)
(***************************************************************************)
LedgerInHand(t) ==
  /\ task[t].queue => /\ task[t].pc = "commit" /\ task[t].folds # {}
                      /\ task[t].account.high
  /\ task[t].pc \in {"nest", "load", "fold"} => task[t].folds # {}
  /\ task[t].pc \in Late /\ IsRecord(t) => task[t].folds \subseteq Ledger!Derives(Item[t])

LedgerInv == FoldInv /\ QueueInv /\ \A t \in Tasks : LedgerInHand(t)

LEMMA LedgerInit == Init => Ledger!Init
BY DEF Init, NewConversation, NewAccount, Ledger!Init

LEMMA LedgerInHandOthers ==
  ASSUME FoldInv, NEW t \in Tasks, Inner(t) \/ Commit(t), NEW u \in Tasks \ {t},
         LedgerInHand(u)
  PROVE  LedgerInHand(u)'
<1>0. TypeInv /\ TypeOK /\ Locked /\ AllInHand
  BY DEF FoldInv, TypeInv
<1>1. task'[u] = task[u] /\ IsRecord(u)' = IsRecord(u)
  BY <1>0, InnerQuiet, CommitMeans, Fixed DEF Quiet, Alone
<1>2. task[u].pc \in Late /\ IsRecord(u) => Ledger!Derives(Item[u])' = Ledger!Derives(Item[u])
  <2> SUFFICES ASSUME task[u].pc \in Late, IsRecord(u)
               PROVE  conv'[Session[Item[u]]] = conv[Session[Item[u]]]
    BY DEF Ledger!Derives
  <2>1. Session[Item[u]] \in Sessions
    BY ItemType
  <2>2. CASE Inner(t)
    BY <2>2, InnerKeepsTables DEF tables
  <2>3. CASE Commit(t)
    <3>1. task[t].pc \in Inside /\ task[u].pc \in Inside
      BY <2>3 DEF Commit, At, Inside, InTransaction, Late
    <3>2. IsRecord(t) => Session[Item[t]] # Session[Item[u]]
      BY <1>0, <3>1, Exclusion
    <3> QED
      BY <1>0, <2>1, <2>3, <3>2, CommitConversation
  <2> QED
    BY <2>2, <2>3
<1> QED
  BY <1>1, <1>2 DEF LedgerInHand

LEMMA LedgerInHandMover ==
  ASSUME FoldInv, NEW t \in Tasks, Inner(t) \/ Commit(t), LedgerInHand(t)
  PROVE  LedgerInHand(t)'
<1>0. TypeInv /\ TypeOK /\ InHand(t)
  BY DEF FoldInv, TypeInv, AllInHand
<1>a. IsRecord(t)' = IsRecord(t)
  BY Fixed
<1>b. Inner(t) => Ledger!Derives(Item[t])' = Ledger!Derives(Item[t])
  BY InnerKeepsTables DEF tables, Ledger!Derives
<1>1. ASSUME NEW answer \in Answers, End(t, answer) PROVE LedgerInHand(t)'
  <2>1. task'[t] = [NewTask EXCEPT !.pc = "done", !.answer = answer]
    BY <1>0, <1>1 DEF End, TypeOK
  <2>2. task'[t].pc = "done" /\ ~task'[t].queue
    BY <2>1 DEF NewTask
  <2> QED
    BY <2>2 DEF LedgerInHand, Late
<1>2. ASSUME NEW place \in InTransaction, NEW c, NEW a, NEW folds,
             Moves(t, place, c, a, folds, task[t].queue), Inner(t),
             task[t].pc # "commit",
             place \in {"nest", "load", "fold"} => folds # {},
             place \in Late /\ IsRecord(t) => folds \subseteq Ledger!Derives(Item[t])
      PROVE  LedgerInHand(t)'
  BY <1>a, <1>b, <1>2 DEF LedgerInHand, Moves
<1>3. CASE Acquire(t) \/ Lock(t)
  <2>1. PICK place \in {"lock", "insert"} : GoTo(t, place) /\ task[t].pc # "commit"
    BY <1>3 DEF Acquire, Lock, At
  <2> QED
    BY <1>0, <1>2, <1>3, <2>1, GoToMoves DEF InTransaction, Late, Inner
<1>4. CASE InsertSignal(t)
  <2>1. CASE Item[t] \in filed
    BY <1>1, <1>4, <2>1 DEF InsertSignal, Rollback, Answers
  <2>2. CASE Item[t] \notin filed
    BY <1>0, <1>2, <1>4, <2>2, GoToMoves DEF InsertSignal, At, InTransaction, Late, Inner
  <2> QED
    BY <2>1, <2>2
<1>5. CASE InsertOutcome(t)
  <2>1. ~IsRecord(t) /\ task[t].pc # "commit" /\ {OutcomeTag[Item[t]]} # {}
    BY <1>5 DEF InsertOutcome, At
  <2> QED
    BY <1>0, <1>2, <1>5, <2>1, InsertOutcomeMoves DEF InTransaction, Inner
<1>6. CASE ReadConversation(t)
  BY <1>0, <1>2, <1>6, ReadConversationMoves DEF ReadConversation, At, InTransaction, Late, Inner
<1>7. ASSUME NEW derived \in SUBSET Tags, FoldConversation(t, derived)
      PROVE  LedgerInHand(t)'
  <2>1. task[t].pc = "write" /\ derived \subseteq Derivable(t) /\ IsRecord(t)
    BY <1>0, <1>7 DEF FoldConversation, At, TypeInv, RecordAtRead
  <2>2. derived \subseteq Ledger!Derives(Item[t])
    BY <1>0, <2>1 DEF InHand, ConversationInHand, Derivable, Ledger!Derives
  <2>3. Moves(t, IF derived = {} THEN "commit" ELSE "nest",
              Turned(t, derived), task[t].account, derived, task[t].queue)
    BY <1>0, <1>7, FoldConversationMoves
  <2>4. PICK place \in {"commit", "nest"} : place = IF derived = {} THEN "commit" ELSE "nest"
    OBVIOUS
  <2> QED
    BY <1>2, <1>7, <2>1, <2>2, <2>3, <2>4 DEF InTransaction, Inner
<1>8. CASE Nest(t)
  BY <1>0, <1>2, <1>8, GoToMoves DEF Nest, At, InTransaction, Late, Inner, LedgerInHand
<1>9. CASE LoadAccount(t)
  BY <1>0, <1>2, <1>9, LoadAccountMoves
     DEF LoadAccount, At, InTransaction, Late, Inner, LedgerInHand
<1>10. ASSUME NEW high \in BOOLEAN, NEW pruned \in SUBSET Threads,
             FoldAccount(t, high, pruned) PROVE LedgerInHand(t)'
  <2>1. /\ task'[t].pc = "commit" /\ task'[t].folds = task[t].folds
        /\ task'[t].account = Folded(t, high, pruned) /\ task'[t].queue = Queue(t, high)
    BY <1>0, <1>10, FoldAccountMoves DEF Moves
  <2>a. task[t].pc = "fold"
    BY <1>10 DEF FoldAccount, At
  <2>2. task'[t].queue => task'[t].account.high
    <3>1. Folded(t, high, pruned).high = high
      BY DEF Folded
    <3> QED
      BY <2>1, <3>1 DEF Queue
  <2>3. Inner(t)
    BY <1>10 DEF Inner
  <2> QED
    BY <1>a, <1>b, <2>1, <2>2, <2>3, <2>a DEF LedgerInHand, Late
<1>11. CASE Abort(t) \/ Reject(t) \/ Fail(t) \/ Commit(t)
  BY <1>1, <1>11, Ends
<1> QED
  BY <1>3, <1>4, <1>5, <1>6, <1>7, <1>8, <1>9, <1>10, <1>11 DEF Inner

LEMMA LedgerInvInit == Init => LedgerInv
<1> SUFFICES ASSUME Init PROVE LedgerInv
  OBVIOUS
<1>1. \A t \in Tasks : LedgerInHand(t)
  BY DEF Init, LedgerInHand, NewTask, Late
<1> QED
  BY <1>1, FoldInvInit, QueueInvInit DEF LedgerInv

LEMMA LedgerInvNext == LedgerInv /\ [Next]_vars => LedgerInv'
<1> SUFFICES ASSUME LedgerInv, [Next]_vars PROVE LedgerInv'
  OBVIOUS
<1>0. FoldInv /\ FoldInv' /\ QueueInv'
  BY FoldInvNext, QueueInvNext DEF LedgerInv
<1>1. ASSUME NEW t \in Tasks, Inner(t) \/ Commit(t) PROVE LedgerInv'
  BY <1>0, <1>1, LedgerInHandOthers, LedgerInHandMover DEF LedgerInv
<1>2. CASE UNCHANGED vars
  <2>1. task' = task /\ conv' = conv
    BY <1>2 DEF vars
  <2>2. \A t \in Tasks : LedgerInHand(t)'
    BY <2>1, Fixed DEF LedgerInv, LedgerInHand, Ledger!Derives
  <2> QED
    BY <1>0, <2>2 DEF LedgerInv
<1> QED
  BY <1>1, <1>2, NextMeans

(* A COMMIT that writes the account and the queue counts for the ledger.   *)
LEMMA CommitIsCount ==
  ASSUME LedgerInv, NEW t \in Tasks, Commit(t), task[t].folds # {}
  PROVE  \E pruned \in SUBSET Threads :
           Ledger!Count(Profile(t), ThreadOf(t), task[t].folds, task[t].account.high, pruned)
<1>0. TypeOK /\ AllInHand /\ QueuedInHand /\ task[t].pc = "commit" /\ Write(t)
  BY DEF LedgerInv, FoldInv, TypeInv, QueueInv, Commit, At
<1>1. Profile(t) \in Profiles
  BY ItemType
<1>a. PICK pruned \in SUBSET Threads : Prunes(t, account[Profile(t)], pruned)
  BY <1>0 DEF AllInHand, InHand, AccountInHand
<1> DEFINE p == Profile(t)
           tags == task[t].folds
           a == account[p]
           b == [seen |-> {entry \in a.seen : entry[1] \notin pruned} \cup ({ThreadOf(t)} \X tags),
                 count |-> [tag \in Tags |-> a.count[tag]
                              + IF tag \in tags /\ <<ThreadOf(t), tag>> \notin a.seen THEN 1 ELSE 0],
                 aged |-> a.aged \cup pruned,
                 high |-> task[t].account.high]
<1>2. account' = [account EXCEPT ![p] = task[t].account]
  BY <1>0 DEF Write
<1>3. task[t].account = b
  <2>1. /\ task[t].account \in Account
        /\ task[t].account.seen = b.seen /\ task[t].account.aged = b.aged
        /\ \A tag \in Tags : task[t].account.count[tag] = b.count[tag]
    BY <1>0, <1>a DEF TypeOK, Task, AllInHand, InHand, AccountInHand, Prunes
  <2>2. task[t].account.count = b.count
    BY <2>1 DEF Account
  <2> QED
    BY <2>1, <2>2 DEF Account
<1>4. account' = [account EXCEPT ![p] = b]
  BY <1>2, <1>3
<1>5. open' = IF task[t].account.high THEN open \cup {p} ELSE open
  BY <1>0 DEF Write, QueuedInHand, LedgerInv, LedgerInHand
<1>6. ThreadOf(t) \notin pruned
  BY <1>a DEF Prunes
<1> QED
  BY <1>4, <1>5, <1>6 DEF Ledger!Count

LEMMA LedgerCommit ==
  ASSUME LedgerInv, NEW t \in Tasks, Commit(t)
  PROVE  Ledger!Next
<1>0. /\ TypeOK /\ AllInHand /\ task[t].pc = "commit" /\ Write(t)
      /\ InHand(t) /\ LedgerInHand(t)
  BY DEF LedgerInv, FoldInv, TypeInv, Commit, At, AllInHand
<1>1. PICK high \in BOOLEAN : high = task[t].account.high
  BY <1>0 DEF TypeOK, Task, Account
<1>2. PICK derived \in SUBSET Tags : derived = task[t].folds
  BY <1>0 DEF TypeOK, Task
<1>3. CASE IsRecord(t)
  <2>1. PICK r \in Records : r = Item[t] /\ Session[r] \in Sessions
    BY <1>3, ItemType DEF IsRecord
  <2>2. r \notin filed /\ derived \subseteq Ledger!Derives(r)
    BY <1>0, <1>2, <1>3, <2>1 DEF InHand, NotFiled, LedgerInHand, Late
  <2>3. filed' = filed \cup {r} /\ UNCHANGED reported
    BY <1>0, <1>3, <2>1 DEF Write
  <2>4. conv' = [conv EXCEPT ![Session[r]] =
                   [turns |-> @.turns + IF r \in Unreadable THEN 0 ELSE 1,
                    fired |-> @.fired \cup (derived \X {Sender[r]})]]
    <3>1. conv' = [conv EXCEPT ![Session[r]] = task[t].conv]
      BY <1>0, <1>3, <2>1 DEF Write
    <3>2. task[t].conv = [turns |-> task[t].conv.turns, fired |-> task[t].conv.fired]
      BY <1>0 DEF TypeOK, Task, Conversation
    <3>3. /\ task[t].conv.turns = conv[Session[r]].turns + IF r \in Unreadable THEN 0 ELSE 1
          /\ task[t].conv.fired = conv[Session[r]].fired \cup (derived \X {Sender[r]})
      BY <1>0, <1>2, <1>3, <2>1 DEF InHand, ConversationInHand, Late
    <3> QED
      BY <3>1, <3>2, <3>3
  <2>5. PICK pruned \in SUBSET Threads :
          IF derived = {} THEN UNCHANGED <<account, open>>
          ELSE Ledger!Count(Sender[r], Session[r], derived, high, pruned)
    <3>1. CASE derived = {}
      <4>1. UNCHANGED <<account, open>> /\ {} \in SUBSET Threads
        BY <1>0, <1>2, <3>1 DEF Write, LedgerInHand
      <4> QED
        BY <3>1, <4>1
    <3>2. CASE derived # {}
      <4>1. Profile(t) = Sender[r] /\ ThreadOf(t) = Session[r]
        BY <1>3, <2>1 DEF Profile, ThreadOf
      <4> QED
        BY <1>1, <1>2, <3>2, <4>1, CommitIsCount
    <3> QED
      BY <3>1, <3>2
  <2>6. Ledger!File(r, derived, high, pruned)
    BY <2>2, <2>3, <2>4, <2>5 DEF Ledger!File
  <2>7. r \in filed' \ filed
    BY <2>2, <2>3
  <2> QED
    BY <2>6, <2>7 DEF Ledger!Next
<1>4. CASE ~IsRecord(t)
  <2>1. PICK q \in Reports : q = Item[t]
    BY <1>4, ItemType
  <2>2. task[t].folds = {OutcomeTag[q]}
    BY <1>0, <1>4, <2>1 DEF InHand, ReportInHand, Late
  <2>3. Profile(t) = About[q] /\ ThreadOf(t) = Thread[q]
    BY <1>4, <2>1 DEF Profile, ThreadOf
  <2>4. PICK pruned \in SUBSET Threads :
          Ledger!Count(About[q], Thread[q], {OutcomeTag[q]}, high, pruned)
    BY <1>1, <2>2, <2>3, CommitIsCount
  <2>5. reported' = [reported EXCEPT ![q] = @ + 1] /\ UNCHANGED <<filed, conv>>
    BY <1>0, <1>4, <2>1 DEF Write
  <2>6. Ledger!Report(q, high, pruned)
    BY <2>4, <2>5 DEF Ledger!Report
  <2>7. reported'[q] # reported[q]
    <3>1. reported[q] \in Nat /\ reported'[q] = reported[q] + 1
      BY <1>0, <2>5 DEF TypeOK
    <3> QED
      BY <3>1
  <2> QED
    BY <2>6, <2>7 DEF Ledger!Next
<1> QED
  BY <1>3, <1>4

(* ingest_record and ingest_outcome are serializable: overlapping tasks,   *)
(* failed and repeated ones leave the tables as if records and reports had *)
(* been taken in one after the other, each wholly or not at all.           *)
THEOREM LedgerIsKept == Spec => ImplementsLedger
<1>1. LedgerInv /\ [Next]_vars => [Ledger!Next]_(Ledger!vars)
  <2> SUFFICES ASSUME LedgerInv, [Next]_vars PROVE [Ledger!Next]_(Ledger!vars)
    OBVIOUS
  <2>1. CASE UNCHANGED tables
    BY <2>1 DEF tables, Ledger!vars
  <2> QED
    BY <2>1, NextMeans, InnerKeepsTables, LedgerCommit DEF vars, tables
<1> QED
  BY <1>1, LedgerInit, LedgerInvInit, LedgerInvNext, PTL DEF Spec, ImplementsLedger, Ledger!Spec
=============================================================================
