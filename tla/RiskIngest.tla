----------------------------- MODULE RiskIngest -----------------------------
(***************************************************************************)
(* The risk service (app/risk/service.py over app/risk/store.py): records  *)
(* of the chat gate and reports of outcomes, folded by concurrent tasks    *)
(* into conversation_risk and profile_risk.                                *)
(*                                                                         *)
(* A task works inside one database transaction, serialized by advisory    *)
(* locks on its session and on its sender's profile.  Writes are kept in   *)
(* the task until its COMMIT, which applies all of them; a step is one     *)
(* statement or one engine call.                                           *)
(***************************************************************************)
EXTENDS Naturals, FiniteSets

CONSTANTS
  Records,      \* gate records, by (sessionId, eventId)
  Session,      \* sessionId of each record
  Sender,       \* srcProfileId of each record
  Raises,       \* tags the stage machine may derive from each record
  Unreadable,   \* records whose ts is no ISO timestamp
  Reports,      \* outcome reports
  About,        \* profileId of each report
  Thread,       \* the report's sessionId, or outcome:<tag> if it has none
  OutcomeTag,   \* tag of each report
  Tasks,        \* requests to POST /signals and POST /outcomes
  Item,         \* the record or report each of them carries
  Sessions, Profiles, Threads, Tags,
  LockOf,       \* hashtext of the keys session:<s> and profile:<p>
  LockIds,
  PoolSize,     \* connections of the pool
  Faults,       \* which of "error", "lost", "reject", "refuse" may happen
  MaxFaults,    \* bound on their number in a behaviour
  NULL

ASSUME RecordsAssumption ==
  /\ Session \in [Records -> Sessions]
  /\ Sender \in [Records -> Profiles]
  /\ Raises \in [Records -> SUBSET Tags]
  /\ Unreadable \subseteq Records
  /\ Sessions \subseteq Threads
ASSUME ReportsAssumption ==
  /\ About \in [Reports -> Profiles]
  /\ Thread \in [Reports -> Threads]
  /\ OutcomeTag \in [Reports -> Tags]
ASSUME ItemAssumption == Item \in [Tasks -> Records \cup Reports] /\ Records \cap Reports = {}
ASSUME LockAssumption ==
  /\ LockOf \in [Sessions \cup Profiles -> LockIds]
  /\ Sessions \cap Profiles = {}
  /\ NULL \notin Tasks
ASSUME BoundsAssumption == PoolSize \in Nat \ {0} /\ MaxFaults \in Nat

VARIABLES
  filed,      \* rows of signal_event
  reported,   \* number of outcome_event rows for each report
  conv,       \* conversation_risk.state, per session
  account,    \* profile_risk: state and score, per profile
  open,       \* profiles with an OPEN row in review_queue
  holder,     \* which task holds each advisory lock
  task,       \* local state of the tasks
  faults      \* number of faults so far

tables == <<filed, reported, conv, account, open>>
vars == <<filed, reported, conv, account, open, holder, task, faults>>

(* turns, and fired: which tags fired for which sender.                    *)
Conversation == [turns : Nat, fired : SUBSET (Tags \X Profiles)]

(* seen: the tags on the record of each thread (convSeen); count: how      *)
(* often each was counted (fraudTagStates); high: the score reaches        *)
(* QUEUE_AT.  aged is a history: the threads whose record has aged out.    *)
Account == [seen : SUBSET (Threads \X Tags), count : [Tags -> Nat],
            aged : SUBSET Threads, high : BOOLEAN]

NewConversation == [turns |-> 0, fired |-> {}]
NewAccount == [seen |-> {}, count |-> [tag \in Tags |-> 0], aged |-> {}, high |-> FALSE]

(* InTransaction: the task holds a connection, and locks from "insert" on. *)
InTransaction == {"lock", "insert", "read", "write", "nest", "load", "fold", "commit"}
Answers == {"none", "accepted", "duplicate", "rejected", "error"}

(* conv, account: as read and then as written; folds: the tags to fold     *)
(* into the account; queue: a row for review_queue has been inserted.      *)
Task == [pc : {"start", "done"} \cup InTransaction, conv : Conversation,
         account : Account, folds : SUBSET Tags, queue : BOOLEAN, answer : Answers]

NewTask == [pc |-> "start", conv |-> NewConversation, account |-> NewAccount,
            folds |-> {}, queue |-> FALSE, answer |-> "none"]

Init ==
  /\ filed = {}
  /\ reported = [q \in Reports |-> 0]
  /\ conv = [s \in Sessions |-> NewConversation]
  /\ account = [p \in Profiles |-> NewAccount]
  /\ open = {}
  /\ holder = [l \in LockIds |-> NULL]
  /\ task = [t \in Tasks |-> NewTask]
  /\ faults = 0

(***************************************************************************)
(* Transactions.                                                           *)
(***************************************************************************)
IsRecord(t) == Item[t] \in Records
Profile(t) == IF IsRecord(t) THEN Sender[Item[t]] ELSE About[Item[t]]
(* Bug: a report locks the thread it names, if that is a session. *)
OuterLockOfThread(t) ==
  LockOf[IF IsRecord(t) THEN Session[Item[t]]
         ELSE IF Thread[Item[t]] \in Sessions THEN Thread[Item[t]] ELSE Profile(t)]

OuterLock(t) == LockOf[IF IsRecord(t) THEN Session[Item[t]] ELSE Profile(t)]
InnerLock(t) == LockOf[Profile(t)]

At(t, place) == task[t].pc = place
GoTo(t, place) == task' = [task EXCEPT ![t].pc = place]

Suffer(kind) ==
  /\ kind \in Faults
  /\ faults < MaxFaults
  /\ faults' = faults + 1

(* The transaction ends, releasing the locks and the connection.           *)
End(t, answer) ==
  /\ task' = [task EXCEPT ![t] = [NewTask EXCEPT !.pc = "done", !.answer = answer]]
  /\ holder' = [l \in LockIds |-> IF holder[l] = t THEN NULL ELSE holder[l]]

Rollback(t, answer) == End(t, answer) /\ UNCHANGED tables

Connected == {t \in Tasks : task[t].pc \in InTransaction}

Acquire(t) ==
  /\ At(t, "start")
  /\ Cardinality(Connected) < PoolSize
  /\ GoTo(t, "lock")
  /\ UNCHANGED <<tables, holder, faults>>

(* Bug: the session is not locked. *)
LockNothing(t) ==
  /\ At(t, "lock")
  /\ GoTo(t, "insert")
  /\ UNCHANGED <<tables, holder, faults>>

(* pg_advisory_xact_lock on the key of the outer transaction.              *)
Lock(t) ==
  /\ At(t, "lock")
  /\ holder[OuterLock(t)] = NULL
  /\ holder' = [holder EXCEPT ![OuterLock(t)] = t]
  /\ GoTo(t, "insert")
  /\ UNCHANGED <<tables, faults>>

(***************************************************************************)
(* ingest_record and ingest_outcome up to the fold into the account.       *)
(***************************************************************************)
InsertSignal(t) ==
  /\ At(t, "insert") /\ IsRecord(t)
  /\ IF Item[t] \in filed
     THEN Rollback(t, "duplicate")
     ELSE GoTo(t, "read") /\ UNCHANGED <<tables, holder>>
  /\ UNCHANGED faults

InsertOutcome(t) ==
  /\ At(t, "insert") /\ ~IsRecord(t)
  /\ task' = [task EXCEPT ![t].pc = "nest", ![t].folds = {OutcomeTag[Item[t]]}]
  /\ UNCHANGED <<tables, holder, faults>>

ReadConversation(t) ==
  /\ At(t, "read")
  /\ task' = [task EXCEPT ![t].pc = "write", ![t].conv = conv[Session[Item[t]]]]
  /\ UNCHANGED <<tables, holder, faults>>

(* Which tags a record derives depends on the stages reached before; that  *)
(* is left open here, but for the rule that a tag fires once per sender.   *)
Derivable(t) ==
  IF Item[t] \in Unreadable THEN {}
  ELSE {tag \in Raises[Item[t]] : <<tag, Sender[Item[t]]>> \notin task[t].conv.fired}

(* process_conversation skips an event it cannot date, and reports no      *)
(* error.                                                                  *)
Turned(t, derived) ==
  LET c == task[t].conv
  IN  [turns |-> c.turns + IF Item[t] \in Unreadable THEN 0 ELSE 1,
       fired |-> c.fired \cup (derived \X {Sender[Item[t]]})]

(* With no tag derived the account is left alone.                          *)
FoldConversation(t, derived) ==
  /\ At(t, "write")
  /\ derived \subseteq Derivable(t)
  /\ task' = [task EXCEPT ![t].pc = IF derived = {} THEN "commit" ELSE "nest",
                          ![t].conv = Turned(t, derived), ![t].folds = derived]
  /\ UNCHANGED <<tables, holder, faults>>

(***************************************************************************)
(* _fold: a nested transaction on the same connection.                     *)
(***************************************************************************)
(* Bugs: the account is not locked; the nested transaction takes a         *)
(* connection of its own.                                                  *)
NestUnlocked(t) ==
  /\ At(t, "nest")
  /\ GoTo(t, "load")
  /\ UNCHANGED <<tables, holder, faults>>

NestOnAnotherConnection(t) ==
  /\ At(t, "nest")
  /\ Cardinality(Connected) < PoolSize
  /\ holder[InnerLock(t)] \in {NULL, t}
  /\ holder' = [holder EXCEPT ![InnerLock(t)] = t]
  /\ GoTo(t, "load")
  /\ UNCHANGED <<tables, faults>>

(* A lock this transaction holds already is granted again.                 *)
Nest(t) ==
  /\ At(t, "nest")
  /\ holder[InnerLock(t)] \in {NULL, t}
  /\ holder' = [holder EXCEPT ![InnerLock(t)] = t]
  /\ GoTo(t, "load")
  /\ UNCHANGED <<tables, faults>>

LoadAccount(t) ==
  /\ At(t, "load")
  /\ task' = [task EXCEPT ![t].pc = "fold", ![t].account = account[Profile(t)]]
  /\ UNCHANGED <<tables, holder, faults>>

ThreadOf(t) == IF IsRecord(t) THEN Session[Item[t]] ELSE Thread[Item[t]]

(* process_signals counts a tag once per thread, as long as it is on the   *)
(* thread's record.                                                        *)
Fresh(t) == {tag \in task[t].folds : <<ThreadOf(t), tag>> \notin task[t].account.seen}

(* Bug: only reports queue a review. *)
QueueReportsOnly(t, high) == high /\ Profile(t) \notin open /\ ~IsRecord(t)

(* INSERT INTO review_queue ... ON CONFLICT DO NOTHING.                    *)
Queue(t, high) == high /\ Profile(t) \notin open

(* Records that process_signals has not seen for _CONV_SEEN_KEEP_DAYS are  *)
(* pruned, after the fold; the thread of this fold has just been seen.     *)
(* Which others are that old is left open here.                            *)
Prunable(t) == {entry[1] : entry \in task[t].account.seen} \ {ThreadOf(t)}

Folded(t, high, pruned) ==
  LET a == task[t].account
  IN  [seen |-> {entry \in a.seen : entry[1] \notin pruned} \cup ({ThreadOf(t)} \X Fresh(t)),
       count |-> [tag \in Tags |-> a.count[tag] + IF tag \in Fresh(t) THEN 1 ELSE 0],
       aged |-> a.aged \cup pruned,
       high |-> high]

(* Bug: without ON CONFLICT the second row for a profile raises. *)
FoldAccountPlainInsert(t, high, pruned) ==
  /\ At(t, "fold")
  /\ pruned \subseteq Prunable(t)
  /\ IF high /\ Profile(t) \in open
     THEN Rollback(t, "error")
     ELSE /\ task' = [task EXCEPT ![t].pc = "commit", ![t].account = Folded(t, high, pruned),
                                  ![t].queue = Queue(t, high)]
          /\ UNCHANGED <<tables, holder>>
  /\ UNCHANGED faults

(* process_signals, put_profile and enqueue_review.  The score is a sum of *)
(* decaying masses; only whether it reaches QUEUE_AT matters here, and it  *)
(* may or may not after any fold.                                          *)
FoldAccount(t, high, pruned) ==
  /\ At(t, "fold")
  /\ pruned \subseteq Prunable(t)
  /\ task' = [task EXCEPT ![t].pc = "commit", ![t].account = Folded(t, high, pruned),
                          ![t].queue = Queue(t, high)]
  /\ UNCHANGED <<tables, holder, faults>>

(***************************************************************************)
(* The end of a transaction.                                               *)
(***************************************************************************)
Write(t) ==
  /\ IF IsRecord(t)
     THEN /\ filed' = filed \cup {Item[t]}
          /\ conv' = [conv EXCEPT ![Session[Item[t]]] = task[t].conv]
          /\ UNCHANGED reported
     ELSE /\ reported' = [reported EXCEPT ![Item[t]] = @ + 1]
          /\ UNCHANGED <<filed, conv>>
  /\ account' = IF task[t].folds = {} THEN account
                ELSE [account EXCEPT ![Profile(t)] = task[t].account]
  /\ open' = IF task[t].queue THEN open \cup {Profile(t)} ELSE open

(* Bugs: an answer the routes do not know; a commit that failed is 202. *)
CommitUnanswered(t) ==
  /\ At(t, "commit")
  /\ Write(t)
  /\ End(t, "pending")
  /\ UNCHANGED faults

CommitUnchecked(t) ==
  /\ At(t, "commit")
  /\ \/ Write(t) /\ UNCHANGED faults
     \/ Suffer("error") /\ UNCHANGED tables
  /\ End(t, "accepted")

(* A lost answer to COMMIT is an error to the task and to its client.      *)
Commit(t) ==
  /\ At(t, "commit")
  /\ Write(t)
  /\ \/ End(t, "accepted") /\ UNCHANGED faults
     \/ Suffer("lost") /\ End(t, "error")

(* The engine answers with an error: _EngineRejected rolls back.  For a    *)
(* record post_signal then answers 422; post_outcome returns the error     *)
(* with the status of an accepted report, 202.                             *)
Reject(t) ==
  /\ task[t].pc \in {"write", "fold"}
  /\ Suffer(IF IsRecord(t) THEN "reject" ELSE "refuse")
  /\ Rollback(t, IF IsRecord(t) THEN "rejected" ELSE "accepted")

(* Any statement may fail and any task may die, with its transaction.      *)
Fail(t) ==
  /\ task[t].pc \in InTransaction
  /\ Suffer("error")
  /\ Rollback(t, "error")

(* Tasks that each wait for a lock another of them holds: the database     *)
(* aborts one of them (external).  Only at "nest" does a task wait with a  *)
(* lock in its hands.  An abort is no fault: the tasks have it from each   *)
(* other.                                                                  *)
Waits(t, u) == holder[InnerLock(t)] = u /\ u # t

Deadlocked(t) ==
  \E W \in SUBSET {u \in Tasks : At(u, "nest")} :
    t \in W /\ \A u \in W : \E v \in W, w \in W : Waits(u, v) /\ Waits(w, u)

Abort(t) ==
  /\ Deadlocked(t)
  /\ Rollback(t, "error")
  /\ UNCHANGED faults

Proceed(t) ==
  \/ Acquire(t)
  \/ Lock(t)
  \/ InsertSignal(t)
  \/ InsertOutcome(t)
  \/ ReadConversation(t)
  \/ \E derived \in SUBSET Tags : FoldConversation(t, derived)
  \/ Nest(t)
  \/ LoadAccount(t)
  \/ \E high \in BOOLEAN, pruned \in SUBSET Threads : FoldAccount(t, high, pruned)
  \/ Commit(t)
  \/ Abort(t)

Next == \E t \in Tasks : Proceed(t) \/ Reject(t) \/ Fail(t)

Spec == Init /\ [][Next]_vars

(* asyncio runs every ready task; the pool and the database serve whoever  *)
(* waits.                                                                  *)
FairSpec == Spec /\ \A t \in Tasks : WF_vars(Proceed(t))

(***************************************************************************)
(* Properties.                                                             *)
(***************************************************************************)
(* Every variable has its type. *)
TypeOK ==
  /\ filed \subseteq Records
  /\ reported \in [Reports -> Nat]
  /\ conv \in [Sessions -> Conversation]
  /\ account \in [Profiles -> Account]
  /\ open \subseteq Profiles
  /\ holder \in [LockIds -> Tasks \cup {NULL}]
  /\ task \in [Tasks -> Task]
  /\ faults \in Nat

(* A record is on file exactly if it was folded into its conversation, and *)
(* once: no fold is lost to an overlapping one or repeated by a retry, and *)
(* none is left undone behind a record that will be answered "duplicate".  *)
FiledIsFolded ==
  \A s \in Sessions : conv[s].turns = Cardinality({r \in filed : Session[r] = s})

(* What the conversations of a profile detected, and the outcomes reported *)
(* about it, are what its account has counted.  For each tag that is at    *)
(* least as often as there are threads in which it fired or was reported,  *)
(* and exactly as often unless the record of a thread it was reported in   *)
(* has aged out: a tag that only fires is never counted twice, as a        *)
(* conversation remembers for ever what fired.                             *)
CountedAsDetected ==
  \A p \in Profiles, tag \in Tags :
    LET fired == {s \in Sessions : <<tag, p>> \in conv[s].fired}
        told == {Thread[q] : q \in {q \in Reports : /\ reported[q] > 0
                                                    /\ About[q] = p
                                                    /\ OutcomeTag[q] = tag}}
        threads == Cardinality(fired \cup told)
    IN  /\ threads <= account[p].count[tag]
        /\ told \cap account[p].aged = {} => account[p].count[tag] = threads

(* 202 and "duplicate" are only answered when the item is on file, and so, *)
(* a report being filed with its fold, "202 after the fold".               *)
AnswersAreTruthful ==
  \A t \in Tasks :
    task[t].answer \in {"accepted", "duplicate"} =>
      IF IsRecord(t) THEN Item[t] \in filed ELSE reported[Item[t]] > 0

(* Whoever's stored score calls for a human has an OPEN review; nothing in *)
(* the service closes one.                                                 *)
HighIsQueued == \A p \in Profiles : account[p].high => p \in open

(* The keys of the task collide crosswise: that of its sender with the key *)
(* of another session, and that of its session with the key of another     *)
(* sender.                                                                 *)
Crossed(t) ==
  /\ IsRecord(t)
  /\ \E u, v \in {u \in Tasks : IsRecord(u)} :
       LET own == Item[t] next == Item[u] last == Item[v]
       IN  /\ LockOf[Sender[own]] = LockOf[Session[next]]
           /\ LockOf[Sender[last]] = LockOf[Session[own]]
           /\ Session[own] # Session[next] /\ Sender[own] # Sender[last]

(* "a collision between two keys only serializes two ingests": for a       *)
(* deadlock it takes two, each of the key of a session with the key of     *)
(* another sender, and only records meet one.                              *)
DeadlockTakesCollisions == \A t \in Tasks : Deadlocked(t) => Crossed(t)

(* An ingest fails for a fault of its own and not because of others, whose *)
(* locks and whose OPEN reviews it meets.  Only records whose keys collide *)
(* crosswise may fail each other.                                          *)
NoneFailsForOthers ==
  Cardinality({t \in Tasks : task[t].answer = "error" /\ ~Crossed(t)}) <= faults

(* Every request is answered, whatever the pool's size: no ingest waits    *)
(* for ever for a lock or for a connection.                                *)
EveryRequestAnswered == <>(\A t \in Tasks : task[t].pc = "done")

(***************************************************************************)
(* Refinement.                                                             *)
(***************************************************************************)
Ledger == INSTANCE RiskLedger

(* However tasks overlap, fail and are retried, the tables are those of    *)
(* records and reports taken in one after the other, each wholly or not at *)
(* all: the locks of ingest_record and _fold make every COMMIT a step from *)
(* what is committed.                                                      *)
ImplementsLedger == Ledger!Spec
=============================================================================
