# A model of dost-review-api

The service takes reviews and fraud signals about profiles, folds reviews into
a reputation per profile in nightly batches, and folds signals into a risk
score per account as they come in. Its state is in Postgres; the program is a
set of asyncio tasks, possibly in several processes, that share nothing else.
What can go wrong is therefore in the order of statements and transactions of
concurrent tasks, and in tasks that stop between two of them. That is what is
modelled: a step is one statement, one transaction or one call of the engine.

## Inventory

| part | state | operations | hard because |
|---|---|---|---|
| gate (`app/gate.py`, `routes/reviews.py`) | `review` rows | accept, reject, resubmit | submissions race for a quota and for an id; the Onboard verdict is stale when used; two clocks measure the quota; failing audit writes are swallowed |
| batch runner (`app/batch_runner.py`, `routes/batch.py`, `scheduler.py`, startup sweep of `main.py`) | `batch_run` rows | start, complete, fail, sweep | starters race; processes die; a swept batch may be alive; two statements where one transaction is needed |
| batch engine (`app/batch_engine.py`) | `review`, `profile_reputation` | claim, load, fold, commit, retry, dead-letter | state read before and overwritten after a long call; failure handling that fails |
| reputation engine (`vendor/engine.py`) | state blob per profile | `process_reputation` | incremental decay on a clock that may run backwards; partial failure of a group |
| fraud engine (`vendor/engine.py`, `risk/mapping.py`) | conversation and account blobs | `process_conversation`, `process_signals` | sequence tags depend on arrival order; decay, dedupe records that age out, windows, late items |
| risk service (`app/risk/*`, `routes/signals.py`, `outcomes.py`, `risk.py`) | `signal_event`, `conversation_risk`, `profile_risk`, `outcome_event`, `review_queue` | ingest, outcome, read | overlapping records, nested locks, retries |
| plumbing (`main.py`, `auth.py`, `event_parser.py`, `models.py`, `config.py`, `database.py`, migrations) | none of its own | | start order only |

The parts interact through tables only: the gate inserts `review` rows as
GATED, a batch claims them (PROCESSING), and they end as COMMITTED or FAILED or
return to GATED; `batch_run` rows tell starters whether a batch is RUNNING. The
risk service shares the engine's file with the batches and no table.

What makes each part correct:

- batches: one RUNNING batch; a COMMITTED review is in its target's state
  exactly once, any other not at all; no review is forgotten; a review is given
  up exactly at its retry limit; every accepted review is decided.
- gate: an id is accepted once and what was accepted is final; nobody is told
  the opposite of what is on file; a pair never exceeds its quota.
- conversations: records that arrive in order give exactly the tags the chat
  deserves; records out of order accuse nobody falsely.
- evidence: a state that is folded call by call agrees with the history of the
  calls: masses, counts, denominators, the repeat rule.
- risk: an event is folded exactly once or is not on file; folds of one session
  or account are serialised; a score at the threshold has an OPEN queue entry,
  and one only.

`PROJECT.json` lists the hazards line by line with the properties that cover them.

## Modules

| module | models |
|---|---|
| `ReviewLedger` | what the pipeline promises: pending, then counted once or buried |
| `BatchPipeline` | `batch_runner.py` and `batch_engine.py`; implements `ReviewLedger` |
| `MCBatchPipeline` | instances for TLC |
| `BatchPipelineProofs` | theorems: types, one RUNNING batch |
| `BatchFoldProofs` | theorems: who owns a review, and how often it is folded |
| `BatchRescueProofs` | theorems: nothing is stranded, retired batches stay retired |
| `BatchLedgerProofs` | theorems: dead letters, the bound on repeated folds, and `BatchPipeline` implements `ReviewLedger` |
| `ReviewDesk` | what the gate promises: a desk with one clerk, who answers each submission from the book of accepted reviews |
| `ReviewGate` | `gate.py`; implements `ReviewDesk` |
| `MCReviewGate` | an instance for TLC |
| `ReviewGateProofs` | theorems: acceptance, answers, quota, and `ReviewGate` implements `ReviewDesk` |
| `RiskLedger` | what the risk service promises: records and reports taken in one after the other, each wholly or not at all |
| `RiskIngest` | `risk/service.py` over `risk/store.py`, with what it uses of the fraud engine; implements `RiskLedger` |
| `MCRiskIngest` | an instance for TLC |
| `RiskIngestProofs` | theorems: filed is folded, counts, answers, queue, deadlocks, and `RiskIngest` implements `RiskLedger` |
| `ConversationStage` | `risk/mapping.py` and `process_conversation`: the stages of one conversation |
| `MCConversationStage` | an instance for TLC |
| `ConversationProofs` | theorems: what in-order, late and missing records derive |
| `EvidenceFold` | `process_signals` and `process_reputation`: the state of an account and of a profile |
| `MCEvidenceFold` | instances for TLC |
| `EvidenceFoldProofs` | theorems: masses, denominators, dedupe, repeat rule, reputation |

The modules divide the work where the code does. `BatchPipeline` and
`RiskIngest` show that tasks hand the engine the current state, one at a time,
and each item once; `ConversationStage` and `EvidenceFold` take that for granted
(a fold is one step) and look at what the engine makes of it, which the former
two leave open.

### BatchPipeline

`status`, `batchId`, `retryCount` are the columns of `review`; `batchRun` is
`batch_run.status` and `stale` whether its `started_at` is older than
`stale_batch_after_minutes`; `rep[p][r]` is how often the state of profile `p`
contains review `r`, the one thing about the state that the properties need.
Review ids are numbers in the order of `received_at`, so that ORDER BY and
LIMIT of the claim are modelled.

A starter is a task in `start_batch` (cron, `POST /batch/trigger`) or in the
sweep at startup: `SweepMark`, `SweepRequeue` are the two statements of
`sweep_stale_batches`, `Lock`, `Check`, `Insert` the transaction of
`start_batch`. A runner is a task in `run_batch_to_completion`: `Claim`; per
group `LoadState`, `EngineFolds`/`EngineRefuses`/`EngineRaises`, `Commit`,
`HandleRow` for each row of a failed group; `Finish`; and on an exception that
leaves `run_batch`, `MarkFailed` and `Requeue`. The bindings of the Python
function are the fields of `runner[b]`: the claimed rows with the `retry_count`
they had, the current profile and the state read for it, the rows still to be
handled, `will_retry`, and whether the handling was called inside the `try`.

Each statement can succeed, fail, or succeed without the client learning of it;
each task can die before any of its steps. `Faults` says which of these are
possible and `MaxFaults` how many. Three circumstances break properties,
and are admitted by name only: `"lostfold"`, `"gap"`, `"slow"`.

A batch id is a UUID; the model reuses ids that no running batch, task or
PROCESSING review mentions, so that behaviours can go on for ever with two.
Locked rows are not modelled: claims are single steps, so SKIP LOCKED skips
nothing a serial order would not have skipped.

### ReviewGate

A request is one submission. The transaction from `pg_advisory_xact_lock` on is
a sequence of steps, the last of which includes the COMMIT: before it nobody
sees the row, and another writer of the same id waits on the unique index.
`received_at` is NOW(), the time of BEGIN, before the wait for the lock; the
window of the quota is computed after it, and on the clock of the application,
which is up to `Skew` away from the database's. The quota holds for the window
less the skew: with skewed clocks that is all the code can promise. The upgrade
of a rejected row sets every column a submission carries; `media` stands for
them. Once a batch has claimed a review the gate treats all its statuses alike
(`BATCHED`), and `Process` lets a batch take it and give it back at any time,
which is more than `run_batch` and `_handle_failed_reviews` do. Onboard answers
anything at any time.

`ImplementsDesk` maps this to `ReviewDesk`: the book is the accepted rows, and a
submission is answered in the one step that decides it, an insert for a 202, a
read or a verdict otherwise. The answer must be right at that moment: accepted if the
id is new and the pair has room (in the window less the skew), duplicate if the
id is in the book, a rejection of an id in the book only where its submissions
differ in the pair, RATE_LIMITED only for a pair that has its quota on file.

### RiskIngest

A task is one request to `POST /signals` (an item of Records) or `POST
/outcomes` (an item of Reports). `filed` and `reported` are the rows of
`signal_event` and `outcome_event`, `conv` and `account` the state blobs,
`open` the profiles with an OPEN row in `review_queue`, `holder` the
transaction-scoped advisory locks. A task takes a connection (`Acquire`), locks
(`Lock`), inserts (`InsertSignal`, `InsertOutcome`), folds the conversation
(`ReadConversation`, `FoldConversation`), then in the nested transaction of
`_fold` locks the profile and folds the account (`Nest`, `LoadAccount`,
`FoldAccount`), and commits everything at once (`Commit`). Before that nothing
it wrote is visible, so its writes wait in `task[t]`.

Data is abstracted to what the properties tell apart. A conversation is its
number of turns and the tags that fired for each sender; which of the tags that
a record may raise do fire is any subset of those that have not fired
(`ConversationStage` has the rules). An account is the tags on record per thread, their
counts, and whether the score reaches `QUEUE_AT`, which is free at each fold.
So is which records of other threads a fold prunes (`Prunable`), as time is not
modelled here: `_CONV_SEEN_KEEP_DAYS` and decay are in `EvidenceFold`. `aged`
is a history of the pruned threads. Nothing in the service closes a review.

A report in a thread whose record has aged out is counted again, as
`engine.py:602-603` says. `CountedAsDetected` therefore bounds each count from
below by the threads in which the tag fired or was reported, and asks for
equality unless the record of a thread it was reported in has aged out. A
tag that only fires in conversations is counted exactly either way: what a
conversation has fired is never forgotten.

An engine error rolls back. For a record the route answers 422 (fault
`"reject"`); for a report `post_outcome` returns the error under its default
status, 202 (fault `"refuse"`). `README.md:69` promises "202 after the fold".
With `"refuse"` among the faults `AnswersAreTruthful` is violated; that takes a
stored state that is no object, or another engine, and is left out of the run.

The lock key is a hash. `store.py:17-18` says that a collision only serializes
two unrelated keys. That is so for one collision; if the keys of two sessions
and two profiles collide crosswise, two tasks can wait for each other, and the
database aborts one (`Abort`). The instance has such a hash, and every property
holds with it. That it takes such a pair of collisions is
`DeadlockTakesCollisions`. An abort is not one of the `faults`, so
`NoneFailsForOthers` says what it seems to say: of the requests whose keys do
not collide so (`Crossed`), no more fail than there were failing statements,
deaths and lost answers.

`ImplementsLedger` maps the committed tables to `RiskLedger`, which has no
tasks: each COMMIT is one step of a serial ledger, computed from what the
tables hold at that moment.

### ConversationStage

`chat` is the conversation as it took place, `arrived` the order in which its
records were folded, `conv` the blob of `process_conversation`: the first time
each milestone was recorded, who first asked for money and when, who claimed an
identity, each party's first ask, the number of turns, the fired pairs of tag
and sender. The time of a message is its position. `Send` is the environment:
two parties write, and the deal's stage climbs its ladder; `Fold` delivers a
record for the first time, in any order. `NamesIn` and `MilestonesIn` are
`to_conversation_event`, with two floors for confidences and the rungs a stage
implies; `Derivable` has the condition of each tag the machine fires.

The blob may come from the version before `moneyAskers`. Its fold (`FoldBefore`,
external) is known by what `engine.py:462-468` expects of it: the same but for
the map of askers, so that it only remembers the very first ask of the
conversation. It may have folded any number of records, in any order, `older` of them, before
the first `Fold` of this version; `AskersOnFile` is the seed the code then
takes. The asks of whoever was not the first to ask are lost up to there, and
with them a `fee_escalation` that rests on them. `ExactInOrder` says precisely that: of the
asks the older version folded only the original asker's count.

Each property compares the blob with the chat: `Conduct(tag, p)` reads off the
whole chat whether `p` behaves as the tag says, without any of the machine's
state. `ledger_credit_small`, which no record carries today (`mapping.py:44`),
is a stage here because both files handle it.

### EvidenceFold

`account` is the blob of `process_signals` and the stored `repeatedAcross`,
`rep` that of `process_reputation`. A mass `w` is a sum of `0.5 ^ (age / half
life)`; it is represented by the multiset of the ages, which determines it for
every half life: `mass[a]` is how many of the items are at least `a` old.
Decaying shifts the ages (`Decayed`). So "the decayed sum is the sum
of the decayed items" can be checked exactly, with no real numbers.

`Signals` is one call with the items that one record or report yields: they
share a conversation, a counterparty and a time (`derived_to_signals`; for
reports `ingest_outcome`). Items may be late; the clock reading of a call may
be behind the clock by up to `Skew`, as with calls in several processes.
`Reputed` is one call with a group of reviews. `log`, `folded` and `drift` are
histories for the properties. `drift` is by how much the readings of
`process_reputation` ran backwards: unlike `process_signals` it does not pin
its clock, and `ReputationAsFolded` says that this makes a review at most that
much older than it is, and never younger: of each age, there are at least as
many reviews in the state as have that age, and at most as many as have that
age less `drift`.

## Checks

| run | instance | shows |
|---|---|---|
| `pipeline_safety` | 3 reviews of 2 profiles, 2 ids, 2 starters, 2 faults | types, one RUNNING batch, exactly-once folding, nothing stranded, dead letters at the limit, final outcomes, refinement of `ReviewLedger` |
| `pipeline_liveness` | 2 reviews, batches of one, 1 fault: an error, a lost answer, a crash or a live batch that is swept | every accepted review is decided, no batch stays RUNNING; nothing stranded with a swept live batch either |
| `slow_batch` | as above, a live batch is swept | **violated**: a slow batch and its successor fold the same review |
| `lost_commit` | one lost answer to a COMMIT | **violated**: committed reviews are folded again |
| `retire_gap` | two crashes | **violated**: reviews stay in PROCESSING for ever |
| `dead_letter` | willRetry = FALSE, one failing statement | **violated**: a dead-lettered review is revived |
| `gate` | 5 submissions of 2 ids, quota 1, window 2, skew 1, 1 fault | acceptance is unique, final, as submitted and truthfully reported; the quota holds in every window; refinement of `ReviewDesk` |
| `conversation` | chats of 3 messages of 7 kinds, 5 stages, any arrival, any number folded by the older version | in order exact, but for what the older version did not keep; out of order no false alarm, and only overtaking milestones hide |
| `evidence` | 3 calls or reviews over 4 ticks, skew 1, delays to 2 | masses, counts, dedupe, denominators, repeat rule and reputation agree with the history |
| `repeat_reports` | two people report without a session | **violated**: `repeatedAcross` misses the tag |
| `risk_ingest` | 3 records in 6 deliveries, 2 connections, 1 fault | filed exactly if folded, accounts count what was detected while its records are kept, answers are truthful, high scores are queued, none fails for others but by crossed collisions, deadlocks take crossed collisions, all are answered; refinement of `RiskLedger` |
| `risk_undated` | the same, one record has an unreadable `ts` | **violated**: a record is on file and was never folded |

Bounds. Two profiles and three reviews give a batch with a group of two and a
group of one, which is what partial commits and partial handling need. Two
starters are one race; two ids are one batch being retired while another runs
(a third could only start while two retired ones are still in use). Two faults
allow a fault during the recovery from a fault. `MaxRetries = 2` has a first and a last attempt. In the gate, two requests for one id and pair, one for
another id of the pair and, with that id, one for another pair and one for a
self review cover the ways to meet a row and to race for a quota of one.
Onboard knows nobody or is out of reach: which of the four verdicts is given
makes no difference after `Validate`.
In the risk service, two senders in two sessions, one of them shared, give
tasks that share both locks, one or none; two connections for six tasks exhaust
the pool; a record delivered twice and a report sent twice are the retries, and
between the two reports a fold in the other session may prune the thread's
record, so that the second one counts again.
In a conversation, no tag takes more than three messages (an ask, a credit,
another ask), and three show what the older version lost (each party asks,
then the credit comes with the second ask of the later one); the window of `jumped_deposit` is one tick, so that it can be
missed. For evidence the windows are one and two ticks against a clock of four
and delays of two, so that a record ages out, an item is late for each window,
and there is a call after that; two counterparties stand for three.

`pipeline_liveness` has one fault, for a reason: a batch that is swept before
its claim claims all the same, and if it then also dies, no sweep finds its
reviews, for its row is FAILED already.

Fairness. `FairSpec` assumes that the event loop and Postgres run every step
that stays possible, that time passes, and that each starter is triggered again
and again (`CronTrigger`); faults are bounded in number, engine errors are not.
The `FairSpec` of `RiskIngest` asks only that each task proceeds: asyncio runs
every ready task, and the pool and the lock manager serve whoever waits. Weak
fairness is enough because nobody competes for ever: a task takes each lock once.

Symmetry is used for safety only (batch ids, starters, equal requests).

## Findings

`PROJECT.json` quotes the lines.

1. A batch longer than the stale threshold is swept by the next `start_batch`,
   in the same process too, and its reviews are folded twice (`slow_batch`).
2. A lost answer to the COMMIT of a fold has the committed reviews folded again
   (`lost_commit`).
3. The sweep marks and requeues in two transactions; a crash between them
   strands the reviews (`retire_gap`). `run_batch_to_completion` has the same gap.
4. Failure handling inside the `try` can be repeated with another verdict, which
   revives a dead-lettered review (`dead_letter`).
5. `process_conversation` skips an event whose `ts` it cannot read and reports
   no error, so the record is filed without being folded, and its corrected
   resend is a duplicate (`risk_undated`).
6. Reports of one outcome that name no session share a `conversationId`, so the
   repeat rule never sees more than the first of the reporters
   (`repeat_reports`).

## Proofs

TLAPS proves the following for every value of the constants: any number of
reviews, batch ids and starters; of requests, ids and any quota; of records,
sessions, tasks, connections and lock collisions; chats of any length whose
records arrive in any order or never; any number of calls, ages and delays; and
any number of faults. What a theorem assumes besides is in the last column.

| theorem | states | assumes |
|---|---|---|
| `TypeCorrect`, `GateTypeCorrect`, `RiskTypeCorrect`, `ConversationTypeCorrect`, `EvidenceTypeCorrect` | `[]TypeOK` of each model | |
| `MutualExclusion` | at most one `batch_run` row is RUNNING | |
| `Ownership` | a claimed review is in PROCESSING under its runner's id until the runner is done with it | `"slow"` is not in `Faults` |
| `RetiredForGood` | a FAILED `batch_run` stays FAILED | as `Ownership` |
| `FoldedAtLeastOnce` | no COMMITTED review is missing from its profile's state, and each surplus fold of a review has cost it a retry | as `Ownership` |
| `FoldedExactlyOnce` | a profile's state holds each COMMITTED review of its own once, and no other review | neither `"slow"` nor `"lostfold"` |
| `CommittedForGood` | no step takes a review out of COMMITTED | as `FoldedExactlyOnce` |
| `NothingStranded` | a review in PROCESSING has a runner, a RUNNING row or a requeue that will take it back | neither `"slow"` nor `"gap"` |
| `DeadLetterIsLast`, `DeadForGood` | a review is given up exactly at its retry limit, and for good | as `Ownership`; the engine never says `willRetry = FALSE` |
| `FoldedWithinRetries` | no review is folded more than `MaxRetries` times | as `DeadForGood` |
| `LedgerIsImplemented` | `BatchPipeline` implements `ReviewLedger` | as `DeadForGood`; `"lostfold"` is not in `Faults` |
| `OneAcceptance`, `AcceptedForGood`, `FiledAsSubmitted` | an id is accepted once, for good, with the content of the accepted submission | |
| `TruthfulAcceptance`, `TruthfulRejection` | nobody is told the opposite of what is on file | |
| `QuotaHolds` | a pair stays within its quota | |
| `GateIsADesk` | `ReviewGate` implements `ReviewDesk` | |
| `FiledAndFolded` | a record is on file exactly if its conversation has folded it, once | every `ts` can be read |
| `DetectionsAreCounted` | an account counts a tag at least once for each thread where it was detected, and exactly once unless the record of a thread where it was reported has aged out | |
| `NobodyIsOverlooked` | a score at the threshold has an OPEN queue entry | |
| `TruthfulAnswers` | 202 and duplicate mean that the item is on file | `"refuse"` is not in `Faults` |
| `NoneMakesAnotherFail` | no ingest makes another one fail, but for records whose lock keys collide crosswise | |
| `DeadlocksTakeCollisions` | a deadlock takes two lock keys of sessions that collide with those of two profiles, crosswise | |
| `LedgerIsKept` | `RiskIngest` implements `RiskLedger` | |
| `DerivesWhatHappened` | records in order derive the conduct of the chat exactly, but for second asks of which the older version did not keep the first | |
| `NobodyIsFalselyAccused` | records in any order derive nothing the chat does not bear out | |
| `OnlyMilestonesHide` | an early ask or contact goes unnoticed only if a later milestone overtook it | |
| `RatesFit` | no tag is counted more often than the denominator | |
| `DecayIsExact` | the decayed mass is that of the counted items, each from its own time on | |
| `CountedOncePerConversation` | a conversation counts once for a tag while its record is kept | |
| `RepeatIsExact` | `repeatedAcross` is what the repeat rule makes of everything counted | the rule asks for at least one counterparty |
| `ReputationIsFolded` | each review weighs in the reputation with its true age, or up to `drift` more | |

The assumptions about faults are circumstances named in `Faults`, and none is
for convenience: `slow_batch`, `lost_commit`, `retire_gap`, `dead_letter` and
`risk_undated` are the counterexamples without them.

### Batches

`MutualExclusion` is not inductive: a starter that has seen no RUNNING row is
about to insert one. `StartInv` adds that the holder of the advisory lock is
the only starter between `Check` and `Insert`, and that while one is at
`Insert` no row is RUNNING.

`FoldedExactlyOnce` needs to know that nobody else touches a review between the
read of its profile's state and the overwrite. `OwnInv` says so: a runner that
still has reviews has a RUNNING row, its reviews are PROCESSING under its id,
and hence, by `MutualExclusion`, there is one such runner. Sweeps break this
exactly when they take a live batch, the excluded fault. `HeldInv` adds what a
runner has in hand: its rows are PROCESSING until it writes them, and the state
it has read is still the one on file. It holds with lost COMMITs too, whose rows
are COMMITTED while their runner handles them as failed.

Three invariants build on it. `FoldInv` adds that no row in hand is COMMITTED,
which takes the exclusion of `"lostfold"`, and so that each fold is the only one
of its review. `ChargeInv` says what is left without that exclusion: a row in
hand has been folded at most once since it was claimed, and a row that goes back
is charged a retry. Finding 2 is thereby bounded: a review is
never lost, and counted at most `MaxRetries` times.

`RescueInv` looks at the same reviews from the other side. To `OwnInv` it adds
`Kept`: a runner at work has in hand every review that is in PROCESSING under
its id, and when there is such a review and the row is not RUNNING, a `Requeue`
or `SweepRequeue` for the id is under way.

`RetryInv` adds to `HeldInv` that a runner remembers a `retry_count` below the
limit for each of its rows, and that one it finds FAILED is one it has buried
itself on the last try, so that repeated handling buries it again. With it and
`FoldInv` each step of the pipeline is a step of `ReviewLedger` or a stutter.

### Gate

The quota and the answers need the path of a request as a whole. `GateInv` says
that a request holds the lock of its pair from the duplicate check to the
COMMIT, that an id it has found free is still free, if all its submissions name
the same pair (`NotTaken`), and that what it told is on file (`Told`). Requests of the same id under different pairs hold different
locks; there the unique index and the guard of the upgrade carry the proof.
`QuotaInv` adds `Room`: a request past the count sees fewer young reviews of its
pair than the quota. That set can only shrink until the insert, as whoever else
would add to it needs the lock. The count was made by another clock;
`ReadingsCover` shows that its window contains the shorter one. `DeskInv` adds
what a request brings to its answer: its transaction began in the past, and if
it is about to say RATE_LIMITED, its pair has the quota on file, and keeps it,
as accepted reviews stay.

### Risk

The invariant (`FoldInv`) is ownership of locks (`Locked`), and what it is
for: what a task has read of a conversation or an account is still what the
database holds (`AllInHand`). What the tables say of each other follows from
commit to commit: turns are the filed readable records, what an account has on
record of a thread fired or was reported there, what was detected is on record
or has aged out (`SeenIsDetected`), and its counts are the sizes of the sets of
threads (`CountIsDetected`), or more once a thread was reported in, forgotten
and reported in again. Colliding keys, deadlocks and their aborts change
nothing in it. `QueueInv` stands alone.

`HeldInv` adds the converse of `Locked`: up to the nested transaction a task
holds no lock but its first. So a task that waits for its first lock holds none,
and a cycle of waiting tasks consists of records, each waiting with the key of
its sender for a lock another took with the key of its session
(`DeadlockedMeans`). `FaultInv` rests on it: a request that fails and is not
crossed was not aborted, so it had a fault of its own. `LedgerInv` adds that what a task is about to commit is a step
of `RiskLedger` from the committed tables: the tags it derived are ones the
record may raise and has not fired yet, and the account it has folded is the
committed one with these tags counted.

### Conversation

`SoundInv` says that what the blob remembers is in the chat: milestones, asks,
claims, and for each fired tag a conduct that bears it out, which stays borne
out however the chat goes on, because stages only climb (`Ladder`).
`HiddenInv` adds that a milestone on file was recorded by a message that has
arrived. `OrderInv` is the converse for records in order: after `n` of them the
blob is an exact digest of the first `n` messages (the first record of each
milestone, each party's first ask, the claimants, the turns, the fired tags).
`FoldExact` shows that this little is enough to decide each tag as `Conduct`
does with the whole chat. If the older version folded the first `o` records,
the asks among them count for the original asker only (`Kept`), and who that is
the blob knows (`FirstOfAll`): `FirstIsKept` shows that the seed taken from it
is exactly what such a digest needs, and `FoldBeforeExact` that each fold of
the older version keeps it one.

### Evidence

Each theorem has an invariant that relates the blob to `log`. `RateInv`: the
denominator is at least a tag's count plus the conversations on record without
the tag, so that there is room for each of them to raise it. `MassInv`: the
mass of each age is the number of counted items that are at least that old. `OnceInv`: a counted
tag is on its conversation's record, or the conversation has been quiet for
longer than the record is kept. `RepeatInv`: what was counted and is young
enough is on record, and nothing else; pruning drops only what no later item
can need. `ReputationAsFolded` is inductive with the types: decaying by the time
since the last call moves both of its bounds by as much, or widens them by the
`drift` that a backward reading adds, and a new review enters both at its age
when it is read.

With the masses in cumulative form, every sum over a history here is the
cardinality of a set of items, and no induction over the history is needed.

### Only model-checked

`EventuallyDecided`, `EventuallyRetired` and `EveryRequestAnswered` are liveness
under fairness, which is out of the prover's reach. Every other property of a
passing run is proved; that nothing is stranded when a live batch is swept, which
`NothingStranded` excludes, is checked by `pipeline_liveness`, in batches of
one. Conversely, `FoldedAtLeastOnce` and `FoldedWithinRetries` state what no run
asks: their conditions are those of `lost_commit`, which looks for the double
count itself.

## Not modelled

- What is computed from a state and changes none: the risk score and tier, the
  ranking, score and summary of a reputation, the display columns of
  `profile_reputation` (`_merge_tags`), the statistics of a batch. They are real
  arithmetic or text from a language model.
- Corrupt blobs. Both engine families read malformed containers as empty; the
  models start from what the engine itself has written.
- Reads (`GET /reputation`, `/risk/profile`, `/health`), request parsing and
  validation, authentication, envelopes, logging, configuration: no step of
  theirs changes a table. `cleared_by_review` has a weight in the engine and is
  not among the tags that `POST /outcomes` accepts, so nothing models it.
- Migrations that run again at every start, and the order of `main.py`'s
  startup, but for its sweep.

## Plan

1. `RiskIngest` with `ConversationStage`'s rules in place of its free choice of
   tags, on a smaller instance.
2. The order of `main.py`'s startup: migrations, the sweep and the scheduler, in
   two processes that start at once.
