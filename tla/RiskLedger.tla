----------------------------- MODULE RiskLedger -----------------------------
(***************************************************************************)
(* What the risk service promises to whoever reads a tier: records and     *)
(* reports are taken in one after the other, each wholly or not at all.  A *)
(* record is filed once, moves its conversation on from where the last one *)
(* left it, and what it derives there is counted in the account of its     *)
(* sender in the same step; a report is counted the same way, once per     *)
(* thread as long as the account's record of the thread is kept.  A score  *)
(* that calls for a human queues a review with the fold that raised it.    *)
(* Tasks, locks, transactions, retries and failures do not appear here;    *)
(* RiskIngest implements this module.                                      *)
(***************************************************************************)
EXTENDS Naturals

CONSTANTS Records, Session, Sender, Raises, Unreadable,
          Reports, About, Thread, OutcomeTag, Sessions, Profiles, Threads, Tags

VARIABLES
  filed,      \* the records on file
  reported,   \* how often each report was filed
  conv,       \* the conversation of each session
  account,    \* the account of each profile
  open        \* the profiles a human has to look at

vars == <<filed, reported, conv, account, open>>

Init ==
  /\ filed = {}
  /\ reported = [q \in Reports |-> 0]
  /\ conv = [s \in Sessions |-> [turns |-> 0, fired |-> {}]]
  /\ account = [p \in Profiles |-> [seen |-> {}, count |-> [tag \in Tags |-> 0],
                                    aged |-> {}, high |-> FALSE]]
  /\ open = {}

(* Tags of one thread are counted for a profile, and old records of other  *)
(* threads are forgotten.                                                  *)
Count(p, thread, tags, high, pruned) ==
  /\ thread \notin pruned
  /\ account' = [account EXCEPT ![p] =
       [seen |-> {entry \in @.seen : entry[1] \notin pruned} \cup ({thread} \X tags),
        count |-> [tag \in Tags |-> @.count[tag] + IF tag \in tags /\ <<thread, tag>> \notin @.seen
                                                   THEN 1 ELSE 0],
        aged |-> @.aged \cup pruned,
        high |-> high]]
  /\ open' = IF high THEN open \cup {p} ELSE open

(* What a record may derive: a tag fires once in a conversation for each   *)
(* sender, and no record without a time moves its conversation.            *)
Derives(r) ==
  {tag \in Raises[r] : r \notin Unreadable /\ <<tag, Sender[r]>> \notin conv[Session[r]].fired}

File(r, derived, high, pruned) ==
  /\ r \in Records \ filed /\ derived \subseteq Derives(r)
  /\ filed' = filed \cup {r}
  /\ conv' = [conv EXCEPT ![Session[r]] =
       [turns |-> @.turns + IF r \in Unreadable THEN 0 ELSE 1,
        fired |-> @.fired \cup (derived \X {Sender[r]})]]
  /\ IF derived = {} THEN UNCHANGED <<account, open>>
     ELSE Count(Sender[r], Session[r], derived, high, pruned)
  /\ UNCHANGED reported

Report(q, high, pruned) ==
  /\ reported' = [reported EXCEPT ![q] = @ + 1]
  /\ Count(About[q], Thread[q], {OutcomeTag[q]}, high, pruned)
  /\ UNCHANGED <<filed, conv>>

Next ==
  \/ \E r \in filed' \ filed, derived \in SUBSET Tags, high \in BOOLEAN, pruned \in SUBSET Threads :
       File(r, derived, high, pruned)
  \/ \E q \in {q \in Reports : reported'[q] # reported[q]},
        high \in BOOLEAN, pruned \in SUBSET Threads : Report(q, high, pruned)

Spec == Init /\ [][Next]_vars
=============================================================================
