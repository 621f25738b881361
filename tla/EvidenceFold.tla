----------------------------- MODULE EvidenceFold -----------------------------
(***************************************************************************)
(* The two blobs of decayed evidence in vendor/engine.py: the account      *)
(* state of process_signals and the reputation state of process_reputation.*)
(*                                                                         *)
(* Each call decays the stored mass to its own reading of the clock, folds *)
(* what is new and stores the result.  Calls for one profile come one      *)
(* after the other (RiskIngest, BatchPipeline), but from processes whose   *)
(* clocks differ.  Time is counted in ticks, and a mass, the sum of        *)
(* 0.5 ^ (age / halflife) over what was counted, is kept as the number of  *)
(* contributions at least as old as each age: that fixes it for every      *)
(* halflife.                                                               *)
(***************************************************************************)
EXTENDS Integers, Sequences, FiniteSets

CONSTANTS
  Threads,       \* conversationIds: of sessions, and outcome:<tag>
  Tags,          \* fraud tags
  Ask,           \* the tag money_ask_no_milestone
  Others,        \* counterparties the items of a thread may name
  Reviews,       \* reviews of the profile
  Written,       \* createdAt of each review
  Blank,         \* reviews without text
  Tagged,        \* reviews from which the model extracts the tag considered
  Delays,        \* how late a signal may be delivered
  SeenKeep,      \* _CONV_SEEN_KEEP_DAYS
  RecentKeep,    \* _RECENT_KEEP_DAYS
  RepeatWindow,  \* _REPEAT_WINDOW_DAYS
  RepeatMin,     \* _REPEAT_MIN_COUNTERPARTIES
  Skew,          \* how far the clock of a process may be behind
  MaxTime,       \* bound on the clock
  MaxCalls,      \* bound on the calls and reviews of a behaviour
  NULL           \* no counterparty

ASSUME EvidenceAssumption ==
  /\ Ask \in Tags
  /\ Written \in [Reviews -> Nat]
  /\ IsFiniteSet(Reviews) /\ NULL \notin Nat
  /\ Blank \subseteq Reviews /\ Tagged \subseteq Reviews \ Blank
  /\ Delays \subseteq Nat
  /\ {SeenKeep, RepeatWindow, RepeatMin, Skew, MaxTime, MaxCalls} \subseteq Nat
  /\ RecentKeep \in Nat /\ RepeatWindow <= RecentKeep

VARIABLES
  clock,    \* the time
  account,  \* profile_risk.state and repeated_across
  log,      \* the calls of process_signals
  rep,      \* profile_reputation.state
  folded,   \* for each review, the clock reading of the call that folded it
  drift     \* by how much rep.last ran backwards, over all calls

vars == <<clock, account, log, rep, folded, drift>>

Folded == {r \in Reviews : folded[r] # NULL}

(* Only the mass of the reputation may be older than the clock. *)
Ages == 0 .. MaxTime + Cardinality(Reviews) * Skew
Mass == [Ages -> Nat]
NoMass == [a \in Ages |-> 0]

(* seen, touched: convSeen, of which a thread without tags has no entry;   *)
(* threads, asks: denoms; last: lastUpdated.                               *)
Account == [mass : [Tags -> Mass], count : [Tags -> Nat],
            recent : SUBSET [tag : Tags, cp : UNION {Others[t] : t \in Threads}, ts : Nat],
            seen : [Threads -> SUBSET Tags], touched : [Threads -> Nat],
            threads : Nat, asks : Nat, last : Nat, repeated : SUBSET Tags]

NewAccount == [mass |-> [tag \in Tags |-> NoMass], count |-> [tag \in Tags |-> 0],
               recent |-> {}, seen |-> [t \in Threads |-> {}],
               touched |-> [t \in Threads |-> 0],
               threads |-> 0, asks |-> 0, last |-> 0, repeated |-> {}]

Reputation == [total : Nat, count : Nat, mass : Mass, last : Nat]

NewReputation == [total |-> 0, count |-> 0, mass |-> NoMass, last |-> 0]

Init ==
  /\ clock = 0
  /\ account = NewAccount
  /\ log = <<>>
  /\ rep = NewReputation
  /\ folded = [r \in Reviews |-> NULL]
  /\ drift = 0

Later(m, n) == IF m < n THEN n ELSE m

(* Bug: an age may be negative. *)
ElapsedOrNegative(from, to) == to - from

Elapsed(from, to) == IF from < to THEN to - from ELSE 0

Tick ==
  /\ clock < MaxTime
  /\ clock' = clock + 1
  /\ UNCHANGED <<account, log, rep, folded, drift>>

Readings == {now \in 0 .. clock : now + Skew >= clock}

(* Everything stored gets older. *)
Decayed(mass, elapsed) == [a \in Ages |-> mass[IF a < elapsed THEN 0 ELSE a - elapsed]]

(***************************************************************************)
(* process_signals.                                                        *)
(***************************************************************************)
(* Bug: a clock that runs backwards is taken as it is. *)
AsRead(last, reading) == reading

(* now, pinned to the stored clock. *)
Pinned(last, reading) == Later(last, reading)

(* Bug: the record of a thread is stamped with the time of the item. *)
TouchedByItem(a, thread, created, now) == [a.touched EXCEPT ![thread] = created]

(* An item stamps the record of its thread with the time of processing,    *)
(* even when it counts for nothing.                                        *)
Touched(a, thread, created, now) == [a.touched EXCEPT ![thread] = now]

Unseen(a, thread, tags) == tags \ a.seen[thread]

(* Bug: a thread whose record aged out is no new conversation. *)
ConversationsOnce(a, thread) ==
  a.threads + IF a.seen[thread] = {} /\ a.touched[thread] = 0 THEN 1 ELSE 0

(* The first tag on the record of a thread counts a conversation. *)
Conversations(a, thread) == a.threads + IF a.seen[thread] = {} THEN 1 ELSE 0

(* An entry per tag and counterparty, at the item's own time. *)
Recent(a, thread, tags, other, created) ==
  a.recent \cup IF other = NULL THEN {}
                ELSE {[tag |-> tag, cp |-> other, ts |-> created] :
                        tag \in Unseen(a, thread, tags)}

(* Bug: the window is a tick short. *)
RepeatedShort(recent, now) ==
  {tag \in Tags : Cardinality({x.cp : x \in {x \in recent : x.tag = tag
                                               /\ x.ts + RepeatWindow > now}}) >= RepeatMin}

Repeated(recent, now) ==
  {tag \in Tags : Cardinality({x.cp : x \in {x \in recent : x.tag = tag
                                               /\ x.ts + RepeatWindow >= now}}) >= RepeatMin}

(* One call with the items of one record or report: they share a thread,   *)
(* a counterparty and a time.                                              *)
Signals(thread, tags, other, created, reading) ==
  LET a == account
      now == Pinned(a.last, reading)
      unseen == Unseen(a, thread, tags)
      recent == Recent(a, thread, tags, other, created)
      touched == Touched(a, thread, created, now)
  IN  /\ Len(log) + Cardinality(Folded) < MaxCalls
      /\ account' =
           [mass |-> [tag \in Tags |->
              [age \in Ages |->
                 Decayed(a.mass[tag], Elapsed(a.last, now))[age]
                   + IF tag \in unseen /\ age <= Elapsed(created, now) THEN 1 ELSE 0]],
            count |-> [tag \in Tags |-> a.count[tag] + IF tag \in unseen THEN 1 ELSE 0],
            recent |-> {x \in recent : x.ts + RecentKeep >= now},
            seen |-> [t \in Threads |->
              IF touched[t] + SeenKeep < now THEN {}
              ELSE IF t = thread THEN a.seen[t] \cup tags ELSE a.seen[t]],
            touched |-> touched,
            threads |-> Conversations(a, thread),
            asks |-> a.asks + IF Ask \in unseen THEN 1 ELSE 0,
            last |-> now,
            repeated |-> Repeated(recent, now)]
      /\ log' = Append(log, [thread |-> thread, tags |-> tags, counted |-> unseen,
                             other |-> other, created |-> created, at |-> now])
      /\ UNCHANGED <<clock, rep, folded, drift>>

(***************************************************************************)
(* process_reputation.                                                     *)
(***************************************************************************)
(* Bug: reviews are folded before the stored mass is decayed. *)
FoldedThenDecayed(mass, elapsed, G, now) ==
  Decayed([a \in Ages |-> mass[a] + Cardinality({r \in G : a <= Elapsed(Written[r], now)})],
          elapsed)

DecayedThenFolded(mass, elapsed, G, now) ==
  [a \in Ages |-> Decayed(mass, elapsed)[a]
                    + Cardinality({r \in G : a <= Elapsed(Written[r], now)})]

(* One call with a group of reviews the model could read; if there is one  *)
(* it could not read, the error leaves the stored state as it is.  Reviews *)
(* without text are passed over, and the clock is taken as it is read.     *)
Reputed(G, reading) ==
  /\ G # {} /\ G \cap Folded = {}
  /\ Len(log) + Cardinality(Folded \cup G) <= MaxCalls
  /\ rep' = [total |-> rep.total + Cardinality(G \ Blank),
             count |-> rep.count + Cardinality(G \cap Tagged),
             mass |-> DecayedThenFolded(rep.mass, Elapsed(rep.last, reading),
                                        G \cap Tagged, reading),
             last |-> reading]
  /\ folded' = [r \in Reviews |-> IF r \in G THEN reading ELSE folded[r]]
  /\ drift' = drift + Elapsed(reading, rep.last)
  /\ UNCHANGED <<clock, account, log>>

Next ==
  \/ Tick
  \/ \E reading \in Readings :
       \/ \E thread \in Threads, tags \in SUBSET Tags \ {{}}, delay \in Delays :
            \E other \in Others[thread] :
              delay <= clock /\ Signals(thread, tags, other, clock - delay, reading)
       \/ \E G \in SUBSET Reviews : Reputed(G, reading)

Spec == Init /\ [][Next]_vars

(***************************************************************************)
(* Properties.                                                             *)
(***************************************************************************)
Entry == [thread : Threads, tags : SUBSET Tags, counted : SUBSET Tags,
          other : UNION {Others[t] : t \in Threads}, created : Nat, at : Nat]

(* Every variable has its type; no account is ahead of the clock.          *)
TypeOK ==
  /\ clock \in 0 .. MaxTime
  /\ account \in Account /\ account.last <= clock
  /\ log \in Seq(Entry)
  /\ rep \in Reputation
  /\ folded \in [Reviews -> Nat \cup {NULL}]
  /\ drift \in Nat

CountedItems(tag) == {i \in DOMAIN log : tag \in log[i].counted}

(* The incremental decay is exact whatever the calls in between: each      *)
(* counted item weighs what its whole age makes it weigh, an item from the *)
(* future being as old as its fold, and no clock that runs backwards makes *)
(* a mass decay twice.                                                     *)
MassAsCounted ==
  \A tag \in Tags :
    /\ account.count[tag] = Cardinality(CountedItems(tag))
    /\ \A a \in Ages :
         account.mass[tag][a] =
           Cardinality({i \in CountedItems(tag) :
                          a + (IF log[i].created < log[i].at
                               THEN log[i].created ELSE log[i].at) <= account.last})

(* "once per conversation (within _CONV_SEEN_KEEP_DAYS days of this        *)
(* function last seeing it)": a tag that counts twice for a thread was not *)
(* seen there for longer than that, and one that does not count already    *)
(* did.  That holds for items as late as may be.                           *)
OncePerConversation ==
  \A j \in DOMAIN log : \A tag \in log[j].tags :
    LET seenIn == {i \in 1 .. j : log[i].thread = log[j].thread}
        counted == {i \in seenIn : i < j /\ tag \in log[i].counted}
        quiet(i) == \E k \in i .. (j - 1) \cap seenIn :
                      \A l \in (k + 1) .. j \cap seenIn : log[k].at + SeenKeep < log[l].at
    IN  IF tag \in log[j].counted THEN \A i \in counted : quiet(i) ELSE counted # {}

(* The denominators fit the counts: no tag was seen in more conversations  *)
(* than there are, so every rate made of them is a fraction.               *)
RatesAreFractions ==
  /\ account.asks = account.count[Ask]
  /\ \A tag \in Tags : account.count[tag] <= account.threads

(* The counterparties whose items were counted within the repeat window.   *)
CountedFrom(tag) ==
  {log[i].other : i \in {i \in CountedItems(tag) : log[i].created + RepeatWindow >= account.last}}
    \ {NULL}

(* repeatedAcross names the tags counted for enough counterparties in the  *)
(* window: what the calls in between pruned is never missed.               *)
RepeatedAsCounted ==
  account.repeated = {tag \in Tags : Cardinality(CountedFrom(tag)) >= RepeatMin}

(* "tags seen from >= 3 counterparties in 7d": counted or not, as the      *)
(* docstring of process_signals has it.                                    *)
RepeatedAsSeen ==
  \A tag \in Tags :
    Cardinality({log[i].other : i \in {i \in DOMAIN log :
                                          /\ tag \in log[i].tags
                                          /\ log[i].created + RepeatWindow >= account.last}}
                \ {NULL}) >= RepeatMin
      => tag \in account.repeated

FoldedTagged(age) ==
  {r \in Folded \cap Tagged :
     age + (IF Written[r] < folded[r] THEN Written[r] ELSE folded[r]) <= rep.last}

(* Whatever groups reviews are folded in, the state is that of folding     *)
(* them all: a review is never younger in it than it is, and older only by *)
(* what the clocks of its calls ran backwards.                             *)
ReputationAsFolded ==
  /\ rep.total = Cardinality(Folded \ Blank)
  /\ rep.count = Cardinality(Folded \cap Tagged)
  /\ rep.mass[0] = rep.count
  /\ \A age \in Ages :
       /\ Cardinality(FoldedTagged(age)) <= rep.mass[age]
       /\ rep.mass[age] <= Cardinality(FoldedTagged(age - drift))
=============================================================================
