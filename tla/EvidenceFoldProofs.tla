-------------------------- MODULE EvidenceFoldProofs --------------------------
(***************************************************************************)
(* Theorems about EvidenceFold, for any threads, tags, counterparties and  *)
(* reviews, any windows, any skew of the clocks and any number of calls.   *)
(***************************************************************************)
EXTENDS EvidenceFold, FiniteSetTheorems, SequenceTheorems, TLAPS

(***************************************************************************)
(* Types.                                                                  *)
(***************************************************************************)
LEMMA Bounds ==
  /\ SeenKeep \in Nat /\ RepeatWindow \in Nat /\ RepeatMin \in Nat /\ Skew \in Nat
  /\ MaxTime \in Nat /\ RecentKeep \in Nat /\ RepeatWindow <= RecentKeep
  /\ Ask \in Tags /\ Written \in [Reviews -> Nat] /\ Delays \subseteq Nat
  /\ NULL \notin Nat
BY EvidenceAssumption

LEMMA AgesMean ==
  /\ 0 \in Ages
  /\ \A a \in Ages : a \in Nat /\ \A b \in 0 .. a : b \in Ages
<1>1. Cardinality(Reviews) \in Nat /\ Skew \in Nat /\ MaxTime \in Nat
  BY EvidenceAssumption, FS_CardinalityType
<1>2. Cardinality(Reviews) * Skew \in Nat
  BY <1>1
<1> DEFINE more == Cardinality(Reviews) * Skew
<1>3. Ages = 0 .. MaxTime + more /\ more \in Nat
  BY <1>2 DEF Ages
<1> HIDE DEF more
<1> QED
  BY <1>1, <1>3

LEMMA ElapsedType ==
  ASSUME NEW m \in Nat, NEW n \in Nat
  PROVE  Elapsed(m, n) \in Nat /\ Elapsed(m, n) <= n
BY DEF Elapsed

LEMMA DecayedType ==
  ASSUME NEW mass \in Mass, NEW e \in Nat
  PROVE  Decayed(mass, e) \in Mass
<1>1. \A a \in Ages : (IF a < e THEN 0 ELSE a - e) \in Ages
  <2> SUFFICES ASSUME NEW a \in Ages PROVE (IF a < e THEN 0 ELSE a - e) \in Ages
    OBVIOUS
  <2>1. a \in Nat /\ 0 \in Ages /\ \A b \in 0 .. a : b \in Ages
    BY AgesMean
  <2> QED
    BY <2>1
<1> QED
  BY <1>1 DEF Decayed, Mass

LEMMA InitType == Init => TypeOK
<1> SUFFICES ASSUME Init PROVE TypeOK
  OBVIOUS
<1>1. NoMass \in Mass
  BY DEF NoMass, Mass
<1>2. account \in Account /\ account.last = 0
  BY <1>1 DEF Init, NewAccount, Account
<1>3. rep \in Reputation
  BY <1>1 DEF Init, NewReputation, Reputation
<1>4. log \in Seq(Entry)
  BY DEF Init
<1> QED
  BY <1>2, <1>3, <1>4, Bounds DEF Init, TypeOK

(* The call of Next.                                                       *)
Called(thread, tags, other, created, reading) ==
  /\ thread \in Threads /\ tags \in SUBSET Tags /\ other \in Others[thread]
  /\ created \in Nat /\ created <= clock
  /\ reading \in Readings
  /\ Signals(thread, tags, other, created, reading)

LEMMA NextMeans ==
  ASSUME TypeOK, Next
  PROVE  \/ Tick
         \/ \E thread, tags, other, created, reading :
              Called(thread, tags, other, created, reading)
         \/ \E G \in SUBSET Reviews, reading \in Readings : Reputed(G, reading)
<1>1. CASE \E reading \in Readings, thread \in Threads, tags \in SUBSET Tags \ {{}},
              delay \in Delays : \E other \in Others[thread] :
                delay <= clock /\ Signals(thread, tags, other, clock - delay, reading)
  <2>1. PICK reading \in Readings, thread \in Threads, tags \in SUBSET Tags \ {{}},
             delay \in Delays : \E other \in Others[thread] :
               delay <= clock /\ Signals(thread, tags, other, clock - delay, reading)
    BY <1>1
  <2>2. PICK other \in Others[thread] :
          delay <= clock /\ Signals(thread, tags, other, clock - delay, reading)
    BY <2>1
  <2>3. clock \in Nat /\ delay \in Nat
    BY Bounds DEF TypeOK
  <2>4. clock - delay \in Nat /\ clock - delay <= clock
    BY <2>2, <2>3
  <2>5. PICK created \in Nat : created = clock - delay
    BY <2>4
  <2>6. Called(thread, tags, other, created, reading)
    BY <2>2, <2>4, <2>5 DEF Called
  <2> QED
    BY <2>6
<1> QED
  BY <1>1 DEF Next

LEMMA ReadingType ==
  ASSUME TypeOK, NEW reading \in Readings
  PROVE  reading \in Nat /\ reading <= clock /\ clock \in Nat
BY DEF Readings, TypeOK

(* What one call of process_signals does.                                  *)
LEMMA SignalsAccount ==
  ASSUME TypeOK, NEW thread, NEW tags, NEW other, NEW created, NEW reading,
         Called(thread, tags, other, created, reading)
  PROVE  /\ account'.last \in Nat /\ account'.last >= account.last /\ account'.last <= clock
         /\ account.last \in Nat
         /\ UNCHANGED <<clock, rep, folded, drift>>
         /\ account' =
              [mass |-> account'.mass, count |-> account'.count, recent |-> account'.recent,
               seen |-> account'.seen, touched |-> account'.touched,
               threads |-> account'.threads, asks |-> account'.asks,
               last |-> account'.last, repeated |-> account'.repeated]
<1>1. Signals(thread, tags, other, created, reading) /\ reading \in Readings
  BY DEF Called
<1>2. account.last \in Nat /\ account.last <= clock
  BY DEF TypeOK, Account
<1>3. account'.last = Pinned(account.last, reading)
  BY <1>1 DEF Signals
<1>4. account'.last \in Nat /\ account'.last >= account.last /\ account'.last <= clock
  BY <1>1, <1>2, <1>3, ReadingType DEF Pinned, Later
<1>5. UNCHANGED <<clock, rep, folded, drift>>
  BY <1>1 DEF Signals
<1>6. account' =
        [mass |-> account'.mass, count |-> account'.count, recent |-> account'.recent,
         seen |-> account'.seen, touched |-> account'.touched,
         threads |-> account'.threads, asks |-> account'.asks,
         last |-> account'.last, repeated |-> account'.repeated]
  BY <1>1 DEF Signals
<1> QED
  BY <1>2, <1>4, <1>5, <1>6

LEMMA SignalsConversations ==
  ASSUME NEW thread, NEW tags, NEW other, NEW created, NEW reading,
         Signals(thread, tags, other, created, reading)
  PROVE  /\ account.seen[thread] = {} => account'.threads = account.threads + 1
         /\ account.seen[thread] # {} => account'.threads = account.threads + 0
         /\ Ask \in Unseen(account, thread, tags) => account'.asks = account.asks + 1
         /\ Ask \notin Unseen(account, thread, tags) => account'.asks = account.asks + 0
BY DEF Signals, Conversations

LEMMA SignalsCount ==
  ASSUME NEW thread, NEW tags, NEW other, NEW created, NEW reading,
         Signals(thread, tags, other, created, reading)
  PROVE  /\ account'.count = [tag \in Tags |-> account'.count[tag]]
         /\ \A tag \in Tags :
              /\ tag \in Unseen(account, thread, tags) =>
                   account'.count[tag] = account.count[tag] + 1
              /\ tag \notin Unseen(account, thread, tags) =>
                   account'.count[tag] = account.count[tag] + 0
BY DEF Signals

LEMMA SignalsMass ==
  ASSUME NEW thread, NEW tags, NEW other, NEW created, NEW reading,
         Signals(thread, tags, other, created, reading), NEW tag \in Tags
  PROVE  account'.mass[tag] =
           [age \in Ages |->
              Decayed(account.mass[tag], Elapsed(account.last, account'.last))[age]
                + IF tag \in Unseen(account, thread, tags) /\ age <= Elapsed(created, account'.last)
                  THEN 1 ELSE 0]
BY DEF Signals

LEMMA SignalsMassFunction ==
  ASSUME NEW thread, NEW tags, NEW other, NEW created, NEW reading,
         Signals(thread, tags, other, created, reading)
  PROVE  account'.mass = [tag \in Tags |-> account'.mass[tag]]
BY DEF Signals

LEMMA SignalsSeen ==
  ASSUME NEW thread, NEW tags, NEW other, NEW created, NEW reading,
         Signals(thread, tags, other, created, reading)
  PROVE  /\ account'.touched = [account.touched EXCEPT ![thread] = account'.last]
         /\ account'.seen = [t \in Threads |-> account'.seen[t]]
         /\ \A t \in Threads :
              account'.seen[t] = IF account'.touched[t] + SeenKeep < account'.last THEN {}
                                 ELSE IF t = thread THEN account.seen[t] \cup tags
                                 ELSE account.seen[t]
BY DEF Signals, Touched

LEMMA SignalsRecent ==
  ASSUME NEW thread, NEW tags, NEW other, NEW created, NEW reading,
         Signals(thread, tags, other, created, reading)
  PROVE  /\ account'.recent = {x \in Recent(account, thread, tags, other, created) :
                                 x.ts + RecentKeep >= account'.last}
         /\ account'.repeated = Repeated(Recent(account, thread, tags, other, created),
                                         account'.last)
BY DEF Signals

LEMMA SignalsLog ==
  ASSUME NEW thread, NEW tags, NEW other, NEW created, NEW reading,
         Signals(thread, tags, other, created, reading)
  PROVE  log' = Append(log, [thread |-> thread, tags |-> tags,
                             counted |-> Unseen(account, thread, tags),
                             other |-> other, created |-> created, at |-> account'.last])
BY DEF Signals

LEMMA SignalsType ==
  ASSUME TypeOK, NEW thread, NEW tags, NEW other, NEW created, NEW reading,
         Called(thread, tags, other, created, reading)
  PROVE  TypeOK'
<1>0. /\ thread \in Threads /\ tags \in SUBSET Tags /\ other \in Others[thread]
      /\ created \in Nat /\ created <= clock
      /\ Signals(thread, tags, other, created, reading)
  BY DEF Called
<1>1. account \in Account /\ clock \in 0 .. MaxTime /\ log \in Seq(Entry)
  BY DEF TypeOK
<1>u. Unseen(account, thread, tags) \in SUBSET Tags
  BY <1>0 DEF Unseen
<1>2. /\ account'.last \in Nat /\ account'.last >= account.last /\ account'.last <= clock
      /\ account.last \in Nat
      /\ UNCHANGED <<clock, rep, folded, drift>>
  BY SignalsAccount
<1>3. account'.mass \in [Tags -> Mass]
  <2>1. ASSUME NEW tag \in Tags PROVE account'.mass[tag] \in Mass
    <3> DEFINE m == Decayed(account.mass[tag], Elapsed(account.last, account'.last))
    <3>1. account.mass[tag] \in Mass
      BY <1>1 DEF Account
    <3>2. Elapsed(account.last, account'.last) \in Nat
      BY <1>2, ElapsedType
    <3>3. m \in Mass
      BY <3>1, <3>2, DecayedType
    <3>4. account'.mass[tag] =
            [age \in Ages |-> m[age] + IF /\ tag \in Unseen(account, thread, tags)
                                          /\ age <= Elapsed(created, account'.last)
                                       THEN 1 ELSE 0]
      BY <1>0, SignalsMass
    <3> HIDE DEF m
    <3> QED
      BY <3>3, <3>4 DEF Mass
  <2> QED
    BY <1>0, <2>1, SignalsMassFunction
<1>4. account'.count \in [Tags -> Nat] /\ account'.asks \in Nat /\ account'.threads \in Nat
  <2>1. account.count \in [Tags -> Nat] /\ account.asks \in Nat /\ account.threads \in Nat
    BY <1>1 DEF Account
  <2>2. account'.asks \in Nat /\ account'.threads \in Nat
    BY <1>0, <2>1, SignalsConversations
  <2>3. ASSUME NEW tag \in Tags PROVE account'.count[tag] \in Nat
    <3>1. account.count[tag] \in Nat
      BY <2>1
    <3>2. account'.count[tag] \in {account.count[tag] + 1, account.count[tag] + 0}
      BY <1>0, SignalsCount
    <3> QED
      BY <3>1, <3>2
  <2>4. account'.count = [tag \in Tags |-> account'.count[tag]]
    BY <1>0, SignalsCount
  <2> QED
    BY <2>2, <2>3, <2>4
<1>5. account'.touched \in [Threads -> Nat] /\ account'.seen \in [Threads -> SUBSET Tags]
  <2>1. account.touched \in [Threads -> Nat] /\ account.seen \in [Threads -> SUBSET Tags]
    BY <1>1 DEF Account
  <2>2. account'.touched \in [Threads -> Nat]
    BY <1>0, <1>2, <2>1, SignalsSeen
  <2>3. account'.seen \in [Threads -> SUBSET Tags]
    <3>1. /\ account'.seen = [t \in Threads |-> account'.seen[t]]
          /\ \A t \in Threads : account'.seen[t] \in {{}, account.seen[t] \cup tags, account.seen[t]}
      BY <1>0, SignalsSeen
    <3>2. \A t \in Threads : account.seen[t] \in SUBSET Tags
                               /\ account.seen[t] \cup tags \in SUBSET Tags
      BY <1>0, <2>1
    <3> QED
      BY <3>1, <3>2
  <2> QED
    BY <2>2, <2>3
<1> DEFINE Seen == [tag : Tags, cp : UNION {Others[t] : t \in Threads}, ts : Nat]
<1>6. account'.recent \in SUBSET Seen
  <2>1. account.recent \subseteq Seen
    BY <1>1 DEF Account
  <2>2. Recent(account, thread, tags, other, created) \subseteq Seen
    BY <1>0, <1>u, <2>1 DEF Recent
  <2> QED
    BY <1>0, <2>2, SignalsRecent
<1>7. account'.repeated \in SUBSET Tags
  BY <1>0, SignalsRecent DEF Repeated
<1>8. account' \in Account
  <2>1. account' = [mass |-> account'.mass, count |-> account'.count, recent |-> account'.recent,
                    seen |-> account'.seen, touched |-> account'.touched,
                    threads |-> account'.threads, asks |-> account'.asks,
                    last |-> account'.last, repeated |-> account'.repeated]
    BY SignalsAccount
  <2> QED
    BY <1>2, <1>3, <1>4, <1>5, <1>6, <1>7, <2>1 DEF Account
<1>9. log' \in Seq(Entry)
  <2> DEFINE e == [thread |-> thread, tags |-> tags,
                   counted |-> Unseen(account, thread, tags),
                   other |-> other, created |-> created, at |-> account'.last]
  <2>1. e \in Entry
    BY <1>0, <1>u, <1>2 DEF Entry
  <2>2. log' = Append(log, e)
    BY <1>0, SignalsLog
  <2> HIDE DEF e
  <2> QED
    BY <1>1, <2>1, <2>2, AppendProperties
<1> QED
  BY <1>1, <1>2, <1>8, <1>9 DEF TypeOK

LEMMA ReputedType ==
  ASSUME TypeOK, NEW G \in SUBSET Reviews, NEW reading \in Readings, Reputed(G, reading)
  PROVE  TypeOK'
<1>1. reading \in Nat /\ rep \in Reputation
  BY ReadingType DEF TypeOK
<1>2. \A S \in SUBSET Reviews : Cardinality(S) \in Nat
  BY EvidenceAssumption, FS_Subset, FS_CardinalityType
<1> DEFINE mass == DecayedThenFolded(rep.mass, Elapsed(rep.last, reading), G \cap Tagged, reading)
           total == rep.total + Cardinality(G \ Blank)
           count == rep.count + Cardinality(G \cap Tagged)
<1>3. mass \in Mass
  <2>1. Decayed(rep.mass, Elapsed(rep.last, reading)) \in Mass
    BY <1>1, ElapsedType, DecayedType DEF Reputation
  <2>2. \A a \in Ages : Cardinality({r \in G \cap Tagged : a <= Elapsed(Written[r], reading)}) \in Nat
    BY <1>2
  <2> QED
    BY <2>1, <2>2 DEF DecayedThenFolded, Mass
<1>4. total \in Nat /\ count \in Nat
  BY <1>1, <1>2 DEF Reputation
<1>5. rep' = [total |-> total, count |-> count, mass |-> mass, last |-> reading]
  BY DEF Reputed
<1>6. rep' \in Reputation
  <2> HIDE DEF total, count, mass
  <2> QED
    BY <1>1, <1>3, <1>4, <1>5 DEF Reputation
<1>7. folded' \in [Reviews -> Nat \cup {NULL}]
  BY <1>1 DEF Reputed, TypeOK
<1>8. drift' \in Nat
  <2>1. drift \in Nat /\ rep.last \in Nat
    BY <1>1 DEF TypeOK, Reputation
  <2>2. drift' = drift + Elapsed(reading, rep.last)
    BY DEF Reputed
  <2>3. Elapsed(reading, rep.last) \in Nat
    BY <1>1, <2>1, ElapsedType
  <2> QED
    BY <2>1, <2>2, <2>3
<1> QED
  BY <1>6, <1>7, <1>8 DEF Reputed, TypeOK

LEMMA TypeNext == TypeOK /\ [Next]_vars => TypeOK'
<1> SUFFICES ASSUME TypeOK, [Next]_vars PROVE TypeOK'
  OBVIOUS
<1>1. CASE Tick
  BY <1>1, Bounds DEF Tick, TypeOK, Account
<1>2. CASE UNCHANGED vars
  BY <1>2 DEF vars, TypeOK
<1> QED
  BY <1>1, <1>2, NextMeans, SignalsType, ReputedType

(* Every variable keeps its type, and no account gets ahead of the clock   *)
(* (process_signals pins it).                                              *)
THEOREM EvidenceTypeCorrect == Spec => []TypeOK
BY InitType, TypeNext, PTL DEF Spec

(***************************************************************************)
(* A property that only a call of process_signals can disturb is an        *)
(* invariant if such calls keep it.                                        *)
(***************************************************************************)
LEMMA OnlySignals ==
  ASSUME TypeOK, [Next]_vars
  PROVE  \/ UNCHANGED <<account, log>>
         \/ \E thread, tags, other, created, reading :
              Called(thread, tags, other, created, reading)
BY NextMeans DEF Tick, Reputed, vars

(***************************************************************************)
(* The denominators.  A conversation whose record lacks a tag is room for  *)
(* that tag: each conversation counted has been used by a tag, or still    *)
(* has its room, or its record has aged out.                               *)
(***************************************************************************)
Open == {t \in Threads : account.seen[t] # {}}
Lacking(tag) == {t \in Open : tag \notin account.seen[t]}

RateInv ==
  /\ TypeOK
  /\ IsFiniteSet(Open)
  /\ account.asks = account.count[Ask]
  /\ \A tag \in Tags : account.count[tag] + Cardinality(Lacking(tag)) <= account.threads

LEMMA RateInit == Init => RateInv
<1> SUFFICES ASSUME Init PROVE RateInv
  OBVIOUS
<1>1. TypeOK
  BY InitType
<1>2. Open = {} /\ \A tag \in Tags : Lacking(tag) = {}
  BY DEF Init, NewAccount, Open, Lacking
<1>3. account.asks = 0 /\ account.threads = 0 /\ \A tag \in Tags : account.count[tag] = 0
  BY DEF Init, NewAccount
<1> QED
  BY <1>1, <1>2, <1>3, FS_EmptySet, Bounds DEF RateInv

LEMMA RateSignals ==
  ASSUME RateInv, NEW thread, NEW tags, NEW other, NEW created, NEW reading,
         Called(thread, tags, other, created, reading)
  PROVE  RateInv'
<1>0. /\ TypeOK /\ account \in Account /\ account'.last \in Nat
      /\ thread \in Threads /\ tags \in SUBSET Tags
      /\ Signals(thread, tags, other, created, reading)
  BY SignalsAccount DEF RateInv, TypeOK, Called
<1>1. TypeOK'
  BY <1>0, SignalsType
<1>2. \A t \in Threads : account'.seen[t] =
        IF account'.touched[t] + SeenKeep < account'.last THEN {}
        ELSE IF t = thread THEN account.seen[t] \cup tags ELSE account.seen[t]
  BY <1>0, SignalsSeen
<1>3. account'.seen[thread] = account.seen[thread] \cup tags
  <2>0. account.touched \in [Threads -> Nat]
    BY <1>0 DEF Account
  <2>t. account'.touched = [account.touched EXCEPT ![thread] = account'.last]
    BY <1>0, SignalsSeen
  <2>1. account'.touched[thread] = account'.last
    BY <1>0, <2>0, <2>t
  <2>2. ~(account'.touched[thread] + SeenKeep < account'.last)
    BY <1>0, <2>1, Bounds
  <2> QED
    BY <1>0, <1>2, <2>2
<1>4. \A t \in Threads \ {thread} : account'.seen[t] \in {{}, account.seen[t]}
  BY <1>2
<1>5. Open' \subseteq Open \cup {thread}
  BY <1>4 DEF Open
<1>6. IsFiniteSet(Open')
  BY <1>5, FS_AddElement, FS_Subset DEF RateInv
<1>7. account'.asks = account'.count[Ask]
  <2>1. account.asks = account.count[Ask] /\ Ask \in Tags
    BY Bounds DEF RateInv
  <2> QED
    BY <1>0, <2>1, SignalsConversations, SignalsCount
<1>8. ASSUME NEW tag \in Tags
      PROVE  account'.count[tag] + Cardinality(Lacking(tag)') <= account'.threads
  <2>1. /\ account.count[tag] \in Nat /\ account.threads \in Nat
        /\ account.count[tag] + Cardinality(Lacking(tag)) <= account.threads
    BY <1>0 DEF RateInv, Account
  <2>2. IsFiniteSet(Lacking(tag)) /\ Cardinality(Lacking(tag)) \in Nat
    BY FS_Subset, FS_CardinalityType DEF RateInv, Lacking
  <2>3. Lacking(tag)' \subseteq Lacking(tag) \cup {thread}
    BY <1>4 DEF Lacking, Open
  <2>4. PICK before, after : before = Lacking(tag) /\ after = Lacking(tag)'
    OBVIOUS
  <2>5. /\ IsFiniteSet(after)
        /\ Cardinality(after) \in Nat /\ Cardinality(after) <= Cardinality(before) + 1
    <3>1. IsFiniteSet(before \cup {thread})
          /\ Cardinality(before \cup {thread}) <= Cardinality(before) + 1
      BY <2>2, <2>4, FS_AddElement
    <3>2. after \subseteq before \cup {thread}
      BY <2>3, <2>4
    <3>3. IsFiniteSet(after) /\ Cardinality(after) <= Cardinality(before \cup {thread})
      BY <3>1, <3>2, FS_Subset
    <3>4. Cardinality(after) \in Nat /\ Cardinality(before \cup {thread}) \in Nat
      BY <3>1, <3>3, FS_CardinalityType
    <3> QED
      BY <2>2, <2>4, <3>1, <3>3, <3>4
  <2>6. CASE tag \in Unseen(account, thread, tags)
    <3>1. thread \notin after /\ after \subseteq before \ {thread}
      BY <1>3, <2>3, <2>4, <2>6 DEF Lacking, Unseen
    <3>2. IsFiniteSet(before \ {thread}) /\ Cardinality(before \ {thread}) \in Nat
      BY <2>2, <2>4, FS_RemoveElement, FS_CardinalityType
    <3>3. Cardinality(after) <= Cardinality(before \ {thread})
      BY <3>1, <3>2, FS_Subset
    <3>4. account'.count[tag] = account.count[tag] + 1
      BY <1>0, <2>6, SignalsCount
    <3>5. CASE account.seen[thread] = {}
      <4>1. thread \notin before
        BY <2>4, <3>5 DEF Lacking, Open
      <4>2. Cardinality(before \ {thread}) = Cardinality(before)
        BY <2>2, <2>4, <4>1, FS_RemoveElement
      <4>3. account'.threads = account.threads + 1
        BY <1>0, <3>5, SignalsConversations
      <4> QED
        BY <2>1, <2>2, <2>4, <2>5, <3>2, <3>3, <3>4, <4>2, <4>3
    <3>6. CASE account.seen[thread] # {}
      <4>1. thread \in before
        BY <1>0, <2>4, <2>6, <3>6 DEF Lacking, Open, Unseen
      <4>2. Cardinality(before \ {thread}) = Cardinality(before) - 1
        BY <2>2, <2>4, <4>1, FS_RemoveElement
      <4>3. account'.threads = account.threads + 0
        BY <1>0, <3>6, SignalsConversations
      <4> QED
        BY <2>1, <2>2, <2>4, <2>5, <3>2, <3>3, <3>4, <4>2, <4>3
    <3> QED
      BY <3>5, <3>6
  <2>7. CASE tag \notin Unseen(account, thread, tags)
    <3>1. account'.count[tag] = account.count[tag] + 0
      BY <1>0, <2>7, SignalsCount
    <3>2. CASE account.seen[thread] = {}
      <4>1. account'.threads = account.threads + 1
        BY <1>0, <3>2, SignalsConversations
      <4> QED
        BY <2>1, <2>2, <2>4, <2>5, <3>1, <4>1
    <3>3. CASE account.seen[thread] # {}
      <4>1. thread \in after => thread \in before
        BY <1>0, <1>3, <2>4, <2>7, <3>3 DEF Lacking, Open, Unseen
      <4>2. after \subseteq before
        BY <2>3, <2>4, <4>1
      <4>3. Cardinality(after) <= Cardinality(before)
        BY <2>2, <2>4, <4>2, FS_Subset
      <4>4. account'.threads = account.threads + 0
        BY <1>0, <3>3, SignalsConversations
      <4> QED
        BY <2>1, <2>2, <2>4, <2>5, <3>1, <4>3, <4>4
    <3> QED
      BY <3>2, <3>3
  <2> QED
    BY <2>6, <2>7
<1> QED
  BY <1>1, <1>6, <1>7, <1>8 DEF RateInv

LEMMA RateNext == RateInv /\ [Next]_vars => RateInv'
<1> SUFFICES ASSUME RateInv, [Next]_vars PROVE RateInv'
  OBVIOUS
<1>1. TypeOK /\ TypeOK'
  BY TypeNext DEF RateInv
<1>2. CASE UNCHANGED <<account, log>>
  BY <1>1, <1>2 DEF RateInv, Open, Lacking
<1> QED
  BY <1>1, <1>2, OnlySignals, RateSignals

LEMMA RateFits == RateInv => RatesAreFractions
<1> SUFFICES ASSUME RateInv PROVE RatesAreFractions
  OBVIOUS
<1>1. ASSUME NEW tag \in Tags PROVE account.count[tag] <= account.threads
  <2>1. account.count[tag] \in Nat /\ account.threads \in Nat
    BY DEF RateInv, TypeOK, Account
  <2>2. Cardinality(Lacking(tag)) \in Nat
    BY FS_Subset, FS_CardinalityType DEF RateInv, Lacking
  <2>3. account.count[tag] + Cardinality(Lacking(tag)) <= account.threads
    BY DEF RateInv
  <2> QED
    BY <2>1, <2>2, <2>3
<1> QED
  BY <1>1 DEF RatesAreFractions, RateInv

(* No tag is counted in more conversations than there were, whatever the   *)
(* records of conversations that age out (the denoms of process_signals).  *)
THEOREM RatesFit == Spec => []RatesAreFractions
BY RateInit, RateNext, RateFits, PTL DEF Spec

(***************************************************************************)
(* The decayed masses, item by item.  Since(i) is when item i begins to    *)
(* decay.                                                                  *)
(***************************************************************************)
Since(i) == IF log[i].created < log[i].at THEN log[i].created ELSE log[i].at

(* The counted items of an age or older.                                   *)
Aged(tag, a) == {i \in CountedItems(tag) : a + Since(i) <= account.last}

MassInv ==
  /\ TypeOK
  /\ \A i \in DOMAIN log : log[i].at <= account.last
  /\ \A tag \in Tags : account.count[tag] = Cardinality(CountedItems(tag))
  /\ \A tag \in Tags, a \in Ages : account.mass[tag][a] = Cardinality(Aged(tag, a))

LEMMA MassInit == Init => MassInv
<1> SUFFICES ASSUME Init PROVE MassInv
  OBVIOUS
<1>1. DOMAIN log = {}
  BY DEF Init
<1>2. \A tag : CountedItems(tag) = {} /\ \A a : Aged(tag, a) = {}
  BY <1>1 DEF CountedItems, Aged
<1>3. \A tag \in Tags : account.count[tag] = 0 /\ \A a \in Ages : account.mass[tag][a] = 0
  BY DEF Init, NewAccount, NoMass
<1> QED
  BY <1>1, <1>2, <1>3, InitType, FS_EmptySet DEF MassInv

LEMMA EntryType ==
  ASSUME TypeOK, NEW i \in DOMAIN log
  PROVE  /\ i \in 1 .. Len(log) /\ log[i] \in Entry
         /\ log[i].at \in Nat /\ log[i].created \in Nat
         /\ Since(i) \in Nat /\ Since(i) <= log[i].at
<1>1. log \in Seq(Entry) /\ i \in 1 .. Len(log)
  BY DEF TypeOK
<1>2. log[i] \in Entry
  BY <1>1
<1> QED
  BY <1>1, <1>2 DEF Entry, Since

LEMMA CountedFinite ==
  ASSUME TypeOK, NEW tag
  PROVE  IsFiniteSet(CountedItems(tag)) /\ \A a : IsFiniteSet(Aged(tag, a))
<1>1. Len(log) \in Nat /\ CountedItems(tag) \subseteq 1 .. Len(log)
  BY DEF CountedItems, TypeOK
<1>2. IsFiniteSet(1 .. Len(log))
  BY <1>1, FS_Interval
<1>3. IsFiniteSet(CountedItems(tag))
  BY <1>1, <1>2, FS_Subset
<1>4. \A a : Aged(tag, a) \subseteq CountedItems(tag)
  BY DEF Aged
<1> QED
  BY <1>3, <1>4, FS_Subset

(* A call adds one entry, and changes none.                                *)
LEMMA LogGrows ==
  ASSUME TypeOK, NEW thread, NEW tags, NEW other, NEW created, NEW reading,
         Called(thread, tags, other, created, reading)
  PROVE  /\ Len(log) \in Nat
         /\ DOMAIN log = 1 .. Len(log) /\ DOMAIN log' = 1 .. (Len(log) + 1)
         /\ \A i \in DOMAIN log : log'[i] = log[i]
         /\ log'[Len(log) + 1].thread = thread /\ log'[Len(log) + 1].tags = tags
         /\ log'[Len(log) + 1].counted = Unseen(account, thread, tags)
         /\ log'[Len(log) + 1].other = other /\ log'[Len(log) + 1].created = created
         /\ log'[Len(log) + 1].at = account'.last
<1> DEFINE e == [thread |-> thread, tags |-> tags, counted |-> Unseen(account, thread, tags),
                 other |-> other, created |-> created, at |-> account'.last]
<1>1. log' = Append(log, e)
  BY SignalsLog DEF Called
<1>2. e \in Entry
  BY SignalsAccount DEF Called, Entry, Unseen
<1>3. log \in Seq(Entry)
  BY DEF TypeOK
<1>f. /\ e.thread = thread /\ e.tags = tags /\ e.counted = Unseen(account, thread, tags)
      /\ e.other = other /\ e.created = created /\ e.at = account'.last
  OBVIOUS
<1> HIDE DEF e
<1>4. Len(log') = Len(log) + 1 /\ \A i \in 1 .. Len(log) : log'[i] = log[i]
  BY <1>1, <1>2, <1>3, AppendProperties
<1>5. log'[Len(log) + 1] = e /\ log' \in Seq(Entry)
  BY <1>1, <1>2, <1>3, AppendProperties
<1>6. /\ Len(log) \in Nat /\ DOMAIN log = 1 .. Len(log)
      /\ DOMAIN log' = 1 .. (Len(log) + 1)
  BY <1>3, <1>4, <1>5
<1> QED
  BY <1>4, <1>5, <1>6, <1>f

LEMMA CountedGrows ==
  ASSUME TypeOK, NEW thread, NEW tags, NEW other, NEW created, NEW reading,
         Called(thread, tags, other, created, reading), NEW tag
  PROVE  /\ Len(log) + 1 \notin CountedItems(tag)
         /\ tag \in Unseen(account, thread, tags) =>
              CountedItems(tag)' = CountedItems(tag) \cup {Len(log) + 1}
         /\ tag \notin Unseen(account, thread, tags) => CountedItems(tag)' = CountedItems(tag)
<1>1. /\ Len(log) \in Nat
      /\ DOMAIN log = 1 .. Len(log) /\ DOMAIN log' = 1 .. (Len(log) + 1)
      /\ \A i \in DOMAIN log : log'[i] = log[i]
      /\ log'[Len(log) + 1].counted = Unseen(account, thread, tags)
  BY LogGrows
<1>2. DOMAIN log' = DOMAIN log \cup {Len(log) + 1} /\ Len(log) + 1 \notin DOMAIN log
  BY <1>1
<1> QED
  BY <1>1, <1>2 DEF CountedItems

LEMMA MassSignals ==
  ASSUME MassInv, NEW thread, NEW tags, NEW other, NEW created, NEW reading,
         Called(thread, tags, other, created, reading)
  PROVE  MassInv'
<1>0. TypeOK /\ Signals(thread, tags, other, created, reading) /\ created \in Nat
  BY DEF MassInv, Called
<1>1. TypeOK'
  BY <1>0, SignalsType
<1>2. /\ account'.last \in Nat /\ account.last \in Nat
      /\ account'.last >= account.last /\ account'.last <= clock
      /\ clock \in Nat /\ clock <= MaxTime
  BY <1>0, SignalsAccount, Bounds DEF TypeOK
<1>n. PICK new : new = Len(log) + 1
  OBVIOUS
<1>3. /\ Len(log) \in Nat
      /\ DOMAIN log = 1 .. Len(log) /\ DOMAIN log' = 1 .. new
      /\ \A i \in DOMAIN log : log'[i] = log[i]
      /\ log'[new].at = account'.last /\ log'[new].created = created
  BY <1>0, <1>n, LogGrows
<1>4. \A i \in DOMAIN log : /\ log[i].at \in Nat /\ log[i].at <= account.last
                            /\ Since(i) \in Nat /\ Since(i) <= account.last
                            /\ Since(i)' = Since(i)
  <2> SUFFICES ASSUME NEW i \in DOMAIN log
               PROVE  /\ log[i].at \in Nat /\ log[i].at <= account.last
                      /\ Since(i) \in Nat /\ Since(i) <= account.last
                      /\ Since(i)' = Since(i)
    OBVIOUS
  <2>1. /\ log[i].at \in Nat /\ log[i].at <= account.last
        /\ Since(i) \in Nat /\ Since(i) <= log[i].at
    BY <1>0, EntryType DEF MassInv
  <2>2. Since(i)' = Since(i)
    BY <1>3 DEF Since
  <2> QED
    BY <1>2, <2>1, <2>2
<1>5. \A i \in DOMAIN log' : log'[i].at <= account'.last
  <2> SUFFICES ASSUME NEW i \in DOMAIN log' PROVE log'[i].at <= account'.last
    OBVIOUS
  <2>1. i \in DOMAIN log \/ i = new
    BY <1>n, <1>3
  <2> QED
    BY <1>2, <1>3, <1>4, <2>1
<1>6. ASSUME NEW tag \in Tags
      PROVE  account'.count[tag] = Cardinality(CountedItems(tag)')
  <2>1. IsFiniteSet(CountedItems(tag)) /\ account.count[tag] = Cardinality(CountedItems(tag))
        /\ Cardinality(CountedItems(tag)) \in Nat
    BY <1>0, CountedFinite, FS_CardinalityType DEF MassInv
  <2>2. CASE tag \in Unseen(account, thread, tags)
    <3>1. CountedItems(tag)' = CountedItems(tag) \cup {new} /\ new \notin CountedItems(tag)
      BY <1>0, <1>n, <2>2, CountedGrows
    <3>2. Cardinality(CountedItems(tag) \cup {new}) = Cardinality(CountedItems(tag)) + 1
      BY <2>1, <3>1, FS_AddElement
    <3>3. account'.count[tag] = account.count[tag] + 1
      BY <1>0, <2>2, SignalsCount
    <3> QED
      BY <2>1, <3>1, <3>2, <3>3
  <2>3. CASE tag \notin Unseen(account, thread, tags)
    <3>1. CountedItems(tag)' = CountedItems(tag)
      BY <1>0, <2>3, CountedGrows
    <3>2. account'.count[tag] = account.count[tag] + 0
      BY <1>0, <2>3, SignalsCount
    <3> QED
      BY <2>1, <3>1, <3>2
  <2> QED
    BY <2>2, <2>3
<1>7. ASSUME NEW tag \in Tags, NEW a \in Ages
      PROVE  account'.mass[tag][a] = Cardinality(Aged(tag, a)')
  <2> DEFINE e == Elapsed(account.last, account'.last)
             stored == Decayed(account.mass[tag], e)
             born == Elapsed(created, account'.last)
             kept == {i \in CountedItems(tag) : a + Since(i) <= account'.last}
  <2>1. e \in Nat /\ account'.last = account.last + e
    BY <1>2 DEF Elapsed
  <2>2. a \in Nat /\ 0 \in Ages /\ (a >= e => a - e \in Ages)
    BY <2>1, AgesMean
  <2>k. kept \subseteq CountedItems(tag) /\ IsFiniteSet(kept) /\ Cardinality(kept) \in Nat
    <3>1. kept \subseteq CountedItems(tag)
      OBVIOUS
    <3> QED
      BY <1>0, <3>1, CountedFinite, FS_Subset, FS_CardinalityType
  <2>i. \A i \in CountedItems(tag) : i \in DOMAIN log /\ Since(i) \in Nat /\ Since(i) <= account.last
                                    /\ Since(i)' = Since(i)
    BY <1>4 DEF CountedItems
  <2>3. stored[a] = Cardinality(kept)
    <3> DEFINE was == IF a < e THEN 0 ELSE a - e
    <3>1. was \in Ages /\ was \in Nat
      BY <2>1, <2>2
    <3>2. stored[a] = account.mass[tag][was]
      BY DEF Decayed
    <3>3. kept = Aged(tag, was)
      <4>1. ASSUME NEW i \in CountedItems(tag)
            PROVE  a + Since(i) <= account'.last <=> was + Since(i) <= account.last
        BY <1>2, <2>1, <2>2, <2>i
      <4> HIDE DEF was
      <4> QED
        BY <4>1 DEF Aged
    <3> HIDE DEF was, stored, kept
    <3> QED
      BY <3>1, <3>2, <3>3 DEF MassInv
  <2>4. Since(new)' = IF created < account'.last THEN created ELSE account'.last
    BY <1>3 DEF Since
  <2>5. a + Since(new)' <= account'.last <=> a <= born
    BY <1>0, <1>2, <2>2, <2>4 DEF Elapsed
  <2>6. stored \in [Ages -> Nat]
    <3>1. account.mass[tag] \in Mass
      BY <1>0 DEF TypeOK, Account
    <3> QED
      BY <2>1, <3>1, DecayedType DEF Mass
  <2>m. account'.mass[tag][a] =
          stored[a] + IF tag \in Unseen(account, thread, tags) /\ a <= born THEN 1 ELSE 0
    <3> HIDE DEF stored, born
    <3>1. account'.mass[tag] =
            [age \in Ages |-> stored[age] + IF tag \in Unseen(account, thread, tags) /\ age <= born
                                            THEN 1 ELSE 0]
      BY <1>0, SignalsMass DEF stored, born
    <3> QED
      BY <3>1
  <2>7. CASE tag \in Unseen(account, thread, tags)
    <3>1. CountedItems(tag)' = CountedItems(tag) \cup {new} /\ new \notin CountedItems(tag)
      BY <1>0, <1>n, <2>7, CountedGrows
    <3>3. CASE a <= born
      <4>1. Aged(tag, a)' = kept \cup {new}
        BY <2>5, <2>i, <3>1, <3>3 DEF Aged
      <4>2. Cardinality(kept \cup {new}) = Cardinality(kept) + 1
        BY <2>k, <3>1, FS_AddElement
      <4>3. account'.mass[tag][a] = stored[a] + 1
        BY <2>m, <2>7, <3>3
      <4> QED
        BY <2>3, <4>1, <4>2, <4>3
    <3>4. CASE ~(a <= born)
      <4>1. Aged(tag, a)' = kept
        BY <2>5, <2>i, <3>1, <3>4 DEF Aged
      <4>2. account'.mass[tag][a] = stored[a] + 0
        BY <2>m, <3>4
      <4> QED
        BY <2>3, <2>k, <4>1, <4>2
    <3> QED
      BY <3>3, <3>4
  <2>8. CASE tag \notin Unseen(account, thread, tags)
    <3>1. CountedItems(tag)' = CountedItems(tag)
      BY <1>0, <2>8, CountedGrows
    <3>2. account'.mass[tag][a] = stored[a] + 0
      BY <2>m, <2>8
    <3>3. Aged(tag, a)' = kept
      BY <2>i, <3>1 DEF Aged
    <3> QED
      BY <2>3, <2>k, <3>2, <3>3
  <2> QED
    BY <2>7, <2>8
<1> QED
  BY <1>1, <1>5, <1>6, <1>7 DEF MassInv

LEMMA MassNext == MassInv /\ [Next]_vars => MassInv'
<1> SUFFICES ASSUME MassInv, [Next]_vars PROVE MassInv'
  OBVIOUS
<1>1. TypeOK /\ TypeOK'
  BY TypeNext DEF MassInv
<1>2. CASE UNCHANGED <<account, log>>
  BY <1>1, <1>2 DEF MassInv, CountedItems, Aged, Since
<1> QED
  BY <1>1, <1>2, OnlySignals, MassSignals

LEMMA MassFits == MassInv => MassAsCounted
<1> SUFFICES ASSUME MassInv, NEW tag \in Tags
             PROVE  /\ account.count[tag] = Cardinality(CountedItems(tag))
                    /\ \A a \in Ages : account.mass[tag][a] =
                         Cardinality({i \in CountedItems(tag) :
                                        a + (IF log[i].created < log[i].at
                                             THEN log[i].created ELSE log[i].at)
                                          <= account.last})
  BY DEF MassAsCounted
<1>1. ASSUME NEW a \in Ages
      PROVE  Aged(tag, a) =
               {i \in CountedItems(tag) :
                  a + (IF log[i].created < log[i].at
                       THEN log[i].created ELSE log[i].at) <= account.last}
  BY DEF Aged, Since
<1> QED
  BY <1>1 DEF MassInv

(* The decay in process_signals, made call by call from one reading of     *)
(* the clock to the next, is that of every item from its own time on.      *)
THEOREM DecayIsExact == Spec => []MassAsCounted
BY MassInit, MassNext, MassFits, PTL DEF Spec

(***************************************************************************)
(* The repeat rule.  Everything counted that is younger than the records   *)
(* are kept for is on record, and nothing else is.                         *)
(***************************************************************************)
RepeatInv ==
  /\ TypeOK
  /\ \A x \in account.recent :
       /\ x.cp # NULL
       /\ \E i \in CountedItems(x.tag) : log[i].other = x.cp /\ log[i].created = x.ts
  /\ \A tag \in Tags : \A i \in CountedItems(tag) :
       log[i].other # NULL /\ log[i].created + RecentKeep >= account.last
         => [tag |-> tag, cp |-> log[i].other, ts |-> log[i].created] \in account.recent
  /\ RepeatedAsCounted

LEMMA RepeatInit == RepeatMin > 0 /\ Init => RepeatInv
<1> SUFFICES ASSUME RepeatMin > 0, Init PROVE RepeatInv
  OBVIOUS
<1>1. DOMAIN log = {} /\ account.recent = {} /\ account.repeated = {}
  BY DEF Init, NewAccount
<1>2. \A tag : CountedItems(tag) = {} /\ CountedFrom(tag) = {}
  BY <1>1 DEF CountedItems, CountedFrom
<1>3. {tag \in Tags : Cardinality(CountedFrom(tag)) >= RepeatMin} = {}
  BY <1>2, FS_EmptySet, Bounds
<1> QED
  BY <1>1, <1>2, <1>3, InitType DEF RepeatInv, RepeatedAsCounted

LEMMA RepeatSignals ==
  ASSUME RepeatInv, NEW thread, NEW tags, NEW other, NEW created, NEW reading,
         Called(thread, tags, other, created, reading)
  PROVE  RepeatInv'
<1>0. /\ TypeOK /\ Signals(thread, tags, other, created, reading) /\ created \in Nat
      /\ tags \in SUBSET Tags
  BY DEF RepeatInv, Called
<1>1. TypeOK'
  BY <1>0, SignalsType
<1>2. /\ account'.last \in Nat /\ account.last \in Nat /\ account'.last >= account.last
      /\ RepeatWindow \in Nat /\ RecentKeep \in Nat /\ RepeatWindow <= RecentKeep
  BY <1>0, SignalsAccount, Bounds
<1>n. PICK new : new = Len(log) + 1
  OBVIOUS
<1>3. /\ Len(log) \in Nat
      /\ DOMAIN log = 1 .. Len(log) /\ DOMAIN log' = 1 .. new
      /\ \A i \in DOMAIN log : log'[i] = log[i]
      /\ log'[new].other = other /\ log'[new].created = created
  BY <1>0, <1>n, LogGrows
<1>4. \A i \in DOMAIN log : log[i].created \in Nat
  BY <1>0, EntryType
<1>u. \A tag \in Unseen(account, thread, tags) : tag \in Tags
  BY <1>0 DEF Unseen
<1>5. \A tag :
        /\ tag \in Unseen(account, thread, tags) => CountedItems(tag)' = CountedItems(tag) \cup {new}
        /\ tag \notin Unseen(account, thread, tags) => CountedItems(tag)' = CountedItems(tag)
        /\ CountedItems(tag) \subseteq DOMAIN log
  BY <1>0, <1>n, CountedGrows DEF CountedItems
<1> DEFINE recent == Recent(account, thread, tags, other, created)
(* Before it is pruned.                                                    *)
<1>6. \A x \in recent :
        /\ x.cp # NULL
        /\ \E i \in CountedItems(x.tag)' : log'[i].other = x.cp /\ log'[i].created = x.ts
  <2> SUFFICES ASSUME NEW x \in recent
               PROVE  /\ x.cp # NULL
                      /\ \E i \in CountedItems(x.tag)' :
                           log'[i].other = x.cp /\ log'[i].created = x.ts
    OBVIOUS
  <2>1. CASE x \in account.recent
    <3>1. x.cp # NULL
      BY <2>1 DEF RepeatInv
    <3>2. PICK i \in CountedItems(x.tag) : log[i].other = x.cp /\ log[i].created = x.ts
      BY <2>1 DEF RepeatInv
    <3>3. i \in CountedItems(x.tag)' /\ log'[i] = log[i]
      BY <1>3, <1>5, <3>2
    <3> QED
      BY <3>1, <3>2, <3>3
  <2>2. CASE x \notin account.recent
    <3>1. other # NULL
      BY <2>2 DEF Recent
    <3>2. PICK tag \in Unseen(account, thread, tags) : x = [tag |-> tag, cp |-> other, ts |-> created]
      BY <2>2 DEF Recent
    <3>3. x.tag = tag /\ x.cp = other /\ x.ts = created
      BY <3>2
    <3>4. new \in CountedItems(tag)'
      BY <1>5, <3>2
    <3> QED
      BY <1>3, <3>1, <3>3, <3>4
  <2> QED
    BY <2>1, <2>2
<1>7. ASSUME NEW tag \in Tags, NEW i \in CountedItems(tag)',
             log'[i].other # NULL, log'[i].created + RecentKeep >= account'.last
      PROVE  [tag |-> tag, cp |-> log'[i].other, ts |-> log'[i].created] \in recent
  <2>1. CASE i \in CountedItems(tag)
    <3>1. i \in DOMAIN log /\ log'[i] = log[i] /\ log[i].created \in Nat
      BY <1>3, <1>4, <1>5, <2>1
    <3>2. log[i].created + RecentKeep >= account.last
      BY <1>2, <1>7, <3>1
    <3>3. [tag |-> tag, cp |-> log[i].other, ts |-> log[i].created] \in account.recent
      BY <1>7, <2>1, <3>1, <3>2 DEF RepeatInv
    <3> QED
      BY <3>1, <3>3 DEF Recent
  <2>2. CASE i \notin CountedItems(tag)
    <3>1. i = new /\ tag \in Unseen(account, thread, tags)
      BY <1>5, <1>7, <2>2
    <3>2. log'[i].other = other /\ log'[i].created = created /\ other # NULL
      BY <1>3, <1>7, <3>1
    <3> QED
      BY <3>1, <3>2 DEF Recent
  <2> QED
    BY <2>1, <2>2
<1>8. /\ account'.recent = {x \in recent : x.ts + RecentKeep >= account'.last}
      /\ account'.repeated = Repeated(recent, account'.last)
  BY <1>0, SignalsRecent
<1> HIDE DEF recent
<1>9. ASSUME NEW tag \in Tags
      PROVE  CountedFrom(tag)' = {x.cp : x \in {x \in recent : x.tag = tag
                                       /\ x.ts + RepeatWindow >= account'.last}}
  <2> DEFINE inWindow == {x \in recent : x.tag = tag /\ x.ts + RepeatWindow >= account'.last}
  <2>1. ASSUME NEW c \in CountedFrom(tag)' PROVE c \in {x.cp : x \in inWindow}
    <3>1. PICK i \in CountedItems(tag)' : /\ log'[i].created + RepeatWindow >= account'.last
                                          /\ log'[i].other = c /\ c # NULL
      BY <2>1 DEF CountedFrom
    <3>2. log'[i].created \in Nat
      BY <1>0, <1>1, <1>3, <1>4, <1>5, <3>1
    <3>3. log'[i].created + RecentKeep >= account'.last
      BY <1>2, <3>1, <3>2
    <3>4. PICK x : x = [tag |-> tag, cp |-> log'[i].other, ts |-> log'[i].created]
      OBVIOUS
    <3>5. x \in recent /\ x.tag = tag /\ x.cp = c /\ x.ts = log'[i].created
      BY <1>7, <3>1, <3>3, <3>4
    <3> QED
      BY <3>1, <3>5
  <2>2. ASSUME NEW x \in inWindow PROVE x.cp \in CountedFrom(tag)'
    <3>1. PICK i \in CountedItems(tag)' : log'[i].other = x.cp /\ log'[i].created = x.ts
      BY <1>6, <2>2
    <3> QED
      BY <1>6, <2>2, <3>1 DEF CountedFrom
  <2> QED
    BY <2>1, <2>2
<1>10. RepeatedAsCounted'
  <2>1. Repeated(recent, account'.last) =
          {tag \in Tags : Cardinality(CountedFrom(tag)') >= RepeatMin}
    BY <1>9 DEF Repeated
  <2> QED
    BY <1>8, <2>1 DEF RepeatedAsCounted
<1>11. \A x \in account'.recent :
         /\ x.cp # NULL
         /\ \E i \in CountedItems(x.tag)' : log'[i].other = x.cp /\ log'[i].created = x.ts
  BY <1>6, <1>8
<1>12. \A tag \in Tags : \A i \in CountedItems(tag)' :
         log'[i].other # NULL /\ log'[i].created + RecentKeep >= account'.last
           => [tag |-> tag, cp |-> log'[i].other, ts |-> log'[i].created] \in account'.recent
  BY <1>7, <1>8
<1> QED
  BY <1>1, <1>10, <1>11, <1>12 DEF RepeatInv

LEMMA RepeatNext == RepeatInv /\ [Next]_vars => RepeatInv'
<1> SUFFICES ASSUME RepeatInv, [Next]_vars PROVE RepeatInv'
  OBVIOUS
<1>1. TypeOK /\ TypeOK'
  BY TypeNext DEF RepeatInv
<1>2. CASE UNCHANGED <<account, log>>
  BY <1>1, <1>2 DEF RepeatInv, RepeatedAsCounted, CountedItems, CountedFrom
<1> QED
  BY <1>1, <1>2, OnlySignals, RepeatSignals

(* repeatedAcross is what the repeat rule makes of everything ever counted *)
(* although process_signals prunes its records at each call.               *)
THEOREM RepeatIsExact ==
  ASSUME RepeatMin > 0
  PROVE  Spec => []RepeatedAsCounted
<1>1. RepeatInv => RepeatedAsCounted
  BY DEF RepeatInv
<1>2. RepeatMin > 0
  OBVIOUS
<1> QED
  BY <1>1, <1>2, RepeatInit, RepeatNext, PTL DEF Spec

(***************************************************************************)
(* Once per conversation.  A tag that was counted for a thread is on its   *)
(* record, or the record has been quiet for longer than it is kept since.  *)
(***************************************************************************)
SameThread(i, j) == log[i].thread = log[j].thread

(* Nothing was seen of the thread of i for SeenKeep after some k >= i.     *)
Gone(i) ==
  \E k \in DOMAIN log :
    /\ i <= k /\ SameThread(k, i)
    /\ log[k].at + SeenKeep < account.last
    /\ \A l \in DOMAIN log : k < l /\ SameThread(l, i) => log[k].at + SeenKeep < log[l].at

(* The record of the thread of i carries the time of its last call.        *)
Stamped(i) ==
  \E k \in DOMAIN log :
    /\ i <= k /\ SameThread(k, i)
    /\ log[k].at = account.touched[log[i].thread]
    /\ \A l \in DOMAIN log : k < l => ~SameThread(l, i)

QuietFrom(i, j) ==
  \E k \in DOMAIN log :
    /\ i <= k /\ k < j /\ SameThread(k, j)
    /\ \A l \in DOMAIN log : k < l /\ l <= j /\ SameThread(l, j)
                            => log[k].at + SeenKeep < log[l].at

(* OncePerConversation of one call and tag.                                *)
OnceAt(j, tag) ==
  IF tag \in log[j].counted
  THEN \A i \in DOMAIN log : i < j /\ SameThread(i, j) /\ tag \in log[i].counted => QuietFrom(i, j)
  ELSE \E i \in DOMAIN log : i < j /\ SameThread(i, j) /\ tag \in log[i].counted

OnceInv ==
  /\ TypeOK
  /\ \A t \in Threads : \A tag \in account.seen[t] :
       \E i \in DOMAIN log : log[i].thread = t /\ tag \in log[i].counted
  /\ \A i \in DOMAIN log : Stamped(i)
  /\ \A i \in DOMAIN log : \A tag \in log[i].counted :
       tag \in account.seen[log[i].thread] \/ Gone(i)
  /\ \A j \in DOMAIN log : \A tag \in log[j].tags : OnceAt(j, tag)

LEMMA OnceInit == Init => OnceInv
<1> SUFFICES ASSUME Init PROVE OnceInv
  OBVIOUS
<1>1. DOMAIN log = {} /\ \A t \in Threads : account.seen[t] = {}
  BY DEF Init, NewAccount
<1> QED
  BY <1>1, InitType DEF OnceInv

LEMMA OnceSignals ==
  ASSUME OnceInv, NEW thread, NEW tags, NEW other, NEW created, NEW reading,
         Called(thread, tags, other, created, reading)
  PROVE  OnceInv'
<1>0. /\ TypeOK /\ Signals(thread, tags, other, created, reading)
      /\ thread \in Threads /\ tags \in SUBSET Tags
  BY DEF OnceInv, Called
<1>1. TypeOK'
  BY <1>0, SignalsType
<1>2. /\ account'.last \in Nat /\ account.last \in Nat /\ account'.last >= account.last
      /\ SeenKeep \in Nat
  BY <1>0, SignalsAccount, Bounds
<1>n. PICK new : new = Len(log) + 1
  OBVIOUS
<1>3. /\ new \in Nat /\ new - 1 \in Nat
      /\ DOMAIN log = 1 .. (new - 1) /\ DOMAIN log' = 1 .. new
      /\ \A i \in DOMAIN log : log'[i] = log[i]
      /\ log'[new].thread = thread /\ log'[new].tags = tags
      /\ log'[new].counted = Unseen(account, thread, tags) /\ log'[new].at = account'.last
  BY <1>0, <1>n, LogGrows
<1>d. /\ \A i : i \in DOMAIN log' <=> i \in DOMAIN log \/ i = new
      /\ \A i \in DOMAIN log : i \in Nat /\ i < new /\ ~(new <= i) /\ i <= new
      /\ new <= new /\ ~(new < new) /\ new \in DOMAIN log'
  <2>1. \A i : i \in 1 .. new <=> i \in 1 .. (new - 1) \/ i = new
    BY <1>3
  <2>2. \A i \in 1 .. (new - 1) : i \in Nat /\ i < new /\ ~(new <= i) /\ i <= new
    BY <1>3
  <2>3. new <= new /\ ~(new < new) /\ new \in 1 .. new
    BY <1>3
  <2> QED
    BY <1>3, <2>1, <2>2, <2>3
<1>4. \A i \in DOMAIN log : log[i].thread \in Threads /\ log[i].at \in Nat
  BY <1>0, EntryType DEF Entry
<1>5. account'.seen[thread] = account.seen[thread] \cup tags
      /\ account'.touched[thread] = account'.last
      /\ \A t \in Threads \ {thread} : account'.touched[t] = account.touched[t]
  <2>1. account.touched \in [Threads -> Nat]
    BY <1>0 DEF TypeOK, Account
  <2>2. account'.touched = [account.touched EXCEPT ![thread] = account'.last]
    BY <1>0, SignalsSeen
  <2>3. account'.touched[thread] = account'.last
        /\ \A t \in Threads \ {thread} : account'.touched[t] = account.touched[t]
    BY <1>0, <2>1, <2>2
  <2>4. ~(account'.touched[thread] + SeenKeep < account'.last)
    BY <1>2, <2>3
  <2>5. account'.seen[thread] = IF account'.touched[thread] + SeenKeep < account'.last THEN {}
                                ELSE IF thread = thread THEN account.seen[thread] \cup tags
                                ELSE account.seen[thread]
    BY <1>0, SignalsSeen
  <2> QED
    BY <2>3, <2>4, <2>5
<1>6. \A t \in Threads \ {thread} :
        account'.seen[t] = IF account.touched[t] + SeenKeep < account'.last THEN {}
                           ELSE account.seen[t]
  <2>1. \A t \in Threads \ {thread} :
          account'.seen[t] = IF account'.touched[t] + SeenKeep < account'.last THEN {}
                             ELSE IF t = thread THEN account.seen[t] \cup tags
                             ELSE account.seen[t]
    BY <1>0, SignalsSeen
  <2> QED
    BY <1>5, <2>1
<1>s. /\ \A i, j \in DOMAIN log : SameThread(i, j)' <=> SameThread(i, j)
      /\ \A i \in DOMAIN log : (SameThread(new, i)' <=> log[i].thread = thread)
                             /\ (SameThread(i, new)' <=> log[i].thread = thread)
      /\ SameThread(new, new)'
  <2>1. new' = new
    OBVIOUS
  <2> QED
    BY <1>3, <2>1 DEF SameThread
(* The parts of the invariant, one by one.                                 *)
<1>7. ASSUME NEW t \in Threads, NEW tag \in account'.seen[t]
      PROVE  \E i \in DOMAIN log' : log'[i].thread = t /\ tag \in log'[i].counted
  <2>1. CASE tag \in account.seen[t]
    <3>1. PICK i \in DOMAIN log : log[i].thread = t /\ tag \in log[i].counted
      BY <2>1 DEF OnceInv
    <3> QED
      BY <1>3, <1>d, <3>1
  <2>2. CASE tag \notin account.seen[t]
    <3>1. t = thread
      BY <1>6, <1>7, <2>2
    <3>2. tag \in Unseen(account, thread, tags)
      BY <1>5, <1>7, <2>2, <3>1 DEF Unseen
    <3> QED
      BY <1>3, <1>d, <3>1, <3>2
  <2> QED
    BY <2>1, <2>2
<1>8. ASSUME NEW i \in DOMAIN log' PROVE Stamped(i)'
  <2>1. CASE i = new \/ log[i].thread = thread
    <3>1. log'[i].thread = thread /\ i <= new /\ SameThread(new, i)'
      BY <1>3, <1>d, <1>s, <1>8, <2>1
    <3>2. log'[new].at = account'.touched[log'[i].thread]
      BY <1>3, <1>5, <3>1
    <3>3. \A l \in DOMAIN log' : ~(new < l)
      BY <1>3
    <3> QED
      BY <1>d, <3>1, <3>2, <3>3 DEF Stamped
  <2>2. CASE i # new /\ log[i].thread # thread
    <3>1. i \in DOMAIN log
      BY <1>d, <1>8, <2>2
    <3>2. PICK k \in DOMAIN log :
            /\ i <= k /\ SameThread(k, i)
            /\ log[k].at = account.touched[log[i].thread]
            /\ \A l \in DOMAIN log : k < l => ~SameThread(l, i)
      BY <3>1 DEF OnceInv, Stamped
    <3>3. log'[k].at = account'.touched[log'[i].thread]
      BY <1>3, <1>4, <1>5, <2>2, <3>1, <3>2
    <3>4. \A l \in DOMAIN log' : k < l => ~SameThread(l, i)'
      BY <1>d, <1>s, <2>2, <3>1, <3>2
    <3>5. k \in DOMAIN log' /\ SameThread(k, i)'
      BY <1>d, <1>s, <3>1, <3>2
    <3> QED
      BY <3>2, <3>3, <3>4, <3>5 DEF Stamped
  <2> QED
    BY <2>1, <2>2
<1>9. ASSUME NEW i \in DOMAIN log', NEW tag \in log'[i].counted
      PROVE  tag \in account'.seen[log'[i].thread] \/ Gone(i)'
  <2>1. CASE i = new
    BY <1>3, <1>5, <1>9, <2>1 DEF Unseen
  <2>2. CASE i # new
    <3>1. i \in DOMAIN log /\ log'[i] = log[i] /\ tag \in log[i].counted
          /\ log[i].thread \in Threads
      BY <1>3, <1>4, <1>d, <1>9, <2>2
    <3>2. CASE Gone(i)
      <4>1. PICK k \in DOMAIN log :
              /\ i <= k /\ SameThread(k, i)
              /\ log[k].at + SeenKeep < account.last
              /\ \A l \in DOMAIN log : k < l /\ SameThread(l, i)
                                       => log[k].at + SeenKeep < log[l].at
        BY <3>2 DEF Gone
      <4>2. log'[k].at = log[k].at /\ log[k].at + SeenKeep < account'.last
        BY <1>2, <1>3, <1>4, <4>1
      <4>3. \A l \in DOMAIN log' : k < l /\ SameThread(l, i)'
                                   => log'[k].at + SeenKeep < log'[l].at
        BY <1>3, <1>d, <1>s, <3>1, <4>1, <4>2
      <4>4. k \in DOMAIN log' /\ SameThread(k, i)'
        BY <1>d, <1>s, <3>1, <4>1
      <4> QED
        BY <4>1, <4>2, <4>3, <4>4 DEF Gone
    <3>3. CASE tag \in account.seen[log[i].thread] /\ log[i].thread = thread
      BY <1>5, <3>1, <3>3
    <3>4. CASE tag \in account.seen[log[i].thread] /\ log[i].thread # thread
      <4>1. PICK k \in DOMAIN log :
              /\ i <= k /\ SameThread(k, i)
              /\ log[k].at = account.touched[log[i].thread]
              /\ \A l \in DOMAIN log : k < l => ~SameThread(l, i)
        BY <3>1 DEF OnceInv, Stamped
      <4>2. CASE account.touched[log[i].thread] + SeenKeep < account'.last
        <5>1. log'[k].at + SeenKeep < account'.last
          BY <1>3, <4>1, <4>2
        <5>2. \A l \in DOMAIN log' : k < l => ~SameThread(l, i)'
          BY <1>d, <1>s, <3>1, <3>4, <4>1
        <5>3. k \in DOMAIN log' /\ SameThread(k, i)'
          BY <1>d, <1>s, <3>1, <4>1
        <5> QED
          BY <4>1, <5>1, <5>2, <5>3 DEF Gone
      <4>3. CASE ~(account.touched[log[i].thread] + SeenKeep < account'.last)
        BY <1>6, <3>1, <3>4, <4>3
      <4> QED
        BY <4>2, <4>3
    <3>5. tag \in account.seen[log[i].thread] \/ Gone(i)
      BY <3>1 DEF OnceInv
    <3> QED
      BY <3>2, <3>3, <3>4, <3>5
  <2> QED
    BY <2>1, <2>2
<1>10. ASSUME NEW j \in DOMAIN log', NEW tag \in log'[j].tags
       PROVE  OnceAt(j, tag)'
  <2>1. CASE j # new
    <3>1. j \in DOMAIN log /\ log'[j] = log[j] /\ tag \in log[j].tags
      BY <1>3, <1>d, <1>10, <2>1
    <3>2. OnceAt(j, tag)
      BY <3>1 DEF OnceInv
    <3>3. ASSUME NEW i \in DOMAIN log, QuietFrom(i, j) PROVE QuietFrom(i, j)'
      <4>1. PICK k \in DOMAIN log :
              /\ i <= k /\ k < j /\ SameThread(k, j)
              /\ \A l \in DOMAIN log : k < l /\ l <= j /\ SameThread(l, j)
                                       => log[k].at + SeenKeep < log[l].at
        BY <3>3 DEF QuietFrom
      <4>2. \A l \in DOMAIN log' : k < l /\ l <= j /\ SameThread(l, j)'
                                   => log'[k].at + SeenKeep < log'[l].at
        BY <1>3, <1>d, <1>s, <3>1, <4>1
      <4>3. k \in DOMAIN log' /\ SameThread(k, j)'
        BY <1>d, <1>s, <3>1, <4>1
      <4> QED
        BY <4>1, <4>2, <4>3 DEF QuietFrom
    <3>4. \A i \in DOMAIN log' : i < j => i \in DOMAIN log
      BY <1>3, <1>d, <3>1
    <3>5. CASE tag \in log[j].counted
      <4>1. ASSUME NEW i \in DOMAIN log', i < j, SameThread(i, j)', tag \in log'[i].counted
            PROVE  QuietFrom(i, j)'
        <5>1. i \in DOMAIN log /\ SameThread(i, j) /\ tag \in log[i].counted
          BY <1>3, <1>s, <3>1, <3>4, <4>1
        <5> QED
          BY <3>2, <3>3, <3>5, <4>1, <5>1 DEF OnceAt
      <4>2. tag \in log'[j].counted
        BY <3>1, <3>5
      <4> QED
        BY <4>1, <4>2 DEF OnceAt
    <3>6. CASE tag \notin log[j].counted
      <4>1. PICK i \in DOMAIN log : i < j /\ SameThread(i, j) /\ tag \in log[i].counted
        BY <3>2, <3>6 DEF OnceAt
      <4>2. i \in DOMAIN log' /\ SameThread(i, j)' /\ tag \in log'[i].counted
        BY <1>3, <1>d, <1>s, <3>1, <4>1
      <4>3. tag \notin log'[j].counted
        BY <3>1, <3>6
      <4> QED
        BY <4>1, <4>2, <4>3 DEF OnceAt
    <3> QED
      BY <3>5, <3>6
  <2>2. CASE j = new
    <3>1. log'[j].thread = thread /\ tag \in tags
          /\ log'[j].counted = Unseen(account, thread, tags) /\ log'[j].at = account'.last
      BY <1>3, <1>10, <2>2
    <3>2. CASE tag \in Unseen(account, thread, tags)
      <4>1. ASSUME NEW i \in DOMAIN log', i < j, SameThread(i, j)', tag \in log'[i].counted
            PROVE  QuietFrom(i, j)'
        <5>1. i \in DOMAIN log /\ log[i].thread = thread /\ tag \in log[i].counted
          BY <1>3, <1>d, <1>s, <2>2, <4>1
        <5>2. Gone(i)
          BY <3>2, <5>1 DEF OnceInv, Unseen
        <5>3. PICK k \in DOMAIN log :
                /\ i <= k /\ SameThread(k, i)
                /\ log[k].at + SeenKeep < account.last
                /\ \A l \in DOMAIN log : k < l /\ SameThread(l, i)
                                         => log[k].at + SeenKeep < log[l].at
          BY <5>2 DEF Gone
        <5>4. k < j /\ log[k].thread = thread /\ SameThread(k, j)' /\ k \in DOMAIN log'
          BY <1>d, <1>s, <2>2, <5>1, <5>3 DEF SameThread
        <5>5. log'[k].at = log[k].at /\ log[k].at + SeenKeep < account'.last
          BY <1>2, <1>3, <1>4, <5>3
        <5>6. ASSUME NEW l \in DOMAIN log', k < l, SameThread(l, j)'
              PROVE  log'[k].at + SeenKeep < log'[l].at
          <6>1. CASE l = new
            BY <1>3, <5>5, <6>1
          <6>2. CASE l # new
            <7>1. l \in DOMAIN log /\ log'[l] = log[l] /\ SameThread(l, i)
              BY <1>3, <1>d, <1>s, <2>2, <5>1, <5>6, <6>2 DEF SameThread
            <7> QED
              BY <5>3, <5>5, <5>6, <7>1
          <6> QED
            BY <6>1, <6>2
        <5> QED
          BY <5>3, <5>4, <5>6 DEF QuietFrom
      <4>2. tag \in log'[j].counted
        BY <3>1, <3>2
      <4> QED
        BY <4>1, <4>2 DEF OnceAt
    <3>3. CASE tag \notin Unseen(account, thread, tags)
      <4>1. tag \in account.seen[thread]
        BY <3>1, <3>3 DEF Unseen
      <4>2. PICK i \in DOMAIN log : log[i].thread = thread /\ tag \in log[i].counted
        BY <1>0, <4>1 DEF OnceInv
      <4>3. i \in DOMAIN log' /\ i < j /\ SameThread(i, j)' /\ tag \in log'[i].counted
        BY <1>3, <1>d, <1>s, <2>2, <4>2
      <4>4. tag \notin log'[j].counted
        BY <3>1, <3>3
      <4> QED
        BY <4>3, <4>4 DEF OnceAt
    <3> QED
      BY <3>2, <3>3
  <2> QED
    BY <2>1, <2>2
<1> QED
  BY <1>1, <1>7, <1>8, <1>9, <1>10 DEF OnceInv

LEMMA OnceNext == OnceInv /\ [Next]_vars => OnceInv'
<1> SUFFICES ASSUME OnceInv, [Next]_vars PROVE OnceInv'
  OBVIOUS
<1>1. TypeOK /\ TypeOK'
  BY TypeNext DEF OnceInv
<1>2. CASE UNCHANGED <<account, log>>
  BY <1>1, <1>2 DEF OnceInv, Stamped, Gone, OnceAt, QuietFrom, SameThread
<1> QED
  BY <1>1, <1>2, OnlySignals, OnceSignals

LEMMA OnceFits == OnceInv => OncePerConversation
<1> SUFFICES ASSUME OnceInv, NEW j \in DOMAIN log, NEW tag \in log[j].tags
             PROVE  LET seenIn == {i \in 1 .. j : log[i].thread = log[j].thread}
                        counted == {i \in seenIn : i < j /\ tag \in log[i].counted}
                        quiet(i) == \E k \in i .. (j - 1) \cap seenIn :
                                      \A l \in (k + 1) .. j \cap seenIn :
                                        log[k].at + SeenKeep < log[l].at
                    IN  IF tag \in log[j].counted THEN \A i \in counted : quiet(i)
                        ELSE counted # {}
  BY DEF OncePerConversation
<1> DEFINE seenIn == {i \in 1 .. j : log[i].thread = log[j].thread}
           counted == {i \in seenIn : i < j /\ tag \in log[i].counted}
           quiet(i) == \E k \in i .. (j - 1) \cap seenIn :
                         \A l \in (k + 1) .. j \cap seenIn : log[k].at + SeenKeep < log[l].at
<1>1. Len(log) \in Nat /\ DOMAIN log = 1 .. Len(log) /\ j \in 1 .. Len(log)
  BY DEF OnceInv, TypeOK
<1>2. \A i : i \in seenIn <=> i \in DOMAIN log /\ i <= j /\ SameThread(i, j)
  BY <1>1 DEF SameThread
<1>3. OnceAt(j, tag)
  BY DEF OnceInv
<1> HIDE DEF seenIn
<1>4. ASSUME NEW i \in DOMAIN log, QuietFrom(i, j) PROVE quiet(i)
  <2>1. PICK k \in DOMAIN log :
          /\ i <= k /\ k < j /\ SameThread(k, j)
          /\ \A l \in DOMAIN log : k < l /\ l <= j /\ SameThread(l, j)
                                   => log[k].at + SeenKeep < log[l].at
    BY <1>4 DEF QuietFrom
  <2>2. k \in i .. (j - 1) /\ k \in seenIn
    BY <1>1, <1>2, <1>4, <2>1
  <2>3. \A l \in (k + 1) .. j \cap seenIn : log[k].at + SeenKeep < log[l].at
    BY <1>1, <1>2, <2>1
  <2> QED
    BY <2>2, <2>3
<1>5. CASE tag \in log[j].counted
  <2>1. \A i \in counted : quiet(i)
    <3> SUFFICES ASSUME NEW i \in counted PROVE quiet(i)
      OBVIOUS
    <3>1. i \in DOMAIN log /\ i < j /\ SameThread(i, j) /\ tag \in log[i].counted
      BY <1>2
    <3> HIDE DEF quiet
    <3> QED
      BY <1>3, <1>4, <1>5, <3>1 DEF OnceAt
  <2> QED
    BY <1>5, <2>1 DEF seenIn
<1>6. CASE tag \notin log[j].counted
  <2>1. PICK i \in DOMAIN log : i < j /\ SameThread(i, j) /\ tag \in log[i].counted
    BY <1>3, <1>6 DEF OnceAt
  <2>2. i \in counted
    BY <1>1, <1>2, <2>1
  <2> QED
    BY <1>6, <2>2 DEF seenIn
<1> QED
  BY <1>5, <1>6

(* A tag counts once for a conversation, and again only when nothing was   *)
(* seen of the conversation for longer than its record is kept             *)
(* (the convSeen of process_signals).                                      *)
THEOREM CountedOncePerConversation == Spec => []OncePerConversation
BY OnceInit, OnceNext, OnceFits, PTL DEF Spec

(***************************************************************************)
(* The reputation.  Read(r) is when review r begins to decay, and between  *)
(* its true age and that age plus drift lies the age it has in rep.        *)
(***************************************************************************)
Read(r) == IF Written[r] < folded[r] THEN Written[r] ELSE folded[r]

LEMMA ReviewSets ==
  ASSUME NEW S \in SUBSET Reviews
  PROVE  /\ IsFiniteSet(S) /\ Cardinality(S) \in Nat
         /\ \A U \in SUBSET S : /\ IsFiniteSet(U) /\ Cardinality(U) \in Nat
                                /\ Cardinality(U) <= Cardinality(S)
<1>1. IsFiniteSet(S)
  BY EvidenceAssumption, FS_Subset
<1> QED
  BY <1>1, FS_Subset, FS_CardinalityType

LEMMA DisjointReviews ==
  ASSUME NEW S \in SUBSET Reviews, NEW U \in SUBSET Reviews, S \cap U = {}
  PROVE  Cardinality(S \cup U) = Cardinality(S) + Cardinality(U)
<1>1. IsFiniteSet(S) /\ IsFiniteSet(U) /\ Cardinality(S) \in Nat /\ Cardinality(U) \in Nat
  BY ReviewSets
<1>2. Cardinality(S \cup U) = Cardinality(S) + Cardinality(U) - Cardinality(S \cap U)
  BY <1>1, FS_Union
<1>3. Cardinality(S \cap U) = 0
  BY FS_EmptySet
<1> QED
  BY <1>1, <1>2, <1>3

LEMMA ReadType ==
  ASSUME TypeOK, NEW r \in Folded
  PROVE  r \in Reviews /\ Read(r) \in Nat /\ folded[r] \in Nat
BY Bounds DEF TypeOK, Folded, Read

FoldInv == TypeOK /\ ReputationAsFolded

LEMMA ReputationInit == Init => FoldInv
<1> SUFFICES ASSUME Init PROVE FoldInv
  OBVIOUS
<1>1. Folded = {}
  BY DEF Init, Folded
<1>2. /\ Folded \ Blank = {} /\ Folded \cap Tagged = {}
      /\ \A age \in Ages : FoldedTagged(age) = {} /\ FoldedTagged(age - drift) = {}
  BY <1>1 DEF FoldedTagged
<1>3. rep.total = 0 /\ rep.count = 0 /\ \A age \in Ages : rep.mass[age] = 0
  BY DEF Init, NewReputation, NoMass
<1>4. 0 \in Ages
  BY AgesMean
<1>5. 0 <= 0
  OBVIOUS
<1> QED
  BY <1>2, <1>3, <1>4, <1>5, InitType, FS_EmptySet DEF FoldInv, ReputationAsFolded

(* Of the reviews that count, those that a fold of G at time now leaves or *)
(* makes at least a old: the old ones by what they were before, the new    *)
(* ones by when they were written.                                         *)
LEMMA FoldedGrows ==
  ASSUME TypeOK, NEW G \in SUBSET Reviews, NEW now \in Readings, Reputed(G, now)
  PROVE  /\ Folded' = Folded \cup G /\ Folded \cap G = {}
         /\ Folded \subseteq Reviews
         /\ \A r \in Folded : Read(r)' = Read(r)
         /\ \A r \in G : Read(r)' = IF Written[r] < now THEN Written[r] ELSE now
         /\ rep'.last = now /\ now \in Nat
         /\ rep'.total = rep.total + Cardinality(G \ Blank)
         /\ rep'.count = rep.count + Cardinality(G \cap Tagged)
         /\ drift' = drift + Elapsed(now, rep.last)
<1>1. now \in Nat /\ now # NULL
  BY ReadingType, Bounds
<1>2. folded' = [r \in Reviews |-> IF r \in G THEN now ELSE folded[r]]
  BY DEF Reputed
<1>3. G \cap Folded = {} /\ Folded \subseteq Reviews
  BY DEF Reputed, Folded
<1>4. Folded' = Folded \cup G
  BY <1>1, <1>2, <1>3 DEF Folded
<1>5. \A r \in Folded : Read(r)' = Read(r)
  BY <1>2, <1>3 DEF Read
<1>6. \A r \in G : Read(r)' = IF Written[r] < now THEN Written[r] ELSE now
  BY <1>2 DEF Read
<1> QED
  BY <1>1, <1>3, <1>4, <1>5, <1>6 DEF Reputed

LEMMA ReputationReputed ==
  ASSUME FoldInv, NEW G \in SUBSET Reviews, NEW now \in Readings, Reputed(G, now)
  PROVE  FoldInv'
<1>0. TypeOK /\ TypeOK'
  BY ReputedType DEF FoldInv
<1>1. /\ Folded' = Folded \cup G /\ Folded \cap G = {}
      /\ Folded \subseteq Reviews
      /\ \A r \in Folded : Read(r)' = Read(r)
      /\ \A r \in G : Read(r)' = IF Written[r] < now THEN Written[r] ELSE now
      /\ rep'.last = now /\ now \in Nat
      /\ rep'.total = rep.total + Cardinality(G \ Blank)
      /\ rep'.count = rep.count + Cardinality(G \cap Tagged)
      /\ drift' = drift + Elapsed(now, rep.last)
  BY <1>0, FoldedGrows
<1>2. rep.last \in Nat /\ drift \in Nat /\ rep.mass \in Mass /\ rep.count \in Nat
  BY <1>0 DEF TypeOK, Reputation
<1> DEFINE e == Elapsed(rep.last, now)
           d == Elapsed(now, rep.last)
           N == G \cap Tagged
           O == Folded \cap Tagged
           was(a) == IF a < e THEN 0 ELSE a - e
           born(a) == {r \in N : a <= Elapsed(Written[r], now)}
           old(a) == {r \in O : a + Read(r) <= now}
<1>3. e \in Nat /\ d \in Nat /\ now + d = rep.last + e /\ (e = 0 \/ d = 0)
  BY <1>1, <1>2 DEF Elapsed
<1>4. rep'.total = Cardinality(Folded' \ Blank) /\ rep'.count = Cardinality(Folded' \cap Tagged)
  <2>1. Folded' \ Blank = (Folded \ Blank) \cup (G \ Blank)
        /\ Folded' \cap Tagged = O \cup N
    BY <1>1
  <2>2. /\ Cardinality((Folded \ Blank) \cup (G \ Blank))
             = Cardinality(Folded \ Blank) + Cardinality(G \ Blank)
        /\ Cardinality(O \cup N) = Cardinality(O) + Cardinality(N)
    BY <1>1, DisjointReviews
  <2>3. rep.total = Cardinality(Folded \ Blank) /\ rep.count = Cardinality(O)
    BY DEF FoldInv, ReputationAsFolded
  <2> QED
    BY <1>1, <2>1, <2>2, <2>3
<1>5. \A a \in Ages : /\ rep'.mass[a] = rep.mass[was(a)] + Cardinality(born(a))
                      /\ was(a) \in Ages /\ was(a) \in Nat /\ was(a) >= a - e
                      /\ a \in Nat
  <2> SUFFICES ASSUME NEW a \in Ages
               PROVE  /\ rep'.mass[a] = rep.mass[was(a)] + Cardinality(born(a))
                      /\ was(a) \in Ages /\ was(a) \in Nat /\ was(a) >= a - e
                      /\ a \in Nat
    OBVIOUS
  <2>1. rep'.mass = DecayedThenFolded(rep.mass, e, N, now)
    BY DEF Reputed
  <2>2. a \in Nat /\ 0 \in Ages /\ \A b \in 0 .. a : b \in Ages
    BY AgesMean
  <2>3. was(a) \in Ages /\ was(a) \in Nat /\ was(a) >= a - e
    <3>1. e \in Nat
      BY <1>3
    <3> HIDE DEF e
    <3> QED
      BY <2>2, <3>1
  <2>4. rep'.mass[a] = rep.mass[was(a)] + Cardinality(born(a))
    <3> HIDE DEF e
    <3> QED
      BY <2>1 DEF DecayedThenFolded, Decayed
  <2> QED
    BY <2>2, <2>3, <2>4
<1>6. \A r \in O : r \in Reviews /\ Read(r) \in Nat /\ Read(r)' = Read(r)
  BY <1>0, <1>1, ReadType
<1>7. \A r \in N : /\ r \in Reviews /\ Written[r] \in Nat
                   /\ Read(r)' = IF Written[r] < now THEN Written[r] ELSE now
  BY <1>1, Bounds
(* The reviews that are counted, old and new, that are at least k old.     *)
<1>8. ASSUME NEW k \in Int
      PROVE  /\ FoldedTagged(k)' = old(k) \cup {r \in N : k + Read(r)' <= now}
             /\ Cardinality(FoldedTagged(k)')
                  = Cardinality(old(k)) + Cardinality({r \in N : k + Read(r)' <= now})
  <2>1. FoldedTagged(k)' = {r \in Folded' \cap Tagged : k + Read(r)' <= now}
    BY <1>1 DEF FoldedTagged, Read
  <2>2. FoldedTagged(k)' = old(k) \cup {r \in N : k + Read(r)' <= now}
    BY <1>1, <1>6, <2>1
  <2>3. old(k) \cap {r \in N : k + Read(r)' <= now} = {}
    BY <1>1
  <2>4. old(k) \in SUBSET Reviews /\ {r \in N : k + Read(r)' <= now} \in SUBSET Reviews
    BY <1>1
  <2>5. Cardinality(old(k) \cup {r \in N : k + Read(r)' <= now})
          = Cardinality(old(k)) + Cardinality({r \in N : k + Read(r)' <= now})
    <3> HIDE DEF old, N
    <3> QED
      BY <2>3, <2>4, DisjointReviews
  <2> QED
    BY <2>2, <2>5
(* New reviews enter with the age they have.                               *)
<1>9. ASSUME NEW a \in Ages, NEW k \in Int, k <= a
      PROVE  /\ k = a => {r \in N : k + Read(r)' <= now} = born(a)
             /\ born(a) \subseteq {r \in N : k + Read(r)' <= now}
             /\ {r \in N : k + Read(r)' <= now} \in SUBSET Reviews
  <2>1. a \in Nat
    BY <1>5
  <2>2. ASSUME NEW r \in N
        PROVE  /\ a <= Elapsed(Written[r], now) => k + Read(r)' <= now
               /\ k = a => (a <= Elapsed(Written[r], now) <=> k + Read(r)' <= now)
    BY <1>1, <1>7, <1>9, <2>1 DEF Elapsed
  <2> QED
    BY <1>7, <2>2
(* Stored reviews get older by as much as the clock advances.              *)
<1>10. /\ rep.mass[0] = Cardinality(O) /\ rep.count = Cardinality(O)
       /\ \A a \in Ages : /\ Cardinality(FoldedTagged(a)) <= rep.mass[a]
                          /\ rep.mass[a] <= Cardinality(FoldedTagged(a - drift))
                          /\ rep.mass[a] \in Nat
  BY <1>2 DEF FoldInv, ReputationAsFolded, Mass
<1>11. \A k \in Int : FoldedTagged(k) = {r \in O : k + Read(r) <= rep.last}
  BY DEF FoldedTagged, Read
<1>12. ASSUME NEW a \in Ages PROVE Cardinality(old(a)) <= rep.mass[was(a)]
  <2>1. CASE a < e
    <3>1. old(a) \subseteq O /\ O \in SUBSET Reviews
      BY <1>1
    <3>2. Cardinality(old(a)) <= Cardinality(O)
      BY <3>1, ReviewSets
    <3> QED
      BY <1>10, <2>1, <3>2
  <2>2. CASE ~(a < e)
    <3>1. a \in Nat /\ was(a) = a - e /\ was(a) \in Ages /\ was(a) \in Nat
      BY <1>3, <1>5, <2>2
    <3>2. \A r \in O : a + Read(r) <= now => was(a) + Read(r) <= rep.last
      BY <1>1, <1>2, <1>3, <1>6, <3>1
    <3>3. old(a) \subseteq FoldedTagged(was(a)) /\ FoldedTagged(was(a)) \in SUBSET Reviews
      BY <1>1, <1>11, <3>1, <3>2
    <3>4. Cardinality(old(a)) <= Cardinality(FoldedTagged(was(a)))
      BY <3>3, ReviewSets
    <3>5. /\ Cardinality(FoldedTagged(was(a))) <= rep.mass[was(a)] /\ rep.mass[was(a)] \in Nat
          /\ Cardinality(FoldedTagged(was(a))) \in Nat /\ Cardinality(old(a)) \in Nat
      BY <1>10, <3>1, <3>3, ReviewSets
    <3> HIDE DEF was, old
    <3> QED
      BY <3>4, <3>5
  <2> QED
    BY <2>1, <2>2
<1>13. ASSUME NEW a \in Ages PROVE rep.mass[was(a)] <= Cardinality(old(a - drift'))
  <2>1. was(a) \in Ages /\ was(a) \in Nat /\ a \in Nat /\ was(a) >= a - e
    BY <1>5
  <2>2. drift' = drift + d
    BY <1>1
  <2>3. \A r \in O : was(a) - drift + Read(r) <= rep.last => a - drift' + Read(r) <= now
    BY <1>1, <1>2, <1>3, <1>6, <2>1, <2>2
  <2>4. FoldedTagged(was(a) - drift) \subseteq old(a - drift') /\ old(a - drift') \in SUBSET Reviews
    BY <1>1, <1>2, <1>11, <2>1, <2>3
  <2>5. Cardinality(FoldedTagged(was(a) - drift)) <= Cardinality(old(a - drift'))
    BY <2>4, ReviewSets
  <2>6. /\ rep.mass[was(a)] <= Cardinality(FoldedTagged(was(a) - drift))
        /\ rep.mass[was(a)] \in Nat /\ Cardinality(old(a - drift')) \in Nat
        /\ Cardinality(FoldedTagged(was(a) - drift)) \in Nat
    BY <1>10, <2>1, <2>4, ReviewSets
  <2> HIDE DEF was, old
  <2> QED
    BY <2>5, <2>6
<1>14. ASSUME NEW a \in Ages
       PROVE  /\ Cardinality(FoldedTagged(a)') <= rep'.mass[a]
              /\ rep'.mass[a] <= Cardinality(FoldedTagged(a - drift)')
  <2> DEFINE new(k) == {r \in N : k + Read(r)' <= now}
  <2>1. a \in Int /\ a <= a /\ a - drift' \in Int /\ a - drift' <= a
    <3>1. a \in Nat /\ drift' \in Nat
      BY <1>0, <1>5 DEF TypeOK
    <3>2. \A m, n \in Nat : m \in Int /\ m <= m /\ m - n \in Int /\ m - n <= m
      OBVIOUS
    <3> QED
      BY <3>1, <3>2
  <2>2. /\ new(a) = born(a) /\ born(a) \subseteq new(a - drift')
        /\ new(a) \in SUBSET Reviews /\ new(a - drift') \in SUBSET Reviews
    BY <1>9, <2>1
  <2>3. /\ Cardinality(born(a)) <= Cardinality(new(a - drift'))
        /\ Cardinality(born(a)) \in Nat /\ Cardinality(new(a - drift')) \in Nat
    BY <2>2, ReviewSets
  <2>4. Cardinality(FoldedTagged(a)') = Cardinality(old(a)) + Cardinality(born(a))
    <3>1. Cardinality(FoldedTagged(a)') = Cardinality(old(a)) + Cardinality(new(a))
      BY <1>8, <2>1
    <3> QED
      BY <2>2, <3>1
  <2>5. /\ rep'.mass[a] = rep.mass[was(a)] + Cardinality(born(a))
        /\ rep.mass[was(a)] \in Nat
    BY <1>5, <1>10
  <2>6. Cardinality(old(a)) \in Nat /\ Cardinality(old(a - drift')) \in Nat
    <3>1. old(a) \in SUBSET Reviews /\ old(a - drift') \in SUBSET Reviews
      BY <1>1
    <3> QED
      BY <3>1, ReviewSets
  <2>7. Cardinality(FoldedTagged(a - drift)')
             = Cardinality(old(a - drift')) + Cardinality(new(a - drift'))
    BY <1>8, <2>1
  <2> HIDE DEF was, old, born, new
  <2> QED
    BY <1>12, <1>13, <2>3, <2>4, <2>5, <2>6, <2>7
<1>15. rep'.mass[0] = rep'.count
  <2>1. 0 \in Ages /\ was(0) = 0
    BY <1>3, AgesMean
  <2>2. born(0) = N
    BY <1>1, <1>7 DEF Elapsed
  <2>3. rep'.mass[0] = rep.mass[was(0)] + Cardinality(born(0))
    BY <1>5, <2>1
  <2> QED
    BY <1>1, <1>10, <2>1, <2>2, <2>3
<1> QED
  BY <1>0, <1>4, <1>14, <1>15 DEF FoldInv, ReputationAsFolded

LEMMA ReputationNext == FoldInv /\ [Next]_vars => FoldInv'
<1> SUFFICES ASSUME FoldInv, [Next]_vars PROVE FoldInv'
  OBVIOUS
<1>1. TypeOK /\ TypeOK'
  BY TypeNext DEF FoldInv
<1>2. CASE UNCHANGED <<rep, folded, drift>>
  BY <1>1, <1>2 DEF FoldInv, ReputationAsFolded, FoldedTagged, Folded
<1>3. CASE Next /\ ~UNCHANGED <<rep, folded, drift>>
  <2>1. \E G \in SUBSET Reviews, now \in Readings : Reputed(G, now)
    BY <1>1, <1>3, NextMeans, SignalsAccount DEF Tick
  <2> QED
    BY <2>1, ReputationReputed
<1> QED
  BY <1>2, <1>3 DEF vars

(* process_reputation, called with whatever groups of reviews on clocks    *)
(* that run backwards, keeps each review between its true age and that age *)
(* plus what the clocks ran backwards.                                     *)
THEOREM ReputationIsFolded == Spec => []ReputationAsFolded
<1>1. FoldInv => ReputationAsFolded
  BY DEF FoldInv
<1> QED
  BY <1>1, ReputationInit, ReputationNext, PTL DEF Spec
=============================================================================
