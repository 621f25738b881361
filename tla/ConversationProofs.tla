-------------------------- MODULE ConversationProofs --------------------------
(***************************************************************************)
(* Theorems about ConversationStage, for any parties, messages, window and *)
(* length of the chat, and records that arrive in any order or never.      *)
(***************************************************************************)
EXTENDS ConversationStage, FiniteSetTheorems, SequenceTheorems, TLAPS

(***************************************************************************)
(* The mapper.                                                             *)
(***************************************************************************)
LEMMA MessageType ==
  ASSUME NEW m \in Message
  PROVE  /\ m.sender \in Profiles /\ m.content \in Content /\ m.stage \in DealStages
         /\ m.content.confidence \in [Signals -> Confidences]
         /\ m.content.dated \in BOOLEAN /\ m.content.blocked \in BOOLEAN
         /\ m.content.indexed \in BOOLEAN
         /\ m.stage \in {"none"} \cup Milestones
BY ContentsAssumption, StagesAssumption DEF Message, Content

LEMMA StateSeedingNames ==
  ASSUME NEW m \in Message, NEW name \in StateSeeding
  PROVE  name \in NamesIn(m) <=> m.content.confidence[name] \in {"soft", "sure"}
BY DEF NamesIn, Keeps, StateSeeding, Signals

LEMMA SeedingNames ==
  {"identity_claim", "money_ask", "payee_asked_to_act", "channel_shift_request", "contact_share"}
    = StateSeeding
BY DEF StateSeeding, Signals

LEMMA BlockName ==
  ASSUME NEW m \in Message
  PROVE  "categorical_block" \in NamesIn(m) <=>
           m.content.blocked \/ m.content.confidence["categorical_block"] = "sure"
BY DEF NamesIn, Keeps, StateSeeding, Signals

LEMMA MilestonesMean ==
  ASSUME NEW m \in Message
  PROVE  /\ MilestonesIn(m) \subseteq Milestones
         /\ m.stage # "none" => m.stage \in MilestonesIn(m)
         /\ \A s \in MilestonesIn(m) : m.stage # "none" /\ (s # "price_agreed" => m.stage = s)
         /\ "price_agreed" \in MilestonesIn(m) <=> m.stage \in Priced
BY MessageType DEF MilestonesIn, Milestones, Priced

LEMMA RungMeans ==
  /\ DOMAIN Rung = {"none"} \cup Priced
  /\ \A s, t \in DOMAIN Rung : /\ s \in Meetings /\ Rung[s] <= Rung[t] => t \in Meetings
                               /\ s \in Priced /\ Rung[s] <= Rung[t] => t \in Priced
  /\ Meetings \subseteq Priced
BY DEF Rung, Priced, Meetings

(***************************************************************************)
(* Types.                                                                  *)
(***************************************************************************)
LEMMA FoldedType ==
  ASSUME NEW c \in Blob, NEW m \in Message, NEW ts \in Nat
  PROVE  Folded(c, m, ts) \in Blob
<1>1. m.sender \in Profiles
  BY MessageType
<1>2. AskersOnFile(c) \in [Profiles -> Nat]
  BY DEF AskersOnFile, Blob
<1>3. CASE ~m.content.dated
  BY <1>2, <1>3 DEF Folded, Blob
<1>4. CASE m.content.dated
  <2>1. Reached(c, m, ts) \in [Milestones -> Nat]
    BY DEF Reached, First, Blob
  <2>2. Askers(c, m, ts) \in [Profiles -> Nat]
    BY <1>1, <1>2 DEF Askers, First
  <2>3. (IF "money_ask" \in NamesIn(m) /\ c.firstAsk = NoAskers
         THEN [NoAskers EXCEPT ![m.sender] = ts] ELSE c.firstAsk) \in [Profiles -> Nat]
    BY <1>1 DEF NoAskers, Never, Blob
  <2>4. Claimants(c, m) \in SUBSET Profiles
    BY <1>1 DEF Claimants, Blob
  <2>5. c.fired \cup (Derivable(c, m, ts) \X {m.sender}) \in SUBSET (Tags \X Profiles)
    <3>1. Derivable(c, m, ts) \subseteq Tags
      BY DEF Derivable
    <3> QED
      BY <1>1, <3>1 DEF Blob
  <2>6. c.turns + 1 \in Nat
    BY DEF Blob
  <2>7. Folded(c, m, ts) =
          [reached |-> Reached(c, m, ts),
           firstAsk |-> IF "money_ask" \in NamesIn(m) /\ c.firstAsk = NoAskers
                        THEN [NoAskers EXCEPT ![m.sender] = ts] ELSE c.firstAsk,
           fired |-> c.fired \cup (Derivable(c, m, ts) \X {m.sender}),
           claimants |-> Claimants(c, m),
           askers |-> Askers(c, m, ts),
           turns |-> c.turns + 1,
           legacy |-> FALSE]
    BY <1>4 DEF Folded
  <2> QED
    BY <2>1, <2>2, <2>3, <2>4, <2>5, <2>6, <2>7 DEF Blob
<1> QED
  BY <1>3, <1>4

(* The fold of the older version differs in what it keeps of the asks.     *)
LEMMA FoldedBeforeMeans ==
  ASSUME NEW c \in Blob, NEW m \in Message, NEW ts \in Nat
  PROVE  /\ FoldedBefore(c, m, ts) \in Blob
         /\ FoldedBefore(c, m, ts).legacy = TRUE
         /\ FoldedBefore(c, m, ts).askers = NoAskers
         /\ FoldedBefore(c, m, ts).reached = Folded(c, m, ts).reached
         /\ FoldedBefore(c, m, ts).firstAsk = Folded(c, m, ts).firstAsk
         /\ FoldedBefore(c, m, ts).fired = Folded(c, m, ts).fired
         /\ FoldedBefore(c, m, ts).claimants = Folded(c, m, ts).claimants
         /\ FoldedBefore(c, m, ts).turns = Folded(c, m, ts).turns
<1>1. PICK d, b : d = Folded(c, m, ts) /\ b = FoldedBefore(c, m, ts)
  OBVIOUS
<1>2. d \in Blob
  BY <1>1, FoldedType
<1>3. b = [d EXCEPT !.askers = NoAskers, !.legacy = TRUE]
  BY <1>1 DEF FoldedBefore
<1>4. NoAskers \in [Profiles -> Nat]
  BY DEF NoAskers, Never
<1>5. /\ b \in Blob /\ b.legacy = TRUE /\ b.askers = NoAskers
      /\ b.reached = d.reached /\ b.firstAsk = d.firstAsk /\ b.fired = d.fired
      /\ b.claimants = d.claimants /\ b.turns = d.turns
  BY <1>2, <1>3, <1>4 DEF Blob
<1> QED
  BY <1>1, <1>5

LEMMA NewBlobType == NewBlob \in Blob
BY DEF NewBlob, Blob, NoAskers, Never

LEMMA ArrivedGrows ==
  ASSUME NEW i, arrived \in Seq(Positions), arrived' = Append(arrived, i), i \in Positions
  PROVE  /\ Len(arrived') = Len(arrived) + 1 /\ Len(arrived) \in Nat
         /\ DOMAIN arrived = 1 .. Len(arrived) /\ DOMAIN arrived' = 1 .. (Len(arrived) + 1)
         /\ \A k \in DOMAIN arrived : arrived'[k] = arrived[k]
         /\ arrived'[Len(arrived) + 1] = i
         /\ Arrived' = Arrived \cup {i}
         /\ arrived' \in Seq(Positions)
<1>1. /\ arrived' \in Seq(Positions)
      /\ Len(arrived') = Len(arrived) + 1
      /\ \A k \in 1 .. Len(arrived) : arrived'[k] = arrived[k]
      /\ arrived'[Len(arrived) + 1] = i
  BY AppendProperties
<1>2. Len(arrived) \in Nat /\ DOMAIN arrived = 1 .. Len(arrived)
      /\ DOMAIN arrived' = 1 .. (Len(arrived) + 1)
  BY <1>1
<1>3. DOMAIN arrived' = DOMAIN arrived \cup {Len(arrived) + 1}
  BY <1>2
<1>4. Arrived' = Arrived \cup {i}
  BY <1>1, <1>2, <1>3 DEF Arrived
<1> QED
  BY <1>1, <1>2, <1>4

LEMMA TypeInit == Init => TypeOK
<1> SUFFICES ASSUME Init PROVE TypeOK
  OBVIOUS
<1>1. Arrived = {} /\ arrived \in Seq(Positions) /\ Len(arrived) = 0
  BY DEF Init, Arrived
<1> QED
  BY <1>1, NewBlobType, FS_EmptySet DEF Init, TypeOK

(* A fold of either version.                                               *)
FoldOf(i) ==
  /\ UNCHANGED chat
  /\ i \in Positions \ Arrived
  /\ arrived' = Append(arrived, i)
  /\ \/ conv' = Folded(conv, chat[i], i) /\ older' = older
     \/ conv.legacy /\ conv' = FoldedBefore(conv, chat[i], i) /\ older' = older + 1

LEMMA FoldsMean ==
  ASSUME NEW i, Fold(i) \/ FoldBefore(i)
  PROVE  FoldOf(i)
BY DEF Fold, FoldBefore, FoldOf, Positions

LEMMA SendMeans ==
  ASSUME TypeOK, NEW m \in Message, Send(m)
  PROVE  /\ chat' \in Seq(Message) /\ Positions \subseteq Positions'
         /\ Positions = 1 .. Len(chat) /\ Positions' = 1 .. (Len(chat) + 1)
         /\ Len(chat) \in Nat
         /\ \A i \in Positions : chat'[i] = chat[i]
         /\ chat'[Len(chat) + 1] = m
         /\ UNCHANGED <<arrived, conv, older>>
<1>1. chat \in Seq(Message) /\ chat' = Append(chat, m) /\ UNCHANGED <<arrived, conv, older>>
  BY DEF TypeOK, Send
<1>2. /\ chat' \in Seq(Message) /\ Len(chat') = Len(chat) + 1
      /\ \A i \in 1 .. Len(chat) : chat'[i] = chat[i]
      /\ chat'[Len(chat) + 1] = m
  BY <1>1, AppendProperties
<1>3. Positions = 1 .. Len(chat) /\ Positions' = 1 .. (Len(chat) + 1) /\ Len(chat) \in Nat
  BY <1>1, <1>2 DEF Positions
<1> QED
  BY <1>1, <1>2, <1>3

LEMMA TypeNext == TypeOK /\ [Next]_vars => TypeOK'
<1> SUFFICES ASSUME TypeOK, [Next]_vars PROVE TypeOK'
  OBVIOUS
<1>1. ASSUME NEW m \in Message, Send(m) PROVE TypeOK'
  <2>1. chat' \in Seq(Message) /\ Positions \subseteq Positions' /\ UNCHANGED <<arrived, conv, older>>
    BY <1>1, SendMeans
  <2>2. arrived' \in Seq(Positions')
    <3>1. arrived \in Seq(Positions)
      BY DEF TypeOK
    <3>2. \A k \in 1 .. Len(arrived) : arrived[k] \in Positions'
      BY <2>1, <3>1
    <3> QED
      BY <2>1, <3>1, <3>2, IsASeq, SeqDef
  <2>3. Cardinality(Arrived)' = Len(arrived)' /\ conv' \in Blob /\ older' \in Nat
    BY <2>1 DEF TypeOK, Arrived
  <2> QED
    BY <2>1, <2>2, <2>3 DEF TypeOK
<1>2. ASSUME NEW i, FoldOf(i) PROVE TypeOK'
  <2>1. i \in Positions \ Arrived /\ arrived \in Seq(Positions) /\ chat[i] \in Message
        /\ i \in Nat /\ conv \in Blob /\ UNCHANGED chat /\ arrived' = Append(arrived, i)
    BY <1>2 DEF TypeOK, FoldOf, Positions
  <2>2. Arrived' = Arrived \cup {i} /\ Len(arrived') = Len(arrived) + 1 /\ arrived' \in Seq(Positions)
        /\ Len(arrived) \in Nat /\ DOMAIN arrived = 1 .. Len(arrived)
    BY <2>1, ArrivedGrows
  <2>3. IsFiniteSet(Arrived)
    <3>1. Arrived \subseteq 1 .. Len(chat) /\ Len(chat) \in Nat
      BY <2>1 DEF Arrived, Positions, TypeOK
    <3>2. IsFiniteSet(1 .. Len(chat))
      BY <3>1, FS_Interval
    <3> QED
      BY <3>1, <3>2, FS_Subset
  <2>4. Cardinality(Arrived)' = Cardinality(Arrived) + 1
    BY <2>1, <2>2, <2>3, FS_AddElement
  <2>5. conv' \in Blob /\ older' \in Nat
    <3>1. /\ conv' = Folded(conv, chat[i], i) \/ conv' = FoldedBefore(conv, chat[i], i)
          /\ older' = older \/ older' = older + 1
      BY <1>2 DEF FoldOf
    <3>2. Folded(conv, chat[i], i) \in Blob /\ FoldedBefore(conv, chat[i], i) \in Blob
      BY <2>1, FoldedType, FoldedBeforeMeans
    <3> QED
      BY <3>1, <3>2 DEF TypeOK
  <2>6. Positions' = Positions /\ chat' \in Seq(Message)
    BY <2>1 DEF Positions, TypeOK
  <2> QED
    BY <2>2, <2>4, <2>5, <2>6 DEF TypeOK
<1>3. CASE UNCHANGED vars
  BY <1>3 DEF vars, TypeOK, Positions, Arrived
<1> QED
  BY <1>1, <1>2, <1>3, FoldsMean DEF Next

(* Every variable keeps its type, and no record is folded twice.           *)
THEOREM ConversationTypeCorrect == Spec => []TypeOK
BY TypeInit, TypeNext, PTL DEF Spec

(***************************************************************************)
(* What the derivations require.                                           *)
(***************************************************************************)
Early(c, m, ts) == "money_ask" \in NamesIn(m) /\ ~Met(Reached(c, m, ts))

LEMMA DerivableMeans ==
  ASSUME NEW c, NEW m, NEW ts, NEW tag \in Derivable(c, m, ts)
  PROVE  /\ tag \in Tags
         /\ tag = "money_ask_no_milestone" => Early(c, m, ts)
         /\ tag = "identity_then_money" => Early(c, m, ts) /\ m.sender \in Claimants(c, m)
         /\ tag = "fee_escalation" =>
              /\ "money_ask" \in NamesIn(m)
              /\ Escalates(Askers(c, m, ts)[m.sender], Reached(c, m, ts)["ledger_credit"], ts)
         /\ tag = "jumped_deposit" => Jumped(Reached(c, m, ts)["ledger_credit_small"], ts)
         /\ tag = "channel_shift_early" =>
              /\ "channel_shift_request" \in NamesIn(m)
              /\ m.content.indexed => ts <= 2
         /\ tag = "contact_share_pre_milestone" =>
              "contact_share" \in NamesIn(m) /\ Reached(c, m, ts)["price_agreed"] = Never
         /\ tag = "categorical_block" => tag \in NamesIn(m)
BY DEF Derivable, Early, Tags

LEMMA DerivesEarlyAsk ==
  ASSUME NEW c, NEW m, NEW ts, Early(c, m, ts)
  PROVE  "money_ask_no_milestone" \in Derivable(c, m, ts)
BY DEF Derivable, Early, Tags

LEMMA DerivesContact ==
  ASSUME NEW c, NEW m, NEW ts, "contact_share" \in NamesIn(m),
         Reached(c, m, ts)["price_agreed"] = Never
  PROVE  "contact_share_pre_milestone" \in Derivable(c, m, ts)
BY DEF Derivable, Tags

(***************************************************************************)
(* No false alarm.  What the blob holds is in the chat: Traced, Asked and  *)
(* Claimed say where; Bears says what the chat bears out of each tag.      *)
(***************************************************************************)
(* The stage climbs its ladder.                                            *)
Ladder ==
  \A i, j \in Positions :
    i <= j /\ chat[i].stage \in DOMAIN Rung /\ chat[j].stage \in DOMAIN Rung
      => Rung[chat[i].stage] <= Rung[chat[j].stage]

OffLadder == \E i \in Positions : chat[i].stage \notin DOMAIN Rung

(* Message j recorded stage s.                                             *)
RecordedBy(s, j) == j \in Positions /\ chat[j].content.dated /\ s \in MilestonesIn(chat[j])

Traced(c) == \A s \in Milestones : c.reached[s] # Never => RecordedBy(s, c.reached[s])

Asked(asks) == \A p \in Profiles : asks[p] # Never => Says(p, asks[p], "money_ask")

Claimed(c) == \A p \in c.claimants : \E j \in Positions : Says(p, j, "identity_claim")

AskedEarly(p) == \E i \in Positions : EarlyAsk(p, i)

AskedAgain(p) ==
  \E a, i \in Positions :
    /\ a < i /\ Says(p, a, "money_ask") /\ Says(p, i, "money_ask")
    /\ StageBy(i, {"ledger_credit"})

Shifted(p) ==
  \E i \in Positions :
    Says(p, i, "channel_shift_request") /\ (i <= 2 \/ ~chat[i].content.indexed)

Bears(tag, p) ==
  /\ tag = "money_ask_no_milestone" => OffLadder \/ AskedEarly(p)
  /\ tag = "identity_then_money" =>
       OffLadder \/ (AskedEarly(p) /\ \E j \in Positions : Says(p, j, "identity_claim"))
  /\ tag = "fee_escalation" => AskedAgain(p)
  /\ tag = "jumped_deposit" => OffLadder
  /\ tag = "channel_shift_early" => Shifted(p)
  /\ tag = "contact_share_pre_milestone" => OffLadder \/ \E i \in Positions : EarlyContact(p, i)
  /\ tag = "categorical_block" => \E i \in Positions : Blocked(p, i)

Borne(c) == \A tag \in Tags, p \in Profiles : <<tag, p>> \in c.fired => Bears(tag, p)

Sound(c) == Traced(c) /\ Asked(c.askers) /\ Asked(c.firstAsk) /\ Claimed(c) /\ Borne(c)

(* Folding a message of the chat keeps a blob sound.                       *)
LEMMA FoldSound ==
  ASSUME chat \in Seq(Message), Ladder, NEW c \in Blob, Sound(c), NEW i \in Positions
  PROVE  Sound(Folded(c, chat[i], i))
<1>1. PICK m \in Message : m = chat[i]
  BY DEF Positions
<1>2. /\ m.sender \in Profiles /\ m.stage \in {"none"} \cup Milestones
      /\ i \in Nat /\ i # Never /\ Positions = 1 .. Len(chat) /\ Len(chat) \in Nat
  BY <1>1, MessageType DEF Positions, Never
<1>3. /\ c.reached \in [Milestones -> Nat] /\ c.askers \in [Profiles -> Nat]
      /\ c.firstAsk \in [Profiles -> Nat] /\ c.claimants \subseteq Profiles
      /\ c.fired \subseteq Tags \X Profiles
  BY DEF Blob
<1>4. AskersOnFile(c) \in [Profiles -> Nat] /\ Asked(AskersOnFile(c))
  BY <1>3 DEF AskersOnFile, Sound
<1>5. CASE ~m.content.dated
  <2>1. Folded(c, m, i) = [c EXCEPT !.legacy = FALSE, !.askers = AskersOnFile(c)]
    BY <1>5 DEF Folded
  <2>2. PICK d : d = Folded(c, m, i)
    OBVIOUS
  <2>3. /\ d.reached = c.reached /\ d.firstAsk = c.firstAsk /\ d.claimants = c.claimants
        /\ d.fired = c.fired /\ d.askers = AskersOnFile(c)
    BY <2>1, <2>2 DEF Blob
  <2>4. Sound(d)
    BY <1>4, <2>3 DEF Sound, Traced, Claimed, Borne
  <2> QED
    BY <1>1, <2>2, <2>4
<1>6. CASE m.content.dated
  <2>1. PICK d : d = Folded(c, m, i)
    OBVIOUS
  <2>2. /\ d.reached = Reached(c, m, i)
        /\ d.firstAsk = IF "money_ask" \in NamesIn(m) /\ c.firstAsk = NoAskers
                        THEN [NoAskers EXCEPT ![m.sender] = i] ELSE c.firstAsk
        /\ d.fired = c.fired \cup (Derivable(c, m, i) \X {m.sender})
        /\ d.claimants = Claimants(c, m)
        /\ d.askers = Askers(c, m, i)
    BY <1>6, <2>1 DEF Folded
  <2>3. \A name \in StateSeeding : name \in NamesIn(m) => Says(m.sender, i, name)
    BY <1>1, <1>6, StateSeedingNames DEF Says, Positions
  <2>4. Traced(d)
    <3> SUFFICES ASSUME NEW s \in Milestones, d.reached[s] # Never
                 PROVE  RecordedBy(s, d.reached[s])
      BY DEF Traced
    <3>1. d.reached[s] = IF s \in MilestonesIn(m) THEN First(c.reached[s], i) ELSE c.reached[s]
      BY <2>2 DEF Reached
    <3>2. CASE d.reached[s] = c.reached[s]
      BY <3>2 DEF Sound, Traced
    <3>3. CASE s \in MilestonesIn(m) /\ d.reached[s] = i
      BY <1>1, <1>6, <3>3 DEF RecordedBy
    <3> QED
      BY <3>1, <3>2, <3>3 DEF First
  <2>5. Asked(d.askers)
    <3> SUFFICES ASSUME NEW p \in Profiles, d.askers[p] # Never
                 PROVE  Says(p, d.askers[p], "money_ask")
      BY DEF Asked
    <3>1. CASE d.askers[p] = AskersOnFile(c)[p]
      BY <1>4, <3>1 DEF Asked
    <3>2. CASE d.askers[p] # AskersOnFile(c)[p]
      <4>1. "money_ask" \in NamesIn(m) /\ p = m.sender /\ d.askers[p] = i
        BY <1>2, <1>4, <2>2, <3>2 DEF Askers, First
      <4> QED
        BY <2>3, <4>1, SeedingNames
    <3> QED
      BY <3>1, <3>2
  <2>6. Asked(d.firstAsk)
    <3> SUFFICES ASSUME NEW p \in Profiles, d.firstAsk[p] # Never
                 PROVE  Says(p, d.firstAsk[p], "money_ask")
      BY DEF Asked
    <3>1. CASE d.firstAsk = c.firstAsk
      BY <3>1 DEF Sound, Asked
    <3>2. CASE d.firstAsk # c.firstAsk
      <4>1. "money_ask" \in NamesIn(m) /\ d.firstAsk = [NoAskers EXCEPT ![m.sender] = i]
        BY <2>2, <3>2
      <4>2. p = m.sender /\ d.firstAsk[p] = i
        BY <1>2, <4>1 DEF NoAskers
      <4> QED
        BY <2>3, <4>1, <4>2, SeedingNames
    <3> QED
      BY <3>1, <3>2
  <2>7. Claimed(d)
    <3> SUFFICES ASSUME NEW p \in Claimants(c, m)
                 PROVE  \E j \in Positions : Says(p, j, "identity_claim")
      BY <2>2 DEF Claimed
    <3>1. CASE p \in c.claimants
      BY <3>1 DEF Sound, Claimed
    <3>2. CASE p \notin c.claimants
      <4>1. p = m.sender /\ "identity_claim" \in NamesIn(m)
        BY <3>2 DEF Claimants
      <4> QED
        BY <2>3, <4>1, SeedingNames
    <3> QED
      BY <3>1, <3>2
  (* A message at a rung of its own has no earlier message above it.       *)
  <2>8. ASSUME ~OffLadder, Early(c, m, i) PROVE EarlyAsk(m.sender, i)
    <3>1. Says(m.sender, i, "money_ask")
      BY <2>3, <2>8, SeedingNames DEF Early
    <3>2. \A s \in MilestonesIn(m) : d.reached[s] # Never
      BY <1>2, <1>3, <2>2, MilestonesMean DEF Reached, First
    <3>3. m.stage \notin Meetings
      <4> SUFFICES ASSUME m.stage \in Meetings PROVE FALSE
        OBVIOUS
      <4>1. m.stage \in {"meet_scheduled", "ledger_credit", "handover_confirmed"} /\ m.stage # "none"
        BY DEF Meetings, Priced
      <4>2. d.reached[m.stage] # Never
        BY <3>2, <4>1, MilestonesMean
      <4> QED
        BY <2>2, <2>8, <4>1, <4>2 DEF Early, Met
    <3>4. ~StageBy(i, Meetings)
      <4> SUFFICES ASSUME NEW j \in 1 .. i, chat[j].stage \in Meetings PROVE FALSE
        BY DEF StageBy
      <4>1. j \in Positions /\ j <= i
        BY <1>2
      <4>2. chat[j].stage \in DOMAIN Rung /\ chat[i].stage \in DOMAIN Rung
        BY <2>8, <4>1 DEF OffLadder
      <4>3. Rung[chat[j].stage] <= Rung[chat[i].stage]
        BY <4>1, <4>2 DEF Ladder
      <4> QED
        BY <1>1, <3>3, <4>2, <4>3, RungMeans
    <3> QED
      BY <3>1, <3>4 DEF EarlyAsk
  <2>9. ASSUME ~OffLadder, "contact_share" \in NamesIn(m),
               Reached(c, m, i)["price_agreed"] = Never
        PROVE  EarlyContact(m.sender, i)
    <3>1. Says(m.sender, i, "contact_share")
      BY <2>3, <2>9, SeedingNames
    <3>2. "price_agreed" \notin MilestonesIn(m)
      BY <1>2, <1>3, <2>9 DEF Reached, First, Milestones
    <3>3. m.stage \notin Priced
      BY <3>2, MilestonesMean
    <3>4. ~StageBy(i, Priced)
      <4> SUFFICES ASSUME NEW j \in 1 .. i, chat[j].stage \in Priced PROVE FALSE
        BY DEF StageBy
      <4>1. j \in Positions /\ j <= i
        BY <1>2
      <4>2. chat[j].stage \in DOMAIN Rung /\ chat[i].stage \in DOMAIN Rung
        BY <2>9, <4>1 DEF OffLadder
      <4>3. Rung[chat[j].stage] <= Rung[chat[i].stage]
        BY <4>1, <4>2 DEF Ladder
      <4> QED
        BY <1>1, <3>3, <4>2, <4>3, RungMeans
    <3> QED
      BY <3>1, <3>4 DEF EarlyContact
  <2>10. ASSUME NEW tag \in Derivable(c, m, i) PROVE Bears(tag, m.sender)
    <3>1. CASE tag = "money_ask_no_milestone"
      BY <2>8, <3>1, DerivableMeans DEF Bears, AskedEarly
    <3>2. CASE tag = "identity_then_money"
      <4>1. Early(c, m, i) /\ m.sender \in Claimants(c, m)
        BY <3>2, DerivableMeans
      <4>2. \E j \in Positions : Says(m.sender, j, "identity_claim")
        BY <2>2, <2>7, <4>1 DEF Claimed
      <4> QED
        BY <2>8, <3>2, <4>1, <4>2 DEF Bears, AskedEarly
    <3>3. CASE tag = "fee_escalation"
      <4> DEFINE asked == d.askers[m.sender]
                 credited == d.reached["ledger_credit"]
      <4>1. "money_ask" \in NamesIn(m) /\ Escalates(asked, credited, i)
        BY <2>2, <3>3, DerivableMeans
      <4>2. asked \in Nat /\ credited \in Nat
        <5>1. d \in Blob
          BY <1>2, <2>1, FoldedType
        <5> QED
          BY <1>2, <5>1 DEF Blob, Milestones
      <4>3. asked # Never
        BY <1>2, <1>4, <2>2, <4>1 DEF Askers, First
      <4>4. Says(m.sender, asked, "money_ask")
        BY <1>2, <2>5, <4>3 DEF Asked
      <4>5. Says(m.sender, i, "money_ask")
        BY <2>3, <4>1, SeedingNames
      <4>6. credited # Never /\ asked < credited /\ credited <= i
        BY <4>1 DEF Escalates
      <4>7. RecordedBy("ledger_credit", credited)
        BY <2>4, <4>6 DEF Traced, Milestones
      <4>8. chat[credited].stage = "ledger_credit" /\ chat[credited].content.dated
        BY <4>7, MilestonesMean DEF RecordedBy, Positions
      <4>9. credited \in 1 .. i
        BY <1>2, <4>2, <4>6 DEF Never
      <4>10. StageBy(i, {"ledger_credit"})
        BY <4>8, <4>9 DEF StageBy
      <4>11. asked \in Positions /\ asked < i
        BY <1>2, <4>2, <4>4, <4>6 DEF Says, Positions
      <4> QED
        BY <3>3, <4>4, <4>5, <4>10, <4>11 DEF Bears, AskedAgain
    <3>4. CASE tag = "jumped_deposit"
      <4> DEFINE small == d.reached["ledger_credit_small"]
      <4>1. small # Never
        BY <2>2, <3>4, DerivableMeans DEF Jumped
      <4>2. RecordedBy("ledger_credit_small", small)
        BY <2>4, <4>1 DEF Traced, Milestones
      <4>3. small \in Positions /\ chat[small].stage = "ledger_credit_small"
        BY <4>2, MilestonesMean DEF RecordedBy, Positions
      <4>4. OffLadder
        BY <4>3 DEF OffLadder, Rung
      <4> QED
        BY <3>4, <4>4 DEF Bears
    <3>5. CASE tag = "channel_shift_early"
      <4>1. "channel_shift_request" \in NamesIn(m) /\ (m.content.indexed => i <= 2)
        BY <3>5, DerivableMeans
      <4>2. Says(m.sender, i, "channel_shift_request")
        BY <2>3, <4>1, SeedingNames
      <4> QED
        BY <1>1, <3>5, <4>1, <4>2 DEF Bears, Shifted
    <3>6. CASE tag = "contact_share_pre_milestone"
      BY <2>9, <3>6, DerivableMeans DEF Bears
    <3>7. CASE tag = "categorical_block"
      <4>1. "categorical_block" \in NamesIn(m)
        BY <3>7, DerivableMeans
      <4>2. Blocked(m.sender, i)
        BY <1>1, <1>6, <4>1, BlockName DEF Blocked
      <4> QED
        BY <3>7, <4>2 DEF Bears
    <3> QED
      BY <3>1, <3>2, <3>3, <3>4, <3>5, <3>6, <3>7, DerivableMeans DEF Tags
  <2>11. Borne(d)
    <3> SUFFICES ASSUME NEW tag \in Tags, NEW p \in Profiles, <<tag, p>> \in d.fired
                 PROVE  Bears(tag, p)
      BY DEF Borne
    <3>1. CASE <<tag, p>> \in c.fired
      BY <3>1 DEF Sound, Borne
    <3>2. CASE <<tag, p>> \notin c.fired
      <4>1. tag \in Derivable(c, m, i) /\ p = m.sender
        BY <2>2, <3>2
      <4> QED
        BY <2>10, <4>1
    <3> QED
      BY <3>1, <3>2
  <2> QED
    BY <1>1, <2>1, <2>4, <2>5, <2>6, <2>7, <2>11 DEF Sound
<1> QED
  BY <1>5, <1>6

(* A longer chat bears out what a shorter one did.                         *)
LEMMA SendSound ==
  ASSUME TypeOK, NEW m \in Message, Send(m), Sound(conv)
  PROVE  Sound(conv)'
<1>1. /\ Positions \subseteq Positions' /\ conv' = conv
      /\ Positions = 1 .. Len(chat) /\ Len(chat) \in Nat
      /\ \A i \in Positions : chat'[i] = chat[i]
  BY SendMeans
<1>2. \A p, i, name : Says(p, i, name) => Says(p, i, name)' /\ i \in Positions
  BY <1>1 DEF Says, Positions
<1>3. ASSUME NEW i \in Positions, NEW S PROVE StageBy(i, S) <=> StageBy(i, S)'
  <2>1. \A j \in 1 .. i : j \in Positions /\ chat'[j] = chat[j]
    BY <1>1
  <2> QED
    BY <2>1 DEF StageBy
<1>4. \A p : AskedEarly(p) => AskedEarly(p)'
  BY <1>1, <1>2, <1>3 DEF AskedEarly, EarlyAsk
<1>5. \A p : (\E i \in Positions : EarlyContact(p, i)) => (\E i \in Positions : EarlyContact(p, i))'
  BY <1>1, <1>2, <1>3 DEF EarlyContact
<1>6. \A p : AskedAgain(p) => AskedAgain(p)'
  BY <1>1, <1>2, <1>3 DEF AskedAgain
<1>7. \A p : Shifted(p) => Shifted(p)'
  BY <1>1, <1>2 DEF Shifted
<1>8. \A p : (\E i \in Positions : Blocked(p, i)) => (\E i \in Positions : Blocked(p, i))'
  BY <1>1 DEF Blocked
<1>9. OffLadder => OffLadder'
  BY <1>1 DEF OffLadder
<1>10. \A p : (\E j \in Positions : Says(p, j, "identity_claim"))
                => (\E j \in Positions : Says(p, j, "identity_claim"))'
  BY <1>1, <1>2
<1>11. \A tag, p : Bears(tag, p) => Bears(tag, p)'
  BY <1>4, <1>5, <1>6, <1>7, <1>8, <1>9, <1>10 DEF Bears
<1>12. Traced(conv)'
  <2>1. \A s, j : RecordedBy(s, j) => RecordedBy(s, j)'
    BY <1>1 DEF RecordedBy
  <2> QED
    BY <1>1, <2>1 DEF Sound, Traced
<1>13. Asked(conv.askers)' /\ Asked(conv.firstAsk)'
  BY <1>1, <1>2 DEF Sound, Asked
<1>14. Claimed(conv)'
  BY <1>1, <1>10 DEF Sound, Claimed
<1>15. Borne(conv)'
  BY <1>1, <1>11 DEF Sound, Borne
<1> QED
  BY <1>12, <1>13, <1>14, <1>15 DEF Sound

SoundInv == TypeOK /\ Ladder /\ Sound(conv)

LEMMA NewIsSound == Sound(NewBlob)
BY DEF Sound, NewBlob, Traced, Asked, NoAskers, Claimed, Borne

LEMMA SoundInit == Init => SoundInv
<1> SUFFICES ASSUME Init PROVE SoundInv
  OBVIOUS
<1>1. TypeOK
  BY TypeInit
<1>2. Ladder
  BY DEF Init, Ladder, Positions
<1> QED
  BY <1>1, <1>2, NewIsSound DEF Init, SoundInv

(* What the older version does not keep of a sound blob it cannot get wrong. *)
LEMMA FoldBeforeSound ==
  ASSUME chat \in Seq(Message), Ladder, NEW c \in Blob, Sound(c), NEW i \in Positions
  PROVE  Sound(FoldedBefore(c, chat[i], i))
<1>1. PICK d, b : d = Folded(c, chat[i], i) /\ b = FoldedBefore(c, chat[i], i)
  OBVIOUS
<1>2. chat[i] \in Message /\ i \in Nat
  BY DEF Positions
<1>3. Sound(d)
  BY <1>1, FoldSound
<1>4. /\ b.reached = d.reached /\ b.firstAsk = d.firstAsk /\ b.fired = d.fired
      /\ b.claimants = d.claimants /\ b.askers = NoAskers
  BY <1>1, <1>2, FoldedBeforeMeans
<1>5. Sound(b)
  BY <1>3, <1>4 DEF Sound, Traced, Asked, Claimed, Borne, NoAskers
<1> QED
  BY <1>1, <1>5

LEMMA LadderNext == TypeOK /\ Ladder /\ [Next]_vars => Ladder'
<1> SUFFICES ASSUME TypeOK, Ladder, [Next]_vars PROVE Ladder'
  OBVIOUS
<1>1. ASSUME NEW m \in Message, Send(m) PROVE Ladder'
  <2> SUFFICES ASSUME NEW i \in Positions', NEW j \in Positions', i <= j,
                      chat'[i].stage \in DOMAIN Rung, chat'[j].stage \in DOMAIN Rung
               PROVE  Rung[chat'[i].stage] <= Rung[chat'[j].stage]
    BY DEF Ladder
  <2>1. /\ Positions = 1 .. Len(chat) /\ Positions' = 1 .. (Len(chat) + 1)
        /\ Len(chat) \in Nat
        /\ \A k \in Positions : chat'[k] = chat[k]
        /\ chat'[Len(chat) + 1] = m
    BY <1>1, SendMeans
  <2>2. CASE j \in Positions
    <3>1. i \in Positions
      BY <2>1, <2>2
    <3> QED
      BY <2>1, <2>2, <3>1 DEF Ladder
  <2>3. CASE j = Len(chat) + 1 /\ i \in Positions
    BY <1>1, <2>1, <2>3 DEF Send, Positions
  <2>4. CASE j = Len(chat) + 1 /\ i = Len(chat) + 1
    <3>1. m.stage \in DOMAIN Rung
      BY <2>1, <2>4
    <3>2. Rung[m.stage] <= Rung[m.stage]
      BY <3>1 DEF Rung
    <3> QED
      BY <2>1, <2>4, <3>2
  <2> QED
    BY <2>1, <2>2, <2>3, <2>4
<1>2. CASE UNCHANGED chat
  BY <1>2 DEF Ladder, Positions
<1> QED
  BY <1>1, <1>2 DEF Next, Fold, FoldBefore, vars

LEMMA SoundNext == SoundInv /\ [Next]_vars => SoundInv'
<1> SUFFICES ASSUME SoundInv, [Next]_vars PROVE SoundInv'
  OBVIOUS
<1>1. TypeOK /\ TypeOK' /\ Ladder /\ Ladder' /\ Sound(conv)
  BY TypeNext, LadderNext DEF SoundInv
<1>2. ASSUME NEW m \in Message, Send(m) PROVE Sound(conv)'
  BY <1>1, <1>2, SendSound
<1>3. ASSUME UNCHANGED chat, NEW c, Sound(c), conv' = c PROVE Sound(conv)'
  BY <1>3 DEF Sound, Traced, RecordedBy, Asked, Says, Claimed, Borne, Bears, OffLadder,
              AskedEarly, EarlyAsk, StageBy, AskedAgain, Shifted, EarlyContact, Blocked, Positions
<1>4. ASSUME NEW i, FoldOf(i) PROVE Sound(conv)'
  <2>1. /\ UNCHANGED chat /\ i \in Positions /\ chat \in Seq(Message) /\ conv \in Blob
        /\ conv' \in {Folded(conv, chat[i], i), FoldedBefore(conv, chat[i], i)}
    BY <1>1, <1>4 DEF FoldOf, TypeOK
  <2>2. Sound(Folded(conv, chat[i], i)) /\ Sound(FoldedBefore(conv, chat[i], i))
    BY <1>1, <2>1, FoldSound, FoldBeforeSound
  <2> QED
    BY <1>3, <2>1, <2>2
<1>5. CASE UNCHANGED vars
  <2>1. UNCHANGED chat /\ conv' = conv
    BY <1>5 DEF vars
  <2>2. PICK c : c = conv
    OBVIOUS
  <2>3. Sound(c) /\ UNCHANGED chat /\ conv' = c
    BY <1>1, <2>1, <2>2
  <2>4. Sound(conv)'
    BY <1>3, <2>3
  <2> QED
    BY <1>1, <2>4 DEF SoundInv
<1> QED
  BY <1>1, <1>2, <1>4, <1>5, FoldsMean DEF Next, SoundInv

LEMMA SoundFits == SoundInv => NoFalseAlarm
<1> SUFFICES ASSUME SoundInv, \A i \in Positions : chat[i].stage \in DOMAIN Rung,
                    NEW tag \in Tags, NEW p \in Profiles, <<tag, p>> \in conv.fired
             PROVE  CASE tag = "identity_then_money" ->
                           /\ \E i \in Positions : EarlyAsk(p, i)
                           /\ \E j \in Positions : Says(p, j, "identity_claim")
                      [] tag = "fee_escalation" ->
                           \E a, i \in Positions :
                             /\ a < i /\ Says(p, a, "money_ask") /\ Says(p, i, "money_ask")
                             /\ StageBy(i, {"ledger_credit"})
                      [] tag = "channel_shift_early" ->
                           \E i \in Positions :
                             Says(p, i, "channel_shift_request")
                             /\ (i <= 2 \/ ~chat[i].content.indexed)
                      [] OTHER -> Conduct(tag, p)
  BY DEF NoFalseAlarm
<1>1. Bears(tag, p) /\ ~OffLadder
  BY DEF SoundInv, Sound, Borne, OffLadder
<1>2. CASE tag \in {"identity_then_money", "fee_escalation", "channel_shift_early"}
  BY <1>1, <1>2 DEF Bears, AskedEarly, AskedAgain, Shifted
<1>3. CASE tag \notin {"identity_then_money", "fee_escalation", "channel_shift_early"}
  <2>1. tag \in {"money_ask_no_milestone", "jumped_deposit", "contact_share_pre_milestone",
                 "categorical_block"}
    BY <1>3 DEF Tags
  <2>2. Conduct(tag, p)
    BY <1>1, <2>1 DEF Bears, AskedEarly, Conduct
  <2> QED
    BY <1>3, <2>2
<1> QED
  BY <1>2, <1>3

(* Records that arrive late, in any order or never cost nobody a tag that  *)
(* the chat does not bear out (process_conversation), while every message  *)
(* names a rung of the ladder.                                             *)
THEOREM NobodyIsFalselyAccused == Spec => []NoFalseAlarm
BY SoundInit, SoundNext, SoundFits, PTL DEF Spec

(***************************************************************************)
(* What overtaking hides.  A milestone on file was recorded by a message   *)
(* that has arrived.                                                       *)
(***************************************************************************)
TracedTo(c, A) ==
  \A s \in Milestones : c.reached[s] # Never => c.reached[s] \in A /\ RecordedBy(s, c.reached[s])

HiddenInv ==
  /\ SoundInv
  /\ TracedTo(conv, Arrived)
  /\ OnlyOvertakingHides

(* A fold of message i by which an early ask or contact of i raises no tag *)
(* found a later milestone on file.                                        *)
LEMMA FoldHides ==
  ASSUME chat \in Seq(Message), NEW c \in Blob, NEW A \in SUBSET Positions, TracedTo(c, A),
         NEW i \in Positions, NEW p \in Profiles
  PROVE  /\ TracedTo(Folded(c, chat[i], i), A \cup {i})
         /\ EarlyAsk(p, i) =>
              \/ <<"money_ask_no_milestone", p>> \in Folded(c, chat[i], i).fired
              \/ \E k \in A : k > i /\ chat[k].content.dated /\ chat[k].stage \in Meetings
         /\ EarlyContact(p, i) =>
              \/ <<"contact_share_pre_milestone", p>> \in Folded(c, chat[i], i).fired
              \/ \E k \in A : k > i /\ chat[k].content.dated /\ chat[k].stage \in Priced
<1>1. PICK m \in Message : m = chat[i]
  BY DEF Positions
<1>2. PICK d : d = Folded(c, m, i)
  OBVIOUS
<1>3. /\ m.sender \in Profiles /\ i \in Nat /\ i # Never
      /\ Positions = 1 .. Len(chat) /\ Len(chat) \in Nat
      /\ c.reached \in [Milestones -> Nat]
  BY <1>1, MessageType DEF Positions, Never, Blob
<1>4. CASE ~m.content.dated
  <2>1. d.reached = c.reached
    BY <1>2, <1>4 DEF Folded, Blob
  <2>2. TracedTo(d, A \cup {i})
    BY <2>1 DEF TracedTo
  <2>3. ~EarlyAsk(p, i) /\ ~EarlyContact(p, i)
    BY <1>1, <1>4 DEF EarlyAsk, EarlyContact, Says
  <2> QED
    BY <1>1, <1>2, <2>2, <2>3
<1>5. CASE m.content.dated
  <2>1. /\ d.reached = Reached(c, m, i)
        /\ d.fired = c.fired \cup (Derivable(c, m, i) \X {m.sender})
    BY <1>2, <1>5 DEF Folded
  <2>2. ASSUME NEW s \in Milestones
        PROVE  \/ d.reached[s] = c.reached[s]
               \/ s \in MilestonesIn(m) /\ d.reached[s] = i
    BY <2>1 DEF Reached, First
  <2>3. ASSUME NEW s \in Milestones, d.reached[s] # Never
        PROVE  d.reached[s] \in A \cup {i} /\ RecordedBy(s, d.reached[s])
    BY <1>1, <1>5, <2>2, <2>3 DEF TracedTo, RecordedBy
  <2>4. ASSUME NEW S, NEW s \in Milestones, d.reached[s] # Never, ~StageBy(i, S),
               RecordedBy(s, d.reached[s]) => chat[d.reached[s]].stage \in S
        PROVE  \E k \in A : k > i /\ chat[k].content.dated /\ chat[k].stage \in S
    <3>1. PICK k : k = d.reached[s]
      OBVIOUS
    <3>2. k \in A \cup {i} /\ RecordedBy(s, k) /\ chat[k].stage \in S /\ chat[k].content.dated
          /\ k \in Positions
      BY <2>3, <2>4, <3>1 DEF RecordedBy
    <3>3. k \notin 1 .. i
      BY <2>4, <3>2 DEF StageBy
    <3>4. k > i
      BY <1>3, <3>2, <3>3
    <3>5. k \in A
      BY <1>3, <3>2, <3>4
    <3> QED
      BY <3>2, <3>4, <3>5
  <2>5. ASSUME EarlyAsk(p, i)
        PROVE  \/ <<"money_ask_no_milestone", p>> \in d.fired
               \/ \E k \in A : k > i /\ chat[k].content.dated /\ chat[k].stage \in Meetings
    <3>1. p = m.sender /\ "money_ask" \in NamesIn(m) /\ ~StageBy(i, Meetings)
      BY <1>1, <2>5, StateSeedingNames, SeedingNames DEF EarlyAsk, Says
    <3>2. CASE Early(c, m, i)
      BY <2>1, <3>1, <3>2, DerivesEarlyAsk
    <3>3. CASE ~Early(c, m, i)
      <4>1. PICK s \in {"meet_scheduled", "ledger_credit", "handover_confirmed"} :
              d.reached[s] # Never
        BY <2>1, <3>1, <3>3 DEF Early, Met
      <4>2. RecordedBy(s, d.reached[s]) => chat[d.reached[s]].stage \in Meetings
        <5> SUFFICES ASSUME NEW k \in Positions, s \in MilestonesIn(chat[k])
                     PROVE  chat[k].stage \in Meetings
          BY DEF RecordedBy
        <5>1. chat[k] \in Message
          BY DEF Positions
        <5>2. chat[k].stage = s
          BY <5>1, MilestonesMean
        <5> QED
          BY <5>2 DEF Meetings, Priced
      <4> QED
        BY <2>4, <3>1, <4>1, <4>2 DEF Milestones
    <3> QED
      BY <3>2, <3>3
  <2>6. ASSUME EarlyContact(p, i)
        PROVE  \/ <<"contact_share_pre_milestone", p>> \in d.fired
               \/ \E k \in A : k > i /\ chat[k].content.dated /\ chat[k].stage \in Priced
    <3>1. p = m.sender /\ "contact_share" \in NamesIn(m) /\ ~StageBy(i, Priced)
      BY <1>1, <2>6, StateSeedingNames, SeedingNames DEF EarlyContact, Says
    <3>2. CASE Reached(c, m, i)["price_agreed"] = Never
      BY <2>1, <3>1, <3>2, DerivesContact
    <3>3. CASE Reached(c, m, i)["price_agreed"] # Never
      <4>1. RecordedBy("price_agreed", d.reached["price_agreed"])
              => chat[d.reached["price_agreed"]].stage \in Priced
        <5> SUFFICES ASSUME NEW k \in Positions, "price_agreed" \in MilestonesIn(chat[k])
                     PROVE  chat[k].stage \in Priced
          BY DEF RecordedBy
        <5>1. chat[k] \in Message
          BY DEF Positions
        <5> QED
          BY <5>1, MilestonesMean
      <4> QED
        BY <2>1, <2>4, <3>1, <3>3, <4>1 DEF Milestones
    <3> QED
      BY <3>2, <3>3
  <2>7. TracedTo(d, A \cup {i})
    BY <2>3 DEF TracedTo
  <2> QED
    BY <1>1, <1>2, <2>5, <2>6, <2>7
<1> QED
  BY <1>4, <1>5

LEMMA NewIsTraced == TracedTo(NewBlob, {})
BY DEF TracedTo, NewBlob

LEMMA HiddenInit == Init => HiddenInv
<1> SUFFICES ASSUME Init PROVE HiddenInv
  OBVIOUS
<1>1. SoundInv
  BY SoundInit
<1>2. Arrived = {} /\ conv = NewBlob
  BY DEF Init, Arrived
<1> QED
  BY <1>1, <1>2, NewIsTraced DEF HiddenInv, OnlyOvertakingHides

LEMMA SendHidden ==
  ASSUME HiddenInv, NEW m \in Message, Send(m)
  PROVE  TracedTo(conv, Arrived)' /\ OnlyOvertakingHides'
<1>0. TypeOK
  BY DEF HiddenInv, SoundInv
<1>1. /\ Positions \subseteq Positions' /\ conv' = conv /\ arrived' = arrived
      /\ Positions = 1 .. Len(chat) /\ Len(chat) \in Nat
      /\ \A i \in Positions : chat'[i] = chat[i]
  BY <1>0, SendMeans
<1>2. Arrived' = Arrived /\ Arrived \subseteq Positions
      /\ \A k \in DOMAIN arrived : arrived[k] \in Positions
  BY <1>0, <1>1 DEF Arrived, TypeOK
<1>3. TracedTo(conv, Arrived)'
  BY <1>1, <1>2 DEF HiddenInv, TracedTo, RecordedBy
<1>4. ASSUME NEW i \in Arrived, NEW p \in Profiles
      PROVE  /\ EarlyAsk(p, i)' => EarlyAsk(p, i)
             /\ EarlyContact(p, i)' => EarlyContact(p, i)
  <2>1. \A j \in 1 .. i : j \in Positions /\ chat'[j] = chat[j]
    BY <1>1, <1>2
  <2>2. \A S : StageBy(i, S)' <=> StageBy(i, S)
    BY <2>1 DEF StageBy
  <2>3. \A name : Says(p, i, name)' => Says(p, i, name)
    BY <1>1, <1>2 DEF Says, Positions
  <2> QED
    BY <2>2, <2>3 DEF EarlyAsk, EarlyContact
<1>5. \A i, S : Overtaken(i, S) => Overtaken(i, S)'
  BY <1>1, <1>2 DEF Overtaken
<1>6. OnlyOvertakingHides'
  BY <1>1, <1>2, <1>4, <1>5 DEF HiddenInv, OnlyOvertakingHides
<1> QED
  BY <1>3, <1>6

LEMMA FoldHidden ==
  ASSUME HiddenInv, NEW i, FoldOf(i)
  PROVE  TracedTo(conv, Arrived)' /\ OnlyOvertakingHides'
<1>1. /\ TypeOK /\ chat \in Seq(Message) /\ arrived \in Seq(Positions) /\ conv \in Blob
      /\ TracedTo(conv, Arrived)
      /\ i \in Positions /\ UNCHANGED chat /\ arrived' = Append(arrived, i)
      /\ conv' \in {Folded(conv, chat[i], i), FoldedBefore(conv, chat[i], i)}
  BY DEF HiddenInv, SoundInv, TypeOK, FoldOf
<1>2. /\ Len(arrived) \in Nat
      /\ DOMAIN arrived = 1 .. Len(arrived) /\ DOMAIN arrived' = 1 .. (Len(arrived) + 1)
      /\ \A k \in DOMAIN arrived : arrived'[k] = arrived[k]
      /\ arrived'[Len(arrived) + 1] = i
      /\ Arrived' = Arrived \cup {i}
  BY <1>1, ArrivedGrows
<1>3. Arrived \in SUBSET Positions
  BY <1>1 DEF Arrived
<1>4. PICK d : d = Folded(conv, chat[i], i)
  OBVIOUS
<1>13. conv'.reached = d.reached /\ conv'.fired = d.fired
  <2>1. chat[i] \in Message /\ i \in Nat
    BY <1>1 DEF Positions
  <2>2. PICK b : b = FoldedBefore(conv, chat[i], i)
    OBVIOUS
  <2>3. b.reached = d.reached /\ b.fired = d.fired
    BY <1>1, <1>4, <2>1, <2>2, FoldedBeforeMeans
  <2> QED
    BY <1>1, <1>4, <2>2, <2>3
<1>5. ASSUME NEW p \in Profiles
      PROVE  /\ TracedTo(d, Arrived \cup {i})
             /\ EarlyAsk(p, i) =>
                  \/ <<"money_ask_no_milestone", p>> \in d.fired
                  \/ \E k \in Arrived : k > i /\ chat[k].content.dated /\ chat[k].stage \in Meetings
             /\ EarlyContact(p, i) =>
                  \/ <<"contact_share_pre_milestone", p>> \in d.fired
                  \/ \E k \in Arrived : k > i /\ chat[k].content.dated /\ chat[k].stage \in Priced
  BY <1>1, <1>3, <1>4, FoldHides
<1>6. chat[i].sender \in Profiles
  BY <1>1, MessageType DEF Positions
<1>7. TracedTo(conv, Arrived)'
  <2>1. TracedTo(d, Arrived \cup {i})
    BY <1>5, <1>6
  <2>2. \A s, j : RecordedBy(s, j)' <=> RecordedBy(s, j)
    BY <1>1 DEF RecordedBy, Positions
  <2> QED
    BY <1>2, <1>13, <2>1, <2>2 DEF TracedTo
<1>8. conv.fired \subseteq d.fired
  BY <1>4 DEF Folded
<1>9. \A p, j : (EarlyAsk(p, j)' <=> EarlyAsk(p, j)) /\ (EarlyContact(p, j)' <=> EarlyContact(p, j))
  BY <1>1 DEF EarlyAsk, EarlyContact, Says, StageBy
<1>10. \A S, j : Overtaken(j, S) => Overtaken(j, S)'
  <2> SUFFICES ASSUME NEW S, NEW j, Overtaken(j, S) PROVE Overtaken(j, S)'
    OBVIOUS
  <2>1. PICK x, y \in DOMAIN arrived :
          /\ x < y /\ arrived[y] = j /\ arrived[x] > j
          /\ chat[arrived[x]].content.dated /\ chat[arrived[x]].stage \in S
    BY DEF Overtaken
  <2>2. x \in DOMAIN arrived' /\ y \in DOMAIN arrived'
        /\ arrived'[x] = arrived[x] /\ arrived'[y] = arrived[y]
    BY <1>2, <2>1
  <2> QED
    BY <1>1, <2>1, <2>2 DEF Overtaken
<1>11. ASSUME NEW S, NEW k \in Arrived, k > i, chat[k].content.dated, chat[k].stage \in S
       PROVE  Overtaken(i, S)'
  <2>1. PICK x \in DOMAIN arrived : arrived[x] = k
    BY DEF Arrived
  <2>2. PICK y : y = Len(arrived) + 1
    OBVIOUS
  <2>3. x \in DOMAIN arrived' /\ y \in DOMAIN arrived' /\ x < y
        /\ arrived'[x] = k /\ arrived'[y] = i
    BY <1>2, <2>1, <2>2
  <2> QED
    BY <1>1, <1>11, <2>3 DEF Overtaken
<1>12. OnlyOvertakingHides'
  <2> SUFFICES ASSUME NEW j \in Arrived', NEW p \in Profiles
               PROVE  /\ EarlyAsk(p, j) =>
                           <<"money_ask_no_milestone", p>> \in d.fired \/ Overtaken(j, Meetings)'
                      /\ EarlyContact(p, j) =>
                           <<"contact_share_pre_milestone", p>> \in d.fired
                           \/ Overtaken(j, Priced)'
    BY <1>9, <1>13 DEF OnlyOvertakingHides
  <2>1. CASE j = i
    BY <1>5, <1>11, <2>1
  <2>2. CASE j \in Arrived
    <3>1. /\ EarlyAsk(p, j) =>
               <<"money_ask_no_milestone", p>> \in conv.fired \/ Overtaken(j, Meetings)
          /\ EarlyContact(p, j) =>
               <<"contact_share_pre_milestone", p>> \in conv.fired \/ Overtaken(j, Priced)
      BY <2>2 DEF HiddenInv, OnlyOvertakingHides
    <3> QED
      BY <1>8, <1>10, <3>1
  <2> QED
    BY <1>2, <2>1, <2>2
<1> QED
  BY <1>7, <1>12

LEMMA HiddenNext == HiddenInv /\ [Next]_vars => HiddenInv'
<1> SUFFICES ASSUME HiddenInv, [Next]_vars PROVE HiddenInv'
  OBVIOUS
<1>1. SoundInv'
  BY SoundNext DEF HiddenInv
<1>2. CASE UNCHANGED vars
  <2>1. TracedTo(conv, Arrived)'
    BY <1>2 DEF vars, HiddenInv, TracedTo, RecordedBy, Arrived, Positions
  <2>2. OnlyOvertakingHides'
    <3>1. chat' = chat /\ arrived' = arrived /\ conv' = conv
      BY <1>2 DEF vars
    <3>2. Arrived' = Arrived
      BY <3>1 DEF Arrived
    <3>3. \A p, i : (EarlyAsk(p, i)' <=> EarlyAsk(p, i))
                     /\ (EarlyContact(p, i)' <=> EarlyContact(p, i))
      BY <3>1 DEF EarlyAsk, EarlyContact, Says, StageBy
    <3>4. \A i, S : Overtaken(i, S)' <=> Overtaken(i, S)
      BY <3>1 DEF Overtaken
    <3> QED
      BY <3>1, <3>2, <3>3, <3>4 DEF HiddenInv, OnlyOvertakingHides
  <2> QED
    BY <1>1, <2>1, <2>2 DEF HiddenInv
<1> QED
  BY <1>1, <1>2, SendHidden, FoldHidden, FoldsMean DEF Next, HiddenInv

(* An early ask or contact that has arrived raises its tag, unless the     *)
(* record of a later milestone was folded before (the stages are kept by   *)
(* the first record, not by the chat).                                     *)
THEOREM OnlyMilestonesHide == Spec => []OnlyOvertakingHides
<1>1. HiddenInv => OnlyOvertakingHides
  BY DEF HiddenInv
<1> QED
  BY <1>1, HiddenInit, HiddenNext, PTL DEF Spec

(***************************************************************************)
(* Records in order.  After n records in order, of which the older version *)
(* folded the first o, the blob is an exact digest of the first n          *)
(* messages: when each milestone and each party's first ask came, who      *)
(* claimed an identity, how many turns there were.  Of the asks in the     *)
(* first o messages it need only hold those of the original asker.         *)
(***************************************************************************)
FirstRecorded(c, n) ==
  \A s \in Milestones :
    /\ c.reached[s] # Never => c.reached[s] \in 1 .. n /\ RecordedBy(s, c.reached[s])
    /\ \A j \in 1 .. n : RecordedBy(s, j) => c.reached[s] # Never /\ c.reached[s] <= j

(* The asks that count are those the older version did not lose.           *)
Kept(p, a, o) == Says(p, a, "money_ask") /\ (a > o \/ AskedFirst(p))

FirstKept(asks, n, o) ==
  \A p \in Profiles :
    /\ asks[p] # Never => asks[p] \in 1 .. n /\ Kept(p, asks[p], o)
    /\ \A j \in 1 .. n : Kept(p, j, o) => asks[p] # Never /\ asks[p] <= j

(* first tells the very first ask of the conversation.                     *)
FirstOfAll(first, n) ==
  \/ first = NoAskers /\ \A j \in 1 .. n, q \in Profiles : ~Says(q, j, "money_ask")
  \/ \E p \in Profiles, a \in 1 .. n :
       /\ Says(p, a, "money_ask")
       /\ \A j \in 1 .. (a - 1), q \in Profiles : ~Says(q, j, "money_ask")
       /\ first = [NoAskers EXCEPT ![p] = a]

AllClaimed(c, n) ==
  \A p \in Profiles : p \in c.claimants <=> \E j \in 1 .. n : Says(p, j, "identity_claim")

DatedUpTo(n) == {j \in 1 .. n : chat[j].content.dated}

(* The conduct that message i completes.                                   *)
At(tag, p, i, o) ==
  \/ tag = "money_ask_no_milestone" /\ EarlyAsk(p, i)
  \/ /\ tag = "identity_then_money"
     /\ EarlyAsk(p, i) /\ \E j \in 1 .. i : Says(p, j, "identity_claim")
  \/ /\ tag = "fee_escalation"
     /\ \E a \in 1 .. i : SecondAsk(p, a, i) /\ (a > o \/ AskedFirst(p))
  \/ /\ tag = "jumped_deposit"
     /\ \E j \in 1 .. i :
          Demand(p, i, j) /\ \A k \in 1 .. (j - 1) : ~(/\ chat[k].stage = "ledger_credit_small"
                                                       /\ chat[k].content.dated)
  \/ /\ tag = "channel_shift_early"
     /\ Says(p, i, "channel_shift_request")
     /\ \/ i <= 2
        \/ ~chat[i].content.indexed /\ Cardinality(DatedUpTo(i)) <= 2
  \/ tag = "contact_share_pre_milestone" /\ EarlyContact(p, i)
  \/ tag = "categorical_block" /\ Blocked(p, i)

AllFired(c, n, o) ==
  \A tag \in Tags, p \in Profiles : <<tag, p>> \in c.fired <=> \E i \in 1 .. n : At(tag, p, i, o)

Exact(c, n, o) ==
  /\ FirstRecorded(c, n)
  /\ FirstOfAll(c.firstAsk, n)
  /\ FirstKept(AskersOnFile(c), n, o)
  /\ AllClaimed(c, n)
  /\ c.turns = Cardinality(DatedUpTo(n))
  /\ AllFired(c, n, o)

(* Who asked before is who asked first, or nobody.                         *)
LEMMA FirstIsKept ==
  ASSUME chat \in Seq(Message), NEW n \in Nat, 1 .. n \subseteq Positions,
         NEW first, FirstOfAll(first, n)
  PROVE  FirstKept(first, n, n)
<1> SUFFICES ASSUME NEW q \in Profiles
             PROVE  /\ first[q] # Never => first[q] \in 1 .. n /\ Kept(q, first[q], n)
                    /\ \A j \in 1 .. n : Kept(q, j, n) => first[q] # Never /\ first[q] <= j
  BY DEF FirstKept
<1>1. NoAskers \in [Profiles -> Nat] /\ NoAskers[q] = Never
  BY DEF NoAskers, Never
<1>2. \A j \in 1 .. n : Kept(q, j, n) => Says(q, j, "money_ask") /\ AskedFirst(q)
  BY DEF Kept
<1>3. CASE first = NoAskers /\ \A j \in 1 .. n, p \in Profiles : ~Says(p, j, "money_ask")
  BY <1>1, <1>2, <1>3
<1>4. ASSUME NEW p \in Profiles, NEW a \in 1 .. n, Says(p, a, "money_ask"),
             \A j \in 1 .. (a - 1), r \in Profiles : ~Says(r, j, "money_ask"),
             first = [NoAskers EXCEPT ![p] = a]
      PROVE  /\ first[q] # Never => first[q] \in 1 .. n /\ Kept(q, first[q], n)
             /\ \A j \in 1 .. n : Kept(q, j, n) => first[q] # Never /\ first[q] <= j
  <2>1. first[q] = IF q = p THEN a ELSE Never
    BY <1>1, <1>4
  <2>2. AskedFirst(p)
    BY <1>4 DEF AskedFirst, Positions
  <2>3. first[q] # Never => first[q] \in 1 .. n /\ Kept(q, first[q], n)
    BY <1>4, <2>1, <2>2 DEF Kept
  <2>4. ASSUME NEW j \in 1 .. n, Kept(q, j, n)
        PROVE  first[q] # Never /\ first[q] <= j
    <3>1. PICK b \in DOMAIN chat :
            /\ Says(q, b, "money_ask")
            /\ \A k \in 1 .. (b - 1), r \in Profiles : ~Says(r, k, "money_ask")
      BY <1>2, <2>4 DEF AskedFirst
    <3>2. b \in Nat /\ a \in Nat /\ b >= 1 /\ a >= 1 /\ j \in Nat /\ j >= 1
      OBVIOUS
    <3>3. a \notin 1 .. (b - 1) /\ b \notin 1 .. (a - 1)
      BY <1>4, <3>1
    <3>4. a = b
      BY <3>2, <3>3
    <3>5. q = p
      BY <1>4, <3>1, <3>4 DEF Says
    <3>6. j \notin 1 .. (a - 1)
      BY <1>2, <1>4, <2>4
    <3> QED
      BY <2>1, <3>2, <3>5, <3>6 DEF Never
  <2> QED
    BY <2>3, <2>4
<1> QED
  BY <1>3, <1>4 DEF FirstOfAll

LEMMA DerivableIff ==
  ASSUME NEW c, NEW m, NEW ts, NEW tag \in Tags
  PROVE  tag \in Derivable(c, m, ts) <=>
           \/ tag = "money_ask_no_milestone" /\ Early(c, m, ts)
           \/ /\ tag = "identity_then_money"
              /\ Early(c, m, ts) /\ m.sender \in Claimants(c, m)
           \/ /\ tag = "fee_escalation"
              /\ "money_ask" \in NamesIn(m)
              /\ Escalates(Askers(c, m, ts)[m.sender], Reached(c, m, ts)["ledger_credit"], ts)
           \/ /\ tag = "jumped_deposit"
              /\ NamesIn(m) \cap {"payee_asked_to_act", "money_ask"} # {}
              /\ Jumped(Reached(c, m, ts)["ledger_credit_small"], ts)
           \/ /\ tag = "channel_shift_early"
              /\ "channel_shift_request" \in NamesIn(m)
              /\ (IF m.content.indexed THEN ts ELSE c.turns + 1) <= 2
           \/ /\ tag = "contact_share_pre_milestone"
              /\ "contact_share" \in NamesIn(m) /\ Reached(c, m, ts)["price_agreed"] = Never
           \/ tag = "categorical_block" /\ tag \in NamesIn(m)
BY DEF Derivable, Early, Tags

LEMMA DatedFinite ==
  ASSUME NEW n \in Nat
  PROVE  /\ IsFiniteSet(DatedUpTo(n))
         /\ Cardinality(DatedUpTo(n)) \in Nat /\ Cardinality(DatedUpTo(n)) <= n
<1>1. IsFiniteSet(1 .. n) /\ Cardinality(1 .. n) = n
  BY FS_Interval
<1>2. DatedUpTo(n) \subseteq 1 .. n
  BY DEF DatedUpTo
<1> QED
  BY <1>1, <1>2, FS_Subset, FS_CardinalityType

LEMMA RecordsStage ==
  ASSUME chat \in Seq(Message), NEW j \in Positions, NEW s \in Milestones \ {"price_agreed"}
  PROVE  RecordedBy(s, j) <=> chat[j].content.dated /\ chat[j].stage = s
<1>1. chat[j] \in Message
  BY DEF Positions
<1>2. s # "none"
  BY DEF Milestones
<1> QED
  BY <1>1, <1>2, MilestonesMean DEF RecordedBy

LEMMA RecordsPrice ==
  ASSUME chat \in Seq(Message), NEW j \in Positions
  PROVE  RecordedBy("price_agreed", j) <=> chat[j].content.dated /\ chat[j].stage \in Priced
<1>1. chat[j] \in Message
  BY DEF Positions
<1> QED
  BY <1>1, MilestonesMean DEF RecordedBy

(* A digest of milestones answers whether the deal was at a stage.         *)
LEMMA ReachedBy ==
  ASSUME chat \in Seq(Message), NEW n, 1 .. n \subseteq Positions, NEW c, FirstRecorded(c, n),
         NEW s \in Milestones \ {"price_agreed"}
  PROVE  c.reached[s] # Never <=> StageBy(n, {s})
<1>1. \A j \in 1 .. n : RecordedBy(s, j) <=> chat[j].content.dated /\ chat[j].stage = s
  BY RecordsStage
<1> QED
  BY <1>1 DEF FirstRecorded, StageBy

LEMMA PricedBy ==
  ASSUME chat \in Seq(Message), NEW n, 1 .. n \subseteq Positions, NEW c, FirstRecorded(c, n)
  PROVE  c.reached["price_agreed"] # Never <=> StageBy(n, Priced)
<1>1. \A j \in 1 .. n :
        RecordedBy("price_agreed", j) <=> chat[j].content.dated /\ chat[j].stage \in Priced
  BY RecordsPrice
<1> QED
  BY <1>1 DEF FirstRecorded, StageBy, Milestones

LEMMA MetBy ==
  ASSUME chat \in Seq(Message), NEW n, 1 .. n \subseteq Positions, NEW c, FirstRecorded(c, n)
  PROVE  Met(c.reached) <=> StageBy(n, Meetings)
<1>1. \A s \in {"meet_scheduled", "ledger_credit", "handover_confirmed"} :
        c.reached[s] # Never <=> StageBy(n, {s})
  BY ReachedBy DEF Milestones
<1>2. Meetings = {"meet_scheduled", "ledger_credit", "handover_confirmed"}
  BY DEF Meetings, Priced
<1>3. StageBy(n, Meetings) <=> \E s \in Meetings : StageBy(n, {s})
  BY DEF StageBy
<1> QED
  BY <1>1, <1>2, <1>3 DEF Met

(* The digest of one message more.                                         *)
LEMMA FoldDigest ==
  ASSUME chat \in Seq(Message), NEW n \in Nat, n + 1 \in Positions, NEW o \in 0 .. n,
         NEW c \in Blob, Exact(c, n, o), chat[n + 1].content.dated
  PROVE  /\ FirstRecorded(Folded(c, chat[n + 1], n + 1), n + 1)
         /\ FirstOfAll(Folded(c, chat[n + 1], n + 1).firstAsk, n + 1)
         /\ FirstKept(Folded(c, chat[n + 1], n + 1).askers, n + 1, o)
         /\ AllClaimed(Folded(c, chat[n + 1], n + 1), n + 1)
         /\ c.turns + 1 = Cardinality(DatedUpTo(n + 1))
<1>1. PICK i, m : i = n + 1 /\ m = chat[i]
  OBVIOUS
<1>2. m \in Message /\ i \in Positions /\ m.content.dated /\ i # Never /\ i \in Nat
  BY <1>1 DEF Positions, Never
<1>3. PICK d : d = Folded(c, m, i)
  OBVIOUS
<1>4. /\ d.reached = Reached(c, m, i) /\ d.claimants = Claimants(c, m)
      /\ d.askers = Askers(c, m, i)
      /\ d.firstAsk = IF "money_ask" \in NamesIn(m) /\ c.firstAsk = NoAskers
                      THEN [NoAskers EXCEPT ![m.sender] = i] ELSE c.firstAsk
  BY <1>2, <1>3 DEF Folded
<1>5. /\ \A j : j \in 1 .. i <=> j \in 1 .. n \/ j = i
      /\ \A j \in 1 .. n : j <= i /\ j \in Nat
      /\ i \notin 1 .. n /\ i \in 1 .. i /\ i <= i
  BY <1>1
<1>6. /\ c.reached \in [Milestones -> Nat] /\ AskersOnFile(c) \in [Profiles -> Nat]
      /\ m.sender \in Profiles /\ c.claimants \subseteq Profiles
  BY <1>2, MessageType DEF Blob, AskersOnFile
<1>7. \A p \in Profiles, name \in StateSeeding :
        Says(p, i, name) <=> p = m.sender /\ name \in NamesIn(m)
  BY <1>1, <1>2, StateSeedingNames DEF Says, Positions
<1>8. FirstRecorded(d, i)
  <2> SUFFICES ASSUME NEW s \in Milestones
               PROVE  /\ d.reached[s] # Never => d.reached[s] \in 1 .. i /\ RecordedBy(s, d.reached[s])
                      /\ \A j \in 1 .. i : RecordedBy(s, j)
                                         => d.reached[s] # Never /\ d.reached[s] <= j
    BY DEF FirstRecorded
  <2>1. d.reached[s] = IF s \in MilestonesIn(m) THEN First(c.reached[s], i) ELSE c.reached[s]
    BY <1>4 DEF Reached
  <2>2. RecordedBy(s, i) <=> s \in MilestonesIn(m)
    BY <1>1, <1>2 DEF RecordedBy
  <2>3. /\ c.reached[s] # Never => c.reached[s] \in 1 .. n /\ RecordedBy(s, c.reached[s])
        /\ \A j \in 1 .. n : RecordedBy(s, j) => c.reached[s] # Never /\ c.reached[s] <= j
    BY DEF Exact, FirstRecorded
  <2>4. CASE c.reached[s] = Never /\ s \in MilestonesIn(m)
    <3>1. d.reached[s] = i
      BY <2>1, <2>4 DEF First
    <3> QED
      BY <1>2, <1>5, <2>2, <2>3, <2>4, <3>1
  <2>5. CASE c.reached[s] = Never /\ s \notin MilestonesIn(m)
    BY <1>5, <2>1, <2>2, <2>3, <2>5
  <2>6. CASE c.reached[s] # Never
    <3>1. d.reached[s] = c.reached[s]
      BY <2>1, <2>6 DEF First
    <3> QED
      BY <1>5, <2>3, <2>6, <3>1
  <2> QED
    BY <2>4, <2>5, <2>6
<1>9. FirstKept(d.askers, i, o)
  <2> SUFFICES ASSUME NEW p \in Profiles
               PROVE  /\ d.askers[p] # Never => d.askers[p] \in 1 .. i /\ Kept(p, d.askers[p], o)
                      /\ \A j \in 1 .. i : Kept(p, j, o) => d.askers[p] # Never /\ d.askers[p] <= j
    BY DEF FirstKept
  <2> DEFINE old == AskersOnFile(c)[p]
  <2>1. d.askers[p] = IF p = m.sender /\ "money_ask" \in NamesIn(m) THEN First(old, i) ELSE old
    BY <1>4, <1>6 DEF Askers
  <2>2. Kept(p, i, o) <=> p = m.sender /\ "money_ask" \in NamesIn(m)
    <3>1. i > o
      BY <1>1
    <3> QED
      BY <1>7, <3>1, SeedingNames DEF Kept
  <2>3. /\ old # Never => old \in 1 .. n /\ Kept(p, old, o)
        /\ \A j \in 1 .. n : Kept(p, j, o) => old # Never /\ old <= j
    BY DEF Exact, FirstKept
  <2> HIDE DEF old
  <2>4. CASE old = Never /\ Kept(p, i, o)
    <3>1. d.askers[p] = i
      BY <2>1, <2>2, <2>4 DEF First
    <3> QED
      BY <1>2, <1>5, <2>2, <2>3, <2>4, <3>1
  <2>5. CASE old = Never /\ ~Kept(p, i, o)
    BY <1>5, <2>1, <2>2, <2>3, <2>5
  <2>6. CASE old # Never
    <3>1. d.askers[p] = old
      BY <2>1, <2>6 DEF First
    <3> QED
      BY <1>5, <2>3, <2>6, <3>1
  <2> QED
    BY <2>4, <2>5, <2>6
<1>12. FirstOfAll(d.firstAsk, i)
  <2>1. CASE c.firstAsk = NoAskers
    <3>1. \A j \in 1 .. n, q \in Profiles : ~Says(q, j, "money_ask")
      <4> SUFFICES ASSUME NEW p \in Profiles, NEW a \in 1 .. n, c.firstAsk = [NoAskers EXCEPT ![p] = a]
                   PROVE  FALSE
        BY DEF Exact, FirstOfAll
      <4>1. NoAskers[p] = Never /\ c.firstAsk[p] = a /\ a # Never
        BY DEF NoAskers, Never
      <4> QED
        BY <2>1, <4>1
    <3>2. CASE "money_ask" \in NamesIn(m)
      <4>1. d.firstAsk = [NoAskers EXCEPT ![m.sender] = i]
        BY <1>4, <2>1, <3>2
      <4>2. Says(m.sender, i, "money_ask")
        BY <1>6, <1>7, <3>2, SeedingNames
      <4>3. 1 .. (i - 1) = 1 .. n
        BY <1>1
      <4> QED
        BY <1>5, <1>6, <3>1, <4>1, <4>2, <4>3 DEF FirstOfAll
    <3>3. CASE "money_ask" \notin NamesIn(m)
      <4>1. \A q \in Profiles : ~Says(q, i, "money_ask")
        BY <1>7, <3>3, SeedingNames
      <4>2. d.firstAsk = NoAskers
        BY <1>4, <2>1, <3>3
      <4> QED
        BY <1>5, <3>1, <4>1, <4>2 DEF FirstOfAll
    <3> QED
      BY <3>2, <3>3
  <2>2. CASE c.firstAsk # NoAskers
    <3>1. d.firstAsk = c.firstAsk
      BY <1>4, <2>2
    <3> QED
      BY <1>5, <2>2, <3>1 DEF Exact, FirstOfAll
  <2> QED
    BY <2>1, <2>2
<1>10. AllClaimed(d, i)
  <2> SUFFICES ASSUME NEW p \in Profiles
               PROVE  p \in d.claimants <=> \E j \in 1 .. i : Says(p, j, "identity_claim")
    BY DEF AllClaimed
  <2>1. p \in c.claimants <=> \E j \in 1 .. n : Says(p, j, "identity_claim")
    BY DEF Exact, AllClaimed
  <2>2. Says(p, i, "identity_claim") <=> p = m.sender /\ "identity_claim" \in NamesIn(m)
    BY <1>7, SeedingNames
  <2>3. p \in d.claimants <=> p \in c.claimants \/ (p = m.sender /\ "identity_claim" \in NamesIn(m))
    BY <1>4 DEF Claimants
  <2> QED
    BY <1>5, <2>1, <2>2, <2>3
<1>11. c.turns + 1 = Cardinality(DatedUpTo(i))
  <2>1. DatedUpTo(i) = DatedUpTo(n) \cup {i} /\ i \notin DatedUpTo(n)
    BY <1>1, <1>2, <1>5 DEF DatedUpTo
  <2>2. Cardinality(DatedUpTo(n) \cup {i}) = Cardinality(DatedUpTo(n)) + 1
    BY <2>1, DatedFinite, FS_AddElement
  <2> QED
    BY <2>1, <2>2 DEF Exact
<1> QED
  BY <1>1, <1>3, <1>8, <1>9, <1>10, <1>11, <1>12

(* What a fold derives is the conduct that its message completes.          *)
LEMMA DerivesConduct ==
  ASSUME chat \in Seq(Message), NEW n \in Nat, n + 1 \in Positions, NEW o \in 0 .. n,
         NEW c \in Blob, Exact(c, n, o), chat[n + 1].content.dated, NEW tag \in Tags
  PROVE  tag \in Derivable(c, chat[n + 1], n + 1) <=> At(tag, chat[n + 1].sender, n + 1, o)
<1>1. PICK i, m : i = n + 1 /\ m = chat[i]
  OBVIOUS
<1>2. PICK p : p = m.sender
  OBVIOUS
<1>3. /\ m \in Message /\ i \in Positions /\ m.content.dated /\ i # Never /\ i \in Nat
      /\ p \in Profiles /\ 1 .. i \subseteq Positions /\ i \in 1 .. i
  <2>1. m \in Message /\ Positions = 1 .. Len(chat) /\ Len(chat) \in Nat
    BY <1>1 DEF Positions
  <2> QED
    BY <1>1, <1>2, <2>1, MessageType DEF Never
<1>4. PICK d : d = Folded(c, m, i)
  OBVIOUS
<1>5. /\ d.reached = Reached(c, m, i) /\ d.claimants = Claimants(c, m)
      /\ d.askers = Askers(c, m, i)
  BY <1>3, <1>4 DEF Folded
<1>6. /\ FirstRecorded(d, i) /\ FirstKept(d.askers, i, o) /\ AllClaimed(d, i)
      /\ c.turns + 1 = Cardinality(DatedUpTo(i))
  BY <1>1, <1>3, <1>4, FoldDigest
<1>7. \A name \in StateSeeding : Says(p, i, name) <=> name \in NamesIn(m)
  BY <1>1, <1>2, <1>3, StateSeedingNames DEF Says, Positions
<1>8. Early(c, m, i) <=> EarlyAsk(p, i)
  BY <1>3, <1>5, <1>6, <1>7, MetBy, SeedingNames DEF Early, EarlyAsk
<1>9. m.sender \in Claimants(c, m) <=> \E j \in 1 .. i : Says(p, j, "identity_claim")
  BY <1>2, <1>3, <1>5, <1>6 DEF AllClaimed
<1>10. "money_ask" \in NamesIn(m) /\ Escalates(d.askers[p], d.reached["ledger_credit"], i)
         <=> \E a \in 1 .. i : SecondAsk(p, a, i) /\ (a > o \/ AskedFirst(p))
  <2> DEFINE asked == d.askers[p]
             credited == d.reached["ledger_credit"]
  <2>1. /\ asked # Never => asked \in 1 .. i /\ Kept(p, asked, o)
        /\ \A j \in 1 .. i : Kept(p, j, o) => asked # Never /\ asked <= j
    BY <1>3, <1>6 DEF FirstKept
  <2>2. /\ credited # Never =>
             credited \in 1 .. i /\ chat[credited].content.dated /\ chat[credited].stage = "ledger_credit"
        /\ \A j \in 1 .. i : chat[j].content.dated /\ chat[j].stage = "ledger_credit"
                             => credited # Never /\ credited <= j
    <3>1. /\ credited # Never => credited \in 1 .. i /\ RecordedBy("ledger_credit", credited)
          /\ \A j \in 1 .. i : RecordedBy("ledger_credit", j) => credited # Never /\ credited <= j
      BY <1>6 DEF FirstRecorded, Milestones
    <3>2. \A j \in 1 .. i : RecordedBy("ledger_credit", j)
                             <=> chat[j].content.dated /\ chat[j].stage = "ledger_credit"
      BY <1>3, RecordsStage DEF Milestones
    <3> QED
      BY <3>1, <3>2
  <2> HIDE DEF asked, credited
  <2>3. ASSUME "money_ask" \in NamesIn(m), Escalates(asked, credited, i)
        PROVE  \E a \in 1 .. i : SecondAsk(p, a, i) /\ (a > o \/ AskedFirst(p))
    <3>1. Says(p, i, "money_ask") /\ Kept(p, i, o)
      BY <1>1, <1>7, <2>3, SeedingNames DEF Kept
    <3>2. asked \in 1 .. i /\ Says(p, asked, "money_ask") /\ asked \in Nat
          /\ (asked > o \/ AskedFirst(p))
      BY <1>3, <2>1, <3>1 DEF Kept
    <3>3. credited # Never /\ credited \in 1 .. i /\ asked < credited
      BY <2>2, <2>3 DEF Escalates
    <3>4. StageBy(i, {"ledger_credit"})
      BY <2>2, <3>3 DEF StageBy
    <3>5. ~StageBy(asked, {"ledger_credit"})
      <4> SUFFICES ASSUME NEW j \in 1 .. asked, chat[j].content.dated,
                          chat[j].stage = "ledger_credit"
                   PROVE  FALSE
        BY DEF StageBy
      <4>1. j \in 1 .. i /\ j <= asked
        BY <1>3, <3>2
      <4>2. credited <= j
        BY <2>2, <4>1
      <4> QED
        BY <1>3, <3>2, <3>3, <4>1, <4>2
    <3> QED
      BY <3>1, <3>2, <3>4, <3>5 DEF SecondAsk
  <2>4. ASSUME NEW a \in 1 .. i, SecondAsk(p, a, i), a > o \/ AskedFirst(p)
        PROVE  "money_ask" \in NamesIn(m) /\ Escalates(asked, credited, i)
    <3>1. Says(p, a, "money_ask") /\ Says(p, i, "money_ask")
          /\ ~StageBy(a, {"ledger_credit"}) /\ StageBy(i, {"ledger_credit"})
      BY <2>4 DEF SecondAsk
    <3>2. credited # Never /\ credited \in 1 .. i
      BY <2>2, <3>1 DEF StageBy
    <3>3. credited \notin 1 .. a
      BY <2>2, <3>1, <3>2 DEF StageBy
    <3>4. asked # Never /\ asked \in 1 .. i /\ asked <= a
      BY <2>1, <2>4, <3>1 DEF Kept
    <3>5. asked < credited /\ credited <= i
      BY <1>3, <3>2, <3>3, <3>4
    <3> QED
      BY <1>7, <3>1, <3>2, <3>5, SeedingNames DEF Escalates
  <2> QED
    BY <2>3, <2>4 DEF asked, credited
<1>11. NamesIn(m) \cap {"payee_asked_to_act", "money_ask"} # {} /\ Jumped(d.reached["ledger_credit_small"], i)
         <=> \E j \in 1 .. i :
               Demand(p, i, j) /\ \A k \in 1 .. (j - 1) : ~(/\ chat[k].stage = "ledger_credit_small"
                                                            /\ chat[k].content.dated)
  <2> DEFINE small == d.reached["ledger_credit_small"]
             IsSmall(j) == chat[j].stage = "ledger_credit_small" /\ chat[j].content.dated
  <2>1. /\ small # Never => small \in 1 .. i /\ IsSmall(small)
        /\ \A j \in 1 .. i : IsSmall(j) => small # Never /\ small <= j
    <3>1. /\ small # Never => small \in 1 .. i /\ RecordedBy("ledger_credit_small", small)
          /\ \A j \in 1 .. i : RecordedBy("ledger_credit_small", j) => small # Never /\ small <= j
      BY <1>6 DEF FirstRecorded, Milestones
    <3>2. \A j \in 1 .. i : RecordedBy("ledger_credit_small", j) <=> IsSmall(j)
      BY <1>3, RecordsStage DEF Milestones
    <3> HIDE DEF small, IsSmall
    <3> QED
      BY <3>1, <3>2
  <2>2. NamesIn(m) \cap {"payee_asked_to_act", "money_ask"} # {}
          <=> Says(p, i, "money_ask") \/ Says(p, i, "payee_asked_to_act")
    BY <1>7, SeedingNames
  <2>3. \A j : Demand(p, i, j) <=>
          /\ Says(p, i, "money_ask") \/ Says(p, i, "payee_asked_to_act")
          /\ j \in 1 .. i /\ IsSmall(j) /\ i - j <= Window
    BY DEF Demand
  <2> HIDE DEF small, IsSmall
  <2>4. ASSUME Jumped(small, i)
        PROVE  \E j \in 1 .. i : IsSmall(j) /\ i - j <= Window
                               /\ \A k \in 1 .. (j - 1) : ~IsSmall(k)
    <3>1. small \in 1 .. i /\ IsSmall(small) /\ i - small <= Window
      BY <2>1, <2>4 DEF Jumped
    <3>2. \A k \in 1 .. (small - 1) : ~IsSmall(k)
      <4> SUFFICES ASSUME NEW k \in 1 .. (small - 1), IsSmall(k) PROVE FALSE
        OBVIOUS
      <4>1. k \in 1 .. i /\ k < small
        BY <1>3, <3>1
      <4> QED
        BY <1>3, <2>1, <3>1, <4>1
    <3> QED
      BY <3>1, <3>2
  <2>5. ASSUME NEW j \in 1 .. i, IsSmall(j), i - j <= Window, \A k \in 1 .. (j - 1) : ~IsSmall(k)
        PROVE  Jumped(small, i)
    <3>1. small # Never /\ small \in 1 .. i /\ IsSmall(small) /\ small <= j
      BY <2>1, <2>5
    <3>2. small \notin 1 .. (j - 1)
      BY <2>5, <3>1
    <3>3. small = j /\ small <= i
      BY <1>3, <3>1, <3>2
    <3> QED
      BY <2>5, <3>1, <3>3 DEF Jumped
  <2>6. Jumped(small, i) <=> \E j \in 1 .. i : IsSmall(j) /\ i - j <= Window
                                             /\ \A k \in 1 .. (j - 1) : ~IsSmall(k)
    BY <2>4, <2>5
  <2>7. \A k : IsSmall(k) <=> chat[k].stage = "ledger_credit_small" /\ chat[k].content.dated
    BY DEF IsSmall
  <2>8. NamesIn(m) \cap {"payee_asked_to_act", "money_ask"} # {} /\ Jumped(small, i)
          <=> \E j \in 1 .. i : Demand(p, i, j) /\ \A k \in 1 .. (j - 1) : ~IsSmall(k)
    BY <2>2, <2>3, <2>6
  <2> QED
    BY <2>8 DEF small, IsSmall
<1>12. "channel_shift_request" \in NamesIn(m) /\ (IF m.content.indexed THEN i ELSE c.turns + 1) <= 2
         <=> /\ Says(p, i, "channel_shift_request")
             /\ \/ i <= 2
                \/ ~chat[i].content.indexed /\ Cardinality(DatedUpTo(i)) <= 2
  <2>1. Says(p, i, "channel_shift_request") <=> "channel_shift_request" \in NamesIn(m)
    BY <1>7, SeedingNames
  <2>2. Cardinality(DatedUpTo(i)) \in Nat /\ Cardinality(DatedUpTo(i)) <= i
    BY <1>3, DatedFinite
  <2>3. m.content.indexed \in BOOLEAN
    BY <1>3, MessageType
  <2> QED
    BY <1>1, <1>3, <1>6, <2>1, <2>2, <2>3
<1>13. "contact_share" \in NamesIn(m) /\ d.reached["price_agreed"] = Never <=> EarlyContact(p, i)
  BY <1>3, <1>6, <1>7, PricedBy, SeedingNames DEF EarlyContact
<1>14. "categorical_block" \in NamesIn(m) <=> Blocked(p, i)
  BY <1>1, <1>2, <1>3, BlockName DEF Blocked
<1>15. tag \in Derivable(c, m, i) <=> At(tag, p, i, o)
  BY <1>2, <1>5, <1>8, <1>9, <1>10, <1>11, <1>12, <1>13, <1>14, DerivableIff DEF At
<1> QED
  BY <1>1, <1>2, <1>15

(* Only the sender of a readable message completes anything with it.       *)
LEMMA OnlySenders ==
  ASSUME NEW tag, NEW p, NEW i, NEW o, At(tag, p, i, o)
  PROVE  p = chat[i].sender /\ chat[i].content.dated
BY DEF At, EarlyAsk, SecondAsk, Demand, EarlyContact, Blocked, Says

LEMMA FoldExact ==
  ASSUME chat \in Seq(Message), NEW n \in Nat, n + 1 \in Positions, NEW o \in 0 .. n,
         NEW c \in Blob, Exact(c, n, o)
  PROVE  Exact(Folded(c, chat[n + 1], n + 1), n + 1, o)
<1>1. PICK i, m : i = n + 1 /\ m = chat[i]
  OBVIOUS
<1>2. PICK d : d = Folded(c, m, i)
  OBVIOUS
<1>3. /\ m \in Message /\ i \in Positions /\ m.sender \in Profiles
      /\ \A j : j \in 1 .. i <=> j \in 1 .. n \/ j = i
  BY <1>1, MessageType DEF Positions
<1>4. CASE ~m.content.dated
  <2>1. /\ d.reached = c.reached /\ d.claimants = c.claimants /\ d.fired = c.fired
        /\ d.turns = c.turns /\ AskersOnFile(d) = AskersOnFile(c) /\ d.firstAsk = c.firstAsk
    <3>1. d = [c EXCEPT !.legacy = FALSE, !.askers = AskersOnFile(c)]
      BY <1>2, <1>4 DEF Folded
    <3>2. /\ d.reached = c.reached /\ d.claimants = c.claimants /\ d.fired = c.fired
          /\ d.turns = c.turns /\ d.legacy = FALSE /\ d.askers = AskersOnFile(c)
          /\ d.firstAsk = c.firstAsk
      BY <3>1 DEF Blob
    <3> QED
      BY <3>2 DEF AskersOnFile
  <2>2. /\ \A s : ~RecordedBy(s, i)
        /\ \A p, name : ~Says(p, i, name)
        /\ \A tag, p : ~At(tag, p, i, o)
    BY <1>1, <1>4, OnlySenders DEF RecordedBy, Says
  <2>3. DatedUpTo(i) = DatedUpTo(n)
    BY <1>1, <1>3, <1>4 DEF DatedUpTo
  <2>4. FirstRecorded(d, i)
    BY <1>3, <2>1, <2>2 DEF Exact, FirstRecorded
  <2>5. FirstKept(AskersOnFile(d), i, o)
    BY <1>3, <2>1, <2>2 DEF Exact, FirstKept, Kept
  <2>9. FirstOfAll(d.firstAsk, i)
    BY <1>3, <2>1, <2>2 DEF Exact, FirstOfAll
  <2>6. AllClaimed(d, i)
    BY <1>3, <2>1, <2>2 DEF Exact, AllClaimed
  <2>7. AllFired(d, i, o)
    BY <1>3, <2>1, <2>2 DEF Exact, AllFired
  <2>8. d.turns = Cardinality(DatedUpTo(i))
    BY <2>1, <2>3 DEF Exact
  <2> QED
    BY <1>1, <1>2, <2>4, <2>5, <2>6, <2>7, <2>8, <2>9 DEF Exact
<1>5. CASE m.content.dated
  <2>1. /\ d.turns = c.turns + 1 /\ d.legacy = FALSE
        /\ d.fired = c.fired \cup (Derivable(c, m, i) \X {m.sender})
    BY <1>2, <1>5 DEF Folded
  <2>2. AskersOnFile(d) = d.askers
    BY <2>1 DEF AskersOnFile
  <2>3. /\ FirstRecorded(d, i) /\ FirstKept(d.askers, i, o) /\ AllClaimed(d, i)
        /\ FirstOfAll(d.firstAsk, i)
        /\ c.turns + 1 = Cardinality(DatedUpTo(i))
    BY <1>1, <1>2, <1>5, FoldDigest
  <2>4. AllFired(d, i, o)
    <3> SUFFICES ASSUME NEW tag \in Tags, NEW p \in Profiles
                 PROVE  <<tag, p>> \in d.fired <=> \E j \in 1 .. i : At(tag, p, j, o)
      BY DEF AllFired
    <3>1. <<tag, p>> \in c.fired <=> \E j \in 1 .. n : At(tag, p, j, o)
      BY DEF Exact, AllFired
    <3>2. tag \in Derivable(c, m, i) <=> At(tag, m.sender, i, o)
      BY <1>1, <1>5, DerivesConduct
    <3>3. At(tag, p, i, o) => p = m.sender
      BY <1>1, OnlySenders
    <3>4. <<tag, p>> \in d.fired <=> <<tag, p>> \in c.fired \/ (tag \in Derivable(c, m, i) /\ p = m.sender)
      BY <2>1
    <3> QED
      BY <1>3, <3>1, <3>2, <3>3, <3>4
  <2> QED
    BY <1>1, <1>2, <2>1, <2>2, <2>3, <2>4 DEF Exact
<1> QED
  BY <1>4, <1>5

InOrder == \A k \in DOMAIN arrived : arrived[k] = k

OrderInv ==
  /\ TypeOK
  /\ older <= Len(arrived) /\ (conv.legacy => older = Len(arrived))
  /\ InOrder => Exact(conv, Len(arrived), older)

(* A fold of the older version leaves a digest of what it keeps.  Which of *)
(* the asks it folded had to be the original asker's was decided when the  *)
(* later one came, so that nothing is taken back.                          *)
LEMMA FoldBeforeExact ==
  ASSUME chat \in Seq(Message), NEW n \in Nat, n + 1 \in Positions,
         NEW c \in Blob, Exact(c, n, n)
  PROVE  Exact(FoldedBefore(c, chat[n + 1], n + 1), n + 1, n + 1)
<1>1. PICK i, d, b : /\ i = n + 1 /\ d = Folded(c, chat[n + 1], n + 1)
                     /\ b = FoldedBefore(c, chat[n + 1], n + 1)
  OBVIOUS
<1>2. /\ chat[n + 1] \in Message /\ i \in Nat /\ 1 .. i \subseteq Positions
      /\ n \in 0 .. n
  BY <1>1 DEF Positions
<1>3. /\ b.reached = d.reached /\ b.firstAsk = d.firstAsk /\ b.fired = d.fired
      /\ b.claimants = d.claimants /\ b.turns = d.turns /\ b.legacy = TRUE
  BY <1>1, <1>2, FoldedBeforeMeans
<1>4. Exact(d, i, n)
  BY <1>1, <1>2, FoldExact
<1>5. FirstKept(AskersOnFile(b), i, i)
  BY <1>2, <1>3, <1>4, FirstIsKept DEF Exact, AskersOnFile
<1>6. ASSUME NEW tag, NEW p, NEW k \in 1 .. i PROVE At(tag, p, k, i) <=> At(tag, p, k, n)
  <2>1. ASSUME NEW a \in 1 .. k, SecondAsk(p, a, k) PROVE ~(a > n) /\ ~(a > i)
    <3>1. a # k
      BY <2>1 DEF SecondAsk
    <3> QED
      BY <1>1, <3>1
  <2> QED
    BY <2>1 DEF At
<1>7. AllFired(b, i, i)
  BY <1>3, <1>4, <1>6 DEF Exact, AllFired
<1>8. Exact(b, i, i)
  BY <1>3, <1>4, <1>5, <1>7 DEF Exact, FirstRecorded, AllClaimed
<1> QED
  BY <1>1, <1>8

LEMMA NewIsExact == Exact(NewBlob, 0, 0)
<1>1. \A n \in 1 .. 0 : FALSE
  OBVIOUS
<1>2. DatedUpTo(0) = {}
  BY <1>1 DEF DatedUpTo
<1>3. /\ \A s \in Milestones : NewBlob.reached[s] = Never
      /\ AskersOnFile(NewBlob) = NoAskers /\ NewBlob.fired = {} /\ NewBlob.claimants = {}
      /\ NewBlob.turns = 0 /\ NewBlob.firstAsk = NoAskers
  BY DEF NewBlob, AskersOnFile
<1>4. \A p \in Profiles : NoAskers[p] = Never
  BY DEF NoAskers
<1>5. NewBlob.turns = Cardinality(DatedUpTo(0))
  BY <1>2, <1>3, FS_EmptySet
<1>6. FirstRecorded(NewBlob, 0)
  BY <1>1, <1>3 DEF FirstRecorded
<1>7. FirstKept(AskersOnFile(NewBlob), 0, 0)
  BY <1>1, <1>3, <1>4 DEF FirstKept
<1>9. FirstOfAll(NewBlob.firstAsk, 0)
  BY <1>1, <1>3 DEF FirstOfAll
<1>8. AllClaimed(NewBlob, 0) /\ AllFired(NewBlob, 0, 0)
  BY <1>1, <1>3 DEF AllClaimed, AllFired
<1> QED
  BY <1>5, <1>6, <1>7, <1>8, <1>9 DEF Exact

LEMMA OrderInit == Init => OrderInv
<1> SUFFICES ASSUME Init PROVE OrderInv
  OBVIOUS
<1>1. TypeOK
  BY TypeInit
<1>2. Len(arrived) = 0 /\ older = 0 /\ conv = NewBlob
  BY DEF Init
<1> QED
  BY <1>1, <1>2, NewIsExact DEF OrderInv

(* Messages after the n-th say nothing of the first n.                     *)
LEMMA SendExact ==
  ASSUME TypeOK, NEW m \in Message, Send(m), NEW n \in Nat, n <= Len(chat), NEW o,
         Exact(conv, n, o)
  PROVE  Exact(conv, n, o)'
<1>1. /\ conv' = conv /\ Positions \subseteq Positions'
      /\ Positions = 1 .. Len(chat) /\ Len(chat) \in Nat
      /\ \A j \in Positions : chat'[j] = chat[j]
  BY SendMeans
<1>2. \A j \in 1 .. n : j \in Positions /\ chat'[j] = chat[j] /\ 1 .. j \subseteq 1 .. n
  BY <1>1
<1>11. ASSUME NEW s, NEW j \in 1 .. n PROVE RecordedBy(s, j)' <=> RecordedBy(s, j)
  BY <1>1, <1>2 DEF RecordedBy
<1>3. ASSUME NEW p, NEW name, NEW j \in 1 .. n PROVE Says(p, j, name)' <=> Says(p, j, name)
  BY <1>1, <1>2 DEF Says, Positions
<1>4. ASSUME NEW S, NEW j \in 1 .. n PROVE StageBy(j, S)' <=> StageBy(j, S)
  BY <1>2 DEF StageBy
<1>12. ASSUME NEW j \in 1 .. n PROVE DatedUpTo(j)' = DatedUpTo(j)
  BY <1>2 DEF DatedUpTo
(* Who asked first does not change once somebody asked.                    *)
<1>13. ASSUME NEW p \in Profiles, NEW j \in 1 .. n, Says(p, j, "money_ask")
       PROVE  AskedFirst(p)' <=> AskedFirst(p)
  <2>1. \A q, k, name : k \in Positions => (Says(q, k, name)' <=> Says(q, k, name))
    BY <1>1 DEF Says, Positions
  <2>2. \A a \in Positions : 1 .. (a - 1) \subseteq Positions
    BY <1>1
  <2>3. AskedFirst(p) => AskedFirst(p)'
    BY <1>1, <2>1, <2>2 DEF AskedFirst, Positions
  <2>4. ASSUME AskedFirst(p)' PROVE AskedFirst(p)
    <3>1. PICK a \in Positions' :
            /\ Says(p, a, "money_ask")'
            /\ \A k \in 1 .. (a - 1), q \in Profiles : ~Says(q, k, "money_ask")'
      BY <2>4 DEF AskedFirst, Positions
    <3>2. j \notin 1 .. (a - 1)
      BY <1>2, <1>13, <2>1, <3>1
    <3>3. a \in Positions
      BY <1>1, <1>2, <3>1, <3>2, SendMeans
    <3> QED
      BY <2>1, <2>2, <3>1, <3>3 DEF AskedFirst, Positions
  <2> QED
    BY <2>3, <2>4
<1>5. ASSUME NEW tag, NEW p \in Profiles, NEW i \in 1 .. n PROVE At(tag, p, i, o)' <=> At(tag, p, i, o)
  <2>1. EarlyAsk(p, i)' <=> EarlyAsk(p, i)
    BY <1>3, <1>4 DEF EarlyAsk
  <2>2. EarlyContact(p, i)' <=> EarlyContact(p, i)
    BY <1>3, <1>4 DEF EarlyContact
  <2>3. \A a \in 1 .. i :
          (SecondAsk(p, a, i) /\ (a > o \/ AskedFirst(p)))'
            <=> SecondAsk(p, a, i) /\ (a > o \/ AskedFirst(p))
    <3>1. \A a \in 1 .. i : SecondAsk(p, a, i)' <=> SecondAsk(p, a, i)
      BY <1>2, <1>3, <1>4 DEF SecondAsk
    <3>2. \A a \in 1 .. i : SecondAsk(p, a, i) => (AskedFirst(p)' <=> AskedFirst(p))
      BY <1>13 DEF SecondAsk
    <3> QED
      BY <3>1, <3>2
  <2>4. \A j \in 1 .. i : Demand(p, i, j)' <=> Demand(p, i, j)
    BY <1>2, <1>3 DEF Demand
  <2>5. Blocked(p, i)' <=> Blocked(p, i)
    BY <1>2 DEF Blocked
  <2>6. \A j \in 1 .. i : \A k \in 1 .. (j - 1) : k \in 1 .. n
    BY <1>2
  <2>7. (\E j \in 1 .. i :
           Demand(p, i, j) /\ \A k \in 1 .. (j - 1) : ~(/\ chat[k].stage = "ledger_credit_small"
                                                        /\ chat[k].content.dated))'
         <=> \E j \in 1 .. i :
           Demand(p, i, j) /\ \A k \in 1 .. (j - 1) : ~(/\ chat[k].stage = "ledger_credit_small"
                                                        /\ chat[k].content.dated)
    BY <1>2, <2>4, <2>6
  <2>8. /\ (\E j \in 1 .. i : Says(p, j, "identity_claim"))'
              <=> \E j \in 1 .. i : Says(p, j, "identity_claim")
        /\ Says(p, i, "channel_shift_request")' <=> Says(p, i, "channel_shift_request")
        /\ chat'[i].content.indexed <=> chat[i].content.indexed
    BY <1>2, <1>3
  <2> QED
    BY <1>12, <2>1, <2>2, <2>3, <2>5, <2>7, <2>8 DEF At
<1>6. DatedUpTo(n)' = DatedUpTo(n)
  BY <1>2 DEF DatedUpTo
<1>7. FirstRecorded(conv, n)'
  BY <1>1, <1>11 DEF Exact, FirstRecorded
<1>8. FirstKept(AskersOnFile(conv), n, o)'
  <2>1. AskersOnFile(conv)' = AskersOnFile(conv)
    BY <1>1
  <2>2. \A p \in Profiles, j \in 1 .. n : Kept(p, j, o)' <=> Kept(p, j, o)
    BY <1>3, <1>13 DEF Kept
  <2> QED
    BY <2>1, <2>2 DEF Exact, FirstKept
<1>14. FirstOfAll(conv.firstAsk, n)'
  <2>1. \A a \in 1 .. n : 1 .. (a - 1) \subseteq 1 .. n
    OBVIOUS
  <2> QED
    BY <1>1, <1>3, <2>1 DEF Exact, FirstOfAll
<1>9. AllClaimed(conv, n)'
  BY <1>1, <1>3 DEF Exact, AllClaimed
<1>10. AllFired(conv, n, o)'
  BY <1>1, <1>5 DEF Exact, AllFired
<1> QED
  BY <1>1, <1>6, <1>7, <1>8, <1>9, <1>10, <1>14 DEF Exact

(* A digest is one of the chat alone.                                      *)
LEMMA SameChatExact ==
  ASSUME UNCHANGED chat, NEW c, NEW n, NEW o, Exact(c, n, o)
  PROVE  Exact(c, n, o)'
<1>1. /\ \A s, j : RecordedBy(s, j)' <=> RecordedBy(s, j)
      /\ \A p, j, name : Says(p, j, name)' <=> Says(p, j, name)
      /\ \A j : DatedUpTo(j)' = DatedUpTo(j)
  BY DEF RecordedBy, Says, DatedUpTo, Positions
<1>2. \A p : AskedFirst(p)' <=> AskedFirst(p)
  BY <1>1 DEF AskedFirst
<1>3. \A p, j : Kept(p, j, o)' <=> Kept(p, j, o)
  BY <1>1, <1>2 DEF Kept
<1>4. \A p, a, i : SecondAsk(p, a, i)' <=> SecondAsk(p, a, i)
  BY <1>1 DEF SecondAsk, StageBy
<1>5. \A tag, p, j : At(tag, p, j, o)' <=> At(tag, p, j, o)
  BY <1>1, <1>2, <1>4 DEF At, EarlyAsk, Demand, EarlyContact, Blocked, StageBy
<1> QED
  BY <1>1, <1>3, <1>5 DEF Exact, FirstRecorded, FirstOfAll, FirstKept, AllClaimed, AllFired,
                          AskersOnFile

LEMMA OrderNext == OrderInv /\ [Next]_vars => OrderInv'
<1> SUFFICES ASSUME OrderInv, [Next]_vars PROVE OrderInv'
  OBVIOUS
<1>1. TypeOK /\ TypeOK'
  BY TypeNext DEF OrderInv
<1>2. /\ Len(arrived) \in Nat /\ DOMAIN arrived = 1 .. Len(arrived) /\ arrived \in Seq(Positions)
      /\ Positions = 1 .. Len(chat) /\ Len(chat) \in Nat /\ chat \in Seq(Message)
      /\ conv \in Blob /\ older \in Nat
  BY <1>1 DEF TypeOK, Positions
<1>3. PICK n, o : n = Len(arrived) /\ o = older
  OBVIOUS
<1>4. n \in Nat /\ o \in 0 .. n
  <2>1. older <= Len(arrived)
    BY DEF OrderInv
  <2>2. o <= n /\ o \in Nat /\ n \in Nat
    BY <1>2, <1>3, <2>1
  <2> QED
    BY <2>2
<1>5. ASSUME NEW m \in Message, Send(m) PROVE OrderInv'
  <2>1. arrived' = arrived /\ conv' = conv /\ older' = older
    BY <1>1, <1>5, SendMeans
  <2>2. ASSUME InOrder PROVE Exact(conv, n, o)'
    <3>1. n <= Len(chat)
      <4>1. CASE n = 0
        BY <1>2, <4>1
      <4>2. CASE n # 0
        <5>1. n \in DOMAIN arrived
          BY <1>2, <1>3, <1>4, <4>2
        <5>2. arrived[n] = n /\ arrived[n] \in Positions
          BY <1>2, <2>2, <5>1 DEF InOrder
        <5> QED
          BY <1>2, <5>2
      <4> QED
        BY <4>1, <4>2
    <3> QED
      BY <1>1, <1>3, <1>4, <1>5, <2>2, <3>1, SendExact DEF OrderInv
  <2> QED
    BY <1>1, <1>3, <2>1, <2>2 DEF OrderInv, InOrder
<1>6. ASSUME NEW i, FoldOf(i) PROVE OrderInv'
  <2>1. UNCHANGED chat /\ i \in Positions /\ arrived' = Append(arrived, i)
    BY <1>6 DEF FoldOf
  <2>2. /\ DOMAIN arrived = 1 .. n /\ DOMAIN arrived' = 1 .. (n + 1)
        /\ \A k \in DOMAIN arrived : arrived'[k] = arrived[k]
        /\ arrived'[n + 1] = i /\ Len(arrived') = n + 1
    BY <1>2, <1>3, <2>1, ArrivedGrows
  <2>3. ASSUME InOrder' PROVE InOrder /\ i = n + 1
    <3>1. n + 1 \in DOMAIN arrived'
      BY <1>4, <2>2
    <3>2. i = n + 1
      BY <2>2, <2>3, <3>1 DEF InOrder
    <3>3. \A k \in DOMAIN arrived : k \in DOMAIN arrived' /\ arrived'[k] = k
      BY <1>4, <2>2, <2>3 DEF InOrder
    <3>4. InOrder
      BY <2>2, <3>3 DEF InOrder
    <3> QED
      BY <3>2, <3>4
  <2>4. CASE conv' = Folded(conv, chat[i], i) /\ older' = older
    <3>1. PICK c : c = Folded(conv, chat[i], i)
      OBVIOUS
    <3>2. c.legacy = FALSE
      <4>1. c = [conv EXCEPT !.legacy = FALSE, !.askers = AskersOnFile(conv)] \/ c.legacy = FALSE
        BY <3>1 DEF Folded
      <4> QED
        BY <1>2, <4>1 DEF Blob
    <3>3. ASSUME InOrder' PROVE Exact(c, n + 1, o)'
      <4>1. InOrder /\ i = n + 1
        BY <2>3, <3>3
      <4>2. Exact(Folded(conv, chat[n + 1], n + 1), n + 1, o)
        BY <1>2, <1>3, <1>4, <2>1, <4>1, FoldExact DEF OrderInv
      <4>3. PICK l : l = n + 1
        OBVIOUS
      <4>4. Exact(c, l, o)
        BY <3>1, <4>1, <4>2, <4>3
      <4>5. Exact(c, l, o)'
        BY <2>1, <4>4, SameChatExact
      <4> QED
        BY <4>3, <4>5
    <3>4. older' = o /\ o <= n + 1 /\ conv' = c
      BY <1>3, <1>4, <2>4, <3>1
    <3> QED
      BY <1>1, <2>2, <3>2, <3>3, <3>4 DEF OrderInv
  <2>5. CASE conv.legacy /\ conv' = FoldedBefore(conv, chat[i], i) /\ older' = older + 1
    <3>1. PICK c : c = FoldedBefore(conv, chat[i], i)
      OBVIOUS
    <3>2. o = n
      BY <1>3, <2>5 DEF OrderInv
    <3>3. ASSUME InOrder' PROVE Exact(c, n + 1, n + 1)'
      <4>1. InOrder /\ i = n + 1
        BY <2>3, <3>3
      <4>2. Exact(FoldedBefore(conv, chat[n + 1], n + 1), n + 1, n + 1)
        BY <1>2, <1>3, <1>4, <2>1, <3>2, <4>1, FoldBeforeExact DEF OrderInv
      <4>3. PICK l : l = n + 1
        OBVIOUS
      <4>4. Exact(c, l, l)
        BY <3>1, <4>1, <4>2, <4>3
      <4>5. Exact(c, l, l)'
        BY <2>1, <4>4, SameChatExact
      <4> QED
        BY <4>3, <4>5
    <3>4. older' = n + 1 /\ conv' = c
      BY <1>3, <2>5, <3>1, <3>2
    <3> QED
      BY <1>1, <1>4, <2>2, <3>3, <3>4 DEF OrderInv
  <2> QED
    BY <1>6, <2>4, <2>5 DEF FoldOf
<1>7. CASE UNCHANGED vars
  <2>1. chat' = chat /\ arrived' = arrived /\ conv' = conv /\ older' = older
    BY <1>7 DEF vars
  <2>2. PICK c : c = conv
    OBVIOUS
  <2>3. InOrder => Exact(c, n, o)'
    BY <1>3, <2>1, <2>2, SameChatExact DEF OrderInv
  <2> QED
    BY <1>1, <1>3, <2>1, <2>2, <2>3 DEF OrderInv, InOrder
<1> QED
  BY <1>5, <1>6, <1>7, FoldsMean DEF Next

(* What a tag says of the chat, but for the asks that the older version    *)
(* folded and did not keep.                                                *)
KeptConduct(tag, p, o) ==
  IF tag = "fee_escalation"
  THEN \E a, i \in Positions : SecondAsk(p, a, i) /\ (a > o \/ AskedFirst(p))
  ELSE Conduct(tag, p)

LEMMA ConductAt ==
  ASSUME chat \in Seq(Message), NEW tag \in Tags, NEW p, NEW o
  PROVE  KeptConduct(tag, p, o) <=> \E i \in Positions : At(tag, p, i, o)
<1>1. Positions = 1 .. Len(chat) /\ Len(chat) \in Nat
      /\ \A i \in Positions : 1 .. i \subseteq Positions
  BY DEF Positions
<1>2. \A a, i \in Positions : SecondAsk(p, a, i) => a \in 1 .. i
  <2> SUFFICES ASSUME NEW a \in Positions, NEW i \in Positions, SecondAsk(p, a, i), ~(a \in 1 .. i)
               PROVE  FALSE
    OBVIOUS
  <2>1. 1 .. i \subseteq 1 .. a
    BY <1>1
  <2>2. StageBy(i, {"ledger_credit"}) => StageBy(a, {"ledger_credit"})
    BY <2>1 DEF StageBy
  <2> QED
    BY <2>2 DEF SecondAsk
<1>3. (\E a, i \in Positions : SecondAsk(p, a, i) /\ (a > o \/ AskedFirst(p)))
        <=> \E i \in Positions : \E a \in 1 .. i : SecondAsk(p, a, i) /\ (a > o \/ AskedFirst(p))
  BY <1>1, <1>2
<1>4. (\E i, j \in Positions :
         Demand(p, i, j) /\ \A k \in 1 .. (j - 1) : ~(/\ chat[k].stage = "ledger_credit_small"
                                                      /\ chat[k].content.dated))
        <=> \E i \in Positions : \E j \in 1 .. i :
         Demand(p, i, j) /\ \A k \in 1 .. (j - 1) : ~(/\ chat[k].stage = "ledger_credit_small"
                                                      /\ chat[k].content.dated)
  <2>1. \A i, j : Demand(p, i, j) => j \in 1 .. i
    BY DEF Demand
  <2> QED
    BY <1>1, <2>1
<1>5. CASE tag = "money_ask_no_milestone"
  BY <1>5 DEF KeptConduct, Conduct, At
<1>6. CASE tag = "identity_then_money"
  BY <1>6 DEF KeptConduct, Conduct, At
<1>7. CASE tag = "fee_escalation"
  BY <1>3, <1>7 DEF KeptConduct, Conduct, At
<1>8. CASE tag = "jumped_deposit"
  BY <1>4, <1>8 DEF KeptConduct, Conduct, At
<1>9. CASE tag = "channel_shift_early"
  BY <1>9 DEF KeptConduct, Conduct, At, DatedUpTo
<1>10. CASE tag = "contact_share_pre_milestone"
  BY <1>10 DEF KeptConduct, Conduct, At
<1>11. CASE tag = "categorical_block"
  BY <1>11 DEF KeptConduct, Conduct, At
<1> QED
  BY <1>5, <1>6, <1>7, <1>8, <1>9, <1>10, <1>11 DEF Tags

LEMMA OrderFits == OrderInv => ExactInOrder
<1> SUFFICES ASSUME OrderInv, arrived = [i \in Positions |-> i], NEW tag \in Tags, NEW p \in Profiles
             PROVE  <<tag, p>> \in conv.fired <=> KeptConduct(tag, p, older)
  BY DEF ExactInOrder, KeptConduct
<1>1. chat \in Seq(Message) /\ arrived \in Seq(Positions) /\ DOMAIN arrived = Positions
  BY DEF OrderInv, TypeOK
<1>2. Positions = 1 .. Len(arrived)
  BY <1>1
<1>3. InOrder
  BY <1>1 DEF InOrder
<1>4. AllFired(conv, Len(arrived), older)
  BY <1>3 DEF OrderInv, Exact
<1> QED
  BY <1>1, <1>2, <1>4, ConductAt DEF AllFired

(* Records that all arrived in order derive exactly the conduct of the     *)
(* chat, whatever its length: the blob of process_conversation is a        *)
(* sufficient digest of it.  A blob that the older version filled, of any  *)
(* length, tells all but the asks of those who were not the first to ask:  *)
(* the second ask of such a party counts from the takeover on only.        *)
THEOREM DerivesWhatHappened == Spec => []ExactInOrder
BY OrderInit, OrderNext, OrderFits, PTL DEF Spec
=============================================================================
