-------------------------- MODULE ConversationStage --------------------------
(***************************************************************************)
(* The stage machine of one conversation: to_conversation_event of         *)
(* app/risk/mapping.py and process_conversation of vendor/engine.py.       *)
(*                                                                         *)
(* Two parties chat, and the gate sends a record of each message, without  *)
(* waiting for answers: records are folded in the order of their arrival,  *)
(* and some never arrive.  ingest_record serializes the folds and folds    *)
(* each record once (see RiskIngest), so a fold is one step here.          *)
(***************************************************************************)
EXTENDS Naturals, Sequences, FiniteSets

CONSTANTS
  Profiles,     \* the parties
  Contents,     \* what a message may carry
  DealStages,   \* values of context.dealStage to consider
  Window,       \* _JUMPED_DEPOSIT_WINDOW_S
  MaxMessages   \* bound on the length of the chat

(* context.dealStage climbs a ladder, MILESTONE_LADDER; only the stage     *)
(* ledger_credit_small is no rung of it.                                   *)
Rung == [none |-> 0, price_agreed |-> 1, meet_scheduled |-> 2, ledger_credit |-> 3,
         handover_confirmed |-> 4]
Milestones == {"price_agreed", "meet_scheduled", "ledger_credit", "handover_confirmed",
               "ledger_credit_small"}

(* Names of signals that derive tags, and confidences: below both floors   *)
(* of the mapper, between them, and above them.                            *)
Signals == {"identity_claim", "money_ask", "payee_asked_to_act", "channel_shift_request",
            "contact_share", "categorical_block"}
Confidences == {"absent", "noise", "soft", "sure"}

(* blocked: verdict "reject" in a categorical category; indexed:           *)
(* context.turnIndex is set; dated: ts is an ISO timestamp.                *)
Content == [confidence : [Signals -> Confidences], blocked : BOOLEAN,
            indexed : BOOLEAN, dated : BOOLEAN]

ASSUME ContentsAssumption == Contents \subseteq Content
ASSUME StagesAssumption == DealStages \subseteq {"none"} \cup Milestones
ASSUME ConversationBoundsAssumption == Window \in Nat /\ MaxMessages \in Nat

VARIABLES
  chat,      \* the messages, in the order they were sent
  arrived,   \* positions in chat of the folded records, in the order of folding
  conv,      \* conversation_risk.state
  older      \* how many of them the version before moneyAskers has folded

vars == <<chat, arrived, conv, older>>

(* The time of a message is its position in the chat. *)
Never == 0
Message == [sender : Profiles, content : Contents, stage : DealStages]

Tags == {"money_ask_no_milestone", "identity_then_money", "fee_escalation", "jumped_deposit",
         "channel_shift_early", "contact_share_pre_milestone", "categorical_block"}

(* reached: when each milestone was first recorded; firstAsk: the stage    *)
(* money_ask, as the time of the one party that asked first; askers: each  *)
(* party's first ask.  A legacy blob has no moneyAskers, be it as old or   *)
(* as yet empty.                                                           *)
Blob == [reached : [Milestones -> Nat],
         firstAsk : [Profiles -> Nat],
         fired : SUBSET (Tags \X Profiles),
         claimants : SUBSET Profiles,
         askers : [Profiles -> Nat],
         turns : Nat,
         legacy : BOOLEAN]

NoAskers == [p \in Profiles |-> Never]

NewBlob == [reached |-> [s \in Milestones |-> Never],
            firstAsk |-> NoAskers, fired |-> {}, claimants |-> {},
            askers |-> NoAskers, turns |-> 0, legacy |-> TRUE]

(***************************************************************************)
(* to_conversation_event.                                                  *)
(***************************************************************************)
StateSeeding == Signals \ {"categorical_block"}

(* Bug: one floor for every name. *)
KeepsSure(name, confidence) == confidence = "sure"

Keeps(name, confidence) ==
  confidence \in IF name \in StateSeeding THEN {"soft", "sure"} ELSE {"sure"}

NamesIn(m) ==
  {name \in Signals : Keeps(name, m.content.confidence[name])}
    \cup (IF m.content.blocked THEN {"categorical_block"} ELSE {})

(* Bug: no rung is implied by a higher one. *)
MilestonesAsNamed(m) == {m.stage} \ {"none"}

(* Every rung past price_agreed implies that one. *)
MilestonesIn(m) ==
  IF m.stage = "none" THEN {}
  ELSE IF m.stage = "ledger_credit_small" THEN {m.stage}
  ELSE {"price_agreed", m.stage}

(***************************************************************************)
(* process_conversation.                                                   *)
(***************************************************************************)
(* stages.setdefault: the first record of a stage stays. *)
First(old, new) == IF old = Never THEN new ELSE old

(* The asks on file: a legacy blob only has the first. *)
AskersOnFile(c) == IF c.legacy THEN c.firstAsk ELSE c.askers

(* Bug: the last ask of a party replaces the first. *)
AskersLast(c, m, ts) ==
  IF "money_ask" \in NamesIn(m)
  THEN [AskersOnFile(c) EXCEPT ![m.sender] = ts]
  ELSE AskersOnFile(c)

Askers(c, m, ts) ==
  IF "money_ask" \in NamesIn(m)
  THEN [AskersOnFile(c) EXCEPT ![m.sender] = First(@, ts)]
  ELSE AskersOnFile(c)

Reached(c, m, ts) ==
  [s \in Milestones |-> IF s \in MilestonesIn(m) THEN First(c.reached[s], ts) ELSE c.reached[s]]

Claimants(c, m) ==
  c.claimants \cup (IF "identity_claim" \in NamesIn(m) THEN {m.sender} ELSE {})

Met(reached) ==
  \E s \in {"meet_scheduled", "ledger_credit", "handover_confirmed"} : reached[s] # Never

(* The sender asked before the credit and asks again after it. *)
Escalates(asked, credited, ts) == credited # Never /\ asked < credited /\ credited <= ts

Jumped(small, ts) == small # Never /\ small <= ts /\ ts - small <= Window

(* The tags whose condition the message of time ts fulfils. *)
Derivable(c, m, ts) ==
  LET names == NamesIn(m)
      reached == Reached(c, m, ts)
      turn == IF m.content.indexed THEN ts ELSE c.turns + 1
      early == "money_ask" \in names /\ ~Met(reached)
  IN  {tag \in Tags :
        CASE tag = "money_ask_no_milestone" -> early
          [] tag = "identity_then_money" -> early /\ m.sender \in Claimants(c, m)
          [] tag = "fee_escalation" ->
               /\ "money_ask" \in names
               /\ Escalates(Askers(c, m, ts)[m.sender], reached["ledger_credit"], ts)
          [] tag = "jumped_deposit" ->
               /\ names \cap {"payee_asked_to_act", "money_ask"} # {}
               /\ Jumped(reached["ledger_credit_small"], ts)
          [] tag = "channel_shift_early" -> "channel_shift_request" \in names /\ turn <= 2
          [] tag = "contact_share_pre_milestone" ->
               "contact_share" \in names /\ reached["price_agreed"] = Never
          [] tag = "categorical_block" -> tag \in names}

(* Fold the message of time ts.  An event without a date is skipped; a     *)
(* legacy blob is rewritten in the new form either way.                    *)
Folded(c, m, ts) ==
  IF ~m.content.dated
  THEN [c EXCEPT !.legacy = FALSE, !.askers = AskersOnFile(c)]
  ELSE [reached |-> Reached(c, m, ts),
        firstAsk |-> IF "money_ask" \in NamesIn(m) /\ c.firstAsk = NoAskers
                     THEN [NoAskers EXCEPT ![m.sender] = ts] ELSE c.firstAsk,
        fired |-> c.fired \cup (Derivable(c, m, ts) \X {m.sender}),
        claimants |-> Claimants(c, m),
        askers |-> Askers(c, m, ts),
        turns |-> c.turns + 1,
        legacy |-> FALSE]

(***************************************************************************)
(* The chat.                                                               *)
(***************************************************************************)
Init == chat = <<>> /\ arrived = <<>> /\ conv = NewBlob /\ older = 0

(* The deal goes on: its stage never falls back down the ladder.           *)
Send(m) ==
  /\ Len(chat) < MaxMessages
  /\ m.stage \in DOMAIN Rung =>
       \A i \in DOMAIN chat : chat[i].stage \in DOMAIN Rung => Rung[chat[i].stage] <= Rung[m.stage]
  /\ chat' = Append(chat, m)
  /\ UNCHANGED <<arrived, conv, older>>

Arrived == {arrived[k] : k \in DOMAIN arrived}

(* Bug: a record that is delivered twice is folded twice. *)
FoldAgain(i) ==
  /\ i \in DOMAIN chat /\ Len(arrived) <= MaxMessages
  /\ arrived' = Append(arrived, i)
  /\ conv' = Folded(conv, chat[i], i)
  /\ UNCHANGED <<chat, older>>

(* A record arrives for the first time: ingest_record answers "duplicate"  *)
(* to the others.                                                          *)
Fold(i) ==
  /\ i \in DOMAIN chat \ Arrived
  /\ arrived' = Append(arrived, i)
  /\ conv' = Folded(conv, chat[i], i)
  /\ UNCHANGED <<chat, older>>

(* The fold of the version that kept no askers, but for the one first ask  *)
(* of the conversation, and so knew of no other (external).  It folded     *)
(* records of any number, in any order, before this version took over.     *)
FoldedBefore(c, m, ts) == [Folded(c, m, ts) EXCEPT !.askers = NoAskers, !.legacy = TRUE]

FoldBefore(i) ==
  /\ conv.legacy
  /\ i \in DOMAIN chat \ Arrived
  /\ arrived' = Append(arrived, i)
  /\ conv' = FoldedBefore(conv, chat[i], i)
  /\ older' = older + 1
  /\ UNCHANGED chat

Next ==
  \/ \E m \in Message : Send(m)
  \/ \E i \in 1 .. MaxMessages : Fold(i)
  \/ \E i \in 1 .. MaxMessages : FoldBefore(i)

Spec == Init /\ [][Next]_vars

(***************************************************************************)
(* What a tag says of the chat.                                            *)
(***************************************************************************)
(* Message i is readable, of p, and carries a signal in earnest: a soft    *)
(* one will do, as an opening ask is what a model scores low.              *)
Says(p, i, name) ==
  /\ i \in DOMAIN chat
  /\ chat[i].content.dated
  /\ chat[i].sender = p
  /\ chat[i].content.confidence[name] \in {"soft", "sure"}

(* A readable message up to the i-th says that the deal is at one of S. *)
StageBy(i, S) == \E j \in 1 .. i : chat[j].content.dated /\ chat[j].stage \in S

Priced == {"price_agreed", "meet_scheduled", "ledger_credit", "handover_confirmed"}
Meetings == Priced \ {"price_agreed"}

EarlyAsk(p, i) == Says(p, i, "money_ask") /\ ~StageBy(i, Meetings)

EarlyContact(p, i) == Says(p, i, "contact_share") /\ ~StageBy(i, Priced)

(* p asked, the other side paid, and p asks again. *)
SecondAsk(p, a, i) ==
  /\ Says(p, a, "money_ask") /\ Says(p, i, "money_ask")
  /\ ~StageBy(a, {"ledger_credit"}) /\ StageBy(i, {"ledger_credit"})

(* Nobody asked before p did. *)
AskedFirst(p) ==
  \E a \in DOMAIN chat :
    /\ Says(p, a, "money_ask")
    /\ \A j \in 1 .. (a - 1), q \in Profiles : ~Says(q, j, "money_ask")

(* A demand within the window after a small deposit. *)
Demand(p, i, j) ==
  /\ Says(p, i, "money_ask") \/ Says(p, i, "payee_asked_to_act")
  /\ j \in 1 .. i /\ chat[j].stage = "ledger_credit_small" /\ chat[j].content.dated
  /\ i - j <= Window

Blocked(p, i) ==
  /\ chat[i].sender = p /\ chat[i].content.dated
  /\ chat[i].content.blocked \/ chat[i].content.confidence["categorical_block"] = "sure"

Positions == DOMAIN chat

(* The conduct a tag names, read off the chat as it was sent: a pattern of *)
(* messages of p, of milestones and of their order.                        *)
Conduct(tag, p) ==
  CASE tag = "money_ask_no_milestone" -> \E i \in Positions : EarlyAsk(p, i)
    [] tag = "identity_then_money" ->
         \E i \in Positions : EarlyAsk(p, i) /\ \E j \in 1 .. i : Says(p, j, "identity_claim")
    [] tag = "fee_escalation" -> \E a, i \in Positions : SecondAsk(p, a, i)
    [] tag = "jumped_deposit" ->
         \E i, j \in Positions :
           Demand(p, i, j) /\ \A k \in 1 .. (j - 1) : ~(/\ chat[k].stage = "ledger_credit_small"
                                                        /\ chat[k].content.dated)
    [] tag = "channel_shift_early" ->
         \E i \in Positions :
           /\ Says(p, i, "channel_shift_request")
           /\ \/ i <= 2
              \/ ~chat[i].content.indexed
                 /\ Cardinality({j \in 1 .. i : chat[j].content.dated}) <= 2
    [] tag = "contact_share_pre_milestone" -> \E i \in Positions : EarlyContact(p, i)
    [] tag = "categorical_block" -> \E i \in Positions : Blocked(p, i)

(***************************************************************************)
(* Properties.                                                             *)
(***************************************************************************)
(* Every variable has its type, and no record is folded twice. *)
TypeOK ==
  /\ chat \in Seq(Message)
  /\ arrived \in Seq(Positions)
  /\ Cardinality(Arrived) = Len(arrived)
  /\ conv \in Blob
  /\ older \in Nat

(* Records that all arrived in order derive exactly the conduct of the     *)
(* chat: the blob forgets nothing that a later message needs, but for what *)
(* the older version did not keep.  Of the asks that it folded only those  *)
(* of the original asker still tell a second ask from a first one.         *)
ExactInOrder ==
  arrived = [i \in Positions |-> i] =>
    \A tag \in Tags, p \in Profiles :
      <<tag, p>> \in conv.fired <=>
        IF tag = "fee_escalation"
        THEN \E a, i \in Positions : SecondAsk(p, a, i) /\ (a > older \/ AskedFirst(p))
        ELSE Conduct(tag, p)

(* Late and lost records cost nobody a tag that the chat does not bear     *)
(* out, as long as every message names its rung of the ladder: each record *)
(* brings the milestones of its own time along.  What order may add is     *)
(* named here: the claim of identity_then_money may have come after the    *)
(* ask, the second ask of fee_escalation may follow a later sign of the    *)
(* credit, and a message without turnIndex counts as early.                *)
NoFalseAlarm ==
  (\A i \in Positions : chat[i].stage \in DOMAIN Rung) =>
    \A tag \in Tags, p \in Profiles :
      <<tag, p>> \in conv.fired =>
        CASE tag = "identity_then_money" ->
               /\ \E i \in Positions : EarlyAsk(p, i)
               /\ \E j \in Positions : Says(p, j, "identity_claim")
          [] tag = "fee_escalation" ->
               \E a, i \in Positions :
                 /\ a < i /\ Says(p, a, "money_ask") /\ Says(p, i, "money_ask")
                 /\ StageBy(i, {"ledger_credit"})
          [] tag = "channel_shift_early" ->
               \E i \in Positions :
                 Says(p, i, "channel_shift_request") /\ (i <= 2 \/ ~chat[i].content.indexed)
          [] OTHER -> Conduct(tag, p)

(* Message i arrived after a later readable message of one of the stages S. *)
Overtaken(i, S) ==
  \E j, k \in DOMAIN arrived :
    /\ j < k /\ arrived[k] = i /\ arrived[j] > i
    /\ chat[arrived[j]].content.dated /\ chat[arrived[j]].stage \in S

(* An early ask or an early contact that has arrived raises its tag,       *)
(* unless a later message, of a milestone, overtook it.                    *)
OnlyOvertakingHides ==
  \A i \in Arrived, p \in Profiles :
    /\ EarlyAsk(p, i) =>
         <<"money_ask_no_milestone", p>> \in conv.fired \/ Overtaken(i, Meetings)
    /\ EarlyContact(p, i) =>
         <<"contact_share_pre_milestone", p>> \in conv.fired \/ Overtaken(i, Priced)
=============================================================================
