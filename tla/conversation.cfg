\* Chats of up to three messages of two parties, every deal stage, and records
\* that arrive in any order or not at all.  A chat ends.
SPECIFICATION Spec
CONSTANTS
  anna = anna
  ben = ben
  Profiles <- Parties
  Contents <- SevenContents
  DealStages = {"none", "price_agreed", "meet_scheduled", "ledger_credit",
                "ledger_credit_small"}
  Window = 1
  MaxMessages = 3
SYMMETRY PartySymmetry
INVARIANTS
  TypeOK
  ExactInOrder
  NoFalseAlarm
  OnlyOvertakingHides
CHECK_DEADLOCK FALSE
