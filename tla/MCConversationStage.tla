------------------------- MODULE MCConversationStage -------------------------
(***************************************************************************)
(* An instance of ConversationStage for TLC.                               *)
(***************************************************************************)
EXTENDS ConversationStage, TLC

CONSTANTS anna, ben

Parties == {anna, ben}

Plain == [confidence |-> [name \in Signals |-> "absent"], blocked |-> FALSE,
          indexed |-> TRUE, dated |-> TRUE]

Carrying(name, confidence) == [Plain EXCEPT !.confidence[name] = confidence]

(* An ask, a soft claim, a demand with a drowned-out ask, a contact and a  *)
(* shift of channel on a message without turnIndex, a block, an ask on a   *)
(* record that cannot be read, and nothing.                                *)
SevenContents == {
  Plain,
  Carrying("money_ask", "sure"),
  Carrying("identity_claim", "soft"),
  [Carrying("payee_asked_to_act", "sure") EXCEPT !.confidence["money_ask"] = "noise"],
  [Carrying("contact_share", "soft") EXCEPT !.confidence["channel_shift_request"] = "sure",
                                            !.indexed = FALSE],
  [Carrying("categorical_block", "soft") EXCEPT !.blocked = TRUE],
  [Carrying("money_ask", "sure") EXCEPT !.dated = FALSE]}

PartySymmetry == Permutations(Parties)
=============================================================================
