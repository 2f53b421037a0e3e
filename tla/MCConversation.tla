--------------------------- MODULE MCConversation ---------------------------
(* The conversation on small instances. *)
EXTENDS Conversation, TLC

TurnSymmetry == Permutations(Turns)
=============================================================================
