------------------------- MODULE MCConversationList -------------------------
(* Of two students one allows direct messages, and uses the list.          *)
EXTENDS ConversationList

JustOne == {1}
=============================================================================
