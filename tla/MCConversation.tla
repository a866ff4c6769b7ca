-------------------------- MODULE MCConversation --------------------------
(* Conversation on small instances: two connections. *)
EXTENDS Conversation

CONSTANTS first, second

BothLinks == {first, second}
============================================================================
