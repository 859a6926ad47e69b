--------------------------- MODULE MCConversation ---------------------------
(* A small instance of Conversation: two messages, at most one of them the   *)
(* user's own, and a page of history that holds one of them.                 *)
EXTENDS Conversation
=============================================================================
