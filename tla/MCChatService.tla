--------------------------- MODULE MCChatService ----------------------------
(* Small instances of ChatService: a friendship accepted and removed (and    *)
(* accepted again), two concurrent sends, a retry.                           *)
EXTENDS ChatService, TLC

\* Each send is retried once.
Copies == [k \in Key |-> 2]
Events2 == 1..2
Events3 == 1..3
=============================================================================
