------------------------- MODULE MCFriendProjection -------------------------
(* Small instances of FriendProjection: at most three friendship events      *)
(* (accept, remove, re-accept), two concurrent deliveries.                   *)
EXTENDS FriendProjection, TLC

Events3 == 1..3

Events2 == 1..2
=============================================================================
