---------------------------- MODULE MCFriendFeed ----------------------------
(* A small instance of FriendFeed: two users, two requests, two handlers,    *)
(* one consumer, and the eventIds of a friendship accepted, removed and      *)
(* accepted again.                                                           *)
EXTENDS FriendFeed, TLC

Events5 == 1..5
Symmetry == Permutations(User) \cup Permutations(Request) \cup Permutations(Handler)
=============================================================================
