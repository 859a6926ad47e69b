-------------------------- MODULE MCFriendRequests --------------------------
(* Small instances of FriendRequests: two users, two requests (enough to     *)
(* cross, or to befriend, remove and re-friend), two handlers.               *)
EXTENDS FriendRequests, TLC

Symmetry == Permutations(User) \cup Permutations(Request) \cup Permutations(Handler)
=============================================================================
