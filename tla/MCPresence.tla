----------------------------- MODULE MCPresence -----------------------------
(* A small instance of Presence: two connections of the user, and of the     *)
(* friend's gateway two pumps at once.                                       *)
EXTENDS Presence, TLC

Symmetry == Permutations(Conn) \cup Permutations(Sub)
=============================================================================
