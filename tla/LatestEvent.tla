---------------------------- MODULE LatestEvent -----------------------------
(***************************************************************************)
(* What chat-service promises of its friends read-model (messaging spec    *)
(* AC-G1): a row that, at every moment, is the newest of the events folded *)
(* into it.  The order of the foldings, and repeating one, do not matter.  *)
(***************************************************************************)
EXTENDS Naturals

CONSTANTS
    Event,      \* records with a numeric field id
    NoRow       \* the row before any event

VARIABLES
    seen,       \* the events folded in
    view        \* the row

IsLatest(row, S) ==
    \/ S = {} /\ row = NoRow
    \/ row \in S /\ \A e \in S : e.id <= row.id

Init == seen \subseteq Event /\ IsLatest(view, seen)

Fold(e) ==
    /\ seen' = seen \cup {e}
    /\ IsLatest(view', seen')

Next == \E e \in Event : Fold(e)

Spec == Init /\ [][Next]_<<seen, view>>
=============================================================================
