---------------------------- MODULE Befriending -----------------------------
(***************************************************************************)
(* What social-service promises about one pair of users, whatever runs     *)
(* concurrently: a friend request is answered at most once (AC-R4), at     *)
(* most one per direction is pending (AC-S4), an acceptance makes the pair *)
(* friends at most once (AC-R5), and nothing else makes them friends.      *)
(***************************************************************************)

CONSTANTS
    Request,    \* ids of friend requests between the two users
    User,       \* the two users
    NoRequest   \* the row of a request not sent yet

VARIABLES
    requests,   \* each request: who sent it, and its status
    due,        \* accepted requests whose acceptance has yet to take effect
    friends     \* whether the pair is friends

Init == requests = [r \in Request |-> NoRequest] /\ due = {} /\ friends = FALSE

Send(r, u) ==
    /\ requests[r] = NoRequest
    /\ \A q \in Request : requests[q] # [by |-> u, status |-> "pending"]
    /\ requests' = [requests EXCEPT ![r] = [by |-> u, status |-> "pending"]]
    /\ UNCHANGED <<due, friends>>

Reject(r) ==
    /\ requests[r].status = "pending"
    /\ requests' = [requests EXCEPT ![r].status = "rejected"]
    /\ UNCHANGED <<due, friends>>

Accept(r) ==
    /\ requests[r].status = "pending"
    /\ requests' = [requests EXCEPT ![r].status = "accepted"]
    /\ due' = due \cup {r}
    /\ UNCHANGED friends

Befriend(r) ==
    /\ r \in due
    /\ due' = due \ {r}
    /\ friends' = TRUE
    /\ UNCHANGED requests

\* The acceptance is recorded but its handler dies or fails.
Forget(r) ==
    /\ r \in due
    /\ due' = due \ {r}
    /\ UNCHANGED <<requests, friends>>

Unfriend == friends /\ friends' = FALSE /\ UNCHANGED <<requests, due>>

Next ==
    \/ \E r \in Request :
          (\E u \in User : Send(r, u)) \/ Reject(r) \/ Accept(r) \/ Befriend(r) \/ Forget(r)
    \/ Unfriend

Spec == Init /\ [][Next]_<<requests, due, friends>>
=============================================================================
