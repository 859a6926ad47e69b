----------------------------- MODULE ChatTables -----------------------------
(***************************************************************************)
(* The Postgres rows of chat-service that the friend-event consumer and    *)
(* the inbound consumer share, for ONE pair of users.  Every statement of  *)
(* the service is keyed by the canonical pair (pairKey, canonicalPair), so *)
(* the rows of different pairs never meet and one pair stands for all.     *)
(***************************************************************************)
EXTENDS Naturals

CONSTANTS
    EventId     \* the eventIds (UUIDv7, ordered) of the pair's friendship events

ASSUME EventIdAssumption == EventId \subseteq Nat \ {0}

VARIABLES
    readModel,  \* the row of friends_read_model for the pair
    conv        \* the row of conversations for the pair: its state, or "none"

\* What an event says of the pair: accepted -> "active", removed -> "removed".
FriendState == {"active", "removed"}

Event == [id : EventId, state : FriendState]

\* A missing row reads as state "none" under an eventId below every real one.
NoRow == [id |-> 0, state |-> "none"]

ReadModelRow == Event \cup {NoRow}

ConvState == {"none", "open", "closed"}

\* FriendsReadModel.isActive(x, y).
IsActive == readModel.state = "active"
=============================================================================
