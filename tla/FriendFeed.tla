----------------------------- MODULE FriendFeed -----------------------------
(***************************************************************************)
(* The way of a friendship from social-service to chat-service: the events *)
(* FriendRequests emits are the ones FriendProjection consumes, over the   *)
(* topic exchange domain.events and the durable queue chat-service binds   *)
(* to it.  The services share nothing else: chat-service never asks social *)
(* who is a friend of whom, and gates its sends on what it was told.       *)
(***************************************************************************)
EXTENDS FriendRequests

CONSTANTS
    EventId,    \* the eventIds; bound: no event is emitted beyond the largest
    Worker,     \* deliveries in flight at once in chat-service
    NoEvent,    \* what an idle worker holds
    MaxFaults   \* bound: crashes, lost connections and failed statements there

ASSUME FeedMaxFaultsAssumption == MaxFaults \in Nat

VARIABLES
    readModel, conv,                                    \* chat-service's tables
    published, ready, task, seen, lost, faults, crowded \* its queue and handlers

Chat == INSTANCE FriendProjection WITH overlapped <- crowded

ASSUME FeedEventIdAssumption == EventId \subseteq Nat \ {0}
ASSUME FeedNoEventAssumption == NoEvent \notin Chat!Event

chatVars == <<readModel, conv, published, ready, task, seen, lost, faults, crowded>>
feedVars == <<vars, chatVars>>

FeedInit == Init /\ Chat!Fresh /\ Chat!ProjInit

\* The queue is bound to two of the three routing keys.
MutRouted(e) == e.kind = "accepted"
Routed(e) == e.kind \in {"accepted", "removed"}

\* The i-th event as chat-service reads it. An eventId is a UUIDv7: a new one,
\* and, the replicas' clocks agreeing, larger than those minted before it. Both
\* are so by construction here.
Notice(e, i) == [id |-> i, state |-> IF e.kind = "accepted" THEN "active" ELSE "removed"]

\* A step of social-service.  What it emits reaches the queue if a key matches.
Social ==
    /\ Next
    /\ \/ log' = log /\ UNCHANGED chatVars
       \/ LET n == Len(log')  e == log'[n] IN
             /\ log' # log /\ n \in EventId
             /\ IF Routed(e) THEN Chat!Publish(Notice(e, n)) ELSE UNCHANGED chatVars

Consumer == (\E w \in Worker : Chat!ProjStep(w)) /\ UNCHANGED vars

FeedNext == Social \/ Consumer

FeedSpec == FeedInit /\ [][FeedNext]_feedVars

-----------------------------------------------------------------------------
(* AC-E5 and AC-G1 end to end: once both services are at rest, the gate of   *)
(* chat-service lets a message through exactly if the pair is friends in     *)
(* social-service, if requests never overlapped there and none failed, and   *)
(* no event was nacked; how the deliveries crossed, or how often consumers   *)
(* died, does not matter.                                                    *)
GateFollowsFriendship ==
    Quiet /\ ~overlapped /\ failed = {} /\ Chat!Settled /\ lost = {} =>
        (Chat!IsActive <=> AreFriends)
=============================================================================
