--------------------------- MODULE FriendRequests ---------------------------
(***************************************************************************)
(* social-service for one pair of users: sending, accepting and rejecting  *)
(* friend requests, removing the friend, and the integration event each    *)
(* emits after its commit.  Every HTTP request is a handler of its own, in *)
(* any replica; a step is what happens between two awaits, so each         *)
(* statement on the tables and each publish is an action, in no            *)
(* transaction with the one before it.                                     *)
(*                                                                         *)
(* The live frame to the users (safePush) follows the event, reads nothing *)
(* and is best effort: the lists are the source of truth.  It is left out. *)
(***************************************************************************)
EXTENDS Naturals, FiniteSets, Sequences

CONSTANTS
    User,       \* the pair
    Request,    \* ids of the requests they can send
    Handler,    \* HTTP requests in flight at once, over all replicas
    NoUser, None,
    MaxCrashes  \* bound: handlers that die, publishes that fail

ASSUME UserAssumption == NoUser \notin User /\ Cardinality(User) = 2
ASSUME RequestAssumption == None \notin Request /\ IsFiniteSet(Request)
ASSUME MaxCrashesAssumption == MaxCrashes \in Nat

VARIABLES
    requests,   \* friend_requests: who sent each one, and its status
    friendship, \* friendships: the request whose acceptance made the row, or None
    handler,    \* the handlers in flight
    log,        \* the events published, in the order of their eventIds: the ids rise in
                \* the order they are minted, the replicas' clocks agreeing
    failed,     \* history: requests of handlers that ended with an error or died
    crashes,    \* deaths and failed publishes so far
    overlapped  \* history: two handlers have been in flight at once

vars == <<requests, friendship, handler, log, failed, crashes, overlapped>>

NoRequest == [by |-> NoUser, status |-> "none"]
Row == [by : User, status : {"pending", "accepted", "rejected"}] \cup {NoRequest}

Step == {"reverse", "existing", "create", "transition", "ensure", "reselect", "announce"}
Goal == {"created", "accepted", "rejected", "removed"}

\* goal: the status transition() is to set, then the event to announce.
Idle == [pc |-> "idle", me |-> NoUser, req |-> None, goal |-> "none"]
Task == [pc : Step, me : User, req : Request \cup {None}, goal : Goal]

Event == [kind : {"created", "accepted", "removed"}, req : Request]

TypeOK ==
    /\ requests \in [Request -> Row]
    /\ friendship \in Request \cup {None}
    /\ handler \in [Handler -> Task \cup {Idle}]
    /\ log \in Seq(Event)
    /\ failed \subseteq Request
    /\ crashes \in 0..MaxCrashes
    /\ overlapped \in BOOLEAN

Init ==
    /\ requests = [r \in Request |-> NoRequest]
    /\ friendship = None
    /\ handler = [h \in Handler |-> Idle]
    /\ log = <<>> /\ failed = {} /\ crashes = 0 /\ overlapped = FALSE

-----------------------------------------------------------------------------
Pending(u) == {r \in Request : requests[r] = [by |-> u, status |-> "pending"]}

AreFriends == friendship # None

Start(h, step, u, r, goal) ==
    /\ handler[h] = Idle
    /\ handler' = [handler EXCEPT ![h] = [pc |-> step, me |-> u, req |-> r, goal |-> goal]]
    /\ overlapped' = (overlapped \/ \E g \in Handler \ {h} : handler[g] # Idle)
    /\ UNCHANGED <<requests, log, failed, crashes>>

\* execute() answers 409 to friends; the rest of it happens in later steps.
SendFriendRequest(h, u) ==
    /\ ~AreFriends
    /\ Start(h, "reverse", u, None, "created")
    /\ UNCHANGED friendship

\* findById and the addressee check read columns that never change: what the
\* handler has after them is a request addressed to it, in whatever status.
Respond(h, u, r, goal) ==
    /\ requests[r].status # "none" /\ requests[r].by # u
    /\ Start(h, "transition", u, r, goal)
    /\ UNCHANGED friendship

AcceptFriendRequest(h, u, r) == Respond(h, u, r, "accepted")
RejectFriendRequest(h, u, r) == Respond(h, u, r, "rejected")

\* The delete is the atomic step: whoever finds no row answers 404.
MutRemoved == friendship
Removed == None

RemoveFriend(h, u) ==
    /\ AreFriends
    /\ friendship' = Removed
    /\ Start(h, "announce", u, friendship, "removed")

-----------------------------------------------------------------------------
Goto(h, step) == handler' = [handler EXCEPT ![h].pc = step]
Done(h) == handler' = [handler EXCEPT ![h] = Idle]

\* A pending request the other way is accepted instead (AC-S5).
MutReverse(u) == {}
Reverse(u) == UNION {Pending(v) : v \in User \ {u}}

FindReverse(h) ==
    /\ handler[h].pc = "reverse"
    /\ LET reverse == Reverse(handler[h].me) IN
         \/ reverse = {} /\ Goto(h, "existing")
         \/ \E r \in reverse :
               handler' = [handler EXCEPT ![h].pc = "transition", ![h].req = r,
                                          ![h].goal = "accepted"]
    /\ UNCHANGED <<requests, friendship, log, failed, crashes, overlapped>>

FindExisting(h) ==
    /\ handler[h].pc = "existing"
    /\ IF Pending(handler[h].me) # {} THEN Done(h) ELSE Goto(h, "create")
    /\ UNCHANGED <<requests, friendship, log, failed, crashes, overlapped>>

\* friend_requests_pending_unique: a concurrent duplicate makes the insert fail.
Conflicts(u) == Pending(u) # {}

CreateRequest(h) ==
    /\ handler[h].pc = "create"
    /\ LET u == handler[h].me IN
         \/ Conflicts(u) /\ Done(h) /\ UNCHANGED requests
         \/ /\ ~Conflicts(u)
            /\ \E r \in Request :
                  /\ requests[r] = NoRequest
                  /\ requests' = [requests EXCEPT ![r] = [by |-> u, status |-> "pending"]]
                  /\ handler' = [handler EXCEPT ![h].pc = "announce", ![h].req = r]
    /\ UNCHANGED <<friendship, log, failed, crashes, overlapped>>

\* UPDATE ... WHERE status = 'pending': of several answers one wins, the others
\* end in RequestNotPending.
MutAnswerable(r) == requests[r].status # "rejected"
Answerable(r) == requests[r].status = "pending"

MutAfter(goal) == "announce"
After(goal) == IF goal = "accepted" THEN "ensure" ELSE "idle"

Transition(h) ==
    /\ handler[h].pc = "transition"
    /\ LET r == handler[h].req  goal == handler[h].goal IN
         \/ ~Answerable(r) /\ Done(h) /\ UNCHANGED requests
         \/ /\ Answerable(r)
            /\ requests' = [requests EXCEPT ![r].status = goal]
            /\ IF After(goal) = "idle" THEN Done(h) ELSE Goto(h, After(goal))
    /\ UNCHANGED <<friendship, log, failed, crashes, overlapped>>

\* INSERT ... ON CONFLICT DO NOTHING.
Ensure(h) ==
    /\ handler[h].pc = "ensure"
    /\ IF AreFriends THEN Goto(h, "reselect") /\ UNCHANGED friendship
                     ELSE Goto(h, "announce") /\ friendship' = handler[h].req
    /\ UNCHANGED <<requests, log, failed, crashes, overlapped>>

\* The row the insert conflicted with is read back; if it was removed in
\* between, toDomain(existing!) throws and the handler ends in a 500.
Reselect(h) ==
    /\ handler[h].pc = "reselect"
    /\ IF AreFriends THEN Goto(h, "announce") /\ UNCHANGED failed
                     ELSE Done(h) /\ failed' = failed \cup {handler[h].req}
    /\ UNCHANGED <<requests, friendship, log, crashes, overlapped>>

Crash == crashes < MaxCrashes /\ crashes' = crashes + 1

\* The eventId is minted here, after the commit; safePublish swallows a failure.
Announce(h) ==
    /\ handler[h].pc = "announce"
    /\ \/ /\ log' = Append(log, [kind |-> handler[h].goal, req |-> handler[h].req])
          /\ UNCHANGED <<failed, crashes>>
       \/ /\ Crash
          /\ failed' = failed \cup {handler[h].req}
          /\ UNCHANGED log
    /\ Done(h)
    /\ UNCHANGED <<requests, friendship, overlapped>>

\* The process dies, or a statement throws: what was committed stays.
Die(h) ==
    /\ handler[h] # Idle
    /\ Crash
    /\ failed' = failed \cup ({handler[h].req} \ {None})
    /\ Done(h)
    /\ UNCHANGED <<requests, friendship, log, overlapped>>

Begin(h) ==
    \E u \in User :
        \/ SendFriendRequest(h, u) \/ RemoveFriend(h, u)
        \/ \E r \in Request : AcceptFriendRequest(h, u, r) \/ RejectFriendRequest(h, u, r)

Proceed(h) ==
    \/ FindReverse(h) \/ FindExisting(h) \/ CreateRequest(h)
    \/ Transition(h) \/ Ensure(h) \/ Reselect(h) \/ Announce(h)

Next == \E h \in Handler : Begin(h) \/ Proceed(h) \/ Die(h)

Spec == Init /\ [][Next]_vars

-----------------------------------------------------------------------------
\* Requests whose acceptance is recorded but has not taken effect.
Due == {r \in Request : \E h \in Handler :
           handler[h].pc \in {"ensure", "reselect"} /\ handler[h].req = r}

Contract == INSTANCE Befriending WITH due <- Due, friends <- AreFriends

(* AC-R4, AC-R5, AC-S4: any number of concurrent handlers, dying anywhere,   *)
(* answer each request at most once, keep at most one pending per direction  *)
(* and make the pair friends at most once per acceptance.                    *)
ImplementsBefriending == Contract!Spec

Quiet == \A h \in Handler : handler[h] = Idle

Announced(kind, r) == \E i \in DOMAIN log : log[i] = [kind |-> kind, req |-> r]

(* AC-E1, AC-E2, AC-E4, AC-E5: no event is emitted twice or before what it   *)
(* announces is committed, and every acceptance whose handler came through   *)
(* is announced.                                                             *)
AnnouncedOnce ==
    /\ \A i, j \in DOMAIN log : log[i] = log[j] => i = j
    /\ \A r \in Request :
          /\ Announced("created", r) => requests[r].status # "none"
          /\ Announced("accepted", r) => requests[r].status = "accepted"
          /\ Announced("removed", r) => requests[r].status = "accepted" /\ friendship # r
    /\ Quiet => \A r \in Request \ failed :
                   requests[r].status = "accepted" => Announced("accepted", r)

\* The pair is friends exactly if its newest transition, by eventId, says so.
NewestAccepts ==
    \E i \in DOMAIN log :
        /\ log[i].kind = "accepted"
        /\ \A j \in DOMAIN log : log[j].kind = "removed" => j < i

(* AC-S3, AC-S5, AC-E5 as far as the code keeps them: if handlers never      *)
(* overlapped and none failed, then no request is left pending between       *)
(* friends, crossed requests have become a friendship, and the event with    *)
(* the largest id tells whether the pair is friends.                         *)
SerialConsistency ==
    Quiet /\ ~overlapped /\ failed = {} =>
        /\ AreFriends => \A u \in User : Pending(u) = {}
        /\ \A u, v \in User : Pending(u) # {} /\ Pending(v) # {} => u = v
        /\ AreFriends <=> NewestAccepts

(* AC-E5 as written, "per-pair transitions are serialized, the eventId is a  *)
(* monotonic per-pair ordering marker": once every handler has returned      *)
(* without an error, the newest event tells whether the pair is friends.     *)
NewestEventTells == Quiet /\ failed = {} => (AreFriends <=> NewestAccepts)
=============================================================================
