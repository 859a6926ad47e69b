-------------------------- MODULE FriendProjection --------------------------
(***************************************************************************)
(* chat-service's consumer of domain.events: ApplyFriendAccepted and       *)
(* ApplyFriendRemoved fold the friendship events of a pair into the        *)
(* friends read-model and close or reopen the pair's conversation.         *)
(*                                                                         *)
(* The queue is durable and at-least-once.  dispatch() starts a handler    *)
(* per delivery without waiting for the previous one (prefetch 10, and     *)
(* every replica competes on the same queue), so handlers of one pair      *)
(* interleave at every await: the upsert of the read-model and the update  *)
(* of the conversation are two separate statements, in no transaction.     *)
(***************************************************************************)
EXTENDS ChatTables, FiniteSets

CONSTANTS
    Worker,     \* concurrent deliveries: prefetch times replicas
    NoEvent,    \* what an idle worker holds
    MaxFaults   \* bound: crashes, lost connections and failed statements

ASSUME NoEventAssumption == NoEvent \notin Event
ASSUME MaxFaultsAssumption == MaxFaults \in Nat

VARIABLES
    published,  \* history: every event social-service has put on the exchange
    ready,      \* events in the durable queue, not delivered or requeued
    task,       \* the handler invocations in flight
    seen,       \* history: events whose upsert has committed, newer or stale
    lost,       \* history: events nacked without requeue
    faults,     \* faults so far
    overlapped  \* history: two handlers have been in flight at once

tables == <<readModel, conv>>
projVars == <<published, ready, task, seen, lost, faults, overlapped>>
vars == <<tables, projVars>>

\* live: the delivery's channel is still open, so that its ack or nack counts.
Idle == [pc |-> "idle", ev |-> NoEvent, live |-> FALSE]
Task == [pc : {"apply", "touch", "settle"}, ev : Event, live : BOOLEAN]

TypeOK ==
    /\ readModel \in ReadModelRow
    /\ conv \in ConvState
    /\ published \subseteq Event
    /\ ready \subseteq Event
    /\ task \in [Worker -> Task \cup {Idle}]
    /\ seen \subseteq Event
    /\ lost \subseteq Event
    /\ faults \in 0..MaxFaults
    /\ overlapped \in BOOLEAN

\* A run starts with a pair chat-service never heard of, or with a pair that has
\* a conversation and are friends, or former friends, by an event `e`.
ProjInit ==
    /\ ready = {} /\ lost = {} /\ faults = 0 /\ overlapped = FALSE
    /\ task = [w \in Worker |-> Idle]
    /\ published = seen

Fresh == readModel = NoRow /\ conv = "none" /\ seen = {}

Established(e) ==
    /\ readModel = e /\ seen = {e}
    /\ conv = IF e.state = "active" THEN "open" ELSE "closed"

Init ==
    /\ Fresh \/ \E e \in Event : Established(e)
    /\ ProjInit

-----------------------------------------------------------------------------
\* An event is published under an eventId of its own.  Nothing more is assumed
\* of the publisher: replicas of social-service mint and publish concurrently,
\* so a later event may carry a smaller id, and a publish that failed or an
\* accept of each of two crossed requests breaks the alternation of states.
Contract(e) == \A f \in published : f.id # e.id

\* The event reaches the exchange and is routed to the bound queue.
Publish(e) ==
    /\ Contract(e)
    /\ published' = published \cup {e}
    /\ ready' = ready \cup {e}
    /\ UNCHANGED <<tables, task, seen, lost, faults, overlapped>>

\* The broker hands a ready message to a consumer with prefetch to spare.
Deliver(w) ==
    /\ task[w] = Idle
    /\ \E e \in ready :
          /\ ready' = ready \ {e}
          /\ task' = [task EXCEPT ![w] = [pc |-> "apply", ev |-> e, live |-> TRUE]]
    /\ overlapped' = (overlapped \/ \E v \in Worker : task[v] # Idle)
    /\ UNCHANGED <<tables, published, seen, lost, faults>>

\* setWhere: the stored row is overwritten only by a newer event.
MutNewer(stored, e) == stored.state # e.state
Newer(stored, e) == stored.id < e.id

\* FriendsReadModel.apply: one conditional upsert.  A stale or duplicate event
\* returns before it touches the conversation.
Apply(w) ==
    /\ task[w].pc = "apply"
    /\ IF Newer(readModel, task[w].ev)
         THEN /\ readModel' = task[w].ev
              /\ task' = [task EXCEPT ![w].pc = "touch"]
         ELSE /\ task' = [task EXCEPT ![w].pc = "settle"]
              /\ UNCHANGED readModel
    /\ seen' = seen \cup {task[w].ev}
    /\ UNCHANGED <<conv, published, ready, lost, faults, overlapped>>

\* close updates the row whatever its state; reopen flips only a closed one.
\* Neither creates a row.
MutTouched(c, e) == IF e.state = "active" THEN c ELSE "closed"
Touched(c, e) ==
    IF c = "none" THEN "none" ELSE IF e.state = "active" THEN "open" ELSE "closed"

TouchConversation(w) ==
    /\ task[w].pc = "touch"
    /\ conv' = Touched(conv, task[w].ev)
    /\ task' = [task EXCEPT ![w].pc = "settle"]
    /\ UNCHANGED <<readModel, published, ready, seen, lost, faults, overlapped>>

\* The handler returned: dispatch acks the delivery.
Ack(w) ==
    /\ task[w].pc = "settle"
    /\ task' = [task EXCEPT ![w] = Idle]
    /\ UNCHANGED <<tables, published, ready, seen, lost, faults, overlapped>>

-----------------------------------------------------------------------------
Fault == faults < MaxFaults /\ faults' = faults + 1

\* A statement throws: dispatch nacks without requeue and the broker drops the
\* message, with whatever the handler had already committed left in place.
Nack(w) ==
    /\ task[w].pc \in {"apply", "touch"}
    /\ Fault
    /\ task' = [task EXCEPT ![w] = Idle]
    /\ lost' = IF task[w].live THEN lost \cup {task[w].ev} ELSE lost
    /\ UNCHANGED <<tables, published, ready, seen, overlapped>>

MutRequeue(w) == ready
Requeue(w) == IF task[w].live THEN ready \cup {task[w].ev} ELSE ready

\* The process dies: the broker requeues what it had not acked.
Crash(w) ==
    /\ task[w] # Idle
    /\ Fault
    /\ ready' = Requeue(w)
    /\ task' = [task EXCEPT ![w] = Idle]
    /\ UNCHANGED <<tables, published, seen, lost, overlapped>>

\* The connection drops under a handler that keeps running: the broker
\* redelivers its message to someone else, and its own ack will be void.
LoseConnection(w) ==
    /\ task[w].live
    /\ Fault
    /\ ready' = Requeue(w)
    /\ task' = [task EXCEPT ![w].live = FALSE]
    /\ UNCHANGED <<tables, published, seen, lost, overlapped>>

\* The steps of a delivery that goes well.
Handle(w) == Deliver(w) \/ Apply(w) \/ TouchConversation(w) \/ Ack(w)

ProjStep(w) == Handle(w) \/ Nack(w) \/ Crash(w) \/ LoseConnection(w)

Next ==
    \/ \E e \in Event : Publish(e)
    \/ \E w \in Worker : ProjStep(w)

Spec == Init /\ [][Next]_vars

\* The event loop keeps running the handlers and the broker keeps delivering;
\* nothing obliges a fault or a new event.
FairSpec == Spec /\ \A w \in Worker : WF_vars(Handle(w))
-----------------------------------------------------------------------------
\* The abstract promise: whatever the delivery, the row is the newest event
\* of those folded in.
Register == INSTANCE LatestEvent WITH view <- readModel

(* AC-G1: the incremental last-writer-wins upsert computes the newest of all *)
(* events folded so far, in whatever order, and however often, they came.    *)
ImplementsLatestEvent == Register!Spec

Settled == ready = {} /\ \A w \in Worker : task[w] = Idle

(* The end-to-end form of AC-G1: once every event is handled and none was    *)
(* nacked, the row is the newest event PUBLISHED, so no crash or lost        *)
(* connection between two steps of a handler can make an event vanish.       *)
ConvergesToNewest ==
    Settled /\ lost = {} => Register!IsLatest(readModel, published)

\* The conversation of friends is open, that of former friends closed.
Agree == conv # "none" => (conv = "open" <=> IsActive)

(* AC-G2, AC-G3 as far as the code keeps them: if handlers never overlapped  *)
(* and nothing failed, the conversation follows the read-model.              *)
SerialAgreement == Settled /\ ~overlapped /\ faults = 0 => Agree

(* AC-G2, AC-G3 as written, without faults: the conversation is closed when  *)
(* the friendship is removed and reopened when the pair re-friends.          *)
Agreement == Settled /\ faults = 0 => Agree

(* Every event published is eventually folded in, or was nacked: crashes and *)
(* lost connections only delay it.                                           *)
EventuallyFolded ==
    \A e \in Event : e \in published ~> e \in seen \cup lost
=============================================================================
