---------------------------- MODULE SendMessage -----------------------------
(***************************************************************************)
(* chat-service's consumer of the inbound work queue, for message.send     *)
(* envelopes of one pair of users: the friendship gate, the lazy creation  *)
(* of the conversation, the idempotent insert and the outbound frames.     *)
(* Every await of the use case is a step of its own, so that friend events *)
(* and other sends fall between any two of them.  The actions read and     *)
(* write readModel and conv; ChatService composes them with the projection *)
(* that owns those rows.                                                   *)
(***************************************************************************)
EXTENDS ChatTables, FiniteSets

CONSTANTS
    Key,            \* idempotency keys (senderId, clientMsgId) sent to the pair
    SendWorker,     \* concurrent deliveries: prefetch times replicas
    NoKey,          \* what an idle worker holds
    MaxCopies,      \* bound: times the envelope of each key is enqueued (retries)
    MaxSendFaults   \* bound: crashes, lost connections, failed statements

ASSUME KeyAssumption == NoKey \notin Key /\ IsFiniteSet(Key)
ASSUME SendBoundsAssumption == MaxCopies \in [Key -> Nat] /\ MaxSendFaults \in Nat

VARIABLES
    badBody,    \* the keys whose body is blank or too long: rigid, the client's doing
    enqueued,   \* history: envelopes the gateways have put on the queue, by key
    inbound,    \* the durable queue: envelopes not delivered or requeued, by key
    job,        \* the SendMessage executions in flight
    rows,       \* the messages table: id of the row of a key, 0 if there is none
    frames,     \* the frames published to the users' channels
    discarded,  \* history: keys an envelope of which was nacked
    muted,      \* history: keys a frame of which safePublish failed to publish
    sendFaults  \* faults so far

sendVars ==
    <<badBody, enqueued, inbound, job, rows, frames, discarded, muted, sendFaults>>

IdleJob == [pc |-> "idle", key |-> NoKey, id |-> 0, live |-> FALSE]

JobStep == {"find", "check", "create", "insert", "publish", "reject", "settle"}

\* Server ids: fresh per row.  Their order matters to receipts, not here.
MessageId == 1..Cardinality(Key)

Job == [pc : JobStep, key : Key, id : MessageId \cup {0}, live : BOOLEAN]

Frame ==
    [type : {"received"}, to : {"recipient", "sender"}, key : Key, id : MessageId]
    \cup [type : {"sent"}, to : {"sender"}, key : Key, id : MessageId]
    \cup [type : {"rejected"}, to : {"sender"}, key : Key, id : {0}]

SendTypeOK ==
    /\ badBody \subseteq Key
    /\ \A k \in Key : inbound[k] <= enqueued[k] /\ enqueued[k] <= MaxCopies[k]
    /\ inbound \in [Key -> Nat] /\ enqueued \in [Key -> Nat]
    /\ job \in [SendWorker -> Job \cup {IdleJob}]
    /\ rows \in [Key -> MessageId \cup {0}]
    /\ frames \subseteq Frame
    /\ discarded \subseteq Key
    /\ muted \subseteq Key
    /\ sendFaults \in 0..MaxSendFaults

SendInit ==
    /\ badBody \in SUBSET Key
    /\ enqueued = [k \in Key |-> 0]
    /\ inbound = [k \in Key |-> 0]
    /\ job = [w \in SendWorker |-> IdleJob]
    /\ rows = [k \in Key |-> 0]
    /\ frames = {} /\ discarded = {} /\ muted = {}
    /\ sendFaults = 0

-----------------------------------------------------------------------------
\* A gateway relays the client's envelope; a retry repeats the clientMsgId.
Enqueue(k) ==
    /\ enqueued[k] < MaxCopies[k]
    /\ enqueued' = [enqueued EXCEPT ![k] = @ + 1]
    /\ inbound' = [inbound EXCEPT ![k] = @ + 1]
    /\ UNCHANGED <<readModel, conv, job, rows, frames, discarded, muted, sendFaults>>

Receive(w) ==
    /\ job[w] = IdleJob
    /\ \E k \in Key :
          /\ inbound[k] > 0
          /\ inbound' = [inbound EXCEPT ![k] = @ - 1]
          /\ job' = [job EXCEPT ![w] = [pc |-> "find", key |-> k, id |-> 0, live |-> TRUE]]
    /\ UNCHANGED <<readModel, conv, enqueued, rows, frames, discarded, muted, sendFaults>>

Goto(w, step) == job' = [job EXCEPT ![w].pc = step]

\* An existing conversation is gated by its own state alone; none yet asks the
\* read-model next.
MutGate(c) == CASE c = "none" -> "check" [] OTHER -> "insert"
Gate(c) == CASE c = "none" -> "check" [] c = "open" -> "insert" [] c = "closed" -> "reject"

\* Body validation, then conversations.findByPair.
FindConversation(w) ==
    /\ job[w].pc = "find"
    /\ Goto(w, IF job[w].key \in badBody THEN "reject" ELSE Gate(conv))
    /\ UNCHANGED <<readModel, conv, enqueued, inbound, rows, frames, discarded, muted, sendFaults>>

\* friends.isActive: only a NEW conversation consults the read-model.
MutFriendsGate == "create"
FriendsGate == IF IsActive THEN "create" ELSE "reject"

CheckFriends(w) ==
    /\ job[w].pc = "check"
    /\ Goto(w, FriendsGate)
    /\ UNCHANGED <<readModel, conv, enqueued, inbound, rows, frames, discarded, muted, sendFaults>>

\* conversations.create: ON CONFLICT DO NOTHING, then the existing row is
\* returned whatever its state.
MutCreated(c) == "open"
Created(c) == IF c = "none" THEN "open" ELSE c

CreateConversation(w) ==
    /\ job[w].pc = "create"
    /\ conv' = Created(conv)
    /\ Goto(w, "insert")
    /\ UNCHANGED <<readModel, enqueued, inbound, rows, frames, discarded, muted, sendFaults>>

FreshId == 1 + Cardinality({k \in Key : rows[k] # 0})

\* messages.insert: idempotent on the key; a conflict returns the stored row.
MutCanonicalId(k) == FreshId
MutCanonicalId2(k) == Cardinality(Key) + 1
CanonicalId(k) == IF rows[k] = 0 THEN FreshId ELSE rows[k]

Insert(w) ==
    /\ job[w].pc = "insert"
    /\ LET k == job[w].key IN
          /\ rows' = [rows EXCEPT ![k] = CanonicalId(k)]
          /\ job' = [job EXCEPT ![w].pc = "publish", ![w].id = CanonicalId(k)]
    /\ UNCHANGED <<readModel, conv, enqueued, inbound, frames, discarded, muted, sendFaults>>

\* In this order: the message to the recipient, the ack to the sender, the echo
\* to the sender's other devices.
Message(k, i) == [type |-> "received", to |-> "recipient", key |-> k, id |-> i]
SentAck(k, i) == [type |-> "sent", to |-> "sender", key |-> k, id |-> i]
Echo(k, i) == [type |-> "received", to |-> "sender", key |-> k, id |-> i]
Outbound(k, i) == {Message(k, i), SentAck(k, i), Echo(k, i)}

Rejection(k) == [type |-> "rejected", to |-> "sender", key |-> k, id |-> 0]

SendFault == sendFaults < MaxSendFaults /\ sendFaults' = sendFaults + 1

\* safePublish swallows each failure: any of the frames may be missing, and the
\* delivery is acked all the same.
Emit(w, F) ==
    /\ \/ frames' = frames \cup F /\ UNCHANGED <<muted, sendFaults>>
       \/ /\ SendFault
          /\ \E lost \in (SUBSET F) \ {{}} : frames' = frames \cup (F \ lost)
          /\ muted' = muted \cup {job[w].key}
    /\ Goto(w, "settle")
    /\ UNCHANGED <<readModel, conv, enqueued, inbound, rows, discarded>>

PublishOutbound(w) ==
    /\ job[w].pc = "publish"
    /\ Emit(w, Outbound(job[w].key, job[w].id))

\* A domain error becomes message.rejected to the sender, and is acked.
MutRejectionFrames(k) == {}
RejectionFrames(k) == {Rejection(k)}

RejectSend(w) ==
    /\ job[w].pc = "reject"
    /\ Emit(w, RejectionFrames(job[w].key))

AckSend(w) ==
    /\ job[w].pc = "settle"
    /\ job' = [job EXCEPT ![w] = IdleJob]
    /\ UNCHANGED <<readModel, conv, enqueued, inbound, rows, frames, discarded, muted, sendFaults>>

-----------------------------------------------------------------------------
\* A statement throws: not a domain error, so the consumer nacks and the
\* broker drops the envelope.
NackSend(w) ==
    /\ job[w].pc \in {"find", "check", "create", "insert"}
    /\ SendFault
    /\ job' = [job EXCEPT ![w] = IdleJob]
    /\ discarded' = IF job[w].live THEN discarded \cup {job[w].key} ELSE discarded
    /\ UNCHANGED <<readModel, conv, enqueued, inbound, rows, frames, muted>>

MutRequeued(w) == inbound
Requeued(w) ==
    IF job[w].live THEN [inbound EXCEPT ![job[w].key] = @ + 1] ELSE inbound

\* What a process that dies among its publishes has got out.
SentBefore(w) ==
    LET k == job[w].key  i == job[w].id IN
    IF job[w].pc = "publish" THEN {{}, {Message(k, i)}, {Message(k, i), SentAck(k, i)}}
                             ELSE {{}}

CrashSend(w) ==
    /\ job[w] # IdleJob
    /\ SendFault
    /\ inbound' = Requeued(w)
    /\ job' = [job EXCEPT ![w] = IdleJob]
    /\ \E F \in SentBefore(w) : frames' = frames \cup F
    /\ UNCHANGED <<readModel, conv, enqueued, rows, discarded, muted>>

LoseSendConnection(w) ==
    /\ job[w].live
    /\ SendFault
    /\ inbound' = Requeued(w)
    /\ job' = [job EXCEPT ![w].live = FALSE]
    /\ UNCHANGED <<readModel, conv, enqueued, rows, frames, discarded, muted>>

MutProcess(w) ==
    \/ Receive(w) \/ FindConversation(w) \/ CheckFriends(w) \/ CreateConversation(w)
    \/ Insert(w) \/ PublishOutbound(w) \/ AckSend(w)
Process(w) ==
    \/ Receive(w) \/ FindConversation(w) \/ CheckFriends(w) \/ CreateConversation(w)
    \/ Insert(w) \/ PublishOutbound(w) \/ RejectSend(w) \/ AckSend(w)

SendStep(w) == Process(w) \/ NackSend(w) \/ CrashSend(w) \/ LoseSendConnection(w)

SendNext ==
    /\ \/ \E k \in Key : Enqueue(k)
       \/ \E w \in SendWorker : SendStep(w)
    /\ UNCHANGED badBody
=============================================================================
