------------------------------ MODULE Delivery ------------------------------
(***************************************************************************)
(* The outbound half of one gateway, for one user: the sockets the user has *)
(* there, the hub's group of them with the Redis subscription that feeds it, *)
(* the pump of each subscription, and each socket's outgoing buffer with its *)
(* writer. Several processes: the handler of each socket, a pump for each    *)
(* subscription, a writer for each socket, and Redis.                        *)
(*                                                                         *)
(* Frames are numbered as Redis orders them. The subscription is sent by     *)
(* Register and takes effect later. Presence is a module of its own.         *)
(***************************************************************************)
EXTENDS Naturals, Sequences

CONSTANTS
    Conn,       \* the user's sockets, one after the other or at once
    Sub,        \* bound: the subscriptions that may ever be opened
    Capacity,   \* length of a socket's outgoing buffer (32 in connection.go)
    MaxFrames,  \* bound: frames published to the user
    MaxFaults   \* bound: links that die

ASSUME SubAssumption == Sub \subseteq Nat \ {0}
ASSUME CapacityAssumption == Capacity \in Nat \ {0}
ASSUME DeliveryBounds == MaxFrames \in Nat /\ MaxFaults \in Nat

VARIABLES
    phase,      \* how far the handler of each socket has got
    registry,   \* the registry's sockets of the user
    group,      \* the hub's group of the user; empty when there is none
    current,    \* the group's subscription, or NoSub
    sub,        \* the state of each subscription
    inbox,      \* the messages in each subscription's channel
    pump,       \* the fan-out under way in each subscription's pump
    buffer,     \* each socket's outgoing buffer
    writer,     \* the sockets whose writePump runs
    dead,       \* the sockets whose peer is gone without a close
    got,        \* the frames each client has received
    published,
    due,        \* history: frames published to a live subscription of the group
    lost,       \* history: frames dropped by a full buffer or a dead link
    overtaken,  \* history: the pump of a closed subscription served a new group
    faults

handler == <<phase, registry, group, current, sub>>
relay == <<inbox, pump, buffer, writer, dead, got>>
history == <<published, due, lost, overtaken, faults>>
vars == <<handler, relay, history>>

NoSub == 0
AuthOk == 0
Frame == 1..MaxFrames
Resting == [frame |-> 0, to |-> {}]

Registered == {"registered", "serving", "leaving"}

TypeOK ==
    /\ phase \in [Conn -> {"new", "added", "registered", "serving", "leaving", "closing", "closed", "gone"}]
    /\ registry = {c \in Conn : phase[c] \notin {"new", "gone"}}
    /\ group = {c \in Conn : phase[c] \in Registered}
    /\ current \in Sub \cup {NoSub} /\ (current = NoSub <=> group = {})
    /\ sub \in [Sub -> {"none", "sent", "active", "closed", "ended"}]
    /\ \A k \in Sub : sub[k] \in {"sent", "active"} <=> k = current
    /\ inbox \in [Sub -> Seq(Frame)]
    /\ pump \in [Sub -> [frame : 0..MaxFrames, to : SUBSET Conn]]
    /\ buffer \in [Conn -> Seq(Frame \cup {AuthOk})] /\ \A c \in Conn : Len(buffer[c]) <= Capacity
    /\ writer \subseteq registry /\ dead \subseteq Conn
    /\ got \in [Conn -> Seq(Frame \cup {AuthOk})]
    /\ published \in 0..MaxFrames /\ faults \in 0..MaxFaults /\ overtaken \in BOOLEAN
    /\ due \in [Conn -> SUBSET Frame] /\ lost \in [Conn -> SUBSET (Frame \cup {AuthOk})]

Init ==
    /\ phase = [c \in Conn |-> "new"] /\ registry = {} /\ group = {} /\ current = NoSub
    /\ sub = [k \in Sub |-> "none"] /\ inbox = [k \in Sub |-> <<>>] /\ pump = [k \in Sub |-> Resting]
    /\ buffer = [c \in Conn |-> <<>>] /\ writer = {} /\ dead = {}
    /\ got = [c \in Conn |-> <<>>]
    /\ published = 0 /\ faults = 0 /\ overtaken = FALSE
    /\ due = [c \in Conn |-> {}] /\ lost = [c \in Conn |-> {}]

-----------------------------------------------------------------------------
(* The handler of a socket: ServeHTTP and its deferred calls, last first. *)

Becomes(c, p) == phase' = [phase EXCEPT ![c] = p]

\* The first frame in time is a valid token; only then is anything registered.
Accept(c) ==
    /\ phase[c] = "new"
    /\ Becomes(c, "added")
    /\ registry' = registry \cup {c}
    /\ writer' = writer \cup {c}
    /\ UNCHANGED <<group, current, sub, inbox, pump, buffer, dead, got, history>>

Refuse(c) ==
    /\ phase[c] = "new"
    /\ Becomes(c, "gone")
    /\ UNCHANGED <<registry, group, current, sub, relay, history>>

\* Only the user's first socket subscribes.
MutOpens == TRUE
Opens == group = {}

Register(c) ==
    /\ phase[c] = "added"
    /\ Becomes(c, "registered")
    /\ group' = group \cup {c}
    /\ IF Opens
       THEN \E k \in Sub :
              /\ sub[k] = "none" /\ \A j \in Sub : j < k => sub[j] # "none"
              /\ current' = k
              /\ sub' = [sub EXCEPT ![k] = "sent"]
       ELSE UNCHANGED <<current, sub>>
    /\ UNCHANGED <<registry, relay, history>>

\* Enqueue does not wait: what finds the buffer full is dropped. Nobody reads
\* what a closed connection is given.
Fits(c) == Len(buffer[c]) < Capacity
Enqueue(c, f) ==
    IF phase[c] \in {"closed", "gone"} THEN UNCHANGED <<buffer, lost>>
    ELSE IF Fits(c) THEN buffer' = [buffer EXCEPT ![c] = Append(@, f)] /\ UNCHANGED lost
    ELSE lost' = [lost EXCEPT ![c] = @ \cup {f}] /\ UNCHANGED buffer

\* auth_ok, once the hub and the presence registry know of the socket.
Greet(c) ==
    /\ phase[c] = "registered"
    /\ Becomes(c, "serving")
    /\ Enqueue(c, AuthOk)
    /\ UNCHANGED <<registry, group, current, sub, inbox, pump, writer, dead, got>>
    /\ UNCHANGED <<published, due, overtaken, faults>>

\* The read loop ends: the peer closed, or its link is known to be gone.
Hangup(c) ==
    /\ phase[c] = "serving"
    /\ Becomes(c, "leaving")
    /\ UNCHANGED <<registry, group, current, sub, relay, history>>

\* Only the user's last socket cancels the subscription.
MutLast(c) == TRUE
Last(c) == group = {c}

Unregister(c) ==
    /\ phase[c] = "leaving"
    /\ Becomes(c, "closing")
    /\ group' = group \ {c}
    /\ IF Last(c)
       THEN sub' = [sub EXCEPT ![current] = "closed"] /\ current' = NoSub
       ELSE UNCHANGED <<sub, current>>
    /\ UNCHANGED <<registry, relay, history>>

\* With the socket goes what was in its buffer, and its history here.
Close(c) ==
    /\ phase[c] = "closing"
    /\ Becomes(c, "closed")
    /\ writer' = writer \ {c}
    /\ dead' = dead \ {c}
    /\ buffer' = [buffer EXCEPT ![c] = <<>>] /\ got' = [got EXCEPT ![c] = <<>>]
    /\ due' = [due EXCEPT ![c] = {}] /\ lost' = [lost EXCEPT ![c] = {}]
    /\ UNCHANGED <<registry, group, current, sub, inbox, pump, published, overtaken, faults>>

Deregister(c) ==
    /\ phase[c] = "closed"
    /\ Becomes(c, "gone")
    /\ registry' = registry \ {c}
    /\ UNCHANGED <<group, current, sub, relay, history>>

-----------------------------------------------------------------------------
(* Redis. *)

Subscribed(k) ==
    /\ sub[k] = "sent"
    /\ sub' = [sub EXCEPT ![k] = "active"]
    /\ UNCHANGED <<phase, registry, group, current, relay, history>>

\* A service, or another gateway, publishes to the user's channel.
Publish ==
    /\ published < MaxFrames /\ published' = published + 1
    /\ inbox' = [k \in Sub |-> IF sub[k] = "active" THEN Append(inbox[k], published') ELSE inbox[k]]
    /\ due' = [c \in Conn |->
          IF c \in group /\ sub[current] = "active" THEN due[c] \cup {published'} ELSE due[c]]
    /\ UNCHANGED <<handler, pump, buffer, writer, dead, got, lost, overtaken, faults>>

-----------------------------------------------------------------------------
(* The pump of a subscription. *)

\* fanout copies the group's sockets under the lock.
MutListeners == {c \in group : phase[c] = "serving"}
Listeners == group

\* A cancelled pump may still prefer the message it finds, and looks the group
\* up by user.
Take(k) ==
    /\ pump[k] = Resting /\ sub[k] # "ended" /\ inbox[k] # <<>>
    /\ inbox' = [inbox EXCEPT ![k] = Tail(@)]
    /\ pump' = [pump EXCEPT ![k] = IF Listeners = {} THEN Resting
                                   ELSE [frame |-> Head(inbox[k]), to |-> Listeners]]
    /\ overtaken' = (overtaken \/ (sub[k] = "closed" /\ group # {}))
    /\ UNCHANGED <<handler, buffer, writer, dead, got, published, due, lost, faults>>

\* And enqueues outside it, one socket after the other, in any order.
MutReady(k, c) == c \in pump[k].to /\ \A d \in pump[k].to : Fits(d)
Ready(k, c) == c \in pump[k].to

Put(k, c) ==
    /\ Ready(k, c)
    /\ Enqueue(c, pump[k].frame)
    /\ pump' = [pump EXCEPT ![k] = IF pump[k].to = {c} THEN Resting
                                   ELSE [frame |-> pump[k].frame, to |-> pump[k].to \ {c}]]
    /\ UNCHANGED <<handler, inbox, writer, dead, got, published, due, overtaken, faults>>

End(k) ==
    /\ sub[k] = "closed" /\ pump[k] = Resting
    /\ sub' = [sub EXCEPT ![k] = "ended"]
    /\ inbox' = [inbox EXCEPT ![k] = <<>>]
    /\ UNCHANGED <<phase, registry, group, current, pump, buffer, writer, dead, got, history>>

-----------------------------------------------------------------------------
(* The writer of a socket. *)

Write(c) ==
    /\ c \in writer /\ buffer[c] # <<>>
    /\ buffer' = [buffer EXCEPT ![c] = Tail(@)]
    /\ IF c \in dead
       THEN lost' = [lost EXCEPT ![c] = @ \cup {Head(buffer[c])}] /\ UNCHANGED got
       ELSE got' = [got EXCEPT ![c] = Append(@, Head(buffer[c]))] /\ UNCHANGED lost
    /\ UNCHANGED <<handler, inbox, pump, writer, dead, published, due, overtaken, faults>>

\* A write to a dead link fails at last: the writer returns and nobody else is
\* told, so the socket stays registered until its read fails too.
WriteFails(c) ==
    /\ c \in writer \cap dead /\ buffer[c] # <<>>
    /\ writer' = writer \ {c}
    /\ UNCHANGED <<handler, inbox, pump, buffer, dead, got, history>>

LinkDies(c) ==
    /\ c \in registry \ dead /\ phase[c] # "closed"
    /\ faults < MaxFaults /\ faults' = faults + 1
    /\ dead' = dead \cup {c}
    /\ UNCHANGED <<handler, inbox, pump, buffer, writer, got, published, due, lost, overtaken>>

-----------------------------------------------------------------------------
Handle(c) ==
    Register(c) \/ Greet(c) \/ Unregister(c) \/ Close(c) \/ Deregister(c)

Next ==
    \/ \E c \in Conn :
          Accept(c) \/ Refuse(c) \/ Hangup(c) \/ Handle(c) \/ Write(c) \/ WriteFails(c) \/ LinkDies(c)
    \/ \E k \in Sub : Subscribed(k) \/ Take(k) \/ End(k) \/ (\E c \in Conn : Put(k, c))
    \/ Publish

Spec == Init /\ [][Next]_vars

\* The goroutines run; when peers come and go, and frames are published, is open.
FairSpec ==
    /\ Spec
    /\ \A c \in Conn : WF_vars(Handle(c)) /\ WF_vars(Write(c))
    /\ \A k \in Sub :
          /\ WF_vars(Subscribed(k)) /\ WF_vars(Take(k)) /\ WF_vars(End(k))
          /\ \A c \in Conn : WF_vars(Put(k, c))

-----------------------------------------------------------------------------
(* Messaging spec 2.3: a frame published while the subscription of the user's *)
(* group was live is, for every socket of the group then, received, on its    *)
(* way, or dropped by that socket's own full buffer or dead link: the hub     *)
(* itself loses none, whoever comes and goes (Register, Unregister, fanout).  *)
OnItsWay(c, f) ==
    \/ \E i \in 1..Len(buffer[c]) : buffer[c][i] = f
    \/ \E k \in Sub : k = current /\ \E i \in 1..Len(inbox[k]) : inbox[k][i] = f
    \/ \E k \in Sub : pump[k].frame = f /\ c \in pump[k].to

NothingLost ==
    \A c \in group : \A f \in due[c] :
        f \in lost[c] \/ OnItsWay(c, f) \/ \E i \in 1..Len(got[c]) : got[c][i] = f

\* No frame comes twice, or the frames come in the order of Redis.
NoneTwice(s) == \A i, j \in 1..Len(s) : i < j /\ s[i] # AuthOk => s[i] # s[j]
Rising(s) ==
    \A i, j \in 1..Len(s) : i < j /\ s[i] # AuthOk /\ s[j] # AuthOk => s[i] < s[j]

(* A frame reaches a socket once, also where the pump of a closed subscription *)
(* fans out to the group that followed: no two live subscriptions get it. And  *)
(* frames come in the order of Redis, unless that happened (pump, Register).   *)
OrderedOnce ==
    \A c \in Conn :
        /\ NoneTwice(got[c] \o buffer[c])
        /\ ~overtaken => Rising(got[c] \o buffer[c])

(* A frame that is due to a socket is received or dropped in the end, as long  *)
(* as the socket stays and its writer lives: a slow sibling does not stop it   *)
(* (fanout outside the lock, Enqueue that never waits). MaxFrames ends the     *)
(* publishing, so the last frame is settled for good.                          *)
Settled(c, f) ==
    \/ f \in lost[c] \/ c \notin group \cap writer
    \/ \E i \in 1..Len(got[c]) : got[c][i] = f
EveryFrameSettles == <>[](\A c \in Conn : \A f \in due[c] : Settled(c, f))
=============================================================================
