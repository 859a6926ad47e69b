-------------------------- MODULE Delivery_proofs ---------------------------
(***************************************************************************)
(* Proofs about Delivery, for any number of sockets, subscriptions, frames, *)
(* dead links, and any length of buffer.                                    *)
(***************************************************************************)
EXTENDS Delivery, TLAPS

In(s, f) == \E i \in 1..Len(s) : s[i] = f

\* Where a frame due to a socket can be.
Carried(c, f) == \E k \in Sub : pump[k].frame = f /\ c \in pump[k].to
Waiting(f) == \E k \in Sub : k = current /\ In(inbox[k], f)
Kept(c, f) == f \in lost[c] \/ In(buffer[c], f) \/ In(got[c], f)
Accounted(c, f) == Kept(c, f) \/ Waiting(f) \/ Carried(c, f)

\* Nothing is due to a socket that was never in the group, and a socket that
\* was closed has no writer.
Fresh ==
    /\ \A c \in Conn : phase[c] \in {"new", "added"} => due[c] = {}
    /\ \A c \in Conn : phase[c] = "closed" => c \notin writer

NoneLost == \A c \in group : \A f \in due[c] : Accounted(c, f)

\* The type invariant in parts: a step touches one or two of them.
HandlerOK ==
    /\ phase \in [Conn -> {"new", "added", "registered", "serving", "leaving", "closing", "closed", "gone"}]
    /\ registry = {c \in Conn : phase[c] \notin {"new", "gone"}}
    /\ group = {c \in Conn : phase[c] \in Registered}
    /\ current \in Sub \cup {NoSub} /\ (current = NoSub <=> group = {})
    /\ sub \in [Sub -> {"none", "sent", "active", "closed", "ended"}]
    /\ \A k \in Sub : sub[k] \in {"sent", "active"} <=> k = current
PumpOK ==
    /\ inbox \in [Sub -> Seq(Frame)]
    /\ pump \in [Sub -> [frame : 0..MaxFrames, to : SUBSET Conn]]
SocketOK ==
    /\ buffer \in [Conn -> Seq(Frame \cup {AuthOk})] /\ \A c \in Conn : Len(buffer[c]) <= Capacity
    /\ got \in [Conn -> Seq(Frame \cup {AuthOk})]
    /\ due \in [Conn -> SUBSET Frame] /\ lost \in [Conn -> SUBSET (Frame \cup {AuthOk})]
WriterOK == writer \subseteq registry
CountOK ==
    dead \subseteq Conn /\ published \in 0..MaxFrames /\ faults \in 0..MaxFaults /\ overtaken \in BOOLEAN

IInv == TypeOK /\ Fresh /\ NoneLost

-----------------------------------------------------------------------------
LEMMA Parts == TypeOK <=> HandlerOK /\ PumpOK /\ SocketOK /\ WriterOK /\ CountOK
  BY DEF TypeOK, HandlerOK, PumpOK, SocketOK, WriterOK, CountOK

LEMMA PartsNext ==
    HandlerOK' /\ PumpOK' /\ SocketOK' /\ WriterOK' /\ CountOK' /\ Fresh' /\ NoneLost' => IInv'
  BY DEF IInv, TypeOK, HandlerOK, PumpOK, SocketOK, WriterOK, CountOK

\* No subscription is numbered NoSub.
LEMMA Numbers == NoSub \notin Sub
  BY SubAssumption DEF NoSub

\* What a sequence holds once something is appended, or its head is taken.
LEMMA InAppend ==
    ASSUME NEW S, NEW s \in Seq(S), NEW x \in S, NEW f
    PROVE  /\ Append(s, x) \in Seq(S) /\ Len(Append(s, x)) = Len(s) + 1
           /\ In(Append(s, x), f) <=> (In(s, f) \/ f = x)
<1>1. /\ Append(s, x) \in Seq(S) /\ Len(Append(s, x)) = Len(s) + 1 /\ Len(s) \in Nat
      /\ Append(s, x)[Len(s) + 1] = x
      /\ \A i \in 1..Len(s) : Append(s, x)[i] = s[i]
  OBVIOUS
<1> DEFINE t == Append(s, x)
<1> HIDE DEF t
<1>2. \A i \in 1..Len(t) : i \in 1..Len(s) \/ i = Len(s) + 1
  BY <1>1 DEF t
<1>3. Len(s) + 1 \in 1..Len(t) /\ \A i \in 1..Len(s) : i \in 1..Len(t)
  BY <1>1 DEF t
<1>4. In(t, f) <=> (In(s, f) \/ f = x)
  BY <1>1, <1>2, <1>3 DEF In, t
<1> QED BY <1>1, <1>4 DEF t

LEMMA InTail ==
    ASSUME NEW S, NEW s \in Seq(S), s # <<>>, NEW f
    PROVE  /\ Tail(s) \in Seq(S) /\ Len(Tail(s)) <= Len(s) /\ Head(s) \in S
           /\ In(s, f) <=> (In(Tail(s), f) \/ f = Head(s))
<1>1. /\ Tail(s) \in Seq(S) /\ Len(Tail(s)) = Len(s) - 1 /\ Len(s) \in Nat /\ Len(s) >= 1
      /\ Head(s) = s[1] /\ Head(s) \in S
      /\ \A i \in 1..Len(s) - 1 : Tail(s)[i] = s[i + 1]
  OBVIOUS
<1> DEFINE t == Tail(s)
<1> HIDE DEF t
<1>2. ASSUME NEW i \in 1..Len(s), s[i] = f PROVE In(t, f) \/ f = Head(s)
  <2>1. CASE i = 1 BY <1>1, <1>2, <2>1
  <2>2. CASE i # 1
    <3>1. i - 1 \in 1..Len(t) /\ t[i - 1] = s[i]
      BY <1>1, <2>2 DEF t
    <3> QED BY <1>2, <3>1 DEF In
  <2> QED BY <2>1, <2>2
<1>3. ASSUME NEW i \in 1..Len(t), t[i] = f PROVE In(s, f)
  <2>1. i + 1 \in 1..Len(s) /\ s[i + 1] = f
    BY <1>1, <1>3 DEF t
  <2> QED BY <2>1 DEF In
<1>4. f = Head(s) => In(s, f)
  BY <1>1 DEF In
<1>5. In(s, f) <=> (In(t, f) \/ f = Head(s))
  BY <1>2, <1>3, <1>4 DEF In
<1> QED BY <1>1, <1>5 DEF t

LEMMA InitIInv == Init => IInv
<1> SUFFICES ASSUME Init PROVE IInv
  OBVIOUS
<1>1. \A S : <<>> \in Seq(S) /\ Len(<<>>) = 0
  OBVIOUS
<1>2. HandlerOK
  BY Numbers DEF Init, HandlerOK, Registered
<1>3. PumpOK
  BY <1>1, DeliveryBounds DEF Init, PumpOK, Resting
<1>4. SocketOK /\ WriterOK /\ CountOK
  <2>1. buffer \in [Conn -> Seq(Frame \cup {AuthOk})] /\ got \in [Conn -> Seq(Frame \cup {AuthOk})]
    BY <1>1 DEF Init
  <2>2. \A c \in Conn : Len(buffer[c]) <= Capacity
    <3>1. Len(<<>>) = 0
      OBVIOUS
    <3>2. 0 <= Capacity
      BY CapacityAssumption
    <3>3. \A c \in Conn : buffer[c] = <<>>
      BY DEF Init
    <3> QED BY <3>1, <3>2, <3>3
  <2>3. due \in [Conn -> SUBSET Frame] /\ lost \in [Conn -> SUBSET (Frame \cup {AuthOk})]
    BY DEF Init
  <2>4. WriterOK
    BY DEF Init, WriterOK
  <2>5. CountOK
    <3>1. 0 \in 0..MaxFrames /\ 0 \in 0..MaxFaults
      BY DeliveryBounds
    <3> QED BY <3>1 DEF Init, CountOK
  <2> QED BY <2>1, <2>2, <2>3, <2>4, <2>5 DEF SocketOK
<1>5. Fresh /\ NoneLost
  BY DEF Init, Fresh, NoneLost
<1> QED BY <1>2, <1>3, <1>4, <1>5, Parts DEF IInv

-----------------------------------------------------------------------------
\* A step that moves no frame, and lets nobody into the group with frames due.
LEMMA StillFrames ==
    ASSUME IInv, UNCHANGED <<inbox, pump, buffer, got, due, lost>>,
           \A c \in group' : due[c] = {} \/ (c \in group /\ current' = current)
    PROVE  NoneLost'
<1> SUFFICES ASSUME NEW c \in group', NEW f \in due[c] PROVE Accounted(c, f)'
  BY DEF NoneLost
<1>1. Accounted(c, f) /\ current' = current
  BY DEF IInv, NoneLost
<1> QED BY <1>1 DEF Accounted, Kept, Waiting, Carried

\* A socket's handler moves on, without a change of the group.
LEMMA PhaseMoves ==
    ASSUME IInv, NEW c \in Conn,
           NEW p \in {"new", "added", "registered", "serving", "leaving", "closing", "closed", "gone"},
           Becomes(c, p), p \in Registered <=> phase[c] \in Registered,
           registry' = IF p \in {"new", "gone"} THEN registry \ {c} ELSE registry \cup {c},
           UNCHANGED <<group, current, sub>>
    PROVE  HandlerOK'
  BY DEF IInv, TypeOK, HandlerOK, Becomes, Registered

LEMMA AcceptIInv == ASSUME IInv, NEW c \in Conn, Accept(c) PROVE IInv'
<1>1. HandlerOK'
  BY PhaseMoves DEF Accept, Registered
<1>2. PumpOK' /\ SocketOK' /\ CountOK'
  BY Parts DEF IInv, Accept, history, PumpOK, SocketOK, CountOK
<1>3. WriterOK'
  BY Parts DEF IInv, Accept, WriterOK
<1>4. Fresh'
  BY DEF IInv, TypeOK, Fresh, Accept, Becomes, history
<1>5. NoneLost'
  BY StillFrames DEF Accept, history
<1> QED BY <1>1, <1>2, <1>3, <1>4, <1>5, PartsNext

LEMMA RefuseIInv == ASSUME IInv, NEW c \in Conn, Refuse(c) PROVE IInv'
<1>1. HandlerOK'
  <2>1. registry = registry \ {c}
    BY DEF IInv, TypeOK, Refuse
  <2> QED BY <2>1, PhaseMoves DEF Refuse, Registered
<1>2. PumpOK' /\ SocketOK' /\ CountOK' /\ WriterOK'
  BY Parts DEF IInv, Refuse, relay, history, PumpOK, SocketOK, CountOK, WriterOK
<1>3. Fresh'
  BY DEF IInv, TypeOK, Fresh, Refuse, Becomes, relay, history
<1>4. NoneLost'
  BY StillFrames DEF Refuse, relay, history
<1> QED BY <1>1, <1>2, <1>3, <1>4, PartsNext

LEMMA RegisterIInv == ASSUME IInv, NEW c \in Conn, Register(c) PROVE IInv'
<1>1. /\ HandlerOK /\ phase[c] = "added" /\ due[c] = {}
      /\ group' = group \cup {c} /\ c \notin group
  BY Parts DEF IInv, Fresh, Register, HandlerOK, Registered
<1>2. phase' \in [Conn -> {"new", "added", "registered", "serving", "leaving", "closing", "closed", "gone"}]
      /\ phase'[c] = "registered" /\ \A d \in Conn : d # c => phase'[d] = phase[d]
  BY <1>1 DEF HandlerOK, Register, Becomes
<1>3. /\ registry' = {d \in Conn : phase'[d] \notin {"new", "gone"}}
      /\ group' = {d \in Conn : phase'[d] \in Registered}
  BY <1>1, <1>2 DEF HandlerOK, Register, Registered
<1>4. ASSUME group = {} PROVE HandlerOK' /\ NoneLost'
  <2>1. PICK k \in Sub : sub[k] = "none" /\ current' = k /\ sub' = [sub EXCEPT ![k] = "sent"]
    BY <1>4 DEF Register, Opens
  <2>2. /\ current' \in Sub /\ sub' \in [Sub -> {"none", "sent", "active", "closed", "ended"}]
        /\ \A j \in Sub : sub'[j] \in {"sent", "active"} <=> j = current'
    BY <1>1, <1>4, <2>1, Numbers DEF HandlerOK
  <2>3. HandlerOK'
    BY <1>1, <1>2, <1>3, <2>2, Numbers DEF HandlerOK
  <2>4. NoneLost'
    BY <1>1, <1>4, StillFrames DEF Register, relay, history
  <2> QED BY <2>3, <2>4
<1>5. ASSUME group # {} PROVE HandlerOK' /\ NoneLost'
  <2>1. UNCHANGED <<current, sub>>
    BY <1>5 DEF Register, Opens
  <2>2. HandlerOK'
    BY <1>1, <1>2, <1>3, <1>5, <2>1 DEF HandlerOK
  <2>3. NoneLost'
    BY <1>1, <2>1, StillFrames DEF Register, relay, history
  <2> QED BY <2>2, <2>3
<1>6. PumpOK' /\ SocketOK' /\ CountOK' /\ WriterOK'
  BY Parts DEF IInv, Register, relay, history, PumpOK, SocketOK, CountOK, WriterOK
<1>7. Fresh'
  BY <1>2 DEF IInv, Fresh, Register, relay, history
<1> QED BY <1>4, <1>5, <1>6, <1>7, PartsNext

LEMMA HangupIInv == ASSUME IInv, NEW c \in Conn, Hangup(c) PROVE IInv'
<1>1. HandlerOK'
  <2>1. registry = registry \cup {c}
    BY DEF IInv, TypeOK, Hangup
  <2> QED BY <2>1, PhaseMoves DEF Hangup, Registered
<1>2. PumpOK' /\ SocketOK' /\ CountOK' /\ WriterOK'
  BY Parts DEF IInv, Hangup, relay, history, PumpOK, SocketOK, CountOK, WriterOK
<1>3. Fresh'
  BY DEF IInv, TypeOK, Fresh, Hangup, Becomes, relay, history
<1>4. NoneLost'
  BY StillFrames DEF Hangup, relay, history
<1> QED BY <1>1, <1>2, <1>3, <1>4, PartsNext

LEMMA UnregisterIInv == ASSUME IInv, NEW c \in Conn, Unregister(c) PROVE IInv'
<1>1. /\ HandlerOK /\ phase[c] = "leaving" /\ group' = group \ {c} /\ c \in group
      /\ current \in Sub
  BY Parts DEF IInv, Unregister, HandlerOK, Registered
<1>2. phase' \in [Conn -> {"new", "added", "registered", "serving", "leaving", "closing", "closed", "gone"}]
      /\ phase'[c] = "closing" /\ \A d \in Conn : d # c => phase'[d] = phase[d]
  BY <1>1 DEF HandlerOK, Unregister, Becomes
<1>3. /\ registry' = {d \in Conn : phase'[d] \notin {"new", "gone"}}
      /\ group' = {d \in Conn : phase'[d] \in Registered}
  BY <1>1, <1>2 DEF HandlerOK, Unregister, Registered
<1>4. ASSUME group = {c} PROVE HandlerOK' /\ NoneLost'
  <2>1. sub' = [sub EXCEPT ![current] = "closed"] /\ current' = NoSub
    BY <1>4 DEF Unregister, Last
  <2>2. sub' \in [Sub -> {"none", "sent", "active", "closed", "ended"}]
        /\ \A j \in Sub : sub'[j] \notin {"sent", "active"}
    BY <1>1, <2>1 DEF HandlerOK
  <2>3. HandlerOK'
    BY <1>1, <1>2, <1>3, <1>4, <2>1, <2>2, Numbers DEF HandlerOK
  <2>4. NoneLost'
    BY <1>1, <1>4, StillFrames DEF Unregister, relay, history
  <2> QED BY <2>3, <2>4
<1>5. ASSUME group # {c} PROVE HandlerOK' /\ NoneLost'
  <2>1. UNCHANGED <<current, sub>>
    BY <1>5 DEF Unregister, Last
  <2>2. HandlerOK'
    BY <1>1, <1>2, <1>3, <1>5, <2>1, Numbers DEF HandlerOK
  <2>3. NoneLost'
    BY <1>1, <2>1, StillFrames DEF Unregister, relay, history
  <2> QED BY <2>2, <2>3
<1>6. PumpOK' /\ SocketOK' /\ CountOK' /\ WriterOK'
  BY Parts DEF IInv, Unregister, relay, history, PumpOK, SocketOK, CountOK, WriterOK
<1>7. Fresh'
  BY <1>2 DEF IInv, Fresh, Unregister, relay, history
<1> QED BY <1>4, <1>5, <1>6, <1>7, PartsNext

LEMMA CloseIInv == ASSUME IInv, NEW c \in Conn, Close(c) PROVE IInv'
<1>1. HandlerOK'
  <2>1. registry = registry \cup {c}
    BY DEF IInv, TypeOK, Close
  <2> QED BY <2>1, PhaseMoves DEF Close, Registered
<1>2. PumpOK' /\ CountOK' /\ WriterOK'
  BY Parts DEF IInv, Close, PumpOK, CountOK, WriterOK
<1>3. SocketOK'
  <2>1. \A S : <<>> \in Seq(S) /\ Len(<<>>) = 0
    OBVIOUS
  <2> QED BY <2>1, Parts, CapacityAssumption DEF IInv, Close, SocketOK
<1>4. Fresh'
  BY DEF IInv, TypeOK, Fresh, Close, Becomes
<1>5. NoneLost'
  <2> SUFFICES ASSUME NEW d \in group', NEW f \in due'[d] PROVE Accounted(d, f)'
    BY DEF NoneLost
  <2>1. d \in group /\ d # c
    BY DEF Close, IInv, TypeOK, Registered
  <2>2. d \in Conn
    BY <2>1 DEF IInv, TypeOK
  <2>3. due'[d] = due[d] /\ buffer'[d] = buffer[d] /\ got'[d] = got[d] /\ lost'[d] = lost[d]
    BY <2>1, <2>2 DEF Close, IInv, TypeOK
  <2>4. Accounted(d, f)
    BY <2>1, <2>3 DEF IInv, NoneLost
  <2> QED BY <2>3, <2>4 DEF Close, Accounted, Kept, Waiting, Carried
<1> QED BY <1>1, <1>2, <1>3, <1>4, <1>5, PartsNext

LEMMA DeregisterIInv == ASSUME IInv, NEW c \in Conn, Deregister(c) PROVE IInv'
<1>1. HandlerOK'
  BY PhaseMoves DEF Deregister, Registered
<1>2. PumpOK' /\ SocketOK' /\ CountOK'
  BY Parts DEF IInv, Deregister, relay, history, PumpOK, SocketOK, CountOK
<1>3. WriterOK'
  BY Parts DEF IInv, Deregister, relay, WriterOK, Fresh
<1>4. Fresh'
  BY DEF IInv, TypeOK, Fresh, Deregister, Becomes, relay, history
<1>5. NoneLost'
  BY StillFrames DEF Deregister, relay, history
<1> QED BY <1>1, <1>2, <1>3, <1>4, <1>5, PartsNext

\* What Enqueue does to the frames of a socket: nothing is forgotten.
LEMMA EnqueueKeeps ==
    ASSUME SocketOK, HandlerOK, NEW c \in Conn, NEW x \in Frame \cup {AuthOk}, Enqueue(c, x)
    PROVE  /\ buffer' \in [Conn -> Seq(Frame \cup {AuthOk})] /\ \A d \in Conn : Len(buffer'[d]) <= Capacity
           /\ lost' \in [Conn -> SUBSET (Frame \cup {AuthOk})]
           /\ \A d \in Conn, f \in Frame :
                 f \in lost[d] \/ In(buffer[d], f) => f \in lost'[d] \/ In(buffer'[d], f)
           /\ c \in group => x \in lost'[c] \/ In(buffer'[c], x)
<1>1. CASE phase[c] \in {"closed", "gone"}
  BY <1>1 DEF Enqueue, SocketOK, HandlerOK, Registered
<1>2. CASE phase[c] \notin {"closed", "gone"} /\ Fits(c)
  <2>1. buffer' = [buffer EXCEPT ![c] = Append(@, x)] /\ UNCHANGED lost
    BY <1>2 DEF Enqueue
  <2>2. /\ buffer[c] \in Seq(Frame \cup {AuthOk}) /\ Len(buffer[c]) < Capacity /\ Len(buffer[c]) \in Nat
    BY <1>2 DEF SocketOK, Fits
  <2>3. /\ Append(buffer[c], x) \in Seq(Frame \cup {AuthOk}) /\ Len(Append(buffer[c], x)) <= Capacity
        /\ \A f : In(Append(buffer[c], x), f) <=> (In(buffer[c], f) \/ f = x)
    BY <2>2, InAppend, CapacityAssumption
  <2>4. buffer'[c] = Append(buffer[c], x) /\ \A d \in Conn : d # c => buffer'[d] = buffer[d]
    BY <2>1 DEF SocketOK
  <2> QED BY <2>1, <2>3, <2>4 DEF SocketOK
<1>3. CASE phase[c] \notin {"closed", "gone"} /\ ~Fits(c)
  BY <1>3 DEF Enqueue, SocketOK
<1> QED BY <1>1, <1>2, <1>3

\* A step that forgets no frame of a socket keeps them all accounted for.
LEMMA KeptFrames ==
    ASSUME IInv, UNCHANGED <<group, due>>,
           \A c \in group, f \in Frame : Accounted(c, f) => Accounted(c, f)'
    PROVE  NoneLost'
<1> SUFFICES ASSUME NEW c \in group, NEW f \in due[c] PROVE Accounted(c, f)'
  BY DEF NoneLost
<1>1. f \in Frame /\ Accounted(c, f)
  BY DEF IInv, NoneLost, TypeOK
<1> QED BY <1>1

LEMMA GreetIInv == ASSUME IInv, NEW c \in Conn, Greet(c) PROVE IInv'
<1>0. HandlerOK /\ SocketOK /\ CountOK /\ PumpOK /\ WriterOK /\ Fresh
  BY Parts DEF IInv
<1>1. HandlerOK'
  <2>1. registry = registry \cup {c}
    BY <1>0 DEF HandlerOK, Greet
  <2> QED BY <2>1, PhaseMoves DEF Greet, Registered
<1>2. /\ buffer' \in [Conn -> Seq(Frame \cup {AuthOk})] /\ \A d \in Conn : Len(buffer'[d]) <= Capacity
      /\ lost' \in [Conn -> SUBSET (Frame \cup {AuthOk})]
      /\ \A d \in Conn, f \in Frame :
            f \in lost[d] \/ In(buffer[d], f) => f \in lost'[d] \/ In(buffer'[d], f)
  BY <1>0, EnqueueKeeps DEF Greet
<1>3. SocketOK' /\ PumpOK' /\ WriterOK' /\ CountOK'
  BY <1>0, <1>2 DEF Greet, SocketOK, PumpOK, WriterOK, CountOK
<1>4. Fresh'
  BY <1>0 DEF Fresh, Greet, Becomes, HandlerOK
<1>5. \A d \in group, f \in Frame : Accounted(d, f) => Accounted(d, f)'
  BY <1>0, <1>2 DEF Greet, Accounted, Kept, Waiting, Carried, HandlerOK
<1>6. NoneLost'
  BY <1>5, KeptFrames DEF Greet
<1> QED BY <1>1, <1>3, <1>4, <1>6, PartsNext

LEMMA SubscribedIInv == ASSUME IInv, NEW k \in Sub, Subscribed(k) PROVE IInv'
<1>1. HandlerOK'
  BY Parts DEF IInv, HandlerOK, Subscribed
<1>2. PumpOK' /\ SocketOK' /\ CountOK' /\ WriterOK' /\ Fresh'
  BY Parts DEF IInv, Subscribed, relay, history, PumpOK, SocketOK, CountOK, WriterOK, Fresh
<1>3. NoneLost'
  BY StillFrames DEF Subscribed, relay, history
<1> QED BY <1>1, <1>2, <1>3, PartsNext

LEMMA PublishIInv == ASSUME IInv, Publish PROVE IInv'
<1>0. HandlerOK /\ SocketOK /\ CountOK /\ PumpOK /\ WriterOK /\ Fresh
  BY Parts DEF IInv
<1>1. HandlerOK' /\ WriterOK' /\ CountOK'
  BY <1>0, DeliveryBounds DEF Publish, handler, HandlerOK, WriterOK, CountOK
<1>2. PICK x \in Frame : x = published'
  BY <1>0, DeliveryBounds DEF Publish, CountOK, Frame
<1>3. \A k \in Sub : /\ Append(inbox[k], x) \in Seq(Frame)
                     /\ \A f : In(Append(inbox[k], x), f) <=> (In(inbox[k], f) \/ f = x)
  BY <1>0, InAppend DEF PumpOK
<1>4. \A k \in Sub : inbox'[k] = IF sub[k] = "active" THEN Append(inbox[k], x) ELSE inbox[k]
  BY <1>2 DEF Publish
<1>5. PumpOK'
  <2>1. \A k \in Sub : inbox'[k] \in Seq(Frame)
    BY <1>0, <1>3, <1>4 DEF PumpOK
  <2>2. inbox' \in [Sub -> Seq(Frame)]
    BY <2>1 DEF Publish
  <2> QED BY <1>0, <2>2 DEF PumpOK, Publish
<1>6. \A c \in Conn : due'[c] = IF c \in group /\ sub[current] = "active" THEN due[c] \cup {x} ELSE due[c]
  BY <1>2 DEF Publish
<1>7. SocketOK'
  BY <1>0, <1>2, <1>6 DEF SocketOK, Publish
<1>8. Fresh'
  BY <1>0, <1>6 DEF Fresh, Publish, handler, HandlerOK, Registered
<1>9. NoneLost'
  <2> SUFFICES ASSUME NEW c \in group, NEW f \in due'[c] PROVE Accounted(c, f)'
    BY DEF NoneLost, Publish, handler
  <2>1. c \in Conn /\ current \in Sub
    BY <1>0 DEF HandlerOK
  <2>2. CASE f \in due[c]
    <3>1. Accounted(c, f)
      BY <2>2 DEF IInv, NoneLost
    <3>2. Waiting(f) => Waiting(f)'
      BY <1>3, <1>4 DEF Waiting, Publish, handler
    <3> QED BY <3>1, <3>2 DEF Accounted, Kept, Carried, Publish, handler
  <2>3. CASE f = x /\ sub[current] = "active"
    <3>1. In(inbox'[current], f)
      BY <1>3, <1>4, <2>1, <2>3
    <3> QED BY <2>1, <3>1 DEF Accounted, Waiting, Publish, handler
  <2> QED BY <1>6, <2>1, <2>2, <2>3
<1> QED BY <1>1, <1>5, <1>7, <1>8, <1>9, PartsNext

LEMMA TakeIInv == ASSUME IInv, NEW k \in Sub, Take(k) PROVE IInv'
<1>0. HandlerOK /\ SocketOK /\ CountOK /\ PumpOK /\ WriterOK /\ Fresh
  BY Parts DEF IInv
<1>1. HandlerOK' /\ WriterOK' /\ SocketOK' /\ Fresh'
  BY <1>0 DEF Take, handler, HandlerOK, WriterOK, SocketOK, Fresh
<1>2. CountOK'
  BY <1>0 DEF Take, CountOK
<1>3. /\ inbox[k] \in Seq(Frame) /\ inbox[k] # <<>> /\ pump[k] = Resting
      /\ Tail(inbox[k]) \in Seq(Frame) /\ Head(inbox[k]) \in Frame
      /\ \A f : In(inbox[k], f) <=> (In(Tail(inbox[k]), f) \/ f = Head(inbox[k]))
  BY <1>0, InTail DEF Take, PumpOK
<1>4. /\ inbox'[k] = Tail(inbox[k]) /\ \A j \in Sub : j # k => inbox'[j] = inbox[j]
      /\ inbox' \in [Sub -> Seq(Frame)]
  BY <1>0, <1>3 DEF Take, PumpOK
<1>5. /\ pump'[k] = IF group = {} THEN Resting ELSE [frame |-> Head(inbox[k]), to |-> group]
      /\ \A j \in Sub : j # k => pump'[j] = pump[j]
  BY <1>0 DEF Take, PumpOK, Listeners
<1>6. pump' \in [Sub -> [frame : 0..MaxFrames, to : SUBSET Conn]]
  <2>1. Head(inbox[k]) \in 0..MaxFrames /\ group \subseteq Conn /\ 0 \in 0..MaxFrames
    BY <1>0, <1>3, DeliveryBounds DEF HandlerOK, Frame
  <2>2. pump'[k] \in [frame : 0..MaxFrames, to : SUBSET Conn]
    BY <1>5, <2>1 DEF Resting
  <2> QED BY <1>0, <2>2 DEF Take, PumpOK
<1>7. ASSUME NEW c \in group, NEW f \in Frame, Accounted(c, f) PROVE Accounted(c, f)'
  <2>1. CASE Kept(c, f)
    BY <2>1 DEF Accounted, Kept, Take
  <2>2. CASE Waiting(f)
    <3>1. CASE current = k /\ f = Head(inbox[k])
      <4>1. pump'[k].frame = f /\ c \in pump'[k].to
        BY <1>5, <3>1
      <4> QED BY <4>1 DEF Accounted, Carried
    <3>2. CASE current = k /\ In(Tail(inbox[k]), f)
      BY <1>4, <3>2 DEF Accounted, Waiting, Take, handler
    <3>3. CASE current # k
      BY <1>4, <2>2, <3>3 DEF Accounted, Waiting, Take, handler
    <3> QED BY <1>3, <2>2, <3>1, <3>2, <3>3 DEF Waiting
  <2>3. CASE Carried(c, f)
    <3>1. PICK j \in Sub : pump[j].frame = f /\ c \in pump[j].to
      BY <2>3 DEF Carried
    <3>2. j # k
      BY <1>3, <3>1 DEF Resting
    <3> QED BY <1>5, <3>1, <3>2 DEF Accounted, Carried
  <2> QED BY <1>7, <2>1, <2>2, <2>3 DEF Accounted
<1>8. NoneLost'
  BY <1>7, KeptFrames DEF Take, handler
<1> QED BY <1>0, <1>1, <1>2, <1>4, <1>6, <1>8, PartsNext DEF PumpOK

LEMMA PutIInv == ASSUME IInv, NEW k \in Sub, NEW c \in Conn, Put(k, c) PROVE IInv'
<1>0. HandlerOK /\ SocketOK /\ CountOK /\ PumpOK /\ WriterOK /\ Fresh
  BY Parts DEF IInv
<1>1. HandlerOK' /\ WriterOK' /\ CountOK' /\ Fresh'
  BY <1>0 DEF Put, handler, HandlerOK, WriterOK, CountOK, Fresh
<1>2. PICK x \in Frame \cup {AuthOk} : x = pump[k].frame
  BY <1>0 DEF PumpOK, Frame, AuthOk
<1>3. /\ buffer' \in [Conn -> Seq(Frame \cup {AuthOk})] /\ \A d \in Conn : Len(buffer'[d]) <= Capacity
      /\ lost' \in [Conn -> SUBSET (Frame \cup {AuthOk})]
      /\ \A d \in Conn, f \in Frame :
            f \in lost[d] \/ In(buffer[d], f) => f \in lost'[d] \/ In(buffer'[d], f)
      /\ c \in group => x \in lost'[c] \/ In(buffer'[c], x)
  BY <1>0, <1>2, EnqueueKeeps DEF Put
<1>4. SocketOK'
  BY <1>0, <1>3 DEF SocketOK, Put
<1>5. /\ c \in pump[k].to
      /\ pump'[k] = IF pump[k].to = {c} THEN Resting ELSE [frame |-> pump[k].frame, to |-> pump[k].to \ {c}]
      /\ \A j \in Sub : j # k => pump'[j] = pump[j]
      /\ pump[k] \in [frame : 0..MaxFrames, to : SUBSET Conn]
  BY <1>0 DEF Put, Ready, PumpOK
<1>6. /\ pump'[k] \in [frame : 0..MaxFrames, to : SUBSET Conn]
      /\ \A d \in pump[k].to : d # c => pump'[k].frame = pump[k].frame /\ d \in pump'[k].to
  BY <1>5, DeliveryBounds DEF Resting
<1>7. PumpOK'
  BY <1>0, <1>6 DEF PumpOK, Put
<1>8. ASSUME NEW d \in group, NEW f \in Frame, Accounted(d, f) PROVE Accounted(d, f)'
  <2>0. d \in Conn
    BY <1>0 DEF HandlerOK
  <2>1. CASE Kept(d, f)
    BY <1>3, <2>0, <2>1 DEF Accounted, Kept, Put
  <2>2. CASE Waiting(f)
    BY <2>2 DEF Accounted, Waiting, Put, handler
  <2>3. CASE Carried(d, f)
    <3>1. PICK j \in Sub : pump[j].frame = f /\ d \in pump[j].to
      BY <2>3 DEF Carried
    <3>2. CASE j = k /\ d = c
      BY <1>2, <1>3, <3>1, <3>2 DEF Accounted, Kept
    <3>3. CASE ~(j = k /\ d = c)
      BY <1>5, <1>6, <3>1, <3>3 DEF Accounted, Carried
    <3> QED BY <3>2, <3>3
  <2> QED BY <1>8, <2>1, <2>2, <2>3 DEF Accounted
<1>9. NoneLost'
  BY <1>8, KeptFrames DEF Put, handler
<1> QED BY <1>1, <1>4, <1>7, <1>9, PartsNext

LEMMA EndIInv == ASSUME IInv, NEW k \in Sub, End(k) PROVE IInv'
<1>0. HandlerOK /\ SocketOK /\ CountOK /\ PumpOK /\ WriterOK /\ Fresh
  BY Parts DEF IInv
<1>1. HandlerOK'
  BY <1>0 DEF HandlerOK, End
<1>2. SocketOK' /\ CountOK' /\ WriterOK' /\ Fresh'
  BY <1>0 DEF End, history, SocketOK, CountOK, WriterOK, Fresh
<1>3. k # current /\ <<>> \in Seq(Frame)
  BY <1>0 DEF HandlerOK, End
<1>4. PumpOK'
  BY <1>0, <1>3 DEF PumpOK, End
<1>5. \A c \in group, f \in Frame : Accounted(c, f) => Accounted(c, f)'
  <2>1. \A j \in Sub : j = current => inbox'[j] = inbox[j]
    BY <1>0, <1>3 DEF End, PumpOK
  <2> QED BY <2>1 DEF Accounted, Kept, Waiting, Carried, End, history
<1>6. NoneLost'
  BY <1>5, KeptFrames DEF End, history
<1> QED BY <1>1, <1>2, <1>4, <1>6, PartsNext

LEMMA WriteIInv == ASSUME IInv, NEW c \in Conn, Write(c) PROVE IInv'
<1>0. HandlerOK /\ SocketOK /\ CountOK /\ PumpOK /\ WriterOK /\ Fresh
  BY Parts DEF IInv
<1>1. HandlerOK' /\ WriterOK' /\ CountOK' /\ Fresh' /\ PumpOK'
  BY <1>0 DEF Write, handler, HandlerOK, WriterOK, CountOK, Fresh, PumpOK
<1>2. PICK h \in Frame \cup {AuthOk} : h = Head(buffer[c])
  BY <1>0, InTail DEF Write, SocketOK
<1>3. /\ Tail(buffer[c]) \in Seq(Frame \cup {AuthOk}) /\ Len(Tail(buffer[c])) <= Len(buffer[c])
      /\ \A f : In(buffer[c], f) <=> (In(Tail(buffer[c]), f) \/ f = h)
  BY <1>0, <1>2, InTail DEF Write, SocketOK
<1>4. /\ buffer'[c] = Tail(buffer[c]) /\ \A d \in Conn : d # c => buffer'[d] = buffer[d]
      /\ buffer' \in [Conn -> Seq(Frame \cup {AuthOk})]
  BY <1>0, <1>3 DEF Write, SocketOK
<1>5. \A d \in Conn : Len(buffer'[d]) <= Capacity
  <2>1. Len(Tail(buffer[c])) \in Nat /\ Len(buffer[c]) \in Nat /\ Len(buffer[c]) <= Capacity
    <3>1. buffer[c] \in Seq(Frame \cup {AuthOk}) /\ Len(buffer[c]) <= Capacity
      BY <1>0 DEF SocketOK
    <3> QED BY <1>3, <3>1
  <2>2. Len(buffer'[c]) <= Capacity
    BY <1>3, <1>4, <2>1, CapacityAssumption
  <2>3. ASSUME NEW d \in Conn, d # c PROVE Len(buffer'[d]) <= Capacity
    BY <1>0, <1>4, <2>3 DEF SocketOK
  <2> QED BY <2>2, <2>3
<1>6. /\ got' \in [Conn -> Seq(Frame \cup {AuthOk})] /\ lost' \in [Conn -> SUBSET (Frame \cup {AuthOk})]
      /\ \A d \in Conn, f \in Frame : f \in lost[d] \/ In(got[d], f) => f \in lost'[d] \/ In(got'[d], f)
      /\ h \in lost'[c] \/ In(got'[c], h)
  <2>1. CASE c \in dead
    BY <1>0, <1>2, <2>1 DEF Write, SocketOK
  <2>2. CASE c \notin dead
    <3>1. got' = [got EXCEPT ![c] = Append(@, h)] /\ UNCHANGED lost
      BY <1>2, <2>2 DEF Write
    <3>2. /\ Append(got[c], h) \in Seq(Frame \cup {AuthOk})
          /\ \A f : In(Append(got[c], h), f) <=> (In(got[c], f) \/ f = h)
      <4>1. got[c] \in Seq(Frame \cup {AuthOk})
        BY <1>0 DEF SocketOK
      <4> QED BY <4>1, InAppend
    <3>3. got'[c] = Append(got[c], h) /\ \A d \in Conn : d # c => got'[d] = got[d]
      BY <1>0, <3>1 DEF SocketOK
    <3> QED BY <1>0, <3>1, <3>2, <3>3 DEF SocketOK
  <2> QED BY <2>1, <2>2
<1>7. SocketOK'
  BY <1>0, <1>4, <1>5, <1>6 DEF SocketOK, Write
<1>8. ASSUME NEW d \in group, NEW f \in Frame, Accounted(d, f) PROVE Accounted(d, f)'
  <2>1. d \in Conn
    BY <1>0 DEF HandlerOK
  <2>2. CASE Kept(d, f)
    BY <1>3, <1>4, <1>6, <2>1, <2>2 DEF Accounted, Kept
  <2>3. CASE Waiting(f) \/ Carried(d, f)
    BY <2>3 DEF Accounted, Waiting, Carried, Write, handler
  <2> QED BY <1>8, <2>2, <2>3 DEF Accounted
<1>9. NoneLost'
  BY <1>8, KeptFrames DEF Write, handler
<1> QED BY <1>1, <1>7, <1>9, PartsNext

LEMMA WriteFailsIInv == ASSUME IInv, NEW c \in Conn, WriteFails(c) PROVE IInv'
<1>1. HandlerOK' /\ PumpOK' /\ SocketOK' /\ WriterOK' /\ CountOK' /\ Fresh'
  BY Parts DEF IInv, WriteFails, handler, history, HandlerOK, PumpOK, SocketOK, WriterOK, CountOK, Fresh
<1>2. NoneLost'
  BY StillFrames DEF WriteFails, handler, history
<1> QED BY <1>1, <1>2, PartsNext

LEMMA LinkDiesIInv == ASSUME IInv, NEW c \in Conn, LinkDies(c) PROVE IInv'
<1>1. HandlerOK' /\ PumpOK' /\ SocketOK' /\ WriterOK' /\ Fresh'
  BY Parts DEF IInv, LinkDies, handler, HandlerOK, PumpOK, SocketOK, WriterOK, Fresh
<1>2. CountOK'
  BY Parts, DeliveryBounds DEF IInv, LinkDies, CountOK
<1>3. NoneLost'
  BY StillFrames DEF LinkDies, handler
<1> QED BY <1>1, <1>2, <1>3, PartsNext

LEMMA StutterIInv == ASSUME IInv, UNCHANGED vars PROVE IInv'
<1>1. HandlerOK' /\ PumpOK' /\ SocketOK' /\ WriterOK' /\ CountOK' /\ Fresh'
  BY Parts DEF IInv, vars, handler, relay, history, HandlerOK, PumpOK, SocketOK, WriterOK, CountOK, Fresh
<1>2. NoneLost'
  BY StillFrames DEF vars, handler, relay, history
<1> QED BY <1>1, <1>2, PartsNext

-----------------------------------------------------------------------------
\* The invariant holds of every behaviour, one step at a time.
THEOREM Invariant == Spec => []IInv
<1>1. Init => IInv
  BY InitIInv
<1>2. IInv /\ [Next]_vars => IInv'
  <2> SUFFICES ASSUME IInv, [Next]_vars PROVE IInv'
    OBVIOUS
  <2>1. ASSUME NEW c \in Conn, Accept(c) \/ Refuse(c) \/ Hangup(c) PROVE IInv'
    BY <2>1, AcceptIInv, RefuseIInv, HangupIInv
  <2>2. ASSUME NEW c \in Conn, Handle(c) PROVE IInv'
    BY <2>2, RegisterIInv, GreetIInv, UnregisterIInv, CloseIInv, DeregisterIInv DEF Handle
  <2>3. ASSUME NEW c \in Conn, Write(c) \/ WriteFails(c) \/ LinkDies(c) PROVE IInv'
    BY <2>3, WriteIInv, WriteFailsIInv, LinkDiesIInv
  <2>4. ASSUME NEW k \in Sub, Subscribed(k) \/ Take(k) \/ End(k) PROVE IInv'
    BY <2>4, SubscribedIInv, TakeIInv, EndIInv
  <2>5. ASSUME NEW k \in Sub, NEW c \in Conn, Put(k, c) PROVE IInv'
    BY <2>5, PutIInv
  <2> QED BY <2>1, <2>2, <2>3, <2>4, <2>5, PublishIInv, StutterIInv DEF Next
<1> QED BY <1>1, <1>2, PTL DEF Spec

\* Every variable keeps its type: in particular the group has a subscription
\* exactly while it has a socket, and no other subscription is live (hub.go).
THEOREM TypeCorrect == Spec => []TypeOK
<1>1. IInv => TypeOK BY DEF IInv
<1> QED BY <1>1, Invariant, PTL

\* The hub loses no frame that is due to a socket, whoever registers, leaves or
\* dies meanwhile (Register, Unregister, fanout).
THEOREM NothingLostHolds == Spec => []NothingLost
<1>1. IInv => NothingLost
  BY DEF IInv, NoneLost, NothingLost, Accounted, Kept, Waiting, Carried, OnItsWay, In
<1> QED BY <1>1, Invariant, PTL

-----------------------------------------------------------------------------
(* The order of frames, while no pump has overtaken another. *)

Seen(c, f) == In(got[c], f) \/ In(buffer[c], f)

\* What a socket has is in order; what a pump carries to it is newer than that,
\* and what waits in its group's channel is newer still.
RisingSockets ==
    \A c \in Conn :
        /\ Rising(got[c]) /\ Rising(buffer[c])
        /\ \A f, g \in Frame : In(got[c], f) /\ In(buffer[c], g) => f < g
RisingInboxes == \A k \in Sub : Rising(inbox[k])
CarriedIsNewer ==
    \A c \in Conn, k \in Sub, f \in Frame : Seen(c, f) /\ c \in pump[k].to => f < pump[k].frame
WaitingIsNewest ==
    \A c \in group, f, g \in Frame : Seen(c, f) \/ Carried(c, f) => (Waiting(g) => f < g)

\* Nothing is newer than the last frame published.
Past ==
    /\ \A c \in Conn, f \in Frame : Seen(c, f) \/ Carried(c, f) => f <= published
    /\ \A k \in Sub, f \in Frame : In(inbox[k], f) => f <= published

\* A socket is served by one pump at a time, in the group by the group's own.
OnePump ==
    /\ \A c \in Conn, j, k \in Sub : c \in pump[j].to /\ c \in pump[k].to => j = k
    /\ \A c \in group, k \in Sub : c \in pump[k].to => k = current

\* A socket outside the hub has had nothing, and a new subscription holds nothing.
Untouched ==
    /\ \A c \in Conn : phase[c] \in {"new", "added"} =>
          got[c] = <<>> /\ buffer[c] = <<>> /\ \A k \in Sub : c \notin pump[k].to
    /\ \A k \in Sub : sub[k] = "none" => inbox[k] = <<>>

Order ==
    /\ RisingSockets /\ RisingInboxes /\ CarriedIsNewer /\ WaitingIsNewest
    /\ Past /\ OnePump /\ Untouched

LEMMA NothingIn == Rising(<<>>) /\ \A f : ~In(<<>>, f)
  BY DEF Rising, In

LEMMA RisingAppend ==
    ASSUME NEW S \in SUBSET Nat, NEW s \in Seq(S), NEW x \in S, Rising(s),
           \A f \in S \ {AuthOk} : In(s, f) /\ x # AuthOk => f < x
    PROVE  Rising(Append(s, x))
<1>1. /\ Len(Append(s, x)) = Len(s) + 1 /\ Len(s) \in Nat
      /\ Append(s, x)[Len(s) + 1] = x
      /\ \A i \in 1..Len(s) : Append(s, x)[i] = s[i] /\ s[i] \in S
  OBVIOUS
<1> DEFINE t == Append(s, x)
<1> HIDE DEF t
<1> SUFFICES ASSUME NEW i \in 1..Len(t), NEW j \in 1..Len(t), i < j, t[i] # AuthOk, t[j] # AuthOk
             PROVE  t[i] < t[j]
  BY DEF Rising, t
<1>2. i \in 1..Len(s)
  BY <1>1 DEF t
<1>3. CASE j \in 1..Len(s)
  BY <1>1, <1>2, <1>3 DEF Rising, t
<1>4. CASE j = Len(s) + 1
  <2>1. t[j] = x /\ t[i] = s[i] /\ s[i] \in S \ {AuthOk} /\ In(s, s[i])
    BY <1>1, <1>2, <1>4 DEF t, In
  <2> QED BY <2>1
<1> QED BY <1>1, <1>3, <1>4 DEF t

LEMMA RisingTail ==
    ASSUME NEW S \in SUBSET Nat, NEW s \in Seq(S), s # <<>>, Rising(s)
    PROVE  /\ Rising(Tail(s))
           /\ \A f \in S \ {AuthOk} : In(Tail(s), f) /\ Head(s) # AuthOk => Head(s) < f
<1>1. /\ Len(Tail(s)) = Len(s) - 1 /\ Len(s) \in Nat /\ Len(s) >= 1
      /\ Head(s) = s[1]
      /\ \A i \in 1..Len(s) - 1 : Tail(s)[i] = s[i + 1]
  OBVIOUS
<1> DEFINE t == Tail(s)
<1> HIDE DEF t
<1>2. \A i \in 1..Len(t) : t[i] = s[i + 1] /\ i + 1 \in 1..Len(s)
  BY <1>1 DEF t
<1>3. Rising(t)
  BY <1>1, <1>2 DEF Rising, t
<1>4. ASSUME NEW f \in S \ {AuthOk}, NEW i \in 1..Len(t), t[i] = f, s[1] # AuthOk PROVE s[1] < f
  <2>1. 1 \in 1..Len(s) /\ i + 1 \in 1..Len(s) /\ 1 < i + 1 /\ s[i + 1] = f
    BY <1>1, <1>2, <1>4
  <2> QED BY <1>4, <2>1 DEF Rising
<1> QED BY <1>1, <1>3, <1>4 DEF In, t

LEMMA RisingConcat ==
    ASSUME NEW S \in SUBSET Nat, NEW s \in Seq(S), NEW t \in Seq(S), Rising(s), Rising(t),
           \A f, g \in S \ {AuthOk} : In(s, f) /\ In(t, g) => f < g
    PROVE  Rising(s \o t)
<1> DEFINE u == s \o t
<1>1. /\ Len(u) = Len(s) + Len(t) /\ Len(s) \in Nat /\ Len(t) \in Nat
      /\ \A i \in 1..Len(s) : u[i] = s[i] /\ s[i] \in S
      /\ \A i \in 1..Len(u) : i > Len(s) => u[i] = t[i - Len(s)]
      /\ \A i \in 1..Len(t) : t[i] \in S
  OBVIOUS
<1> HIDE DEF u
<1> SUFFICES ASSUME NEW i \in 1..Len(u), NEW j \in 1..Len(u), i < j, u[i] # AuthOk, u[j] # AuthOk
             PROVE  u[i] < u[j]
  BY DEF Rising, u
<1>2. CASE j <= Len(s)
  <2>1. i \in 1..Len(s) /\ j \in 1..Len(s)
    BY <1>1, <1>2
  <2> QED BY <1>1, <2>1 DEF Rising
<1>3. CASE i > Len(s)
  <2>1. i - Len(s) \in 1..Len(t) /\ j - Len(s) \in 1..Len(t) /\ i - Len(s) < j - Len(s)
    BY <1>1, <1>3
  <2>2. u[i] = t[i - Len(s)] /\ u[j] = t[j - Len(s)]
    BY <1>1, <1>3
  <2> QED BY <2>1, <2>2 DEF Rising
<1>4. CASE i <= Len(s) /\ j > Len(s)
  <2>1. i \in 1..Len(s) /\ j - Len(s) \in 1..Len(t)
    BY <1>1, <1>4
  <2>2. u[i] = s[i] /\ s[i] \in S /\ u[j] = t[j - Len(s)] /\ t[j - Len(s)] \in S
    BY <1>1, <1>4, <2>1
  <2>3. In(s, u[i]) /\ In(t, u[j])
    BY <2>1, <2>2 DEF In
  <2> QED BY <2>2, <2>3
<1> QED BY <1>1, <1>2, <1>3, <1>4

LEMMA InitOrder == Init => Order
  BY NothingIn DEF Init, Order, RisingSockets, RisingInboxes, CarriedIsNewer, WaitingIsNewest, Past,
     OnePump, Untouched, Seen, Carried, Waiting, Resting

\* A step that moves no frame, and lets only untouched sockets into the group.
LEMMA StillOrder ==
    ASSUME IInv, Order, UNCHANGED <<inbox, pump, buffer, got, published>>,
           \A c \in group' : (c \in group /\ current' = current) \/ phase[c] \in {"new", "added"},
           group' \subseteq Conn,
           \A c \in Conn : phase'[c] \in {"new", "added"} => phase[c] \in {"new", "added"},
           \A k \in Sub : sub'[k] = "none" => sub[k] = "none"
    PROVE  Order'
<1>1. RisingSockets' /\ RisingInboxes' /\ CarriedIsNewer' /\ Past'
  BY DEF Order, RisingSockets, RisingInboxes, CarriedIsNewer, Past, Seen, Carried
<1>2. Untouched'
  BY DEF Order, Untouched
<1>3. ASSUME NEW c \in Conn, phase[c] \in {"new", "added"}
      PROVE  /\ \A f : ~Seen(c, f) /\ ~Carried(c, f)
             /\ \A k \in Sub : c \notin pump[k].to
  BY <1>3, NothingIn DEF Order, Untouched, Seen, Carried
<1>4. OnePump'
  BY <1>3 DEF Order, OnePump
<1>5. WaitingIsNewest'
  <2> SUFFICES ASSUME NEW c \in group', NEW f \in Frame, NEW g \in Frame,
                      (Seen(c, f) \/ Carried(c, f))', Waiting(g)'
               PROVE  f < g
    BY DEF WaitingIsNewest
  <2>1. Seen(c, f) \/ Carried(c, f)
    BY DEF Seen, Carried
  <2>2. c \in group /\ current' = current
    BY <1>3, <2>1
  <2>3. Waiting(g)
    BY <2>2 DEF Waiting
  <2> QED BY <2>1, <2>2, <2>3 DEF Order, WaitingIsNewest
<1> QED BY <1>1, <1>2, <1>4, <1>5 DEF Order

LEMMA HandlerOrder ==
    ASSUME IInv, Order, NEW c \in Conn,
           Accept(c) \/ Refuse(c) \/ Register(c) \/ Hangup(c) \/ Unregister(c) \/ Deregister(c)
    PROVE  Order'
<1>1. UNCHANGED <<inbox, pump, buffer, got, published>>
  BY DEF Accept, Refuse, Register, Hangup, Unregister, Deregister, relay, history
<1>2. \A d \in Conn : phase'[d] \in {"new", "added"} => phase[d] \in {"new", "added"}
  BY DEF IInv, TypeOK, Accept, Refuse, Register, Hangup, Unregister, Deregister, Becomes
<1>3. \A k \in Sub : sub'[k] = "none" => sub[k] = "none"
  BY DEF IInv, TypeOK, Accept, Refuse, Register, Hangup, Unregister, Deregister
<1>4. /\ \A d \in group' : (d \in group /\ current' = current) \/ phase[d] \in {"new", "added"}
      /\ group' \subseteq Conn
  BY DEF IInv, TypeOK, Accept, Refuse, Register, Opens, Hangup, Unregister, Last, Deregister, Registered
<1> QED BY <1>1, <1>2, <1>3, <1>4, StillOrder

LEMMA QuietOrder ==
    ASSUME IInv, Order,
           \/ \E c \in Conn : WriteFails(c) \/ LinkDies(c)
           \/ \E k \in Sub : Subscribed(k)
           \/ UNCHANGED vars
    PROVE  Order'
<1>1. UNCHANGED <<inbox, pump, buffer, got, published>> /\ UNCHANGED <<phase, group, current>>
  BY DEF WriteFails, LinkDies, Subscribed, vars, handler, relay, history
<1>2. \A k \in Sub : sub'[k] = "none" => sub[k] = "none"
  BY DEF IInv, TypeOK, WriteFails, LinkDies, Subscribed, vars, handler
<1>3. group' \subseteq Conn
  BY <1>1 DEF IInv, TypeOK
<1> QED BY <1>1, <1>2, <1>3, StillOrder

LEMMA CloseOrder == ASSUME IInv, Order, NEW c \in Conn, Close(c) PROVE Order'
<1>1. /\ phase[c] = "closing" /\ phase'[c] = "closed" /\ got'[c] = <<>> /\ buffer'[c] = <<>>
      /\ \A d \in Conn : d # c => got'[d] = got[d] /\ buffer'[d] = buffer[d] /\ phase'[d] = phase[d]
      /\ UNCHANGED <<inbox, pump, published, group, current, sub>> /\ group \subseteq Conn
  BY DEF IInv, TypeOK, Close, Becomes
<1>2. \A d \in Conn : \A f : Seen(d, f)' => Seen(d, f)
  BY <1>1, NothingIn DEF Seen
<1>3. RisingSockets'
  BY <1>1, NothingIn DEF Order, RisingSockets
<1>4. RisingInboxes' /\ OnePump'
  BY <1>1 DEF Order, RisingInboxes, OnePump
<1>5. CarriedIsNewer' /\ Past'
  BY <1>1, <1>2 DEF Order, CarriedIsNewer, Past, Carried
<1>6. WaitingIsNewest'
  BY <1>1, <1>2 DEF Order, WaitingIsNewest, Carried, Waiting
<1>7. Untouched'
  BY <1>1 DEF Order, Untouched
<1> QED BY <1>3, <1>4, <1>5, <1>6, <1>7 DEF Order

\* A frame newer than what a socket has keeps its order.
LEMMA EnqueueOrder ==
    ASSUME IInv, Order, NEW c \in Conn, NEW x \in Frame \cup {AuthOk}, Enqueue(c, x), UNCHANGED got,
           \A f \in Frame : Seen(c, f) /\ x # AuthOk => f < x
    PROVE  /\ RisingSockets'
           /\ \A d \in Conn, f \in Frame : Seen(d, f)' => Seen(d, f) \/ (d = c /\ f = x)
           /\ \A d \in Conn : d # c => buffer'[d] = buffer[d]
<1>0. Frame \cup {AuthOk} \in SUBSET Nat /\ Frame = (Frame \cup {AuthOk}) \ {AuthOk}
  BY DeliveryBounds DEF Frame, AuthOk
<1>1. CASE UNCHANGED buffer
  BY <1>1 DEF Order, RisingSockets, Seen
<1>2. CASE buffer' = [buffer EXCEPT ![c] = Append(@, x)]
  <2>1. buffer \in [Conn -> Seq(Frame \cup {AuthOk})]
    BY DEF IInv, TypeOK
  <2>2. buffer'[c] = Append(buffer[c], x) /\ \A d \in Conn : d # c => buffer'[d] = buffer[d]
    BY <1>2, <2>1
  <2>3. buffer[c] \in Seq(Frame \cup {AuthOk})
    BY <2>1
  <2>4. \A f : In(buffer'[c], f) <=> (In(buffer[c], f) \/ f = x)
    BY <2>2, <2>3, InAppend
  <2>5. Rising(buffer[c])
    BY DEF Order, RisingSockets
  <2>6. Rising(buffer'[c])
    <3>1. \A f \in (Frame \cup {AuthOk}) \ {AuthOk} : In(buffer[c], f) /\ x # AuthOk => f < x
      BY <1>0 DEF Seen
    <3> HIDE DEF Rising
    <3> QED BY <1>0, <2>2, <2>3, <2>5, <3>1, RisingAppend
  <2>7. \A f, g \in Frame : In(got[c], f) /\ In(buffer'[c], g) => f < g
    <3>1. \A g \in Frame : g # AuthOk
      BY DEF Frame, AuthOk
    <3> QED BY <2>4, <3>1 DEF Order, RisingSockets, Seen
  <2>8. RisingSockets'
    BY <2>2, <2>6, <2>7 DEF Order, RisingSockets
  <2> QED BY <2>2, <2>4, <2>8 DEF Seen
<1> QED BY <1>1, <1>2 DEF Enqueue

LEMMA GreetOrder == ASSUME IInv, Order, NEW c \in Conn, Greet(c) PROVE Order'
<1>1. /\ \A f \in Frame : f # AuthOk
      /\ UNCHANGED <<got, inbox, pump, published, group, current, sub>> /\ group \subseteq Conn
  BY DEF Greet, Frame, AuthOk, IInv, TypeOK
<1>2. /\ RisingSockets'
      /\ \A d \in Conn, f \in Frame : Seen(d, f)' => Seen(d, f)
      /\ \A d \in Conn : d # c => buffer'[d] = buffer[d]
  BY <1>1, EnqueueOrder DEF Greet
<1>3. RisingInboxes' /\ OnePump'
  BY <1>1 DEF Order, RisingInboxes, OnePump
<1>4. CarriedIsNewer' /\ Past'
  BY <1>1, <1>2 DEF Order, CarriedIsNewer, Past, Carried
<1>5. WaitingIsNewest'
  BY <1>1, <1>2 DEF Order, WaitingIsNewest, Carried, Waiting
<1>6. /\ phase'[c] = "serving" /\ \A d \in Conn : d # c => phase'[d] = phase[d]
  BY DEF Greet, Becomes, IInv, TypeOK
<1>7. Untouched'
  BY <1>1, <1>2, <1>6 DEF Order, Untouched
<1> QED BY <1>2, <1>3, <1>4, <1>5, <1>7 DEF Order

LEMMA PublishOrder == ASSUME IInv, Order, Publish PROVE Order'
<1>1. PICK x \in Frame : x = published' /\ x = published + 1
  BY DeliveryBounds DEF IInv, TypeOK, Publish, Frame
<1>2. /\ inbox \in [Sub -> Seq(Frame)] /\ published \in Nat /\ group \subseteq Conn
      /\ Frame \in SUBSET Nat /\ \A f \in Frame : f # AuthOk
      /\ UNCHANGED <<got, buffer, pump, phase, group, current, sub>>
  BY DeliveryBounds DEF IInv, TypeOK, Publish, handler, Frame, AuthOk
<1>3. \A k \in Sub : inbox'[k] = IF sub[k] = "active" THEN Append(inbox[k], x) ELSE inbox[k]
  BY <1>1 DEF Publish
<1>4. \A k \in Sub, f \in Frame : In(inbox'[k], f) => In(inbox[k], f) \/ f = x
  BY <1>2, <1>3, InAppend
<1>5. RisingInboxes'
  <2> SUFFICES ASSUME NEW k \in Sub PROVE Rising(inbox'[k])
    BY DEF RisingInboxes
  <2>1. Rising(inbox[k]) /\ \A f \in Frame \ {AuthOk} : In(inbox[k], f) => f < x
    BY <1>1, <1>2 DEF Order, RisingInboxes, Past
  <2>2. inbox[k] \in Seq(Frame)
    BY <1>2
  <2>3. Rising(Append(inbox[k], x))
    BY <1>2, <2>1, <2>2, RisingAppend
  <2> QED BY <1>3, <2>1, <2>3
<1>6. RisingSockets' /\ CarriedIsNewer' /\ OnePump'
  BY <1>2 DEF Order, RisingSockets, CarriedIsNewer, OnePump, Seen
<1>7. \A f \in Frame : f <= published => f < x /\ f <= x
  BY <1>1, <1>2
<1>8. \A c \in Conn : \A f : (Seen(c, f)' <=> Seen(c, f)) /\ (Carried(c, f)' <=> Carried(c, f))
  BY <1>2 DEF Seen, Carried
<1>9. Past'
  <2>1. x <= x
    BY <1>2
  <2> QED BY <1>1, <1>4, <1>7, <1>8, <2>1 DEF Order, Past
<1>10. WaitingIsNewest'
  <2>1. \A g \in Frame : Waiting(g)' => Waiting(g) \/ g = x
    BY <1>2, <1>4 DEF Waiting
  <2> QED BY <1>2, <1>7, <1>8, <2>1 DEF Order, WaitingIsNewest, Past
<1>11. Untouched'
  BY <1>2, <1>3 DEF Order, Untouched
<1> QED BY <1>5, <1>6, <1>9, <1>10, <1>11 DEF Order

LEMMA TakeOrder == ASSUME IInv, Order, NEW k \in Sub, Take(k), ~overtaken' PROVE Order'
<1>0. /\ inbox \in [Sub -> Seq(Frame)] /\ pump \in [Sub -> [frame : 0..MaxFrames, to : SUBSET Conn]]
      /\ Frame \in SUBSET Nat /\ (\A f \in Frame : f # AuthOk) /\ group \subseteq Conn
      /\ UNCHANGED <<got, buffer, published, phase, group, current, sub>>
      /\ pump[k] = Resting /\ inbox[k] # <<>> /\ sub[k] # "ended"
  BY DEF IInv, TypeOK, Take, handler, Frame, AuthOk
<1>1. PICK h \in Frame : h = Head(inbox[k]) /\ In(inbox[k], h)
  BY <1>0, InTail
<1>2. /\ inbox'[k] = Tail(inbox[k]) /\ \A j \in Sub : j # k => inbox'[j] = inbox[j]
  BY <1>0 DEF Take
<1>3. Rising(inbox[k])
  BY DEF Order, RisingInboxes
<1>4. Rising(inbox'[k]) /\ \A f \in Frame : In(inbox'[k], f) => h < f /\ In(inbox[k], f)
  <2>1. inbox[k] \in Seq(Frame)
    BY <1>0
  <2>2. Rising(Tail(inbox[k])) /\ \A f \in Frame \ {AuthOk} : In(Tail(inbox[k]), f) => h < f
    BY <1>0, <1>1, <1>3, <2>1, RisingTail
  <2> QED BY <1>0, <1>2, <2>1, <2>2, InTail
<1>5. RisingSockets' /\ RisingInboxes'
  BY <1>0, <1>2, <1>4 DEF Order, RisingSockets, RisingInboxes
<1>6. \A j \in Sub, f \in Frame : In(inbox'[j], f) => In(inbox[j], f)
  BY <1>2, <1>4
<1>7. \A c, f : Seen(c, f)' <=> Seen(c, f)
  BY <1>0 DEF Seen
<1>8. \A g \in Frame : Waiting(g)' => Waiting(g)
  BY <1>0, <1>6 DEF Waiting
<1>9. Untouched'
  <2>1. sub[k] # "none"
    BY <1>0 DEF Order, Untouched
  <2>2. \A c \in Conn : phase[c] \in {"new", "added"} => c \notin group
    BY DEF IInv, TypeOK, Registered
  <2>3. \A c \in Conn, j \in Sub : c \in pump'[j].to => c \in pump[j].to \/ c \in group
    BY <1>0 DEF Take, Listeners, Resting
  <2> QED BY <1>0, <1>2, <2>1, <2>2, <2>3 DEF Order, Untouched
<1>10. CASE group = {}
  <2>1. pump' = pump
    BY <1>0, <1>10 DEF Take, Listeners
  <2>2. OnePump' /\ CarriedIsNewer' /\ WaitingIsNewest' /\ Past'
    BY <1>0, <1>6, <1>7, <1>10, <2>1
    DEF Order, OnePump, CarriedIsNewer, WaitingIsNewest, Past, Carried
  <2> QED BY <1>5, <1>9, <2>2 DEF Order
<1>11. CASE group # {}
  <2>1. k = current
    <3>1. sub[k] # "closed"
      BY <1>11 DEF Take
    <3>2. sub[k] # "none" /\ sub[k] \in {"none", "sent", "active", "closed", "ended"}
      BY <1>0 DEF Order, Untouched, IInv, TypeOK
    <3> QED BY <1>0, <3>1, <3>2 DEF IInv, TypeOK
  <2>2. /\ pump'[k].frame = h /\ pump'[k].to = group
        /\ \A j \in Sub : j # k => pump'[j] = pump[j]
    BY <1>0, <1>1, <1>11 DEF Take, Listeners
  <2>3. \A c \in group, j \in Sub : c \in pump'[j].to => j = k
    BY <1>0, <2>1, <2>2 DEF Order, OnePump
  <2>4. \A c \in Conn, j \in Sub : c \notin group /\ c \in pump'[j].to => j # k
    BY <2>2
  <2>5. OnePump'
    BY <1>0, <2>1, <2>2, <2>3, <2>4 DEF Order, OnePump
  <2>6. Waiting(h)
    BY <1>1, <2>1 DEF Waiting
  <2>7. CarriedIsNewer'
    BY <1>0, <1>7, <2>2, <2>6 DEF Order, CarriedIsNewer, WaitingIsNewest
  <2>8. \A c \in Conn, f \in Frame : Carried(c, f)' => Carried(c, f) \/ (c \in group /\ f = h)
    BY <2>2 DEF Carried
  <2>9. Past'
    BY <1>0, <1>1, <1>6, <1>7, <2>8 DEF Order, Past
  <2>10. \A g \in Frame : Waiting(g)' => h < g
    BY <1>0, <1>4, <2>1 DEF Waiting
  <2>11. WaitingIsNewest'
    BY <1>0, <1>7, <1>8, <2>8, <2>10 DEF Order, WaitingIsNewest
  <2> QED BY <1>5, <1>9, <2>5, <2>7, <2>9, <2>11 DEF Order
<1> QED BY <1>10, <1>11

LEMMA PutOrder == ASSUME IInv, Order, NEW k \in Sub, NEW c \in Conn, Put(k, c) PROVE Order'
<1>0. /\ pump \in [Sub -> [frame : 0..MaxFrames, to : SUBSET Conn]] /\ c \in pump[k].to
      /\ UNCHANGED <<got, inbox, published, phase, group, current, sub>> /\ group \subseteq Conn
  BY DEF IInv, TypeOK, Put, Ready, handler
<1>1. PICK x \in Frame \cup {AuthOk} : x = pump[k].frame
  BY <1>0 DEF Frame, AuthOk
<1>2. \A f \in Frame : Seen(c, f) => f < x
  BY <1>0, <1>1 DEF Order, CarriedIsNewer
<1>3. /\ RisingSockets'
      /\ \A d \in Conn, f \in Frame : Seen(d, f)' => Seen(d, f) \/ (d = c /\ f = x)
      /\ \A d \in Conn : d # c => buffer'[d] = buffer[d]
  BY <1>1, <1>2, EnqueueOrder DEF Put
<1>4. /\ \A d \in pump'[k].to : d \in pump[k].to /\ d # c /\ pump'[k].frame = x
      /\ \A j \in Sub : j # k => pump'[j] = pump[j]
  BY <1>0, <1>1 DEF Put, Resting
<1>5. \A j \in Sub : c \notin pump'[j].to
  BY <1>0, <1>4 DEF Order, OnePump
<1>6. \A d \in Conn, j \in Sub : d \in pump'[j].to => d # c /\ d \in pump[j].to /\ pump'[j].frame = pump[j].frame
  BY <1>1, <1>4, <1>5
<1>7. OnePump' /\ RisingInboxes'
  BY <1>0, <1>6 DEF Order, OnePump, RisingInboxes
<1>8. CarriedIsNewer'
  BY <1>3, <1>6 DEF Order, CarriedIsNewer
<1>9. \A d \in Conn, f \in Frame : (Seen(d, f) \/ Carried(d, f))' => Seen(d, f) \/ Carried(d, f)
  BY <1>0, <1>1, <1>3, <1>6 DEF Carried
<1>10. Past' /\ WaitingIsNewest'
  BY <1>0, <1>9 DEF Order, Past, WaitingIsNewest, Waiting
<1>11. Untouched'
  BY <1>0, <1>3, <1>6 DEF Order, Untouched
<1> QED BY <1>3, <1>7, <1>8, <1>10, <1>11 DEF Order

LEMMA EndOrder == ASSUME IInv, Order, NEW k \in Sub, End(k) PROVE Order'
<1>1. /\ UNCHANGED <<got, buffer, pump, published, phase, group, current>> /\ group \subseteq Conn
      /\ \A j \in Sub : inbox'[j] = inbox[j] \/ inbox'[j] = <<>>
      /\ \A j \in Sub : sub'[j] = "none" => sub[j] = "none"
  BY DEF IInv, TypeOK, End, history
<1>2. \A j \in Sub : \A f : In(inbox'[j], f) => In(inbox[j], f)
  BY <1>1, NothingIn
<1>3. RisingInboxes'
  BY <1>1, NothingIn DEF Order, RisingInboxes
<1>4. RisingSockets' /\ CarriedIsNewer' /\ OnePump'
  BY <1>1 DEF Order, RisingSockets, CarriedIsNewer, OnePump, Seen
<1>5. Past' /\ WaitingIsNewest'
  BY <1>1, <1>2 DEF Order, Past, WaitingIsNewest, Seen, Carried, Waiting
<1>6. Untouched'
  BY <1>1 DEF Order, Untouched
<1> QED BY <1>3, <1>4, <1>5, <1>6 DEF Order

LEMMA WriteOrder == ASSUME IInv, Order, NEW c \in Conn, Write(c) PROVE Order'
<1>0. /\ buffer \in [Conn -> Seq(Frame \cup {AuthOk})] /\ got \in [Conn -> Seq(Frame \cup {AuthOk})]
      /\ buffer[c] # <<>> /\ group \subseteq Conn
      /\ Frame \cup {AuthOk} \in SUBSET Nat /\ (\A f \in Frame : f # AuthOk)
      /\ UNCHANGED <<inbox, pump, published, phase, group, current, sub>>
  BY DeliveryBounds DEF IInv, TypeOK, Write, handler, Frame, AuthOk
<1>1. buffer[c] \in Seq(Frame \cup {AuthOk}) /\ got[c] \in Seq(Frame \cup {AuthOk})
  BY <1>0
<1>2. PICK h \in Frame \cup {AuthOk} : h = Head(buffer[c])
  BY <1>0, <1>1, InTail
<1>3. \A f : In(buffer[c], f) <=> (In(Tail(buffer[c]), f) \/ f = h)
  BY <1>0, <1>1, <1>2, InTail
<1>4. /\ Rising(buffer[c]) /\ Rising(got[c])
      /\ \A f, g \in Frame : In(got[c], f) /\ In(buffer[c], g) => f < g
  BY DEF Order, RisingSockets
<1>5. /\ Rising(Tail(buffer[c]))
      /\ \A f \in (Frame \cup {AuthOk}) \ {AuthOk} : In(Tail(buffer[c]), f) /\ h # AuthOk => h < f
  BY <1>0, <1>1, <1>2, <1>4, RisingTail
<1>6. buffer'[c] = Tail(buffer[c]) /\ \A d \in Conn : d # c => buffer'[d] = buffer[d] /\ got'[d] = got[d]
  BY <1>0 DEF Write
<1>7. /\ Rising(got'[c])
      /\ \A f : In(got'[c], f) => In(got[c], f) \/ f = h
  <2>1. CASE got' = got
    BY <1>4, <2>1
  <2>2. CASE got' = [got EXCEPT ![c] = Append(@, h)]
    <3>1. got'[c] = Append(got[c], h)
      BY <1>0, <2>2
    <3>2. \A f \in (Frame \cup {AuthOk}) \ {AuthOk} : In(got[c], f) /\ h # AuthOk => f < h
      BY <1>2, <1>3, <1>4
    <3>3. Rising(Append(got[c], h))
      BY <1>0, <1>1, <1>4, <3>2, RisingAppend
    <3>4. \A f : In(Append(got[c], h), f) <=> (In(got[c], f) \/ f = h)
      BY <1>1, InAppend
    <3> QED BY <3>1, <3>3, <3>4
  <2> QED BY <1>2, <2>1, <2>2 DEF Write
<1>8. RisingSockets'
  <2>1. \A f, g \in Frame : In(got'[c], f) /\ In(buffer'[c], g) => f < g
    BY <1>0, <1>3, <1>4, <1>5, <1>6, <1>7
  <2> QED BY <1>5, <1>6, <1>7, <2>1 DEF Order, RisingSockets
<1>9. \A d \in Conn : \A f : Seen(d, f)' => Seen(d, f)
  BY <1>3, <1>6, <1>7 DEF Seen
<1>10. RisingInboxes' /\ OnePump'
  BY <1>0 DEF Order, RisingInboxes, OnePump
<1>11. CarriedIsNewer' /\ Past' /\ WaitingIsNewest'
  BY <1>0, <1>9 DEF Order, CarriedIsNewer, Past, WaitingIsNewest, Carried, Waiting
<1>12. Untouched'
  BY <1>0, <1>6 DEF Order, Untouched
<1> QED BY <1>8, <1>10, <1>11, <1>12 DEF Order

-----------------------------------------------------------------------------
(* Each frame once, whichever pump serves which group. *)

\* What a subscription holds of a frame: it is in its channel or with its pump.
Carries(k, f) == pump[k].frame = f /\ pump[k].to # {}
Holds(k, f) == In(inbox[k], f) \/ Carries(k, f)

SocketsOnce ==
    \A c \in Conn :
        /\ NoneTwice(got[c]) /\ NoneTwice(buffer[c])
        /\ \A f \in Frame : ~(In(got[c], f) /\ In(buffer[c], f))
InboxesOnce == \A k \in Sub : NoneTwice(inbox[k])

\* A frame has one subscription, which no socket has it from while it is in the
\* channel, nor a socket that its pump has yet to serve.
OneHome == \A j, k \in Sub, f \in Frame : Holds(j, f) /\ Holds(k, f) => j = k
Unopened ==
    \A k \in Sub, f \in Frame :
        In(inbox[k], f) => ~Carries(k, f) /\ \A c \in Conn : ~Seen(c, f)
Unserved == \A k \in Sub, f \in Frame : pump[k].frame = f => \A c \in pump[k].to : ~Seen(c, f)

\* Nothing is newer than the last frame published.
Issued ==
    /\ \A c \in Conn, f \in Frame : Seen(c, f) => f <= published
    /\ \A k \in Sub, f \in Frame : Holds(k, f) => f <= published

Once == SocketsOnce /\ InboxesOnce /\ OneHome /\ Unopened /\ Unserved /\ Issued

LEMMA OnceAppend ==
    ASSUME NEW S, NEW s \in Seq(S), NEW x \in S, NoneTwice(s), x # AuthOk => ~In(s, x)
    PROVE  NoneTwice(Append(s, x))
<1> DEFINE t == Append(s, x)
<1>1. /\ Len(t) = Len(s) + 1 /\ Len(s) \in Nat /\ t[Len(s) + 1] = x
      /\ \A i \in 1..Len(s) : t[i] = s[i]
  OBVIOUS
<1> HIDE DEF t
<1> SUFFICES ASSUME NEW i \in 1..Len(t), NEW j \in 1..Len(t), i < j, t[i] # AuthOk PROVE t[i] # t[j]
  BY DEF NoneTwice, t
<1>2. i \in 1..Len(s)
  BY <1>1
<1>3. CASE j \in 1..Len(s)
  BY <1>1, <1>2, <1>3 DEF NoneTwice
<1>4. CASE j = Len(s) + 1
  BY <1>1, <1>2, <1>4 DEF In
<1> QED BY <1>1, <1>3, <1>4

LEMMA OnceTail ==
    ASSUME NEW S, NEW s \in Seq(S), s # <<>>, NoneTwice(s)
    PROVE  NoneTwice(Tail(s)) /\ (Head(s) # AuthOk => ~In(Tail(s), Head(s)))
<1> DEFINE t == Tail(s)
<1>1. /\ Len(t) = Len(s) - 1 /\ Len(s) \in Nat /\ Len(s) >= 1 /\ Head(s) = s[1]
      /\ \A i \in 1..Len(s) - 1 : t[i] = s[i + 1]
  OBVIOUS
<1> HIDE DEF t
<1>2. \A i \in 1..Len(t) : t[i] = s[i + 1] /\ i + 1 \in 1..Len(s) /\ 1 < i + 1 /\ 1 \in 1..Len(s)
  BY <1>1
<1>3. NoneTwice(t)
  BY <1>1, <1>2 DEF NoneTwice
<1>4. s[1] # AuthOk => ~In(t, s[1])
  BY <1>2 DEF NoneTwice, In
<1> QED BY <1>1, <1>3, <1>4 DEF t

LEMMA OnceConcat ==
    ASSUME NEW S, NEW s \in Seq(S), NEW t \in Seq(S), NoneTwice(s), NoneTwice(t),
           \A f \in S \ {AuthOk} : ~(In(s, f) /\ In(t, f))
    PROVE  NoneTwice(s \o t)
<1> DEFINE u == s \o t
<1>1. /\ Len(u) = Len(s) + Len(t) /\ Len(s) \in Nat /\ Len(t) \in Nat
      /\ \A i \in 1..Len(s) : u[i] = s[i] /\ s[i] \in S
      /\ \A i \in 1..Len(u) : i > Len(s) => u[i] = t[i - Len(s)]
  OBVIOUS
<1> HIDE DEF u
<1> SUFFICES ASSUME NEW i \in 1..Len(u), NEW j \in 1..Len(u), i < j, u[i] # AuthOk PROVE u[i] # u[j]
  BY DEF NoneTwice, u
<1>2. CASE j <= Len(s)
  <2>1. i \in 1..Len(s) /\ j \in 1..Len(s)
    BY <1>1, <1>2
  <2> QED BY <1>1, <2>1 DEF NoneTwice
<1>3. CASE i > Len(s)
  <2>1. i - Len(s) \in 1..Len(t) /\ j - Len(s) \in 1..Len(t) /\ i - Len(s) < j - Len(s)
    BY <1>1, <1>3
  <2>2. u[i] = t[i - Len(s)] /\ u[j] = t[j - Len(s)]
    BY <1>1, <1>3
  <2> QED BY <2>1, <2>2 DEF NoneTwice
<1>4. CASE i <= Len(s) /\ j > Len(s)
  <2>1. i \in 1..Len(s) /\ j - Len(s) \in 1..Len(t)
    BY <1>1, <1>4
  <2>2. u[i] = s[i] /\ s[i] \in S \ {AuthOk} /\ u[j] = t[j - Len(s)]
    BY <1>1, <1>4, <2>1
  <2> QED BY <2>1, <2>2 DEF In
<1> QED BY <1>1, <1>2, <1>3, <1>4

LEMMA NothingTwice == NoneTwice(<<>>)
  BY DEF NoneTwice

LEMMA InitOnce == Init => Once
  BY NothingIn, NothingTwice
  DEF Init, Once, SocketsOnce, InboxesOnce, OneHome, Unopened, Unserved, Issued, Holds, Carries, Seen, Resting

\* A step of a handler, a dying link or Redis's confirmation moves no frame.
LEMMA StillOnce ==
    ASSUME Once, UNCHANGED <<inbox, pump, buffer, got, published>>
    PROVE  Once'
  BY DEF Once, SocketsOnce, InboxesOnce, OneHome, Unopened, Unserved, Issued, Holds, Carries, Seen

\* With the frames of subscriptions as they were, a socket may come to have less.
LEMMA SeenLess ==
    ASSUME Once, UNCHANGED <<inbox, pump, published>>, SocketsOnce',
           \A c \in Conn, f \in Frame : Seen(c, f)' => Seen(c, f),
           pump \in [Sub -> [frame : 0..MaxFrames, to : SUBSET Conn]]
    PROVE  Once'
<1>1. InboxesOnce' /\ OneHome'
  BY DEF Once, InboxesOnce, OneHome, Holds, Carries
<1>2. Unopened' /\ Unserved' /\ Issued'
  BY DEF Once, Unopened, Unserved, Issued, Holds, Carries
<1> QED BY <1>1, <1>2 DEF Once

LEMMA CloseOnce == ASSUME IInv, Once, NEW c \in Conn, Close(c) PROVE Once'
<1>1. /\ got'[c] = <<>> /\ buffer'[c] = <<>>
      /\ \A d \in Conn : d # c => got'[d] = got[d] /\ buffer'[d] = buffer[d]
      /\ UNCHANGED <<inbox, pump, published>>
  BY DEF IInv, TypeOK, Close
<1>2. SocketsOnce'
  BY <1>1, NothingIn, NothingTwice DEF Once, SocketsOnce
<1>3. \A d \in Conn, f \in Frame : Seen(d, f)' => Seen(d, f)
  BY <1>1, NothingIn DEF Seen
<1> QED BY <1>1, <1>2, <1>3, SeenLess DEF IInv, TypeOK

\* A frame the socket has not had is there once.
LEMMA EnqueueOnce ==
    ASSUME IInv, Once, NEW c \in Conn, NEW x \in Frame \cup {AuthOk}, Enqueue(c, x), UNCHANGED got,
           x # AuthOk => ~Seen(c, x)
    PROVE  /\ SocketsOnce'
           /\ \A d \in Conn, f \in Frame : Seen(d, f)' => Seen(d, f) \/ (d = c /\ f = x)
<1>1. CASE UNCHANGED buffer
  BY <1>1 DEF Once, SocketsOnce, Seen
<1>2. CASE buffer' = [buffer EXCEPT ![c] = Append(@, x)]
  <2>1. /\ buffer'[c] = Append(buffer[c], x) /\ \A d \in Conn : d # c => buffer'[d] = buffer[d]
        /\ buffer[c] \in Seq(Frame \cup {AuthOk})
    BY <1>2 DEF IInv, TypeOK
  <2>2. \A f : In(buffer'[c], f) <=> (In(buffer[c], f) \/ f = x)
    BY <2>1, InAppend
  <2>3. NoneTwice(buffer[c]) /\ (x # AuthOk => ~In(buffer[c], x))
    BY DEF Once, SocketsOnce, Seen
  <2>4. NoneTwice(buffer'[c])
    BY <2>1, <2>3, OnceAppend
  <2>5. \A f \in Frame : f # AuthOk
    BY DEF Frame, AuthOk
  <2>6. SocketsOnce'
    BY <2>1, <2>2, <2>4, <2>5 DEF Once, SocketsOnce, Seen
  <2> QED BY <2>1, <2>2, <2>6 DEF Seen
<1> QED BY <1>1, <1>2 DEF Enqueue

LEMMA GreetOnce == ASSUME IInv, Once, NEW c \in Conn, Greet(c) PROVE Once'
<1>1. UNCHANGED <<got, inbox, pump, published>> /\ Enqueue(c, AuthOk) /\ \A f \in Frame : f # AuthOk
  BY DEF Greet, Frame, AuthOk
<1>2. SocketsOnce' /\ \A d \in Conn, f \in Frame : Seen(d, f)' => Seen(d, f)
  BY <1>1, EnqueueOnce
<1> QED BY <1>1, <1>2, SeenLess DEF IInv, TypeOK

\* A new frame goes to one subscription at most: one is live.
LEMMA PublishOnce == ASSUME IInv, Once, Publish PROVE Once'
<1>1. PICK x \in Frame : x = published' /\ x = published + 1
  BY DeliveryBounds DEF IInv, TypeOK, Publish, Frame
<1>2. /\ inbox \in [Sub -> Seq(Frame)] /\ published \in Nat /\ Frame \subseteq Nat
      /\ UNCHANGED <<got, buffer, pump>>
  BY DeliveryBounds DEF IInv, TypeOK, Publish, handler, Frame
<1>3. \A k \in Sub : inbox'[k] = IF sub[k] = "active" THEN Append(inbox[k], x) ELSE inbox[k]
  BY <1>1 DEF Publish
<1>4. \A k \in Sub, f \in Frame : In(inbox'[k], f) => In(inbox[k], f) \/ (f = x /\ sub[k] = "active")
  BY <1>2, <1>3, InAppend
<1>5. \A k \in Sub, f \in Frame : Holds(k, f)' => Holds(k, f) \/ (f = x /\ sub[k] = "active")
  BY <1>2, <1>4 DEF Holds, Carries
<1>6. /\ \A k \in Sub : ~Holds(k, x)
      /\ \A c \in Conn : ~Seen(c, x)
      /\ \A f \in Frame : f <= published => f <= published'
      /\ published' <= published'
  BY <1>1, <1>2 DEF Once, Issued
<1>7. SocketsOnce'
  BY <1>2 DEF Once, SocketsOnce
<1>8. InboxesOnce'
  <2> SUFFICES ASSUME NEW k \in Sub PROVE NoneTwice(inbox'[k])
    BY DEF InboxesOnce
  <2>1. NoneTwice(inbox[k]) /\ ~In(inbox[k], x) /\ inbox[k] \in Seq(Frame)
    BY <1>2, <1>6 DEF Once, InboxesOnce, Holds
  <2>2. NoneTwice(Append(inbox[k], x))
    BY <2>1, OnceAppend
  <2> QED BY <1>3, <2>1, <2>2
<1>9. OneHome'
  <2>1. \A j, k \in Sub : sub[j] = "active" /\ sub[k] = "active" => j = k
    BY DEF IInv, TypeOK
  <2> QED BY <1>5, <1>6, <2>1 DEF Once, OneHome
<1>10. Unopened'
  <2> SUFFICES ASSUME NEW k \in Sub, NEW f \in Frame, In(inbox'[k], f)
               PROVE  ~Carries(k, f)' /\ \A c \in Conn : ~Seen(c, f)'
    BY DEF Unopened
  <2>1. (Carries(k, f)' <=> Carries(k, f)) /\ \A c : Seen(c, f)' <=> Seen(c, f)
    BY <1>2 DEF Seen, Carries
  <2>2. CASE f = x
    BY <1>6, <2>1, <2>2 DEF Holds
  <2>3. CASE f # x
    <3>1. In(inbox[k], f)
      BY <1>4, <2>3
    <3>2. ~Carries(k, f) /\ \A c \in Conn : ~Seen(c, f)
      BY <3>1 DEF Once, Unopened
    <3> QED BY <2>1, <3>2
  <2> QED BY <2>2, <2>3
<1>11. Unserved'
  BY <1>2 DEF Once, Unserved, Seen
<1>12. Issued'
  <2>1. \A c \in Conn, f \in Frame : Seen(c, f)' <=> Seen(c, f)
    BY <1>2 DEF Seen
  <2> QED BY <1>1, <1>5, <1>6, <2>1 DEF Once, Issued
<1> QED BY <1>7, <1>8, <1>9, <1>10, <1>11, <1>12 DEF Once

\* What a pump takes has left the channel, and no socket has it yet.
LEMMA TakeOnce == ASSUME IInv, Once, NEW k \in Sub, Take(k) PROVE Once'
<1>0. /\ inbox \in [Sub -> Seq(Frame)] /\ pump \in [Sub -> [frame : 0..MaxFrames, to : SUBSET Conn]]
      /\ (\A f \in Frame : f # AuthOk) /\ group \subseteq Conn
      /\ UNCHANGED <<got, buffer, published>> /\ pump[k] = Resting /\ inbox[k] # <<>>
  BY DEF IInv, TypeOK, Take, Frame, AuthOk
<1>1. PICK h \in Frame : h = Head(inbox[k]) /\ In(inbox[k], h)
  BY <1>0, InTail
<1>2. inbox'[k] = Tail(inbox[k]) /\ \A j \in Sub : j # k => inbox'[j] = inbox[j]
  BY <1>0 DEF Take
<1>3. NoneTwice(inbox[k]) /\ inbox[k] \in Seq(Frame)
  BY <1>0 DEF Once, InboxesOnce
<1>4. NoneTwice(inbox'[k]) /\ ~In(inbox'[k], h) /\ \A f : In(inbox'[k], f) => In(inbox[k], f)
  BY <1>0, <1>1, <1>2, <1>3, OnceTail, InTail
<1>5. SocketsOnce' /\ InboxesOnce'
  BY <1>0, <1>2, <1>4 DEF Once, SocketsOnce, InboxesOnce
<1>6. /\ \A j \in Sub : j # k => pump'[j] = pump[j]
      /\ pump'[k] = IF group = {} THEN Resting ELSE [frame |-> h, to |-> group]
  BY <1>0, <1>1 DEF Take, Listeners
<1>7. /\ \A j \in Sub : \A f : In(inbox'[j], f) => In(inbox[j], f)
      /\ \A f \in Frame : Carries(k, f)' => f = h
      /\ \A j \in Sub : \A f : j # k => (Carries(j, f)' <=> Carries(j, f))
  BY <1>2, <1>4, <1>6 DEF Carries, Resting
<1>8. \A j \in Sub, f \in Frame : Holds(j, f)' => Holds(j, f)
  BY <1>1, <1>7 DEF Holds
<1>9. \A c \in Conn : \A f : Seen(c, f)' <=> Seen(c, f)
  BY <1>0 DEF Seen
<1>10. OneHome' /\ Issued'
  BY <1>0, <1>8, <1>9 DEF Once, OneHome, Issued
<1>11. Unopened'
  <2> SUFFICES ASSUME NEW j \in Sub, NEW f \in Frame, In(inbox'[j], f)
               PROVE  ~Carries(j, f)' /\ \A c \in Conn : ~Seen(c, f)'
    BY DEF Unopened
  <2>1. In(inbox[j], f) /\ (j = k => f # h)
    BY <1>4, <1>7
  <2> QED BY <1>7, <1>9, <2>1 DEF Once, Unopened
<1>12. Unserved'
  <2> SUFFICES ASSUME NEW j \in Sub, NEW f \in Frame, pump'[j].frame = f, NEW c \in pump'[j].to
               PROVE  ~Seen(c, f)'
    BY DEF Unserved
  <2>1. CASE j # k
    <3>1. c \in pump[j].to /\ pump[j].frame = f /\ c \in Conn
      BY <1>0, <1>6, <2>1
    <3> QED BY <1>9, <3>1 DEF Once, Unserved
  <2>2. CASE j = k
    <3>1. f = h /\ c \in Conn
      BY <1>0, <1>6, <2>2 DEF Resting
    <3> QED BY <1>1, <1>9, <3>1 DEF Once, Unopened
  <2> QED BY <2>1, <2>2
<1> QED BY <1>5, <1>10, <1>11, <1>12 DEF Once

\* A pump serves each socket once, and no other pump has its frame.
LEMMA PutOnce == ASSUME IInv, Once, NEW k \in Sub, NEW c \in Conn, Put(k, c) PROVE Once'
<1>0. /\ pump \in [Sub -> [frame : 0..MaxFrames, to : SUBSET Conn]] /\ c \in pump[k].to
      /\ UNCHANGED <<got, inbox, published>>
  BY DEF IInv, TypeOK, Put, Ready
<1>1. PICK x \in Frame \cup {AuthOk} : x = pump[k].frame
  BY <1>0 DEF Frame, AuthOk
<1>2. x # AuthOk => x \in Frame /\ ~Seen(c, x) /\ Carries(k, x)
  BY <1>0, <1>1 DEF Once, Unserved, Carries
<1>3. SocketsOnce' /\ \A d \in Conn, f \in Frame : Seen(d, f)' => Seen(d, f) \/ (d = c /\ f = x)
  BY <1>1, <1>2, EnqueueOnce DEF Put
<1>4. /\ \A j \in Sub : j # k => pump'[j] = pump[j]
      /\ pump'[k] = IF pump[k].to = {c} THEN Resting ELSE [frame |-> x, to |-> pump[k].to \ {c}]
  BY <1>0, <1>1 DEF Put
<1>5. \A j \in Sub : \A d : d \in pump'[j].to =>
          d \in pump[j].to /\ pump'[j].frame = pump[j].frame /\ (j = k => d # c)
  BY <1>1, <1>4 DEF Resting
<1>6. \A j \in Sub : \A f : (Carries(j, f)' => Carries(j, f)) /\ (Holds(j, f)' => Holds(j, f))
  BY <1>0, <1>5 DEF Carries, Holds
<1>7. \A f \in Frame : f # AuthOk
  BY DEF Frame, AuthOk
<1>8. InboxesOnce' /\ OneHome'
  BY <1>0, <1>6 DEF Once, InboxesOnce, OneHome
<1>9. \A j \in Sub : x # AuthOk => ~In(inbox[j], x) /\ (Carries(j, x) => j = k)
  <2>1. \A j \in Sub : x # AuthOk /\ Holds(j, x) => j = k
    BY <1>2 DEF Once, OneHome, Holds
  <2>2. x # AuthOk => ~In(inbox[k], x)
    BY <1>2 DEF Once, Unopened
  <2> QED BY <2>1, <2>2 DEF Holds
<1>10. Unopened'
  <2> SUFFICES ASSUME NEW j \in Sub, NEW f \in Frame, In(inbox'[j], f)
               PROVE  ~Carries(j, f)' /\ \A d \in Conn : ~Seen(d, f)'
    BY DEF Unopened
  <2>1. In(inbox[j], f) /\ f # x
    BY <1>0, <1>7, <1>9
  <2> QED BY <1>3, <1>6, <2>1 DEF Once, Unopened
<1>11. Unserved'
  <2> SUFFICES ASSUME NEW j \in Sub, NEW f \in Frame, pump'[j].frame = f, NEW d \in pump'[j].to,
                      Seen(d, f)'
               PROVE  FALSE
    BY DEF Unserved
  <2>1. d \in pump[j].to /\ pump[j].frame = f /\ d \in Conn /\ (j = k => d # c)
    BY <1>0, <1>5
  <2>2. ~Seen(d, f) /\ Carries(j, f)
    BY <2>1 DEF Once, Unserved, Carries
  <2>3. d = c /\ f = x
    BY <1>3, <2>1, <2>2
  <2> QED BY <1>7, <1>9, <2>1, <2>2, <2>3
<1>12. Issued'
  <2>1. x # AuthOk => x <= published
    BY <1>2 DEF Once, Issued, Holds
  <2> QED BY <1>0, <1>3, <1>6, <1>7, <2>1 DEF Once, Issued
<1> QED BY <1>3, <1>8, <1>10, <1>11, <1>12 DEF Once

LEMMA EndOnce == ASSUME IInv, Once, NEW k \in Sub, End(k) PROVE Once'
<1>1. /\ UNCHANGED <<got, buffer, pump, published>>
      /\ \A j \in Sub : inbox'[j] = inbox[j] \/ inbox'[j] = <<>>
  BY DEF IInv, TypeOK, End, history
<1>2. /\ \A j \in Sub : \A f : In(inbox'[j], f) => In(inbox[j], f)
      /\ \A j \in Sub : \A f : (Carries(j, f)' <=> Carries(j, f)) /\ (Holds(j, f)' => Holds(j, f))
      /\ \A c \in Conn : \A f : Seen(c, f)' <=> Seen(c, f)
  BY <1>1, NothingIn DEF Holds, Carries, Seen
<1>3. SocketsOnce' /\ InboxesOnce'
  BY <1>1, NothingTwice DEF Once, SocketsOnce, InboxesOnce
<1>4. OneHome' /\ Unopened' /\ Issued'
  BY <1>1, <1>2 DEF Once, OneHome, Unopened, Issued
<1>5. Unserved'
  BY <1>1 DEF Once, Unserved, Seen
<1> QED BY <1>3, <1>4, <1>5 DEF Once

\* The writer moves a frame from the buffer to the client.
LEMMA WriteOnce == ASSUME IInv, Once, NEW c \in Conn, Write(c) PROVE Once'
<1>0. /\ buffer[c] \in Seq(Frame \cup {AuthOk}) /\ got[c] \in Seq(Frame \cup {AuthOk})
      /\ buffer \in [Conn -> Seq(Frame \cup {AuthOk})] /\ got \in [Conn -> Seq(Frame \cup {AuthOk})]
      /\ buffer[c] # <<>> /\ (\A f \in Frame : f # AuthOk) /\ UNCHANGED <<inbox, pump, published>>
  BY DEF IInv, TypeOK, Write, Frame, AuthOk
<1>1. PICK h \in Frame \cup {AuthOk} : h = Head(buffer[c])
  BY <1>0, InTail
<1>2. \A f : In(buffer[c], f) <=> (In(Tail(buffer[c]), f) \/ f = h)
  BY <1>0, <1>1, InTail
<1>3. NoneTwice(buffer[c]) /\ NoneTwice(got[c]) /\ \A f \in Frame : ~(In(got[c], f) /\ In(buffer[c], f))
  BY DEF Once, SocketsOnce
<1>4. NoneTwice(Tail(buffer[c])) /\ (h # AuthOk => ~In(Tail(buffer[c]), h))
  BY <1>0, <1>1, <1>3, OnceTail
<1>5. buffer'[c] = Tail(buffer[c]) /\ \A d \in Conn : d # c => buffer'[d] = buffer[d] /\ got'[d] = got[d]
  BY <1>0 DEF Write
<1>6. NoneTwice(got'[c]) /\ \A f : In(got'[c], f) => In(got[c], f) \/ f = h
  <2>1. CASE got' = got
    BY <1>3, <2>1
  <2>2. CASE got' = [got EXCEPT ![c] = Append(@, h)]
    <3>1. got'[c] = Append(got[c], h)
      BY <1>0, <2>2
    <3>2. h # AuthOk => ~In(got[c], h)
      BY <1>1, <1>2, <1>3
    <3>3. NoneTwice(Append(got[c], h))
      BY <1>0, <1>3, <3>2, OnceAppend
    <3>4. \A f : In(Append(got[c], h), f) <=> (In(got[c], f) \/ f = h)
      BY <1>0, InAppend
    <3> QED BY <3>1, <3>3, <3>4
  <2> QED BY <1>1, <2>1, <2>2 DEF Write
<1>7. SocketsOnce'
  <2>1. \A f \in Frame : ~(In(got'[c], f) /\ In(buffer'[c], f))
    BY <1>0, <1>2, <1>3, <1>4, <1>5, <1>6
  <2> QED BY <1>4, <1>5, <1>6, <2>1 DEF Once, SocketsOnce
<1>8. \A d \in Conn, f \in Frame : Seen(d, f)' => Seen(d, f)
  BY <1>2, <1>5, <1>6 DEF Seen
<1> QED BY <1>0, <1>7, <1>8, SeenLess DEF IInv, TypeOK

\* No frame reaches a socket twice (Register, Unregister, pump, fanout).
LEMMA OnceHolds == Spec => []Once
<1>1. IInv /\ Once /\ [Next]_vars => Once'
  <2> SUFFICES ASSUME IInv, Once, [Next]_vars PROVE Once'
    OBVIOUS
  <2>1. ASSUME NEW c \in Conn,
               \/ Accept(c) \/ Refuse(c) \/ Hangup(c) \/ Register(c) \/ Unregister(c) \/ Deregister(c)
               \/ WriteFails(c) \/ LinkDies(c)
        PROVE  Once'
    <3>1. UNCHANGED <<inbox, pump, buffer, got, published>>
      BY <2>1 DEF Accept, Refuse, Hangup, Register, Unregister, Deregister, WriteFails, LinkDies,
                  relay, history
    <3> QED BY <3>1, StillOnce
  <2>2. ASSUME NEW c \in Conn, Handle(c) PROVE Once'
    BY <2>1, <2>2, GreetOnce, CloseOnce DEF Handle
  <2>3. ASSUME NEW k \in Sub, Subscribed(k) \/ Take(k) \/ End(k) PROVE Once'
    <3>1. Subscribed(k) => UNCHANGED <<inbox, pump, buffer, got, published>>
      BY DEF Subscribed, relay, history
    <3> QED BY <2>3, <3>1, StillOnce, TakeOnce, EndOnce
  <2>4. CASE UNCHANGED vars
    BY <2>4, StillOnce DEF vars, relay, history
  <2> QED BY <2>1, <2>2, <2>3, <2>4, WriteOnce, PutOnce, PublishOnce DEF Next
<1> QED BY <1>1, InitOnce, Invariant, PTL DEF Spec

\* Each frame reaches a socket once, and frames in the order of Redis for as long
\* as no pump serves a group that followed its own (fanout, pump, Unregister).
THEOREM OrderedOnceHolds == Spec => []OrderedOnce
<1> DEFINE OInv == ~overtaken => Order
<1>1. Init => OInv
  BY InitOrder
<1>2. IInv /\ OInv /\ [Next]_vars => OInv'
  <2> SUFFICES ASSUME IInv, OInv, [Next]_vars, ~overtaken' PROVE Order'
    OBVIOUS
  <2>1. Order
    BY DEF Next, vars, history, Accept, Refuse, Hangup, Handle, Register, Greet, Unregister, Close,
       Deregister, Write, WriteFails, LinkDies, Subscribed, Take, End, Put, Publish, handler, relay
  <2>2. ASSUME NEW c \in Conn, Accept(c) \/ Refuse(c) \/ Hangup(c) PROVE Order'
    BY <2>1, <2>2, HandlerOrder
  <2>3. ASSUME NEW c \in Conn, Handle(c) PROVE Order'
    BY <2>1, <2>3, HandlerOrder, GreetOrder, CloseOrder DEF Handle
  <2>4. ASSUME NEW c \in Conn, Write(c) \/ WriteFails(c) \/ LinkDies(c) PROVE Order'
    BY <2>1, <2>4, WriteOrder, QuietOrder
  <2>5. ASSUME NEW k \in Sub, Subscribed(k) \/ Take(k) \/ End(k) PROVE Order'
    BY <2>1, <2>5, QuietOrder, TakeOrder, EndOrder
  <2>6. ASSUME NEW k \in Sub, NEW c \in Conn, Put(k, c) PROVE Order'
    BY <2>1, <2>6, PutOrder
  <2>7. CASE UNCHANGED vars
    BY <2>1, <2>7, QuietOrder
  <2> QED BY <2>1, <2>2, <2>3, <2>4, <2>5, <2>6, <2>7, PublishOrder DEF Next
<1>3. IInv /\ OInv /\ Once => OrderedOnce
  <2> SUFFICES ASSUME IInv, Once, ~overtaken => Order, NEW c \in Conn
               PROVE  /\ NoneTwice(got[c] \o buffer[c])
                      /\ ~overtaken => Rising(got[c] \o buffer[c])
    BY DEF OrderedOnce
  <2>1. /\ Frame \cup {AuthOk} \in SUBSET Nat /\ Frame = (Frame \cup {AuthOk}) \ {AuthOk}
        /\ got[c] \in Seq(Frame \cup {AuthOk}) /\ buffer[c] \in Seq(Frame \cup {AuthOk})
    BY DeliveryBounds DEF Frame, AuthOk, IInv, TypeOK
  <2>2. NoneTwice(got[c] \o buffer[c])
    <3>1. NoneTwice(got[c]) /\ NoneTwice(buffer[c])
      BY DEF Once, SocketsOnce
    <3>2. \A f \in (Frame \cup {AuthOk}) \ {AuthOk} : ~(In(got[c], f) /\ In(buffer[c], f))
      BY <2>1 DEF Once, SocketsOnce
    <3> QED BY <2>1, <3>1, <3>2, OnceConcat
  <2>3. ASSUME ~overtaken PROVE Rising(got[c] \o buffer[c])
    <3>1. Rising(got[c]) /\ Rising(buffer[c])
      BY <2>3 DEF Order, RisingSockets
    <3>2. \A f, g \in (Frame \cup {AuthOk}) \ {AuthOk} : In(got[c], f) /\ In(buffer[c], g) => f < g
      BY <2>1, <2>3 DEF Order, RisingSockets
    <3> QED BY <2>1, <3>1, <3>2, RisingConcat
  <2> QED BY <2>2, <2>3
<1> QED BY <1>1, <1>2, <1>3, OnceHolds, Invariant, PTL DEF Spec
=============================================================================
