------------------------- MODULE ChatService_proofs -------------------------
(***************************************************************************)
(* Proofs about ChatService, for any finite set of sends, any set of        *)
(* events, and any number of deliveries, retries and faults: first of its   *)
(* consumer of friend events alone (FriendProjection), then of the sends,   *)
(* then of the two side by side.                                            *)
(***************************************************************************)
EXTENDS ChatService, FiniteSetTheorems, TLAPS

-----------------------------------------------------------------------------
(* The consumer of friend events. *)

\* Only events that were published are queued, handled or folded in.
Known ==
    /\ ready \subseteq published
    /\ seen \subseteq published
    /\ \A w \in Worker : task[w] # Idle => task[w].ev \in published

\* Every published event is queued, held by a delivery whose ack counts and
\* that has not applied it yet, folded in, or nacked.
Accounted ==
    \A e \in published :
        \/ e \in ready \cup seen \cup lost
        \/ \E w \in Worker : task[w].pc = "apply" /\ task[w].live /\ task[w].ev = e

\* Without overlap and faults, the one handler in flight that is about to
\* touch the conversation carries the event the read-model holds.
Serial ==
    ~overlapped /\ faults = 0 =>
        /\ \A v, w \in Worker : task[v] # Idle /\ task[w] # Idle => v = w
        /\ \A w \in Worker : task[w].pc = "touch" => task[w].ev = readModel
        /\ (\A w \in Worker : task[w].pc # "touch") => Agree

\* What no other writer of the conversation can disturb.
Consumed ==
    /\ TypeOK
    /\ Register!IsLatest(readModel, seen)
    /\ Known
    /\ Accounted

ProjInv == Consumed /\ Serial

-----------------------------------------------------------------------------
\* An idle worker is not a task in any step.
LEMMA IdleIsNoTask == Idle \notin Task
  BY DEF Idle, Task

\* A missing row is older than every event, and says neither active nor removed.
LEMMA NoRowIsOldest ==
    ASSUME NEW e \in Event
    PROVE  e.id \in Nat /\ NoRow.id < e.id /\ e.state \in FriendState
<1>1. e.id \in EventId /\ e.state \in FriendState
  BY DEF Event
<1>2. e.id \in Nat /\ e.id # 0
  BY <1>1, EventIdAssumption
<1>3. NoRow.id = 0
  BY DEF NoRow
<1> QED
  BY <1>1, <1>2, <1>3

\* The conditional upsert keeps the row the newest event of those folded in,
\* whether the event is newer, stale or a duplicate.
LEMMA UpsertKeepsLatest ==
    ASSUME NEW S \in SUBSET Event, NEW row \in ReadModelRow, NEW e \in Event,
           Register!IsLatest(row, S)
    PROVE  Register!IsLatest(IF Newer(row, e) THEN e ELSE row, S \cup {e})
<1>1. \A f \in Event : f.id \in Nat /\ NoRow.id < f.id
  BY NoRowIsOldest
<1>2. CASE Newer(row, e)
  <2>1. \A f \in S : f.id <= e.id
    BY <1>1, <1>2 DEF Newer, Register!IsLatest, ReadModelRow
  <2> QED
    BY <1>1, <1>2, <2>1 DEF Register!IsLatest
<1>3. CASE ~Newer(row, e)
  <2>1. row \in S /\ e.id <= row.id
    BY <1>1, <1>3 DEF Newer, Register!IsLatest, ReadModelRow
  <2> QED
    BY <1>3, <2>1 DEF Register!IsLatest
<1> QED
  BY <1>2, <1>3

\* What the type invariant says of one worker.
LEMMA Shape ==
    ASSUME TypeOK, NEW w \in Worker
    PROVE  /\ Idle.pc = "idle" /\ ~Idle.live
           /\ task[w] = Idle \/ task[w] \in Task
           /\ task[w] = Idle <=> task[w].pc = "idle"
           /\ task[w] # Idle => /\ task[w].pc \in {"apply", "touch", "settle"}
                                /\ task[w].ev \in Event /\ task[w].live \in BOOLEAN
<1>1. task[w] = Idle \/ task[w] \in Task
  BY DEF TypeOK
<1>2. CASE task[w] = Idle
  BY <1>2 DEF Idle
<1>3. CASE task[w] \in Task
  BY <1>3 DEF Idle, Task
<1> QED
  BY <1>1, <1>2, <1>3

\* Moving a handler to its next step changes nothing else.
LEMMA Advance ==
    ASSUME TypeOK, NEW w \in Worker, task[w] # Idle,
           NEW p \in {"apply", "touch", "settle"},
           task' = [task EXCEPT ![w].pc = p]
    PROVE  /\ task' \in [Worker -> Task \cup {Idle}]
           /\ task'[w].pc = p /\ task'[w].ev = task[w].ev
           /\ task'[w].live = task[w].live /\ task'[w] # Idle
           /\ \A v \in Worker : v # w => task'[v] = task[v]
<1>1. task \in [Worker -> Task \cup {Idle}] /\ task[w] \in Task
  BY DEF TypeOK
<1>2. task'[w] = [task[w] EXCEPT !.pc = p]
  BY <1>1
<1>3. /\ task'[w] \in Task
      /\ task'[w].pc = p /\ task'[w].ev = task[w].ev /\ task'[w].live = task[w].live
  BY <1>1, <1>2 DEF Task
<1>4. \A v \in Worker : v # w => task'[v] = task[v]
  BY <1>1
<1>5. task' \in [Worker -> Task \cup {Idle}]
  BY <1>1, <1>3, <1>4
<1> QED
  BY <1>3, <1>4, <1>5, IdleIsNoTask

\* Ending a handler frees its worker and changes nothing else.
LEMMA Release ==
    ASSUME TypeOK, NEW w \in Worker, task' = [task EXCEPT ![w] = Idle]
    PROVE  /\ task' \in [Worker -> Task \cup {Idle}] /\ task'[w] = Idle
           /\ \A v \in Worker : v # w => task'[v] = task[v]
  BY DEF TypeOK

\* Steps that leave the row and the folded events alone keep the row newest.
LEMMA LatestUnchanged ==
    ASSUME Register!IsLatest(readModel, seen), UNCHANGED <<readModel, seen>>
    PROVE  Register!IsLatest(readModel, seen)'
  BY DEF Register!IsLatest

-----------------------------------------------------------------------------
LEMMA InitProjInv == Init => ProjInv
<1> SUFFICES ASSUME Init PROVE ProjInv
  OBVIOUS
<1>1. \A w \in Worker : task[w] = Idle /\ task[w].pc = "idle"
  BY DEF Init, ProjInit, Idle
<1>2. ready = {} /\ lost = {} /\ faults = 0 /\ published = seen
  BY DEF Init, ProjInit
<1>3. \/ readModel = NoRow /\ conv = "none" /\ seen = {}
      \/ \E e \in Event : /\ readModel = e /\ seen = {e} /\ conv \in {"open", "closed"}
                          /\ conv = "open" <=> e.state = "active"
  BY DEF Init, Fresh, Established
<1>4. TypeOK
  <2>1. readModel \in ReadModelRow /\ conv \in ConvState /\ seen \subseteq Event
    BY <1>3 DEF ReadModelRow, ConvState
  <2>2. task \in [Worker -> Task \cup {Idle}] /\ overlapped \in BOOLEAN
    BY DEF Init, ProjInit
  <2>3. faults \in 0..MaxFaults
    BY <1>2, MaxFaultsAssumption
  <2> QED
    BY <1>2, <2>1, <2>2, <2>3 DEF TypeOK
<1>5. Register!IsLatest(readModel, seen)
  <2>1. \A e \in Event : e.id <= e.id
    BY NoRowIsOldest
  <2> QED
    BY <1>3, <2>1 DEF Register!IsLatest
<1>6. Known /\ Accounted
  BY <1>1, <1>2 DEF Known, Accounted
<1>7. Serial
  BY <1>1, <1>3 DEF Serial, Agree, IsActive
<1> QED
  BY <1>4, <1>5, <1>6, <1>7 DEF ProjInv, Consumed

LEMMA PublishKeeps ==
    ASSUME Consumed, NEW e \in Event, Publish(e) PROVE Consumed' /\ (Serial => Serial')
<1> USE DEF Consumed
<1>1. TypeOK'
  BY DEF TypeOK, Publish, tables
<1>2. Register!IsLatest(readModel, seen)'
  BY LatestUnchanged DEF Publish, tables
<1>3. Known'
  BY DEF Known, Publish
<1>4. Accounted'
  BY DEF Accounted, Publish
<1>5. Serial => Serial'
  BY DEF Serial, Publish, tables, Agree, IsActive
<1> QED
  BY <1>1, <1>2, <1>3, <1>4, <1>5

LEMMA DeliverKeeps ==
    ASSUME Consumed, NEW w \in Worker, Deliver(w) PROVE Consumed' /\ (Serial => Serial')
<1> USE DEF Consumed
<1>1. PICK e \in ready :
         /\ ready' = ready \ {e}
         /\ task' = [task EXCEPT ![w] = [pc |-> "apply", ev |-> e, live |-> TRUE]]
  BY DEF Deliver
<1>2. e \in Event /\ e \in published
  BY DEF TypeOK, Known
<1>3. /\ task'[w] = [pc |-> "apply", ev |-> e, live |-> TRUE]
      /\ \A v \in Worker : v # w => task'[v] = task[v]
  BY <1>1 DEF TypeOK
<1>4. task'[w] \in Task /\ task'[w].pc = "apply" /\ task'[w].live /\ task'[w].ev = e
  BY <1>2, <1>3 DEF Task
<1>5. task[w].pc = "idle" /\ task[w] = Idle
  BY Shape DEF Deliver
<1>6. TypeOK'
  <2>1. task' \in [Worker -> Task \cup {Idle}]
    BY <1>1, <1>3, <1>4 DEF TypeOK
  <2>2. overlapped' \in BOOLEAN
    BY DEF Deliver
  <2> QED
    BY <1>1, <2>1, <2>2 DEF TypeOK, Deliver, tables
<1>7. Register!IsLatest(readModel, seen)'
  BY LatestUnchanged DEF Deliver, tables
<1>8. Known'
  BY <1>1, <1>2, <1>3, <1>4 DEF Known, Deliver
<1>9. Accounted'
  <2> SUFFICES ASSUME NEW f \in published
               PROVE  \/ f \in ready' \cup seen \cup lost
                      \/ \E v \in Worker :
                            task'[v].pc = "apply" /\ task'[v].live /\ task'[v].ev = f
    BY DEF Accounted, Deliver
  <2>1. CASE f = e
    BY <1>4, <2>1
  <2>2. CASE f # e
    BY <1>1, <1>3, <1>5, <2>2 DEF Accounted
  <2> QED
    BY <2>1, <2>2
<1>10. Serial => Serial'
  <2> SUFFICES ASSUME Serial, ~overlapped', faults' = 0
               PROVE  /\ \A u, v \in Worker : task'[u] # Idle /\ task'[v] # Idle => u = v
                      /\ \A v \in Worker : task'[v].pc = "touch" => task'[v].ev = readModel'
                      /\ (\A v \in Worker : task'[v].pc # "touch") => Agree'
    BY DEF Serial
  <2>1. \A v \in Worker : task[v] = Idle
    BY DEF Deliver
  <2>2. \A v \in Worker : task[v].pc = "idle"
    BY <2>1, Shape
  <2>3. Agree
    BY <2>2 DEF Serial, Deliver
  <2>4. Agree'
    BY <2>3 DEF Agree, IsActive, Deliver, tables
  <2> QED
    BY <1>3, <1>4, <2>1, <2>2, <2>4
<1> QED
  BY <1>6, <1>7, <1>8, <1>9, <1>10

LEMMA ApplyKeeps ==
    ASSUME Consumed, NEW w \in Worker, Apply(w) PROVE Consumed' /\ (Serial => Serial')
<1> USE DEF Consumed
<1> DEFINE e == task[w].ev
           p == IF Newer(readModel, e) THEN "touch" ELSE "settle"
<1>1. /\ task[w].pc = "apply" /\ task[w] # Idle /\ e \in Event /\ e \in published
  BY Shape DEF Apply, Known
<1>2. /\ readModel' = IF Newer(readModel, e) THEN e ELSE readModel
      /\ task' = [task EXCEPT ![w].pc = p]
      /\ seen' = seen \cup {e}
      /\ UNCHANGED <<conv, published, ready, lost, faults, overlapped>>
  BY DEF Apply
<1>3. /\ task' \in [Worker -> Task \cup {Idle}]
      /\ task'[w].pc = p /\ task'[w].ev = e /\ task'[w].live = task[w].live
      /\ task'[w] # Idle
      /\ \A v \in Worker : v # w => task'[v] = task[v]
  BY <1>1, <1>2, Advance
<1> HIDE DEF e, p
<1>4. TypeOK'
  BY <1>1, <1>2, <1>3 DEF TypeOK, ReadModelRow
<1>5. Register!IsLatest(readModel, seen)'
  <2>1. Register!IsLatest(IF Newer(readModel, e) THEN e ELSE readModel, seen \cup {e})
    BY <1>1, UpsertKeepsLatest DEF TypeOK
  <2> QED
    BY <1>2, <2>1 DEF Register!IsLatest
<1>6. Known'
  BY <1>1, <1>2, <1>3 DEF Known
<1>7. Accounted'
  <2> SUFFICES ASSUME NEW f \in published
               PROVE  \/ f \in ready \cup seen' \cup lost
                      \/ \E v \in Worker :
                            task'[v].pc = "apply" /\ task'[v].live /\ task'[v].ev = f
    BY <1>2 DEF Accounted
  <2>1. CASE f = e
    BY <1>2, <2>1
  <2>2. CASE f # e
    BY <1>2, <1>3, <2>2 DEF Accounted, e
  <2> QED
    BY <2>1, <2>2
<1>8. Serial => Serial'
  <2> SUFFICES ASSUME Serial, ~overlapped', faults' = 0
               PROVE  /\ \A u, v \in Worker : task'[u] # Idle /\ task'[v] # Idle => u = v
                      /\ \A v \in Worker : task'[v].pc = "touch" => task'[v].ev = readModel'
                      /\ (\A v \in Worker : task'[v].pc # "touch") => Agree'
    BY DEF Serial
  <2>1. \A v \in Worker : v # w => task[v] = Idle /\ task'[v] = Idle
    BY <1>1, <1>2, <1>3 DEF Serial
  <2>2. \A v \in Worker : v # w => task[v].pc = "idle" /\ task'[v].pc = "idle"
    BY <2>1, Shape
  <2>3. Agree
    BY <1>1, <1>2, <2>2 DEF Serial
  <2>4. CASE Newer(readModel, e)
    BY <1>2, <1>3, <2>1, <2>2, <2>4 DEF p
  <2>5. CASE ~Newer(readModel, e)
    <3>1. Agree'
      BY <1>2, <2>3, <2>5 DEF Agree, IsActive
    <3> QED
      BY <1>2, <1>3, <2>1, <2>2, <2>5, <3>1 DEF p
  <2> QED
    BY <2>4, <2>5
<1> QED
  BY <1>4, <1>5, <1>6, <1>7, <1>8

LEMMA TouchKeeps ==
    ASSUME Consumed, NEW w \in Worker, TouchConversation(w) PROVE Consumed' /\ (Serial => Serial')
<1> USE DEF Consumed
<1>1. /\ task[w].pc = "touch" /\ task[w] # Idle /\ task[w].ev \in Event
      /\ task[w].ev \in published
  BY Shape DEF TouchConversation, Known
<1>2. /\ conv' = Touched(conv, task[w].ev)
      /\ task' = [task EXCEPT ![w].pc = "settle"]
      /\ UNCHANGED <<readModel, published, ready, seen, lost, faults, overlapped>>
  BY DEF TouchConversation
<1>3. /\ task' \in [Worker -> Task \cup {Idle}]
      /\ task'[w].pc = "settle" /\ task'[w].ev = task[w].ev /\ task'[w] # Idle
      /\ \A v \in Worker : v # w => task'[v] = task[v]
  BY <1>1, <1>2, Advance
<1>4. TypeOK'
  <2>1. conv' \in ConvState
    BY <1>2 DEF Touched, ConvState
  <2> QED
    BY <1>2, <1>3, <2>1 DEF TypeOK
<1>5. Register!IsLatest(readModel, seen)'
  BY <1>2, LatestUnchanged
<1>6. Known'
  BY <1>1, <1>2, <1>3 DEF Known
<1>7. Accounted'
  BY <1>1, <1>2, <1>3 DEF Accounted
<1>8. Serial => Serial'
  <2> SUFFICES ASSUME Serial, ~overlapped', faults' = 0
               PROVE  /\ \A u, v \in Worker : task'[u] # Idle /\ task'[v] # Idle => u = v
                      /\ \A v \in Worker : task'[v].pc = "touch" => task'[v].ev = readModel'
                      /\ (\A v \in Worker : task'[v].pc # "touch") => Agree'
    BY DEF Serial
  <2>1. \A v \in Worker : v # w => task'[v] = Idle /\ task'[v].pc = "idle"
    BY <1>1, <1>2, <1>3, Shape DEF Serial
  <2>2. task[w].ev = readModel
    BY <1>1, <1>2 DEF Serial
  <2>3. readModel.state \in FriendState
    BY <1>1, <2>2, NoRowIsOldest
  <2>4. Agree'
    BY <1>2, <2>2, <2>3 DEF Agree, IsActive, Touched, FriendState
  <2> QED
    BY <1>3, <2>1, <2>4
<1> QED
  BY <1>4, <1>5, <1>6, <1>7, <1>8

LEMMA AckKeeps ==
    ASSUME Consumed, NEW w \in Worker, Ack(w) PROVE Consumed' /\ (Serial => Serial')
<1> USE DEF Consumed
<1>1. /\ task[w].pc = "settle" /\ task[w] # Idle
      /\ task' = [task EXCEPT ![w] = Idle]
      /\ UNCHANGED <<tables, published, ready, seen, lost, faults, overlapped>>
  BY Shape DEF Ack
<1>2. /\ task' \in [Worker -> Task \cup {Idle}] /\ task'[w] = Idle
      /\ \A v \in Worker : v # w => task'[v] = task[v]
  BY <1>1, Release
<1>3. TypeOK'
  BY <1>1, <1>2 DEF TypeOK, tables
<1>4. Register!IsLatest(readModel, seen)'
  BY <1>1, LatestUnchanged DEF tables
<1>5. Known'
  BY <1>1, <1>2 DEF Known
<1>6. Accounted'
  BY <1>1, <1>2 DEF Accounted
<1>7. Serial => Serial'
  <2> SUFFICES ASSUME Serial, ~overlapped', faults' = 0
               PROVE  /\ \A u, v \in Worker : task'[u] # Idle /\ task'[v] # Idle => u = v
                      /\ \A v \in Worker : task'[v].pc = "touch" => task'[v].ev = readModel'
                      /\ (\A v \in Worker : task'[v].pc # "touch") => Agree'
    BY DEF Serial
  <2>1. \A v \in Worker : v # w => task[v] = Idle /\ task[v].pc = "idle"
    BY <1>1, Shape DEF Serial
  <2>2. \A v \in Worker : task'[v] = Idle /\ task'[v].pc = "idle"
    BY <1>1, <1>2, <2>1, Shape
  <2>3. Agree
    BY <1>1, <2>1 DEF Serial
  <2> QED
    BY <1>1, <2>2, <2>3 DEF Agree, IsActive, tables
<1> QED
  BY <1>3, <1>4, <1>5, <1>6, <1>7

\* A fault ends the fault-free premise of Serial.
LEMMA FaultEndsSerial ==
    ASSUME TypeOK, Fault PROVE Serial' /\ faults' \in 0..MaxFaults
<1>1. faults \in Nat /\ faults' = faults + 1 /\ faults' <= MaxFaults
  BY MaxFaultsAssumption DEF TypeOK, Fault
<1>2. faults' # 0
  BY <1>1
<1> QED
  BY <1>1, <1>2, MaxFaultsAssumption DEF Serial

LEMMA NackKeeps ==
    ASSUME Consumed, NEW w \in Worker, Nack(w) PROVE Consumed' /\ (Serial => Serial')
<1> USE DEF Consumed
<1>1. /\ task[w] # Idle /\ task[w].ev \in Event
      /\ task' = [task EXCEPT ![w] = Idle]
      /\ lost' = IF task[w].live THEN lost \cup {task[w].ev} ELSE lost
      /\ UNCHANGED <<tables, published, ready, seen, overlapped>>
  BY Shape DEF Nack
<1>2. /\ task' \in [Worker -> Task \cup {Idle}] /\ task'[w] = Idle
      /\ \A v \in Worker : v # w => task'[v] = task[v]
  BY <1>1, Release
<1>3. Serial' /\ faults' \in 0..MaxFaults
  BY FaultEndsSerial DEF Nack
<1>4. TypeOK'
  BY <1>1, <1>2, <1>3 DEF TypeOK, tables
<1>5. Register!IsLatest(readModel, seen)'
  BY <1>1, LatestUnchanged DEF tables
<1>6. Known'
  BY <1>1, <1>2 DEF Known
<1>7. Accounted'
  BY <1>1, <1>2 DEF Accounted
<1> QED
  BY <1>3, <1>4, <1>5, <1>6, <1>7

LEMMA CrashKeeps ==
    ASSUME Consumed, NEW w \in Worker, Crash(w) PROVE Consumed' /\ (Serial => Serial')
<1> USE DEF Consumed
<1>1. /\ task[w] # Idle /\ task[w].ev \in Event /\ task[w].ev \in published
      /\ task' = [task EXCEPT ![w] = Idle]
      /\ ready' = IF task[w].live THEN ready \cup {task[w].ev} ELSE ready
      /\ UNCHANGED <<tables, published, seen, lost, overlapped>>
  BY Shape DEF Crash, Requeue, Known
<1>2. /\ task' \in [Worker -> Task \cup {Idle}] /\ task'[w] = Idle
      /\ \A v \in Worker : v # w => task'[v] = task[v]
  BY <1>1, Release
<1>3. Serial' /\ faults' \in 0..MaxFaults
  BY FaultEndsSerial DEF Crash
<1>4. TypeOK'
  BY <1>1, <1>2, <1>3 DEF TypeOK, tables
<1>5. Register!IsLatest(readModel, seen)'
  BY <1>1, LatestUnchanged DEF tables
<1>6. Known'
  BY <1>1, <1>2 DEF Known
<1>7. Accounted'
  BY <1>1, <1>2 DEF Accounted
<1> QED
  BY <1>3, <1>4, <1>5, <1>6, <1>7

LEMMA LoseConnectionKeeps ==
    ASSUME Consumed, NEW w \in Worker, LoseConnection(w) PROVE Consumed' /\ (Serial => Serial')
<1> USE DEF Consumed
<1>1. /\ task[w].live /\ task[w] # Idle /\ task[w] \in Task
      /\ task[w].ev \in Event /\ task[w].ev \in published
  BY Shape DEF LoseConnection, Known
<1>2. /\ task' = [task EXCEPT ![w].live = FALSE]
      /\ ready' = ready \cup {task[w].ev}
      /\ UNCHANGED <<tables, published, seen, lost, overlapped>>
  BY <1>1 DEF LoseConnection, Requeue
<1>3. /\ task'[w] \in Task /\ task'[w].ev = task[w].ev /\ task'[w] # Idle
      /\ \A v \in Worker : v # w => task'[v] = task[v]
  <2>1. task'[w] = [task[w] EXCEPT !.live = FALSE]
    BY <1>2 DEF TypeOK
  <2>2. task'[w] \in Task /\ task'[w].ev = task[w].ev
    BY <1>1, <2>1 DEF Task
  <2> QED
    BY <1>2, <2>2, IdleIsNoTask DEF TypeOK
<1>4. Serial' /\ faults' \in 0..MaxFaults
  BY FaultEndsSerial DEF LoseConnection
<1>5. TypeOK'
  <2>1. task' \in [Worker -> Task \cup {Idle}]
    BY <1>2, <1>3 DEF TypeOK
  <2> QED
    BY <1>1, <1>2, <1>4, <2>1 DEF TypeOK, tables
<1>6. Register!IsLatest(readModel, seen)'
  BY <1>2, LatestUnchanged DEF tables
<1>7. Known'
  BY <1>1, <1>2, <1>3 DEF Known
<1>8. Accounted'
  BY <1>1, <1>2, <1>3 DEF Accounted
<1> QED
  BY <1>4, <1>5, <1>6, <1>7, <1>8

\* A step of the consumer keeps what it keeps for itself, and Serial with it.
LEMMA ConsumedStep == Consumed /\ [Next]_vars => Consumed' /\ (Serial => Serial')
<1> SUFFICES ASSUME Consumed, [Next]_vars PROVE Consumed' /\ (Serial => Serial')
  OBVIOUS
<1>1. ASSUME NEW e \in Event, Publish(e) PROVE Consumed' /\ (Serial => Serial')
  BY <1>1, PublishKeeps
<1>2. ASSUME NEW w \in Worker, ProjStep(w) PROVE Consumed' /\ (Serial => Serial')
  BY <1>2, DeliverKeeps, ApplyKeeps, TouchKeeps, AckKeeps, NackKeeps, CrashKeeps,
     LoseConnectionKeeps DEF ProjStep, Handle
<1>3. ASSUME UNCHANGED vars PROVE Consumed' /\ (Serial => Serial')
  BY <1>3 DEF vars, tables, projVars, Consumed, TypeOK, Register!IsLatest, Known,
     Accounted, Serial, Agree, IsActive
<1> QED
  BY <1>1, <1>2, <1>3 DEF Next

\* Once everything is handled and nothing was nacked, what was folded in is all
\* that was published.
LEMMA ConsumedConverges == Consumed => ConvergesToNewest
<1> SUFFICES ASSUME Consumed, Settled, lost = {}
             PROVE  Register!IsLatest(readModel, published)
  BY DEF ConvergesToNewest
<1>1. \A w \in Worker : task[w].pc = "idle"
  BY Shape DEF Settled, Consumed
<1>2. published \subseteq seen
  BY <1>1 DEF Settled, Consumed, Accounted
<1>3. published = seen
  BY <1>2 DEF Consumed, Known
<1> QED
  BY <1>3 DEF Consumed

\* Every step of the consumer folds one event into the row or leaves it alone.
LEMMA FoldsOrStutters ==
    ASSUME Consumed, [Next]_vars PROVE [Register!Next]_<<seen, readModel>>
<1>1. ASSUME NEW w \in Worker, Apply(w) PROVE Register!Next
  <2>1. task[w].ev \in Event
    BY <1>1, Shape DEF Apply, Consumed
  <2>2. seen' = seen \cup {task[w].ev}
    BY <1>1 DEF Apply
  <2>3. Register!IsLatest(readModel', seen')
    BY ConsumedStep DEF Consumed, Register!IsLatest
  <2> QED
    BY <2>1, <2>2, <2>3 DEF Register!Next, Register!Fold
<1>2. ASSUME NEW e \in Event, Publish(e) PROVE UNCHANGED <<seen, readModel>>
  BY <1>2 DEF Publish, tables
<1>3. ASSUME NEW w \in Worker, ProjStep(w), ~Apply(w)
      PROVE  UNCHANGED <<seen, readModel>>
  BY <1>3 DEF ProjStep, Handle, Deliver, TouchConversation, Ack, Nack, Crash,
     LoseConnection, tables
<1>4. CASE UNCHANGED vars
  BY <1>4 DEF vars, tables, projVars
<1> QED
  BY <1>1, <1>2, <1>3, <1>4 DEF Next

\* The invariant the theorems about the consumer alone rest on.
THEOREM ProjInvariant == Spec => []ProjInv
<1>1. ProjInv /\ [Next]_vars => ProjInv'
  BY ConsumedStep DEF ProjInv
<1> QED
  BY <1>1, InitProjInv, PTL DEF Spec

(* Every variable of the consumer stays in its type (TypeOK).                *)
THEOREM ProjTypeCorrect == Spec => []TypeOK
<1>1. ProjInv => TypeOK
  BY DEF ProjInv, Consumed
<1> QED
  BY <1>1, ProjInvariant, PTL

(* AC-G1, end to end: with every event handled and none nacked, the row of   *)
(* the read-model is the newest event published, whatever was crashed,       *)
(* redelivered, duplicated or reordered on the way (ConvergesToNewest).      *)
THEOREM Convergence == Spec => []ConvergesToNewest
<1>1. ProjInv => ConvergesToNewest
  BY ConsumedConverges DEF ProjInv
<1> QED
  BY <1>1, ProjInvariant, PTL

(* AC-G2, AC-G3 without overlap and faults: once the handlers are done, the  *)
(* conversation is open exactly if the friendship is active                  *)
(* (SerialAgreement).                                                        *)
THEOREM SerialAgreementHolds == Spec => []SerialAgreement
<1>1. ASSUME ProjInv PROVE SerialAgreement
  <2> SUFFICES ASSUME Settled, ~overlapped, faults = 0 PROVE Agree
    BY DEF SerialAgreement
  <2>1. \A w \in Worker : task[w].pc = "idle"
    BY <1>1, Shape DEF Settled, ProjInv, Consumed
  <2> QED
    BY <1>1, <2>1 DEF ProjInv, Serial
<1> QED
  BY <1>1, ProjInvariant, PTL

(* AC-G1: the consumer implements the newest-event register: every step folds *)
(* one event into the row, or leaves it alone (ImplementsLatestEvent).        *)
THEOREM Implements == Spec => ImplementsLatestEvent
<1>1. Init => Register!Init
  <2> SUFFICES ASSUME Init PROVE Register!Init
    OBVIOUS
  <2> QED
    BY InitProjInv DEF ProjInv, Consumed, TypeOK, Register!Init
<1>2. ProjInv /\ [Next]_vars => [Register!Next]_<<seen, readModel>>
  BY FoldsOrStutters DEF ProjInv
<1> QED
  BY <1>1, <1>2, ProjInvariant, PTL DEF Spec, ImplementsLatestEvent, Register!Spec

-----------------------------------------------------------------------------
(* The sends, and both together. *)

\* An execution about to publish has the id of its message's row.
Stored == \A w \in SendWorker :
    job[w].pc = "publish" => job[w].id \in MessageId /\ rows[job[w].key] = job[w].id

\* A barred execution has not passed the gate, which is still closed.
Barred == \A w \in barred : conv = "closed" /\ job[w].pc \in {"find", "reject", "settle"}

\* An envelope is answered, or an answer to it is still to come.
Answered(k) == Rejection(k) \in frames \/ \E i \in MessageId : Outbound(k, i) \subseteq frames
Holds(w, k) == job[w].key = k /\ job[w].live /\ job[w].pc # "settle"
Pending(k) == inbound[k] > 0 \/ \E w \in SendWorker : Holds(w, k)
Answers == \A k \in Key :
    enqueued[k] > 0 /\ k \notin discarded \cup muted => Answered(k) \/ Pending(k)

\* Some accepted friendship was told before a conversation may be made.
Befriended == \E e \in seen : e.state = "active"
Friendly == \A w \in SendWorker : job[w].pc = "create" => Befriended

\* Every copy of an envelope is on the queue or with one delivery: none is invented.
Carriers(k) == {w \in SendWorker : job[w].key = k /\ job[w].live}
Counted == \A k \in Key :
    IsFiniteSet(Carriers(k)) /\ inbound[k] + Cardinality(Carriers(k)) <= enqueued[k]

IInv ==
    /\ ChatTypeOK /\ Consumed /\ Counted
    /\ Stored /\ FramesMatchRows /\ Barred /\ Answers /\ Friendly

-----------------------------------------------------------------------------
\* An idle worker is no job in any step.
LEMMA IdleIsNoJob == IdleJob \notin Job /\ IdleJob.pc = "idle" /\ IdleJob.key = NoKey /\ ~IdleJob.live
  BY DEF IdleJob, Job, JobStep

\* What the type invariant says of one execution.
LEMMA JobShape ==
    ASSUME SendTypeOK, NEW w \in SendWorker
    PROVE  /\ job[w] = IdleJob <=> job[w].pc = "idle"
           /\ job[w] # IdleJob => job[w] \in Job
           /\ job[w].pc # "idle" => /\ job[w].pc \in JobStep /\ job[w].key \in Key
                                    /\ job[w].id \in MessageId \cup {0} /\ job[w].live \in BOOLEAN
           /\ job[w].live => job[w].pc # "idle"
<1>1. CASE job[w] = IdleJob
  BY <1>1, IdleIsNoJob
<1>2. CASE job[w] \in Job
  BY <1>2, IdleIsNoJob DEF Job, JobStep
<1> QED BY <1>1, <1>2 DEF SendTypeOK

\* A step of one execution leaves the others as they were.
LEMMA OneJob ==
    ASSUME SendTypeOK, NEW w \in SendWorker, NEW r \in Job \cup {IdleJob},
           job' = [job EXCEPT ![w] = r]
    PROVE  /\ job' \in [SendWorker -> Job \cup {IdleJob}] /\ job'[w] = r
           /\ \A v \in SendWorker : v # w => job'[v] = job[v]
  BY DEF SendTypeOK

\* The same, of a step that only moves it on.
LEMMA GoesTo ==
    ASSUME SendTypeOK, NEW w \in SendWorker, job[w].pc # "idle", NEW step \in JobStep, Goto(w, step)
    PROVE  /\ job' \in [SendWorker -> Job \cup {IdleJob}] /\ job'[w].pc = step
           /\ job'[w].key = job[w].key /\ job'[w].id = job[w].id /\ job'[w].live = job[w].live
           /\ \A v \in SendWorker : v # w => job'[v] = job[v]
<1>1. job[w] \in Job
  BY JobShape
<1>2. PICK r \in Job : r = [job[w] EXCEPT !.pc = step]
  BY <1>1 DEF Job
<1>3. job' = [job EXCEPT ![w] = r]
  BY <1>2 DEF Goto
<1>4. r.pc = step /\ r.key = job[w].key /\ r.id = job[w].id /\ r.live = job[w].live
  BY <1>1, <1>2 DEF Job
<1> QED BY <1>3, <1>4, OneJob

\* The next id is free while some message is not stored.
LEMMA IdsSuffice ==
    ASSUME SendTypeOK, NEW k \in Key
    PROVE  CanonicalId(k) \in MessageId
<1>1. CASE rows[k] # 0
  BY <1>1 DEF CanonicalId, SendTypeOK
<1>2. CASE rows[k] = 0
  <2> DEFINE S == {q \in Key : rows[q] # 0}
  <2>1. S \in SUBSET Key /\ S # Key
    BY <1>2
  <2>2. IsFiniteSet(S) /\ Cardinality(S) <= Cardinality(Key)
        /\ (Cardinality(S) = Cardinality(Key) => S = Key)
    BY <2>1, KeyAssumption, FS_Subset
  <2>3. Cardinality(S) \in Nat /\ Cardinality(Key) \in Nat
    BY <2>2, KeyAssumption, FS_CardinalityType
  <2>4. 1 + Cardinality(S) \in 1..Cardinality(Key)
    BY <2>1, <2>2, <2>3
  <2> QED BY <1>2, <2>4 DEF CanonicalId, FreshId, MessageId
<1> QED BY <1>1, <1>2

LEMMA NoZeroId == 0 \notin MessageId
  BY DEF MessageId

\* A step of one execution keeps the answers coming, if what it held is answered,
\* requeued, dropped, or still held.
LEMMA AnswersKept ==
    ASSUME SendTypeOK, Answers, NEW w \in SendWorker,
           enqueued' = enqueued, frames \subseteq frames', discarded \subseteq discarded', muted \subseteq muted',
           \A v \in SendWorker : v # w => job'[v] = job[v],
           \A k \in Key : inbound[k] > 0 => inbound'[k] > 0 \/ Holds(w, k)',
           \A k \in Key : Holds(w, k) =>
               Holds(w, k)' \/ inbound'[k] > 0 \/ Answered(k)' \/ k \in discarded' \cup muted'
    PROVE  Answers'
<1> SUFFICES ASSUME NEW k \in Key, enqueued[k] > 0, k \notin discarded' \cup muted'
             PROVE  Answered(k)' \/ Pending(k)'
  BY DEF Answers
<1>1. Answered(k) \/ Pending(k)
  BY DEF Answers
<1>2. CASE Answered(k)
  BY <1>2 DEF Answered
<1>3. CASE inbound[k] > 0
  BY <1>3 DEF Pending
<1>4. ASSUME NEW v \in SendWorker, Holds(v, k) PROVE Answered(k)' \/ Pending(k)'
  <2>1. CASE v = w
    BY <1>4, <2>1 DEF Pending
  <2>2. CASE v # w
    BY <1>4, <2>2 DEF Pending, Holds
  <2> QED BY <2>1, <2>2
<1> QED BY <1>1, <1>2, <1>3, <1>4 DEF Pending

\* A step that leaves the queue alone, and who holds which envelope.
LEMMA CountedKept ==
    ASSUME Counted, UNCHANGED <<inbound, enqueued>>,
           \A v \in SendWorker : job'[v].key = job[v].key /\ job'[v].live = job[v].live
    PROVE  Counted'
<1>1. \A k \in Key : Carriers(k)' = Carriers(k)
  BY DEF Carriers
<1> QED BY <1>1 DEF Counted

\* An execution that lets go of its envelope may put it back.
LEMMA CountedRelease ==
    ASSUME SendTypeOK, Counted, NEW w \in SendWorker, enqueued' = enqueued, ~job'[w].live,
           \A v \in SendWorker : v # w => job'[v] = job[v],
           inbound' = inbound \/ inbound' = Requeued(w)
    PROVE  /\ Counted' /\ inbound' \in [Key -> Nat]
           /\ \A k \in Key : inbound'[k] <= enqueued'[k] /\ inbound[k] <= inbound'[k]
           /\ inbound' = Requeued(w) => \A k \in Key : Holds(w, k) => inbound'[k] > 0
<1>1. /\ inbound' \in [Key -> Nat]
      /\ \A k \in Key : /\ inbound[k] <= inbound'[k]
                        /\ inbound'[k] <= inbound[k] + (IF w \in Carriers(k) THEN 1 ELSE 0)
  BY DEF Requeued, SendTypeOK, Carriers
<1>2. ASSUME NEW k \in Key
      PROVE  /\ IsFiniteSet(Carriers(k)') /\ inbound'[k] + Cardinality(Carriers(k)') <= enqueued[k]
             /\ inbound'[k] <= enqueued[k]
  <2>1. Carriers(k)' = Carriers(k) \ {w}
    BY DEF Carriers
  <2>2. IsFiniteSet(Carriers(k)) /\ inbound[k] + Cardinality(Carriers(k)) <= enqueued[k]
    BY DEF Counted
  <2>3. /\ IsFiniteSet(Carriers(k) \ {w})
        /\ Cardinality(Carriers(k) \ {w}) =
              IF w \in Carriers(k) THEN Cardinality(Carriers(k)) - 1 ELSE Cardinality(Carriers(k))
    BY <2>2, FS_RemoveElement
  <2>4. Cardinality(Carriers(k)) \in Nat /\ Cardinality(Carriers(k) \ {w}) \in Nat
    BY <2>2, <2>3, FS_CardinalityType
  <2>5. inbound[k] \in Nat /\ inbound'[k] \in Nat /\ enqueued[k] \in Nat
    BY <1>1 DEF SendTypeOK
  <2> QED BY <1>1, <2>1, <2>2, <2>3, <2>4, <2>5
<1>3. Counted'
  BY <1>2 DEF Counted
<1>4. inbound' = Requeued(w) => \A k \in Key : Holds(w, k) => inbound'[k] > 0
  BY DEF Holds, Requeued, SendTypeOK
<1> QED BY <1>1, <1>2, <1>3, <1>4

\* A closed conversation stays a bar to whoever was received since it closed, if
\* a barred execution does not pass the gate.
LEMMA BarKept ==
    ASSUME IInv, Bar, NEW w \in SendWorker,
           \A v \in SendWorker : v # w => job'[v] = job[v],
           w \in barred => job'[w].pc \in {"find", "reject", "settle"},
           job[w] = IdleJob => job'[w].pc \in {"find", "idle"}, SendTypeOK'
    PROVE  Barred' /\ barred' \subseteq SendWorker
<1>1. barred' \subseteq SendWorker
  BY DEF Bar
<1>2. ASSUME NEW v \in barred' PROVE conv' = "closed" /\ job'[v].pc \in {"find", "reject", "settle"}
  <2>1. /\ v \in SendWorker /\ conv' = "closed" /\ job'[v] # IdleJob
        /\ v \in barred \/ (conv = "closed" /\ job[v] = IdleJob)
    BY <1>2 DEF Bar
  <2>2. job'[v].pc # "idle"
    <3>1. job'[v] \in Job
      BY <2>1 DEF SendTypeOK
    <3> QED BY <3>1 DEF Job, JobStep
  <2>3. CASE v = w
    BY <2>1, <2>2, <2>3
  <2>4. CASE v # w
    BY <2>1, <2>4 DEF IInv, Barred
  <2> QED BY <2>1, <2>3, <2>4
<1> QED BY <1>1, <1>2 DEF Barred

-----------------------------------------------------------------------------
(* The steps of a send. *)

\* What a send leaves of the projection.
LEMMA ProjectionKept ==
    ASSUME IInv, UNCHANGED <<readModel, projVars>>, conv' \in ConvState
    PROVE  /\ TypeOK' /\ Consumed'
           /\ seen' = seen /\ readModel' = readModel /\ Befriended' = Befriended
  BY DEF IInv, Consumed, Known, Accounted, Register!IsLatest, ChatTypeOK, TypeOK, projVars, Befriended

\* A step of an execution that only moves on, between awaits that change nothing.
LEMMA QuietMove ==
    ASSUME IInv, Bar, NEW w \in SendWorker, NEW step \in JobStep, Goto(w, step), job[w].pc # "idle",
           job[w].pc # "settle", step \notin {"publish", "settle"},
           step = "create" => Befriended,
           w \in barred => step \in {"find", "reject"},
           UNCHANGED <<readModel, conv, projVars, badBody, enqueued, inbound, rows, frames, discarded, muted, sendFaults>>
    PROVE  IInv'
<1>0. SendTypeOK /\ TypeOK /\ job[w] # IdleJob /\ Answers
  BY JobShape DEF IInv, ChatTypeOK
<1>1. /\ job' \in [SendWorker -> Job \cup {IdleJob}] /\ job'[w].pc = step
      /\ job'[w].key = job[w].key /\ job'[w].id = job[w].id /\ job'[w].live = job[w].live
      /\ \A v \in SendWorker : v # w => job'[v] = job[v]
  BY <1>0, GoesTo
<1>2. SendTypeOK'
  BY <1>0, <1>1 DEF SendTypeOK
<1>3. TypeOK' /\ Consumed' /\ Friendly'
  BY <1>1, ProjectionKept DEF IInv, ChatTypeOK, TypeOK, Friendly
<1>4. Stored' /\ FramesMatchRows'
  BY <1>1 DEF IInv, Stored, FramesMatchRows
<1>5. Barred' /\ barred' \subseteq SendWorker
  BY <1>0, <1>1, <1>2, BarKept
<1>20. Counted'
  <2>1. \A v \in SendWorker : job'[v].key = job[v].key /\ job'[v].live = job[v].live
    BY <1>1
  <2> QED BY <2>1, CountedKept DEF IInv
<1>6. Answers'
  <2>1. \A k \in Key : Holds(w, k) => Holds(w, k)'
    BY <1>1 DEF Holds
  <2> QED BY <1>0, <1>1, <2>1, AnswersKept
<1> QED BY <1>2, <1>3, <1>4, <1>5, <1>6, <1>20 DEF IInv, ChatTypeOK

LEMMA FindIInv ==
    ASSUME IInv, Bar, NEW w \in SendWorker, FindConversation(w), UNCHANGED <<badBody, projVars>>
    PROVE  IInv'
<1>1. PICK step \in JobStep :
         /\ step = IF job[w].key \in badBody THEN "reject" ELSE Gate(conv)
         /\ step \in {"reject", "check", "insert"} /\ (conv = "closed" => step = "reject")
  BY DEF IInv, ChatTypeOK, TypeOK, ConvState, Gate, JobStep
<1>2. Goto(w, step) /\ job[w].pc = "find"
  BY <1>1 DEF FindConversation
<1>3. w \in barred => step = "reject"
  BY <1>1 DEF IInv, Barred
<1> QED BY <1>1, <1>2, <1>3, QuietMove DEF FindConversation

LEMMA CheckIInv ==
    ASSUME IInv, Bar, NEW w \in SendWorker, CheckFriends(w), UNCHANGED <<badBody, projVars>>
    PROVE  IInv'
<1>1. PICK step \in JobStep : step = FriendsGate /\ step \in {"create", "reject"}
  BY DEF FriendsGate, JobStep
<1>2. Goto(w, step) /\ job[w].pc = "check"
  BY <1>1 DEF CheckFriends
<1>3. step = "create" => Befriended
  BY <1>1 DEF FriendsGate, IsActive, IInv, Consumed, Register!IsLatest, NoRow, Befriended
<1>4. w \notin barred
  BY <1>2 DEF IInv, Barred
<1> QED BY <1>1, <1>2, <1>3, <1>4, QuietMove DEF CheckFriends

LEMMA CreateIInv ==
    ASSUME IInv, Bar, NEW w \in SendWorker, CreateConversation(w), UNCHANGED <<badBody, projVars>>
    PROVE  IInv'
<1>0. SendTypeOK /\ TypeOK /\ job[w].pc = "create" /\ job[w] # IdleJob /\ Answers /\ "insert" \in JobStep
  BY JobShape DEF IInv, ChatTypeOK, CreateConversation, JobStep
<1>1. /\ job' \in [SendWorker -> Job \cup {IdleJob}] /\ job'[w].pc = "insert"
      /\ job'[w].key = job[w].key /\ job'[w].id = job[w].id /\ job'[w].live = job[w].live
      /\ \A v \in SendWorker : v # w => job'[v] = job[v]
  BY <1>0, GoesTo DEF CreateConversation
<1>20. Counted'
  <2>1. \A v \in SendWorker : job'[v].key = job[v].key /\ job'[v].live = job[v].live
    BY <1>1
  <2> QED BY <2>1, CountedKept DEF IInv, CreateConversation
<1>2. SendTypeOK'
  BY <1>0, <1>1 DEF SendTypeOK, CreateConversation
<1>3. TypeOK' /\ Consumed' /\ Friendly'
  <2>1. conv' \in ConvState
    BY <1>0 DEF CreateConversation, Created, TypeOK, ConvState
  <2> QED BY <1>1, <2>1, ProjectionKept DEF CreateConversation, IInv, Friendly
<1>4. Stored' /\ FramesMatchRows'
  BY <1>1 DEF IInv, Stored, FramesMatchRows, CreateConversation
<1>5. Barred' /\ barred' \subseteq SendWorker
  <2>1. w \notin barred
    BY <1>0 DEF IInv, Barred
  <2> QED BY <1>0, <1>1, <1>2, <2>1, BarKept
<1>6. Answers'
  <2>1. \A k \in Key : Holds(w, k) => Holds(w, k)'
    BY <1>1 DEF Holds
  <2> QED BY <1>0, <1>1, <2>1, AnswersKept DEF CreateConversation
<1> QED BY <1>2, <1>3, <1>4, <1>5, <1>6, <1>20 DEF IInv, ChatTypeOK

LEMMA InsertIInv ==
    ASSUME IInv, Bar, NEW w \in SendWorker, Insert(w), UNCHANGED <<badBody, projVars>>
    PROVE  IInv'
<1>0. /\ SendTypeOK /\ TypeOK /\ job[w].pc = "insert" /\ job[w] # IdleJob /\ Answers
      /\ job[w] \in Job /\ job[w].key \in Key
  BY JobShape DEF IInv, ChatTypeOK, Insert
<1>1. PICK k \in Key, i \in MessageId : k = job[w].key /\ i = CanonicalId(k)
  BY <1>0, IdsSuffice
<1>2. PICK r \in Job : r = [job[w] EXCEPT !.pc = "publish", !.id = i]
  BY <1>0, <1>1 DEF Job, JobStep
<1>3. rows' = [rows EXCEPT ![k] = i] /\ job' = [job EXCEPT ![w] = r]
  BY <1>0, <1>1, <1>2 DEF Insert, SendTypeOK
<1>4. r.pc = "publish" /\ r.key = k /\ r.id = i /\ r.live = job[w].live
  BY <1>0, <1>1, <1>2 DEF Job
<1>5. /\ job' \in [SendWorker -> Job \cup {IdleJob}] /\ job'[w] = r
      /\ \A v \in SendWorker : v # w => job'[v] = job[v]
  BY <1>0, <1>3, OneJob
<1>6. /\ rows' \in [Key -> MessageId \cup {0}] /\ rows'[k] = i /\ (rows[k] # 0 => i = rows[k])
      /\ \A q \in Key : q # k => rows'[q] = rows[q]
  BY <1>0, <1>1, <1>3 DEF SendTypeOK, CanonicalId
<1>7. \A q \in Key : rows[q] \in MessageId => rows'[q] = rows[q]
  BY <1>6, NoZeroId
<1>20. Counted'
  <2>1. \A v \in SendWorker : job'[v].key = job[v].key /\ job'[v].live = job[v].live
    BY <1>1, <1>4, <1>5
  <2> QED BY <2>1, CountedKept DEF IInv, Insert
<1>8. SendTypeOK'
  BY <1>0, <1>5, <1>6 DEF SendTypeOK, Insert
<1>9. TypeOK' /\ Consumed' /\ Friendly'
  BY <1>0, <1>4, <1>5, ProjectionKept DEF Insert, IInv, TypeOK, Friendly
<1>10. Stored'
  <2> SUFFICES ASSUME NEW v \in SendWorker, job'[v].pc = "publish"
               PROVE  job'[v].id \in MessageId /\ rows'[job'[v].key] = job'[v].id
    BY DEF Stored
  <2>1. CASE v = w
    BY <1>4, <1>5, <1>6, <2>1
  <2>2. CASE v # w
    <3>1. job[v].pc = "publish" /\ job[v].id \in MessageId /\ rows[job[v].key] = job[v].id
      BY <1>5, <2>2 DEF IInv, Stored
    <3>2. job[v].key \in Key
      BY <1>0, <3>1, JobShape
    <3> QED BY <1>5, <1>7, <2>2, <3>1, <3>2
  <2> QED BY <2>1, <2>2
<1>11. FramesMatchRows'
  <2> SUFFICES ASSUME NEW f \in frames, f.type # "rejected" PROVE rows'[f.key] = f.id
    BY DEF FramesMatchRows, Insert
  <2>1. f.key \in Key /\ f.id \in MessageId
    BY <1>0 DEF SendTypeOK, Frame
  <2> QED BY <1>7, <2>1 DEF IInv, FramesMatchRows
<1>12. Barred' /\ barred' \subseteq SendWorker
  <2>1. w \notin barred
    BY <1>0 DEF IInv, Barred
  <2> QED BY <1>0, <1>5, <1>8, <2>1, BarKept
<1>13. Answers'
  <2>1. \A q \in Key : Holds(w, q) => Holds(w, q)'
    BY <1>1, <1>4, <1>5 DEF Holds
  <2> QED BY <1>0, <1>5, <2>1, AnswersKept DEF Insert
<1> QED BY <1>8, <1>9, <1>10, <1>11, <1>12, <1>13, <1>20 DEF IInv, ChatTypeOK

\* An answer goes out, whole, or the key is muted.
LEMMA EmitIInv ==
    ASSUME IInv, Bar, NEW w \in SendWorker, NEW F \in SUBSET Frame, NEW k \in Key,
           Emit(w, F), UNCHANGED <<badBody, projVars>>, k = job[w].key,
           job[w].pc \in {"publish", "reject"},
           \A f \in F : f.type # "rejected" => rows[f.key] = f.id,
           F \subseteq frames' => Answered(k)'
    PROVE  IInv'
<1>0. SendTypeOK /\ TypeOK /\ job[w] # IdleJob /\ Answers /\ "settle" \in JobStep
  BY JobShape DEF IInv, ChatTypeOK, JobStep
<1>1. /\ job' \in [SendWorker -> Job \cup {IdleJob}] /\ job'[w].pc = "settle"
      /\ job'[w].key = job[w].key /\ job'[w].live = job[w].live
      /\ \A v \in SendWorker : v # w => job'[v] = job[v]
  BY <1>0, GoesTo DEF Emit
<1>20. Counted'
  <2>1. \A v \in SendWorker : job'[v].key = job[v].key /\ job'[v].live = job[v].live
    BY <1>1
  <2> QED BY <2>1, CountedKept DEF IInv, Emit
<1>2. /\ frames \subseteq frames' /\ frames' \subseteq frames \cup F
      /\ muted \subseteq muted' /\ muted' \subseteq muted \cup {k}
      /\ F \subseteq frames' \/ k \in muted'
      /\ sendFaults' \in 0..MaxSendFaults
  BY <1>0, SendBoundsAssumption DEF Emit, SendFault, SendTypeOK
<1>3. SendTypeOK'
  BY <1>0, <1>1, <1>2 DEF SendTypeOK, Emit
<1>4. TypeOK' /\ Consumed' /\ Friendly'
  BY <1>0, <1>1, ProjectionKept DEF Emit, IInv, TypeOK, Friendly
<1>5. Stored' /\ FramesMatchRows'
  BY <1>1, <1>2 DEF IInv, Stored, FramesMatchRows, Emit
<1>6. Barred' /\ barred' \subseteq SendWorker
  BY <1>0, <1>1, <1>3, BarKept
<1>7. Answers'
  <2>1. \A q \in Key : Holds(w, q) => Answered(q)' \/ q \in discarded' \cup muted'
    BY <1>2 DEF Holds
  <2> QED BY <1>0, <1>1, <1>2, <2>1, AnswersKept DEF Emit
<1> QED BY <1>3, <1>4, <1>5, <1>6, <1>7, <1>20 DEF IInv, ChatTypeOK

LEMMA PublishOutboundIInv ==
    ASSUME IInv, Bar, NEW w \in SendWorker, PublishOutbound(w), UNCHANGED <<badBody, projVars>>
    PROVE  IInv'
<1>1. job[w].key \in Key /\ job[w].id \in MessageId /\ rows[job[w].key] = job[w].id
  BY JobShape DEF IInv, ChatTypeOK, Stored, PublishOutbound
<1>2. PICK k \in Key, i \in MessageId : k = job[w].key /\ i = job[w].id
  BY <1>1
<1>3. PICK F \in SUBSET Frame : F = Outbound(k, i)
  <2>1. Message(k, i) \in Frame /\ SentAck(k, i) \in Frame /\ Echo(k, i) \in Frame
    BY DEF Message, SentAck, Echo, Frame
  <2> QED BY <2>1 DEF Outbound
<1>4. \A f \in F : rows[f.key] = f.id
  BY <1>1, <1>2, <1>3 DEF Outbound, Message, SentAck, Echo
<1>5. F \subseteq frames' => Answered(k)'
  BY <1>3 DEF Answered, Outbound, Message, SentAck, Echo
<1>6. Emit(w, F) /\ job[w].pc = "publish"
  BY <1>2, <1>3 DEF PublishOutbound
<1> QED BY <1>2, <1>4, <1>5, <1>6, EmitIInv

LEMMA RejectIInv ==
    ASSUME IInv, Bar, NEW w \in SendWorker, RejectSend(w), UNCHANGED <<badBody, projVars>>
    PROVE  IInv'
<1>1. PICK k \in Key : k = job[w].key
  BY JobShape DEF IInv, ChatTypeOK, RejectSend
<1>2. PICK F \in SUBSET Frame : F = {Rejection(k)}
  <2>1. Rejection(k) \in Frame
    BY DEF Rejection, Frame
  <2> QED BY <2>1
<1>3. \A f \in F : f.type = "rejected"
  BY <1>2 DEF Rejection
<1>4. F \subseteq frames' => Answered(k)'
  BY <1>2 DEF Answered, Rejection
<1>5. Emit(w, F) /\ job[w].pc = "reject"
  BY <1>1, <1>2 DEF RejectSend, RejectionFrames
<1> QED BY <1>1, <1>3, <1>4, <1>5, EmitIInv

\* An execution that ends: its envelope is answered, dropped, or on the queue again.
LEMMA EndsIInv ==
    ASSUME IInv, Bar, NEW w \in SendWorker, job[w] # IdleJob, job' = [job EXCEPT ![w] = IdleJob],
           UNCHANGED <<readModel, conv, projVars, badBody, enqueued, rows>>,
           SendTypeOK', Counted',
           frames \subseteq frames', discarded \subseteq discarded', muted \subseteq muted',
           \A f \in frames' : f \in frames \/ (f.type # "rejected" => rows[f.key] = f.id),
           \A k \in Key : inbound[k] > 0 => inbound'[k] > 0,
           \A k \in Key : Holds(w, k) => inbound'[k] > 0 \/ k \in discarded'
    PROVE  IInv'
<1>0. SendTypeOK /\ TypeOK /\ Answers
  BY DEF IInv, ChatTypeOK
<1>1. /\ job'[w] = IdleJob /\ \A v \in SendWorker : v # w => job'[v] = job[v]
      /\ IdleJob.pc = "idle"
  BY <1>0, IdleIsNoJob DEF SendTypeOK
<1>2. TypeOK' /\ Consumed' /\ Friendly'
  BY <1>0, <1>1, ProjectionKept DEF IInv, TypeOK, Friendly
<1>3. Stored' /\ FramesMatchRows'
  BY <1>1 DEF IInv, Stored, FramesMatchRows
<1>4. Barred' /\ barred' \subseteq SendWorker
  <2>1. ASSUME NEW v \in barred' PROVE conv' = "closed" /\ job'[v].pc \in {"find", "reject", "settle"}
    <3>1. /\ v \in SendWorker /\ conv' = "closed" /\ job'[v] # IdleJob
          /\ v \in barred \/ job[v] = IdleJob
      BY <2>1 DEF Bar
    <3> QED BY <1>1, <3>1 DEF IInv, Barred
  <2> QED BY <2>1 DEF Barred, Bar
<1>5. Answers'
  BY <1>0, <1>1, AnswersKept
<1> QED BY <1>2, <1>3, <1>4, <1>5 DEF IInv, ChatTypeOK

LEMMA AckIInv ==
    ASSUME IInv, Bar, NEW w \in SendWorker, AckSend(w), UNCHANGED <<badBody, projVars>>
    PROVE  IInv'
<1>0. SendTypeOK /\ job[w] # IdleJob /\ job[w].pc = "settle"
  BY JobShape DEF IInv, ChatTypeOK, AckSend
<1>1. SendTypeOK'
  BY <1>0 DEF AckSend, SendTypeOK
<1>3. Counted'
  <2>1. ~job'[w].live /\ \A v \in SendWorker : v # w => job'[v] = job[v]
    BY <1>0, IdleIsNoJob DEF AckSend, SendTypeOK
  <2> QED BY <1>0, <2>1, CountedRelease DEF IInv, AckSend
<1>2. \A k \in Key : ~Holds(w, k)
  BY <1>0 DEF Holds
<1> QED BY <1>0, <1>1, <1>2, <1>3, EndsIInv DEF AckSend

LEMMA NackIInv ==
    ASSUME IInv, Bar, NEW w \in SendWorker, NackSend(w), UNCHANGED <<badBody, projVars>>
    PROVE  IInv'
<1>0. SendTypeOK /\ job[w] # IdleJob /\ job[w].key \in Key
  BY JobShape DEF IInv, ChatTypeOK, NackSend
<1>1. discarded \subseteq discarded' /\ discarded' \subseteq Key
      /\ \A k \in Key : Holds(w, k) => k \in discarded'
  BY <1>0 DEF NackSend, Holds, SendTypeOK
<1>2. sendFaults' \in 0..MaxSendFaults
  BY <1>0, SendBoundsAssumption DEF NackSend, SendFault, SendTypeOK
<1>3. SendTypeOK'
  BY <1>0, <1>1, <1>2 DEF NackSend, SendTypeOK
<1>4. Counted'
  <2>1. ~job'[w].live /\ \A v \in SendWorker : v # w => job'[v] = job[v]
    BY <1>0, IdleIsNoJob DEF NackSend, SendTypeOK
  <2> QED BY <1>0, <2>1, CountedRelease DEF IInv, NackSend
<1> QED BY <1>0, <1>1, <1>3, <1>4, EndsIInv DEF NackSend

\* What a process that dies among its publishes got out tells of a row.
LEMMA PartialFrames ==
    ASSUME IInv, NEW w \in SendWorker, job[w] # IdleJob, NEW F \in SentBefore(w)
    PROVE  F \subseteq Frame /\ \A f \in F : rows[f.key] = f.id
<1>1. CASE job[w].pc # "publish"
  BY <1>1 DEF SentBefore
<1>2. CASE job[w].pc = "publish"
  <2>1. job[w].key \in Key /\ job[w].id \in MessageId /\ rows[job[w].key] = job[w].id
    BY <1>2, JobShape DEF IInv, ChatTypeOK, Stored
  <2>2. PICK k \in Key, i \in MessageId : k = job[w].key /\ i = job[w].id
    BY <2>1
  <2>3. F \subseteq {Message(k, i), SentAck(k, i)}
    BY <1>2, <2>2 DEF SentBefore
  <2>4. Message(k, i) \in Frame /\ SentAck(k, i) \in Frame
    BY DEF Message, SentAck, Frame
  <2> QED BY <2>1, <2>2, <2>3, <2>4 DEF Message, SentAck
<1> QED BY <1>1, <1>2

LEMMA CrashIInv ==
    ASSUME IInv, Bar, NEW w \in SendWorker, CrashSend(w), UNCHANGED <<badBody, projVars>>
    PROVE  IInv'
<1>0. SendTypeOK /\ job[w] # IdleJob /\ Counted
  BY DEF IInv, ChatTypeOK, CrashSend
<1>1. ~job'[w].live /\ \A v \in SendWorker : v # w => job'[v] = job[v]
  BY <1>0, IdleIsNoJob DEF CrashSend, SendTypeOK
<1>2. /\ Counted' /\ inbound' \in [Key -> Nat]
      /\ \A k \in Key : inbound'[k] <= enqueued'[k] /\ inbound[k] <= inbound'[k]
      /\ \A k \in Key : Holds(w, k) => inbound'[k] > 0
  BY <1>0, <1>1, CountedRelease DEF CrashSend
<1>3. PICK F \in SentBefore(w) : frames' = frames \cup F
  BY DEF CrashSend
<1>4. F \subseteq Frame /\ \A f \in F : rows[f.key] = f.id
  BY <1>0, PartialFrames
<1>5. sendFaults' \in 0..MaxSendFaults
  BY <1>0, SendBoundsAssumption DEF CrashSend, SendFault, SendTypeOK
<1>6. SendTypeOK'
  BY <1>0, <1>2, <1>3, <1>4, <1>5 DEF CrashSend, SendTypeOK
<1>7. \A k \in Key : inbound[k] > 0 => inbound'[k] > 0
  BY <1>0, <1>2 DEF SendTypeOK
<1> QED BY <1>0, <1>2, <1>3, <1>4, <1>6, <1>7, EndsIInv DEF CrashSend

LEMMA LoseIInv ==
    ASSUME IInv, Bar, NEW w \in SendWorker, LoseSendConnection(w), UNCHANGED <<badBody, projVars>>
    PROVE  IInv'
<1>0. SendTypeOK /\ TypeOK /\ job[w] \in Job /\ Counted /\ Answers
  BY JobShape DEF IInv, ChatTypeOK, LoseSendConnection
<1>1. PICK q \in Job : q = [job[w] EXCEPT !.live = FALSE]
  BY <1>0 DEF Job
<1>2. /\ job' \in [SendWorker -> Job \cup {IdleJob}] /\ job'[w] = q
      /\ \A v \in SendWorker : v # w => job'[v] = job[v]
  <2>1. job' = [job EXCEPT ![w] = q]
    BY <1>1 DEF LoseSendConnection
  <2> QED BY <1>0, <2>1, OneJob
<1>3. q.pc = job[w].pc /\ q.key = job[w].key /\ q.id = job[w].id /\ ~q.live
  BY <1>0, <1>1 DEF Job
<1>4. /\ Counted' /\ inbound' \in [Key -> Nat]
      /\ \A k \in Key : inbound'[k] <= enqueued'[k] /\ inbound[k] <= inbound'[k]
      /\ \A k \in Key : Holds(w, k) => inbound'[k] > 0
  BY <1>0, <1>2, <1>3, CountedRelease DEF LoseSendConnection
<1>5. sendFaults' \in 0..MaxSendFaults
  BY <1>0, SendBoundsAssumption DEF LoseSendConnection, SendFault, SendTypeOK
<1>6. SendTypeOK'
  BY <1>0, <1>2, <1>4, <1>5 DEF LoseSendConnection, SendTypeOK
<1>7. TypeOK' /\ Consumed' /\ Friendly'
  BY <1>0, <1>2, <1>3, ProjectionKept DEF LoseSendConnection, IInv, TypeOK, Friendly
<1>8. Stored' /\ FramesMatchRows'
  BY <1>2, <1>3 DEF IInv, Stored, FramesMatchRows, LoseSendConnection
<1>9. Barred' /\ barred' \subseteq SendWorker
  <2>1. job[w] # IdleJob /\ (w \in barred => job'[w].pc \in {"find", "reject", "settle"})
    BY <1>0, <1>2, <1>3, IdleIsNoJob DEF IInv, Barred
  <2> QED BY <1>0, <1>2, <1>6, <2>1, BarKept
<1>10. Answers'
  <2>1. \A k \in Key : inbound[k] > 0 => inbound'[k] > 0
    BY <1>0, <1>4 DEF SendTypeOK
  <2> QED BY <1>0, <1>2, <1>4, <2>1, AnswersKept DEF LoseSendConnection
<1> QED BY <1>4, <1>6, <1>7, <1>8, <1>9, <1>10 DEF IInv, ChatTypeOK

LEMMA ReceiveIInv ==
    ASSUME IInv, Bar, NEW w \in SendWorker, Receive(w), UNCHANGED <<badBody, projVars>>
    PROVE  IInv'
<1>0. SendTypeOK /\ TypeOK /\ job[w] = IdleJob /\ Counted /\ Answers
  BY DEF IInv, ChatTypeOK, Receive
<1>1. PICK k \in Key :
         /\ inbound[k] > 0 /\ inbound' = [inbound EXCEPT ![k] = @ - 1]
         /\ job' = [job EXCEPT ![w] = [pc |-> "find", key |-> k, id |-> 0, live |-> TRUE]]
  BY DEF Receive
<1>2. PICK q \in Job : q = [pc |-> "find", key |-> k, id |-> 0, live |-> TRUE]
  BY DEF Job, JobStep
<1>3. /\ job' \in [SendWorker -> Job \cup {IdleJob}] /\ job'[w] = q
      /\ \A v \in SendWorker : v # w => job'[v] = job[v]
      /\ q.pc = "find" /\ q.key = k /\ q.live
  BY <1>0, <1>1, <1>2, OneJob
<1>4. /\ inbound' \in [Key -> Nat] /\ inbound'[k] = inbound[k] - 1
      /\ \A j \in Key : j # k => inbound'[j] = inbound[j]
      /\ \A j \in Key : inbound'[j] <= enqueued[j]
  BY <1>0, <1>1 DEF SendTypeOK
<1>5. Counted'
  <2> SUFFICES ASSUME NEW j \in Key
               PROVE  IsFiniteSet(Carriers(j)') /\ inbound'[j] + Cardinality(Carriers(j)') <= enqueued'[j]
    BY DEF Counted
  <2>1. IsFiniteSet(Carriers(j)) /\ inbound[j] + Cardinality(Carriers(j)) <= enqueued[j]
    BY <1>0 DEF Counted
  <2>2. w \notin Carriers(j)
    BY <1>0, IdleIsNoJob DEF Carriers
  <2>3. CASE j # k
    <3>1. Carriers(j)' = Carriers(j)
      BY <1>3, <2>2, <2>3 DEF Carriers
    <3> QED BY <1>4, <2>1, <2>3, <3>1 DEF Receive
  <2>4. CASE j = k
    <3>1. Carriers(j)' = Carriers(j) \cup {w}
      BY <1>3, <2>4 DEF Carriers
    <3>2. IsFiniteSet(Carriers(j)') /\ Cardinality(Carriers(j)') = Cardinality(Carriers(j)) + 1
      BY <2>1, <2>2, <3>1, FS_AddElement
    <3>3. Cardinality(Carriers(j)) \in Nat /\ inbound[j] \in Nat /\ enqueued[j] \in Nat
      BY <1>0, <2>1, FS_CardinalityType DEF SendTypeOK
    <3> QED BY <1>4, <2>1, <2>4, <3>2, <3>3 DEF Receive
  <2> QED BY <2>3, <2>4
<1>6. SendTypeOK'
  BY <1>0, <1>3, <1>4 DEF Receive, SendTypeOK
<1>7. TypeOK' /\ Consumed' /\ Friendly'
  BY <1>0, <1>3, ProjectionKept DEF Receive, IInv, TypeOK, Friendly
<1>8. Stored' /\ FramesMatchRows'
  BY <1>3 DEF IInv, Stored, FramesMatchRows, Receive
<1>9. Barred' /\ barred' \subseteq SendWorker
  BY <1>0, <1>3, <1>6, BarKept
<1>10. Answers'
  <2>1. \A j \in Key : inbound[j] > 0 => inbound'[j] > 0 \/ Holds(w, j)'
    BY <1>3, <1>4 DEF Holds
  <2>2. \A j \in Key : ~Holds(w, j)
    BY <1>0, IdleIsNoJob DEF Holds
  <2> QED BY <1>0, <1>3, <2>1, <2>2, AnswersKept DEF Receive
<1> QED BY <1>5, <1>6, <1>7, <1>8, <1>9, <1>10 DEF IInv, ChatTypeOK

LEMMA EnqueueIInv ==
    ASSUME IInv, Bar, NEW k \in Key, Enqueue(k), UNCHANGED <<badBody, projVars>>
    PROVE  IInv'
<1>0. SendTypeOK /\ TypeOK /\ Counted /\ Answers
  BY DEF IInv, ChatTypeOK
<1>1. /\ inbound' \in [Key -> Nat] /\ enqueued' \in [Key -> Nat]
      /\ inbound'[k] = inbound[k] + 1 /\ enqueued'[k] = enqueued[k] + 1
      /\ \A j \in Key : j # k => inbound'[j] = inbound[j] /\ enqueued'[j] = enqueued[j]
      /\ \A j \in Key : inbound'[j] <= enqueued'[j] /\ enqueued'[j] <= MaxCopies[j]
  BY <1>0, SendBoundsAssumption DEF Enqueue, SendTypeOK
<1>2. SendTypeOK'
  BY <1>0, <1>1 DEF Enqueue, SendTypeOK
<1>3. Counted'
  <2> SUFFICES ASSUME NEW j \in Key
               PROVE  IsFiniteSet(Carriers(j)') /\ inbound'[j] + Cardinality(Carriers(j)') <= enqueued'[j]
    BY DEF Counted
  <2>1. IsFiniteSet(Carriers(j)) /\ inbound[j] + Cardinality(Carriers(j)) <= enqueued[j]
    BY <1>0 DEF Counted
  <2>2. Carriers(j)' = Carriers(j)
    BY DEF Carriers, Enqueue
  <2>3. Cardinality(Carriers(j)) \in Nat /\ inbound[j] \in Nat /\ enqueued[j] \in Nat
    BY <1>0, <2>1, FS_CardinalityType DEF SendTypeOK
  <2> QED BY <1>1, <2>1, <2>2, <2>3
<1>4. TypeOK' /\ Consumed' /\ Friendly' /\ Stored' /\ FramesMatchRows'
  BY <1>0, ProjectionKept DEF Enqueue, IInv, TypeOK, Friendly, Stored, FramesMatchRows
<1>5. Barred' /\ barred' \subseteq SendWorker
  BY DEF Bar, Barred, IInv, Enqueue
<1>6. Answers'
  <2> SUFFICES ASSUME NEW j \in Key, enqueued'[j] > 0, j \notin discarded \cup muted
               PROVE  Answered(j)' \/ Pending(j)'
    BY DEF Answers, Enqueue
  <2>1. CASE j = k
    <3>1. inbound'[j] > 0
      BY <1>0, <1>1, <2>1 DEF SendTypeOK
    <3> QED BY <3>1 DEF Pending
  <2>2. CASE j # k
    <3>1. Answered(j) \/ Pending(j)
      BY <1>0, <1>1, <2>2 DEF Answers
    <3> QED BY <1>1, <2>2, <3>1 DEF Answered, Pending, Holds, Enqueue
  <2> QED BY <2>1, <2>2
<1> QED BY <1>2, <1>3, <1>4, <1>5, <1>6 DEF IInv, ChatTypeOK

-----------------------------------------------------------------------------
(* The steps of the projection. *)

\* A step of the projection leaves every send as it was.
LEMMA ProjIInv ==
    ASSUME IInv, Bar, Next \/ UNCHANGED vars, UNCHANGED sendVars
    PROVE  IInv'
<1>0. ChatTypeOK /\ Counted /\ Stored /\ FramesMatchRows /\ Barred /\ Answers /\ Friendly
  BY DEF IInv
<1>1. Consumed'
  BY ConsumedStep DEF IInv
<1>2. SendTypeOK' /\ TypeOK'
  BY <1>0, <1>1 DEF ChatTypeOK, Consumed, SendTypeOK, sendVars
<1>3. Counted' /\ Stored' /\ FramesMatchRows' /\ Answers'
  BY <1>0 DEF Counted, Carriers, Stored, FramesMatchRows, Answers, Answered, Pending, Holds, sendVars
<1>4. Friendly'
  <2>1. seen \subseteq seen'
    BY DEF Next, ProjStep, Handle, Publish, Deliver, Apply, TouchConversation, Ack, Nack, Crash,
       LoseConnection, vars, tables, projVars
  <2> QED BY <1>0, <2>1 DEF Friendly, Befriended, sendVars
<1>5. Barred' /\ barred' \subseteq SendWorker
  BY <1>0 DEF Bar, Barred, sendVars
<1> QED BY <1>1, <1>2, <1>3, <1>4, <1>5 DEF IInv, ChatTypeOK

-----------------------------------------------------------------------------
LEMMA SendIInv ==
    ASSUME IInv, Bar, SendNext, UNCHANGED projVars
    PROVE  IInv'
<1>1. ASSUME NEW k \in Key, Enqueue(k) PROVE IInv'
  BY <1>1, EnqueueIInv DEF SendNext
<1>2. ASSUME NEW w \in SendWorker, Process(w) PROVE IInv'
  BY <1>2, ReceiveIInv, FindIInv, CheckIInv, CreateIInv, InsertIInv, PublishOutboundIInv, RejectIInv,
     AckIInv DEF SendNext, Process
<1>3. ASSUME NEW w \in SendWorker, NackSend(w) \/ CrashSend(w) \/ LoseSendConnection(w) PROVE IInv'
  BY <1>3, NackIInv, CrashIInv, LoseIInv DEF SendNext
<1> QED BY <1>1, <1>2, <1>3 DEF SendNext, SendStep

LEMMA ChatInitIInv == ChatInit => IInv
<1> SUFFICES ASSUME ChatInit PROVE IInv
  OBVIOUS
<1>1. Consumed /\ TypeOK
  BY InitProjInv DEF ChatInit, ProjInv, Consumed
<1>2. SendTypeOK
  <2>1. 0 \in 0..MaxSendFaults /\ \A k \in Key : 0 <= MaxCopies[k]
    BY SendBoundsAssumption
  <2> QED BY <2>1 DEF ChatInit, SendInit, SendTypeOK
<1>3. \A w \in SendWorker : job[w].pc = "idle" /\ ~job[w].live
  BY IdleIsNoJob DEF ChatInit, SendInit
<1>4. Counted
  <2>1. \A k \in Key : Carriers(k) = {}
    BY <1>3 DEF Carriers
  <2>2. IsFiniteSet({}) /\ Cardinality({}) = 0
    BY FS_EmptySet
  <2> QED BY <2>1, <2>2 DEF Counted, ChatInit, SendInit
<1>5. Stored /\ FramesMatchRows /\ Barred /\ Answers
  BY <1>3 DEF ChatInit, SendInit, Stored, FramesMatchRows, Barred, Answers
<1>6. Friendly
  BY <1>3 DEF Friendly
<1> QED BY <1>1, <1>2, <1>4, <1>5, <1>6 DEF IInv, ChatTypeOK, ChatInit

LEMMA ChatStepIInv == IInv /\ [ChatNext]_chatVars => IInv'
<1>1. CASE ChatNext
  BY <1>1, ProjIInv, SendIInv DEF ChatNext
<1>2. CASE UNCHANGED chatVars
  BY <1>2, ConsumedStep DEF chatVars, vars, tables, projVars, sendVars, IInv, Consumed, ChatTypeOK,
     SendTypeOK, Counted, Carriers, Stored, FramesMatchRows, Barred, Answers, Answered, Pending, Holds,
     Friendly, Befriended
<1> QED BY <1>1, <1>2

\* The invariant holds of every behaviour, one step at a time.
THEOREM Invariant == ChatSpec => []IInv
<1> QED BY ChatInitIInv, ChatStepIInv, PTL DEF ChatSpec

\* Every variable of the two consumers keeps its type, and no envelope is invented.
THEOREM ChatTypeCorrect == ChatSpec => []ChatTypeOK
<1>1. IInv => ChatTypeOK BY DEF IInv
<1> QED BY <1>1, Invariant, PTL

\* Every frame about a message carries the id of its one row, through crashes,
\* redeliveries and retries (SendMessage.execute, the idempotent insert).
THEOREM FramesMatchRowsHolds == ChatSpec => []FramesMatchRows
<1>1. IInv => FramesMatchRows BY DEF IInv
<1> QED BY <1>1, Invariant, PTL

\* A send received after the conversation closed, and before it is reopened,
\* never passes the gate (SendMessage.execute, close).
THEOREM ClosedBarsSendsHolds == ChatSpec => []ClosedBarsSends
<1>1. IInv => ClosedBarsSends BY DEF IInv, Barred, ClosedBarsSends
<1> QED BY <1>1, Invariant, PTL

\* An envelope that no failed statement dropped is answered, through any crash
\* and redelivery (createInboundHandler).
THEOREM EverySendAnsweredHolds == ChatSpec => []EverySendAnswered
<1>1. ASSUME IInv PROVE EverySendAnswered
  <2> SUFFICES ASSUME NEW k \in Key, enqueued[k] > 0, AtRest(k), k \notin discarded \cup muted
               PROVE  Rejection(k) \in frames \/ \E i \in MessageId : Outbound(k, i) \subseteq frames
    BY DEF EverySendAnswered
  <2>1. Answered(k) \/ Pending(k)
    BY <1>1 DEF IInv, Answers
  <2>2. ~Pending(k)
    BY DEF AtRest, Pending, Holds
  <2> QED BY <2>1, <2>2 DEF Answered
<1> QED BY <1>1, Invariant, PTL

-----------------------------------------------------------------------------
\* The conversation changes by a create or by the touch of a handler.
LEMMA ConvChanges ==
    ASSUME IInv, [ChatNext]_chatVars, conv' # conv
    PROVE  \/ /\ conv = "none" /\ seen' = seen
              /\ \E w \in SendWorker : job[w].pc = "create"
           \/ /\ conv # "none"
              /\ \E w \in Worker : /\ task[w].pc = "touch" /\ task'[w].pc = "settle"
                                   /\ conv' = "open" <=> task[w].ev.state = "active"
<1>1. CASE SendNext /\ UNCHANGED projVars
  <2>1. ASSUME NEW w \in SendWorker, CreateConversation(w)
        PROVE  conv = "none" /\ job[w].pc = "create"
    BY <2>1 DEF CreateConversation, Created
  <2>2. \E w \in SendWorker : CreateConversation(w)
    BY <1>1 DEF SendNext, SendStep, Process, Enqueue, Receive, FindConversation, CheckFriends, Insert,
       PublishOutbound, RejectSend, Emit, AckSend, NackSend, CrashSend, LoseSendConnection
  <2> QED BY <1>1, <2>1, <2>2 DEF projVars
<1>2. CASE Next
  <2>1. PICK w \in Worker : TouchConversation(w)
    BY <1>2 DEF Next, ProjStep, Handle, Publish, Deliver, Apply, Ack, Nack, Crash, LoseConnection, tables
  <2>2. task[w] \in Task /\ task \in [Worker -> Task \cup {Idle}]
    BY <2>1, Shape DEF TouchConversation, IInv, ChatTypeOK, TypeOK
  <2>3. task'[w].pc = "settle" /\ task[w].pc = "touch"
    BY <2>1, <2>2 DEF TouchConversation, Task
  <2>4. conv # "none" /\ (conv' = "open" <=> task[w].ev.state = "active")
    BY <2>1 DEF TouchConversation, Touched
  <2> QED BY <2>3, <2>4
<1>3. CASE UNCHANGED chatVars
  BY <1>3 DEF chatVars, vars, tables
<1> QED BY <1>1, <1>2, <1>3 DEF ChatNext

(* AC-G1 of the whole process: the sends, which share the pair's rows with   *)
(* the consumer, cannot keep the row from being the newest event published   *)
(* (ConvergesToNewest).                                                      *)
THEOREM ChatConvergence == ChatSpec => []ConvergesToNewest
<1>1. IInv => ConvergesToNewest
  BY ConsumedConverges DEF IInv
<1> QED BY <1>1, Invariant, PTL

(* AC-G1: the whole process still implements the newest-event register: a    *)
(* step of a send leaves the register alone (ImplementsLatestEvent).         *)
THEOREM ChatImplements == ChatSpec => ImplementsLatestEvent
<1>1. ChatInit => Register!Init
  BY InitProjInv DEF ChatInit, ProjInv, Consumed, TypeOK, Register!Init
<1>2. ASSUME IInv, [ChatNext]_chatVars PROVE [Register!Next]_<<seen, readModel>>
  <2>1. ASSUME SendNext, UNCHANGED projVars PROVE UNCHANGED <<seen, readModel>>
    BY <2>1 DEF projVars, SendNext, SendStep, Process, Enqueue, Receive, FindConversation, CheckFriends,
       CreateConversation, Insert, PublishOutbound, RejectSend, Emit, AckSend, NackSend, CrashSend,
       LoseSendConnection
  <2>2. ASSUME [Next]_vars PROVE [Register!Next]_<<seen, readModel>>
    BY <1>2, <2>2, FoldsOrStutters DEF IInv
  <2> QED BY <1>2, <2>1, <2>2 DEF ChatNext, chatVars
<1> QED BY <1>1, <1>2, Invariant, PTL DEF ChatSpec, ImplementsLatestEvent, Register!Spec

\* No conversation is created for a pair whose friendship chat-service never saw
\* accepted, although the gate is three statements apart (SendMessage.execute).
THEOREM NoThreadWithoutFriendshipHolds == ChatSpec => NoThreadWithoutFriendship
<1>1. ASSUME IInv, [ChatNext]_chatVars
      PROVE  [conv = "none" /\ conv' # "none" => \E e \in seen : e.state = "active"]_chatVars
  BY <1>1, ConvChanges DEF IInv, Friendly, Befriended
<1> QED BY <1>1, Invariant, PTL DEF ChatSpec, NoThreadWithoutFriendship

\* Only the event of an acceptance reopens a closed conversation, and none is
\* ever deleted (Created, Touched).
THEOREM OnlyAcceptReopensHolds == ChatSpec => OnlyAcceptReopens
<1>1. ASSUME IInv, [ChatNext]_chatVars
      PROVE  [conv # "none" /\ conv' # conv =>
                 \E w \in Worker : /\ task[w].pc = "touch" /\ task'[w].pc = "settle"
                                   /\ conv' = "open" <=> task[w].ev.state = "active"]_chatVars
  BY <1>1, ConvChanges
<1> QED BY <1>1, Invariant, PTL DEF ChatSpec, OnlyAcceptReopens
=============================================================================
