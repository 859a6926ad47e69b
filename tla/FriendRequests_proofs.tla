----------------------- MODULE FriendRequests_proofs ------------------------
(***************************************************************************)
(* Proofs about FriendRequests, for any number of requests, concurrent     *)
(* handlers and deaths; then about FriendFeed, which puts chat-service's    *)
(* consumer behind it.                                                     *)
(***************************************************************************)
EXTENDS FriendFeed, TLAPS

Kind == {"created", "accepted", "removed"}

\* What the program counter of a handler says of its other fields.
Focused(t) ==
    /\ t.pc = "transition" => t.req \in Request /\ t.goal \in {"accepted", "rejected"}
    /\ t.pc \in {"ensure", "reselect"} => t.req \in Request /\ t.goal = "accepted"
    /\ t.pc = "announce" => t.req \in Request /\ t.goal \in Kind
    /\ t.pc \in {"reverse", "existing", "create"} => t.goal = "created"

Focus == \A h \in Handler : Focused(handler[h])

\* The handler has won the acceptance of r, which has yet to take effect.
Accepting(t, r) == t.pc \in {"ensure", "reselect"} /\ t.req = r

\* The handler is on its way to announce the event.
Owes(t, kind, r) ==
    /\ t.pc \in {"ensure", "reselect", "announce"}
    /\ t.req = r /\ t.goal = kind

Owed(kind, r) == \E h \in Handler : Owes(handler[h], kind, r)

\* An event is owed by one handler at most, and no longer once it is in the log.
OwedOnce ==
    /\ \A g, h \in Handler, kind \in Kind, r \in Request :
          Owes(handler[g], kind, r) /\ Owes(handler[h], kind, r) => g = h
    /\ \A kind \in Kind, r \in Request : Owed(kind, r) => ~Announced(kind, r)
    /\ \A i, j \in DOMAIN log : log[i] = log[j] => i = j

\* An event that is owed or in the log speaks of something committed.
Told(kind, r) == Announced(kind, r) \/ Owed(kind, r)

\* The acceptance of r has taken effect, or never will.
Decided(r) ==
    requests[r].status = "accepted" /\ \A h \in Handler : ~Accepting(handler[h], r)

Committed ==
    \A r \in Request :
        /\ Told("created", r) => requests[r].status # "none"
        /\ Told("accepted", r) => requests[r].status = "accepted"
        /\ Told("removed", r) => Decided(r) /\ friendship # r
        /\ friendship = r => Decided(r)

\* An acceptance is announced, owed, or was cut short.
Followed ==
    \A r \in Request :
        requests[r].status = "accepted" => Told("accepted", r) \/ r \in failed

IInv == TypeOK /\ Focus /\ OwedOnce /\ Committed /\ Followed

-----------------------------------------------------------------------------
\* An idle handler is not a task in any step, and owes nothing.
LEMMA IdleOwesNothing ==
    /\ Idle \notin Task /\ Idle.pc = "idle" /\ Focused(Idle)
    /\ \A r \in Request : ~Accepting(Idle, r) /\ \A kind \in Kind : ~Owes(Idle, kind, r)
  BY DEF Idle, Task, Step, Focused, Accepting, Owes

\* What the type invariant says of one handler.
LEMMA Shape ==
    ASSUME TypeOK, NEW h \in Handler
    PROVE  /\ handler[h] = Idle \/ handler[h] \in Task
           /\ handler[h] = Idle <=> handler[h].pc = "idle"
           /\ handler[h] # Idle =>
                 /\ handler[h].pc \in Step /\ handler[h].me \in User
                 /\ handler[h].req \in Request \cup {None} /\ handler[h].goal \in Goal
<1>1. handler[h] = Idle \/ handler[h] \in Task
  BY DEF TypeOK
<1>2. CASE handler[h] = Idle
  BY <1>2 DEF Idle
<1>3. CASE handler[h] \in Task
  BY <1>3 DEF Idle, Task, Step
<1> QED
  BY <1>1, <1>2, <1>3

\* A step of one handler leaves the others as they were.
LEMMA OneMoves ==
    ASSUME TypeOK, NEW h \in Handler, NEW t \in Task \cup {Idle},
           handler' = [handler EXCEPT ![h] = t]
    PROVE  /\ handler' \in [Handler -> Task \cup {Idle}] /\ handler'[h] = t
           /\ \A g \in Handler : g # h => handler'[g] = handler[g]
  BY DEF TypeOK

\* A death or failed publish keeps the count within its bound.
LEMMA CrashBounded ==
    ASSUME TypeOK, Crash
    PROVE  crashes' \in 0..MaxCrashes
  BY MaxCrashesAssumption DEF TypeOK, Crash

\* The log after one more event.
LEMMA AppendAnnounces ==
    ASSUME NEW s \in Seq(Event), NEW e \in Event, NEW f \in Event
    PROVE  /\ Append(s, e) \in Seq(Event)
           /\ (\E i \in DOMAIN Append(s, e) : Append(s, e)[i] = f)
                 <=> (f = e \/ \E i \in DOMAIN s : s[i] = f)
           /\ (\A i, j \in DOMAIN s : s[i] = s[j] => i = j) /\ (\A i \in DOMAIN s : s[i] # e)
                 => \A i, j \in DOMAIN Append(s, e) : Append(s, e)[i] = Append(s, e)[j] => i = j
<1> DEFINE S == Append(s, e)
<1>1. /\ S \in Seq(Event) /\ Len(S) = Len(s) + 1 /\ Len(s) \in Nat
      /\ DOMAIN S = 1..Len(S) /\ DOMAIN s = 1..Len(s)
      /\ S[Len(s) + 1] = e
      /\ \A i \in 1..Len(s) : S[i] = s[i]
  OBVIOUS
<1> HIDE DEF S
<1>2. (\E i \in DOMAIN S : S[i] = f) <=> (f = e \/ \E i \in DOMAIN s : s[i] = f)
  <2>1. ASSUME NEW i \in DOMAIN S, S[i] = f PROVE f = e \/ \E k \in DOMAIN s : s[k] = f
    <3>1. CASE i = Len(s) + 1
      BY <1>1, <2>1, <3>1
    <3>2. CASE i \in DOMAIN s
      BY <1>1, <2>1, <3>2
    <3> QED
      BY <1>1, <3>1, <3>2
  <2>2. CASE f = e
    BY <1>1, <2>2
  <2>3. ASSUME NEW i \in DOMAIN s, s[i] = f PROVE \E k \in DOMAIN S : S[k] = f
    BY <1>1, <2>3
  <2> QED
    BY <2>1, <2>2, <2>3
<1>3. ASSUME \A i, j \in DOMAIN s : s[i] = s[j] => i = j, \A i \in DOMAIN s : s[i] # e,
             NEW i \in DOMAIN S, NEW j \in DOMAIN S, S[i] = S[j]
      PROVE  i = j
  BY <1>1, <1>3
<1> QED
  BY <1>1, <1>2, <1>3 DEF S

\* A step of h that commits and announces nothing, and takes on no debt, keeps
\* the invariant, if an acceptance that it gives up is recorded as failed.
LEMMA QuietStep ==
    ASSUME IInv, NEW h \in Handler, NEW t \in Task \cup {Idle},
           handler' = [handler EXCEPT ![h] = t],
           UNCHANGED <<requests, friendship, log>>,
           failed \subseteq failed', failed' \subseteq Request,
           crashes' \in 0..MaxCrashes, overlapped' \in BOOLEAN,
           Focused(t),
           \A r \in Request : Accepting(t, r) => Accepting(handler[h], r),
           \A r \in Request, kind \in Kind : Owes(t, kind, r) => Owes(handler[h], kind, r),
           \A r \in Request :
              Owes(handler[h], "accepted", r) => Owes(t, "accepted", r) \/ r \in failed'
    PROVE  IInv'
<1>1. TypeOK /\ Focus /\ OwedOnce /\ Committed /\ Followed
  BY DEF IInv
<1>2. /\ handler' \in [Handler -> Task \cup {Idle}] /\ handler'[h] = t
      /\ \A g \in Handler : g # h => handler'[g] = handler[g]
  BY <1>1, OneMoves
<1>3. TypeOK'
  BY <1>1, <1>2 DEF TypeOK
<1>4. Focus'
  BY <1>1, <1>2 DEF Focus
<1>5. ASSUME NEW g \in Handler, NEW kind \in Kind, NEW r \in Request, Owes(handler'[g], kind, r)
      PROVE  Owes(handler[g], kind, r)
  BY <1>2, <1>5
<1>6. ASSUME NEW g \in Handler, NEW r \in Request, Accepting(handler'[g], r)
      PROVE  Accepting(handler[g], r)
  BY <1>2, <1>6
<1>7. \A kind \in Kind, r \in Request :
         /\ Announced(kind, r)' <=> Announced(kind, r)
         /\ Owed(kind, r)' => Owed(kind, r)
         /\ Told(kind, r)' => Told(kind, r)
  BY <1>5 DEF Announced, Owed, Told
<1>8. \A r \in Request : Decided(r) => Decided(r)'
  BY <1>6 DEF Decided
<1>9. OwedOnce'
  BY <1>1, <1>5, <1>7 DEF OwedOnce
<1>10. Committed'
  BY <1>1, <1>7, <1>8 DEF Committed, Kind
<1>11. Followed'
  <2> SUFFICES ASSUME NEW r \in Request, requests[r].status = "accepted", r \notin failed'
               PROVE  Told("accepted", r)'
    BY DEF Followed
  <2>1. Told("accepted", r)
    BY <1>1 DEF Followed
  <2>2. CASE Announced("accepted", r)
    BY <1>7, <2>2 DEF Told, Kind
  <2>3. ASSUME NEW g \in Handler, Owes(handler[g], "accepted", r)
        PROVE  Owes(handler'[g], "accepted", r)
    BY <1>2, <2>3
  <2> QED
    BY <2>1, <2>2, <2>3 DEF Told, Owed
<1> QED
  BY <1>3, <1>4, <1>9, <1>10, <1>11 DEF IInv

\* The same, said of the steps that only move h to another step of its code.
LEMMA QuietMove ==
    ASSUME IInv, NEW h \in Handler, handler[h] # Idle, NEW step \in Step,
           handler' = [handler EXCEPT ![h].pc = step],
           UNCHANGED <<requests, friendship, log, failed, crashes, overlapped>>,
           \/ step \in {"existing", "create"} /\ handler[h].pc \in {"reverse", "existing"}
           \/ step \in {"reselect", "announce"} /\ handler[h].pc \in {"ensure", "reselect"}
    PROVE  IInv'
<1> DEFINE t == [handler[h] EXCEPT !.pc = step]
<1>1. TypeOK /\ Focused(handler[h])
  BY DEF IInv, Focus
<1>2. handler[h] \in Task
  BY <1>1, Shape
<1>3. /\ t \in Task /\ t.pc = step
      /\ t.req = handler[h].req /\ t.goal = handler[h].goal
  BY <1>2 DEF Task
<1>4. handler' = [handler EXCEPT ![h] = t]
  OBVIOUS
<1> HIDE DEF t
<1>5. Focused(t)
  BY <1>1, <1>3 DEF Focused, Kind
<1>6. \A r \in Request : Accepting(t, r) => Accepting(handler[h], r)
  BY <1>3 DEF Accepting
<1>7. ASSUME NEW r \in Request, NEW kind \in Kind
      PROVE  Owes(t, kind, r) <=> Owes(handler[h], kind, r)
  BY <1>3 DEF Owes
<1>8. failed' \subseteq Request /\ crashes' \in 0..MaxCrashes /\ overlapped' \in BOOLEAN
  BY <1>1 DEF TypeOK
<1>9. \A r \in Request : Owes(handler[h], "accepted", r) => Owes(t, "accepted", r)
  BY <1>7 DEF Kind
<1> QED
  BY <1>3, <1>4, <1>5, <1>6, <1>7, <1>8, <1>9, QuietStep

\* A handler that returns keeps the invariant, if an acceptance it owes is
\* recorded as failed.
LEMMA QuietEnd ==
    ASSUME IInv, NEW h \in Handler,
           Done(h), UNCHANGED <<requests, friendship, log, overlapped>>,
           failed \subseteq failed', failed' \subseteq Request,
           crashes' \in 0..MaxCrashes,
           \A r \in Request : Owes(handler[h], "accepted", r) => r \in failed'
    PROVE  IInv'
<1>1. handler' = [handler EXCEPT ![h] = Idle] /\ overlapped' \in BOOLEAN
  BY DEF Done, IInv, TypeOK
<1> QED
  BY <1>1, QuietStep, IdleOwesNothing

-----------------------------------------------------------------------------
LEMMA InitIInv == Init => IInv
<1> SUFFICES ASSUME Init PROVE IInv
  OBVIOUS
<1>1. /\ requests = [r \in Request |-> NoRequest] /\ friendship = None
      /\ handler = [h \in Handler |-> Idle]
      /\ log = <<>> /\ failed = {} /\ crashes = 0 /\ overlapped = FALSE
  BY DEF Init
<1>2. DOMAIN log = {} /\ log \in Seq(Event)
  BY <1>1
<1>3. \A h \in Handler : handler[h] = Idle
  BY <1>1
<1>4. TypeOK
  <2>1. requests \in [Request -> Row] /\ handler \in [Handler -> Task \cup {Idle}]
    BY <1>1 DEF Row
  <2>2. crashes \in 0..MaxCrashes
    BY <1>1, MaxCrashesAssumption
  <2> QED
    BY <1>1, <1>2, <2>1, <2>2 DEF TypeOK
<1>5. \A kind \in Kind, r \in Request : ~Announced(kind, r) /\ ~Owed(kind, r) /\ ~Told(kind, r)
  BY <1>2, <1>3, IdleOwesNothing DEF Announced, Owed, Told
<1>6. Focus
  BY <1>3, IdleOwesNothing DEF Focus
<1>7. OwedOnce
  BY <1>2, <1>3, <1>5, IdleOwesNothing DEF OwedOnce
<1>8. \A r \in Request : friendship # r /\ requests[r].status = "none"
  BY <1>1, RequestAssumption DEF NoRequest
<1>9. Committed /\ Followed
  BY <1>5, <1>8 DEF Committed, Followed, Kind
<1> QED
  BY <1>4, <1>6, <1>7, <1>9 DEF IInv

\* A handler starts with nothing owed, for all but RemoveFriend.
LEMMA StartIInv ==
    ASSUME IInv, NEW h \in Handler, NEW u \in User, NEW step \in Step,
           NEW r \in Request \cup {None}, NEW goal \in Goal,
           Start(h, step, u, r, goal), UNCHANGED friendship,
           \/ step = "reverse" /\ goal = "created"
           \/ step = "transition" /\ r \in Request /\ goal \in {"accepted", "rejected"}
    PROVE  IInv'
<1> DEFINE t == [pc |-> step, me |-> u, req |-> r, goal |-> goal]
<1>1. /\ handler[h] = Idle /\ handler' = [handler EXCEPT ![h] = t]
      /\ UNCHANGED <<requests, log, failed, crashes>>
  BY DEF Start
<1>2. overlapped' \in BOOLEAN /\ failed' \subseteq Request /\ crashes' \in 0..MaxCrashes
  BY DEF Start, IInv, TypeOK
<1>3. t \in Task /\ t.pc = step
  BY DEF Task
<1>4. Focused(t)
  BY DEF Focused
<1>5. \A q \in Request : ~Accepting(t, q) /\ \A kind \in Kind : ~Owes(t, kind, q)
  BY DEF Accepting, Owes
<1>6. \A q \in Request : ~Owes(handler[h], "accepted", q)
  BY <1>1, IdleOwesNothing DEF Kind
<1> HIDE DEF t
<1> QED
  BY <1>1, <1>2, <1>3, <1>4, <1>5, <1>6, QuietStep

\* A step of h that neither publishes nor changes what h owes leaves every debt
\* and every announcement as it was.
LEMMA SameDebts ==
    ASSUME TypeOK, OwedOnce, NEW h \in Handler, NEW t \in Task \cup {Idle},
           handler' = [handler EXCEPT ![h] = t], UNCHANGED log,
           \A kind \in Kind, r \in Request : Owes(t, kind, r) <=> Owes(handler[h], kind, r)
    PROVE  /\ OwedOnce'
           /\ \A kind \in Kind, r \in Request : Told(kind, r)' <=> Told(kind, r)
<1>1. /\ handler'[h] = t
      /\ \A g \in Handler : g # h => handler'[g] = handler[g]
  BY OneMoves
<1>2. \A g \in Handler, kind \in Kind, r \in Request :
         Owes(handler'[g], kind, r) <=> Owes(handler[g], kind, r)
  BY <1>1
<1>3. \A kind \in Kind, r \in Request :
         /\ Announced(kind, r)' <=> Announced(kind, r)
         /\ Owed(kind, r)' <=> Owed(kind, r)
  BY <1>2 DEF Announced, Owed
<1> QED
  BY <1>2, <1>3 DEF OwedOnce, Told

\* A handler that owed nothing takes on the debt of an event nobody has told.
LEMMA NewDebt ==
    ASSUME TypeOK, OwedOnce, NEW h \in Handler, NEW t \in Task,
           handler' = [handler EXCEPT ![h] = t], UNCHANGED log,
           NEW k \in Kind, NEW q \in Request, ~Told(k, q),
           t.pc \in {"ensure", "announce"}, t.req = q, t.goal = k,
           \A kind \in Kind, r \in Request : ~Owes(handler[h], kind, r)
    PROVE  /\ OwedOnce'
           /\ \A kind \in Kind, r \in Request :
                 Told(kind, r)' <=> Told(kind, r) \/ (kind = k /\ r = q)
<1>1. /\ handler'[h] = t
      /\ \A g \in Handler : g # h => handler'[g] = handler[g]
  BY OneMoves
<1>2. \A kind \in Kind, r \in Request : Owes(t, kind, r) <=> kind = k /\ r = q
  BY DEF Owes
<1>3. \A g \in Handler, kind \in Kind, r \in Request :
         Owes(handler'[g], kind, r) <=>
            Owes(handler[g], kind, r) \/ (g = h /\ kind = k /\ r = q)
  BY <1>1, <1>2
<1>4. \A kind \in Kind, r \in Request :
         /\ Announced(kind, r)' <=> Announced(kind, r)
         /\ Owed(kind, r)' <=> Owed(kind, r) \/ (kind = k /\ r = q)
  BY <1>3 DEF Announced, Owed
<1>5. ~Announced(k, q) /\ \A g \in Handler : ~Owes(handler[g], k, q)
  BY DEF Told, Owed
<1>6. OwedOnce'
  <2>1. ASSUME NEW f \in Handler, NEW g \in Handler, NEW kind \in Kind, NEW r \in Request,
               Owes(handler'[f], kind, r), Owes(handler'[g], kind, r)
        PROVE  f = g
    BY <1>3, <1>5, <2>1 DEF OwedOnce
  <2>2. \A kind \in Kind, r \in Request : Owed(kind, r)' => ~Announced(kind, r)'
    BY <1>4, <1>5 DEF OwedOnce
  <2> QED
    BY <2>1, <2>2 DEF OwedOnce
<1> QED
  BY <1>4, <1>6 DEF Told

-----------------------------------------------------------------------------
\* The two reads of SendFriendRequest.
LEMMA FindIInv ==
    ASSUME IInv, NEW h \in Handler, FindReverse(h) \/ FindExisting(h)
    PROVE  IInv'
<1>1. TypeOK /\ Focused(handler[h])
  BY DEF IInv, Focus
<1>2. handler[h].pc \in {"reverse", "existing"} /\ handler[h] # Idle
  <2>1. handler[h].pc = "reverse" \/ handler[h].pc = "existing"
    BY Zenon DEF FindReverse, FindExisting
  <2> QED
    BY <2>1 DEF Idle
<1>3. handler[h] \in Task /\ \A r \in Request, kind \in Kind : ~Owes(handler[h], kind, r)
  BY <1>1, <1>2, Shape DEF Owes
<1>4. UNCHANGED <<requests, friendship, log, failed, crashes, overlapped>>
  BY DEF FindReverse, FindExisting
<1>5. failed' \subseteq Request /\ crashes' \in 0..MaxCrashes /\ overlapped' \in BOOLEAN
  BY <1>1, <1>4 DEF TypeOK
<1>6. CASE Goto(h, "existing") \/ Goto(h, "create")
  BY <1>2, <1>4, <1>6, QuietMove DEF Goto, Step
<1>7. CASE Done(h)
  BY <1>3, <1>4, <1>5, <1>7, QuietEnd DEF Kind
<1>8. ASSUME NEW r \in Request,
             handler' = [handler EXCEPT ![h].pc = "transition", ![h].req = r,
                                        ![h].goal = "accepted"]
      PROVE  IInv'
  <2> DEFINE t == [handler[h] EXCEPT !.pc = "transition", !.req = r, !.goal = "accepted"]
  <2>1. t \in Task /\ t.pc = "transition" /\ t.req = r /\ t.goal = "accepted"
    BY <1>3 DEF Task, Step, Goal
  <2>2. handler' = [handler EXCEPT ![h] = t]
    BY <1>8
  <2> HIDE DEF t
  <2>3. Focused(t) /\ \A q \in Request : ~Accepting(t, q) /\ \A kind \in Kind : ~Owes(t, kind, q)
    BY <2>1 DEF Focused, Accepting, Owes
  <2> QED
    BY <1>3, <1>4, <1>5, <2>1, <2>2, <2>3, QuietStep DEF Kind
<1>9. \/ Goto(h, "existing") \/ Goto(h, "create") \/ Done(h)
      \/ \E r \in Request :
            handler' = [handler EXCEPT ![h].pc = "transition", ![h].req = r,
                                       ![h].goal = "accepted"]
  BY DEF FindReverse, FindExisting, Reverse, Pending
<1> QED
  BY <1>6, <1>7, <1>8, <1>9

\* The insert of a request: it fails, or the event "created" is owed.
LEMMA CreateIInv ==
    ASSUME IInv, NEW h \in Handler, CreateRequest(h)
    PROVE  IInv'
<1>1. TypeOK /\ Focus /\ OwedOnce /\ Committed /\ Followed
  BY DEF IInv
<1>2. handler[h].pc = "create" /\ handler[h] # Idle
  BY DEF CreateRequest, Idle
<1>3. handler[h] \in Task /\ handler[h].goal = "created" /\ handler[h].me \in User
  BY <1>1, <1>2, Shape DEF Focus, Focused
<1>4. \A kind \in Kind, r \in Request : ~Owes(handler[h], kind, r)
  BY <1>2 DEF Owes
<1>5. /\ UNCHANGED <<friendship, log, failed, crashes, overlapped>>
      /\ failed \subseteq Request /\ crashes \in 0..MaxCrashes
  BY <1>1 DEF CreateRequest, TypeOK
<1>6. CASE Done(h) /\ UNCHANGED requests
  BY <1>4, <1>5, <1>6, QuietEnd DEF Kind
<1>7. ASSUME NEW q \in Request, requests[q] = NoRequest,
             requests' = [requests EXCEPT ![q] = [by |-> handler[h].me, status |-> "pending"]],
             handler' = [handler EXCEPT ![h].pc = "announce", ![h].req = q]
      PROVE  IInv'
  <2> DEFINE t == [handler[h] EXCEPT !.pc = "announce", !.req = q]
  <2>1. /\ t \in Task /\ t.pc = "announce" /\ t.req = q /\ t.goal = "created"
        /\ handler' = [handler EXCEPT ![h] = t]
    BY <1>3, <1>7 DEF Task, Step
  <2> HIDE DEF t
  <2>2. /\ handler' \in [Handler -> Task \cup {Idle}] /\ handler'[h] = t
        /\ \A g \in Handler : g # h => handler'[g] = handler[g]
    BY <1>1, <2>1, OneMoves
  <2>3. /\ requests' \in [Request -> Row] /\ requests'[q].status = "pending"
        /\ \A r \in Request : r # q => requests'[r] = requests[r]
    BY <1>1, <1>3, <1>7 DEF TypeOK, Row
  <2>4. requests[q].status = "none" /\ friendship # q /\ \A kind \in Kind : ~Told(kind, q)
    BY <1>1, <1>7 DEF NoRequest, Committed, Decided, Kind
  <2>5. /\ OwedOnce'
        /\ \A kind \in Kind, r \in Request :
              Told(kind, r)' <=> Told(kind, r) \/ (kind = "created" /\ r = q)
    <3>1. "created" \in Kind
      BY DEF Kind
    <3>2. ~Told("created", q) /\ UNCHANGED log /\ t.pc \in {"ensure", "announce"}
      BY <1>5, <2>1, <2>4, <3>1
    <3>3. TypeOK /\ OwedOnce
      BY <1>1
    <3> QED
      BY <1>4, <2>1, <3>1, <3>2, <3>3, NewDebt, ZenonT(60)
  <2>6. TypeOK'
    BY <1>1, <1>5, <2>2, <2>3 DEF TypeOK
  <2>7. Focus'
    <3>1. Focused(t)
      BY <2>1 DEF Focused, Kind
    <3> QED
      BY <1>1, <2>2, <3>1 DEF Focus
  <2>8. \A r \in Request : Decided(r) => Decided(r)'
    <3>1. \A g \in Handler, r \in Request : Accepting(handler'[g], r) => Accepting(handler[g], r)
      BY <2>1, <2>2 DEF Accepting
    <3>2. ~Decided(q)
      BY <2>4 DEF Decided
    <3> QED
      BY <2>3, <3>1, <3>2 DEF Decided
  <2>9. Committed'
    BY <1>1, <1>5, <2>3, <2>4, <2>5, <2>8 DEF Committed, Kind
  <2>10. Followed'
    BY <1>1, <1>5, <2>3, <2>5 DEF Followed, Kind
  <2> QED
    BY <2>5, <2>6, <2>7, <2>9, <2>10 DEF IInv
<1> QED
  BY <1>6, <1>7 DEF CreateRequest

\* The answer to a request: it comes too late, it rejects, or it accepts and the
\* event "accepted" is owed.
LEMMA TransitionIInv ==
    ASSUME IInv, NEW h \in Handler, Transition(h)
    PROVE  IInv'
<1>1. TypeOK /\ Focus /\ OwedOnce /\ Committed /\ Followed
  BY DEF IInv
<1>2. handler[h].pc = "transition" /\ handler[h] # Idle
  BY DEF Transition, Idle
<1> DEFINE q == handler[h].req
<1>3. /\ handler[h] \in Task /\ q \in Request
      /\ handler[h].goal \in {"accepted", "rejected"}
  BY <1>1, <1>2, Shape DEF Focus, Focused
<1>4. \A kind \in Kind, r \in Request : ~Owes(handler[h], kind, r)
  BY <1>2 DEF Owes
<1>5. /\ UNCHANGED <<friendship, log, failed, crashes, overlapped>>
      /\ failed \subseteq Request /\ crashes \in 0..MaxCrashes
  BY <1>1 DEF Transition, TypeOK
<1>6. CASE Done(h) /\ UNCHANGED requests
  BY <1>4, <1>5, <1>6, QuietEnd DEF Kind
<1>7. ASSUME requests[q].status = "pending",
             requests' = [requests EXCEPT ![q].status = handler[h].goal]
      PROVE  /\ requests' \in [Request -> Row] /\ requests'[q].status = handler[h].goal
             /\ \A r \in Request : r # q => requests'[r] = requests[r]
             /\ friendship # q /\ ~Told("accepted", q) /\ ~Told("removed", q)
  <2>1. requests[q] \in [by : User, status : {"pending", "accepted", "rejected"}]
    BY <1>1, <1>3, <1>7 DEF TypeOK, Row, NoRequest
  <2>2. [requests[q] EXCEPT !.status = handler[h].goal] \in Row
    BY <1>3, <2>1 DEF Row
  <2>3. requests' = [requests EXCEPT ![q] = [requests[q] EXCEPT !.status = handler[h].goal]]
    BY <1>7
  <2>4. requests'[q] = [requests[q] EXCEPT !.status = handler[h].goal]
    BY <1>1, <1>3, <2>3 DEF TypeOK
  <2>5. friendship # q /\ ~Told("accepted", q) /\ ~Told("removed", q)
    BY <1>1, <1>3, <1>7 DEF Committed, Decided
  <2> QED
    BY <1>1, <1>3, <2>1, <2>2, <2>3, <2>4, <2>5 DEF TypeOK
<1> HIDE DEF q
<1>8. CASE /\ requests[q].status = "pending" /\ handler[h].goal = "rejected"
           /\ requests' = [requests EXCEPT ![q].status = handler[h].goal] /\ Done(h)
  <2>1. handler' = [handler EXCEPT ![h] = Idle]
    BY <1>8 DEF Done
  <2>2. /\ handler' \in [Handler -> Task \cup {Idle}] /\ handler'[h] = Idle
        /\ \A g \in Handler : g # h => handler'[g] = handler[g]
    BY <1>1, <2>1, OneMoves
  <2>3. OwedOnce' /\ \A kind \in Kind, r \in Request : Told(kind, r)' <=> Told(kind, r)
    <3>1. Idle \in Task \cup {Idle}
      OBVIOUS
    <3> QED
      BY <1>1, <1>4, <1>5, <2>1, <3>1, IdleOwesNothing, SameDebts
  <2>4. TypeOK'
    BY <1>1, <1>5, <1>7, <1>8, <2>2 DEF TypeOK
  <2>5. Focus'
    BY <1>1, <2>2, IdleOwesNothing DEF Focus
  <2>6. \A r \in Request : r # q /\ Decided(r) => Decided(r)'
    <3>1. \A g \in Handler, r \in Request : Accepting(handler'[g], r) => Accepting(handler[g], r)
      BY <2>2, IdleOwesNothing
    <3> QED
      BY <1>7, <1>8, <3>1 DEF Decided
  <2>7. Committed'
    BY <1>1, <1>5, <1>7, <1>8, <2>3, <2>6 DEF Committed, Kind
  <2>8. Followed'
    BY <1>1, <1>5, <1>7, <1>8, <2>3 DEF Followed, Kind
  <2> QED
    BY <2>3, <2>4, <2>5, <2>7, <2>8 DEF IInv
<1>9. CASE /\ requests[q].status = "pending" /\ handler[h].goal = "accepted"
           /\ requests' = [requests EXCEPT ![q].status = handler[h].goal] /\ Goto(h, "ensure")
  <2> DEFINE t == [handler[h] EXCEPT !.pc = "ensure"]
  <2>1. /\ t \in Task /\ t.pc = "ensure" /\ t.req = q /\ t.goal = "accepted"
        /\ handler' = [handler EXCEPT ![h] = t]
    BY <1>3, <1>9 DEF Task, Step, Goto, q
  <2> HIDE DEF t
  <2>2. /\ handler' \in [Handler -> Task \cup {Idle}] /\ handler'[h] = t
        /\ \A g \in Handler : g # h => handler'[g] = handler[g]
    BY <1>1, <2>1, OneMoves
  <2>3. /\ OwedOnce'
        /\ \A kind \in Kind, r \in Request :
              Told(kind, r)' <=> Told(kind, r) \/ (kind = "accepted" /\ r = q)
    <3>1. "accepted" \in Kind
      BY DEF Kind
    <3>2. q \in Request /\ ~Told("accepted", q)
      BY <1>3, <1>7, <1>9 DEF q
    <3>3. TypeOK /\ OwedOnce /\ UNCHANGED log /\ t.pc \in {"ensure", "announce"}
      BY <1>1, <1>5, <2>1
    <3> QED
      BY <1>4, <2>1, <3>1, <3>2, <3>3, NewDebt, ZenonT(60)
  <2>4. TypeOK'
    BY <1>1, <1>5, <1>7, <1>9, <2>2 DEF TypeOK
  <2>5. Focus'
    <3>1. Focused(t)
      BY <1>3, <2>1 DEF Focused
    <3> QED
      BY <1>1, <2>2, <3>1 DEF Focus
  <2>6. \A r \in Request : r # q /\ Decided(r) => Decided(r)'
    <3>1. \A g \in Handler, r \in Request :
             r # q /\ Accepting(handler'[g], r) => Accepting(handler[g], r)
      BY <2>1, <2>2 DEF Accepting
    <3> QED
      BY <1>7, <1>9, <3>1 DEF Decided
  <2>7. Committed'
    BY <1>1, <1>5, <1>7, <1>9, <2>3, <2>6 DEF Committed, Kind
  <2>8. Followed'
    BY <1>1, <1>5, <1>7, <1>9, <2>3 DEF Followed, Kind
  <2> QED
    BY <2>3, <2>4, <2>5, <2>7, <2>8 DEF IInv
<1>10. \/ Done(h) /\ UNCHANGED requests
       \/ /\ requests[q].status = "pending"
          /\ requests' = [requests EXCEPT ![q].status = handler[h].goal]
          /\ \/ handler[h].goal = "rejected" /\ Done(h)
             \/ handler[h].goal = "accepted" /\ Goto(h, "ensure")
  BY <1>3 DEF Transition, Answerable, After, q
<1> QED
  BY <1>6, <1>8, <1>9, <1>10

\* The insert of the friendship, in vain if the pair is friends already.
LEMMA EnsureIInv ==
    ASSUME IInv, NEW h \in Handler, Ensure(h)
    PROVE  IInv'
<1>1. TypeOK /\ Focus /\ OwedOnce /\ Committed /\ Followed
  BY DEF IInv
<1>2. handler[h].pc = "ensure" /\ handler[h] # Idle
  BY DEF Ensure, Idle
<1>3. PICK q \in Request : handler[h] \in Task /\ handler[h].req = q /\ handler[h].goal = "accepted"
  BY <1>1, <1>2, Shape DEF Focus, Focused
<1>4. /\ UNCHANGED <<requests, log, failed, crashes, overlapped>>
      /\ failed \subseteq Request /\ crashes \in 0..MaxCrashes
  BY <1>1 DEF Ensure, TypeOK
<1>5. CASE Goto(h, "reselect") /\ UNCHANGED friendship
  BY <1>2, <1>4, <1>5, QuietMove DEF Goto, Step
<1>6. CASE Goto(h, "announce") /\ friendship' = q
  <2> DEFINE t == [handler[h] EXCEPT !.pc = "announce"]
  <2>1. /\ t \in Task /\ t.pc = "announce" /\ t.req = q /\ t.goal = "accepted"
        /\ handler' = [handler EXCEPT ![h] = t]
    BY <1>3, <1>6 DEF Task, Step, Goto
  <2> HIDE DEF t
  <2>2. /\ handler' \in [Handler -> Task \cup {Idle}] /\ handler'[h] = t
        /\ \A g \in Handler : g # h => handler'[g] = handler[g]
    BY <1>1, <2>1, OneMoves
  <2>3. OwedOnce' /\ \A kind \in Kind, r \in Request : Told(kind, r)' <=> Told(kind, r)
    <3>1. \A kind \in Kind, r \in Request : Owes(t, kind, r) <=> Owes(handler[h], kind, r)
      BY <1>2, <1>3, <2>1 DEF Owes
    <3> QED
      BY <1>1, <1>4, <2>1, <3>1, SameDebts
  <2>4. TypeOK'
    BY <1>1, <1>3, <1>4, <1>6, <2>2 DEF TypeOK
  <2>5. Focus'
    <3>1. Focused(t)
      BY <1>3, <2>1 DEF Focused, Kind
    <3> QED
      BY <1>1, <2>2, <3>1 DEF Focus
  <2>6. ASSUME NEW g \in Handler, NEW r \in Request, Accepting(handler'[g], r)
        PROVE  g # h /\ Accepting(handler[g], r)
    BY <2>1, <2>2, <2>6 DEF Accepting
  <2>7. Decided(q)'
    <3>1. Owes(handler[h], "accepted", q) /\ requests[q].status = "accepted"
      BY <1>1, <1>2, <1>3 DEF Owes, Committed, Told, Owed
    <3>2. ASSUME NEW g \in Handler, Accepting(handler'[g], q) PROVE FALSE
      <4>1. g # h /\ Accepting(handler[g], q)
        BY <1>3, <2>6, <3>2
      <4>2. Owes(handler[g], "accepted", q)
        BY <1>1, <4>1 DEF Focus, Focused, Accepting, Owes
      <4> QED
        BY <1>1, <1>3, <3>1, <4>1, <4>2 DEF OwedOnce, Kind
    <3> QED
      BY <1>4, <3>1, <3>2 DEF Decided
  <2>8. ~Decided(q)
    BY <1>2, <1>3 DEF Decided, Accepting
  <2>9. \A r \in Request : Decided(r) => Decided(r)'
    BY <1>4, <2>6 DEF Decided
  <2>10. Committed'
    BY <1>1, <1>3, <1>4, <1>6, <2>3, <2>7, <2>8, <2>9 DEF Committed, Kind
  <2>11. Followed'
    BY <1>1, <1>4, <2>3 DEF Followed, Kind
  <2> QED
    BY <2>3, <2>4, <2>5, <2>10, <2>11 DEF IInv
<1> QED
  BY <1>3, <1>5, <1>6 DEF Ensure

\* The row the insert conflicted with is found, or its loss fails the handler.
LEMMA ReselectIInv ==
    ASSUME IInv, NEW h \in Handler, Reselect(h)
    PROVE  IInv'
<1>1. TypeOK /\ Focused(handler[h])
  BY DEF IInv, Focus
<1>2. handler[h].pc = "reselect" /\ handler[h] # Idle
  BY DEF Reselect, Idle
<1>3. handler[h].req \in Request
  BY <1>1, <1>2 DEF Focused
<1>4. UNCHANGED <<requests, friendship, log, crashes, overlapped>> /\ crashes \in 0..MaxCrashes
  BY <1>1 DEF Reselect, TypeOK
<1>5. CASE Goto(h, "announce") /\ UNCHANGED failed
  BY <1>2, <1>4, <1>5, QuietMove DEF Goto, Step
<1>6. CASE Done(h) /\ failed' = failed \cup {handler[h].req}
  <2>1. failed \subseteq failed' /\ failed' \subseteq Request
    BY <1>1, <1>3, <1>6 DEF TypeOK
  <2>2. \A r \in Request : Owes(handler[h], "accepted", r) => r \in failed'
    BY <1>6 DEF Owes
  <2> QED
    BY <1>4, <1>6, <2>1, <2>2, QuietEnd
<1> QED
  BY <1>5, <1>6 DEF Reselect

\* The publish: the debt is paid, or lost.
LEMMA AnnounceIInv ==
    ASSUME IInv, NEW h \in Handler, Announce(h)
    PROVE  IInv'
<1>1. TypeOK /\ Focus /\ OwedOnce /\ Committed /\ Followed
  BY DEF IInv
<1>2. handler[h].pc = "announce" /\ handler[h] # Idle
  BY DEF Announce, Idle
<1> DEFINE q == handler[h].req
           k == handler[h].goal
<1>3. handler[h] \in Task /\ q \in Request /\ k \in Kind
  BY <1>1, <1>2, Shape DEF Focus, Focused
<1>4. Done(h) /\ UNCHANGED <<requests, friendship, overlapped>>
  BY DEF Announce
<1>5. \A kind \in Kind, r \in Request : Owes(handler[h], kind, r) <=> kind = k /\ r = q
  BY <1>2 DEF Owes
<1>6. CASE Crash /\ failed' = failed \cup {q} /\ UNCHANGED log
  <2>1. failed \subseteq failed' /\ failed' \subseteq Request
    BY <1>1, <1>3, <1>6 DEF TypeOK
  <2>2. \A r \in Request : Owes(handler[h], "accepted", r) => r \in failed'
    BY <1>6 DEF Owes
  <2>3. crashes' \in 0..MaxCrashes
    BY <1>1, <1>6, CrashBounded
  <2> QED
    BY <1>4, <1>6, <2>1, <2>2, <2>3, QuietEnd
<1>7. CASE log' = Append(log, [kind |-> k, req |-> q]) /\ UNCHANGED <<failed, crashes>>
  <2> HIDE DEF q, k
  <2>1. handler' = [handler EXCEPT ![h] = Idle]
    BY <1>4 DEF Done
  <2>2. /\ handler' \in [Handler -> Task \cup {Idle}] /\ handler'[h] = Idle
        /\ \A g \in Handler : g # h => handler'[g] = handler[g]
    BY <1>1, <2>1, OneMoves
  <2>3. log \in Seq(Event) /\ [kind |-> k, req |-> q] \in Event
    BY <1>1, <1>3 DEF TypeOK, Event, Kind
  <2>4. \A kind \in Kind, r \in Request :
           Announced(kind, r)' <=> Announced(kind, r) \/ (kind = k /\ r = q)
    <3> SUFFICES ASSUME NEW kind \in Kind, NEW r \in Request
                 PROVE  Announced(kind, r)' <=> Announced(kind, r) \/ (kind = k /\ r = q)
      OBVIOUS
    <3>1. [kind |-> kind, req |-> r] \in Event
      BY DEF Event, Kind
    <3>2. [kind |-> kind, req |-> r] = [kind |-> k, req |-> q] <=> kind = k /\ r = q
      OBVIOUS
    <3> DEFINE e == [kind |-> k, req |-> q]
               f == [kind |-> kind, req |-> r]
    <3> HIDE DEF e, f
    <3>3. (\E i \in DOMAIN log' : log'[i] = f) <=> (f = e \/ \E i \in DOMAIN log : log[i] = f)
      <4>1. log' = Append(log, e) /\ e \in Event /\ f \in Event
        BY <1>7, <2>3, <3>1 DEF e, f
      <4> QED
        BY <2>3, <4>1, AppendAnnounces
    <3>4. (Announced(kind, r) <=> \E i \in DOMAIN log : log[i] = f)
          /\ (Announced(kind, r)' <=> \E i \in DOMAIN log' : log'[i] = f)
      BY DEF Announced, f
    <3> QED
      BY <3>2, <3>3, <3>4 DEF e, f
  <2>5. \A g \in Handler, kind \in Kind, r \in Request :
           Owes(handler'[g], kind, r) <=> g # h /\ Owes(handler[g], kind, r)
    BY <2>2, IdleOwesNothing
  <2>6. Owes(handler[h], k, q) /\ ~Announced(k, q)
    BY <1>1, <1>3, <1>5 DEF OwedOnce, Owed
  <2>7. OwedOnce'
    <3>1. \A f, g \in Handler, kind \in Kind, r \in Request :
             Owes(handler'[f], kind, r) /\ Owes(handler'[g], kind, r) => f = g
      BY <1>1, <2>5 DEF OwedOnce
    <3>2. ASSUME NEW kind \in Kind, NEW r \in Request, Owed(kind, r)'
          PROVE  ~Announced(kind, r)'
      <4>1. PICK g \in Handler : g # h /\ Owes(handler[g], kind, r)
        BY <2>5, <3>2 DEF Owed
      <4>2. ~(kind = k /\ r = q)
        BY <1>1, <1>3, <2>6, <4>1 DEF OwedOnce
      <4>3. ~Announced(kind, r)
        BY <1>1, <4>1 DEF OwedOnce, Owed
      <4> QED
        BY <2>4, <4>2, <4>3
    <3>3. \A i, j \in DOMAIN log' : log'[i] = log'[j] => i = j
      <4>1. \A i \in DOMAIN log : log[i] # [kind |-> k, req |-> q]
        BY <2>6 DEF Announced
      <4>2. \A i, j \in DOMAIN log : log[i] = log[j] => i = j
        BY <1>1 DEF OwedOnce
      <4> QED
        BY <1>7, <2>3, <4>1, <4>2, AppendAnnounces
    <3> QED
      BY <3>1, <3>2, <3>3 DEF OwedOnce
  <2>8. \A kind \in Kind, r \in Request : Told(kind, r)' <=> Told(kind, r)
    <3> SUFFICES ASSUME NEW kind \in Kind, NEW r \in Request
                 PROVE  Told(kind, r)' <=> Told(kind, r)
      OBVIOUS
    <3>1. Owed(kind, r) <=> Owed(kind, r)' \/ (kind = k /\ r = q)
      BY <1>5, <2>5 DEF Owed
    <3> QED
      BY <2>4, <3>1 DEF Told
  <2>9. TypeOK'
    BY <1>1, <1>4, <1>7, <2>2, <2>3 DEF TypeOK
  <2>10. Focus'
    BY <1>1, <2>2, IdleOwesNothing DEF Focus
  <2>11. \A r \in Request : Decided(r) => Decided(r)'
    BY <1>4, <2>2, IdleOwesNothing DEF Decided
  <2>12. Committed' /\ Followed'
    BY <1>1, <1>4, <1>7, <2>8, <2>11 DEF Committed, Followed, Kind
  <2> QED
    BY <2>7, <2>9, <2>10, <2>12 DEF IInv
<1> QED
  BY <1>6, <1>7 DEF Announce

\* A death: an acceptance the handler owed is recorded as failed.
LEMMA DieIInv ==
    ASSUME IInv, NEW h \in Handler, Die(h)
    PROVE  IInv'
<1>1. TypeOK
  BY DEF IInv
<1>2. handler[h].req \in Request \cup {None}
  BY <1>1, Shape DEF Die
<1>3. failed \subseteq failed' /\ failed' \subseteq Request
  BY <1>1, <1>2 DEF Die, TypeOK
<1>4. \A r \in Request : Owes(handler[h], "accepted", r) => r \in failed'
  BY RequestAssumption DEF Owes, Die
<1>5. crashes' \in 0..MaxCrashes
  BY <1>1, CrashBounded DEF Die
<1> QED
  BY <1>3, <1>4, <1>5, QuietEnd DEF Die

\* A removal: the friendship is gone, and its event is owed.
LEMMA RemoveIInv ==
    ASSUME IInv, NEW h \in Handler, NEW u \in User, RemoveFriend(h, u)
    PROVE  IInv'
<1>1. TypeOK /\ Focus /\ OwedOnce /\ Committed /\ Followed
  BY DEF IInv
<1> DEFINE q == friendship
           t == [pc |-> "announce", me |-> u, req |-> q, goal |-> "removed"]
<1>2. /\ q \in Request /\ friendship' = None
      /\ handler[h] = Idle /\ handler' = [handler EXCEPT ![h] = t]
      /\ UNCHANGED <<requests, log, failed, crashes>>
  BY <1>1 DEF RemoveFriend, Removed, AreFriends, Start, TypeOK
<1>3. overlapped' \in BOOLEAN
  BY <1>1 DEF RemoveFriend, Start, TypeOK
<1>4. t \in Task /\ t.pc = "announce" /\ t.req = q /\ t.goal = "removed"
  BY <1>2 DEF Task, Step, Goal
<1> HIDE DEF t, q
<1>5. /\ handler' \in [Handler -> Task \cup {Idle}] /\ handler'[h] = t
      /\ \A g \in Handler : g # h => handler'[g] = handler[g]
  BY <1>1, <1>2, <1>4, OneMoves
<1>6. Decided(q) /\ ~Told("removed", q) /\ "removed" \in Kind
  BY <1>1, <1>2 DEF Committed, Kind, q
<1>7. /\ OwedOnce'
      /\ \A kind \in Kind, r \in Request :
            Told(kind, r)' <=> Told(kind, r) \/ (kind = "removed" /\ r = q)
  <2>1. TypeOK /\ OwedOnce /\ UNCHANGED log /\ t.pc \in {"ensure", "announce"} /\ ~Told("removed", q)
    BY <1>1, <1>2, <1>4, <1>6
  <2>2. \A kind \in Kind, r \in Request : ~Owes(handler[h], kind, r)
    BY <1>2, IdleOwesNothing
  <2> QED
    BY <1>2, <1>4, <1>6, <2>1, <2>2, NewDebt, ZenonT(60)
<1>8. TypeOK'
  BY <1>1, <1>2, <1>3, <1>5 DEF TypeOK
<1>9. Focus'
  <2>1. Focused(t)
    BY <1>2, <1>4, <1>6 DEF Focused
  <2> QED
    BY <1>1, <1>5, <2>1 DEF Focus
<1>10. \A r \in Request : Decided(r) => Decided(r)'
  <2>1. \A g \in Handler, r \in Request : Accepting(handler'[g], r) => Accepting(handler[g], r)
    BY <1>4, <1>5 DEF Accepting
  <2> QED
    BY <1>2, <2>1 DEF Decided
<1>11. \A r \in Request : friendship' # r
  BY <1>2, RequestAssumption
<1>12. Committed'
  BY <1>1, <1>2, <1>6, <1>7, <1>10, <1>11 DEF Committed, Kind
<1>13. Followed'
  BY <1>1, <1>2, <1>7 DEF Followed, Kind
<1> QED
  BY <1>7, <1>8, <1>9, <1>12, <1>13 DEF IInv

LEMMA StepIInv == IInv /\ [Next]_vars => IInv'
<1> SUFFICES ASSUME IInv, [Next]_vars PROVE IInv'
  OBVIOUS
<1>1. CASE UNCHANGED vars
  <2>1. UNCHANGED <<requests, friendship, handler, log, failed, crashes, overlapped>>
    BY <1>1 DEF vars
  <2>2. \A kind, r : Announced(kind, r)' <=> Announced(kind, r)
    BY <2>1 DEF Announced
  <2>3. \A kind, r : Owed(kind, r)' <=> Owed(kind, r)
    BY <2>1 DEF Owed
  <2>4. \A kind, r : Told(kind, r)' <=> Told(kind, r)
    BY <2>2, <2>3 DEF Told
  <2>5. \A r : Decided(r)' <=> Decided(r)
    BY <2>1 DEF Decided
  <2>6. TypeOK' /\ Focus'
    BY <2>1 DEF IInv, TypeOK, Focus
  <2>7. OwedOnce'
    BY <2>1, <2>2, <2>3 DEF IInv, OwedOnce
  <2>8. Committed' /\ Followed'
    BY <2>1, <2>4, <2>5 DEF IInv, Committed, Followed
  <2> QED
    BY <2>6, <2>7, <2>8 DEF IInv
<1>2. ASSUME NEW h \in Handler, Begin(h) PROVE IInv'
  <2>1. PICK u \in User :
           \/ SendFriendRequest(h, u) \/ RemoveFriend(h, u)
           \/ \E r \in Request : AcceptFriendRequest(h, u, r) \/ RejectFriendRequest(h, u, r)
    BY <1>2 DEF Begin
  <2>2. CASE SendFriendRequest(h, u)
    BY <2>2, StartIInv DEF SendFriendRequest, Step, Goal
  <2>3. CASE RemoveFriend(h, u)
    BY <2>3, RemoveIInv
  <2>4. ASSUME NEW r \in Request, AcceptFriendRequest(h, u, r) \/ RejectFriendRequest(h, u, r)
        PROVE  IInv'
    BY <2>4, StartIInv DEF AcceptFriendRequest, RejectFriendRequest, Respond, Step, Goal
  <2> QED
    BY <2>1, <2>2, <2>3, <2>4
<1>3. ASSUME NEW h \in Handler, Proceed(h) PROVE IInv'
  BY <1>3, FindIInv, CreateIInv, TransitionIInv, EnsureIInv, ReselectIInv, AnnounceIInv DEF Proceed
<1>4. ASSUME NEW h \in Handler, Die(h) PROVE IInv'
  BY <1>4, DieIInv
<1> QED
  BY <1>1, <1>2, <1>3, <1>4 DEF Next

\* The inductive invariant holds throughout.
THEOREM Invariant == Spec => []IInv
  BY InitIInv, StepIInv, PTL DEF Spec

\* The type invariant: every handler in flight is at a step of its code, with
\* the fields that step reads.
THEOREM TypeCorrect == Spec => []TypeOK
<1>1. IInv => TypeOK
  BY DEF IInv
<1> QED
  BY <1>1, Invariant, PTL

\* AC-E1, AC-E2, AC-E4, AC-E5: no event is emitted twice or before its commit,
\* and an acceptance whose handler came through is announced.
THEOREM AnnouncedOnceHolds == Spec => []AnnouncedOnce
<1>1. IInv => AnnouncedOnce
  <2> SUFFICES ASSUME IInv PROVE AnnouncedOnce
    OBVIOUS
  <2>1. OwedOnce /\ Committed /\ Followed
    BY DEF IInv
  <2>2. \A r \in Request :
           /\ Announced("created", r) => requests[r].status # "none"
           /\ Announced("accepted", r) => requests[r].status = "accepted"
           /\ Announced("removed", r) => requests[r].status = "accepted" /\ friendship # r
    BY <2>1 DEF Committed, Told, Decided
  <2>3. ASSUME Quiet, NEW r \in Request, r \notin failed, requests[r].status = "accepted"
        PROVE  Announced("accepted", r)
    <3>1. ~Owed("accepted", r)
      BY <2>3, IdleOwesNothing DEF Quiet, Owed, Kind
    <3> QED
      BY <2>1, <2>3, <3>1 DEF Followed, Told
  <2> QED
    BY <2>1, <2>2, <2>3 DEF AnnouncedOnce, OwedOnce
<1> QED
  BY <1>1, Invariant, PTL

-----------------------------------------------------------------------------
\* An acceptance is due as long as a handler is accepting.
LEMMA DueIsAccepting ==
    /\ Due = {r \in Request : \E g \in Handler : Accepting(handler[g], r)}
    /\ Due' = {r \in Request : \E g \in Handler : Accepting(handler'[g], r)}
  BY DEF Due, Accepting

\* Two handlers never accept the same request.
LEMMA AcceptedByOne ==
    ASSUME IInv, NEW g \in Handler, NEW h \in Handler, NEW r \in Request,
           Accepting(handler[g], r), Accepting(handler[h], r)
    PROVE  g = h
<1>1. Focused(handler[g]) /\ Focused(handler[h]) /\ OwedOnce
  BY DEF IInv, Focus
<1>2. Owes(handler[g], "accepted", r) /\ Owes(handler[h], "accepted", r)
  BY <1>1 DEF Focused, Accepting, Owes
<1> QED
  BY <1>1, <1>2 DEF OwedOnce, Kind

\* A step that moves no handler into or out of an acceptance leaves Due alone.
LEMMA DueSame ==
    ASSUME TypeOK, NEW h \in Handler, NEW t \in Task \cup {Idle},
           handler' = [handler EXCEPT ![h] = t],
           \A r \in Request : Accepting(t, r) <=> Accepting(handler[h], r)
    PROVE  UNCHANGED Due
<1>1. handler'[h] = t /\ \A g \in Handler : g # h => handler'[g] = handler[g]
  BY OneMoves
<1> QED
  BY <1>1, DueIsAccepting

\* The acceptance of q becomes due.
LEMMA DueMore ==
    ASSUME TypeOK, NEW h \in Handler, NEW t \in Task, NEW q \in Request,
           handler' = [handler EXCEPT ![h] = t],
           t.pc = "ensure", t.req = q, \A r \in Request : ~Accepting(handler[h], r)
    PROVE  Due' = Due \cup {q}
<1>1. handler'[h] = t /\ \A g \in Handler : g # h => handler'[g] = handler[g]
  BY OneMoves
<1>2. \A r \in Request : Accepting(t, r) <=> r = q
  BY DEF Accepting
<1> QED
  BY <1>1, <1>2, DueIsAccepting

\* The handler that was accepting q has taken it to its end.
LEMMA DueLess ==
    ASSUME IInv, NEW h \in Handler, NEW t \in Task \cup {Idle}, NEW q \in Request,
           handler' = [handler EXCEPT ![h] = t],
           handler[h].pc \in {"ensure", "reselect"}, handler[h].req = q,
           t.pc \in {"announce", "idle"}
    PROVE  q \in Due /\ Due' = Due \ {q}
<1>1. handler'[h] = t /\ \A g \in Handler : g # h => handler'[g] = handler[g]
  BY OneMoves DEF IInv
<1>2. \A r \in Request : ~Accepting(t, r) /\ (Accepting(handler[h], r) <=> r = q)
  BY DEF Accepting
<1>3. \A g \in Handler : g # h => ~Accepting(handler[g], q)
  BY <1>2, AcceptedByOne
<1> QED
  BY <1>1, <1>2, <1>3, DueIsAccepting

\* A handler on its way to no acceptance stays so: nothing the contract sees moves.
LEMMA StutterStep ==
    ASSUME TypeOK, NEW h \in Handler,
           UNCHANGED <<requests, friendship>>,
           handler[h].pc \notin {"ensure", "reselect"},
           \/ Done(h)
           \/ \E step \in {"existing", "create"} : handler[h] # Idle /\ Goto(h, step)
           \/ \E r \in Request :
                 /\ handler[h] # Idle
                 /\ handler' = [handler EXCEPT ![h].pc = "transition", ![h].req = r,
                                               ![h].goal = "accepted"]
    PROVE  UNCHANGED <<requests, Due, AreFriends>>
<1>1. ASSUME NEW t \in Task \cup {Idle}, t.pc \notin {"ensure", "reselect"},
             handler' = [handler EXCEPT ![h] = t]
      PROVE  UNCHANGED Due
  BY <1>1, DueSame DEF Accepting
<1>2. ASSUME Done(h) PROVE UNCHANGED Due
  BY <1>1, <1>2 DEF Done, Idle
<1>3. ASSUME NEW step \in {"existing", "create"}, handler[h] # Idle, Goto(h, step)
      PROVE  UNCHANGED Due
  <2>1. [handler[h] EXCEPT !.pc = step] \in Task /\ [handler[h] EXCEPT !.pc = step].pc = step
    BY <1>3, Shape DEF Task, Step
  <2> QED
    BY <1>1, <1>3, <2>1 DEF Goto
<1>4. ASSUME NEW r \in Request, handler[h] # Idle,
             handler' = [handler EXCEPT ![h].pc = "transition", ![h].req = r,
                                        ![h].goal = "accepted"]
      PROVE  UNCHANGED Due
  <2> DEFINE t == [handler[h] EXCEPT !.pc = "transition", !.req = r, !.goal = "accepted"]
  <2>1. t \in Task /\ t.pc = "transition" /\ handler' = [handler EXCEPT ![h] = t]
    BY <1>4, Shape DEF Task, Step, Goal
  <2> HIDE DEF t
  <2> QED
    BY <1>1, <2>1
<1>5. UNCHANGED Due
  BY <1>2, <1>3, <1>4
<1> QED
  BY <1>5 DEF AreFriends

-----------------------------------------------------------------------------
ContractStep == [Contract!Next]_<<requests, Due, AreFriends>>

\* A handler starts: the contract sees nothing, or the end of the friendship.
LEMMA BeginRefines ==
    ASSUME IInv, NEW h \in Handler, Begin(h)
    PROVE  ContractStep
<1>1. TypeOK
  BY DEF IInv
<1>2. ASSUME NEW step \in {"reverse", "transition", "announce"}, NEW u \in User,
             NEW r \in Request \cup {None}, NEW goal \in Goal, Start(h, step, u, r, goal)
      PROVE  UNCHANGED <<requests, Due>>
  <2> DEFINE t == [pc |-> step, me |-> u, req |-> r, goal |-> goal]
  <2>1. t \in Task /\ t.pc = step
    BY DEF Task, Step
  <2>2. /\ handler[h] = Idle /\ handler' = [handler EXCEPT ![h] = t]
        /\ UNCHANGED requests
    BY <1>2 DEF Start
  <2>3. \A q \in Request : ~Accepting(t, q) /\ ~Accepting(handler[h], q)
    BY <2>2, IdleOwesNothing DEF Accepting
  <2> HIDE DEF t
  <2> QED
    BY <1>1, <2>1, <2>2, <2>3, DueSame
<1>3. PICK u \in User :
         \/ SendFriendRequest(h, u) \/ RemoveFriend(h, u)
         \/ \E r \in Request : AcceptFriendRequest(h, u, r) \/ RejectFriendRequest(h, u, r)
  BY DEF Begin
<1>4. CASE SendFriendRequest(h, u)
  BY <1>2, <1>4 DEF SendFriendRequest, Goal, ContractStep, AreFriends
<1>5. ASSUME NEW r \in Request, AcceptFriendRequest(h, u, r) \/ RejectFriendRequest(h, u, r)
      PROVE  ContractStep
  BY <1>2, <1>5 DEF AcceptFriendRequest, RejectFriendRequest, Respond, Goal, ContractStep, AreFriends
<1>6. CASE RemoveFriend(h, u)
  <2>1. UNCHANGED <<requests, Due>>
    BY <1>1, <1>2, <1>6 DEF RemoveFriend, Goal, TypeOK
  <2>2. AreFriends /\ AreFriends' = FALSE
    BY <1>6 DEF RemoveFriend, Removed, AreFriends
  <2>3. Contract!Unfriend
    BY <2>1, <2>2 DEF Contract!Unfriend
  <2> QED
    BY <2>3 DEF ContractStep, Contract!Next
<1> QED
  BY <1>3, <1>4, <1>5, <1>6

\* The insert of a request is a Send, or nothing.
LEMMA CreateRefines ==
    ASSUME IInv, NEW h \in Handler, CreateRequest(h)
    PROVE  ContractStep
<1>1. TypeOK /\ handler[h].pc = "create" /\ handler[h] # Idle
  BY DEF IInv, CreateRequest, Idle
<1>2. UNCHANGED friendship /\ handler[h] \in Task /\ handler[h].me \in User
  BY <1>1, Shape DEF CreateRequest
<1>3. CASE Done(h) /\ UNCHANGED requests
  BY <1>1, <1>2, <1>3, StutterStep DEF ContractStep
<1>4. ASSUME ~Conflicts(handler[h].me), NEW r \in Request, requests[r] = NoRequest,
             requests' = [requests EXCEPT ![r] = [by |-> handler[h].me, status |-> "pending"]],
             handler' = [handler EXCEPT ![h].pc = "announce", ![h].req = r]
      PROVE  ContractStep
  <2> DEFINE t == [handler[h] EXCEPT !.pc = "announce", !.req = r]
  <2>1. t \in Task /\ t.pc = "announce" /\ handler' = [handler EXCEPT ![h] = t]
    BY <1>2, <1>4 DEF Task, Step
  <2> HIDE DEF t
  <2>2. UNCHANGED <<Due, AreFriends>>
    BY <1>1, <1>2, <2>1, DueSame DEF Accepting, AreFriends
  <2>3. \A q \in Request : requests[q] # [by |-> handler[h].me, status |-> "pending"]
    BY <1>4 DEF Conflicts, Pending
  <2>4. Contract!Send(r, handler[h].me)
    BY <1>4, <2>2, <2>3 DEF Contract!Send
  <2> QED
    BY <1>2, <2>4 DEF ContractStep, Contract!Next
<1> QED
  BY <1>3, <1>4 DEF CreateRequest

\* The answer to a request is an Accept or a Reject, or comes too late.
LEMMA TransitionRefines ==
    ASSUME IInv, NEW h \in Handler, Transition(h)
    PROVE  ContractStep
<1>1. TypeOK /\ Focused(handler[h]) /\ handler[h].pc = "transition" /\ handler[h] # Idle
  BY DEF IInv, Focus, Transition, Idle
<1>2. PICK q \in Request : handler[h] \in Task /\ handler[h].req = q
  BY <1>1, Shape DEF Focused
<1>3. UNCHANGED <<friendship, AreFriends>> /\ handler[h].goal \in {"accepted", "rejected"}
  BY <1>1 DEF Transition, AreFriends, Focused
<1>4. CASE Done(h) /\ UNCHANGED requests
  BY <1>1, <1>3, <1>4, StutterStep DEF ContractStep
<1>5. CASE /\ requests[q].status = "pending" /\ Done(h)
           /\ requests' = [requests EXCEPT ![q].status = "rejected"]
  <2>1. \A r \in Request : Accepting(Idle, r) <=> Accepting(handler[h], r)
    BY <1>1 DEF Accepting, Idle
  <2>2. UNCHANGED Due
    BY <1>1, <1>5, <2>1, DueSame DEF Done
  <2>3. Contract!Reject(q)
    BY <1>3, <1>5, <2>2 DEF Contract!Reject
  <2> QED
    BY <2>3 DEF ContractStep, Contract!Next
<1>6. CASE /\ requests[q].status = "pending" /\ Goto(h, "ensure")
           /\ requests' = [requests EXCEPT ![q].status = "accepted"]
  <2> DEFINE t == [handler[h] EXCEPT !.pc = "ensure"]
  <2>1. /\ t \in Task /\ t.pc = "ensure" /\ t.req = q
        /\ handler' = [handler EXCEPT ![h] = t]
    BY <1>2, <1>6 DEF Task, Step, Goto
  <2> HIDE DEF t
  <2>2. Due' = Due \cup {q}
    BY <1>1, <2>1, DueMore DEF Accepting
  <2>3. Contract!Accept(q)
    BY <1>3, <1>6, <2>2 DEF Contract!Accept
  <2> QED
    BY <2>3 DEF ContractStep, Contract!Next
<1> QED
  BY <1>2, <1>3, <1>4, <1>5, <1>6 DEF Transition, Answerable, After

\* The friendship is inserted or found: Befriend; or its row is gone: Forget.
LEMMA EnsureRefines ==
    ASSUME IInv, NEW h \in Handler, Ensure(h) \/ Reselect(h)
    PROVE  ContractStep
<1>1. TypeOK /\ Focused(handler[h]) /\ handler[h].pc \in {"ensure", "reselect"} /\ handler[h] # Idle
  BY DEF IInv, Focus, Ensure, Reselect, Idle
<1>2. PICK q \in Request : handler[h] \in Task /\ handler[h].req = q
  BY <1>1, Shape DEF Focused
<1>3. UNCHANGED requests
  BY DEF Ensure, Reselect
<1>4. CASE Goto(h, "reselect") /\ UNCHANGED friendship
  <2> DEFINE t == [handler[h] EXCEPT !.pc = "reselect"]
  <2>1. /\ t \in Task /\ t.pc = "reselect" /\ t.req = q
        /\ handler' = [handler EXCEPT ![h] = t]
    BY <1>2, <1>4 DEF Task, Step, Goto
  <2> HIDE DEF t
  <2>2. \A r \in Request : Accepting(t, r) <=> Accepting(handler[h], r)
    BY <1>1, <1>2, <2>1 DEF Accepting
  <2>3. UNCHANGED Due
    BY <1>1, <2>1, <2>2, DueSame
  <2> QED
    BY <1>3, <1>4, <2>3 DEF ContractStep, AreFriends
<1>5. CASE Goto(h, "announce") /\ AreFriends'
  <2> DEFINE t == [handler[h] EXCEPT !.pc = "announce"]
  <2>1. /\ t \in Task /\ t.pc = "announce"
        /\ handler' = [handler EXCEPT ![h] = t]
    BY <1>2, <1>5 DEF Task, Step, Goto
  <2> HIDE DEF t
  <2>2. q \in Due /\ Due' = Due \ {q}
    BY <1>1, <1>2, <2>1, DueLess
  <2>3. AreFriends' = TRUE
    BY <1>5 DEF AreFriends
  <2>4. Contract!Befriend(q)
    BY <1>3, <2>2, <2>3 DEF Contract!Befriend
  <2> QED
    BY <2>4 DEF ContractStep, Contract!Next
<1>6. CASE Done(h) /\ UNCHANGED friendship
  <2>1. q \in Due /\ Due' = Due \ {q}
    BY <1>1, <1>2, <1>6, DueLess DEF Done, Idle
  <2>2. Contract!Forget(q)
    BY <1>3, <1>6, <2>1 DEF Contract!Forget, AreFriends
  <2> QED
    BY <2>2 DEF ContractStep, Contract!Next
<1> QED
  BY <1>2, <1>4, <1>5, <1>6, RequestAssumption DEF Ensure, Reselect, AreFriends

\* A death forgets the acceptance the handler was about to take to its end.
LEMMA DieRefines ==
    ASSUME IInv, NEW h \in Handler, Die(h)
    PROVE  ContractStep
<1>1. TypeOK /\ Focused(handler[h])
  BY DEF IInv, Focus
<1>2. Done(h) /\ UNCHANGED <<requests, friendship>>
  BY DEF Die
<1>3. CASE handler[h].pc \notin {"ensure", "reselect"}
  BY <1>1, <1>2, <1>3, StutterStep DEF ContractStep
<1>4. CASE handler[h].pc \in {"ensure", "reselect"}
  <2>1. PICK q \in Request : handler[h].req = q
    BY <1>1, <1>4 DEF Focused
  <2>2. q \in Due /\ Due' = Due \ {q}
    BY <1>2, <1>4, <2>1, DueLess DEF Done, Idle
  <2>3. Contract!Forget(q)
    BY <1>2, <2>2 DEF Contract!Forget, AreFriends
  <2> QED
    BY <2>3 DEF ContractStep, Contract!Next
<1> QED
  BY <1>3, <1>4

LEMMA StepRefines == IInv /\ [Next]_vars => ContractStep
<1> SUFFICES ASSUME IInv, [Next]_vars PROVE ContractStep
  OBVIOUS
<1>1. CASE UNCHANGED vars
  BY <1>1 DEF vars, ContractStep, Due, AreFriends
<1>2. ASSUME NEW h \in Handler, FindReverse(h) \/ FindExisting(h)
      PROVE  ContractStep
  <2>1. TypeOK
    BY DEF IInv
  <2>2. handler[h].pc = "reverse" \/ handler[h].pc = "existing"
    BY <1>2, Zenon DEF FindReverse, FindExisting
  <2>3. handler[h] # Idle /\ handler[h].pc \notin {"ensure", "reselect"}
    BY <2>2 DEF Idle
  <2>4. UNCHANGED <<requests, friendship>>
    BY <1>2 DEF FindReverse, FindExisting
  <2>5. \/ Goto(h, "existing") \/ Goto(h, "create") \/ Done(h)
        \/ \E r \in Request :
              handler' = [handler EXCEPT ![h].pc = "transition", ![h].req = r,
                                         ![h].goal = "accepted"]
    BY <1>2 DEF FindReverse, FindExisting, Reverse, Pending
  <2> QED
    BY <2>1, <2>3, <2>4, <2>5, StutterStep DEF ContractStep
<1>3. ASSUME NEW h \in Handler, Announce(h)
      PROVE  ContractStep
  BY <1>3, StutterStep DEF Announce, IInv, ContractStep
<1> QED
  BY <1>1, <1>2, <1>3, BeginRefines, CreateRefines, TransitionRefines, EnsureRefines, DieRefines
     DEF Next, Proceed

\* AC-R4, AC-R5, AC-S4: whatever handlers run at once and wherever they die, a
\* request is answered at most once, at most one per direction is pending, and
\* an acceptance makes the pair friends at most once.
THEOREM Implements == Spec => ImplementsBefriending
<1>1. Init => Contract!Init
  BY DEF Init, Contract!Init, Due, AreFriends, Idle
<1> QED
  BY <1>1, Invariant, StepRefines, PTL DEF Spec, ImplementsBefriending, Contract!Spec, ContractStep

-----------------------------------------------------------------------------
(* Handlers one after the other. *)

NonePending == \A r \in Request : requests[r].status # "pending"
OnePending == \A q, r \in Request :
    requests[q].status = "pending" /\ requests[r].status = "pending" => q = r

\* What holds between two handlers, and until a handler commits something.
Settled ==
    /\ OnePending
    /\ AreFriends => NonePending
    /\ AreFriends <=> NewestAccepts

\* How far a handler that is alone has got.
SerialAt(t) ==
    /\ t.pc \in {"idle", "reverse", "existing", "create", "transition"} => Settled
    /\ t.pc \in {"reverse", "existing", "create"} => ~AreFriends
    /\ t.pc = "existing" => Reverse(t.me) = {}
    /\ t.pc = "create" => NonePending
    /\ t.pc \in {"ensure", "reselect"} => NonePending /\ ~AreFriends /\ ~NewestAccepts
    /\ t.pc = "announce" /\ t.goal = "created" => Settled
    /\ t.pc = "announce" /\ t.goal = "accepted" => NonePending /\ AreFriends
    /\ t.pc = "announce" /\ t.goal = "removed" => NonePending /\ ~AreFriends

Serially ==
    ~overlapped /\ failed = {} =>
        /\ \A g, h \in Handler : handler[g] # Idle /\ handler[h] # Idle => g = h
        /\ \A h \in Handler : handler[h] # Idle => SerialAt(handler[h])
        /\ Quiet => Settled

\* The handler in flight is alone, and so is one that starts.
LEMMA Solo ==
    ASSUME Serially, ~overlapped, failed = {}, NEW h \in Handler, handler[h] # Idle
    PROVE  SerialAt(handler[h]) /\ \A g \in Handler : g # h => handler[g] = Idle
  BY DEF Serially

LEMMA SerialStep ==
    ASSUME TypeOK, NEW h \in Handler, NEW t \in Task \cup {Idle},
           handler' = [handler EXCEPT ![h] = t],
           \A g \in Handler : g # h => handler[g] = Idle,
           SerialAt(t)'
    PROVE  Serially'
<1>1. handler'[h] = t /\ \A g \in Handler : g # h => handler'[g] = Idle
  BY OneMoves
<1>2. Quiet' => t = Idle
  BY <1>1 DEF Quiet
<1>3. t = Idle => Settled'
  BY IdleOwesNothing DEF SerialAt
<1> QED BY <1>1, <1>2, <1>3 DEF Serially

\* While the tables and the log stay, what they say stays.
LEMMA SameTables ==
    ASSUME UNCHANGED <<requests, friendship, log>>
    PROVE  /\ NonePending' <=> NonePending
           /\ Settled' <=> Settled
           /\ AreFriends' <=> AreFriends
           /\ NewestAccepts' <=> NewestAccepts
           /\ \A u : Reverse(u)' = Reverse(u)
  BY DEF NonePending, OnePending, Settled, AreFriends, NewestAccepts, Reverse, Pending

\* A pending request belongs to somebody.
LEMMA PendingOf ==
    ASSUME TypeOK
    PROVE  /\ \A r \in Request : requests[r].status = "pending" =>
                 \E u \in User : r \in Pending(u)
           /\ \A u, r : r \in Pending(u) => r \in Request /\ requests[r].status = "pending"
                                           /\ requests[r].by = u
<1>1. \A r \in Request : requests[r] \in Row
  BY DEF TypeOK
<1>2. ASSUME NEW r \in Request, requests[r].status = "pending"
      PROVE  \E u \in User : r \in Pending(u)
  <2>1. requests[r] \in [by : User, status : {"pending", "accepted", "rejected"}]
    BY <1>1, <1>2 DEF Row, NoRequest
  <2>2. requests[r] = [by |-> requests[r].by, status |-> "pending"] /\ requests[r].by \in User
    BY <1>2, <2>1
  <2> QED BY <2>2 DEF Pending
<1>3. \A u, r : r \in Pending(u) => r \in Request /\ requests[r].status = "pending"
                                    /\ requests[r].by = u
  BY DEF Pending
<1> QED BY <1>2, <1>3

\* One more event in the log.
LEMMA NewestAppend ==
    ASSUME log \in Seq(Event), NEW e \in Event, log' = Append(log, e)
    PROVE  /\ e.kind = "accepted" => NewestAccepts'
           /\ e.kind = "removed" => ~NewestAccepts'
           /\ e.kind = "created" => (NewestAccepts' <=> NewestAccepts)
<1>1. /\ Len(log') = Len(log) + 1 /\ Len(log) \in Nat /\ log'[Len(log) + 1] = e
      /\ DOMAIN log' = 1..Len(log') /\ DOMAIN log = 1..Len(log)
      /\ \A i \in 1..Len(log) : log'[i] = log[i]
  OBVIOUS
<1>2. ASSUME e.kind = "accepted" PROVE NewestAccepts'
  <2>1. \A j \in DOMAIN log' : log'[j].kind = "removed" => j < Len(log) + 1
    BY <1>1, <1>2
  <2> QED BY <1>1, <1>2, <2>1 DEF NewestAccepts
<1>3. ASSUME e.kind = "removed", NewestAccepts' PROVE FALSE
  <2>1. PICK i \in DOMAIN log' :
          \A j \in DOMAIN log' : log'[j].kind = "removed" => j < i
    BY <1>3 DEF NewestAccepts
  <2> QED BY <1>1, <1>3, <2>1
<1>4. ASSUME e.kind = "created" PROVE NewestAccepts' <=> NewestAccepts
  <2>1. ASSUME NewestAccepts PROVE NewestAccepts'
    <3>1. PICK i \in DOMAIN log : log[i].kind = "accepted"
                                  /\ \A j \in DOMAIN log : log[j].kind = "removed" => j < i
      BY <2>1 DEF NewestAccepts
    <3>2. \A j \in DOMAIN log' : log'[j].kind = "removed" => j < i
      BY <1>1, <1>4, <3>1
    <3> QED BY <1>1, <3>1, <3>2 DEF NewestAccepts
  <2>2. ASSUME NewestAccepts' PROVE NewestAccepts
    <3>1. PICK i \in DOMAIN log' : log'[i].kind = "accepted"
                                   /\ \A j \in DOMAIN log' : log'[j].kind = "removed" => j < i
      BY <2>2 DEF NewestAccepts
    <3>2. i \in DOMAIN log
      BY <1>1, <1>4, <3>1
    <3>3. \A j \in DOMAIN log : log[j].kind = "removed" => j < i
      BY <1>1, <3>1
    <3> QED BY <1>1, <3>1, <3>2, <3>3 DEF NewestAccepts
  <2> QED BY <2>1, <2>2
<1> QED BY <1>2, <1>3, <1>4

-----------------------------------------------------------------------------
LEMMA InitSerially == Init => Serially
<1> SUFFICES ASSUME Init PROVE Serially
  OBVIOUS
<1>1. \A r \in Request : requests[r].status = "none"
  BY DEF Init, NoRequest
<1>2. ~AreFriends /\ ~NewestAccepts
  BY DEF Init, AreFriends, NewestAccepts
<1>3. Settled
  BY <1>1, <1>2 DEF Settled, OnePending, NonePending
<1> QED BY <1>3 DEF Serially, Init

\* A handler starts: unless another is in flight, the pair is settled.
LEMMA StartSerially ==
    ASSUME IInv, Serially, NEW h \in Handler, NEW step \in Step, NEW u \in User,
           NEW r \in Request \cup {None}, NEW goal \in Goal, Start(h, step, u, r, goal),
           ~overlapped', failed' = {}
    PROVE  /\ Settled /\ \A g \in Handler : g # h => handler[g] = Idle
           /\ [pc |-> step, me |-> u, req |-> r, goal |-> goal] \in Task
<1>1. ~overlapped /\ failed = {} /\ \A g \in Handler : handler[g] = Idle
  BY DEF Start
<1> QED BY <1>1 DEF Serially, Quiet, Task

LEMMA BeginSerially == ASSUME IInv, Serially, NEW h \in Handler, Begin(h) PROVE Serially'
<1> SUFFICES ASSUME ~overlapped', failed' = {} PROVE Serially'
  BY DEF Serially
<1>0. TypeOK
  BY DEF IInv
<1>1. ASSUME NEW u \in User, SendFriendRequest(h, u) PROVE Serially'
  <2> DEFINE t == [pc |-> "reverse", me |-> u, req |-> None, goal |-> "created"]
  <2>1. Settled /\ (\A g \in Handler : g # h => handler[g] = Idle) /\ t \in Task
    BY <1>1, StartSerially DEF SendFriendRequest, Step, Goal
  <2>2. ~AreFriends /\ UNCHANGED <<requests, friendship, log>> /\ handler' = [handler EXCEPT ![h] = t]
    BY <1>1 DEF SendFriendRequest, Start
  <2>3. SerialAt(t)'
    BY <2>1, <2>2, SameTables DEF SerialAt
  <2> HIDE DEF t
  <2> QED BY <1>0, <2>1, <2>2, <2>3, SerialStep
<1>2. ASSUME NEW u \in User, RemoveFriend(h, u) PROVE Serially'
  <2> DEFINE t == [pc |-> "announce", me |-> u, req |-> friendship, goal |-> "removed"]
  <2>0. friendship \in Request \cup {None}
    BY <1>0 DEF TypeOK
  <2>1. Settled /\ (\A g \in Handler : g # h => handler[g] = Idle) /\ t \in Task
    BY <1>2, <2>0, StartSerially DEF RemoveFriend, Step, Goal
  <2>2. /\ AreFriends /\ UNCHANGED <<requests, log>> /\ ~AreFriends'
        /\ handler' = [handler EXCEPT ![h] = t]
    BY <1>2 DEF RemoveFriend, Start, AreFriends, Removed
  <2>3. NonePending'
    BY <2>1, <2>2 DEF Settled, NonePending
  <2>4. PICK s \in Task : s = t
    BY <2>1
  <2>5. SerialAt(s)'
    BY <2>2, <2>3, <2>4 DEF SerialAt
  <2>6. handler' = [handler EXCEPT ![h] = s]
    BY <2>2, <2>4
  <2> QED BY <1>0, <2>1, <2>5, <2>6, SerialStep
<1>3. ASSUME NEW u \in User, NEW r \in Request, NEW goal \in {"accepted", "rejected"}, Respond(h, u, r, goal)
      PROVE  Serially'
  <2> DEFINE t == [pc |-> "transition", me |-> u, req |-> r, goal |-> goal]
  <2>1. Settled /\ (\A g \in Handler : g # h => handler[g] = Idle) /\ t \in Task
    BY <1>3, StartSerially DEF Respond, Step, Goal
  <2>2. UNCHANGED <<requests, friendship, log>> /\ handler' = [handler EXCEPT ![h] = t]
    BY <1>3 DEF Respond, Start
  <2>3. SerialAt(t)'
    BY <2>1, <2>2, SameTables DEF SerialAt
  <2> HIDE DEF t
  <2> QED BY <1>0, <2>1, <2>2, <2>3, SerialStep
<1> QED BY <1>1, <1>2, <1>3 DEF Begin, AcceptFriendRequest, RejectFriendRequest

\* What a step of a handler in flight may use.
LEMMA InFlight ==
    ASSUME IInv, Serially, NEW h \in Handler, handler[h].pc # "idle", ~overlapped, failed = {}
    PROVE  /\ handler[h] \in Task /\ handler[h] # Idle /\ Focused(handler[h])
           /\ SerialAt(handler[h]) /\ \A g \in Handler : g # h => handler[g] = Idle
  BY Shape, Solo DEF IInv, Focus

LEMMA FindSerially ==
    ASSUME IInv, Serially, NEW h \in Handler, FindReverse(h) \/ FindExisting(h) PROVE Serially'
<1> SUFFICES ASSUME ~overlapped', failed' = {} PROVE Serially'
  BY DEF Serially
<1>0. /\ TypeOK /\ ~overlapped /\ failed = {} /\ handler[h].pc \in {"reverse", "existing"}
      /\ UNCHANGED <<requests, friendship, log>>
  <2>1. TypeOK
    BY DEF IInv
  <2>2. CASE FindReverse(h)
    BY <2>1, <2>2 DEF FindReverse
  <2>3. CASE FindExisting(h)
    BY <2>1, <2>3 DEF FindExisting
  <2> QED BY <2>2, <2>3
<1>1. /\ handler[h] \in Task /\ SerialAt(handler[h])
      /\ \A g \in Handler : g # h => handler[g] = Idle
  BY <1>0, InFlight
<1>2. Settled' /\ ~AreFriends'
  BY <1>0, <1>1, SameTables DEF SerialAt
<1>3. ASSUME NEW t \in Task \cup {Idle}, handler' = [handler EXCEPT ![h] = t],
             t.pc \in {"idle", "existing", "create", "transition"},
             t.pc = "existing" => Reverse(t.me) = {}, t.pc = "create" => NonePending
      PROVE  Serially'
  <2>1. SerialAt(t)'
    BY <1>0, <1>2, <1>3, SameTables DEF SerialAt
  <2> QED BY <1>0, <1>1, <1>3, <2>1, SerialStep
<1>4. CASE FindReverse(h) /\ Reverse(handler[h].me) = {} /\ Goto(h, "existing")
  <2>1. PICK t \in Task : t = [handler[h] EXCEPT !.pc = "existing"]
    BY <1>1 DEF Task, Step
  <2>2. t.pc = "existing" /\ t.me = handler[h].me /\ handler' = [handler EXCEPT ![h] = t]
    BY <1>1, <1>4, <2>1 DEF Task, Goto
  <2> QED BY <1>3, <1>4, <2>2
<1>5. ASSUME NEW r \in Reverse(handler[h].me),
             handler' = [handler EXCEPT ![h].pc = "transition", ![h].req = r, ![h].goal = "accepted"]
      PROVE  Serially'
  <2>1. r \in Request
    BY DEF Reverse, Pending
  <2>2. PICK t \in Task : t = [handler[h] EXCEPT !.pc = "transition", !.req = r, !.goal = "accepted"]
    BY <1>1, <2>1 DEF Task, Step, Goal
  <2>3. t.pc = "transition"
    BY <1>1, <2>2 DEF Task
  <2>4. handler' = [handler EXCEPT ![h] = t]
    BY <1>0, <1>5, <2>2 DEF TypeOK
  <2> QED BY <1>3, <2>3, <2>4
<1>6. CASE FindExisting(h) /\ Pending(handler[h].me) # {} /\ Done(h)
  BY <1>3, <1>6, IdleOwesNothing DEF Done
<1>7. CASE FindExisting(h) /\ Pending(handler[h].me) = {} /\ Goto(h, "create")
  <2>1. PICK t \in Task : t = [handler[h] EXCEPT !.pc = "create"]
    BY <1>1 DEF Task, Step
  <2>2. t.pc = "create" /\ handler' = [handler EXCEPT ![h] = t]
    BY <1>1, <1>7, <2>1 DEF Task, Goto
  <2>3. Reverse(handler[h].me) = {}
    BY <1>1, <1>7 DEF SerialAt, FindExisting
  <2>4. NonePending
    <3>1. \A u \in User : Pending(u) = {}
      BY <1>7, <2>3 DEF Reverse
    <3> QED BY <1>0, <3>1, PendingOf DEF NonePending
  <2> QED BY <1>3, <2>2, <2>4
<1> QED BY <1>4, <1>5, <1>6, <1>7 DEF FindReverse, FindExisting

LEMMA CreateSerially ==
    ASSUME IInv, Serially, NEW h \in Handler, CreateRequest(h) PROVE Serially'
<1> SUFFICES ASSUME ~overlapped', failed' = {} PROVE Serially'
  BY DEF Serially
<1>0. TypeOK /\ ~overlapped /\ failed = {} /\ handler[h].pc = "create" /\ UNCHANGED <<friendship, log>>
  BY DEF IInv, CreateRequest
<1>1. /\ handler[h] \in Task /\ SerialAt(handler[h]) /\ handler[h].goal = "created"
      /\ \A g \in Handler : g # h => handler[g] = Idle
  BY <1>0, InFlight DEF Focused
<1>2. Settled /\ ~AreFriends /\ NonePending
  BY <1>0, <1>1 DEF SerialAt
<1>3. CASE Done(h) /\ UNCHANGED requests
  <2>1. SerialAt(Idle)'
    BY <1>0, <1>2, <1>3, SameTables, IdleOwesNothing DEF SerialAt
  <2> QED BY <1>0, <1>1, <1>3, <2>1, SerialStep DEF Done
<1>4. ASSUME NEW r \in Request,
             requests' = [requests EXCEPT ![r] = [by |-> handler[h].me, status |-> "pending"]],
             handler' = [handler EXCEPT ![h].pc = "announce", ![h].req = r]
      PROVE  Serially'
  <2>1. PICK t \in Task : t = [handler[h] EXCEPT !.pc = "announce", !.req = r]
    BY <1>1 DEF Task, Step
  <2>2. t.pc = "announce" /\ t.goal = "created"
    BY <1>1, <2>1 DEF Task
  <2>3. handler' = [handler EXCEPT ![h] = t]
    BY <1>0, <1>4, <2>1 DEF TypeOK
  <2>4. \A q \in Request : requests'[q].status = "pending" => q = r
    BY <1>0, <1>2, <1>4 DEF NonePending, TypeOK
  <2>5. OnePending'
    BY <2>4 DEF OnePending
  <2>6. ~AreFriends' /\ (NewestAccepts' <=> NewestAccepts)
    BY <1>0, <1>2 DEF AreFriends, NewestAccepts
  <2>7. Settled'
    BY <1>2, <2>5, <2>6 DEF Settled
  <2>8. SerialAt(t)'
    BY <2>2, <2>7 DEF SerialAt
  <2> QED BY <1>0, <1>1, <2>3, <2>8, SerialStep
<1> QED BY <1>3, <1>4 DEF CreateRequest

LEMMA TransitionSerially ==
    ASSUME IInv, Serially, NEW h \in Handler, Transition(h) PROVE Serially'
<1> SUFFICES ASSUME ~overlapped', failed' = {} PROVE Serially'
  BY DEF Serially
<1> DEFINE r == handler[h].req  goal == handler[h].goal
<1>0. TypeOK /\ ~overlapped /\ failed = {} /\ handler[h].pc = "transition" /\ UNCHANGED <<friendship, log>>
  BY DEF IInv, Transition
<1>1. /\ handler[h] \in Task /\ SerialAt(handler[h])
      /\ r \in Request /\ goal \in {"accepted", "rejected"}
      /\ \A g \in Handler : g # h => handler[g] = Idle
  BY <1>0, InFlight DEF Focused
<1>2. Settled
  BY <1>0, <1>1 DEF SerialAt
<1>3. CASE Done(h) /\ UNCHANGED requests
  <2>1. SerialAt(Idle)'
    BY <1>0, <1>2, <1>3, SameTables, IdleOwesNothing DEF SerialAt
  <2> QED BY <1>0, <1>1, <1>3, <2>1, SerialStep DEF Done
<1>4. CASE /\ Answerable(r) /\ requests' = [requests EXCEPT ![r].status = goal]
           /\ IF After(goal) = "idle" THEN Done(h) ELSE Goto(h, After(goal))
  <2>1. ~AreFriends /\ ~NewestAccepts
    BY <1>1, <1>2, <1>4 DEF Settled, NonePending, Answerable
  <2>2. ~AreFriends' /\ ~NewestAccepts'
    BY <1>0, <2>1 DEF AreFriends, NewestAccepts
  <2>3. requests'[r].status = goal /\ \A q \in Request : q # r => requests'[q] = requests[q]
    <3>1. requests[r] \in Row
      BY <1>0, <1>1 DEF TypeOK
    <3>2. requests[r] \in [by : User, status : {"pending", "accepted", "rejected"}]
      BY <1>4, <3>1 DEF Row, NoRequest, Answerable
    <3>3. [requests[r] EXCEPT !.status = goal].status = goal
      BY <3>2
    <3> QED BY <1>0, <1>1, <1>4, <3>3 DEF TypeOK
  <2>4. NonePending'
    BY <1>1, <1>2, <1>4, <2>3 DEF Settled, OnePending, NonePending, Answerable
  <2>5. CASE goal = "accepted"
    <3>1. PICK t \in Task : t = [handler[h] EXCEPT !.pc = "ensure"]
      BY <1>1 DEF Task, Step
    <3>2. t.pc = "ensure" /\ handler' = [handler EXCEPT ![h] = t]
      BY <1>1, <1>4, <2>5, <3>1 DEF Task, Goto, After
    <3>3. SerialAt(t)'
      BY <2>2, <2>4, <3>2 DEF SerialAt
    <3> QED BY <1>0, <1>1, <3>2, <3>3, SerialStep
  <2>6. CASE goal = "rejected"
    <3>1. Settled'
      BY <2>2, <2>4 DEF Settled, OnePending, NonePending
    <3>2. SerialAt(Idle)'
      BY <3>1, IdleOwesNothing DEF SerialAt
    <3>3. Done(h)
      BY <1>4, <2>6 DEF After
    <3> QED BY <1>0, <1>1, <3>2, <3>3, SerialStep DEF Done
  <2> QED BY <1>1, <2>5, <2>6
<1> QED BY <1>3, <1>4 DEF Transition

LEMMA EnsureSerially ==
    ASSUME IInv, Serially, NEW h \in Handler, Ensure(h) \/ Reselect(h) PROVE Serially'
<1> SUFFICES ASSUME ~overlapped', failed' = {} PROVE Serially'
  BY DEF Serially
<1>0. /\ TypeOK /\ ~overlapped /\ failed = {} /\ handler[h].pc \in {"ensure", "reselect"}
      /\ UNCHANGED <<requests, log>>
  BY DEF IInv, Ensure, Reselect
<1>1. /\ handler[h] \in Task /\ SerialAt(handler[h]) /\ handler[h].req \in Request
      /\ handler[h].goal = "accepted" /\ \A g \in Handler : g # h => handler[g] = Idle
  BY <1>0, InFlight DEF Focused
<1>2. ~AreFriends /\ NonePending
  BY <1>0, <1>1 DEF SerialAt
<1>3. CASE Ensure(h)
  <2>1. PICK t \in Task : t = [handler[h] EXCEPT !.pc = "announce"]
    BY <1>1 DEF Task, Step
  <2>2. t.pc = "announce" /\ t.goal = "accepted" /\ handler' = [handler EXCEPT ![h] = t]
    BY <1>1, <1>2, <1>3, <2>1 DEF Task, Goto, Ensure
  <2>3. AreFriends' /\ NonePending'
    BY <1>0, <1>1, <1>2, <1>3, RequestAssumption DEF Ensure, AreFriends, NonePending
  <2>4. SerialAt(t)'
    BY <2>2, <2>3 DEF SerialAt
  <2> QED BY <1>0, <1>1, <2>2, <2>4, SerialStep
<1>4. CASE Reselect(h)
  <2>1. failed' # {}
    BY <1>2, <1>4 DEF Reselect
  <2> QED BY <2>1
<1> QED BY <1>3, <1>4

LEMMA AnnounceSerially ==
    ASSUME IInv, Serially, NEW h \in Handler, Announce(h) PROVE Serially'
<1> SUFFICES ASSUME ~overlapped', failed' = {} PROVE Serially'
  BY DEF Serially
<1> DEFINE e == [kind |-> handler[h].goal, req |-> handler[h].req]
<1>0. /\ TypeOK /\ ~overlapped /\ failed = {} /\ handler[h].pc = "announce"
      /\ UNCHANGED <<requests, friendship>> /\ Done(h) /\ log' = Append(log, e)
  BY DEF IInv, Announce
<1>1. /\ handler[h] \in Task /\ SerialAt(handler[h]) /\ handler[h].req \in Request
      /\ handler[h].goal \in Kind /\ \A g \in Handler : g # h => handler[g] = Idle
  BY <1>0, InFlight DEF Focused
<1>2. e \in Event /\ e.kind = handler[h].goal /\ log \in Seq(Event)
  BY <1>0, <1>1 DEF Event, Kind, TypeOK
<1> HIDE DEF e
<1>3. /\ e.kind = "accepted" => NewestAccepts'
      /\ e.kind = "removed" => ~NewestAccepts'
      /\ e.kind = "created" => (NewestAccepts' <=> NewestAccepts)
  BY <1>0, <1>2, NewestAppend
<1>4. /\ AreFriends' <=> AreFriends
      /\ NonePending' <=> NonePending
      /\ OnePending' <=> OnePending
  BY <1>0 DEF AreFriends, NonePending, OnePending
<1>5. NonePending => OnePending
  BY DEF NonePending, OnePending
<1>6. Settled'
  <2>1. CASE handler[h].goal = "created"
    BY <1>0, <1>1, <1>2, <1>3, <1>4, <2>1 DEF SerialAt, Settled
  <2>2. CASE handler[h].goal = "accepted"
    BY <1>0, <1>1, <1>2, <1>3, <1>4, <1>5, <2>2 DEF SerialAt, Settled
  <2>3. CASE handler[h].goal = "removed"
    BY <1>0, <1>1, <1>2, <1>3, <1>4, <1>5, <2>3 DEF SerialAt, Settled
  <2> QED BY <1>1, <2>1, <2>2, <2>3 DEF Kind
<1>7. SerialAt(Idle)'
  BY <1>6, IdleOwesNothing DEF SerialAt
<1> QED BY <1>0, <1>1, <1>7, SerialStep DEF Done

LEMMA DieSerially == ASSUME IInv, Serially, NEW h \in Handler, Die(h) PROVE Serially'
<1> SUFFICES ASSUME ~overlapped', failed' = {} PROVE Serially'
  BY DEF Serially
<1>0. /\ TypeOK /\ ~overlapped /\ failed = {} /\ handler[h] # Idle /\ handler[h].req \notin Request
      /\ UNCHANGED <<requests, friendship, log>> /\ Done(h)
  BY RequestAssumption DEF IInv, Die
<1>1. /\ handler[h] \in Task /\ SerialAt(handler[h]) /\ Focused(handler[h]) /\ handler[h].pc \in Step
      /\ \A g \in Handler : g # h => handler[g] = Idle
  BY <1>0, InFlight, Shape
<1>2. Settled
  BY <1>0, <1>1 DEF SerialAt, Focused, Step
<1>3. SerialAt(Idle)'
  BY <1>0, <1>2, SameTables, IdleOwesNothing DEF SerialAt
<1> QED BY <1>0, <1>1, <1>3, SerialStep DEF Done

LEMMA SerialNext == IInv /\ Serially /\ [Next]_vars => Serially'
<1> SUFFICES ASSUME IInv, Serially, [Next]_vars PROVE Serially'
  OBVIOUS
<1>1. ASSUME NEW h \in Handler, Begin(h) \/ Proceed(h) \/ Die(h) PROVE Serially'
  BY <1>1, BeginSerially, FindSerially, CreateSerially, TransitionSerially, EnsureSerially,
     AnnounceSerially, DieSerially DEF Proceed
<1>2. CASE UNCHANGED vars
  BY <1>2, SameTables DEF vars, Serially, SerialAt, Quiet
<1> QED BY <1>1, <1>2 DEF Next

\* Handlers that never overlapped and never failed leave no request pending
\* between friends, none in both directions, and a log whose newest transition
\* is the state of the pair (SendFriendRequest, acceptPending, safePublish).
THEOREM SerialConsistencyHolds == Spec => []SerialConsistency
<1>1. Init => Serially BY InitSerially
<1>2. IInv /\ Serially /\ [Next]_vars => Serially' BY SerialNext
<1>3. IInv /\ Serially => SerialConsistency
  <2> SUFFICES ASSUME TypeOK, Settled
               PROVE  /\ AreFriends => \A u \in User : Pending(u) = {}
                      /\ \A u, v \in User : Pending(u) # {} /\ Pending(v) # {} => u = v
                      /\ AreFriends <=> NewestAccepts
    BY DEF SerialConsistency, Serially, IInv
  <2>1. AreFriends => \A u \in User : Pending(u) = {}
    BY PendingOf DEF Settled, NonePending
  <2>2. ASSUME NEW u \in User, NEW v \in User, Pending(u) # {}, Pending(v) # {} PROVE u = v
    BY <2>2, PendingOf DEF Settled, OnePending
  <2> QED BY <2>1, <2>2 DEF Settled
<1> QED BY <1>1, <1>2, <1>3, Invariant, PTL DEF Spec

-----------------------------------------------------------------------------
(* What chat-service is told of it (FriendFeed). *)

\* The queue was sent the accepted and removed events of the log, by their places.
Mirrors == published = {Notice(log[i], i) : i \in {j \in DOMAIN log : Routed(log[j])}}

\* A step of social-service leaves the log alone or puts one event behind it.
LEMMA LogGrows == Next /\ log' # log => \E e : log' = Append(log, e)
  BY DEF Next, Begin, Proceed, Start, SendFriendRequest, RemoveFriend, AcceptFriendRequest,
     RejectFriendRequest, Respond, FindReverse, FindExisting, CreateRequest, Transition, Ensure,
     Reselect, Announce, Die

\* Neither log nor queue has an event at first.
LEMMA InitMirrors == FeedInit => Mirrors
<1> SUFFICES ASSUME FeedInit PROVE Mirrors
  OBVIOUS
<1>1. log = <<>> /\ published = {}
  BY DEF FeedInit, Init, Chat!Fresh, Chat!ProjInit
<1> QED
  BY <1>1 DEF Mirrors

\* A step of chat-service emits nothing and sends itself nothing.
LEMMA ConsumerTellsNothing == Consumer => UNCHANGED <<log, published>>
  BY DEF Consumer, vars, Chat!ProjStep, Chat!Handle, Chat!Deliver, Chat!Apply, Chat!TouchConversation,
     Chat!Ack, Chat!Nack, Chat!Crash, Chat!LoseConnection

\* What is emitted is sent if and only if a routing key matches.
LEMMA StepMirrors == TypeOK /\ TypeOK' /\ Mirrors /\ [FeedNext]_feedVars => Mirrors'
<1> SUFFICES ASSUME TypeOK, TypeOK', Mirrors, [FeedNext]_feedVars PROVE Mirrors'
  OBVIOUS
<1>1. CASE UNCHANGED <<log, published>>
  BY <1>1 DEF Mirrors, Routed, Notice
<1>2. CASE Next /\ log' # log /\ ~UNCHANGED <<log, published>> /\ Social
  <2> DEFINE n == Len(log')  e == log'[n]
  <2>1. PICK x : log' = Append(log, x)
    BY <1>2, LogGrows
  <2>2. /\ log \in Seq(Event) /\ log' \in Seq(Event)
    BY DEF TypeOK
  <2>3. /\ n = Len(log) + 1 /\ DOMAIN log' = DOMAIN log \cup {n} /\ n \notin DOMAIN log
        /\ \A i \in DOMAIN log : log'[i] = log[i]
    BY <2>1, <2>2
  <2>4. published' = IF Routed(e) THEN published \cup {Notice(e, n)} ELSE published
    BY <1>2 DEF Social, chatVars, Chat!Publish
  <2> HIDE DEF n, e
  <2>5. {j \in DOMAIN log' : Routed(log'[j])}
          = {j \in DOMAIN log : Routed(log[j])} \cup (IF Routed(log'[n]) THEN {n} ELSE {})
    BY <2>3 DEF Routed
  <2>6. e = log'[n]
    BY DEF e, n
  <2>7. \A i \in DOMAIN log : Notice(log'[i], i) = Notice(log[i], i)
    BY <2>3
  <2>8. Mirrors' <=> published' = {Notice(log'[i], i) : i \in {j \in DOMAIN log' : Routed(log'[j])}}
    BY DEF Mirrors, Notice, Routed
  <2> QED
    BY <2>3, <2>4, <2>5, <2>6, <2>7, <2>8 DEF Mirrors
<1> QED
  BY <1>1, <1>2, ConsumerTellsNothing DEF FeedNext, Social, feedVars, chatVars, vars

\* A step of the two services is a step of social-service, or none.
THEOREM FeedIsSocial == FeedSpec => Spec
<1>1. FeedInit => Init
  BY DEF FeedInit
<1>2. [FeedNext]_feedVars => [Next]_vars
  BY DEF FeedNext, Social, Consumer, feedVars
<1> QED
  BY <1>1, <1>2, PTL DEF FeedSpec, Spec

\* Through every step of the two services chat-service was sent the transitions
\* of the log and nothing else (publish, createRabbitMqTopicConsumer).
THEOREM FeedMirrors == FeedSpec => [](TypeOK /\ Mirrors)
<1>1. FeedSpec => []TypeOK
  BY FeedIsSocial, TypeCorrect, PTL
<1> QED
  BY <1>1, InitMirrors, StepMirrors, PTL DEF FeedSpec

\* The guard of Chat!Publish, that an id is new to the queue, holds no step of
\* social-service back: Notice numbers the events by their places in the log.
ContractKept == \A e \in Event : Chat!Contract(Notice(e, Len(log) + 1))

LEMMA NothingHeldBack == FeedSpec => []ContractKept
<1>1. TypeOK /\ Mirrors => ContractKept
  <2> SUFFICES ASSUME TypeOK, Mirrors, NEW f \in published, NEW e \in Event
               PROVE  f.id # Notice(e, Len(log) + 1).id
    BY DEF ContractKept, Chat!Contract
  <2>1. PICK i \in DOMAIN log : f = Notice(log[i], i)
    BY DEF Mirrors
  <2>2. f.id = i /\ Notice(e, Len(log) + 1).id = Len(log) + 1
    BY <2>1 DEF Notice
  <2>3. i \in 1..Len(log) /\ Len(log) \in Nat
    BY DEF TypeOK
  <2> QED
    BY <2>2, <2>3
<1> QED
  BY <1>1, FeedMirrors, PTL

\* What is sent is an event of the projection.
LEMMA NoticeIsEvent == ASSUME NEW e, NEW n \in EventId PROVE Notice(e, n) \in Chat!Event
  BY DEF Notice, Chat!Event, Chat!FriendState

\* A step of the two services is a step of the projection, or none: what is
\* proved of the projection alone holds of it behind social-service.
THEOREM FeedIsProjection == FeedSpec => Chat!Spec
<1>1. FeedInit => Chat!Init
  BY DEF FeedInit, Chat!Init
<1>2. [FeedNext]_feedVars => [Chat!Next]_(Chat!vars)
  <2> SUFFICES ASSUME FeedNext PROVE Chat!Next \/ UNCHANGED chatVars
    BY DEF feedVars, chatVars, Chat!vars, Chat!tables, Chat!projVars
  <2>1. CASE Consumer
    BY <2>1 DEF Consumer, Chat!Next
  <2>2. CASE Social
    BY <2>2, NoticeIsEvent DEF Social, Chat!Next
  <2> QED
    BY <2>1, <2>2 DEF FeedNext
<1> QED
  BY <1>1, <1>2, PTL DEF FeedSpec, Chat!Spec

\* The theorems of the projection are in a module that also has the sends of
\* chat-service, which they do not speak of: whatever stands for those will do.
Gate == INSTANCE ChatService_proofs WITH
    overlapped <- crowded, Key <- {}, SendWorker <- {}, NoKey <- NoEvent,
    MaxCopies <- [k \in {} |-> 0], MaxSendFaults <- 0,
    badBody <- {}, enqueued <- {}, inbound <- {}, job <- {}, rows <- {}, frames <- {},
    discarded <- {}, muted <- {}, sendFaults <- 0, barred <- {}

\* The projection as FriendFeed and as ChatService_proofs have it is the same.
LEMMA GateIsChat == Chat!Spec => Gate!Spec
<1>1. Chat!Init => Gate!Init
  BY DEF Chat!Init, Gate!Init, Chat!Fresh, Gate!Fresh, Chat!Established, Gate!Established, Chat!ProjInit,
     Gate!ProjInit, Chat!Idle, Gate!Idle, Chat!NoRow, Gate!NoRow, Chat!Event, Gate!Event,
     Chat!FriendState, Gate!FriendState
<1>2. [Chat!Next]_(Chat!vars) => [Gate!Next]_(Gate!vars)
  BY DEF Chat!Next, Gate!Next, Chat!vars, Gate!vars, Chat!tables, Gate!tables, Chat!projVars, Gate!projVars,
     Chat!ProjStep, Gate!ProjStep, Chat!Handle, Gate!Handle, Chat!Deliver, Gate!Deliver, Chat!Apply,
     Gate!Apply, Chat!TouchConversation, Gate!TouchConversation, Chat!Ack, Gate!Ack, Chat!Nack, Gate!Nack,
     Chat!Crash, Gate!Crash, Chat!LoseConnection, Gate!LoseConnection, Chat!Fault, Gate!Fault,
     Chat!Requeue, Gate!Requeue, Chat!Publish, Gate!Publish, Chat!Contract, Gate!Contract, Chat!Event,
     Gate!Event, Chat!FriendState, Gate!FriendState, Chat!Newer, Gate!Newer, Chat!Touched, Gate!Touched,
     Chat!Idle, Gate!Idle
<1> QED
  BY <1>1, <1>2, PTL DEF Chat!Spec, Gate!Spec

\* Convergence (AC-G1), proved in ChatService_proofs, at this instance.
LEMMA GateConverges == Chat!Spec => []Gate!ConvergesToNewest
<1>1. EventId \subseteq Nat \ {0}
  BY FeedEventIdAssumption
<1>2. NoEvent \notin Gate!Event
  BY FeedNoEventAssumption DEF Gate!Event, Chat!Event, Gate!FriendState, Chat!FriendState
<1>3. MaxFaults \in Nat
  BY FeedMaxFaultsAssumption
<1>4. NoEvent \notin {} /\ Gate!IsFiniteSet({})
  <2>1. <<>> \in Seq({}) /\ \A s \in {} : \E n \in 1..Len(<<>>) : <<>>[n] = s
    OBVIOUS
  <2> QED
    BY <2>1 DEF Gate!IsFiniteSet
<1>5. [k \in {} |-> 0] \in [{} -> Nat] /\ 0 \in Nat
  OBVIOUS
<1>6. Gate!Spec => []Gate!ConvergesToNewest
  BY <1>1, <1>2, <1>3, <1>4, <1>5, Gate!Convergence DEF Gate!Convergence
<1> QED
  BY <1>6, GateIsChat, PTL

\* The newest event sent to chat-service is the newest transition of the log.
LEMMA NewestIsTold ==
    ASSUME TypeOK, Mirrors, Gate!Register!IsLatest(readModel, published), published = {} => readModel = Chat!NoRow
    PROVE  Chat!IsActive <=> NewestAccepts
<1> DEFINE Sent == {j \in DOMAIN log : Routed(log[j])}
<1>1. /\ DOMAIN log = 1..Len(log) /\ Len(log) \in Nat
      /\ \A i \in DOMAIN log : log[i] \in Event
  BY DEF TypeOK
<1>2. published = {Notice(log[i], i) : i \in Sent}
  BY DEF Mirrors
<1>3. \A i \in DOMAIN log : /\ Notice(log[i], i).id = i
                            /\ Notice(log[i], i).state = "active" <=> log[i].kind = "accepted"
  BY DEF Notice
<1>4. \A i \in DOMAIN log : i \in Sent <=> log[i].kind = "accepted" \/ log[i].kind = "removed"
  BY DEF Routed
<1> HIDE DEF Sent
<1>5. CASE published = {}
  <2>1. ~Chat!IsActive
    BY <1>5 DEF Chat!IsActive, Chat!NoRow
  <2>2. Sent = {}
    BY <1>2, <1>5
  <2> QED
    BY <2>1, <2>2, <1>4 DEF NewestAccepts
<1>6. CASE published # {}
  <2>1. readModel \in published /\ \A f \in published : f.id <= readModel.id
    BY <1>6 DEF Gate!Register!IsLatest
  <2>2. PICK m \in Sent : readModel = Notice(log[m], m)
    BY <2>1, <1>2
  <2>3. m \in DOMAIN log /\ \A i \in Sent : i \in DOMAIN log /\ i <= m
    <3>1. \A i \in Sent : i \in DOMAIN log
      BY DEF Sent
    <3>2. \A i \in Sent : Notice(log[i], i) \in published
      BY <1>2
    <3> QED
      BY <3>1, <3>2, <2>1, <2>2, <1>3
  <2>4. Chat!IsActive <=> log[m].kind = "accepted"
    BY <2>2, <2>3, <1>3 DEF Chat!IsActive
  <2>5. CASE log[m].kind = "accepted"
    <3>1. \A j \in DOMAIN log : log[j].kind = "removed" => j < m
      BY <2>3, <2>5, <1>1, <1>4
    <3> QED
      BY <3>1, <2>3, <2>4, <2>5 DEF NewestAccepts
  <2>6. CASE log[m].kind # "accepted"
    <3>1. log[m].kind = "removed"
      BY <2>3, <2>6, <1>4
    <3>2. \A i \in DOMAIN log : log[i].kind = "accepted" => i <= m /\ i # m
      BY <2>3, <2>6, <1>4
    <3> QED
      BY <3>1, <3>2, <2>3, <2>4, <2>6, <1>1 DEF NewestAccepts
  <2> QED
    BY <2>5, <2>6
<1> QED
  BY <1>5, <1>6

\* AC-E5 and AC-G1 end to end: with both services at rest, chat-service takes the
\* pair for friends exactly if social-service does, unless requests overlapped or
\* failed there or an event was nacked (GateFollowsFriendship).
THEOREM GateFollowsFriendshipHolds == FeedSpec => []GateFollowsFriendship
<1>1. TypeOK /\ Mirrors /\ SerialConsistency /\ Gate!ConvergesToNewest => GateFollowsFriendship
  <2> SUFFICES ASSUME TypeOK, Mirrors, SerialConsistency, Gate!ConvergesToNewest,
                      Quiet, ~overlapped, failed = {}, Chat!Settled, lost = {}
               PROVE  Chat!IsActive <=> AreFriends
    BY DEF GateFollowsFriendship
  <2>1. Gate!Register!IsLatest(readModel, published) /\ (published = {} => readModel = Chat!NoRow)
    BY DEF Gate!ConvergesToNewest, Gate!Settled, Chat!Settled, Gate!Idle, Chat!Idle,
           Gate!Register!IsLatest, Gate!NoRow, Chat!NoRow
  <2> QED
    BY <2>1, NewestIsTold DEF SerialConsistency
<1>2. FeedSpec => []SerialConsistency
  BY FeedIsSocial, SerialConsistencyHolds, PTL
<1>3. FeedSpec => []Gate!ConvergesToNewest
  BY FeedIsProjection, GateConverges, PTL
<1> QED
  BY <1>1, <1>2, <1>3, FeedMirrors, PTL
=============================================================================
