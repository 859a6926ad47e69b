------------------------ MODULE Conversation_proofs -------------------------
(***************************************************************************)
(* Proofs about Conversation, for any number of messages, any size of page  *)
(* and any number of faults.                                                *)
(***************************************************************************)
EXTENDS Conversation, FiniteSetTheorems, TLAPS

\* A clientMsgId is on its way or in one row, and no more messages are made than fit.
OwnOnce ==
    /\ \A i, j \in 1..Len(rows) : rows[i] = rows[j] /\ rows[i] # 0 => i = j
    /\ \A i \in 1..Len(rows) : rows[i] <= composed /\ rows[i] \notin sends
    /\ Len(rows) + Cardinality(sends) <= MaxRows

\* A frame tells of a row, or of a clientMsgId that has none and will get none.
Rowless(k) == k \in 1..composed \ sends /\ \A i \in 1..Len(rows) : rows[i] # k
FramesTell == \A f \in frames :
    /\ f.type # "rejected" => f.n <= Len(rows)
    /\ f.type = "sent" => rows[f.n] # 0
    /\ f.type = "rejected" => Rowless(f.n)

\* An entry with an id has been persisted, under the clientMsgId it has, if any.
Sound(T) == T \subseteq Entry /\ \A m \in T :
    /\ m.id <= Len(rows) /\ m.cid <= composed
    /\ m.id # 0 => m.status = "sent" /\ (m.cid # 0 => rows[m.id] = m.cid)

\* At most one entry is of one message, unless in X, and of one without a row.
About(m, n) == m.id = n \/ (m.cid # 0 /\ m.cid = rows[n])
OnceEach(T, X) ==
    /\ \A n \in (1..Len(rows)) \ X : \A m, o \in T : About(m, n) /\ About(o, n) => m = o
    /\ \A k \in Mine : (\A i \in 1..Len(rows) : rows[i] # k) =>
           \A m, o \in T : m.cid = k /\ o.cid = k => m = o

\* What was handled, or is in the cached page of history, stays in the thread.
Held == mounted =>
    /\ handled \subseteq Ids(thread)
    /\ Known => Shown(history.data) \subseteq Ids(thread)

\* What is fresh, or was read, is as recent as the last time the caches went stale.
Recent ==
    /\ history.fresh => history.data >= aged
    /\ history.pc = "read" => history.got >= aged
    /\ aged > 0 /\ resolved.fresh => resolved.data = "present"
    /\ aged > 0 /\ resolved.pc = "read" => resolved.got = "present"
    /\ list.pc = "read" => list.data <= list.got

\* The page is about to ask for what was old when it opened, or has it.
OldComes == mounted /\ ~broken /\ floor > 0 =>
    /\ resolved.pc # "idle" \/ Known
    /\ Known => history.pc # "idle" \/ history.data >= floor

\* The read mark never runs ahead of the thread, nor behind it with the focus.
Marked == mounted =>
    /\ emitted.read <= PartnerLatest(thread)
    /\ focused /\ Known => emitted.read = PartnerLatest(thread)

\* The partner's newest message is acked, or something will bring its ack.
AckComes ==
    LET n == Len(rows) IN
    n > 0 /\ n \notin unheard /\ rows[n] = 0 =>
        \/ acked >= n
        \/ [type |-> "received", n |-> n] \in frames
        \/ list.pc = "asked" \/ (list.pc = "read" /\ list.got = n)
        \/ link = "down" \/ (link = "connecting" /\ list.data = n)

IInv ==
    /\ TypeOK /\ OwnOnce /\ FramesTell
    /\ Sound(thread) /\ OnceEach(thread, mixed) /\ Held
    /\ Recent /\ OldComes /\ Marked /\ AckComes

-----------------------------------------------------------------------------
(* The operators of the model. *)

\* A bounded set of numbers has its maximum: of the sets of what lies above each
\* of its members, one is least under inclusion.
LEMMA MaxOf ==
    ASSUME NEW b \in Nat, NEW S, S \subseteq 0..b, S # {}
    PROVE  Max(S) \in S /\ \A y \in S : y <= Max(S)
<1> DEFINE Above(x) == {y \in S : y > x}
           R == StrictSubsetOrdering(S)
           C == {Above(x) : x \in S}
<1>1. IsFiniteSet(S)
  <2>1. IsFiniteSet(0..b)
    BY FS_Interval
  <2> QED BY <2>1, FS_Subset
<1>2. IsWellFoundedOn(R, SUBSET S)
  BY <1>1, FS_StrictSubsetOrderingWellFounded, FS_FiniteSubsetsOfFinite
<1>3. \E U \in C : \A V \in C : <<V, U>> \notin R
  <2>1. C \subseteq SUBSET S /\ C # {}
    OBVIOUS
  <2> HIDE DEF C, R
  <2> QED BY <1>2, <2>1, WFMin
<1>4. PICK x \in S : \A y \in S : <<Above(y), Above(x)>> \notin R
  BY <1>3
<1>5. \A y \in S : y <= x
  <2> SUFFICES ASSUME NEW y \in S, y > x PROVE FALSE
    OBVIOUS
  <2>1. \A z \in Above(y) : z \in Above(x)
    OBVIOUS
  <2>2. y \in Above(x) /\ y \notin Above(y)
    OBVIOUS
  <2>3. <<Above(y), Above(x)>> \in R
    BY <2>1, <2>2 DEF StrictSubsetOrdering
  <2> QED BY <1>4, <2>3
<1> QED BY <1>5 DEF Max

\* What each move of a query changes of it.
LEMMA QueryMoves ==
    ASSUME NEW D, NEW q \in Query(D)
    PROVE  /\ q.data \in D /\ q.fresh \in BOOLEAN /\ q.pc \in {"idle", "asked", "read"} /\ q.got \in D
           /\ Ask(q) \in Query(D) /\ Ask(q).data = q.data /\ Ask(q).fresh = q.fresh
           /\ Ask(q).pc = "asked"
           /\ OnMount(q) \in Query(D) /\ OnMount(q).data = q.data /\ OnMount(q).fresh = q.fresh
           /\ OnMount(q).got = q.got /\ (OnMount(q).pc = "read" => q.pc = "read")
           /\ OnMount(q).pc = "idle" => q.fresh
           /\ q.pc # "idle" => OnMount(q) = q
           /\ Kept(q) \in Query(D) /\ Kept(q).data = q.got /\ Kept(q).fresh /\ Kept(q).pc = "idle"
           /\ Idle(q) \in Query(D) /\ Idle(q).data = q.data /\ Idle(q).fresh = q.fresh
           /\ Idle(q).pc = "idle"
           /\ Aged(q) \in Query(D) /\ Aged(q).data = q.data /\ ~Aged(q).fresh /\ Aged(q).pc = q.pc
<1>1. /\ q.data \in D /\ q.fresh \in BOOLEAN /\ q.pc \in {"idle", "asked", "read"} /\ q.got \in D
      /\ q = [data |-> q.data, fresh |-> q.fresh, pc |-> q.pc, got |-> q.got]
  BY DEF Query
<1>2. Ask(q) = [data |-> q.data, fresh |-> q.fresh, pc |-> "asked", got |-> q.got]
  BY <1>1 DEF Ask
<1>3. OnMount(q) = IF q.pc = "idle" /\ ~q.fresh THEN Ask(q) ELSE q
  BY DEF OnMount, Stale
<1>4. Kept(q) = [data |-> q.got, fresh |-> TRUE, pc |-> "idle", got |-> q.got]
  BY DEF Kept
<1>5. /\ Idle(q) \in Query(D) /\ Idle(q).data = q.data /\ Idle(q).fresh = q.fresh
      /\ Idle(q).pc = "idle"
  BY DEF Idle, Query
<1>6. /\ Aged(q) \in Query(D) /\ Aged(q).data = q.data /\ ~Aged(q).fresh /\ Aged(q).pc = q.pc
  BY DEF Aged, Query
<1>7. /\ Ask(q) \in Query(D) /\ Ask(q).data = q.data /\ Ask(q).fresh = q.fresh
      /\ Ask(q).pc = "asked" /\ Ask(q).got = q.got
  BY <1>1, <1>2 DEF Query
<1>8. /\ OnMount(q) \in Query(D) /\ OnMount(q).data = q.data /\ OnMount(q).fresh = q.fresh
      /\ OnMount(q).got = q.got /\ (OnMount(q).pc = "read" => q.pc = "read")
      /\ OnMount(q).pc = "idle" => q.fresh
      /\ q.pc # "idle" => OnMount(q) = q
  BY <1>1, <1>3, <1>7
<1>9. /\ Kept(q) \in Query(D) /\ Kept(q).data = q.got /\ Kept(q).fresh /\ Kept(q).pc = "idle"
  BY <1>1, <1>4 DEF Query
<1> QED BY <1>1, <1>5, <1>6, <1>7, <1>8, <1>9

LEMMA Answering ==
    ASSUME NEW D, NEW q \in Query(D), NEW v \in D
    PROVE  /\ Answered(q, v) \in Query(D) /\ Answered(q, v).data = q.data
           /\ Answered(q, v).fresh = q.fresh /\ Answered(q, v).pc = "read" /\ Answered(q, v).got = v
  BY DEF Answered, Query

\* The newest partner message of a thread is one of it, or 0, and none is newer.
LEMMA Latest ==
    ASSUME TypeOK, NEW T, Sound(T)
    PROVE  /\ PartnerLatest(T) \in 0..Len(rows)
           /\ PartnerLatest(T) \in Theirs(T) \cup {0}
           /\ \A i \in Theirs(T) : i <= PartnerLatest(T)
<1>1. Len(rows) \in Nat
  BY DEF TypeOK
<1>2. Theirs(T) \cup {0} \subseteq 0..Len(rows)
  <2> SUFFICES ASSUME NEW m \in T PROVE m.id \in 0..Len(rows)
    BY <1>1 DEF Theirs, Ids
  <2>1. m \in Entry /\ m.id <= Len(rows)
    BY DEF Sound
  <2> QED BY <1>1, <2>1, ConversationBounds DEF Entry
<1> HIDE DEF Theirs
<1> QED BY <1>1, <1>2, MaxOf DEF PartnerLatest

\* A thread that has more ids has as new a message of the partner.
LEMMA LatestGrows ==
    ASSUME TypeOK, NEW T, NEW U, Sound(T), Sound(U), Ids(T) \subseteq Ids(U)
    PROVE  PartnerLatest(T) <= PartnerLatest(U)
<1>1. Theirs(T) \subseteq Theirs(U)
  BY DEF Theirs
<1>2. PartnerLatest(T) \in Theirs(U) \cup {0}
  BY <1>1, Latest
<1> QED BY <1>2, Latest

Marks(n) == [read : 0..n, delivered : 0..n]

\* Marking never runs ahead of the thread, and catches up with it under the focus.
LEMMA Marking ==
    ASSUME TypeOK, NEW T, PartnerLatest(T) \in 0..Len(rows), NEW known \in BOOLEAN, NEW look \in BOOLEAN,
           NEW em \in Marks(Len(rows)), em.read <= PartnerLatest(T), EmitMarks(T, known, look, em)
    PROVE  /\ emitted' \in Marks(Len(rows)) /\ emitted'.read <= PartnerLatest(T)
           /\ known /\ look => emitted'.read = PartnerLatest(T)
<1> DEFINE p == PartnerLatest(T)
<1>1. p \in 0..Len(rows) /\ Len(rows) \in Nat
  BY DEF TypeOK
<1>2. emitted' = IF ~known THEN em
                 ELSE IF look /\ p > em.read THEN [read |-> p, delivered |-> p]
                 ELSE IF ~look /\ p > em.delivered THEN [em EXCEPT !.delivered = p] ELSE em
  BY DEF EmitMarks
<1>3. [em EXCEPT !.delivered = p] = [read |-> em.read, delivered |-> p]
  BY DEF Marks
<1> HIDE DEF p
<1>4. em.read \in 0..Len(rows) /\ em.read <= p
  BY DEF Marks, p
<1> QED BY <1>1, <1>2, <1>3, <1>4 DEF Marks, p

-----------------------------------------------------------------------------
(* What becomes of a thread. *)

\* What an entry holds, and a row.
LEMMA EntryShape ==
    ASSUME TypeOK, NEW T, Sound(T), NEW m \in T
    PROVE  /\ m = [id |-> m.id, cid |-> m.cid, status |-> m.status]
           /\ m.id \in 0..MaxRows /\ m.cid \in 0..MaxMine /\ m.status \in {"sending", "sent", "failed"}
           /\ m.id \in 0..Len(rows) /\ m.cid \in 0..composed
           /\ m.id # 0 => m.status = "sent" /\ (m.cid # 0 => rows[m.id] = m.cid)
<1>1. m \in Entry
  BY DEF Sound
<1>2. m.id \in 0..MaxRows /\ m.cid \in 0..MaxMine /\ m.status \in {"sending", "sent", "failed"}
  BY <1>1 DEF Entry
<1>3. m = [id |-> m.id, cid |-> m.cid, status |-> m.status]
  BY <1>1 DEF Entry
<1>4. Len(rows) \in Nat /\ composed \in Nat /\ MaxRows \in Nat /\ MaxMine \in Nat
  BY ConversationBounds DEF TypeOK
<1> QED BY <1>2, <1>3, <1>4 DEF Sound

LEMMA RowShape ==
    ASSUME TypeOK
    PROVE  /\ Len(rows) \in Nat /\ Len(rows) <= MaxRows /\ composed \in 0..MaxMine
           /\ \A i \in 1..Len(rows) : rows[i] \in 0..MaxMine
           /\ \A f \in frames : f \in Frame
<1>1. rows \in Seq(0..MaxMine) /\ Len(rows) <= MaxRows /\ composed \in 0..MaxMine /\ frames \subseteq Frame
  BY DEF TypeOK
<1>2. \A S : rows \in Seq(S) => Len(rows) \in Nat /\ \A i \in 1..Len(rows) : rows[i] \in S
  OBVIOUS
<1>3. \A f \in frames : f \in Frame
  BY <1>1
<1> QED BY <1>1, <1>2, <1>3

\* The entry of a message whose frame comes in.
Arrived(n) == [id |-> n, cid |-> rows[n], status |-> "sent"]

\* The entry of a message takes the place of the one there was of it, or is new.
LEMMA ArrivedOnce ==
    ASSUME TypeOK, OwnOnce, NEW T, NEW X, Sound(T), OnceEach(T, X), NEW n \in 1..Len(rows), NEW U,
           \/ (\A m \in T : ~About(m, n)) /\ U = T \cup {Arrived(n)}
           \/ \E m \in T : About(m, n) /\ U = (T \ {m}) \cup {Arrived(n)}
    PROVE  Sound(U) /\ OnceEach(U, X) /\ Ids(U) = Ids(T) \cup {n}
<1> DEFINE e == Arrived(n)
<1>1. /\ e.id = n /\ e.cid = rows[n] /\ e.status = "sent" /\ rows[n] \in 0..MaxMine
      /\ rows[n] <= composed /\ n # 0 /\ n \in 0..MaxRows /\ e \in Entry
  BY RowShape, ConversationBounds DEF OwnOnce, Arrived, Entry
<1>2. \A j \in 1..Len(rows) : About(e, j) <=> j = n
  BY <1>1 DEF About, OwnOnce
<1>3. About(e, n)
  BY <1>1 DEF About
<1>4. e \in U /\ U \subseteq T \cup {e}
  OBVIOUS
<1>5. \A j \in 1..Len(rows) : j # n => \A m \in U : About(m, j) => m \in T
  BY <1>2, <1>4
<1>6. n \notin X => \A m \in U : About(m, n) => m = e
  <2> SUFFICES ASSUME n \notin X, NEW m \in U, About(m, n), m # e PROVE FALSE
    OBVIOUS
  <2>1. m \in T
    BY <1>4
  <2>2. PICK o \in T : About(o, n) /\ U = (T \ {o}) \cup {e}
    BY <2>1
  <2>3. m = o
    BY <2>1, <2>2 DEF OnceEach
  <2> QED BY <2>2, <2>3
<1> HIDE DEF e
<1>7. Sound(U)
  BY <1>1, <1>4 DEF Sound
<1>8. OnceEach(U, X)
  <2>1. ASSUME NEW j \in (1..Len(rows)) \ X, NEW m \in U, NEW o \in U, About(m, j), About(o, j)
        PROVE  m = o
    <3>1. CASE j = n
      BY <1>6, <2>1, <3>1
    <3>2. CASE j # n
      BY <1>5, <2>1, <3>2 DEF OnceEach
    <3> QED BY <3>1, <3>2
  <2>2. ASSUME NEW k \in Mine, \A i \in 1..Len(rows) : rows[i] # k,
               NEW m \in U, NEW o \in U, m.cid = k, o.cid = k
        PROVE  m = o
    <3>1. m \in T /\ o \in T
      BY <1>1, <1>4, <2>2
    <3> QED BY <2>2, <3>1 DEF OnceEach
  <2> QED BY <2>1, <2>2 DEF OnceEach
<1>9. Ids(U) = Ids(T) \cup {n}
  <2>1. ASSUME NEW m \in T, About(m, n), m.id # 0 PROVE m.id = n
    <3>1. m.id \in 1..Len(rows) /\ (m.cid # 0 => rows[m.id] = m.cid)
      BY <2>1, EntryShape
    <3> QED BY <2>1, <3>1 DEF About, OwnOnce
  <2>2. Ids(U) \subseteq Ids(T) \cup {n}
    BY <1>1, <1>4 DEF Ids
  <2>3. n \in Ids(U)
    BY <1>1, <1>4 DEF Ids
  <2>4. ASSUME NEW i \in Ids(T) PROVE i \in Ids(U)
    <3>1. PICK m \in T : m.id = i /\ i # 0
      BY DEF Ids
    <3>2. CASE m \in U
      BY <3>1, <3>2 DEF Ids
    <3>3. CASE m \notin U
      <4>1. About(m, n)
        BY <3>3
      <4> QED BY <2>1, <2>3, <3>1, <4>1
    <3> QED BY <3>2, <3>3
  <2> QED BY <2>2, <2>3, <2>4
<1> QED BY <1>7, <1>8, <1>9

\* A received frame brings in the entry of its message.
LEMMA UpsertArrives ==
    ASSUME TypeOK, OwnOnce, NEW T, NEW X, Sound(T), OnceEach(T, X), NEW n \in 1..Len(rows),
           NEW U \in Upserted(T, Arrived(n))
    PROVE  Sound(U) /\ OnceEach(U, X) /\ Ids(U) = Ids(T) \cup {n}
<1> DEFINE e == Arrived(n)
<1>1. e.id = n /\ e.cid = rows[n] /\ e.status = "sent" /\ n # 0
  BY DEF Arrived
<1>2. \A m \in T : m \in Matches(T, e) <=> About(m, n)
  BY <1>1 DEF Matches, About
<1>3. Matches(T, e) \subseteq T
  BY DEF Matches
<1>4. ASSUME NEW m \in T, About(m, n) PROVE Onto(m, e) = e
  <2>1. m.cid # 0 /\ m.id = n => rows[n] = m.cid
    BY <1>1, EntryShape
  <2>2. rows[n] = 0 => m.cid = 0
    BY <1>4, <2>1 DEF About
  <2> QED BY <1>1, <2>2 DEF Onto, Arrived
<1>5. CASE Matches(T, e) = {}
  <2>1. U = T \cup {e}
    BY <1>5 DEF Upserted
  <2> HIDE DEF e
  <2>2. \A m \in T : ~About(m, n)
    BY <1>2, <1>5
  <2> QED BY <2>1, <2>2, ArrivedOnce DEF e
<1>6. CASE Matches(T, e) # {}
  <2>1. PICK m \in Matches(T, e) : U = (T \ {m}) \cup {Onto(m, e)}
    BY <1>6 DEF Upserted
  <2>2. m \in T /\ About(m, n) /\ U = (T \ {m}) \cup {e}
    BY <1>2, <1>3, <1>4, <2>1
  <2> QED BY <2>2, ArrivedOnce
<1> QED BY <1>5, <1>6

\* The ack of an own message completes its entry, if there is one.
LEMMA AckArrives ==
    ASSUME TypeOK, OwnOnce, NEW T, NEW X, Sound(T), OnceEach(T, X), NEW n \in 1..Len(rows),
           rows[n] # 0, NEW U \in Patched(T, rows[n], n, "sent")
    PROVE  /\ Sound(U) /\ OnceEach(U, X) /\ Ids(T) \subseteq Ids(U)
           /\ (\E m \in T : m.cid = rows[n]) => n \in Ids(U)
<1> DEFINE M == {m \in T : m.cid = rows[n]}
<1>1. CASE M = {}
  BY <1>1 DEF Patched
<1>2. CASE M # {}
  <2>1. PICK m \in M : U = (T \ {m}) \cup {[id |-> IF n = 0 THEN m.id ELSE n, cid |-> rows[n], status |-> "sent"]}
    BY <1>2 DEF Patched
  <2>2. m \in T /\ About(m, n) /\ U = (T \ {m}) \cup {Arrived(n)}
    BY <2>1 DEF About, Arrived
  <2>3. Sound(U) /\ OnceEach(U, X) /\ Ids(U) = Ids(T) \cup {n}
    BY <2>2, ArrivedOnce
  <2> QED BY <2>3
<1> QED BY <1>1, <1>2

\* A rejection touches no entry that has an id.
LEMMA RejectionArrives ==
    ASSUME TypeOK, OwnOnce, NEW T, NEW X, Sound(T), OnceEach(T, X), NEW k \in Mine, Rowless(k),
           NEW U \in Patched(T, k, 0, "failed")
    PROVE  Sound(U) /\ OnceEach(U, X) /\ Ids(U) = Ids(T)
<1> DEFINE M == {m \in T : m.cid = k}
<1>1. CASE M = {}
  BY <1>1 DEF Patched
<1>2. CASE M # {}
  <2>1. PICK m \in M : U = (T \ {m}) \cup {[id |-> m.id, cid |-> k, status |-> "failed"]}
    BY <1>2 DEF Patched
  <2>2. m \in T /\ m.cid = k /\ k # 0 /\ k <= composed
    BY <2>1 DEF Mine, Rowless
  <2>3. m.id = 0
    <3>1. m.id # 0 => m.id \in 1..Len(rows) /\ rows[m.id] = k
      BY <2>2, EntryShape, RowShape
    <3> QED BY <3>1 DEF Rowless
  <2> DEFINE e == [id |-> 0, cid |-> k, status |-> "failed"]
  <2>4. e.id = 0 /\ e.cid = k /\ e \in Entry /\ U = (T \ {m}) \cup {e}
    BY <2>1, <2>3, ConversationBounds DEF Entry, Mine
  <2>5. \A j \in 1..Len(rows) : ~About(e, j)
    BY <2>2, <2>4 DEF About, Rowless
  <2> HIDE DEF e
  <2>6. Sound(U)
    BY <2>2, <2>4, RowShape DEF Sound
  <2>7. Ids(U) = Ids(T)
    <3>1. Ids(U) \subseteq Ids(T)
      BY <2>4 DEF Ids
    <3>2. \A o \in T : o.id # 0 => o \in U
      BY <2>3, <2>4
    <3> QED BY <3>1, <3>2 DEF Ids
  <2>8. OnceEach(U, X)
    <3>1. ASSUME NEW j \in (1..Len(rows)) \ X, NEW o \in U, NEW q \in U, About(o, j), About(q, j)
          PROVE  o = q
      <4>1. o \in T /\ q \in T
        BY <2>4, <2>5, <3>1
      <4> QED BY <3>1, <4>1 DEF OnceEach
    <3>2. ASSUME NEW c \in Mine, \A i \in 1..Len(rows) : rows[i] # c,
                 NEW o \in U, NEW q \in U, o.cid = c, q.cid = c
          PROVE  o = q
      <4>1. \A x, y \in T : x.cid = c /\ y.cid = c => x = y
        BY <3>2 DEF OnceEach
      <4>2. CASE c = k
        BY <2>2, <2>4, <3>2, <4>1, <4>2
      <4>3. CASE c # k
        BY <2>4, <3>2, <4>1, <4>3
      <4> QED BY <4>2, <4>3
    <3> QED BY <3>1, <3>2 DEF OnceEach
  <2> QED BY <2>6, <2>7, <2>8
<1> QED BY <1>1, <1>2

\* A page of history adds the messages the thread lacks; what it cannot match
\* becomes mixed.
LEMMA HistoryArrives ==
    ASSUME TypeOK, OwnOnce, NEW T, NEW X, Sound(T), OnceEach(T, X), NEW h \in 0..Len(rows)
    PROVE  /\ Sound(Merged(T, h)) /\ OnceEach(Merged(T, h), X \cup Clash(T, h))
           /\ Ids(Merged(T, h)) = Ids(T) \cup Shown(h)
<1> DEFINE N == Shown(h) \ Ids(T)
           Past(i) == [id |-> i, cid |-> 0, status |-> "sent"]
           U == T \cup {Past(i) : i \in N}
<1>1. Shown(h) \subseteq 1..Len(rows)
  BY RowShape DEF Shown
<1>2. ASSUME NEW m \in T PROVE (IF m.id \in Shown(h) THEN [m EXCEPT !.status = "sent"] ELSE m) = m
  <2>1. CASE m.id \in Shown(h)
    <3>1. m.status = "sent" /\ m = [id |-> m.id, cid |-> m.cid, status |-> m.status]
      BY <1>1, <2>1, EntryShape
    <3> QED BY <2>1, <3>1
  <2> QED BY <2>1
<1>3. Merged(T, h) = U
  <2>1. {IF m.id \in Shown(h) THEN [m EXCEPT !.status = "sent"] ELSE m : m \in T} = T
    BY <1>2
  <2> QED BY <2>1 DEF Merged
<1>4. ASSUME NEW i \in N
      PROVE  Past(i).id = i /\ Past(i).cid = 0 /\ Past(i).status = "sent" /\ Past(i) \in Entry /\ i # 0
  BY <1>1, <1>4, RowShape, ConversationBounds DEF Entry
<1>5. \A m \in U : m \in T \/ \E i \in N : m = Past(i)
  OBVIOUS
<1> HIDE DEF Past
<1>6. Sound(U)
  BY <1>1, <1>4, <1>5, RowShape DEF Sound
<1>7. Ids(U) = Ids(T) \cup Shown(h)
  <2>1. \A i \in N : i \in Ids(U)
    BY <1>4 DEF Ids
  <2>2. Ids(U) \subseteq Ids(T) \cup N /\ Ids(T) \subseteq Ids(U)
    BY <1>4, <1>5 DEF Ids
  <2> QED BY <2>1, <2>2
<1>8. OnceEach(U, X \cup Clash(T, h))
  <2>1. ASSUME NEW j \in (1..Len(rows)) \ (X \cup Clash(T, h)), NEW m \in U, NEW o \in U,
               About(m, j), About(o, j)
        PROVE  m = o
    <3>1. \A i \in N : About(Past(i), j) => i = j
      BY <1>4 DEF About
    <3>2. j \in N => \A x \in T : ~About(x, j)
      <4>1. j \in N => \A x \in T : x.id # j
        BY <1>1 DEF Ids
      <4> QED BY <2>1, <4>1 DEF About, Clash
    <3>3. m \in T /\ o \in T => m = o
      BY <2>1 DEF OnceEach
    <3> QED BY <1>5, <2>1, <3>1, <3>2, <3>3
  <2>2. ASSUME NEW k \in Mine, \A i \in 1..Len(rows) : rows[i] # k,
               NEW m \in U, NEW o \in U, m.cid = k, o.cid = k
        PROVE  m = o
    <3>1. m \in T /\ o \in T
      BY <1>4, <1>5, <2>2 DEF Mine
    <3> QED BY <2>2, <3>1 DEF OnceEach
  <2> QED BY <2>1, <2>2 DEF OnceEach
<1> QED BY <1>3, <1>6, <1>7, <1>8

-----------------------------------------------------------------------------
(* The steps of the page. *)

Conversation3 == {"none", "absent", "present"}
Count == 0..Len(rows)

LEMMA Queries ==
    ASSUME TypeOK
    PROVE  resolved \in Query(Conversation3) /\ history \in Query(Count) /\ list \in Query(Count)
  BY DEF TypeOK, Conversation3, Count

\* What a step has to do with the page for it to keep its promises.
LEMMA PageMoves ==
    ASSUME UNCHANGED <<rows, composed>>, Sound(thread'), OnceEach(thread', mixed'),
           handled' \subseteq Ids(thread'), Known' => Shown(history'.data) \subseteq Ids(thread'),
           emitted'.read <= PartnerLatest(thread'),
           focused' /\ Known' => emitted'.read = PartnerLatest(thread')
    PROVE  Sound(thread)' /\ OnceEach(thread, mixed)' /\ Held' /\ Marked'
<1>1. Sound(thread)' /\ OnceEach(thread, mixed)'
  BY DEF Sound, OnceEach, About
<1>2. Ids(thread)' = Ids(thread') /\ Theirs(thread)' = Theirs(thread')
  BY DEF Ids, Theirs
<1>3. PartnerLatest(thread)' = PartnerLatest(thread')
  BY <1>2 DEF PartnerLatest
<1> QED BY <1>1, <1>2, <1>3 DEF Held, Marked, Shown

\* A step that leaves the page alone, and what the caches hold of it.
LEMMA PageKept ==
    ASSUME IInv, UNCHANGED <<rows, composed, mounted, focused, thread, emitted, handled, mixed>>,
           mounted /\ Known' => Known /\ history'.data = history.data
    PROVE  Sound(thread)' /\ OnceEach(thread, mixed)' /\ Held' /\ Marked'
<1>1. Sound(thread)' /\ OnceEach(thread, mixed)'
  BY DEF IInv, Sound, OnceEach, About
<1>2. Ids(thread)' = Ids(thread) /\ Theirs(thread)' = Theirs(thread)
  BY DEF Ids, Theirs
<1>3. PartnerLatest(thread)' = PartnerLatest(thread)
  BY <1>2 DEF PartnerLatest
<1> QED BY <1>1, <1>2, <1>3 DEF IInv, Held, Marked, Shown

\* A page with nothing on it keeps its promises.
LEMMA EmptyPage ==
    ASSUME TypeOK, NEW X
    PROVE  Sound({}) /\ OnceEach({}, X) /\ Ids({}) = {} /\ PartnerLatest({}) = 0
<1>1. Sound({}) /\ OnceEach({}, X) /\ Ids({}) = {}
  BY DEF Sound, OnceEach, Ids
<1>2. Theirs({}) = {}
  BY <1>1 DEF Theirs
<1>3. PartnerLatest({}) \in {} \cup {0}
  BY <1>1, <1>2, Latest
<1> QED BY <1>1, <1>3

\* What the wire carries is left alone.
LEMMA WireKept ==
    ASSUME IInv, UNCHANGED <<rows, sends, composed>>, frames' \subseteq frames
    PROVE  OwnOnce' /\ FramesTell'
  BY DEF IInv, OwnOnce, FramesTell, Rowless

LEMMA MountIInv ==
    ASSUME IInv, Mount PROVE IInv'
<1>0. TypeOK /\ Recent /\ OwnOnce /\ AckComes
  BY DEF IInv
<1>1. /\ ~mounted /\ mounted' = TRUE /\ focused' \in BOOLEAN
      /\ resolved' = OnMount(resolved)
      /\ history' = IF Known THEN OnMount(history) ELSE history
      /\ handled' = {} /\ mixed' = {} /\ floor' = aged /\ broken' = FALSE
      /\ UNCHANGED <<rows, sends, frames, link, list, acked, composed, unheard, aged, faults>>
  BY DEF Mount, server, aux
<1> DEFINE T == IF Known THEN Merged({}, history.data) ELSE {}
<1>2. thread' = T /\ EmitMarks(T, Known, focused', Unemitted)
  BY DEF Mount
<1>3. /\ resolved' \in Query(Conversation3) /\ history' \in Query(Count)
      /\ resolved'.data = resolved.data /\ resolved'.fresh = resolved.fresh /\ resolved'.got = resolved.got
      /\ history'.data = history.data /\ history'.fresh = history.fresh /\ history'.got = history.got
      /\ resolved'.pc = "read" => resolved.pc = "read"
      /\ history'.pc = "read" => history.pc = "read"
      /\ resolved'.pc = "idle" => resolved.fresh
      /\ Known /\ history'.pc = "idle" => history.fresh
      /\ history.data \in Count
  BY <1>0, <1>1, Queries, QueryMoves
<1>4. Sound(T) /\ OnceEach(T, {}) /\ (Known => Shown(history.data) \subseteq Ids(T))
  <2>1. Sound({}) /\ OnceEach({}, {})
    BY <1>0, EmptyPage
  <2>2. Clash({}, history.data) = {}
    BY DEF Clash
  <2>3. /\ Sound(Merged({}, history.data)) /\ OnceEach(Merged({}, history.data), {} \cup {})
        /\ Ids(Merged({}, history.data)) = Ids({}) \cup Shown(history.data)
    BY <1>0, <1>3, <2>1, <2>2, HistoryArrives DEF Count
  <2> QED BY <2>1, <2>3
<1> HIDE DEF T
<1>5. /\ emitted' \in Marks(Len(rows)) /\ emitted'.read <= PartnerLatest(T)
      /\ Known /\ focused' => emitted'.read = PartnerLatest(T)
  <2>1. Unemitted \in Marks(Len(rows)) /\ Unemitted.read <= PartnerLatest(T)
    BY <1>0, <1>4, Latest, RowShape DEF Unemitted, Marks
  <2>2. Known \in BOOLEAN
    BY DEF Known
  <2> QED BY <1>0, <1>1, <1>2, <1>4, <2>1, <2>2, Latest, Marking
<1>6. Known' <=> Known
  BY <1>3 DEF Known
<1>7. Sound(thread)' /\ OnceEach(thread, mixed)' /\ Held' /\ Marked'
  BY <1>1, <1>2, <1>3, <1>4, <1>5, <1>6, PageMoves
<1>8. TypeOK'
  <2>1. thread' \subseteq Entry /\ \A m \in thread' : m.id <= Len(rows) /\ (m.status = "sending" => m.id = 0)
    BY <1>2, <1>4 DEF Sound
  <2>2. emitted' \in [read : 0..Len(rows), delivered : 0..Len(rows)]
    BY <1>5 DEF Marks
  <2>3. floor' \in 0..aged' /\ handled' \subseteq 1..Len(rows) /\ mixed' \subseteq 1..Len(rows)
    BY <1>0, <1>1 DEF TypeOK
  <2> QED BY <1>0, <1>1, <1>3, <2>1, <2>2, <2>3 DEF TypeOK, Count, Conversation3
<1>9. OwnOnce' /\ FramesTell'
  BY <1>1, WireKept
<1>10. Recent' /\ OldComes'
  BY <1>0, <1>1, <1>3, <1>6 DEF Recent, OldComes, Known
<1>11. AckComes'
  BY <1>0, <1>1 DEF AckComes
<1> QED BY <1>7, <1>8, <1>9, <1>10, <1>11 DEF IInv

LEMMA UnmountIInv ==
    ASSUME IInv, Unmount PROVE IInv'
<1>0. TypeOK /\ Recent /\ AckComes
  BY DEF IInv
<1>1. /\ mounted' = FALSE /\ focused' = FALSE /\ thread' = {} /\ emitted' = Unemitted
      /\ handled' = {} /\ mixed' = {} /\ floor' = 0 /\ broken' = FALSE
      /\ UNCHANGED <<rows, sends, frames, link, resolved, history, list, acked, composed, unheard, aged, faults>>
  BY DEF Unmount, server, queries, aux
<1>2. Sound(thread)' /\ OnceEach(thread, mixed)' /\ Held' /\ Marked'
  BY <1>1 DEF Sound, OnceEach, Held, Marked
<1>3. TypeOK'
  <2>1. emitted' \in [read : 0..Len(rows), delivered : 0..Len(rows)]
    BY <1>0, <1>1, RowShape DEF Unemitted
  <2>2. floor' \in 0..aged'
    BY <1>0, <1>1 DEF TypeOK
  <2> QED BY <1>0, <1>1, <2>1, <2>2 DEF TypeOK
<1>4. OwnOnce' /\ FramesTell'
  BY <1>1, WireKept
<1>5. Recent' /\ OldComes' /\ AckComes'
  BY <1>0, <1>1 DEF Recent, OldComes, AckComes
<1> QED BY <1>2, <1>3, <1>4, <1>5 DEF IInv

LEMMA SetFocusIInv ==
    ASSUME IInv, SetFocus PROVE IInv'
<1>0. /\ TypeOK /\ Recent /\ OldComes /\ AckComes /\ Sound(thread) /\ OnceEach(thread, mixed)
      /\ Held /\ Marked
  BY DEF IInv
<1>1. /\ mounted /\ focused' = ~focused /\ EmitMarks(thread, Known, focused', emitted)
      /\ UNCHANGED <<rows, sends, frames, link, resolved, history, list, mounted, thread, handled>>
      /\ UNCHANGED <<mixed, floor, broken, acked, composed, unheard, aged, faults>>
  BY DEF SetFocus, server, queries, aux
<1>2. /\ emitted' \in Marks(Len(rows)) /\ emitted'.read <= PartnerLatest(thread)
      /\ Known /\ focused' => emitted'.read = PartnerLatest(thread)
  <2>1. Known \in BOOLEAN /\ focused' \in BOOLEAN /\ emitted \in Marks(Len(rows))
    BY <1>0, <1>1 DEF Known, TypeOK, Marks
  <2> QED BY <1>0, <1>1, <2>1, Latest, Marking DEF Marked
<1>3. Known' <=> Known
  BY <1>1 DEF Known
<1>4. Sound(thread)' /\ OnceEach(thread, mixed)' /\ Held' /\ Marked'
  BY <1>0, <1>1, <1>2, <1>3, PageMoves DEF Held
<1>5. TypeOK'
  BY <1>0, <1>1, <1>2 DEF TypeOK, Marks
<1>6. OwnOnce' /\ FramesTell'
  BY <1>1, WireKept
<1>7. Recent' /\ OldComes' /\ AckComes'
  BY <1>0, <1>1, <1>3 DEF Recent, OldComes, AckComes
<1> QED BY <1>4, <1>5, <1>6, <1>7 DEF IInv

\* The clientMsgId of a message just composed is in no row and in no entry.
LEMMA ComposeIInv ==
    ASSUME IInv, Compose PROVE IInv'
<1>0. /\ TypeOK /\ OwnOnce /\ FramesTell /\ Recent /\ OldComes /\ AckComes
      /\ Sound(thread) /\ OnceEach(thread, mixed) /\ Held /\ Marked
  BY DEF IInv
<1> DEFINE new == [id |-> 0, cid |-> composed', status |-> IF link = "live" THEN "sending" ELSE "failed"]
           T == thread \cup {new}
<1>1. /\ mounted /\ composed < MaxMine /\ Len(rows) + Cardinality(sends) < MaxRows
      /\ composed' = composed + 1
      /\ sends' = IF link = "live" THEN sends \cup {composed'} ELSE sends
      /\ thread' = T /\ EmitMarks(T, Known, focused, emitted)
      /\ UNCHANGED <<rows, frames, link, resolved, history, list, mounted, focused, handled>>
      /\ UNCHANGED <<mixed, floor, broken, acked, unheard, aged, faults>>
  BY DEF Compose, Render, queries
<1>2. composed \in Nat /\ composed' \in Nat /\ composed' \in Mine /\ composed' > composed
      /\ composed' <= MaxMine /\ composed' # 0
  BY <1>0, <1>1, ConversationBounds DEF TypeOK, Mine
<1>3. /\ \A i \in 1..Len(rows) : rows[i] # composed'
      /\ \A m \in thread : m.cid # composed'
  BY <1>0, <1>2, RowShape, EntryShape DEF OwnOnce
<1>4. new.id = 0 /\ new.cid = composed' /\ new \in Entry
  BY <1>2, ConversationBounds DEF Entry
<1>5. \A j \in 1..Len(rows) : ~About(new, j)
  BY <1>2, <1>3, <1>4 DEF About
<1> HIDE DEF new
<1>6. ASSUME NEW m \in T
      PROVE  /\ m \in Entry /\ m.id <= Len(rows) /\ m.cid <= composed'
             /\ m.id # 0 => m.status = "sent" /\ (m.cid # 0 => rows[m.id] = m.cid)
  <2>1. CASE m = new
    BY <1>0, <1>2, <1>4, <2>1, RowShape
  <2>2. CASE m \in thread
    <3>1. m.cid \in 0..composed /\ m \in Entry
      BY <1>0, <2>2, EntryShape DEF Sound
    <3> QED BY <1>0, <1>2, <2>2, <3>1 DEF Sound
  <2> QED BY <2>1, <2>2
<1>7. Sound(thread)'
  <2>1. thread' = T /\ rows' = rows
    BY <1>1
  <2> HIDE DEF T
  <2> QED BY <1>6, <2>1 DEF Sound
<1>8. OnceEach(thread, mixed)'
  <2>1. ASSUME NEW j \in (1..Len(rows)) \ mixed, NEW m \in T, NEW o \in T, About(m, j), About(o, j)
        PROVE  m = o
    BY <1>0, <1>5, <2>1 DEF OnceEach
  <2>2. ASSUME NEW k \in Mine, \A i \in 1..Len(rows) : rows[i] # k,
               NEW m \in T, NEW o \in T, m.cid = k, o.cid = k
        PROVE  m = o
    <3>1. CASE k = composed'
      BY <1>3, <2>2, <3>1
    <3>2. CASE k # composed'
      BY <1>0, <1>4, <2>2, <3>2 DEF OnceEach
    <3> QED BY <3>1, <3>2
  <2>3. \A m \in T : \A j \in 1..Len(rows) : About(m, j)' <=> About(m, j)
    BY <1>1 DEF About
  <2> QED BY <1>1, <2>1, <2>2, <2>3 DEF OnceEach, About
<1>9. Ids(T) = Ids(thread) /\ Ids(thread)' = Ids(thread)
  BY <1>1, <1>4 DEF Ids
<1>10. PartnerLatest(T) = PartnerLatest(thread) /\ PartnerLatest(thread)' = PartnerLatest(thread)
  <2>1. Theirs(T) = Theirs(thread) /\ Theirs(thread)' = Theirs(thread)
    BY <1>1, <1>9 DEF Theirs
  <2> QED BY <2>1 DEF PartnerLatest
<1>11. /\ emitted' \in Marks(Len(rows)) /\ emitted'.read <= PartnerLatest(T)
       /\ Known /\ focused => emitted'.read = PartnerLatest(T)
  <2>1. Known \in BOOLEAN /\ focused \in BOOLEAN /\ emitted \in Marks(Len(rows))
    BY <1>0 DEF Known, TypeOK, Marks
  <2>2. PartnerLatest(T) \in 0..Len(rows) /\ emitted.read <= PartnerLatest(T)
    BY <1>0, <1>1, <1>10, Latest DEF Marked
  <2> HIDE DEF T
  <2> QED BY <1>0, <1>1, <2>1, <2>2, Marking
<1>12. Known' <=> Known
  BY <1>1 DEF Known
<1>13. Held' /\ Marked'
  BY <1>0, <1>1, <1>9, <1>10, <1>11, <1>12 DEF Held, Marked, Shown
<1>14. IsFiniteSet(sends) /\ Cardinality(sends) \in Nat /\ composed' \notin sends
  <2>1. sends \subseteq 1..composed
    BY <1>0 DEF TypeOK
  <2>2. IsFiniteSet(1..composed)
    BY <1>2, FS_Interval
  <2>3. IsFiniteSet(sends)
    BY <2>1, <2>2, FS_Subset
  <2>4. composed' \notin 1..composed
    BY <1>2
  <2> QED BY <2>1, <2>3, <2>4, FS_CardinalityType
<1>15. OwnOnce'
  <2>1. Len(rows) + Cardinality(sends') <= MaxRows
    <3>1. Cardinality(sends \cup {composed'}) = Cardinality(sends) + 1
      BY <1>14, FS_AddElement
    <3> QED BY <1>1, <1>14, <3>1, RowShape, <1>0, ConversationBounds
  <2>2. \A i \in 1..Len(rows) : rows[i] <= composed' /\ rows[i] \notin sends'
    BY <1>0, <1>1, <1>2, <1>3, RowShape DEF OwnOnce
  <2> QED BY <1>0, <1>1, <2>1, <2>2 DEF OwnOnce
<1>16. FramesTell'
  BY <1>0, <1>1, <1>2 DEF FramesTell, Rowless
<1>17. TypeOK'
  <2>1. sends' \subseteq 1..composed' /\ composed' \in 0..MaxMine
    <3>1. sends \subseteq 1..composed
      BY <1>0 DEF TypeOK
    <3>2. 1..composed \subseteq 1..composed' /\ composed' \in 1..composed' /\ composed' \in 0..MaxMine
      BY <1>2, ConversationBounds
    <3> QED BY <1>1, <3>1, <3>2
  <2>2. emitted' \in [read : 0..Len(rows), delivered : 0..Len(rows)]
    BY <1>11 DEF Marks
  <2>3. \A m \in thread' : m.id <= Len(rows) /\ (m.status = "sending" => m.id = 0)
    BY <1>1, <1>6
  <2>4. thread' \subseteq Entry
    BY <1>1, <1>6
  <2> QED BY <1>0, <1>1, <2>1, <2>4, <2>2, <2>3 DEF TypeOK
<1>18. Recent' /\ OldComes' /\ AckComes'
  BY <1>0, <1>1, <1>12 DEF Recent, OldComes, AckComes
<1> QED BY <1>7, <1>8, <1>13, <1>15, <1>16, <1>17, <1>18 DEF IInv

-----------------------------------------------------------------------------
(* The steps of the service. *)

LEMMA SendsShape ==
    ASSUME TypeOK
    PROVE  IsFiniteSet(sends) /\ Cardinality(sends) \in Nat /\ 0 \notin sends /\ sends \subseteq 1..composed
<1>1. sends \subseteq 1..composed /\ composed \in Int
  BY ConversationBounds DEF TypeOK
<1>2. IsFiniteSet(1..composed)
  BY <1>1, FS_Interval
<1>3. IsFiniteSet(sends)
  BY <1>1, <1>2, FS_Subset
<1> QED BY <1>1, <1>3, FS_CardinalityType

\* Fewer messages on their way leave no more of them to come.
LEMMA FewerSends ==
    ASSUME IInv, UNCHANGED <<rows, composed>>, sends' \subseteq sends
    PROVE  OwnOnce' /\ sends' \subseteq 1..composed
<1>1. TypeOK /\ OwnOnce
  BY DEF IInv
<1>2. IsFiniteSet(sends) /\ Cardinality(sends) \in Nat /\ sends \subseteq 1..composed
  BY <1>1, SendsShape
<1>3. IsFiniteSet(sends') /\ Cardinality(sends') <= Cardinality(sends) /\ Cardinality(sends') \in Nat
  BY <1>2, FS_Subset, FS_CardinalityType
<1>4. Len(rows) + Cardinality(sends') <= MaxRows
  BY <1>1, <1>2, <1>3, RowShape, ConversationBounds DEF OwnOnce
<1> QED BY <1>1, <1>2, <1>4 DEF OwnOnce

\* A row that is added is of the partner, or of a message on its way.
LEMMA RowAdded ==
    ASSUME IInv, NEW r \in sends \cup {0}, rows' = Append(rows, r),
           UNCHANGED <<composed, page, resolved, history>>
    PROVE  /\ Len(rows') = Len(rows) + 1 /\ rows' \in Seq(0..MaxMine)
           /\ rows'[Len(rows')] = r /\ \A i \in 1..Len(rows) : rows'[i] = rows[i]
           /\ Sound(thread)' /\ OnceEach(thread, mixed)' /\ Held' /\ Marked'
<1>0. /\ TypeOK /\ OwnOnce /\ Sound(thread) /\ OnceEach(thread, mixed) /\ Held /\ Marked
  BY DEF IInv
<1>1. r \in 0..MaxMine
  <2>1. sends \subseteq 1..composed /\ composed \in 0..MaxMine
    BY <1>0, SendsShape, RowShape
  <2> QED BY <2>1, ConversationBounds
<1>2. rows \in Seq(0..MaxMine)
  BY <1>0 DEF TypeOK
<1>3. /\ Len(rows') = Len(rows) + 1 /\ rows' \in Seq(0..MaxMine)
      /\ rows'[Len(rows')] = r /\ \A i \in 1..Len(rows) : rows'[i] = rows[i]
  BY <1>1, <1>2
<1>4. /\ mounted' = mounted /\ focused' = focused /\ thread' = thread /\ emitted' = emitted
      /\ handled' = handled /\ mixed' = mixed
  BY DEF page
<1>5. Len(rows) \in Nat /\ \A m \in thread : m.id \in 0..Len(rows)
  BY <1>0, RowShape, EntryShape
<1>6. Sound(thread)'
  BY <1>0, <1>3, <1>4, <1>5 DEF Sound
<1>7. OnceEach(thread, mixed)'
  <2>1. \A j \in 1..Len(rows) : \A m : About(m, j)' <=> About(m, j)
    BY <1>3 DEF About
  <2>2. ASSUME NEW n, n = Len(rows'), NEW m \in thread, About(m, n)' PROVE m.cid = r /\ r \in Mine
    <3>1. m.id # n
      BY <1>3, <1>5, <2>2
    <3>2. m.cid # 0 /\ m.cid = rows'[n]
      BY <2>2, <3>1 DEF About
    <3>3. m.cid = r /\ r # 0
      BY <1>3, <2>2, <3>2
    <3> QED BY <1>1, <3>3, ConversationBounds DEF Mine
  <2>3. r \in Mine => \A i \in 1..Len(rows) : rows[i] # r
    BY <1>0, ConversationBounds DEF OwnOnce, Mine
  <2>4. ASSUME NEW j \in (1..Len(rows')) \ mixed, NEW m \in thread, NEW o \in thread,
               About(m, j)', About(o, j)'
        PROVE  m = o
    <3>1. CASE j \in 1..Len(rows)
      BY <1>0, <2>1, <2>4, <3>1 DEF OnceEach
    <3>2. CASE j = Len(rows')
      BY <1>0, <2>2, <2>3, <2>4, <3>2 DEF OnceEach
    <3>3. j \in 1..Len(rows) \/ j = Len(rows')
      BY <1>3, <1>5
    <3> QED BY <3>1, <3>2, <3>3
  <2>5. ASSUME NEW k \in Mine, \A i \in 1..Len(rows') : rows'[i] # k,
               NEW m \in thread, NEW o \in thread, m.cid = k, o.cid = k
        PROVE  m = o
    <3>1. \A i \in 1..Len(rows) : rows[i] # k
      BY <1>3, <1>5, <2>5
    <3> QED BY <1>0, <2>5, <3>1 DEF OnceEach
  <2> QED BY <1>4, <2>4, <2>5 DEF OnceEach
<1>8. Ids(thread)' = Ids(thread)
  BY <1>4 DEF Ids
<1>9. PartnerLatest(thread)' = PartnerLatest(thread)
  <2>1. Ids(thread) \subseteq 1..Len(rows)
    BY <1>5 DEF Ids
  <2>2. Theirs(thread)' = Theirs(thread)
    BY <1>3, <1>8, <2>1 DEF Theirs
  <2> QED BY <2>2 DEF PartnerLatest
<1>10. Held' /\ Marked'
  BY <1>0, <1>4, <1>8, <1>9 DEF Held, Marked, Shown, Known
<1> QED BY <1>3, <1>6, <1>7, <1>10

\* A row more leaves room for every query, mark and frame there was.
LEMMA PersistedIInv ==
    ASSUME IInv, NEW r \in sends \cup {0}, Persisted(r), sends' = sends \ {r},
           r = 0 => Len(rows) + Cardinality(sends) < MaxRows,
           UNCHANGED <<link, queries, page, acked, composed, aged, faults>>
    PROVE  IInv'
<1>0. TypeOK /\ OwnOnce /\ FramesTell /\ Recent /\ OldComes /\ AckComes
  BY DEF IInv
<1>1. /\ rows' = Append(rows, r) /\ Publish(Outbound(r, Len(rows')))
      /\ unheard' = IF link = "connecting" THEN unheard \cup {Len(rows')} ELSE unheard
      /\ UNCHANGED <<resolved, history, list>>
      /\ mounted' = mounted /\ focused' = focused /\ thread' = thread /\ emitted' = emitted
      /\ handled' = handled /\ mixed' = mixed /\ floor' = floor /\ broken' = broken
  BY DEF Persisted, queries, page
<1>2. /\ Len(rows') = Len(rows) + 1 /\ rows' \in Seq(0..MaxMine)
      /\ rows'[Len(rows')] = r /\ \A i \in 1..Len(rows) : rows'[i] = rows[i]
      /\ Sound(thread)' /\ OnceEach(thread, mixed)' /\ Held' /\ Marked'
  BY <1>1, RowAdded
<1>3. /\ Len(rows) \in Nat /\ Len(rows') \in Nat /\ MaxRows \in Nat /\ composed \in Nat
      /\ IsFiniteSet(sends) /\ Cardinality(sends) \in Nat /\ 0 \notin sends /\ sends \subseteq 1..composed
  BY <1>0, <1>2, RowShape, SendsShape, ConversationBounds
<1>4. Len(rows') + Cardinality(sends') <= MaxRows /\ Cardinality(sends') \in Nat
  <2>1. CASE r = 0
    <3>1. sends' = sends
      BY <1>3, <2>1
    <3>2. Cardinality(sends') = Cardinality(sends) /\ Len(rows) + Cardinality(sends) < MaxRows
      BY <2>1, <3>1
    <3> QED BY <1>2, <1>3, <3>2
  <2>2. CASE r \in sends
    <3>1. Cardinality(sends') = Cardinality(sends) - 1
      BY <1>3, <2>2, FS_RemoveElement
    <3>2. IsFiniteSet(sends') /\ Cardinality(sends') \in Nat
      BY <1>3, FS_Subset, FS_CardinalityType
    <3> QED BY <1>0, <1>2, <1>3, <3>1, <3>2 DEF OwnOnce
  <2> QED BY <2>1, <2>2
<1>5. OwnOnce'
  <2>1. ASSUME NEW i \in 1..Len(rows'), NEW j \in 1..Len(rows'), rows'[i] = rows'[j], rows'[i] # 0
        PROVE  i = j
    <3>1. i \in 1..Len(rows) \/ i = Len(rows')
      BY <1>2, <1>3
    <3>2. j \in 1..Len(rows) \/ j = Len(rows')
      BY <1>2, <1>3
    <3> QED BY <1>0, <1>2, <2>1, <3>1, <3>2 DEF OwnOnce
  <2>2. ASSUME NEW i \in 1..Len(rows') PROVE rows'[i] <= composed /\ rows'[i] \notin sends'
    <3>1. i \in 1..Len(rows) \/ i = Len(rows')
      BY <1>2, <1>3
    <3>2. r <= composed
      BY <1>3
    <3> QED BY <1>0, <1>2, <3>1, <3>2 DEF OwnOnce
  <2> QED BY <1>4, <2>1, <2>2 DEF OwnOnce
<1> DEFINE news == Outbound(r, Len(rows'))
<1>6. \A f \in news : \/ f = [type |-> "received", n |-> Len(rows')]
                      \/ f = [type |-> "sent", n |-> Len(rows')] /\ r # 0
  BY DEF Outbound
<1>7. frames' \subseteq frames \cup news /\ (link # "live" => frames' = {})
  BY <1>1 DEF Publish
<1>8. Len(rows') \in Message
  BY <1>2, <1>3, <1>4 DEF Message
<1>9. frames' \subseteq Frame
  <2>1. frames \subseteq Frame
    BY <1>0 DEF TypeOK
  <2>2. news \subseteq Frame
    BY <1>6, <1>8 DEF Frame
  <2> QED BY <1>7, <2>1, <2>2
<1>10. FramesTell'
  <2> SUFFICES ASSUME NEW f \in frames'
               PROVE  /\ f.type # "rejected" => f.n <= Len(rows')
                      /\ f.type = "sent" => rows'[f.n] # 0
                      /\ f.type = "rejected" => Rowless(f.n)'
    BY DEF FramesTell
  <2>1. CASE f \in news
    BY <1>2, <1>3, <1>6, <2>1
  <2>2. CASE f \in frames
    <3>1. f.type \in {"received", "sent"} => f.n \in Message
      BY <1>0, <2>2 DEF TypeOK, Frame, Mine
    <3>2. f.type \in {"received", "sent", "rejected"}
      BY <1>0, <2>2 DEF TypeOK, Frame
    <3>3. f.type # "rejected" => f.n \in 1..Len(rows)
      BY <1>0, <1>3, <2>2, <3>1, <3>2 DEF FramesTell, Message
    <3>4. f.type = "rejected" => Rowless(f.n)'
      <4>1. ASSUME f.type = "rejected" PROVE Rowless(f.n)
        BY <1>0, <2>2, <4>1 DEF FramesTell
      <4>2. ASSUME Rowless(f.n) PROVE f.n # r
        BY <1>3, <4>2 DEF Rowless
      <4>3. ASSUME Rowless(f.n), NEW i \in 1..Len(rows') PROVE rows'[i] # f.n
        <5>1. i \in 1..Len(rows) \/ i = Len(rows')
          BY <1>2, <1>3
        <5> QED BY <1>2, <4>2, <4>3, <5>1 DEF Rowless
      <4> QED BY <4>1, <4>3 DEF Rowless
    <3> QED BY <1>0, <1>2, <1>3, <2>2, <3>2, <3>3, <3>4 DEF FramesTell
  <2> QED BY <1>7, <2>1, <2>2
<1>11. TypeOK'
  <2>1. Count \subseteq 0..Len(rows') /\ 1..Len(rows) \subseteq 1..Len(rows')
    BY <1>2, <1>3 DEF Count
  <2>2. resolved' \in Query(Conversation3) /\ history' \in Query(0..Len(rows')) /\ list' \in Query(0..Len(rows'))
    BY <1>0, <1>1, <2>1, Queries DEF Query
  <2>3. emitted' \in [read : 0..Len(rows'), delivered : 0..Len(rows')]
    BY <1>0, <1>1, <2>1 DEF TypeOK, Count
  <2>4. /\ acked' \in 0..Len(rows') /\ aged' \in 0..Len(rows')
        /\ handled' \subseteq 1..Len(rows') /\ mixed' \subseteq 1..Len(rows') /\ unheard' \subseteq 1..Len(rows')
    <3>1. /\ acked \in Count /\ aged \in Count /\ handled \subseteq 1..Len(rows)
          /\ mixed \subseteq 1..Len(rows) /\ unheard \subseteq 1..Len(rows)
      BY <1>0 DEF TypeOK, Count
    <3>2. Len(rows') \in 1..Len(rows')
      BY <1>2, <1>3
    <3>3. unheard' \subseteq 1..Len(rows')
      BY <1>1, <2>1, <3>1, <3>2
    <3>4. acked' = acked /\ aged' = aged
      OBVIOUS
    <3> QED BY <1>1, <2>1, <3>1, <3>3, <3>4
  <2>5. thread' \subseteq Entry /\ \A m \in thread' : m.id <= Len(rows') /\ (m.status = "sending" => m.id = 0)
    BY <1>2 DEF Sound
  <2>6. Len(rows') <= MaxRows /\ sends' \subseteq 1..composed'
    BY <1>2, <1>3, <1>4
  <2>7. link' = link /\ faults' = faults /\ composed' = composed
    OBVIOUS
  <2> QED BY <1>0, <1>1, <1>2, <1>7, <1>9, <2>2, <2>3, <2>4, <2>5, <2>6, <2>7 DEF TypeOK, Conversation3
<1>12. Recent' /\ OldComes'
  BY <1>0, <1>1 DEF Recent, OldComes, Known
<1>13. AckComes'
  <2> SUFFICES ASSUME Len(rows') \notin unheard', r = 0
               PROVE  [type |-> "received", n |-> Len(rows')] \in frames' \/ link' = "down"
    BY <1>2 DEF AckComes
  <2>1. link \in {"connecting", "live", "down"} /\ link # "connecting"
    BY <1>0, <1>1 DEF TypeOK
  <2> QED BY <1>1, <2>1 DEF Publish, Outbound
<1> QED BY <1>2, <1>5, <1>10, <1>11, <1>12, <1>13 DEF IInv

LEMMA PartnerSendsIInv ==
    ASSUME IInv, PartnerSends PROVE IInv'
<1>1. 0 \notin sends
  BY SendsShape DEF IInv
<1>2. sends' = sends \ {0}
  BY <1>1 DEF PartnerSends
<1> QED BY <1>2, PersistedIInv DEF PartnerSends

LEMMA PersistIInv ==
    ASSUME IInv, NEW k \in Mine, Persist(k) PROVE IInv'
  BY PersistedIInv DEF Persist, Mine

LEMMA RejectIInv ==
    ASSUME IInv, NEW k \in Mine, Reject(k) PROVE IInv'
<1>0. TypeOK /\ OwnOnce /\ FramesTell /\ Recent /\ OldComes /\ AckComes
  BY DEF IInv
<1> DEFINE F == {[type |-> "rejected", n |-> k]}
<1>1. /\ k \in sends /\ sends' = sends \ {k} /\ frames' = IF link = "live" THEN frames \cup F ELSE {}
      /\ UNCHANGED <<rows, link, resolved, history, list, page, acked, composed, unheard, aged, faults>>
  BY DEF Reject, Publish, queries, aux
<1>2. OwnOnce' /\ sends' \subseteq 1..composed
  BY <1>1, FewerSends
<1>3. FramesTell'
  <2>1. Rowless(k)'
    <3>1. k \in 1..composed /\ \A i \in 1..Len(rows) : rows[i] # k
      BY <1>0, <1>1, SendsShape DEF OwnOnce
    <3> QED BY <1>1, <3>1 DEF Rowless
  <2>2. ASSUME NEW j, Rowless(j) PROVE Rowless(j)'
    BY <1>1, <2>2 DEF Rowless
  <2> QED BY <1>0, <1>1, <2>1, <2>2 DEF FramesTell
<1>4. frames' \subseteq Frame /\ (link' # "live" => frames' = {})
  BY <1>0, <1>1 DEF TypeOK, Frame
<1>5. Sound(thread)' /\ OnceEach(thread, mixed)' /\ Held' /\ Marked'
  BY <1>1, PageKept DEF Known, page
<1>6. TypeOK'
  BY <1>0, <1>1, <1>2, <1>4 DEF TypeOK, page
<1>7. Recent' /\ OldComes'
  BY <1>0, <1>1 DEF Recent, OldComes, Known, page
<1>8. AckComes'
  <2>1. \A f \in frames : f \in frames' \/ link # "live"
    BY <1>1
  <2>2. link # "live" => frames = {}
    BY <1>0 DEF TypeOK
  <2> QED BY <1>0, <1>1, <2>1, <2>2 DEF AckComes
<1> QED BY <1>2, <1>3, <1>5, <1>6, <1>7, <1>8 DEF IInv

LEMMA RepublishIInv ==
    ASSUME IInv, NEW n \in Message, Republish(n) PROVE IInv'
<1>0. TypeOK /\ OwnOnce /\ FramesTell /\ Recent /\ OldComes /\ AckComes
  BY DEF IInv
<1> DEFINE F == Outbound(rows[n], n)
<1>1. /\ n <= Len(rows) /\ link = "live" /\ frames' = frames \cup F
      /\ faults < MaxFaults /\ faults' = faults + 1
      /\ UNCHANGED <<rows, sends, link, resolved, history, list, page, acked, composed, unheard, aged>>
  BY DEF Republish, Publish, Fault, server, queries
<1>2. \A f \in F : \/ f = [type |-> "received", n |-> n]
                   \/ f = [type |-> "sent", n |-> n] /\ rows[n] # 0
  BY DEF Outbound
<1>3. OwnOnce'
  BY <1>0, <1>1 DEF OwnOnce
<1>4. FramesTell'
  BY <1>0, <1>1, <1>2 DEF FramesTell, Rowless
<1>5. frames' \subseteq Frame
  <2>1. F \subseteq Frame
    BY <1>2 DEF Frame
  <2> QED BY <1>0, <1>1, <2>1 DEF TypeOK
<1>6. faults' \in 0..MaxFaults
  BY <1>0, <1>1, ConversationBounds DEF TypeOK
<1>7. Sound(thread)' /\ OnceEach(thread, mixed)' /\ Held' /\ Marked'
  BY <1>1, PageKept DEF Known, page
<1> HIDE DEF F
<1>8. TypeOK'
  BY <1>0, <1>1, <1>5, <1>6 DEF TypeOK, page
<1>9. Recent' /\ OldComes' /\ AckComes'
  BY <1>0, <1>1 DEF Recent, OldComes, AckComes, Known, page
<1> QED BY <1>3, <1>4, <1>7, <1>8, <1>9 DEF IInv

LEMMA LoseSendIInv ==
    ASSUME IInv, NEW k \in Mine, LoseSend(k) PROVE IInv'
<1>0. TypeOK /\ FramesTell /\ Recent /\ OldComes /\ AckComes
  BY DEF IInv
<1>1. /\ sends' = sends \ {k} /\ faults < MaxFaults /\ faults' = faults + 1
      /\ UNCHANGED <<rows, frames, link, resolved, history, list, page, acked, composed, unheard, aged>>
  BY DEF LoseSend, Fault, queries
<1>2. OwnOnce' /\ sends' \subseteq 1..composed
  BY <1>1, FewerSends
<1>3. FramesTell'
  BY <1>0, <1>1 DEF FramesTell, Rowless
<1>4. faults' \in 0..MaxFaults
  BY <1>0, <1>1, ConversationBounds DEF TypeOK
<1>5. Sound(thread)' /\ OnceEach(thread, mixed)' /\ Held' /\ Marked'
  BY <1>1, PageKept DEF Known, page
<1>6. TypeOK'
  BY <1>0, <1>1, <1>2, <1>4 DEF TypeOK, page
<1>7. Recent' /\ OldComes' /\ AckComes'
  BY <1>0, <1>1 DEF Recent, OldComes, AckComes, Known, page
<1> QED BY <1>2, <1>3, <1>5, <1>6, <1>7 DEF IInv

\* A frame that is dropped is one the list has to make up for.
LEMMA DropIInv ==
    ASSUME IInv, NEW f \in frames, Drop(f) PROVE IInv'
<1>0. TypeOK /\ FramesTell /\ Recent /\ OldComes /\ AckComes
  BY DEF IInv
<1>1. /\ frames' = frames \ {f} /\ faults < MaxFaults /\ faults' = faults + 1
      /\ unheard' = IF f.type = "received" THEN unheard \cup {f.n} ELSE unheard
      /\ UNCHANGED <<rows, sends, link, resolved, history, list, page, acked, composed, aged>>
  BY DEF Drop, Fault, server, queries
<1>2. OwnOnce' /\ FramesTell'
  BY <1>1, WireKept
<1>3. f.type = "received" => f.n \in 1..Len(rows)
  <2>1. f.type = "received" => f.n \in Message /\ f.n <= Len(rows)
    BY <1>0 DEF TypeOK, Frame, FramesTell
  <2> QED BY <1>0, <2>1, RowShape DEF Message
<1>4. faults' \in 0..MaxFaults /\ unheard' \subseteq 1..Len(rows)
  <2>1. unheard \subseteq 1..Len(rows) /\ faults \in 0..MaxFaults
    BY <1>0 DEF TypeOK
  <2>2. faults' \in 0..MaxFaults
    BY <1>1, <2>1, ConversationBounds
  <2> QED BY <1>1, <1>3, <2>1, <2>2
<1>5. Sound(thread)' /\ OnceEach(thread, mixed)' /\ Held' /\ Marked'
  BY <1>1, PageKept DEF Known, page
<1>6. TypeOK'
  BY <1>0, <1>1, <1>4 DEF TypeOK, page
<1>7. Recent' /\ OldComes' /\ AckComes'
  BY <1>0, <1>1 DEF Recent, OldComes, AckComes, Known, page
<1> QED BY <1>2, <1>5, <1>6, <1>7 DEF IInv

-----------------------------------------------------------------------------
(* The answers, the link and time. *)

\* A count the list has is one of rows, and acking one acks a message there is.
LEMMA AcksShape ==
    ASSUME TypeOK, NEW n \in 1..Len(rows), NEW up \in BOOLEAN
    PROVE  /\ Acks(n, up) \in 0..Len(rows) /\ Acks(n, up) >= acked
           /\ up /\ rows[n] = 0 => Acks(n, up) >= n
<1>1. acked \in 0..Len(rows) /\ Len(rows) \in Nat
  BY DEF TypeOK
<1> QED BY <1>1 DEF Acks

LEMMA ReadIInv ==
    ASSUME IInv, Read PROVE IInv'
<1>0. TypeOK /\ FramesTell /\ Recent /\ OldComes /\ AckComes
  BY DEF IInv
<1>1. /\ UNCHANGED <<rows, sends, frames, link, page, acked, composed, aged, faults>>
      /\ ReadConversation \/ ReadHistory \/ ReadList
  BY DEF Read, server
<1>2. OwnOnce' /\ FramesTell'
  BY <1>1, WireKept
<1>3. Len(rows) \in Nat /\ aged \in 0..Len(rows) /\ Len(rows) \in Count
  BY <1>0 DEF TypeOK, Count
<1>4. /\ resolved \in Query(Conversation3) /\ history \in Query(Count) /\ list \in Query(Count)
      /\ resolved.pc \in {"idle", "asked", "read"} /\ history.data \in Count /\ list.data \in Count
  BY <1>0, Queries, QueryMoves
<1>5. CASE ReadConversation
  <2>1. /\ UNCHANGED <<history, list, unheard>> /\ resolved' \in Query(Conversation3)
        /\ resolved.pc = "asked" /\ resolved'.pc = "read" /\ resolved'.data = resolved.data
        /\ resolved'.fresh = resolved.fresh
        /\ resolved'.got = IF rows = <<>> THEN "absent" ELSE "present"
    <3> DEFINE v == IF rows = <<>> THEN "absent" ELSE "present"
    <3>1. v \in Conversation3 /\ resolved.pc = "asked" /\ resolved' = Answered(resolved, v)
      BY <1>5 DEF ReadConversation, Conversation3
    <3>2. UNCHANGED <<history, list, unheard>>
      BY <1>5 DEF ReadConversation
    <3> HIDE DEF v
    <3>3. /\ resolved' \in Query(Conversation3) /\ resolved'.pc = "read" /\ resolved'.got = v
          /\ resolved'.data = resolved.data /\ resolved'.fresh = resolved.fresh
      BY <1>4, <3>1, Answering
    <3> QED BY <3>1, <3>2, <3>3 DEF v
  <2>2. aged > 0 => resolved'.got = "present"
    <3>1. aged > 0 => Len(rows) > 0
      BY <1>3
    <3>2. rows = <<>> => Len(rows) = 0
      OBVIOUS
    <3> QED BY <2>1, <3>1, <3>2
  <2>3. Sound(thread)' /\ OnceEach(thread, mixed)' /\ Held' /\ Marked'
    BY <1>1, <2>1, PageKept DEF Known, page
  <2>4. TypeOK'
    BY <1>0, <1>1, <2>1 DEF TypeOK, page, Conversation3
  <2>5. Recent' /\ OldComes' /\ AckComes'
    BY <1>0, <1>1, <2>1, <2>2 DEF Recent, OldComes, AckComes, Known, page
  <2> QED BY <1>2, <2>3, <2>4, <2>5 DEF IInv
<1>6. CASE ReadHistory
  <2>1. /\ UNCHANGED <<resolved, list, unheard>> /\ history' \in Query(Count)
        /\ history.pc = "asked" /\ history'.pc = "read" /\ history'.data = history.data
        /\ history'.fresh = history.fresh /\ history'.got = Len(rows)
    <3>1. /\ history.pc = "asked" /\ history' = Answered(history, Len(rows)) /\ UNCHANGED <<resolved, list, unheard>>
      BY <1>6 DEF ReadHistory
    <3>2. PICK v \in Count : v = Len(rows) /\ history' = Answered(history, v)
      BY <1>3, <3>1
    <3>3. history \in Query(Count)
      BY <1>4
    <3>4. /\ history' \in Query(Count) /\ history'.pc = "read" /\ history'.data = history.data
          /\ history'.fresh = history.fresh /\ history'.got = v
      BY <3>2, <3>3, Answering
    <3> QED BY <3>1, <3>4, <3>2
  <2>3. Sound(thread)' /\ OnceEach(thread, mixed)' /\ Held' /\ Marked'
    BY <1>1, <2>1, PageKept DEF Known, page
  <2>4. TypeOK'
    BY <1>0, <1>1, <2>1 DEF TypeOK, page, Count
  <2>5. Recent' /\ OldComes' /\ AckComes'
    BY <1>0, <1>1, <1>3, <2>1 DEF Recent, OldComes, AckComes, Known, page
  <2> QED BY <1>2, <2>3, <2>4, <2>5 DEF IInv
<1>7. CASE ReadList
  <2>1. /\ UNCHANGED <<resolved, history>> /\ unheard' = {} /\ list' \in Query(Count)
        /\ list.pc = "asked" /\ list'.pc = "read" /\ list'.data = list.data
        /\ list'.got = Len(rows)
    <3>1. /\ list.pc = "asked" /\ list' = Answered(list, Len(rows)) /\ UNCHANGED <<resolved, history>> /\ unheard' = {}
      BY <1>7 DEF ReadList
    <3>2. PICK v \in Count : v = Len(rows) /\ list' = Answered(list, v)
      BY <1>3, <3>1
    <3>3. list \in Query(Count)
      BY <1>4
    <3>4. /\ list' \in Query(Count) /\ list'.pc = "read" /\ list'.data = list.data
          /\ list'.fresh = list.fresh /\ list'.got = v
      BY <3>2, <3>3, Answering
    <3> QED BY <3>1, <3>4, <3>2
  <2>3. Sound(thread)' /\ OnceEach(thread, mixed)' /\ Held' /\ Marked'
    BY <1>1, <2>1, PageKept DEF Known, page
  <2>4. TypeOK'
    BY <1>0, <1>1, <2>1 DEF TypeOK, page, Count
  <2>5. Recent'
    BY <1>0, <1>1, <1>3, <1>4, <2>1 DEF Recent, Count
  <2>6. OldComes' /\ AckComes'
    BY <1>0, <1>1, <2>1 DEF OldComes, AckComes, Known, page
  <2> QED BY <1>2, <2>3, <2>4, <2>5, <2>6 DEF IInv
<1> QED BY <1>1, <1>5, <1>6, <1>7

\* A list that has loaded brings the ack, if the link takes it.
LEMMA ShowListIInv ==
    ASSUME IInv, ShowList PROVE IInv'
<1>0. TypeOK /\ FramesTell /\ Recent /\ OldComes /\ AckComes
  BY DEF IInv
<1>1. /\ list.pc = "read" /\ list' = Kept(list)
      /\ acked' = IF list.got = 0 THEN acked ELSE Acks(list.got, link = "live")
      /\ UNCHANGED <<rows, sends, frames, link, resolved, history, page, composed, unheard, aged, faults>>
  BY DEF ShowList, server, aux
<1>2. list' \in Query(Count) /\ list'.data = list.got /\ list'.pc = "idle" /\ list.got \in Count /\ list.data \in Count
  BY <1>0, <1>1, Queries, QueryMoves
<1>3. Len(rows) \in Nat /\ acked \in 0..Len(rows) /\ link \in {"connecting", "live", "down"}
  BY <1>0 DEF TypeOK
<1>4. acked' \in 0..Len(rows) /\ acked' >= acked
  <2>1. list.got # 0 => list.got \in 1..Len(rows)
    BY <1>2, <1>3 DEF Count
  <2>2. (link = "live") \in BOOLEAN
    OBVIOUS
  <2>3. list.got # 0 => Acks(list.got, link = "live") \in 0..Len(rows) /\ Acks(list.got, link = "live") >= acked
    BY <1>0, <2>1, <2>2, AcksShape
  <2> QED BY <1>1, <1>3, <2>3
<1>5. Sound(thread)' /\ OnceEach(thread, mixed)' /\ Held' /\ Marked' /\ OwnOnce' /\ FramesTell'
  BY <1>1, PageKept, WireKept DEF Known, page
<1>6. TypeOK'
  BY <1>0, <1>1, <1>2, <1>4 DEF TypeOK, page, Count
<1>7. Recent' /\ OldComes'
  BY <1>0, <1>1, <1>2 DEF Recent, OldComes, Known, page
<1>8. AckComes'
  <2> DEFINE n == Len(rows)
  <2> SUFFICES ASSUME n > 0, n \notin unheard, rows[n] = 0
               PROVE  \/ acked' >= n \/ [type |-> "received", n |-> n] \in frames
                      \/ link = "down" \/ (link = "connecting" /\ list'.data = n)
    BY <1>1 DEF AckComes
  <2>1. \/ acked >= n \/ [type |-> "received", n |-> n] \in frames \/ list.got = n
        \/ link = "down" \/ (link = "connecting" /\ list.data = n)
    BY <1>0, <1>1 DEF AckComes
  <2>2. CASE list.got = n
    <3>1. ASSUME link = "live" PROVE acked' >= n
      <4>1. acked' = IF n > acked /\ rows[n] = 0 THEN n ELSE acked
        BY <1>1, <2>2, <3>1 DEF Acks
      <4> QED BY <1>3, <4>1
    <3> QED BY <1>2, <1>3, <2>2, <3>1
  <2>3. CASE link = "connecting" /\ list.data = n
    <3>1. list.got = n
      BY <1>0, <1>1, <1>2, <1>3, <2>3 DEF Recent, Count
    <3> QED BY <1>2, <2>3, <3>1
  <2>4. CASE acked >= n
    BY <1>3, <1>4, <2>4
  <2> QED BY <2>1, <2>2, <2>3, <2>4
<1> QED BY <1>5, <1>6, <1>7, <1>8 DEF IInv

\* A link that was down has the list asked for; one that connects for the first
\* time acks what the list has told.
LEMMA LinkUpIInv ==
    ASSUME IInv, LinkUp PROVE IInv'
<1>0. TypeOK /\ FramesTell /\ Recent /\ OldComes /\ AckComes
  BY DEF IInv
<1>1. /\ link # "live" /\ link' = "live" /\ list' = IF link = "down" THEN Ask(list) ELSE list
      /\ acked' = IF list.data = 0 THEN acked ELSE Acks(list.data, TRUE)
      /\ UNCHANGED <<rows, sends, frames, resolved, history, page, composed, unheard, aged, faults>>
  BY DEF LinkUp, Relisted, server, aux
<1>2. /\ list' \in Query(Count) /\ list'.data = list.data /\ list.data \in Count
      /\ link = "down" => list'.pc = "asked"
      /\ link # "down" => list' = list
  BY <1>0, <1>1, Queries, QueryMoves
<1>3. Len(rows) \in Nat /\ acked \in 0..Len(rows) /\ link \in {"connecting", "down"}
  BY <1>0, <1>1 DEF TypeOK
<1>4. acked' \in 0..Len(rows) /\ acked' >= acked
  <2>1. list.data # 0 => list.data \in 1..Len(rows)
    BY <1>2, <1>3 DEF Count
  <2>2. list.data # 0 => Acks(list.data, TRUE) \in 0..Len(rows) /\ Acks(list.data, TRUE) >= acked
    BY <1>0, <2>1, AcksShape
  <2>3. CASE list.data = 0
    BY <1>1, <1>3, <2>3
  <2>4. CASE list.data # 0
    BY <1>1, <2>2, <2>4
  <2> QED BY <2>3, <2>4
<1>5. Sound(thread)' /\ OnceEach(thread, mixed)' /\ Held' /\ Marked' /\ OwnOnce' /\ FramesTell'
  BY <1>1, PageKept, WireKept DEF Known, page
<1>6. TypeOK'
  BY <1>0, <1>1, <1>2, <1>4 DEF TypeOK, page, Count
<1>7. Recent' /\ OldComes'
  BY <1>0, <1>1, <1>2, <1>3 DEF Recent, OldComes, Known, page
<1>8. AckComes'
  <2> DEFINE n == Len(rows)
  <2> SUFFICES ASSUME n > 0, n \notin unheard, rows[n] = 0
               PROVE  \/ acked' >= n \/ list'.pc = "asked" \/ (list'.pc = "read" /\ list'.got = n)
    BY <1>1 DEF AckComes
  <2>1. \/ acked >= n \/ list.pc = "asked" \/ (list.pc = "read" /\ list.got = n)
        \/ link = "down" \/ (link = "connecting" /\ list.data = n)
    <3>1. frames = {}
      BY <1>0, <1>1 DEF TypeOK
    <3> QED BY <1>0, <3>1 DEF AckComes
  <2>2. CASE list.data = n
    <3>1. acked' = IF n > acked THEN n ELSE acked
      BY <1>1, <2>2 DEF Acks
    <3> QED BY <1>3, <3>1
  <2>3. CASE acked >= n
    BY <1>3, <1>4, <2>3
  <2> QED BY <1>2, <1>3, <2>1, <2>2, <2>3
<1> QED BY <1>5, <1>6, <1>7, <1>8 DEF IInv

LEMMA LinkDownIInv ==
    ASSUME IInv, LinkDown PROVE IInv'
<1>0. TypeOK /\ Recent /\ OldComes
  BY DEF IInv
<1>1. /\ link' = "down" /\ frames' = {} /\ sends' \subseteq sends
      /\ faults < MaxFaults /\ faults' = faults + 1
      /\ UNCHANGED <<rows, resolved, history, list, page, acked, composed, unheard, aged>>
  BY DEF LinkDown, Fault, queries
<1>2. OwnOnce' /\ sends' \subseteq 1..composed
  BY <1>1, FewerSends
<1>3. faults' \in 0..MaxFaults
  BY <1>0, <1>1, ConversationBounds DEF TypeOK
<1>4. Sound(thread)' /\ OnceEach(thread, mixed)' /\ Held' /\ Marked'
  BY <1>1, PageKept DEF Known, page
<1>5. TypeOK'
  BY <1>0, <1>1, <1>2, <1>3 DEF TypeOK, page
<1>6. FramesTell' /\ AckComes'
  BY <1>1 DEF FramesTell, AckComes
<1>7. Recent' /\ OldComes'
  BY <1>0, <1>1 DEF Recent, OldComes, Known, page
<1> QED BY <1>2, <1>4, <1>5, <1>6, <1>7 DEF IInv

\* A query that fails leaves the caches as they were, and the page broken.
LEMMA FailIInv ==
    ASSUME IInv, Fail PROVE IInv'
<1>0. TypeOK /\ Recent /\ OldComes /\ AckComes /\ Sound(thread) /\ OnceEach(thread, mixed) /\ Held /\ Marked
  BY DEF IInv
<1>1. /\ faults < MaxFaults /\ faults' = faults + 1
      /\ UNCHANGED <<rows, sends, frames, link, mounted, focused, thread, emitted, handled, mixed, floor>>
      /\ UNCHANGED <<acked, composed, aged>>
  BY DEF Fail, Fault, server
<1>2. \/ resolved' = Idle(resolved) /\ broken' = mounted /\ UNCHANGED <<history, list, unheard>>
      \/ history' = Idle(history) /\ broken' = mounted /\ UNCHANGED <<resolved, list, unheard>>
      \/ list' = Idle(list) /\ unheard' = 1..Len(rows) /\ UNCHANGED <<resolved, history, broken>>
  BY DEF Fail
<1>3. /\ resolved' \in Query(Conversation3) /\ history' \in Query(Count) /\ list' \in Query(Count)
      /\ resolved'.data = resolved.data /\ resolved'.fresh = resolved.fresh
      /\ history'.data = history.data /\ history'.fresh = history.fresh /\ list'.data = list.data
      /\ resolved' = resolved \/ resolved'.pc = "idle"
      /\ history' = history \/ history'.pc = "idle"
      /\ (list' = list /\ unheard' = unheard) \/ (list'.pc = "idle" /\ unheard' = 1..Len(rows))
      /\ broken' = mounted \/ UNCHANGED <<resolved, history, broken>>
  <2>1. /\ resolved \in Query(Conversation3) /\ Idle(resolved) \in Query(Conversation3)
        /\ Idle(resolved).data = resolved.data /\ Idle(resolved).fresh = resolved.fresh
        /\ Idle(resolved).pc = "idle"
    BY <1>0, Queries, QueryMoves
  <2>2. /\ history \in Query(Count) /\ Idle(history) \in Query(Count)
        /\ Idle(history).data = history.data /\ Idle(history).fresh = history.fresh
        /\ Idle(history).pc = "idle"
    BY <1>0, Queries, QueryMoves
  <2>3. /\ list \in Query(Count) /\ Idle(list) \in Query(Count)
        /\ Idle(list).data = list.data /\ Idle(list).pc = "idle"
    BY <1>0, Queries, QueryMoves
  <2> QED BY <1>2, <2>1, <2>2, <2>3
<1>4. faults' \in 0..MaxFaults /\ broken' \in BOOLEAN /\ unheard' \subseteq 1..Len(rows)
  <2>1. faults' \in 0..MaxFaults
    BY <1>0, <1>1, ConversationBounds DEF TypeOK
  <2>2. broken' \in BOOLEAN
    BY <1>0, <1>2 DEF TypeOK
  <2>3. unheard' \subseteq 1..Len(rows)
    BY <1>0, <1>3 DEF TypeOK
  <2> QED BY <2>1, <2>2, <2>3
<1>5. Sound(thread)' /\ OnceEach(thread, mixed)' /\ Held' /\ Marked'
  BY <1>1, <1>3, PageKept DEF Known
<1>6. OwnOnce' /\ FramesTell'
  BY <1>1, WireKept
<1>7. TypeOK'
  BY <1>0, <1>1, <1>3, <1>4 DEF TypeOK, Count, Conversation3
<1>8. Recent'
  BY <1>0, <1>1, <1>3 DEF Recent
<1>9. OldComes'
  <2>1. CASE UNCHANGED <<resolved, history, broken>>
    BY <1>0, <1>1, <2>1 DEF OldComes, Known
  <2>2. CASE broken' = mounted
    BY <1>1, <2>2 DEF OldComes
  <2> QED BY <1>3, <2>1, <2>2
<1>10. AckComes'
  BY <1>0, <1>1, <1>3, RowShape DEF AckComes
<1> QED BY <1>5, <1>6, <1>7, <1>8, <1>9, <1>10 DEF IInv

\* What was there when the caches go stale is what a page opened later has to show.
LEMMA AgeIInv ==
    ASSUME IInv, Age PROVE IInv'
<1>0. TypeOK /\ Recent /\ OldComes /\ AckComes
  BY DEF IInv
<1>1. /\ resolved.pc = "idle" /\ history.pc = "idle"
      /\ resolved' = Aged(resolved) /\ history' = Aged(history) /\ aged' = Len(rows)
      /\ UNCHANGED <<rows, sends, frames, link, list, page, acked, composed, unheard, faults>>
  BY DEF Age, server
<1>2. /\ resolved' \in Query(Conversation3) /\ history' \in Query(Count)
      /\ resolved'.data = resolved.data /\ history'.data = history.data
      /\ resolved'.pc = "idle" /\ history'.pc = "idle" /\ ~resolved'.fresh /\ ~history'.fresh
  BY <1>0, <1>1, Queries, QueryMoves
<1>3. aged' \in 0..Len(rows) /\ floor' \in 0..aged'
  BY <1>0, <1>1 DEF TypeOK, page
<1>4. Sound(thread)' /\ OnceEach(thread, mixed)' /\ Held' /\ Marked' /\ OwnOnce' /\ FramesTell'
  BY <1>1, <1>2, PageKept, WireKept DEF Known, page
<1>5. TypeOK'
  BY <1>0, <1>1, <1>2, <1>3 DEF TypeOK, page, Count, Conversation3
<1>6. Recent' /\ OldComes' /\ AckComes'
  BY <1>0, <1>1, <1>2 DEF Recent, OldComes, AckComes, Known, page
<1> QED BY <1>4, <1>5, <1>6 DEF IInv

LEMMA OnlineIInv ==
    ASSUME IInv, Online PROVE IInv'
<1>0. TypeOK /\ Recent /\ OldComes /\ AckComes
  BY DEF IInv
<1>1. /\ resolved' = OnMount(resolved) /\ history' = IF Known THEN OnMount(history) ELSE history
      /\ UNCHANGED <<rows, sends, frames, link, list, page, acked, composed, unheard, aged, faults>>
  BY DEF Online, server, aux
<1>2. /\ resolved' \in Query(Conversation3) /\ history' \in Query(Count)
      /\ resolved'.data = resolved.data /\ resolved'.fresh = resolved.fresh /\ resolved'.got = resolved.got
      /\ history'.data = history.data /\ history'.fresh = history.fresh /\ history'.got = history.got
      /\ resolved'.pc = "read" => resolved.pc = "read"
      /\ history'.pc = "read" => history.pc = "read"
      /\ resolved.pc # "idle" => resolved' = resolved
      /\ history.pc # "idle" => history' = history
  BY <1>0, <1>1, Queries, QueryMoves
<1>3. Sound(thread)' /\ OnceEach(thread, mixed)' /\ Held' /\ Marked' /\ OwnOnce' /\ FramesTell'
  BY <1>1, <1>2, PageKept, WireKept DEF Known, page
<1>4. TypeOK'
  BY <1>0, <1>1, <1>2 DEF TypeOK, page, Count, Conversation3
<1>5. Recent' /\ OldComes' /\ AckComes'
  BY <1>0, <1>1, <1>2 DEF Recent, OldComes, AckComes, Known, page
<1> QED BY <1>3, <1>4, <1>5 DEF IInv

\* History that comes into the thread keeps what the page has.
LEMMA HistoryShown ==
    ASSUME IInv, NEW h \in Count, thread' = Merged(thread, h), mixed' = mixed \cup Clash(thread, h)
    PROVE  /\ Sound(thread') /\ OnceEach(thread', mixed') /\ mixed' \subseteq 1..Len(rows)
           /\ Ids(thread') = Ids(thread) \cup Shown(h)
           /\ PartnerLatest(thread) <= PartnerLatest(thread') /\ PartnerLatest(thread') \in 0..Len(rows)
<1>0. TypeOK /\ OwnOnce /\ Sound(thread) /\ OnceEach(thread, mixed)
  BY DEF IInv
<1>1. /\ Sound(thread') /\ OnceEach(thread', mixed') /\ Ids(thread') = Ids(thread) \cup Shown(h)
  BY <1>0, HistoryArrives DEF Count
<1>2. mixed' \subseteq 1..Len(rows)
  <2>1. mixed \subseteq 1..Len(rows)
    BY <1>0 DEF TypeOK
  <2>2. Shown(h) \subseteq 1..Len(rows)
    BY <1>0, RowShape DEF Shown, Count
  <2>3. Clash(thread, h) \subseteq Shown(h)
    BY DEF Clash
  <2> QED BY <2>1, <2>2, <2>3
<1>3. PartnerLatest(thread) <= PartnerLatest(thread') /\ PartnerLatest(thread') \in 0..Len(rows)
  BY <1>0, <1>1, Latest, LatestGrows
<1> QED BY <1>1, <1>2, <1>3

\* A conversation that becomes known brings the history that is cached of it.
LEMMA ResolveIInv ==
    ASSUME IInv, Resolve PROVE IInv'
<1>0. TypeOK /\ Recent /\ OldComes /\ AckComes /\ Held /\ Marked
  BY DEF IInv
<1>1. /\ resolved.pc = "read" /\ resolved' = Kept(resolved)
      /\ UNCHANGED <<rows, sends, frames, link, list, mounted, focused, handled, floor, broken, acked>>
      /\ UNCHANGED <<composed, unheard, aged, faults>>
  BY DEF Resolve, server, aux
<1>2. /\ resolved' \in Query(Conversation3) /\ resolved'.data = resolved.got /\ resolved'.pc = "idle"
      /\ OnMount(history) \in Query(Count) /\ OnMount(history).data = history.data
      /\ OnMount(history).fresh = history.fresh /\ OnMount(history).got = history.got
      /\ OnMount(history).pc = "read" => history.pc = "read"
      /\ OnMount(history).pc = "idle" => history.fresh
      /\ history \in Query(Count) /\ history.data \in Count
  BY <1>0, <1>1, Queries, QueryMoves
<1>3. aged \in 0..Len(rows) /\ floor \in 0..aged /\ Len(rows) \in Nat
  BY <1>0 DEF TypeOK
<1>4. OwnOnce' /\ FramesTell' /\ AckComes'
  BY <1>0, <1>1, WireKept DEF AckComes
<1>5. CASE mounted /\ ~Known /\ resolved.got = "present"
  <2>1. /\ history' = OnMount(history) /\ thread' = Merged(thread, history.data)
        /\ mixed' = mixed \cup Clash(thread, history.data)
        /\ EmitMarks(thread', TRUE, focused, Unemitted)
    BY <1>5 DEF Resolve
  <2>2. /\ Sound(thread') /\ OnceEach(thread', mixed') /\ mixed' \subseteq 1..Len(rows)
        /\ Ids(thread') = Ids(thread) \cup Shown(history.data)
        /\ PartnerLatest(thread') \in 0..Len(rows)
    BY <1>2, <2>1, HistoryShown
  <2>3. /\ emitted' \in Marks(Len(rows)) /\ emitted'.read <= PartnerLatest(thread')
        /\ focused => emitted'.read = PartnerLatest(thread')
    <3>1. Unemitted \in Marks(Len(rows)) /\ Unemitted.read <= PartnerLatest(thread')
      BY <1>3, <2>2 DEF Unemitted, Marks
    <3>2. focused \in BOOLEAN
      BY <1>0 DEF TypeOK
    <3> QED BY <1>0, <2>1, <2>2, <3>1, <3>2, Marking
  <2>4. Sound(thread)' /\ OnceEach(thread, mixed)' /\ Held' /\ Marked'
    BY <1>0, <1>1, <1>2, <1>5, <2>1, <2>2, <2>3, PageMoves DEF Held
  <2>5. TypeOK'
    <3>1. thread' \subseteq Entry /\ \A m \in thread' : m.id <= Len(rows) /\ (m.status = "sending" => m.id = 0)
      BY <2>2 DEF Sound
    <3> QED BY <1>0, <1>1, <1>2, <1>5, <2>1, <2>2, <2>3, <3>1 DEF TypeOK, Count, Conversation3, Marks
  <2>6. Recent'
    BY <1>0, <1>1, <1>2, <1>5, <2>1 DEF Recent
  <2>7. OldComes'
    <3>1. Known'
      BY <1>2, <1>5 DEF Known
    <3>2. history'.pc = "idle" => history'.data >= aged
      BY <1>0, <1>2, <2>1 DEF Recent
    <3>3. history'.data >= aged => history'.data >= floor
      BY <1>2, <1>3, <2>1 DEF Count
    <3> QED BY <1>1, <3>1, <3>2, <3>3 DEF OldComes
  <2> QED BY <1>4, <2>4, <2>5, <2>6, <2>7 DEF IInv
<1>6. CASE ~(mounted /\ ~Known /\ resolved.got = "present")
  <2>1. UNCHANGED <<history, thread, mixed, emitted>>
    BY <1>6 DEF Resolve
  <2>2. mounted /\ Known' => Known
    BY <1>2, <1>6 DEF Known
  <2>3. Sound(thread)' /\ OnceEach(thread, mixed)' /\ Held' /\ Marked'
    BY <1>1, <2>1, <2>2, PageKept
  <2>4. TypeOK'
    BY <1>0, <1>1, <1>2, <2>1 DEF TypeOK, Conversation3
  <2>5. Recent'
    BY <1>0, <1>1, <1>2, <2>1 DEF Recent
  <2>6. OldComes'
    <3>1. floor > 0 => resolved.got = "present"
      BY <1>0, <1>1, <1>3 DEF Recent
    <3> QED BY <1>0, <1>1, <1>2, <2>1, <2>2, <3>1 DEF OldComes, Known
  <2> QED BY <1>4, <2>3, <2>4, <2>5, <2>6 DEF IInv
<1> QED BY <1>5, <1>6

LEMMA ShowHistoryIInv ==
    ASSUME IInv, ShowHistory PROVE IInv'
<1>0. TypeOK /\ Recent /\ OldComes /\ AckComes /\ Held /\ Marked
  BY DEF IInv
<1>1. /\ history.pc = "read" /\ history' = Kept(history)
      /\ UNCHANGED <<rows, sends, frames, link, resolved, list, mounted, focused, handled, floor, broken>>
      /\ UNCHANGED <<acked, composed, unheard, aged, faults>>
  BY DEF ShowHistory, server, aux
<1>2. /\ history' \in Query(Count) /\ history'.data = history.got /\ history'.pc = "idle"
      /\ history.got \in Count
  BY <1>0, <1>1, Queries, QueryMoves
<1>3. aged \in 0..Len(rows) /\ floor \in 0..aged /\ Len(rows) \in Nat
  BY <1>0 DEF TypeOK
<1>4. OwnOnce' /\ FramesTell' /\ AckComes'
  BY <1>0, <1>1, WireKept DEF AckComes
<1>5. Recent' /\ OldComes'
  <2>1. history'.data >= aged /\ history'.data >= floor
    BY <1>0, <1>1, <1>2, <1>3 DEF Recent, Count
  <2> QED BY <1>0, <1>1, <1>2, <2>1 DEF Recent, OldComes, Known
<1>6. CASE mounted /\ Known
  <2>1. /\ thread' = Merged(thread, history.got) /\ mixed' = mixed \cup Clash(thread, history.got)
        /\ EmitMarks(thread', Known, focused, emitted)
    BY <1>6 DEF ShowHistory, Render
  <2>2. /\ Sound(thread') /\ OnceEach(thread', mixed') /\ mixed' \subseteq 1..Len(rows)
        /\ Ids(thread') = Ids(thread) \cup Shown(history.got)
        /\ PartnerLatest(thread) <= PartnerLatest(thread') /\ PartnerLatest(thread') \in 0..Len(rows)
    BY <1>2, <2>1, HistoryShown
  <2>3. /\ emitted' \in Marks(Len(rows)) /\ emitted'.read <= PartnerLatest(thread')
        /\ focused => emitted'.read = PartnerLatest(thread')
    <3>1. emitted \in Marks(Len(rows)) /\ focused \in BOOLEAN /\ Known \in BOOLEAN
      BY <1>0 DEF TypeOK, Known, Marks
    <3>2. emitted.read <= PartnerLatest(thread')
      <4>1. emitted.read <= PartnerLatest(thread) /\ emitted.read \in 0..Len(rows)
        BY <1>0, <1>6, <3>1 DEF Marked, Marks
      <4>2. PartnerLatest(thread) \in 0..Len(rows)
        BY <1>0, Latest DEF IInv
      <4> QED BY <2>2, <4>1, <4>2
    <3> QED BY <1>0, <1>6, <2>1, <2>2, <3>1, <3>2, Marking
  <2>4. Sound(thread)' /\ OnceEach(thread, mixed)' /\ Held' /\ Marked'
    BY <1>0, <1>1, <1>2, <1>6, <2>1, <2>2, <2>3, PageMoves DEF Held
  <2>5. TypeOK'
    <3>1. thread' \subseteq Entry /\ \A m \in thread' : m.id <= Len(rows) /\ (m.status = "sending" => m.id = 0)
      BY <2>2 DEF Sound
    <3> QED BY <1>0, <1>1, <1>2, <1>6, <2>1, <2>2, <2>3, <3>1 DEF TypeOK, Count, Marks
  <2> QED BY <1>4, <1>5, <2>4, <2>5 DEF IInv
<1>7. CASE ~(mounted /\ Known)
  <2>1. UNCHANGED <<thread, mixed, emitted>>
    BY <1>7 DEF ShowHistory
  <2>2. ~(mounted /\ Known')
    BY <1>1, <1>7 DEF Known
  <2>3. Sound(thread)' /\ OnceEach(thread, mixed)' /\ Held' /\ Marked'
    BY <1>1, <2>1, <2>2, PageKept
  <2>4. TypeOK'
    BY <1>0, <1>1, <1>2, <2>1 DEF TypeOK, Count
  <2> QED BY <1>4, <1>5, <2>3, <2>4 DEF IInv
<1> QED BY <1>6, <1>7

-----------------------------------------------------------------------------
(* The frames. *)

\* A frame that is shown: what the page then has to do for IInv.
LEMMA FrameShown ==
    ASSUME IInv, mounted, Sound(thread'), OnceEach(thread', mixed), Ids(thread) \subseteq Ids(thread'),
           EmitMarks(thread', Known, focused, emitted), handled' \subseteq Ids(thread'),
           UNCHANGED <<rows, composed, mounted, focused, mixed, history>>, Known' <=> Known
    PROVE  /\ Sound(thread)' /\ OnceEach(thread, mixed)' /\ Held' /\ Marked'
           /\ emitted' \in Marks(Len(rows)) /\ thread' \subseteq Entry
           /\ \A m \in thread' : m.id <= Len(rows) /\ (m.status = "sending" => m.id = 0)
<1>0. TypeOK /\ Held /\ Marked /\ Sound(thread)
  BY DEF IInv
<1>1. /\ PartnerLatest(thread) \in 0..Len(rows) /\ PartnerLatest(thread') \in 0..Len(rows)
      /\ PartnerLatest(thread) <= PartnerLatest(thread')
  BY <1>0, Latest, LatestGrows
<1>2. emitted \in Marks(Len(rows)) /\ focused \in BOOLEAN /\ Known \in BOOLEAN
  BY <1>0 DEF TypeOK, Known, Marks
<1>3. emitted.read <= PartnerLatest(thread')
  <2>1. emitted.read <= PartnerLatest(thread) /\ emitted.read \in 0..Len(rows)
    BY <1>0, <1>2 DEF Marked, Marks
  <2> QED BY <1>1, <2>1
<1>4. /\ emitted' \in Marks(Len(rows)) /\ emitted'.read <= PartnerLatest(thread')
      /\ Known /\ focused => emitted'.read = PartnerLatest(thread')
  BY <1>0, <1>1, <1>2, <1>3, Marking
<1>5. Known => Shown(history.data) \subseteq Ids(thread')
  BY <1>0 DEF Held
<1>6. Sound(thread)' /\ OnceEach(thread, mixed)' /\ Held' /\ Marked'
  BY <1>4, <1>5, PageMoves
<1>7. thread' \subseteq Entry /\ \A m \in thread' : m.id <= Len(rows) /\ (m.status = "sending" => m.id = 0)
  BY DEF Sound
<1> QED BY <1>4, <1>6, <1>7

\* What a handled frame leaves of the rest of the state.
LEMMA FrameTaken ==
    ASSUME IInv, UNCHANGED <<server, link, history, mounted, focused, mixed, floor, broken, aux>>,
           frames' \subseteq frames, resolved' \in Query(Conversation3), list' \in Query(Count),
           handled' \subseteq 1..Len(rows), acked' \in 0..Len(rows), emitted' \in Marks(Len(rows)),
           thread' \subseteq Entry, ~mounted => thread' = {},
           \A m \in thread' : m.id <= Len(rows) /\ (m.status = "sending" => m.id = 0),
           resolved'.data = resolved.data, resolved'.fresh = resolved.fresh,
           resolved' = resolved \/ resolved'.pc = "asked",
           list' = list \/ list'.pc = "asked",
           Sound(thread)', OnceEach(thread, mixed)', Held', Marked', AckComes'
    PROVE  IInv'
<1>0. TypeOK /\ Recent /\ OldComes
  BY DEF IInv
<1>1. UNCHANGED <<rows, sends, link, history, mounted, focused, mixed, floor, broken, composed, unheard, aged, faults>>
  BY DEF server, aux
<1>2. OwnOnce' /\ FramesTell'
  BY <1>1, WireKept
<1>3. link # "live" => frames' = {}
  BY <1>0 DEF TypeOK
<1>4. frames' \subseteq Frame
  BY <1>0 DEF TypeOK
<1>5. TypeOK'
  BY <1>0, <1>1, <1>3, <1>4 DEF TypeOK, Conversation3, Count, Marks
<1>6. Recent' /\ OldComes'
  BY <1>0, <1>1 DEF Recent, OldComes, Known
<1> QED BY <1>2, <1>5, <1>6 DEF IInv

LEMMA ReceivedIInv ==
    ASSUME IInv, NEW n \in 1..Len(rows), Received(n), frames' \subseteq frames,
           UNCHANGED <<server, link, history, mounted, focused, mixed, floor, broken, aux>>
    PROVE  IInv'
<1>0. TypeOK /\ OwnOnce /\ Held /\ Sound(thread) /\ OnceEach(thread, mixed)
  BY DEF IInv
<1>1. acked' = Acks(n, TRUE) /\ list' = Ask(list) /\ resolved' = resolved
      /\ UNCHANGED <<rows, composed>>
  BY DEF Received, server, aux
<1>2. list' \in Query(Count) /\ list'.pc = "asked" /\ resolved' \in Query(Conversation3)
  BY <1>0, <1>1, Queries, QueryMoves
<1>3. acked' \in 0..Len(rows)
  <2>1. TRUE \in BOOLEAN
    OBVIOUS
  <2> QED BY <1>0, <1>1, <2>1, AcksShape
<1>4. AckComes'
  BY <1>2 DEF AckComes
<1>5. Known' <=> Known
  BY <1>1 DEF Known
<1>6. CASE mounted
  <2>1. PICK T \in Upserted(thread, Arrived(n)) : Render(T) /\ handled' = handled \cup {n}
    BY <1>6 DEF Received, Arrived
  <2>2. thread' = T /\ EmitMarks(T, Known, focused, emitted)
    BY <2>1 DEF Render
  <2>3. Sound(T) /\ OnceEach(T, mixed) /\ Ids(T) = Ids(thread) \cup {n}
    BY <1>0, UpsertArrives
  <2>4. handled' \subseteq Ids(thread') /\ handled' \subseteq 1..Len(rows)
    BY <1>0, <1>6, <2>1, <2>2, <2>3 DEF Held, TypeOK
  <2>5. /\ Sound(thread)' /\ OnceEach(thread, mixed)' /\ Held' /\ Marked'
        /\ emitted' \in Marks(Len(rows)) /\ thread' \subseteq Entry
        /\ \A m \in thread' : m.id <= Len(rows) /\ (m.status = "sending" => m.id = 0)
    BY <1>1, <1>5, <1>6, <2>2, <2>3, <2>4, FrameShown
  <2> QED BY <1>1, <1>2, <1>3, <1>4, <1>6, <2>4, <2>5, FrameTaken
<1>7. CASE ~mounted
  <2>1. UNCHANGED <<thread, emitted, handled>>
    BY <1>7 DEF Received
  <2>2. Sound(thread)' /\ OnceEach(thread, mixed)' /\ Held' /\ Marked'
    BY <1>1, <1>5, <2>1, PageKept
  <2>3. /\ handled' \subseteq 1..Len(rows) /\ emitted' \in Marks(Len(rows)) /\ thread' \subseteq Entry
        /\ thread' = {}
    BY <1>0, <1>7, <2>1 DEF TypeOK, Marks
  <2> QED BY <1>1, <1>2, <1>3, <1>4, <2>2, <2>3, FrameTaken
<1> QED BY <1>6, <1>7

LEMMA SentIInv ==
    ASSUME IInv, NEW n \in 1..Len(rows), rows[n] # 0, Sent(n), frames' \subseteq frames,
           UNCHANGED <<server, link, history, mounted, focused, mixed, floor, broken, aux>>
    PROVE  IInv'
<1>0. TypeOK /\ OwnOnce /\ Held /\ Sound(thread) /\ OnceEach(thread, mixed)
  BY DEF IInv
<1>1. /\ list' = Ask(list) /\ acked' = acked /\ UNCHANGED <<rows, composed>>
      /\ resolved' = resolved \/ resolved' = Ask(resolved)
  BY DEF Sent, server, aux
<1>2. /\ list' \in Query(Count) /\ list'.pc = "asked" /\ resolved' \in Query(Conversation3)
      /\ resolved'.data = resolved.data /\ resolved'.fresh = resolved.fresh
      /\ resolved' = resolved \/ resolved'.pc = "asked"
  <2>1. resolved \in Query(Conversation3) /\ list \in Query(Count)
    BY <1>0, Queries
  <2>2. /\ Ask(resolved) \in Query(Conversation3) /\ Ask(resolved).data = resolved.data
        /\ Ask(resolved).fresh = resolved.fresh /\ Ask(resolved).pc = "asked"
    BY <2>1, QueryMoves
  <2>3. Ask(list) \in Query(Count) /\ Ask(list).pc = "asked"
    BY <2>1, QueryMoves
  <2> QED BY <1>1, <2>1, <2>2, <2>3
<1>3. acked' \in 0..Len(rows)
  BY <1>0, <1>1 DEF TypeOK
<1>4. AckComes'
  BY <1>2 DEF AckComes
<1>5. Known' <=> Known
  BY <1>2 DEF Known
<1>6. CASE mounted
  <2>1. PICK T \in Patched(thread, rows[n], n, "sent") : Render(T)
    BY <1>6 DEF Sent
  <2>2. handled' = IF \E m \in thread : m.cid = rows[n] THEN handled \cup {n} ELSE handled
    BY <1>6 DEF Sent
  <2>3. thread' = T /\ EmitMarks(T, Known, focused, emitted)
    BY <2>1 DEF Render
  <2>4. /\ Sound(T) /\ OnceEach(T, mixed) /\ Ids(thread) \subseteq Ids(T)
        /\ (\E m \in thread : m.cid = rows[n]) => n \in Ids(T)
    BY <1>0, AckArrives
  <2>5. handled' \subseteq Ids(thread') /\ handled' \subseteq 1..Len(rows)
    BY <1>0, <1>6, <2>2, <2>3, <2>4 DEF Held, TypeOK
  <2>6. /\ Sound(thread)' /\ OnceEach(thread, mixed)' /\ Held' /\ Marked'
        /\ emitted' \in Marks(Len(rows)) /\ thread' \subseteq Entry
        /\ \A m \in thread' : m.id <= Len(rows) /\ (m.status = "sending" => m.id = 0)
    BY <1>1, <1>5, <1>6, <2>3, <2>4, <2>5, FrameShown
  <2> QED BY <1>2, <1>3, <1>4, <1>6, <2>5, <2>6, FrameTaken
<1>7. CASE ~mounted
  <2>1. UNCHANGED <<thread, emitted, handled>>
    BY <1>7 DEF Sent
  <2>2. Sound(thread)' /\ OnceEach(thread, mixed)' /\ Held' /\ Marked'
    BY <1>1, <1>5, <2>1, PageKept
  <2>3. /\ handled' \subseteq 1..Len(rows) /\ emitted' \in Marks(Len(rows)) /\ thread' \subseteq Entry
        /\ thread' = {}
    BY <1>0, <1>7, <2>1 DEF TypeOK, Marks
  <2> QED BY <1>2, <1>3, <1>4, <2>2, <2>3, FrameTaken
<1> QED BY <1>6, <1>7

\* A rejection leaves the acks to come where they are: its frame is none of them.
LEMMA RejectedIInv ==
    ASSUME IInv, NEW f \in frames, f.type = "rejected", f.n \in Mine, Rowless(f.n), Rejected(f.n),
           frames' = frames \ {f},
           UNCHANGED <<server, link, history, mounted, focused, mixed, floor, broken, aux>>
    PROVE  IInv'
<1>0. TypeOK /\ OwnOnce /\ Held /\ AckComes /\ Sound(thread) /\ OnceEach(thread, mixed)
  BY DEF IInv
<1>1. /\ UNCHANGED <<resolved, list, handled, acked>> /\ UNCHANGED <<rows, composed>>
      /\ UNCHANGED <<link, unheard>>
  BY DEF Rejected, server, aux
<1>2. list' \in Query(Count) /\ resolved' \in Query(Conversation3)
  BY <1>0, <1>1, Queries
<1>3. acked' \in 0..Len(rows) /\ handled' \subseteq 1..Len(rows)
  BY <1>0, <1>1 DEF TypeOK
<1>4. AckComes'
  <2>1. \A n : [type |-> "received", n |-> n] \in frames => [type |-> "received", n |-> n] \in frames'
    OBVIOUS
  <2> QED BY <1>0, <1>1, <2>1 DEF AckComes
<1>5. Known' <=> Known
  BY <1>1 DEF Known
<1>6. CASE mounted
  <2>1. PICK T \in Patched(thread, f.n, 0, "failed") : Render(T)
    BY <1>6 DEF Rejected
  <2>2. thread' = T /\ EmitMarks(T, Known, focused, emitted)
    BY <2>1 DEF Render
  <2>3. Sound(T) /\ OnceEach(T, mixed) /\ Ids(T) = Ids(thread)
    BY <1>0, RejectionArrives
  <2>4. handled' \subseteq Ids(thread')
    BY <1>0, <1>1, <1>6, <2>2, <2>3 DEF Held
  <2>5. /\ Sound(thread)' /\ OnceEach(thread, mixed)' /\ Held' /\ Marked'
        /\ emitted' \in Marks(Len(rows)) /\ thread' \subseteq Entry
        /\ \A m \in thread' : m.id <= Len(rows) /\ (m.status = "sending" => m.id = 0)
    BY <1>1, <1>5, <1>6, <2>2, <2>3, <2>4, FrameShown
  <2> QED BY <1>1, <1>2, <1>3, <1>4, <1>6, <2>5, FrameTaken
<1>7. CASE ~mounted
  <2>1. UNCHANGED <<thread, emitted>>
    BY <1>7 DEF Rejected
  <2>2. Sound(thread)' /\ OnceEach(thread, mixed)' /\ Held' /\ Marked'
    BY <1>1, <1>5, <2>1, PageKept
  <2>3. emitted' \in Marks(Len(rows)) /\ thread' \subseteq Entry /\ thread' = {}
    BY <1>0, <1>7, <2>1 DEF TypeOK, Marks
  <2> QED BY <1>1, <1>2, <1>3, <1>4, <2>2, <2>3, FrameTaken
<1> QED BY <1>6, <1>7

LEMMA OnFrameIInv ==
    ASSUME IInv, NEW f \in frames, OnFrame(f) PROVE IInv'
<1>1. /\ frames' = frames \ {f}
      /\ CASE f.type = "received" -> Received(f.n)
           [] f.type = "sent" -> Sent(f.n)
           [] f.type = "rejected" -> Rejected(f.n)
      /\ UNCHANGED <<server, link, history, mounted, focused, mixed, floor, broken, aux>>
  BY DEF OnFrame
<1>2. TypeOK /\ FramesTell /\ Len(rows) \in Nat
  BY RowShape DEF IInv
<1>3. f \in Frame
  BY <1>2, RowShape
<1>4. CASE f.type = "rejected"
  <2>1. Rejected(f.n)
    BY <1>1, <1>4
  <2>2. f.n \in Mine
    BY <1>3, <1>4 DEF Frame
  <2>3. Rowless(f.n)
    BY <1>2, <1>4 DEF FramesTell
  <2> QED BY <1>1, <1>4, <2>1, <2>2, <2>3, RejectedIInv
<1>5. ASSUME f.type # "rejected" PROVE f.n \in 1..Len(rows)
  <2>1. f.n \in 1..MaxRows
    BY <1>3, <1>5 DEF Frame, Message
  <2>2. f.n <= Len(rows)
    BY <1>2, <1>5 DEF FramesTell
  <2> QED BY <1>2, <2>1, <2>2, ConversationBounds
<1>6. CASE f.type = "received"
  <2>1. Received(f.n) /\ f.n \in 1..Len(rows)
    BY <1>1, <1>5, <1>6
  <2> QED BY <1>1, <2>1, ReceivedIInv
<1>7. CASE f.type = "sent"
  <2>1. Sent(f.n) /\ f.n \in 1..Len(rows)
    BY <1>1, <1>5, <1>7
  <2>2. rows[f.n] # 0
    BY <1>2, <1>7 DEF FramesTell
  <2> QED BY <1>1, <2>1, <2>2, SentIInv
<1>8. f.type \in {"received", "sent", "rejected"}
  BY <1>3 DEF Frame
<1> QED BY <1>4, <1>6, <1>7, <1>8

-----------------------------------------------------------------------------
(* The steps, and what holds in every state. *)

LEMMA InitIInv ==
    ASSUME Init PROVE IInv
<1>1. /\ rows = <<>> /\ sends = {} /\ frames = {} /\ link = "connecting" /\ mounted = FALSE
      /\ focused = FALSE /\ thread = {} /\ emitted = [read |-> 0, delivered |-> 0] /\ acked = 0
      /\ composed = 0 /\ handled = {} /\ mixed = {} /\ unheard = {} /\ aged = 0 /\ floor = 0
      /\ broken = FALSE /\ faults = 0
      /\ resolved = [data |-> "none", fresh |-> FALSE, pc |-> "idle", got |-> "none"]
      /\ history = [data |-> 0, fresh |-> FALSE, pc |-> "idle", got |-> 0]
      /\ list = [data |-> 0, fresh |-> TRUE, pc |-> "asked", got |-> 0]
  BY DEF Init, Unasked
<1>2. Len(rows) = 0 /\ rows \in Seq(0..MaxMine) /\ 1..Len(rows) = {}
  BY <1>1
<1>3. TypeOK
  <2>1. resolved \in Query({"none", "absent", "present"}) /\ history \in Query(0..0) /\ list \in Query(0..0)
    BY <1>1 DEF Query
  <2>2. emitted \in [read : 0..0, delivered : 0..0] /\ 0..Len(rows) = 0..0
    BY <1>1, <1>2
  <2>3. /\ sends \subseteq 1..composed /\ frames \subseteq Frame /\ thread \subseteq Entry
        /\ handled \subseteq 1..Len(rows) /\ mixed \subseteq 1..Len(rows) /\ unheard \subseteq 1..Len(rows)
        /\ \A m \in thread : m.id <= Len(rows) /\ (m.status = "sending" => m.id = 0)
    BY <1>1
  <2>4. /\ acked \in 0..Len(rows) /\ composed \in 0..MaxMine /\ aged \in 0..Len(rows)
        /\ floor \in 0..aged /\ faults \in 0..MaxFaults /\ Len(rows) <= MaxRows
    BY <1>1, <1>2, ConversationBounds
  <2>5. /\ link \in {"connecting", "live", "down"} /\ (link # "live" => frames = {})
        /\ mounted \in BOOLEAN /\ focused \in BOOLEAN /\ broken \in BOOLEAN
        /\ (~mounted => thread = {}) /\ rows \in Seq(0..MaxMine)
    BY <1>1, <1>2
  <2> QED BY <2>1, <2>2, <2>3, <2>4, <2>5 DEF TypeOK
<1>4. OwnOnce
  <2>1. Cardinality(sends) = 0
    BY <1>1, FS_EmptySet
  <2> QED BY <1>2, <2>1, ConversationBounds DEF OwnOnce
<1>5. FramesTell /\ Sound(thread) /\ OnceEach(thread, mixed) /\ Held /\ OldComes /\ Marked
  BY <1>1 DEF FramesTell, Sound, OnceEach, Held, OldComes, Marked
<1>6. Recent /\ AckComes
  BY <1>1, <1>2 DEF Recent, AckComes
<1> QED BY <1>3, <1>4, <1>5, <1>6 DEF IInv

LEMMA StutterIInv ==
    ASSUME IInv, UNCHANGED vars PROVE IInv'
<1>1. UNCHANGED <<rows, sends, frames, link, resolved, history, list, mounted, focused, thread,
                  emitted, acked, composed, handled, mixed, unheard, aged, floor, broken, faults>>
  BY DEF vars, server, queries, page, aux
<1>2. Sound(thread)' /\ OnceEach(thread, mixed)' /\ Held' /\ Marked' /\ OwnOnce' /\ FramesTell'
  BY <1>1, PageKept, WireKept DEF Known
<1>3. TypeOK' /\ Recent' /\ OldComes' /\ AckComes'
  BY <1>1 DEF IInv, TypeOK, Recent, OldComes, AckComes, Known
<1> QED BY <1>2, <1>3 DEF IInv

LEMMA StepIInv ==
    ASSUME IInv, [Next]_vars PROVE IInv'
<1>1. CASE Mount \/ Unmount \/ SetFocus \/ Compose
  BY <1>1, MountIInv, UnmountIInv, SetFocusIInv, ComposeIInv
<1>2. CASE PartnerSends
  BY <1>2, PartnerSendsIInv
<1>3. ASSUME NEW k \in Mine, Persist(k) \/ Reject(k) \/ LoseSend(k) PROVE IInv'
  BY <1>3, PersistIInv, RejectIInv, LoseSendIInv
<1>4. ASSUME NEW n \in Message, Republish(n) PROVE IInv'
  BY <1>4, RepublishIInv
<1>5. ASSUME NEW f \in frames, OnFrame(f) \/ Drop(f) PROVE IInv'
  BY <1>5, OnFrameIInv, DropIInv
<1>6. CASE Read \/ Resolve \/ ShowHistory \/ ShowList
  BY <1>6, ReadIInv, ResolveIInv, ShowHistoryIInv, ShowListIInv
<1>7. CASE LinkUp \/ LinkDown \/ Fail \/ Age \/ Online
  BY <1>7, LinkUpIInv, LinkDownIInv, FailIInv, AgeIInv, OnlineIInv
<1>8. CASE UNCHANGED vars
  BY <1>8, StutterIInv
<1> QED BY <1>1, <1>2, <1>3, <1>4, <1>5, <1>6, <1>7, <1>8 DEF Next

\* Every reachable state satisfies the inductive invariant: messages, frames,
\* entries, caches and marks agree with each other, whatever was lost or repeated.
THEOREM Invariant == Spec => []IInv
<1>1. Init => IInv
  BY InitIInv
<1>2. IInv /\ [Next]_vars => IInv'
  BY StepIInv
<1> QED BY <1>1, <1>2, PTL DEF Spec

\* The page, the caches and the wire keep their types: no frame outlives its link,
\* and nothing tells of a message that is not in the table.
THEOREM TypeCorrect == Spec => []TypeOK
<1>1. IInv => TypeOK
  BY DEF IInv
<1> QED BY <1>1, Invariant, PTL

\* A message the page has handled, or holds in its page of history, is one entry
\* of the thread, however acks, echoes, repeats and history follow each other
\* (messagesReducer), unless history came between an own message and its first frame.
THEOREM ShownOnceHolds == Spec => []ShownOnce
<1>1. IInv => ShownOnce
  <2> SUFFICES ASSUME IInv, mounted,
                      NEW n \in (handled \cup (IF Known THEN Shown(history.data) ELSE {})) \ mixed
               PROVE  Cardinality({m \in thread : m.id = n}) = 1
    BY DEF ShownOnce
  <2>1. TypeOK /\ Sound(thread) /\ OnceEach(thread, mixed) /\ Held
    BY DEF IInv
  <2>2. n \in Ids(thread)
    BY <2>1 DEF Held
  <2>3. PICK m \in thread : m.id = n /\ n # 0
    BY <2>2 DEF Ids
  <2>4. n \in (1..Len(rows)) \ mixed
    BY <2>1, <2>3, EntryShape, RowShape
  <2>5. \A o \in thread : o.id = n => o = m
    BY <2>1, <2>3, <2>4 DEF OnceEach, About
  <2>6. {o \in thread : o.id = n} = {m}
    BY <2>3, <2>5
  <2> QED BY <2>6, FS_Singleton
<1> QED BY <1>1, Invariant, PTL

\* A page at rest, none of whose queries failed, shows every message of its last
\* page of history that the caches had gone stale on before it opened: mounting
\* asks anew for what is stale (staleTime in lib/query.ts).
THEOREM NothingOldMissedHolds == Spec => []NothingOldMissed
<1>1. IInv => NothingOldMissed
  <2> SUFFICES ASSUME IInv, mounted, ~broken, resolved.pc = "idle", history.pc = "idle",
                      NEW n \in 1..floor, ~(n <= history.data - Page)
               PROVE  n \in Ids(thread)
    BY DEF NothingOldMissed
  <2>1. TypeOK /\ Held /\ OldComes
    BY DEF IInv
  <2>2. floor \in Nat /\ history.data \in Nat /\ Page \in Nat
    <3>1. history.data \in Count /\ Len(rows) \in Nat
      BY <2>1, Queries, QueryMoves, RowShape
    <3>2. aged \in 0..Len(rows) /\ floor \in 0..aged
      BY <2>1 DEF TypeOK
    <3> QED BY <3>1, <3>2, ConversationBounds DEF Count
  <2>3. floor > 0
    BY <2>2
  <2>4. Known /\ history.data >= floor
    BY <2>1, <2>3 DEF OldComes
  <2>5. n \in Shown(history.data)
    BY <2>2, <2>4 DEF Shown
  <2> QED BY <2>1, <2>4, <2>5 DEF Held
<1> QED BY <1>1, Invariant, PTL

\* With a live link and nothing under way, the partner's newest message is acked
\* as delivered (useDeliveryReceipts), and a focused page has emitted its read mark
\* for the newest message of the partner's it shows (the last effect of useConversation).
THEOREM MarksKeepUpHolds == Spec => []MarksKeepUp
<1>1. IInv => MarksKeepUp
  <2> SUFFICES ASSUME IInv PROVE MarksKeepUp
    OBVIOUS
  <2>1. TypeOK /\ AckComes /\ Marked
    BY DEF IInv
  <2>2. ASSUME link = "live", frames = {}, list.pc = "idle", Len(rows) > 0,
               Len(rows) \notin unheard, rows[Len(rows)] = 0
        PROVE  acked >= Len(rows)
    BY <2>1, <2>2 DEF AckComes
  <2>3. mounted /\ focused /\ Known => emitted.read = PartnerLatest(thread)
    BY <2>1 DEF Marked
  <2> QED BY <2>2, <2>3 DEF MarksKeepUp
<1> QED BY <1>1, Invariant, PTL
=============================================================================
