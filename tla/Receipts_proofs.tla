-------------------------- MODULE Receipts_proofs ---------------------------
(***************************************************************************)
(* Proofs about Receipts, for any set of receipts, any number of           *)
(* concurrent deliveries and any number of faults.                         *)
(***************************************************************************)
EXTENDS Receipts, TLAPS

Within(p) == p.read <= p.delivered

\* A row on its way to the sender, in an update or in an answer, is one the
\* stored row has reached.
Rows ==
    /\ Within(reply) /\ AtMost(reply, pointer)
    /\ \A w \in Worker :
          job[w].pc = "push" => Within(job[w].row) /\ AtMost(job[w].row, pointer)

\* Only receipts that were reported are queued or handled, and only those of a
\* participant get as far as the row.
Known ==
    /\ queue \subseteq reported
    /\ \A w \in Worker : job[w] # IdleJob => job[w].receipt \in reported
    /\ \A w \in Worker : job[w].pc = "advance" => job[w].receipt.member

\* Each mark is one that a participant reported.
Earned(p) ==
    /\ p.delivered # 0 => \E r \in reported : r.member /\ p.delivered \in {r.delivered, r.read}
    /\ p.read # 0 => \E r \in reported : r.member /\ p.read = r.read

IInv ==
    /\ TypeOK
    /\ Within(pointer) /\ Within(marks)
    /\ AtMost(marks, pointer)
    /\ Earned(pointer)
    /\ Rows
    /\ Known
    /\ NoReceiptLost

-----------------------------------------------------------------------------
\* The greater of two marks is one of them, and is above both.
LEMMA HigherIsJoin ==
    ASSUME NEW a \in Nat, NEW b \in Nat
    PROVE  /\ Higher(a, b) \in {a, b} /\ Higher(a, b) \in Nat
           /\ a <= Higher(a, b) /\ b <= Higher(a, b)
           /\ \A c \in Nat : a <= c /\ b <= c => Higher(a, b) <= c
  BY DEF Higher

\* Merging two rows gives their least upper bound, and keeps read within
\* delivered if both did.
LEMMA MergeIsJoin ==
    ASSUME NEW p \in Pointer, NEW q \in Pointer
    PROVE  /\ Merge(p, q) \in Pointer
           /\ Merge(p, q).delivered \in {p.delivered, q.delivered}
           /\ Merge(p, q).read \in {p.read, q.read}
           /\ AtMost(p, Merge(p, q)) /\ AtMost(q, Merge(p, q))
           /\ Within(p) /\ Within(q) => Within(Merge(p, q))
           /\ \A r \in Pointer : AtMost(p, r) /\ AtMost(q, r) => AtMost(Merge(p, q), r)
<1>1. p.delivered \in Nat /\ p.read \in Nat /\ q.delivered \in Nat /\ q.read \in Nat
  BY DEF Pointer
<1>2. /\ Merge(p, q).delivered = Higher(p.delivered, q.delivered)
      /\ Merge(p, q).read = Higher(p.read, q.read)
  BY DEF Merge
<1>3. Merge(p, q) \in Pointer
  BY <1>1, HigherIsJoin DEF Merge, Pointer
<1>4. /\ Merge(p, q).delivered \in {p.delivered, q.delivered}
      /\ Merge(p, q).read \in {p.read, q.read}
  BY <1>1, <1>2, HigherIsJoin
<1>5. AtMost(p, Merge(p, q)) /\ AtMost(q, Merge(p, q))
  BY <1>1, <1>2 DEF AtMost, Higher
<1>6. Within(p) /\ Within(q) => Within(Merge(p, q))
  BY <1>1, <1>2 DEF Within, Higher
<1>7. ASSUME NEW r \in Pointer, AtMost(p, r), AtMost(q, r) PROVE AtMost(Merge(p, q), r)
  BY <1>1, <1>2, <1>7 DEF AtMost, Higher, Pointer
<1> QED
  BY <1>3, <1>4, <1>5, <1>6, <1>7

\* Rows are ordered by AtMost.
LEMMA AtMostOrders ==
    ASSUME NEW p \in Pointer, NEW q \in Pointer, NEW r \in Pointer
    PROVE  AtMost(p, p) /\ (AtMost(p, q) /\ AtMost(q, r) => AtMost(p, r))
  BY DEF AtMost, Pointer

\* A participant's receipt becomes a row with read within delivered, above the
\* receipt, and of the receipt's own marks.
LEMMA ImpliedIsWithin ==
    ASSUME NEW r \in Receipt
    PROVE  /\ Implied(r) \in Pointer /\ Within(Implied(r)) /\ AtMost(r, Implied(r))
           /\ Implied(r).delivered \in {r.delivered, r.read} /\ Implied(r).read = r.read
<1>1. r.delivered \in Nat /\ r.read \in Nat
  BY ReceiptAssumption
<1>2. /\ Implied(r).delivered = Higher(r.delivered, r.read) /\ Implied(r).read = r.read
      /\ Implied(r) \in Pointer
  BY <1>1, HigherIsJoin DEF Implied, Pointer
<1> QED
  BY <1>1, <1>2, HigherIsJoin DEF Within, AtMost

\* The null row is the least one.
LEMMA NullIsLeast ==
    /\ Null \in Pointer /\ Within(Null)
    /\ \A p \in Pointer : AtMost(Null, p)
  BY DEF Null, Pointer, Within, AtMost

\* An idle worker is not a job in any step.
LEMMA IdleIsNoJob == IdleJob \notin Job /\ IdleJob.pc = "idle" /\ ~IdleJob.live
  BY DEF IdleJob, Job

\* What the type invariant says of one worker.
LEMMA Shape ==
    ASSUME TypeOK, NEW w \in Worker
    PROVE  /\ job[w] = IdleJob \/ job[w] \in Job
           /\ job[w] = IdleJob <=> job[w].pc = "idle"
           /\ job[w] # IdleJob =>
                 /\ job[w].pc \in {"advance", "push", "settle"} /\ job[w].receipt \in Receipt
                 /\ job[w].row \in Pointer /\ job[w].live \in BOOLEAN
<1>1. job[w] = IdleJob \/ job[w] \in Job
  BY DEF TypeOK
<1>2. CASE job[w] = IdleJob
  BY <1>2 DEF IdleJob
<1>3. CASE job[w] \in Job
  BY <1>3 DEF IdleJob, Job
<1> QED
  BY <1>1, <1>2, <1>3

\* A step of one worker leaves the others as they were.
LEMMA OneMoves ==
    ASSUME TypeOK, NEW w \in Worker, NEW j \in Job \cup {IdleJob},
           job' = [job EXCEPT ![w] = j]
    PROVE  /\ job' \in [Worker -> Job \cup {IdleJob}] /\ job'[w] = j
           /\ \A v \in Worker : v # w => job'[v] = job[v]
  BY DEF TypeOK

\* A step of the worker w to j keeps what Rows and Known say of the workers if
\* it holds of j.
LEMMA OneMovesKeeps ==
    ASSUME TypeOK, Rows, Known, NEW w \in Worker, NEW j \in Job \cup {IdleJob},
           job' = [job EXCEPT ![w] = j],
           pointer' \in Pointer, AtMost(pointer, pointer'),
           UNCHANGED reply, reported \subseteq reported', queue' \subseteq reported',
           j.pc = "push" => Within(j.row) /\ AtMost(j.row, pointer'),
           j # IdleJob => j.receipt \in reported,
           j.pc = "advance" => j.receipt.member
    PROVE  Rows' /\ Known'
<1>1. job'[w] = j /\ \A v \in Worker : v # w => job'[v] = job[v]
  BY OneMoves
<1>2. reply \in Pointer /\ pointer \in Pointer
  BY DEF TypeOK
<1>3. Within(reply') /\ AtMost(reply', pointer')
  BY <1>2, AtMostOrders DEF Rows
<1>4. ASSUME NEW v \in Worker, job'[v].pc = "push"
      PROVE  Within(job'[v].row) /\ AtMost(job'[v].row, pointer')
  <2>1. CASE v = w
    BY <1>1, <1>4, <2>1
  <2>2. CASE v # w
    <3>1. job[v].pc = "push" /\ job'[v] = job[v]
      BY <1>1, <1>4, <2>2
    <3>2. job[v].row \in Pointer
      BY <3>1, Shape
    <3>3. Within(job[v].row) /\ AtMost(job[v].row, pointer)
      BY <3>1 DEF Rows
    <3> QED
      BY <1>2, <3>1, <3>2, <3>3, AtMostOrders
  <2> QED
    BY <2>1, <2>2
<1>5. \A v \in Worker : job'[v] # IdleJob => job'[v].receipt \in reported'
  BY <1>1 DEF Known
<1>6. \A v \in Worker : job'[v].pc = "advance" => job'[v].receipt.member
  BY <1>1 DEF Known
<1>7. Rows'
  BY <1>3, <1>4 DEF Rows
<1>8. Known'
  BY <1>5, <1>6 DEF Known
<1> QED
  BY <1>7, <1>8

\* A step of the worker w loses no receipt if it passes on the one w held.
LEMMA OneMovesLosesNone ==
    ASSUME TypeOK, NoReceiptLost, NEW w \in Worker, NEW j \in Job \cup {IdleJob},
           job' = [job EXCEPT ![w] = j], UNCHANGED <<reported, pointer>>,
           queue \cup discarded \subseteq queue' \cup discarded',
           job[w].pc = "advance" /\ job[w].live => job[w].receipt \in queue' \cup discarded'
    PROVE  NoReceiptLost'
<1>1. job'[w] = j /\ \A v \in Worker : v # w => job'[v] = job[v]
  BY OneMoves
<1> SUFFICES ASSUME NEW q \in reported, q.member
             PROVE  \/ q \in queue' \cup discarded'
                    \/ \E v \in Worker : job'[v].pc = "advance" /\ job'[v].live /\ job'[v].receipt = q
                    \/ AtMost(q, pointer')
  BY DEF NoReceiptLost
<1>2. CASE q \in queue \cup discarded \/ AtMost(q, pointer)
  BY <1>2
<1>3. ASSUME NEW v \in Worker, job[v].pc = "advance", job[v].live, job[v].receipt = q
      PROVE  \/ q \in queue' \cup discarded'
             \/ job'[v].pc = "advance" /\ job'[v].live /\ job'[v].receipt = q
  BY <1>1, <1>3
<1> QED
  BY <1>2, <1>3 DEF NoReceiptLost

-----------------------------------------------------------------------------
LEMMA InitIInv == Init => IInv
<1> SUFFICES ASSUME Init PROVE IInv
  OBVIOUS
<1>1. \A w \in Worker : job[w] = IdleJob /\ job[w].pc = "idle"
  BY DEF Init, IdleJob
<1>2. /\ pointer = Null /\ marks = Null /\ reply = Null
      /\ reported = {} /\ queue = {} /\ discarded = {} /\ faults = 0
  BY DEF Init
<1>3. TypeOK
  BY <1>2, NullIsLeast, MaxFaultsAssumption DEF Init, TypeOK
<1>4. Earned(pointer)
  BY <1>2 DEF Earned, Null
<1>5. Rows /\ Known
  BY <1>1, <1>2, NullIsLeast DEF Rows, Known
<1> QED
  BY <1>2, <1>3, <1>4, <1>5, NullIsLeast DEF IInv, NoReceiptLost

LEMMA ReportIInv ==
    ASSUME IInv, NEW r \in Receipt, Report(r)
    PROVE  IInv'
<1>1. /\ reported' = reported \cup {r} /\ queue' = queue \cup {r}
      /\ UNCHANGED <<job, pointer, marks, reply, discarded, faults>>
  BY DEF Report
<1>2. TypeOK'
  BY <1>1 DEF IInv, TypeOK
<1>3. Earned(pointer)'
  BY <1>1 DEF IInv, Earned
<1>4. Rows' /\ Known'
  BY <1>1 DEF IInv, Rows, Known
<1>5. NoReceiptLost'
  BY <1>1 DEF IInv, NoReceiptLost
<1> QED
  BY <1>1, <1>2, <1>3, <1>4, <1>5 DEF IInv

LEMMA ReceiveIInv ==
    ASSUME IInv, NEW w \in Worker, Receive(w)
    PROVE  IInv'
<1>1. /\ job[w] = IdleJob
      /\ UNCHANGED <<reported, pointer, marks, reply, discarded, faults>>
  BY DEF Receive
<1>2. TypeOK /\ Rows /\ Known
  BY DEF IInv
<1>3. PICK r \in queue :
        /\ queue' = queue \ {r}
        /\ job' = [job EXCEPT ![w] = [pc |-> IF Counts(r) THEN "advance" ELSE "settle",
                                      receipt |-> r, row |-> Null, live |-> TRUE]]
  BY DEF Receive
<1> DEFINE j == [pc |-> IF Counts(r) THEN "advance" ELSE "settle",
                 receipt |-> r, row |-> Null, live |-> TRUE]
<1>4. r \in Receipt /\ r \in reported
  BY <1>2 DEF TypeOK, Known
<1>5. j \in Job
  BY <1>4, NullIsLeast DEF Job
<1>6. /\ job' \in [Worker -> Job \cup {IdleJob}] /\ job'[w] = j
      /\ \A v \in Worker : v # w => job'[v] = job[v]
  BY <1>2, <1>3, <1>5, OneMoves
<1>7. TypeOK'
  BY <1>1, <1>2, <1>3, <1>6 DEF TypeOK
<1>8. j.pc # "push" /\ (j.pc = "advance" => j.receipt.member)
  BY DEF Counts
<1>9. AtMost(pointer, pointer') /\ pointer' \in Pointer
  BY <1>1, <1>2, AtMostOrders DEF TypeOK
<1>10. Rows' /\ Known'
  <2>1. queue' \subseteq reported' /\ reported \subseteq reported'
    BY <1>1, <1>2, <1>3 DEF Known
  <2> HIDE DEF j
  <2>2. j.receipt \in reported
    BY <1>4 DEF j
  <2> QED
    BY <1>1, <1>2, <1>3, <1>5, <1>8, <1>9, <2>1, <2>2, OneMovesKeeps DEF j
<1>11. NoReceiptLost'
  <2> SUFFICES ASSUME NEW q \in reported, q.member
               PROVE  \/ q \in queue' \cup discarded'
                      \/ \E v \in Worker : job'[v].pc = "advance" /\ job'[v].live /\ job'[v].receipt = q
                      \/ AtMost(q, pointer')
    BY <1>1 DEF NoReceiptLost
  <2>1. CASE q = r /\ Counts(r)
    <3>1. job'[w].pc = "advance" /\ job'[w].live /\ job'[w].receipt = q
      BY <1>6, <2>1
    <3> QED
      BY <3>1
  <2>2. CASE q = r /\ ~Counts(r)
    <3>1. q.delivered = 0 /\ q.read = 0
      BY <2>2 DEF Counts
    <3> QED
      BY <1>9, <3>1 DEF AtMost, Pointer
  <2>3. CASE q # r
    <3>1. job[w].pc # "advance"
      BY <1>1 DEF IdleJob
    <3>2. CASE q \in queue \cup discarded
      BY <1>1, <1>3, <2>3, <3>2
    <3>3. CASE \E v \in Worker : job[v].pc = "advance" /\ job[v].live /\ job[v].receipt = q
      BY <1>6, <3>1, <3>3
    <3>4. CASE AtMost(q, pointer)
      BY <1>1, <3>4
    <3> QED
      BY <3>2, <3>3, <3>4 DEF IInv, NoReceiptLost
  <2> QED
    BY <2>1, <2>2, <2>3
<1>12. Earned(pointer)'
  BY <1>1 DEF IInv, Earned
<1> QED
  BY <1>1, <1>7, <1>10, <1>11, <1>12 DEF IInv

LEMMA AdvanceIInv ==
    ASSUME IInv, NEW w \in Worker, Advance(w)
    PROVE  IInv' /\ AtMost(pointer, pointer')
<1> DEFINE r == job[w].receipt
           j == [job[w] EXCEPT !.pc = "push", !.row = pointer']
<1>1. /\ job[w].pc = "advance"
      /\ pointer' = Merge(pointer, Implied(r))
      /\ job' = [job EXCEPT ![w] = j]
      /\ UNCHANGED <<reported, queue, marks, reply, discarded, faults>>
  BY DEF Advance, Advanced
<1>2. TypeOK /\ Rows /\ Known /\ pointer \in Pointer /\ marks \in Pointer
  BY DEF IInv, TypeOK
<1>3. job[w] \in Job /\ r \in Receipt /\ r \in reported /\ r.member
  BY <1>1, <1>2, Shape, IdleIsNoJob DEF Known
<1>4. /\ Implied(r) \in Pointer /\ Within(Implied(r)) /\ AtMost(r, Implied(r))
      /\ Implied(r).delivered \in {r.delivered, r.read} /\ Implied(r).read = r.read
  BY <1>3, ImpliedIsWithin
<1>5. /\ pointer' \in Pointer /\ AtMost(pointer, pointer') /\ AtMost(Implied(r), pointer')
      /\ Within(pointer')
      /\ pointer'.delivered \in {pointer.delivered, r.delivered, r.read}
      /\ pointer'.read \in {pointer.read, r.read}
  BY <1>1, <1>2, <1>4, MergeIsJoin DEF IInv
<1>6. j \in Job /\ j.pc = "push" /\ j.row = pointer' /\ j.receipt = r
  BY <1>3, <1>5 DEF Job
<1> HIDE DEF j
<1>7. /\ job' \in [Worker -> Job \cup {IdleJob}] /\ job'[w] = j
      /\ \A v \in Worker : v # w => job'[v] = job[v]
  BY <1>1, <1>2, <1>6, OneMoves
<1>8. TypeOK'
  BY <1>1, <1>2, <1>5, <1>7 DEF TypeOK
<1>9. Rows' /\ Known'
  <2>1. AtMost(pointer', pointer')
    BY <1>5, AtMostOrders
  <2>2. queue' \subseteq reported' /\ reported \subseteq reported'
    BY <1>1, <1>2 DEF Known
  <2> QED
    BY <1>1, <1>2, <1>3, <1>5, <1>6, <2>1, <2>2, OneMovesKeeps
<1>10. AtMost(marks, pointer)'
  BY <1>1, <1>2, <1>5, AtMostOrders DEF IInv
<1>11. Earned(pointer)'
  BY <1>1, <1>3, <1>5 DEF IInv, Earned
<1>12. NoReceiptLost'
  <2> SUFFICES ASSUME NEW q \in reported, q.member
               PROVE  \/ q \in queue' \cup discarded'
                      \/ \E v \in Worker : job'[v].pc = "advance" /\ job'[v].live /\ job'[v].receipt = q
                      \/ AtMost(q, pointer')
    BY <1>1 DEF NoReceiptLost
  <2>1. q.delivered \in Nat /\ q.read \in Nat
    BY <1>2, ReceiptAssumption DEF TypeOK
  <2>2. CASE q \in queue \cup discarded
    BY <1>1, <2>2
  <2>3. CASE AtMost(q, pointer)
    BY <1>2, <1>5, <2>1, <2>3 DEF AtMost, Pointer
  <2>4. CASE q = r
    BY <1>4, <1>5, <2>1, <2>4 DEF AtMost, Pointer
  <2>5. ASSUME NEW v \in Worker, job[v].pc = "advance", job[v].live, job[v].receipt = q, v # w
        PROVE  job'[v].pc = "advance" /\ job'[v].live /\ job'[v].receipt = q
    BY <1>7, <2>5
  <2> QED
    BY <2>2, <2>3, <2>4, <2>5 DEF IInv, NoReceiptLost
<1> QED
  BY <1>1, <1>5, <1>8, <1>9, <1>10, <1>11, <1>12 DEF IInv

LEMMA PushUpdateIInv ==
    ASSUME IInv, NEW w \in Worker, PushUpdate(w)
    PROVE  IInv' /\ AtMost(marks, marks')
<1> DEFINE j == [job[w] EXCEPT !.pc = "settle", !.row = Null]
<1>1. /\ job[w].pc = "push"
      /\ marks' = Merge(marks, job[w].row) \/ marks' = marks
      /\ job' = [job EXCEPT ![w] = j]
      /\ UNCHANGED <<reported, queue, pointer, reply, discarded, faults>>
  BY DEF PushUpdate, Merged
<1>2. TypeOK /\ Rows /\ Known /\ NoReceiptLost /\ pointer \in Pointer /\ marks \in Pointer
  BY DEF IInv, TypeOK
<1>3. job[w] \in Job /\ job[w].receipt \in reported /\ job[w].row \in Pointer
  BY <1>1, <1>2, Shape, IdleIsNoJob DEF Known
<1>4. Within(job[w].row) /\ AtMost(job[w].row, pointer)
  BY <1>1, <1>2 DEF Rows
<1>5. /\ marks' \in Pointer /\ AtMost(marks, marks') /\ Within(marks')
      /\ AtMost(marks', pointer)
  BY <1>1, <1>2, <1>3, <1>4, MergeIsJoin, AtMostOrders DEF IInv
<1>6. j \in Job /\ j.pc = "settle" /\ j.receipt = job[w].receipt
  BY <1>3, NullIsLeast DEF Job
<1> HIDE DEF j
<1>7. job' \in [Worker -> Job \cup {IdleJob}]
  BY <1>1, <1>2, <1>6, OneMoves
<1>8. TypeOK'
  BY <1>1, <1>2, <1>5, <1>7 DEF TypeOK
<1>9. AtMost(pointer, pointer') /\ queue' \subseteq reported'
  BY <1>1, <1>2, AtMostOrders DEF Known
<1>10. Rows' /\ Known'
  BY <1>1, <1>2, <1>3, <1>6, <1>9, OneMovesKeeps
<1>11. NoReceiptLost'
  BY <1>1, <1>2, <1>6, OneMovesLosesNone
<1>12. Earned(pointer)'
  BY <1>1 DEF IInv, Earned
<1> QED
  BY <1>1, <1>5, <1>8, <1>10, <1>11, <1>12 DEF IInv

\* The end of a job: its receipt is folded in, or goes back to the queue, or is
\* discarded, or is someone else's by now.
LEMMA ReleaseIInv ==
    ASSUME IInv, NEW w \in Worker, job[w] # IdleJob,
           job' = [job EXCEPT ![w] = IdleJob],
           UNCHANGED <<reported, pointer, marks, reply>>,
           queue' \in {queue, queue \cup {job[w].receipt}},
           discarded' \in {discarded, discarded \cup {job[w].receipt}},
           faults' \in 0..MaxFaults,
           job[w].pc = "advance" /\ job[w].live => job[w].receipt \in queue' \cup discarded'
    PROVE  IInv'
<1>1. TypeOK /\ Rows /\ Known /\ NoReceiptLost /\ pointer \in Pointer
  BY DEF IInv, TypeOK
<1>2. job[w].receipt \in Receipt /\ job[w].receipt \in reported
  BY <1>1, Shape DEF Known
<1>3. job' \in [Worker -> Job \cup {IdleJob}]
  BY <1>1, OneMoves
<1>4. TypeOK'
  BY <1>1, <1>2, <1>3 DEF TypeOK
<1>5. AtMost(pointer, pointer') /\ queue' \subseteq reported'
  BY <1>1, <1>2, AtMostOrders DEF Known
<1>6. Rows' /\ Known'
  BY <1>1, <1>5, IdleIsNoJob, OneMovesKeeps
<1>7. NoReceiptLost'
  BY <1>1, OneMovesLosesNone
<1>8. Earned(pointer)'
  BY DEF IInv, Earned
<1> QED
  BY <1>4, <1>6, <1>7, <1>8 DEF IInv

LEMMA AckIInv ==
    ASSUME IInv, NEW w \in Worker, Ack(w)
    PROVE  IInv'
<1>1. TypeOK /\ faults \in 0..MaxFaults
  BY DEF IInv, TypeOK
<1>2. job[w].pc = "settle" /\ job[w] # IdleJob
  BY IdleIsNoJob DEF Ack
<1> QED
  BY <1>1, <1>2, ReleaseIInv DEF Ack

\* A fault keeps the count of faults within its bound.
LEMMA FaultBounded ==
    ASSUME TypeOK, Fault
    PROVE  faults' \in 0..MaxFaults
  BY MaxFaultsAssumption DEF TypeOK, Fault

LEMMA NackIInv ==
    ASSUME IInv, NEW w \in Worker, Nack(w)
    PROVE  IInv'
<1>1. TypeOK /\ faults' \in 0..MaxFaults
  BY FaultBounded DEF IInv, Nack
<1>2. job[w].pc = "advance" /\ job[w] # IdleJob
  BY IdleIsNoJob DEF Nack
<1>3. /\ discarded' = IF job[w].live THEN discarded \cup {job[w].receipt} ELSE discarded
      /\ job' = [job EXCEPT ![w] = IdleJob]
      /\ UNCHANGED <<reported, queue, pointer, marks, reply>>
  BY DEF Nack
<1> QED
  BY <1>1, <1>2, <1>3, ReleaseIInv

LEMMA DieIInv ==
    ASSUME IInv, NEW w \in Worker, Die(w)
    PROVE  IInv'
<1>1. TypeOK /\ faults' \in 0..MaxFaults /\ job[w] # IdleJob
  BY FaultBounded DEF IInv, Die
<1>2. /\ queue' = IF job[w].live THEN queue \cup {job[w].receipt} ELSE queue
      /\ job' = [job EXCEPT ![w] = IdleJob]
      /\ UNCHANGED <<reported, pointer, marks, reply, discarded>>
  BY DEF Die, Redelivered
<1> QED
  BY <1>1, <1>2, ReleaseIInv

LEMMA LoseConnectionIInv ==
    ASSUME IInv, NEW w \in Worker, LoseConnection(w)
    PROVE  IInv'
<1> DEFINE j == [job[w] EXCEPT !.live = FALSE]
<1>1. /\ job[w].live /\ job' = [job EXCEPT ![w] = j]
      /\ queue' = queue \cup {job[w].receipt}
      /\ UNCHANGED <<reported, pointer, marks, reply, discarded>>
  BY DEF LoseConnection, Redelivered
<1>2. TypeOK /\ Rows /\ Known /\ NoReceiptLost /\ pointer \in Pointer
  BY DEF IInv, TypeOK
<1>3. job[w] \in Job /\ job[w].receipt \in reported /\ job[w].receipt \in Receipt
  BY <1>1, <1>2, Shape, IdleIsNoJob DEF Known
<1>4. /\ j \in Job /\ j.pc = job[w].pc /\ j.receipt = job[w].receipt /\ j.row = job[w].row
  BY <1>3 DEF Job
<1> HIDE DEF j
<1>5. job' \in [Worker -> Job \cup {IdleJob}]
  BY <1>1, <1>2, <1>4, OneMoves
<1>6. faults' \in 0..MaxFaults
  BY <1>2, FaultBounded DEF LoseConnection
<1>7. TypeOK'
  BY <1>1, <1>2, <1>3, <1>5, <1>6 DEF TypeOK
<1>8. AtMost(pointer, pointer') /\ queue' \subseteq reported'
  BY <1>1, <1>2, <1>3, AtMostOrders DEF Known
<1>9. /\ j.pc = "push" => Within(j.row) /\ AtMost(j.row, pointer')
      /\ j.pc = "advance" => j.receipt.member
  BY <1>1, <1>2, <1>4 DEF Rows, Known
<1>10. Rows' /\ Known'
  BY <1>1, <1>2, <1>3, <1>4, <1>8, <1>9, OneMovesKeeps
<1>11. NoReceiptLost'
  BY <1>1, <1>2, <1>4, OneMovesLosesNone
<1>12. Earned(pointer)'
  BY <1>1 DEF IInv, Earned
<1> QED
  BY <1>1, <1>7, <1>10, <1>11, <1>12 DEF IInv

\* The steps of the sender's client.
LEMMA ClientIInv ==
    ASSUME IInv, Fetch \/ Resync \/ Mount
    PROVE  IInv' /\ (AtMost(marks, marks') \/ Mount)
<1>1. UNCHANGED <<reported, queue, job, pointer, discarded, faults>>
  BY DEF Fetch, Resync, Mount
<1>2. /\ TypeOK /\ Rows /\ pointer \in Pointer /\ marks \in Pointer /\ reply \in Pointer
      /\ Within(marks) /\ AtMost(marks, pointer) /\ Within(pointer)
  BY DEF IInv, TypeOK
<1>3. Within(reply) /\ AtMost(reply, pointer)
  BY <1>2 DEF Rows
<1>4. reply' \in Pointer /\ Within(reply') /\ AtMost(reply', pointer)
  BY <1>2, <1>3, NullIsLeast, AtMostOrders DEF Fetch, Resync, Mount
<1>5. /\ marks' \in Pointer /\ Within(marks') /\ AtMost(marks', pointer)
      /\ AtMost(marks, marks') \/ Mount
  <2>1. CASE Fetch
    BY <1>2, <2>1, AtMostOrders DEF Fetch
  <2>2. CASE Resync
    BY <1>2, <1>3, <2>2, MergeIsJoin DEF Resync, Merged
  <2>3. CASE Mount
    BY <1>2, <2>3, NullIsLeast DEF Mount
  <2> QED
    BY <2>1, <2>2, <2>3
<1>6. TypeOK'
  BY <1>1, <1>2, <1>4, <1>5 DEF TypeOK
<1>7. Rows' /\ Known'
  BY <1>1, <1>4 DEF IInv, Rows, Known
<1>8. Earned(pointer)' /\ NoReceiptLost'
  BY <1>1 DEF IInv, Earned, NoReceiptLost
<1> QED
  BY <1>1, <1>2, <1>5, <1>6, <1>7, <1>8 DEF IInv

LEMMA StepIInv == IInv /\ [Next]_vars => IInv'
<1> SUFFICES ASSUME IInv, [Next]_vars PROVE IInv'
  OBVIOUS
<1>1. ASSUME NEW r \in Receipt, Report(r) PROVE IInv'
  BY <1>1, ReportIInv
<1>2. ASSUME NEW w \in Worker, Handle(w) \/ Nack(w) \/ Die(w) \/ LoseConnection(w)
      PROVE  IInv'
  BY <1>2, ReceiveIInv, AdvanceIInv, PushUpdateIInv, AckIInv, NackIInv, DieIInv,
     LoseConnectionIInv DEF Handle
<1>3. CASE Fetch \/ Resync \/ Mount
  BY <1>3, ClientIInv
<1>4. CASE UNCHANGED vars
  BY <1>4 DEF vars, IInv, TypeOK, Within, AtMost, Earned, Rows, Known, NoReceiptLost
<1> QED
  BY <1>1, <1>2, <1>3, <1>4 DEF Next

\* The invariant the theorems below rest on.
THEOREM Invariant == Spec => []IInv
<1>1. Init => IInv
  BY InitIInv
<1>2. IInv /\ [Next]_vars => IInv'
  BY StepIInv
<1> QED
  BY <1>1, <1>2, PTL DEF Spec

-----------------------------------------------------------------------------
(* Every variable of the model stays in its type (TypeOK).                   *)
THEOREM TypeCorrect == Spec => []TypeOK
<1>1. IInv => TypeOK
  BY DEF IInv
<1> QED
  BY <1>1, Invariant, PTL

(* REQUIREMENTS 4.5: read never exceeds delivered, in the row or on the      *)
(* sender's screen, however receipts and updates are reordered               *)
(* (ReadWithinDelivered).                                                    *)
THEOREM ReadWithinDeliveredHolds == Spec => []ReadWithinDelivered
<1>1. IInv => ReadWithinDelivered
  BY DEF IInv, Within, ReadWithinDelivered
<1> QED
  BY <1>1, Invariant, PTL

(* REQUIREMENTS 4.4: what the sender sees is in the row, and what is in the  *)
(* row was reported by a participant (MarksAreEarned).                       *)
THEOREM MarksAreEarnedHolds == Spec => []MarksAreEarned
<1>1. IInv => MarksAreEarned
  BY DEF IInv, Earned, MarksAreEarned
<1> QED
  BY <1>1, Invariant, PTL

(* No crash or lost connection loses a receipt (NoReceiptLost).              *)
THEOREM NoReceiptLostHolds == Spec => []NoReceiptLost
<1>1. IInv => NoReceiptLost
  BY DEF IInv
<1> QED
  BY <1>1, Invariant, PTL

(* REQUIREMENTS 4.7: neither the row nor what the sender sees ever goes back *)
(* (MarksNeverRegress).                                                      *)
THEOREM MarksNeverRegressHolds == Spec => MarksNeverRegress
<1> DEFINE Forward == AtMost(pointer, pointer') /\ (AtMost(marks, marks') \/ Mount)
<1>1. ASSUME IInv, [Next]_vars PROVE [Forward]_vars
  <2>1. pointer \in Pointer /\ marks \in Pointer
    BY <1>1 DEF IInv, TypeOK
  <2>2. AtMost(pointer, pointer) /\ AtMost(marks, marks)
    BY <2>1, AtMostOrders
  <2>3. ASSUME NEW w \in Worker, Advance(w) PROVE Forward
    BY <1>1, <2>2, <2>3, AdvanceIInv DEF Advance
  <2>4. ASSUME NEW w \in Worker, PushUpdate(w) PROVE Forward
    BY <1>1, <2>2, <2>4, PushUpdateIInv DEF PushUpdate
  <2>5. CASE Fetch \/ Resync \/ Mount
    <3>1. AtMost(marks, marks') \/ Mount
      BY <1>1, <2>5, ClientIInv
    <3>2. UNCHANGED pointer
      BY <2>5 DEF Fetch, Resync, Mount
    <3> QED
      BY <2>2, <3>1, <3>2
  <2>6. ASSUME NEW r \in Receipt, Report(r) PROVE Forward
    BY <2>2, <2>6 DEF Report
  <2>7. ASSUME NEW w \in Worker,
               Receive(w) \/ Ack(w) \/ Nack(w) \/ Die(w) \/ LoseConnection(w)
        PROVE  Forward
    BY <2>2, <2>7 DEF Receive, Ack, Nack, Die, LoseConnection
  <2> QED
    BY <1>1, <2>3, <2>4, <2>5, <2>6, <2>7 DEF Next, Handle
<1> QED
  BY <1>1, Invariant, PTL DEF Spec, MarksNeverRegress
=============================================================================
