------------------------------ MODULE Receipts ------------------------------
(***************************************************************************)
(* Delivery and read receipts of one conversation, in one direction: the   *)
(* receipts the recipient's devices report, RecordReceipt's consumers that *)
(* fold them into the recipient's row of message_receipts, and the marks   *)
(* on the screen of the sender, who hears of the row by receipt.update     *)
(* frames and by fetching it.                                              *)
(*                                                                         *)
(* Message ids are UUIDv7s, here numbers, and 0 stands for null.           *)
(***************************************************************************)
EXTENDS Naturals

CONSTANTS
    Receipt,    \* the envelopes the devices may report, and strangers may send
    Worker,     \* concurrent deliveries of the work queue
    NoReceipt,  \* what an idle worker holds
    MaxFaults   \* bound: crashes, lost connections, failed statements

ASSUME ReceiptAssumption ==
    /\ Receipt \subseteq [delivered : Nat, read : Nat, member : BOOLEAN]
    /\ NoReceipt \notin Receipt
ASSUME MaxFaultsAssumption == MaxFaults \in Nat

VARIABLES
    reported,   \* history: envelopes the gateways have put on the queue
    queue,      \* envelopes in the work queue, not delivered or requeued
    job,        \* the RecordReceipt executions in flight
    pointer,    \* the recipient's row of message_receipts
    marks,      \* the receipts state of the sender's open thread
    reply,      \* the answer to GET receipts that is still on its way, or Null
    discarded,  \* history: envelopes nacked without requeue
    faults

vars == <<reported, queue, job, pointer, marks, reply, discarded, faults>>

Pointer == [delivered : Nat, read : Nat]
Null == [delivered |-> 0, read |-> 0]

\* live: the delivery's channel is still open, so that its ack or nack counts.
IdleJob == [pc |-> "idle", receipt |-> NoReceipt, row |-> Null, live |-> FALSE]
Job == [pc : {"advance", "push", "settle"}, receipt : Receipt, row : Pointer, live : BOOLEAN]

TypeOK ==
    /\ reported \subseteq Receipt /\ queue \subseteq Receipt /\ discarded \subseteq Receipt
    /\ job \in [Worker -> Job \cup {IdleJob}]
    /\ pointer \in Pointer /\ marks \in Pointer /\ reply \in Pointer
    /\ faults \in 0..MaxFaults

Init ==
    /\ reported = {} /\ queue = {} /\ discarded = {}
    /\ job = [w \in Worker |-> IdleJob]
    /\ pointer = Null /\ marks = Null /\ reply = Null
    /\ faults = 0

-----------------------------------------------------------------------------
Higher(m, n) == IF m < n THEN n ELSE m
Merge(p, q) ==
    [delivered |-> Higher(p.delivered, q.delivered), read |-> Higher(p.read, q.read)]

\* The gateway relays a receipt, first or repeated.
Report(r) ==
    /\ reported' = reported \cup {r}
    /\ queue' = queue \cup {r}
    /\ UNCHANGED <<job, pointer, marks, reply, discarded, faults>>

\* Only a participant's receipt that says anything gets as far as the row.
MutCounts(r) == r.delivered # 0 \/ r.read # 0
Counts(r) == r.member /\ (r.delivered # 0 \/ r.read # 0)

Receive(w) ==
    /\ job[w] = IdleJob
    /\ \E r \in queue :
          /\ queue' = queue \ {r}
          /\ job' = [job EXCEPT ![w] = [pc |-> IF Counts(r) THEN "advance" ELSE "settle",
                                        receipt |-> r, row |-> Null, live |-> TRUE]]
    /\ UNCHANGED <<reported, pointer, marks, reply, discarded, faults>>

\* Reading implies delivery: a read receipt also bumps delivered.
MutImplied(r) == [delivered |-> r.delivered, read |-> r.read]
Implied(r) == [delivered |-> Higher(r.delivered, r.read), read |-> r.read]

\* receipts.advance: one upsert that takes the greatest of the stored and the
\* reported value of each column, and returns the row.
MutAdvanced(p, v) == v
Advanced(p, v) == Merge(p, v)

Advance(w) ==
    /\ job[w].pc = "advance"
    /\ pointer' = Advanced(pointer, Implied(job[w].receipt))
    /\ job' = [job EXCEPT ![w].pc = "push", ![w].row = pointer']
    /\ UNCHANGED <<reported, queue, marks, reply, discarded, faults>>

\* The sender's thread keeps the greatest of what it had and what it is told.
MutMerged(p, q) == q
Merged(p, q) == Merge(p, q)

\* receipt.update carries the row as the upsert returned it, however late it is
\* sent.  safePublish swallows a failure, and Redis keeps nothing for a sender
\* who is away or looks at another thread.
PushUpdate(w) ==
    /\ job[w].pc = "push"
    /\ marks' = Merged(marks, job[w].row) \/ UNCHANGED marks
    /\ job' = [job EXCEPT ![w].pc = "settle", ![w].row = Null]
    /\ UNCHANGED <<reported, queue, pointer, reply, discarded, faults>>

Ack(w) ==
    /\ job[w].pc = "settle"
    /\ job' = [job EXCEPT ![w] = IdleJob]
    /\ UNCHANGED <<reported, queue, pointer, marks, reply, discarded, faults>>

-----------------------------------------------------------------------------
Fault == faults < MaxFaults /\ faults' = faults + 1

\* The lookup or the upsert throws: nacked without requeue.
Nack(w) ==
    /\ job[w].pc = "advance"
    /\ Fault
    /\ discarded' = IF job[w].live THEN discarded \cup {job[w].receipt} ELSE discarded
    /\ job' = [job EXCEPT ![w] = IdleJob]
    /\ UNCHANGED <<reported, queue, pointer, marks, reply>>

MutRedelivered(w) == queue
MutRedelivered2(w) == queue \cup {IdleJob.receipt}
Redelivered(w) == IF job[w].live THEN queue \cup {job[w].receipt} ELSE queue

\* The process dies: the broker requeues what it had not acked.
Die(w) ==
    /\ job[w] # IdleJob
    /\ Fault
    /\ queue' = Redelivered(w)
    /\ job' = [job EXCEPT ![w] = IdleJob]
    /\ UNCHANGED <<reported, pointer, marks, reply, discarded>>

\* Only the connection is lost: the receipt is delivered again while this
\* handler runs on.
LoseConnection(w) ==
    /\ job[w].live
    /\ Fault
    /\ queue' = Redelivered(w)
    /\ job' = [job EXCEPT ![w].live = FALSE]
    /\ UNCHANGED <<reported, pointer, marks, reply, discarded>>

-----------------------------------------------------------------------------
\* GET receipts reads the row; its answer may be overtaken by frames.
Fetch ==
    /\ reply = Null
    /\ reply' = pointer
    /\ UNCHANGED <<reported, queue, job, pointer, marks, discarded, faults>>

Resync ==
    /\ marks' = Merged(marks, reply)
    /\ reply' = Null
    /\ UNCHANGED <<reported, queue, job, pointer, discarded, faults>>

\* Opening a thread starts from no marks.
Mount ==
    /\ marks' = Null
    /\ UNCHANGED <<reported, queue, job, pointer, reply, discarded, faults>>

Handle(w) == Receive(w) \/ Advance(w) \/ PushUpdate(w) \/ Ack(w)

Next ==
    \/ \E r \in Receipt : Report(r)
    \/ \E w \in Worker : Handle(w) \/ Nack(w) \/ Die(w) \/ LoseConnection(w)
    \/ Fetch \/ Resync \/ Mount

Spec == Init /\ [][Next]_vars

-----------------------------------------------------------------------------
AtMost(p, q) == p.delivered <= q.delivered /\ p.read <= q.read

(* REQUIREMENTS 4.5: delivered_up_to >= read_up_to, in the row and on the    *)
(* screen, though clients report a read mark without a delivered one and     *)
(* receipts and updates are applied in any order.                            *)
ReadWithinDelivered ==
    pointer.read <= pointer.delivered /\ marks.read <= marks.delivered

(* REQUIREMENTS 4.7: no duplicate, late or reordered receipt, update or      *)
(* fetch moves a mark back, neither in the row nor before the sender's eyes. *)
MarksNeverRegress ==
    [][AtMost(pointer, pointer') /\ (AtMost(marks, marks') \/ Mount)]_vars

(* REQUIREMENTS 4.4: the sender never sees more than the row, and the row is *)
(* nothing a participant did not report.                                     *)
MarksAreEarned ==
    /\ AtMost(marks, pointer)
    /\ pointer.delivered # 0 =>
          \E r \in reported : r.member /\ pointer.delivered \in {r.delivered, r.read}
    /\ pointer.read # 0 => \E r \in reported : r.member /\ pointer.read = r.read

(* A participant's receipt is in the row, or still queued or in a handler    *)
(* that has not applied it, unless it was nacked: no crash loses one.        *)
NoReceiptLost ==
    \A r \in reported :
        r.member =>
            \/ r \in queue \cup discarded
            \/ \E w \in Worker : job[w].pc = "advance" /\ job[w].live /\ job[w].receipt = r
            \/ AtMost(r, pointer)
=============================================================================
