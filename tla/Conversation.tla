---------------------------- MODULE Conversation ----------------------------
(***************************************************************************)
(* One conversation as one browser tab knows it: the thread of the page that *)
(* shows it, the query caches it starts from, the frames that arrive over    *)
(* the relay socket, and the delivered and read marks it sends back. The     *)
(* service persists messages and answers queries; the frames it publishes    *)
(* reach the tab in any order, at least once, or not at all without a link.  *)
(*                                                                         *)
(* A message is its position in the table, as its UUIDv7 orders it; a thread *)
(* is a set of entries: the order of display is left out, and two entries    *)
(* alike, which only a message in mixed can have, are one. A handler runs    *)
(* with the render and the effects it causes. SendMessage is the service.    *)
(***************************************************************************)
EXTENDS Integers, Sequences, FiniteSets, FiniteSetsExt

CONSTANTS
    MaxRows,    \* bound: messages that are persisted
    MaxMine,    \* bound: messages composed in this tab
    Page,       \* messages in a page of history (50 in get-history.ts)
    MaxFaults   \* bound: links that drop, frames and queries that fail, redeliveries

ASSUME ConversationBounds ==
    /\ MaxRows \in Nat /\ MaxMine \in Nat /\ MaxFaults \in Nat
    /\ Page \in Nat \ {0}

VARIABLES
    rows,       \* the conversation's messages: 0 for the partner's, else a clientMsgId
    sends,      \* own messages on their way to the service
    frames,     \* frames on their way to the tab
    link,       \* the relay socket's link
    resolved,   \* query: whether the conversation exists yet
    history,    \* query: how many messages there were, of which the last page
    list,       \* query: the conversation's newest message in the list
    mounted,    \* the thread's page is open
    focused,    \* the document has the focus
    thread,     \* the entries the page shows
    emitted,    \* the marks this page has emitted
    acked,      \* the newest message acked as delivered
    \* history variables
    composed,   \* clientMsgIds used
    handled,    \* messages whose frames this page has handled
    mixed,      \* messages merged while the page had them without their id
    unheard,    \* messages the list has not read and no frame will announce
    aged,       \* messages there were when the caches last went stale
    floor,      \* messages there were then, as of this page's opening
    broken,     \* a query of this page failed
    faults

server == <<rows, sends>>
queries == <<resolved, history, list>>
page == <<mounted, focused, thread, emitted, handled, mixed, floor, broken>>
aux == <<composed, unheard, aged, faults>>
vars == <<server, frames, link, queries, page, acked, aux>>

Message == 1..MaxRows
Mine == 1..MaxMine
Entry == [id : 0..MaxRows, cid : 0..MaxMine, status : {"sending", "sent", "failed"}]
Frame == [type : {"received", "sent"}, n : Message] \cup [type : {"rejected"}, n : Mine]
Query(D) == [data : D, fresh : BOOLEAN, pc : {"idle", "asked", "read"}, got : D]
Unasked(none) == [data |-> none, fresh |-> FALSE, pc |-> "idle", got |-> none]

TypeOK ==
    /\ rows \in Seq(0..MaxMine) /\ Len(rows) <= MaxRows
    /\ sends \subseteq 1..composed /\ frames \subseteq Frame
    /\ link \in {"connecting", "live", "down"} /\ (link # "live" => frames = {})
    /\ resolved \in Query({"none", "absent", "present"})
    /\ history \in Query(0..Len(rows)) /\ list \in Query(0..Len(rows))
    /\ mounted \in BOOLEAN /\ focused \in BOOLEAN
    /\ thread \subseteq Entry /\ (~mounted => thread = {})
    /\ \A m \in thread : m.id <= Len(rows) /\ (m.status = "sending" => m.id = 0)
    /\ emitted \in [read : 0..Len(rows), delivered : 0..Len(rows)]
    /\ acked \in 0..Len(rows)
    /\ composed \in 0..MaxMine
    /\ handled \subseteq 1..Len(rows) /\ mixed \subseteq 1..Len(rows) /\ unheard \subseteq 1..Len(rows)
    /\ aged \in 0..Len(rows) /\ floor \in 0..aged
    /\ broken \in BOOLEAN /\ faults \in 0..MaxFaults

\* The shell is up: the list is asked for and the socket is connecting.
Init ==
    /\ rows = <<>> /\ sends = {} /\ frames = {} /\ link = "connecting"
    /\ resolved = Unasked("none") /\ history = Unasked(0)
    /\ list = [Unasked(0) EXCEPT !.pc = "asked", !.fresh = TRUE]   \* nobody looks
    /\ mounted = FALSE /\ focused = FALSE /\ thread = {}
    /\ emitted = [read |-> 0, delivered |-> 0]
    /\ acked = 0 /\ composed = 0
    /\ handled = {} /\ mixed = {} /\ unheard = {} /\ aged = 0 /\ floor = 0
    /\ broken = FALSE /\ faults = 0

-----------------------------------------------------------------------------
(* messagesReducer. *)

Ids(T) == {m.id : m \in T} \ {0}
Shown(n) == {i \in 1..n : i > n - Page}

\* What becomes of the entry m when e comes in: an id e lacks is kept.
Onto(m, e) == [id |-> IF e.id = 0 THEN m.id ELSE e.id,
               cid |-> IF e.cid = 0 THEN m.cid ELSE e.cid, status |-> e.status]

\* The first match in the order of display is the one updated: any of them here.
MutMatches(T, e) == {m \in T : e.cid # 0 /\ m.cid = e.cid}
Matches(T, e) == {m \in T : (e.cid # 0 /\ m.cid = e.cid) \/ (e.id # 0 /\ m.id = e.id)}
Upserted(T, e) ==
    IF Matches(T, e) = {} THEN {T \cup {e}}
    ELSE {(T \ {m}) \cup {Onto(m, e)} : m \in Matches(T, e)}

Patched(T, k, id, status) ==
    LET M == {m \in T : m.cid = k} IN
    IF M = {} THEN {T}
    ELSE {(T \ {m}) \cup {[id |-> IF id = 0 THEN m.id ELSE id, cid |-> k, status |-> status]} : m \in M}

\* A page of history knows ids only. Those in the thread become sent.
Merged(T, n) ==
    {IF m.id \in Shown(n) THEN [m EXCEPT !.status = "sent"] ELSE m : m \in T}
    \cup {[id |-> i, cid |-> 0, status |-> "sent"] : i \in Shown(n) \ Ids(T)}

Clash(T, n) == {i \in Shown(n) \ Ids(T) : \E m \in T : m.cid # 0 /\ m.cid = rows[i]}

-----------------------------------------------------------------------------
(* The effects of a render. *)

Theirs(T) == {i \in Ids(T) : rows[i] = 0}
PartnerLatest(T) == Max(Theirs(T) \cup {0})

\* The mark of the newest partner message, unless it has been emitted: read
\* with the focus, delivered without. send is not looked at.
EmitMarks(T, known, look, em) ==
    LET p == PartnerLatest(T) IN
    emitted' = IF ~known THEN em
               ELSE IF look /\ p > em.read THEN [read |-> p, delivered |-> p]
               ELSE IF ~look /\ p > em.delivered THEN [em EXCEPT !.delivered = p] ELSE em

Known == resolved.data = "present"
Unemitted == [read |-> 0, delivered |-> 0]

Render(T) == thread' = T /\ EmitMarks(T, Known, focused, emitted)

\* ackDelivered, if the message is the partner's and newer than the last acked,
\* and the link takes it.
Acks(n, up) == IF n > acked /\ up /\ rows[n] = 0 THEN n ELSE acked

-----------------------------------------------------------------------------
(* Queries. *)

Ask(q) == [q EXCEPT !.pc = "asked"]
Stale(q) == ~q.fresh
OnMount(q) == IF q.pc = "idle" /\ Stale(q) THEN Ask(q) ELSE q
Answered(q, v) == [q EXCEPT !.pc = "read", !.got = v]
Kept(q) == [data |-> q.got, fresh |-> TRUE, pc |-> "idle", got |-> q.got]

-----------------------------------------------------------------------------
(* The page. *)

\* A keyed mount: a fresh thread, from whatever history is cached.
Mount ==
    /\ ~mounted /\ mounted' = TRUE
    /\ focused' \in BOOLEAN
    /\ resolved' = OnMount(resolved)
    /\ history' = IF Known THEN OnMount(history) ELSE history
    /\ LET T == IF Known THEN Merged({}, history.data) ELSE {} IN
          thread' = T /\ EmitMarks(T, Known, focused', Unemitted)
    /\ handled' = {} /\ mixed' = {} /\ floor' = aged /\ broken' = FALSE
    /\ UNCHANGED <<server, frames, link, list, acked, aux>>

\* Queries under way go on; their answers are cached.
Unmount ==
    /\ mounted /\ mounted' = FALSE
    /\ focused' = FALSE /\ thread' = {} /\ emitted' = Unemitted
    /\ handled' = {} /\ mixed' = {} /\ floor' = 0 /\ broken' = FALSE
    /\ UNCHANGED <<server, frames, link, queries, acked, aux>>

SetFocus ==
    /\ mounted /\ focused' = ~focused
    /\ EmitMarks(thread, Known, focused', emitted)
    /\ UNCHANGED <<server, frames, link, queries, mounted, thread, handled, mixed, floor, broken, acked, aux>>

\* sendMessage: the optimistic entry, failed at once if the link is not live.
Compose ==
    /\ mounted /\ composed < MaxMine /\ Len(rows) + Cardinality(sends) < MaxRows
    /\ composed' = composed + 1
    /\ sends' = IF link = "live" THEN sends \cup {composed'} ELSE sends
    /\ Render(thread \cup {[id |-> 0, cid |-> composed',
                            status |-> IF link = "live" THEN "sending" ELSE "failed"]})
    /\ UNCHANGED <<rows, frames, link, queries, mounted, focused, handled, mixed, floor, broken>>
    /\ UNCHANGED <<acked, unheard, aged, faults>>

-----------------------------------------------------------------------------
(* The service. *)

\* To a recipient's devices the message; to its sender's the ack and the echo.
Outbound(r, n) ==
    {[type |-> "received", n |-> n]} \cup (IF r = 0 THEN {} ELSE {[type |-> "sent", n |-> n]})

Publish(F) == frames' = IF link = "live" THEN frames \cup F ELSE {}

\* Until the list is read again, only a reconnect makes up for what the first
\* connection came too late to hear.
Persisted(r) ==
    /\ rows' = Append(rows, r)
    /\ Publish(Outbound(r, Len(rows')))
    /\ unheard' = IF link = "connecting" THEN unheard \cup {Len(rows')} ELSE unheard

PartnerSends ==
    /\ Len(rows) + Cardinality(sends) < MaxRows
    /\ Persisted(0)
    /\ UNCHANGED <<sends, link, queries, page, acked, composed, aged, faults>>

Persist(k) ==
    /\ k \in sends /\ sends' = sends \ {k}
    /\ Persisted(k)
    /\ UNCHANGED <<link, queries, page, acked, composed, aged, faults>>

Reject(k) ==
    /\ k \in sends /\ sends' = sends \ {k}
    /\ Publish({[type |-> "rejected", n |-> k]})
    /\ UNCHANGED <<rows, link, queries, page, acked, aux>>

-----------------------------------------------------------------------------
(* Frames: applyFrameToCache, then the listeners. *)

\* The list is refetched, a fetch under way begun again.
MutReceived(n) ==
    /\ acked' = Acks(n, TRUE)
    /\ list' = Ask(list)
    /\ IF mounted /\ rows[n] = 0
       THEN thread' = thread \cup {[id |-> n, cid |-> 0, status |-> "sending"]} /\ UNCHANGED <<emitted>>
       ELSE UNCHANGED <<thread, emitted>>
    /\ handled' = IF mounted THEN handled \cup {n} ELSE handled
    /\ UNCHANGED resolved
Received(n) ==
    /\ acked' = Acks(n, TRUE)
    /\ list' = Ask(list)
    /\ IF mounted
       THEN /\ \E T \in Upserted(thread, [id |-> n, cid |-> rows[n], status |-> "sent"]) : Render(T)
            /\ handled' = handled \cup {n}
       ELSE UNCHANGED <<thread, emitted, handled>>
    /\ UNCHANGED resolved

\* The ack of an own message; the first one makes the conversation known.
Sent(n) ==
    /\ list' = Ask(list)
    /\ IF mounted
       THEN /\ \E T \in Patched(thread, rows[n], n, "sent") : Render(T)
            /\ handled' = IF \E m \in thread : m.cid = rows[n] THEN handled \cup {n} ELSE handled
            /\ resolved' = IF Known THEN resolved ELSE Ask(resolved)
       ELSE UNCHANGED <<thread, emitted, handled, resolved>>
    /\ UNCHANGED acked

Rejected(k) ==
    /\ IF mounted THEN \E T \in Patched(thread, k, 0, "failed") : Render(T)
                  ELSE UNCHANGED <<thread, emitted>>
    /\ UNCHANGED <<resolved, list, handled, acked>>

OnFrame(f) ==
    /\ f \in frames /\ frames' = frames \ {f}
    /\ CASE f.type = "received" -> Received(f.n)
         [] f.type = "sent" -> Sent(f.n)
         [] f.type = "rejected" -> Rejected(f.n)
    /\ UNCHANGED <<server, link, history, mounted, focused, mixed, floor, broken, aux>>

-----------------------------------------------------------------------------
(* Answers. *)

ReadConversation ==
    /\ resolved.pc = "asked"
    /\ resolved' = Answered(resolved, IF rows = <<>> THEN "absent" ELSE "present")
    /\ UNCHANGED <<history, list, unheard>>

ReadHistory ==
    /\ history.pc = "asked"
    /\ history' = Answered(history, Len(rows))
    /\ UNCHANGED <<resolved, list, unheard>>

ReadList ==
    /\ list.pc = "asked"
    /\ list' = Answered(list, Len(rows))
    /\ unheard' = {}
    /\ UNCHANGED <<resolved, history>>

Read ==
    /\ ReadConversation \/ ReadHistory \/ ReadList
    /\ UNCHANGED <<server, frames, link, page, acked, composed, aged, faults>>

\* A conversation that becomes known has its history asked for, shows what is
\* cached of it, and starts its marks again.
Resolve ==
    /\ resolved.pc = "read" /\ resolved' = Kept(resolved)
    /\ IF mounted /\ ~Known /\ resolved.got = "present"
       THEN /\ history' = OnMount(history)
            /\ thread' = Merged(thread, history.data)
            /\ mixed' = mixed \cup Clash(thread, history.data)
            /\ EmitMarks(thread', TRUE, focused, Unemitted)
       ELSE UNCHANGED <<history, thread, mixed, emitted>>
    /\ UNCHANGED <<server, frames, link, list, mounted, focused, handled, floor, broken, acked, aux>>

ShowHistory ==
    /\ history.pc = "read" /\ history' = Kept(history)
    /\ IF mounted /\ Known
       THEN /\ Render(Merged(thread, history.got))
            /\ mixed' = mixed \cup Clash(thread, history.got)
       ELSE UNCHANGED <<thread, mixed, emitted>>
    /\ UNCHANGED <<server, frames, link, resolved, list, mounted, focused, handled, floor, broken, acked, aux>>

\* useDeliveryReceipts: the newest message of a list that has loaded.
ShowList ==
    /\ list.pc = "read" /\ list' = Kept(list)
    /\ acked' = IF list.got = 0 THEN acked ELSE Acks(list.got, link = "live")
    /\ UNCHANGED <<server, frames, link, resolved, history, page, aux>>

-----------------------------------------------------------------------------
(* The link, time and faults. *)

Fault == faults < MaxFaults /\ faults' = faults + 1

\* A link that is live again has the list refetched; and the effect that acks
\* runs once more, its send being a new one.
MutRelisted == UNCHANGED list
Relisted == list' = IF link = "down" THEN Ask(list) ELSE list

LinkUp ==
    /\ link # "live" /\ link' = "live"
    /\ Relisted
    /\ acked' = IF list.data = 0 THEN acked ELSE Acks(list.data, TRUE)
    /\ UNCHANGED <<server, frames, resolved, history, page, aux>>

\* With the link goes what is on it, either way.
LinkDown ==
    /\ link # "down" /\ link' = "down"
    /\ Fault
    /\ frames' = {}
    /\ \E lost \in SUBSET sends : sends' = sends \ lost
    /\ UNCHANGED <<rows, queries, page, acked, composed, unheard, aged>>

\* An envelope that is delivered again is published again.
Republish(n) ==
    /\ n <= Len(rows) /\ link = "live"
    /\ Fault
    /\ Publish(Outbound(rows[n], n))
    /\ UNCHANGED <<server, link, queries, page, acked, composed, unheard, aged>>

\* The gateway cannot enqueue the message, and tells nobody.
LoseSend(k) ==
    /\ k \in sends /\ sends' = sends \ {k}
    /\ Fault
    /\ UNCHANGED <<rows, frames, link, queries, page, acked, composed, unheard, aged>>

\* safePublish fails, or a full buffer drops the frame.
Drop(f) ==
    /\ f \in frames /\ frames' = frames \ {f}
    /\ Fault
    /\ unheard' = IF f.type = "received" THEN unheard \cup {f.n} ELSE unheard
    /\ UNCHANGED <<server, link, queries, page, acked, composed, aged>>

\* A query fails, its retry too. What was cached stays.
Idle(q) == [q EXCEPT !.pc = "idle", !.got = q.data]
Fail ==
    /\ Fault
    /\ \/ /\ resolved.pc # "idle" /\ resolved' = Idle(resolved)
          /\ broken' = mounted
          /\ UNCHANGED <<history, list, unheard>>
       \/ /\ history.pc # "idle" /\ history' = Idle(history)
          /\ broken' = mounted
          /\ UNCHANGED <<resolved, list, unheard>>
       \/ /\ list.pc # "idle" /\ list' = Idle(list)
          /\ unheard' = 1..Len(rows)
          /\ UNCHANGED <<resolved, history, broken>>
    /\ UNCHANGED <<server, frames, link, mounted, focused, thread, emitted, handled, mixed, floor>>
    /\ UNCHANGED <<acked, composed, aged>>

MutAged(q) == q
Aged(q) == [q EXCEPT !.fresh = FALSE]

\* staleTime passes: longer than any query takes.
Age ==
    /\ resolved.pc = "idle" /\ history.pc = "idle"
    /\ resolved' = Aged(resolved) /\ history' = Aged(history)
    /\ aged' = Len(rows)
    /\ UNCHANGED <<server, frames, link, list, page, acked, composed, unheard, faults>>

\* The browser is online again: stale queries in use are asked again.
Online ==
    /\ mounted
    /\ resolved' = OnMount(resolved)
    /\ history' = IF Known THEN OnMount(history) ELSE history
    /\ <<resolved', history'>> # <<resolved, history>>
    /\ UNCHANGED <<server, frames, link, list, page, acked, aux>>

-----------------------------------------------------------------------------
Next ==
    \/ Mount \/ Unmount \/ SetFocus \/ Compose
    \/ PartnerSends \/ \E k \in Mine : Persist(k) \/ Reject(k) \/ LoseSend(k)
    \/ \E n \in Message : Republish(n)
    \/ \E f \in frames : OnFrame(f) \/ Drop(f)
    \/ Read \/ Resolve \/ ShowHistory \/ ShowList
    \/ LinkUp \/ LinkDown \/ Fail \/ Age \/ Online

Spec == Init /\ [][Next]_vars

-----------------------------------------------------------------------------
(* AC-D3, AC-M1: a message whose frame the page has handled, or that is in    *)
(* the history it holds, is in the thread once, however acks, echoes, repeats *)
(* and history follow each other, unless history came between an own message  *)
(* and its first frame (upsert has nothing to match them by then).            *)
ShownOnce ==
    mounted =>
        \A n \in (handled \cup (IF Known THEN Shown(history.data) ELSE {})) \ mixed :
            Cardinality({m \in thread : m.id = n}) = 1

(* REQUIREMENTS 8.3, as far as the code goes: a page at rest shows every      *)
(* message of the last page of history that is older than the staleTime       *)
(* before its opening. A younger one may be missing (see the README).         *)
NothingOldMissed ==
    mounted /\ ~broken /\ resolved.pc = "idle" /\ history.pc = "idle" =>
        \A n \in 1..floor : n \in Ids(thread) \/ n <= history.data - Page

(* REQUIREMENTS 4.2, 4.3: with a live link and nothing under way, the newest   *)
(* message is acked as delivered if it is the partner's, whether it came as a  *)
(* frame or while the link was down; and a focused page has emitted its read    *)
(* mark for the newest message it shows (useDeliveryReceipts, the last effect  *)
(* of useConversation).                                                       *)
MarksKeepUp ==
    LET n == Len(rows) IN
    /\ link = "live" /\ frames = {} /\ list.pc = "idle" /\ n > 0 /\ n \notin unheard /\ rows[n] = 0
          => acked >= n
    /\ mounted /\ focused /\ Known => emitted.read = PartnerLatest(thread)
=============================================================================
