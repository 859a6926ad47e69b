---------------------------- MODULE ChatService -----------------------------
(***************************************************************************)
(* chat-service for one pair of users: the two consumers of the process    *)
(* (composition-root starts both), sharing the rows of the pair.           *)
(***************************************************************************)
EXTENDS FriendProjection, SendMessage

VARIABLE
    barred      \* history: jobs received since the conversation closed

chatVars == <<vars, sendVars, barred>>

ChatTypeOK == TypeOK /\ SendTypeOK /\ barred \subseteq SendWorker

ChatInit == Init /\ SendInit /\ barred = {}

\* A job is barred if the conversation was closed when its delivery started
\* and has not been reopened since.
Bar ==
    barred' = {w \in SendWorker : /\ conv' = "closed" /\ job'[w] # IdleJob
                                  /\ w \in barred \/ (conv = "closed" /\ job[w] = IdleJob)}

ChatNext ==
    /\ \/ Next /\ UNCHANGED sendVars
       \/ SendNext /\ UNCHANGED projVars
    /\ Bar

ChatSpec == ChatInit /\ [][ChatNext]_chatVars

ChatFairSpec ==
    /\ ChatSpec
    /\ \A w \in Worker : WF_chatVars(Handle(w) /\ UNCHANGED sendVars /\ Bar)
    /\ \A w \in SendWorker : WF_chatVars(Process(w) /\ UNCHANGED <<badBody, projVars>> /\ Bar)

-----------------------------------------------------------------------------
(* AC-M1, AC-M4, AC-O1: whatever crashes, redeliveries and retries do, every *)
(* frame about a message carries the id of its one persisted row.            *)
FramesMatchRows ==
    \A f \in frames : f.type # "rejected" => rows[f.key] = f.id

(* AC-M2: no conversation is ever created for a pair whose friendship        *)
(* chat-service never saw accepted, although the gate is two reads and a     *)
(* write apart and other sends and events fall in between.                   *)
NoThreadWithoutFriendship ==
    [][ conv = "none" /\ conv' # "none" => \E e \in seen : e.state = "active" ]_chatVars

(* AC-G2, "subsequent sends to it rejected": a send delivered after the      *)
(* conversation closed, and before any reopening, never gets past the gate.  *)
ClosedBarsSends ==
    \A w \in barred : job[w].pc \in {"find", "reject", "settle"}

(* AC-G3: only a friend_request.accepted event reopens a closed              *)
(* conversation, and none is ever deleted: a send racing the removal cannot  *)
(* resurrect it through the get-or-create.                                   *)
OnlyAcceptReopens ==
    [][ conv # "none" /\ conv' # conv =>
          \E w \in Worker : /\ task[w].pc = "touch" /\ task'[w].pc = "settle"
                            /\ conv' = "open" <=> task[w].ev.state = "active" ]_chatVars

AtRest(k) == inbound[k] = 0 /\ \A w \in SendWorker : job[w].key # k

(* AC-M1, AC-M2: the sender of an envelope that no failed statement dropped  *)
(* gets an answer, through any crash and redelivery: the ack with both       *)
(* copies of the message, or a rejection.                                    *)
EverySendAnswered ==
    \A k \in Key :
        enqueued[k] > 0 /\ AtRest(k) /\ k \notin discarded \cup muted =>
            \/ Rejection(k) \in frames
            \/ \E i \in MessageId : Outbound(k, i) \subseteq frames

(* The work queue drains: no envelope waits forever.                         *)
EverySendHandled == \A k \in Key : inbound[k] > 0 ~> AtRest(k)

-----------------------------------------------------------------------------
(* AC-M4 as written, "retry => no duplicate, returns original canonical id": *)
(* a message that is persisted is never rejected afterwards.                 *)
RetryReturnsOriginal ==
    [][ \A k \in Key : rows[k] # 0 /\ Rejection(k) \in frames' => Rejection(k) \in frames ]_chatVars
=============================================================================
