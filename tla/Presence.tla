------------------------------ MODULE Presence ------------------------------
(***************************************************************************)
(* One user's presence and one friend who watches it. Redis holds an entry   *)
(* per connection of the user: a member of a sorted set, scored with its     *)
(* expiry, and a key with its focus. A change writes the entry, reads the    *)
(* user's effective status back in two commands and publishes it, each an    *)
(* await of its own; any gateway may hold any of the connections. The        *)
(* friend's gateway subscribes, and sends the status it then reads itself;   *)
(* a pump for each subscription passes the notices on, and may outlive it.   *)
(*                                                                         *)
(* Expiry is a step of Redis's: the two halves of an entry have timers of    *)
(* their own. A lapsed member is pruned by whoever reads; it is gone here    *)
(* when it lapses. What the gateway enqueues is shown, in that order; what   *)
(* comes while no page watches is overwritten by the next watch's first read.*)
(***************************************************************************)
EXTENDS Naturals, Sequences

CONSTANTS
    Conn,       \* the user's connections
    Sub,        \* bound: subscriptions of the friend's gateway, with their pumps, at once
    NoSub,      \* no subscription
    MaxFocus,   \* bound: changes of focus
    MaxFaults   \* bound: lapses under a live connection, crashes, failed reads

ASSUME NoSubAssumption == NoSub \notin Sub
ASSUME PresenceBounds == MaxFocus \in Nat /\ MaxFaults \in Nat

VARIABLES
    phase,      \* each connection: new, open, gone, or its gateway crashed
    member,     \* presence:user, the members that have not lapsed
    key,        \* presence:conn, each connection's focus
    change,     \* the publishChange under way for each connection
    watch,      \* the friend's watch: its subscription, live or not yet, and its first read
    notices,    \* the channel of each subscription, which its pump empties
    held,       \* the notice each pump has copied the sinks for, or Nothing
    shown,      \* what the friend sees
    astray,     \* history: the last change may not be the last thing shown
    moves, faults

redis == <<member, key>>
friend == <<watch, notices, held, shown>>
vars == <<phase, redis, change, friend, astray, moves, faults>>

Status == {"offline", "idle", "online"}
Nothing == "nothing"
Idle == [pc |-> "none", among |-> {}, status |-> "offline"]
Reading == [Idle EXCEPT !.pc = "range"]
Read == [pc : {"none", "range", "get", "tell"}, among : SUBSET Conn, status : Status]

\* Something of this subscription is still to be enqueued.
Carries(k) == notices[k] # <<>> \/ held[k] # Nothing

TypeOK ==
    /\ phase \in [Conn -> {"new", "open", "gone", "crashed"}]
    /\ member \subseteq Conn /\ key \in [Conn -> {"none", "idle", "online"}]
    /\ \A c \in Conn : phase[c] \in {"new", "gone"} => c \notin member /\ key[c] = "none"
    /\ change \in [Conn -> Read]
    /\ watch \in [sub : Sub \cup {NoSub}, live : BOOLEAN, read : Read]
    /\ watch.sub = NoSub => ~watch.live /\ watch.read = Idle
    /\ notices \in [Sub -> Seq(Status)] /\ held \in [Sub -> Status \cup {Nothing}]
    /\ watch.sub # NoSub /\ ~watch.live => ~Carries(watch.sub)
    /\ shown \in Status /\ astray \in BOOLEAN
    /\ moves \in 0..MaxFocus /\ faults \in 0..MaxFaults

Init ==
    /\ phase = [c \in Conn |-> "new"]
    /\ member = {} /\ key = [c \in Conn |-> "none"]
    /\ change = [c \in Conn |-> Idle]
    /\ watch = [sub |-> NoSub, live |-> FALSE, read |-> Idle] /\ shown = "offline"
    /\ notices = [k \in Sub |-> <<>>] /\ held = [k \in Sub |-> Nothing]
    /\ astray = FALSE /\ moves = 0 /\ faults = 0

-----------------------------------------------------------------------------
(* Effective: the most present of the members; one without a key is idle. *)

Most(S) == IF S = {} THEN "offline"
           ELSE IF \E c \in S : key[c] = "online" THEN "online" ELSE "idle"
Effective == Most(member)

\* A read under way that may tell of a state older than the present one.
Stale(r) == r.pc \in {"get", "tell"}
Overlapped(c) == \E d \in Conn \ {c} : Stale(change[d])

\* The pump of a cancelled subscription has something left to enqueue.
Leftover == \E k \in Sub \ {watch.sub} : Carries(k)

\* A write now is announced after everything that knows nothing of it.
Heard(c) ==
    /\ ~Overlapped(c) /\ ~Leftover
    /\ ~Stale(watch.read)
    /\ watch.sub # NoSub /\ ~watch.live => watch.read.pc = "range"

-----------------------------------------------------------------------------
(* The store, as the handler of a connection calls it, one call at a time. *)

Resting(c) == change[c] = Idle

Announce(c) ==
    /\ change' = [change EXCEPT ![c] = Reading]
    /\ astray' = ~Heard(c)

\* write: one transaction sets both halves of the entry.
Put(c, st) ==
    /\ member' = member \cup {c}
    /\ key' = [key EXCEPT ![c] = st]
    /\ Announce(c)

\* A socket that is not focused yet is idle.
Register(c) ==
    /\ phase[c] = "new"
    /\ phase' = [phase EXCEPT ![c] = "open"]
    /\ Put(c, "idle")
    /\ UNCHANGED <<friend, moves, faults>>

SetState(c, st) ==
    /\ phase[c] = "open" /\ Resting(c)
    /\ moves < MaxFocus /\ moves' = moves + 1
    /\ Put(c, st)
    /\ UNCHANGED <<phase, friend, faults>>

\* Refreshes what is there: a member that lapsed is back, a key is not. Nobody
\* is told.
Heartbeat(c) ==
    /\ phase[c] = "open" /\ Resting(c)
    /\ c \notin member     \* otherwise nothing changes
    /\ member' = member \cup {c}
    /\ astray' = TRUE
    /\ UNCHANGED <<phase, key, change, friend, moves, faults>>

MutErase(c) == member' = member \ {c} /\ UNCHANGED key
Erase(c) == member' = member \ {c} /\ key' = [key EXCEPT ![c] = "none"]

Remove(c) ==
    /\ phase[c] = "open" /\ Resting(c)
    /\ phase' = [phase EXCEPT ![c] = "gone"]
    /\ Erase(c)
    /\ Announce(c)
    /\ UNCHANGED <<friend, moves, faults>>

-----------------------------------------------------------------------------
(* publishChange: Effective in two reads, then the notice. *)

\* Without members the user is offline and no key is read.
Range(r) == IF member = {} THEN [r EXCEPT !.pc = "tell"]
            ELSE [r EXCEPT !.pc = "get", !.among = member]
Get(r) == [pc |-> "tell", among |-> {}, status |-> Most(r.among)]

Step(r) == IF r.pc = "range" THEN Range(r) ELSE Get(r)

Look(c) ==
    /\ change[c].pc \in {"range", "get"}
    /\ change' = [change EXCEPT ![c] = Step(@)]
    /\ UNCHANGED <<phase, redis, friend, astray, moves, faults>>

MutNews(c) == IF key[c] = "none" THEN "offline" ELSE key[c]
News(c) == change[c].status

Publish(c) ==
    /\ change[c].pc = "tell"
    /\ notices' = IF watch.live THEN [notices EXCEPT ![watch.sub] = Append(@, News(c))] ELSE notices
    /\ change' = [change EXCEPT ![c] = Idle]
    /\ UNCHANGED <<phase, redis, watch, held, shown, astray, moves, faults>>

-----------------------------------------------------------------------------
(* The feed, and the friend's page that asks for it. *)

\* The page shows what the last notice says.
Shows(st) == shown' = st

\* presence.subscribe names the user: the handler subscribes, then reads.
Watch ==
    /\ watch.sub = NoSub
    /\ \E k \in Sub : ~Carries(k) /\ watch' = [sub |-> k, live |-> FALSE, read |-> Reading]
    /\ UNCHANGED <<phase, redis, change, notices, held, shown, astray, moves, faults>>

Subscribed ==
    /\ watch.sub # NoSub /\ ~watch.live
    /\ watch' = [watch EXCEPT !.live = TRUE]
    /\ UNCHANGED <<phase, redis, change, notices, held, shown, astray, moves, faults>>

\* What is read first stands, unless something older is still to come.
Older == (\E k \in Sub : Carries(k)) \/ \E c \in Conn : Stale(change[c])

LookFirst ==
    /\ watch.read.pc \in {"range", "get"}
    /\ watch' = [watch EXCEPT !.read = Step(@)]
    /\ astray' = IF watch.read.pc = "range" THEN Older ELSE astray
    /\ UNCHANGED <<phase, redis, change, notices, held, shown, moves, faults>>

SendCurrent ==
    /\ watch.read.pc = "tell"
    /\ Shows(watch.read.status)
    /\ watch' = [watch EXCEPT !.read = Idle]
    /\ UNCHANGED <<phase, redis, change, notices, held, astray, moves, faults>>

\* fanout copies the sinks under the lock, of whatever group there is by now: a
\* cancelled pump may still prefer the message it finds.
Sinks(st) == IF watch.sub = NoSub THEN Nothing ELSE st

Take(k) ==
    /\ held[k] = Nothing /\ notices[k] # <<>>
    /\ held' = [held EXCEPT ![k] = Sinks(Head(notices[k]))]
    /\ notices' = [notices EXCEPT ![k] = Tail(@)]
    /\ UNCHANGED <<phase, redis, change, watch, shown, astray, moves, faults>>

\* And enqueues outside it.
Fanout(k) ==
    /\ held[k] # Nothing
    /\ Shows(held[k])
    /\ held' = [held EXCEPT ![k] = Nothing]
    /\ UNCHANGED <<phase, redis, change, watch, notices, astray, moves, faults>>

\* Or sees that it is cancelled, and leaves what is in its channel.
End(k) ==
    /\ k # watch.sub /\ held[k] = Nothing /\ notices[k] # <<>>
    /\ notices' = [notices EXCEPT ![k] = <<>>]
    /\ UNCHANGED <<phase, redis, change, watch, held, shown, astray, moves, faults>>

\* The last watcher cancels the subscription, not what its pump is about to do.
Cancelled == watch' = [watch EXCEPT !.sub = NoSub, !.live = FALSE]

\* The page closes or shows another friend; or its socket ends, and a pump that
\* has copied that sink enqueues for nobody.
Unwatch ==
    /\ watch.sub # NoSub /\ watch.read = Idle
    /\ Cancelled
    /\ UNCHANGED held \/ held' = [k \in Sub |-> Nothing]
    /\ UNCHANGED <<phase, redis, change, notices, shown, astray, moves, faults>>

-----------------------------------------------------------------------------
(* Faults. *)

Fault == faults < MaxFaults /\ faults' = faults + 1

\* The time to live passes: nobody publishes.
Lapse(c) ==
    /\ \/ c \in member /\ member' = member \ {c} /\ UNCHANGED key
       \/ key[c] # "none" /\ key' = [key EXCEPT ![c] = "none"] /\ UNCHANGED member
    /\ IF phase[c] = "crashed" THEN UNCHANGED faults ELSE Fault
    /\ astray' = TRUE
    /\ UNCHANGED <<phase, change, friend, moves>>

Crash(c) ==
    /\ phase[c] = "open"
    /\ Fault
    /\ phase' = [phase EXCEPT ![c] = "crashed"]
    /\ change' = [change EXCEPT ![c] = Idle]
    /\ astray' = (astray \/ ~Resting(c))
    /\ UNCHANGED <<redis, friend, moves>>

\* A read or publish that fails is not repeated.
LoseChange(c) ==
    /\ ~Resting(c)
    /\ Fault
    /\ change' = [change EXCEPT ![c] = Idle]
    /\ astray' = TRUE
    /\ UNCHANGED <<phase, redis, friend, moves>>

LoseFirst ==
    /\ watch.read # Idle
    /\ Fault
    /\ watch' = [watch EXCEPT !.read = Idle]
    /\ astray' = TRUE
    /\ UNCHANGED <<phase, redis, change, notices, held, shown, moves>>

-----------------------------------------------------------------------------
Next ==
    \/ \E c \in Conn :
          \/ Register(c) \/ Heartbeat(c) \/ Remove(c) \/ Look(c) \/ Publish(c)
          \/ \E st \in {"idle", "online"} : SetState(c, st)
          \/ Lapse(c) \/ Crash(c) \/ LoseChange(c)
    \/ Watch \/ Subscribed \/ LookFirst \/ SendCurrent \/ Unwatch \/ LoseFirst
    \/ \E k \in Sub : Take(k) \/ Fanout(k) \/ End(k)

Spec == Init /\ [][Next]_vars

-----------------------------------------------------------------------------
(* REQUIREMENTS 5.2 and 5.4: when nothing is under way, the friend sees the   *)
(* user's effective status, provided that the last change was written when no *)
(* older read was under way, no cancelled pump had a notice left, and the     *)
(* subscription was live (or still to be followed by its first read), and     *)
(* that nothing lapsed in silence since: reads, notice and fan-out are steps  *)
(* of their own (publishChange, Watch, pump).                                 *)
Quiet ==
    /\ watch.live /\ watch.read = Idle
    /\ \A k \in Sub : ~Carries(k)
    /\ \A c \in Conn : Resting(c)

WatcherConverges == Quiet /\ ~astray => shown = Effective
=============================================================================
