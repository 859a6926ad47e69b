------------------------- MODULE RelaySocket_proofs -------------------------
(***************************************************************************)
(* Proofs about RelaySocket, for any set of sockets, and any number of      *)
(* faults, online events and changes of focus.                              *)
(***************************************************************************)
EXTENDS RelaySocket, FiniteSetTheorems, TLAPS

\* The type invariant in parts.
Timers == [heartbeat : BOOLEAN, pong : BOOLEAN, auth : SUBSET Socket,
           authTimer : Socket \cup {NoSocket}, retries : Nat, retry : BOOLEAN]
LinkOK ==
    /\ state \in {"offline", "connecting", "live"} /\ ws \in Socket \cup {NoSocket}
    /\ stopped \in BOOLEAN /\ signedOut \in BOOLEAN /\ focused \in BOOLEAN /\ crossed \in BOOLEAN
TimerOK == waits \in Nat /\ timer \in Timers /\ (timer.retry => timer.retries > 0)
WireOK ==
    /\ sock \in [Socket -> {"none", "opening", "open", "closing", "closed"}]
    /\ dead \subseteq Socket
    /\ up \in [Socket -> Seq({"auth", "ping", "focus", "blur"})]
    /\ down \in [Socket -> Seq({"auth_ok", "pong"})]
    /\ gateway \in [Socket -> {"none", "idle", "online"}]
BoundOK == faults \in 0..MaxFaults /\ onlines \in 0..MaxOnline /\ changes \in 0..MaxFocus

\* There is one connect, one pending retry, or one socket, which is the current one.
NoneAlive == \A s \in Socket : ~Alive(s)
Alone ==
    /\ waits \in {0, 1} /\ timer.retries \in {0, 1} /\ (timer.retries = 1 => timer.retry)
    /\ waits = 1 => timer.retries = 0 /\ NoneAlive
    /\ timer.retries = 1 => NoneAlive
    /\ \A s, r \in Socket : Alive(s) /\ Alive(r) => s = r
    /\ \A s \in timer.auth : Alive(s) /\ s = timer.authTimer
    /\ ~stopped => \A s \in Socket : Alive(s) => ws = s
Ended ==
    /\ timer.retries = 0 /\ timer.auth = {} /\ ~timer.heartbeat /\ ~timer.pong
    /\ \A s \in Socket : sock[s] \notin {"opening", "open"}
Single == ~crossed => Alone /\ (stopped => Ended)

IInv == LinkOK /\ TimerOK /\ WireOK /\ BoundOK /\ Single

-----------------------------------------------------------------------------
LEMMA Parts == TypeOK <=> LinkOK /\ TimerOK /\ WireOK /\ BoundOK
<1>1. {stopped, signedOut, focused, crossed} \subseteq BOOLEAN
        <=> stopped \in BOOLEAN /\ signedOut \in BOOLEAN /\ focused \in BOOLEAN /\ crossed \in BOOLEAN
  BY Zenon
<1> QED BY <1>1, Zenon DEF TypeOK, LinkOK, TimerOK, WireOK, BoundOK, Timers

LEMMA Numbers == NoSocket \notin Socket
  BY SocketAssumption DEF NoSocket

-----------------------------------------------------------------------------
(* The operations on the timers. *)

LEMMA RecalledFields ==
    ASSUME NEW t \in Timers, t.retry => t.retries > 0
    PROVE  /\ Recalled(t) \in Timers /\ Recalled(t).retry = FALSE
           /\ Recalled(t).retries = IF t.retry THEN t.retries - 1 ELSE t.retries
           /\ Recalled(t).heartbeat = t.heartbeat /\ Recalled(t).pong = t.pong
           /\ Recalled(t).auth = t.auth /\ Recalled(t).authTimer = t.authTimer
<1>1. t.retries \in Nat
  BY DEF Timers
<1>2. CASE t.retry
  <2>1. t.retries - 1 \in Nat /\ FALSE \in BOOLEAN
    BY <1>1, <1>2
  <2>2. Recalled(t) = [t EXCEPT !.retries = t.retries - 1, !.retry = FALSE]
    BY <1>2 DEF Recalled
  <2> QED BY <1>2, <2>1, <2>2 DEF Timers
<1>3. CASE ~t.retry
  <2>1. Recalled(t) = [t EXCEPT !.retries = t.retries, !.retry = FALSE]
    BY <1>3 DEF Recalled
  <2> QED BY <1>1, <1>3, <2>1 DEF Timers
<1> QED BY <1>2, <1>3

LEMMA ClearedFields ==
    ASSUME NEW t \in Timers, t.retry => t.retries > 0
    PROVE  /\ Cleared(t) \in Timers /\ Cleared(t).retry = FALSE
           /\ Cleared(t).retries = IF t.retry THEN t.retries - 1 ELSE t.retries
           /\ Cleared(t).heartbeat = FALSE /\ Cleared(t).pong = FALSE
           /\ Cleared(t).auth = t.auth \ {t.authTimer}
<1> DEFINE u == [t EXCEPT !.heartbeat = FALSE, !.pong = FALSE, !.auth = @ \ {t.authTimer}]
<1>1. /\ u \in Timers /\ u.retry = t.retry /\ u.retries = t.retries
      /\ u.heartbeat = FALSE /\ u.pong = FALSE /\ u.auth = t.auth \ {t.authTimer}
  BY DEF Timers
<1>2. Cleared(t) = Recalled(u)
  BY DEF Cleared
<1> QED BY <1>1, <1>2, RecalledFields

LEMMA ScheduledFields ==
    ASSUME NEW t \in Timers
    PROVE  /\ Scheduled(t) \in Timers /\ Scheduled(t).retry = TRUE /\ Scheduled(t).retries = t.retries + 1
           /\ Scheduled(t).heartbeat = t.heartbeat /\ Scheduled(t).pong = t.pong /\ Scheduled(t).auth = t.auth
<1>1. t.retries + 1 \in Nat /\ TRUE \in BOOLEAN
  BY DEF Timers
<1>2. Scheduled(t) = [t EXCEPT !.retries = t.retries + 1, !.retry = TRUE]
  BY DEF Scheduled
<1> QED BY <1>1, <1>2 DEF Timers

\* A socket that starts to close is alive before and after.
LEMMA ClosingKeeps ==
    ASSUME WireOK, NEW s, s \in Socket \cup {NoSocket}, Closing(s)
    PROVE  /\ sock' \in [Socket -> {"none", "opening", "open", "closing", "closed"}]
           /\ \A r \in Socket : Alive(r)' <=> Alive(r)
           /\ \A r \in Socket : r # s => sock'[r] = sock[r]
           /\ \A r \in Socket : sock[r] \notin {"opening", "open"} => sock'[r] = sock[r]
           /\ s \in Socket => sock'[s] \notin {"opening", "open"}
<1>1. CASE s # NoSocket /\ sock[s] \in {"opening", "open"}
  BY <1>1 DEF Closing, WireOK, Alive
<1>2. CASE ~(s # NoSocket /\ sock[s] \in {"opening", "open"})
  BY <1>2, Numbers DEF Closing, Alive, WireOK
<1> QED BY <1>1, <1>2

LEMMA LateType == ASSUME BoundOK, NEW s, Late(s) PROVE BoundOK'
  BY BoundsAssumption DEF Late, Fault, bounds, BoundOK

LEMMA SentType ==
    ASSUME WireOK, NEW s \in Socket, NEW q \in Seq({"auth", "ping", "focus", "blur"})
    PROVE  Sent(s, q) \in [Socket -> Seq({"auth", "ping", "focus", "blur"})]
<1>1. up[s] \o q \in Seq({"auth", "ping", "focus", "blur"})
  BY DEF WireOK
<1> QED BY <1>1 DEF Sent, WireOK

LEMMA GreetingType == \A s : Greeting(s) \in Seq({"auth", "ping", "focus", "blur"})
<1>1. /\ <<"focus">> \in Seq({"auth", "ping", "focus", "blur"})
      /\ <<>> \in Seq({"auth", "ping", "focus", "blur"})
      /\ <<"ping">> \in Seq({"auth", "ping", "focus", "blur"})
  OBVIOUS
<1>2. /\ <<"focus">> \o <<"ping">> \in Seq({"auth", "ping", "focus", "blur"})
      /\ <<>> \o <<"ping">> \in Seq({"auth", "ping", "focus", "blur"})
  BY <1>1
<1> QED BY <1>2 DEF Greeting

-----------------------------------------------------------------------------
LEMMA InitIInv == Init => IInv
<1> SUFFICES ASSUME Init PROVE IInv
  OBVIOUS
<1>1. LinkOK
  BY Zenon DEF Init, LinkOK
<1>2. timer \in Timers /\ timer.retry = FALSE /\ timer.retries = 0 /\ timer.auth = {}
  BY DEF Init, NoTimers, Timers
<1>3. WireOK
  BY DEF Init, WireOK
<1>4. BoundOK
  BY BoundsAssumption DEF Init, BoundOK
<1>5. NoneAlive
  BY DEF Init, NoneAlive, Alive
<1>6. waits = 1 /\ ~stopped
  BY DEF Init
<1> QED BY <1>1, <1>2, <1>3, <1>4, <1>5, <1>6 DEF IInv, TimerOK, Single, Alone, NoneAlive

LEMMA RetryIInv == ASSUME IInv, Retry PROVE IInv'
<1>1. PICK latest \in {b \in BOOLEAN : IF b THEN timer.retry ELSE timer.retries > 1 \/ ~timer.retry} :
          timer' = [timer EXCEPT !.retries = @ - 1, !.retry = @ /\ ~latest]
  BY DEF Retry
<1>2. /\ timer' \in Timers /\ timer'.retries = timer.retries - 1 /\ timer'.auth = timer.auth
      /\ timer'.retry = (timer.retry /\ ~latest) /\ timer'.authTimer = timer.authTimer
      /\ timer'.heartbeat = timer.heartbeat /\ timer'.pong = timer.pong
  <2>1. timer \in Timers /\ timer.retries > 0 /\ timer.retries \in Nat
    BY DEF Retry, IInv, TimerOK, Timers
  <2>2. timer.retries - 1 \in Nat /\ (timer.retry /\ ~latest) \in BOOLEAN
    BY <2>1
  <2>3. timer' = [timer EXCEPT !.retries = timer.retries - 1, !.retry = (timer.retry /\ ~latest)]
    BY <1>1
  <2> QED BY <2>1, <2>2, <2>3 DEF Timers
<1>3. TimerOK'
  <2>1. waits' \in Nat
    BY DEF Retry, IInv, TimerOK
  <2>2. timer'.retry => timer'.retries > 0
    <3>1. CASE timer.retry /\ ~latest
      <4>1. timer.retries > 1 /\ timer.retries \in Nat
        BY <1>1, <3>1 DEF IInv, TimerOK, Timers
      <4> QED BY <1>2, <4>1
    <3>2. CASE ~(timer.retry /\ ~latest)
      BY <1>2, <3>2
    <3> QED BY <3>1, <3>2
  <2> QED BY <1>2, <2>1, <2>2 DEF TimerOK
<1>4. LinkOK' /\ WireOK' /\ BoundOK'
  BY DEF Retry, wire, bounds, IInv, LinkOK, WireOK, BoundOK
<1>5. ASSUME ~crossed PROVE Alone' /\ (stopped' => Ended')
  <2>1. Alone /\ ~stopped
    BY <1>5 DEF IInv, Single, Ended, Retry
  <2>2. timer.retries = 1 /\ waits = 0 /\ NoneAlive
    BY <2>1 DEF Alone, Retry
  <2>3. NoneAlive' /\ timer'.retries = 0 /\ waits' = 1
    BY <1>2, <2>1, <2>2 DEF Retry, wire, NoneAlive, Alive
  <2>4. timer'.auth = {}
    BY <1>2, <2>1, <2>2 DEF Alone, NoneAlive, IInv, TimerOK, Timers
  <2> QED BY <2>1, <2>3, <2>4 DEF Alone, NoneAlive, Retry
<1> QED BY <1>3, <1>4, <1>5 DEF IInv, Single, Retry

LEMMA OpenIInv == ASSUME IInv, Open PROVE IInv'
<1>1. TimerOK'
  BY DEF Open, IInv, TimerOK
<1>2. CASE stopped
  BY <1>1, <1>2 DEF Open, IInv, LinkOK, WireOK, BoundOK, bounds, Single, Alone, Ended, NoneAlive, Alive
<1>3. CASE ~stopped
  <2>1. PICK s \in Socket : sock[s] = "none" /\ ws' = s /\ sock' = [sock EXCEPT ![s] = "opening"]
    BY <1>3 DEF Open
  <2>2. /\ sock' \in [Socket -> {"none", "opening", "open", "closing", "closed"}]
        /\ sock'[s] = "opening" /\ \A r \in Socket : r # s => sock'[r] = sock[r]
    BY <2>1 DEF IInv, WireOK
  <2>3. LinkOK' /\ WireOK' /\ BoundOK'
    BY <2>1, <2>2 DEF Open, bounds, IInv, LinkOK, WireOK, BoundOK
  <2>4. ASSUME ~crossed PROVE Alone'
    <3>1. waits = 1 /\ timer.retries = 0 /\ NoneAlive /\ Alone /\ timer.auth = {}
      BY <2>4 DEF IInv, Single, Alone, NoneAlive, Open, TimerOK, Timers
    <3>2. \A r \in Socket : Alive(r)' <=> r = s
      BY <2>2, <3>1 DEF NoneAlive, Alive
    <3>3. waits' = 0 /\ timer' = timer
      BY <3>1 DEF Open
    <3> QED BY <2>1, <3>1, <3>2, <3>3 DEF Alone
  <2> QED BY <1>1, <1>3, <2>3, <2>4 DEF IInv, Single, Open
<1> QED BY <1>2, <1>3

LEMMA OpenFailsIInv == ASSUME IInv, OpenFails PROVE IInv'
<1>1. /\ timer' \in Timers /\ timer'.retries = timer.retries + 1 /\ timer'.retry = TRUE
      /\ timer'.auth = timer.auth /\ timer.retries \in Nat /\ waits \in Nat
  BY ScheduledFields DEF OpenFails, IInv, TimerOK, Timers
<1>2. TimerOK' /\ BoundOK'
  BY <1>1, BoundsAssumption DEF OpenFails, Fault, IInv, TimerOK, BoundOK
<1>3. LinkOK' /\ WireOK'
  BY DEF OpenFails, wire, IInv, LinkOK, WireOK
<1>4. ASSUME ~crossed PROVE Alone'
  <2>1. Alone /\ waits > 0
    BY <1>4 DEF IInv, Single, OpenFails
  <2>2. waits = 1 /\ timer.retries = 0 /\ NoneAlive
    BY <1>1, <2>1 DEF Alone
  <2>3. NoneAlive'
    BY <2>2 DEF OpenFails, wire, NoneAlive, Alive
  <2>4. waits' = 0 /\ timer'.retries = 1
    BY <1>1, <2>2 DEF OpenFails
  <2>5. timer.auth = {}
    BY <2>1, <2>2 DEF Alone, NoneAlive, IInv, TimerOK, Timers
  <2> QED BY <1>1, <2>3, <2>4, <2>5 DEF Alone, NoneAlive
<1> QED BY <1>2, <1>3, <1>4 DEF IInv, Single, OpenFails

LEMMA NoTokenIInv == ASSUME IInv, NoToken PROVE IInv'
<1>1. TimerOK' /\ BoundOK'
  BY BoundsAssumption DEF NoToken, Fault, IInv, TimerOK, BoundOK
<1>2. LinkOK' /\ WireOK'
  BY DEF NoToken, wire, IInv, LinkOK, WireOK
<1>3. ASSUME ~crossed PROVE Alone' /\ (stopped' => Ended')
  <2>1. Alone /\ (stopped => Ended)
    BY <1>3 DEF IInv, Single
  <2> QED BY <2>1 DEF NoToken, wire, Alone, NoneAlive, Alive, Ended
<1> QED BY <1>1, <1>2, <1>3 DEF IInv, Single, NoToken

-----------------------------------------------------------------------------
LEMMA OpenedIInv == ASSUME IInv, NEW s \in Socket, Opened(s) PROVE IInv'
<1>1. /\ sock' \in [Socket -> {"none", "opening", "open", "closing", "closed"}]
      /\ sock'[s] = "open" /\ sock[s] = "opening" /\ \A r \in Socket : r # s => sock'[r] = sock[r]
  BY DEF Opened, IInv, WireOK
<1>2. /\ timer' \in Timers /\ timer'.retries = timer.retries /\ timer'.retry = timer.retry
      /\ timer'.auth = timer.auth \cup {s} /\ timer'.authTimer = s
  BY DEF Opened, IInv, TimerOK, Timers
<1>3. LinkOK' /\ TimerOK' /\ BoundOK'
  BY <1>2 DEF Opened, bounds, IInv, LinkOK, TimerOK, BoundOK
<1>4. WireOK'
  <2>1. <<"auth">> \in Seq({"auth", "ping", "focus", "blur"})
    OBVIOUS
  <2>2. up' \in [Socket -> Seq({"auth", "ping", "focus", "blur"})]
    BY <2>1, SentType DEF Opened, IInv
  <2> QED BY <1>1, <2>2 DEF Opened, IInv, WireOK
<1>5. \A r \in Socket : Alive(r)' <=> Alive(r)
  BY <1>1 DEF Alive
<1>6. ASSUME ~crossed PROVE Alone' /\ ~stopped'
  <2>1. Alone /\ ~stopped /\ Alive(s)
    BY <1>1, <1>6 DEF IInv, Single, Ended, Alive
  <2>2. \A r \in timer.auth : r = s
    BY <2>1 DEF Alone, IInv, TimerOK, Timers
  <2> QED BY <1>2, <1>5, <2>1, <2>2 DEF Alone, NoneAlive, Opened
<1> QED BY <1>3, <1>4, <1>6 DEF IInv, Single, Opened

LEMMA AuthenticatedIInv == ASSUME IInv, NEW s \in Socket, Authenticated(s) PROVE IInv'
<1> DEFINE up1 == ws # NoSocket /\ sock[ws] = "open"
<1>1. /\ timer' = [timer EXCEPT !.auth = @ \ {timer.authTimer}, !.heartbeat = TRUE, !.pong = up1]
      /\ up' = IF up1 THEN Sent(ws, Greeting(ws)) ELSE up
  BY DEF Authenticated
<1>2. up1 \in BOOLEAN
  OBVIOUS
<1>3. /\ timer' \in Timers /\ timer'.retries = timer.retries /\ timer'.retry = timer.retry
      /\ timer'.auth = timer.auth \ {timer.authTimer} /\ timer'.authTimer = timer.authTimer
  BY <1>1, <1>2 DEF IInv, TimerOK, Timers
<1>4. LinkOK' /\ TimerOK' /\ BoundOK'
  BY <1>3 DEF Authenticated, bounds, IInv, LinkOK, TimerOK, BoundOK
<1>5. WireOK'
  <2>1. up' \in [Socket -> Seq({"auth", "ping", "focus", "blur"})]
    <3>1. CASE up1
      BY <1>1, <3>1, SentType, GreetingType DEF IInv, LinkOK
    <3>2. CASE ~up1
      BY <1>1, <3>2 DEF IInv, WireOK
    <3> QED BY <3>1, <3>2
  <2>2. down' \in [Socket -> Seq({"auth_ok", "pong"})]
    BY DEF Authenticated, IInv, WireOK
  <2> QED BY <2>1, <2>2 DEF Authenticated, IInv, WireOK
<1>6. ASSUME ~crossed PROVE Alone' /\ ~stopped'
  <2>1. Alone /\ ~stopped
    BY <1>6 DEF IInv, Single, Ended, Authenticated
  <2> QED BY <1>3, <2>1 DEF Alone, NoneAlive, Alive, Authenticated
<1> QED BY <1>4, <1>5, <1>6 DEF IInv, Single, Authenticated

LEMMA PongIInv == ASSUME IInv, NEW s \in Socket, Pong(s) PROVE IInv'
<1>1. /\ timer' \in Timers /\ timer'.retries = timer.retries /\ timer'.retry = timer.retry
      /\ timer'.auth = timer.auth /\ timer'.authTimer = timer.authTimer
  BY DEF Pong, IInv, TimerOK, Timers
<1>2. LinkOK' /\ TimerOK' /\ BoundOK'
  BY <1>1 DEF Pong, bounds, IInv, LinkOK, TimerOK, BoundOK
<1>3. WireOK'
  <2>1. down' \in [Socket -> Seq({"auth_ok", "pong"})]
    BY DEF Pong, IInv, WireOK
  <2> QED BY <2>1 DEF Pong, IInv, WireOK
<1>4. ASSUME ~crossed PROVE Alone' /\ ~stopped'
  <2>1. Alone /\ ~stopped
    BY <1>4 DEF IInv, Single, Ended, Pong
  <2> QED BY <1>1, <2>1 DEF Alone, NoneAlive, Alive, Pong
<1> QED BY <1>2, <1>3, <1>4 DEF IInv, Single, Pong

LEMMA PingIInv == ASSUME IInv, Ping PROVE IInv'
<1>1. /\ timer' \in Timers /\ timer'.retries = timer.retries /\ timer'.retry = timer.retry
      /\ timer'.auth = timer.auth /\ timer'.authTimer = timer.authTimer
  BY DEF Ping, IInv, TimerOK, Timers
<1>2. LinkOK' /\ TimerOK' /\ BoundOK'
  BY <1>1 DEF Ping, bounds, IInv, LinkOK, TimerOK, BoundOK
<1>3. WireOK'
  <2>1. <<"ping">> \in Seq({"auth", "ping", "focus", "blur"}) /\ ws \in Socket
    BY DEF Ping, IInv, LinkOK
  <2>2. up' \in [Socket -> Seq({"auth", "ping", "focus", "blur"})]
    BY <2>1, SentType DEF Ping, IInv
  <2> QED BY <2>2 DEF Ping, IInv, WireOK
<1>4. ASSUME ~crossed PROVE Alone' /\ ~stopped'
  <2>1. Alone /\ ~stopped
    BY <1>4 DEF IInv, Single, Ended, Ping
  <2> QED BY <1>1, <2>1 DEF Alone, NoneAlive, Alive, Ping
<1> QED BY <1>2, <1>3, <1>4 DEF IInv, Single, Ping

-----------------------------------------------------------------------------
\* A socket that starts to close, and a timer that fires with it.
LEMMA ClosingIInv ==
    ASSUME IInv, NEW s \in Socket \cup {NoSocket}, Closing(s), BoundOK',
           UNCHANGED <<state, stopped, signedOut, ws, focused, waits, crossed, dead, up, down, gateway>>,
           timer' \in Timers, timer'.retries = timer.retries, timer'.retry = timer.retry,
           timer'.auth \subseteq timer.auth, timer'.authTimer = timer.authTimer,
           timer'.heartbeat => timer.heartbeat, timer'.pong => timer.pong
    PROVE  IInv'
<1>1. /\ sock' \in [Socket -> {"none", "opening", "open", "closing", "closed"}]
      /\ \A r \in Socket : Alive(r)' <=> Alive(r)
      /\ \A r \in Socket : sock[r] \notin {"opening", "open"} => sock'[r] = sock[r]
  BY ClosingKeeps DEF IInv
<1>2. LinkOK' /\ TimerOK' /\ WireOK'
  BY <1>1 DEF IInv, LinkOK, TimerOK, WireOK
<1>3. ASSUME ~crossed PROVE Alone' /\ (stopped' => Ended')
  <2>1. Alone /\ (stopped => Ended)
    BY <1>3 DEF IInv, Single
  <2>2. \A r \in timer'.auth : r \in Socket
    BY DEF Timers
  <2>3. Alone'
    BY <1>1, <2>1, <2>2 DEF Alone, NoneAlive
  <2>4. stopped' => Ended'
    BY <1>1, <2>1 DEF Ended
  <2> QED BY <2>3, <2>4
<1> QED BY <1>2, <1>3 DEF IInv, Single

LEMMA AuthTimeoutIInv == ASSUME IInv, NEW s \in Socket, AuthTimeout(s) PROVE IInv'
<1>1. /\ timer' \in Timers /\ timer'.retries = timer.retries /\ timer'.retry = timer.retry
      /\ timer'.auth \subseteq timer.auth /\ timer'.authTimer = timer.authTimer
      /\ timer'.heartbeat = timer.heartbeat /\ timer'.pong = timer.pong
  BY DEF AuthTimeout, IInv, TimerOK, Timers
<1>2. BoundOK'
  BY LateType DEF AuthTimeout, IInv
<1> QED BY <1>1, <1>2, ClosingIInv DEF AuthTimeout

LEMMA PongTimeoutIInv == ASSUME IInv, PongTimeout PROVE IInv'
<1>1. /\ timer' \in Timers /\ timer'.retries = timer.retries /\ timer'.retry = timer.retry
      /\ timer'.auth \subseteq timer.auth /\ timer'.authTimer = timer.authTimer
      /\ timer'.heartbeat = timer.heartbeat /\ timer'.pong = FALSE
  BY DEF PongTimeout, IInv, TimerOK, Timers
<1>2. BoundOK' /\ ws \in Socket \cup {NoSocket}
  BY LateType DEF PongTimeout, IInv, LinkOK
<1> QED BY <1>1, <1>2, ClosingIInv DEF PongTimeout

LEMMA DropIInv == ASSUME IInv, NEW s \in Socket, Drop(s) PROVE IInv'
<1>1. BoundOK'
  BY BoundsAssumption DEF Drop, Fault, IInv, BoundOK
<1>2. timer \in Timers
  BY DEF IInv, TimerOK
<1> QED BY <1>1, <1>2, ClosingIInv DEF Drop, link

LEMMA DieIInv == ASSUME IInv, NEW s \in Socket, Die(s) PROVE IInv'
<1>1. WireOK'
  BY DEF Die, IInv, WireOK
<1>2. LinkOK' /\ TimerOK' /\ BoundOK'
  BY BoundsAssumption DEF Die, Fault, link, IInv, LinkOK, TimerOK, BoundOK
<1>3. Single'
  BY DEF Die, link, IInv, Single, Alone, Ended, NoneAlive, Alive
<1> QED BY <1>1, <1>2, <1>3 DEF IInv

LEMMA ClosedIInv == ASSUME IInv, NEW s \in Socket, Closed(s) PROVE IInv'
<1> DEFINE t == Cleared(timer)
<1>1. /\ t \in Timers /\ t.retry = FALSE /\ t.heartbeat = FALSE /\ t.pong = FALSE
      /\ t.retries = IF timer.retry THEN timer.retries - 1 ELSE timer.retries
      /\ t.auth = timer.auth \ {timer.authTimer}
  BY ClearedFields DEF IInv, TimerOK
<1>2. timer' = IF stopped THEN t ELSE Scheduled(t)
  BY DEF Closed
<1>3. /\ timer' \in Timers /\ timer'.heartbeat = FALSE /\ timer'.pong = FALSE
      /\ timer'.auth = timer.auth \ {timer.authTimer}
      /\ IF stopped THEN timer'.retry = FALSE /\ timer'.retries = t.retries
         ELSE timer'.retry = TRUE /\ timer'.retries = t.retries + 1
  BY <1>1, <1>2, ScheduledFields
<1>4. t.retries \in Nat
  BY <1>1 DEF Timers
<1>5. TimerOK'
  <2>1. waits' \in Nat
    BY DEF Closed, IInv, TimerOK
  <2>2. timer'.retry => timer'.retries > 0
    BY <1>3, <1>4
  <2> QED BY <1>3, <2>1, <2>2 DEF TimerOK
<1>6. /\ sock' \in [Socket -> {"none", "opening", "open", "closing", "closed"}]
      /\ sock'[s] = "closed" /\ sock[s] = "closing" /\ \A r \in Socket : r # s => sock'[r] = sock[r]
  BY DEF Closed, IInv, WireOK
<1>7. LinkOK' /\ WireOK' /\ BoundOK'
  BY <1>6 DEF Closed, bounds, IInv, LinkOK, WireOK, BoundOK
<1>8. ASSUME ~crossed PROVE Alone' /\ (stopped' => Ended')
  <2>1. Alone /\ (stopped => Ended) /\ Alive(s)
    BY <1>6, <1>8 DEF IInv, Single, Alive
  <2>2. waits = 0 /\ timer.retries = 0 /\ ~timer.retry
    BY <2>1 DEF Alone, NoneAlive, IInv, TimerOK
  <2>3. NoneAlive'
    BY <1>6, <2>1 DEF Alone, NoneAlive, Alive
  <2>4. timer'.auth = {}
    BY <1>3, <2>1 DEF Alone
  <2>5. IF stopped THEN timer'.retries = 0 ELSE timer'.retries = 1 /\ timer'.retry
    BY <1>1, <1>3, <2>2
  <2>6. waits' = 0 /\ stopped' = stopped
    BY <2>2 DEF Closed
  <2>7. Alone'
    BY <2>3, <2>4, <2>5, <2>6 DEF Alone, NoneAlive
  <2>8. stopped' => Ended'
    BY <1>3, <1>6, <2>1, <2>4, <2>5, <2>6 DEF Ended
  <2> QED BY <2>7, <2>8
<1> QED BY <1>5, <1>7, <1>8 DEF IInv, Single, Closed

LEMMA StopIInv == ASSUME IInv, Stop PROVE IInv'
<1>1. /\ timer' \in Timers /\ timer'.retry = FALSE /\ timer'.heartbeat = FALSE /\ timer'.pong = FALSE
      /\ timer'.retries = IF timer.retry THEN timer.retries - 1 ELSE timer.retries
      /\ timer'.auth = timer.auth \ {timer.authTimer}
  BY ClearedFields DEF Stop, IInv, TimerOK
<1>2. /\ sock' \in [Socket -> {"none", "opening", "open", "closing", "closed"}]
      /\ \A r \in Socket : Alive(r)' <=> Alive(r)
      /\ \A r \in Socket : r # ws => sock'[r] = sock[r]
      /\ ws \in Socket => sock'[ws] \notin {"opening", "open"}
  BY ClosingKeeps DEF Stop, IInv, LinkOK
<1>3. LinkOK' /\ TimerOK' /\ WireOK' /\ BoundOK'
  BY <1>1, <1>2 DEF Stop, bounds, IInv, LinkOK, TimerOK, WireOK, BoundOK
<1>4. ASSUME ~crossed PROVE Alone' /\ Ended'
  <2>1. Alone /\ ~stopped
    BY <1>4 DEF IInv, Single, Stop
  <2>2. timer'.retries = 0 /\ timer'.auth = {}
    <3>1. timer.retries = 1 => timer.retry
      BY <2>1 DEF Alone
    <3>2. timer.retries \in {0, 1} /\ \A s \in timer.auth : s = timer.authTimer
      BY <2>1 DEF Alone
    <3>3. timer.retry => timer.retries > 0
      BY DEF IInv, TimerOK
    <3> QED BY <1>1, <3>1, <3>2, <3>3
  <2>3. \A s \in Socket : sock'[s] \notin {"opening", "open"}
    BY <1>2, <2>1 DEF Alone, Alive
  <2>4. Alone'
    BY <1>2, <2>1, <2>2 DEF Alone, NoneAlive, Stop
  <2> QED BY <1>1, <2>2, <2>3, <2>4 DEF Ended
<1> QED BY <1>3, <1>4 DEF IInv, Single, Stop

-----------------------------------------------------------------------------
LEMMA OnlineIInv == ASSUME IInv, Online PROVE IInv'
<1>1. BoundOK' /\ WireOK'
  BY BoundsAssumption DEF Online, wire, IInv, BoundOK, WireOK
<1>2. CASE stopped \/ state = "live"
  BY <1>1, <1>2 DEF Online, wire, IInv, LinkOK, TimerOK, Single, Alone, Ended, NoneAlive, Alive
<1>3. CASE ~(stopped \/ state = "live")
  <2>1. /\ timer' \in Timers /\ timer'.retry = FALSE
        /\ timer'.retries = IF timer.retry THEN timer.retries - 1 ELSE timer.retries
        /\ timer'.auth = timer.auth /\ timer'.authTimer = timer.authTimer
    BY <1>3, RecalledFields DEF Online, IInv, TimerOK
  <2>2. /\ waits' = waits + 1 /\ state' = "connecting"
        /\ crossed' = (crossed \/ waits > 0 \/ ws # NoSocket)
        /\ UNCHANGED <<stopped, signedOut, ws, focused, wire>>
    BY <1>3 DEF Online
  <2>3. LinkOK' /\ TimerOK'
    BY <2>1, <2>2 DEF IInv, LinkOK, TimerOK
  <2>4. ASSUME ~crossed' PROVE Alone' /\ ~stopped'
    <3>1. ~crossed /\ waits = 0 /\ ws = NoSocket /\ ~stopped
      <4>1. waits \in Nat /\ ~(waits > 0)
        BY <2>2, <2>4 DEF IInv, TimerOK
      <4>2. ~crossed /\ ws = NoSocket
        BY <2>2, <2>4
      <4> QED BY <1>3, <4>1, <4>2
    <3>2. Alone
      BY <3>1 DEF IInv, Single
    <3>3. NoneAlive
      BY <3>1, <3>2, Numbers DEF Alone, NoneAlive
    <3>4. timer'.retries = 0 /\ waits' = 1 /\ NoneAlive' /\ timer'.auth = {}
      BY <2>1, <2>2, <3>1, <3>2, <3>3 DEF Alone, NoneAlive, Alive, wire, IInv, TimerOK, Timers
    <3> QED BY <2>2, <3>1, <3>4 DEF Alone, NoneAlive
  <2> QED BY <1>1, <2>3, <2>4 DEF IInv, Single
<1> QED BY <1>2, <1>3

LEMMA FocusIInv == ASSUME IInv, Focus PROVE IInv'
<1>1. LinkOK' /\ TimerOK' /\ BoundOK'
  <2>1. focused' \in BOOLEAN
    BY DEF Focus
  <2> QED BY <2>1, BoundsAssumption DEF Focus, IInv, LinkOK, TimerOK, BoundOK
<1>2. up' \in [Socket -> Seq({"auth", "ping", "focus", "blur"})]
  <2>1. <<IF focused THEN "blur" ELSE "focus">> \in Seq({"auth", "ping", "focus", "blur"})
    OBVIOUS
  <2>2. CASE Usable
    BY <2>1, <2>2, SentType DEF Focus, Usable, IInv, LinkOK
  <2>3. CASE ~Usable
    BY <2>3 DEF Focus, IInv, WireOK
  <2> QED BY <2>2, <2>3
<1>3. WireOK'
  BY <1>2 DEF Focus, IInv, WireOK
<1>4. Single'
  BY DEF Focus, IInv, Single, Alone, Ended, NoneAlive, Alive
<1> QED BY <1>1, <1>3, <1>4 DEF IInv

LEMMA GatewayIInv == ASSUME IInv, NEW s \in Socket, Gateway(s) PROVE IInv'
<1>1. up' \in [Socket -> Seq({"auth", "ping", "focus", "blur"})]
  BY DEF Gateway, IInv, WireOK
<1>2. gateway' \in [Socket -> {"none", "idle", "online"}]
  BY DEF Gateway, IInv, WireOK
<1>3. down' \in [Socket -> Seq({"auth_ok", "pong"})]
  BY DEF Gateway, IInv, WireOK
<1>4. WireOK'
  BY <1>1, <1>2, <1>3 DEF Gateway, IInv, WireOK
<1>5. LinkOK' /\ TimerOK' /\ BoundOK' /\ Single'
  BY DEF Gateway, link, bounds, IInv, LinkOK, TimerOK, BoundOK, Single, Alone, Ended, NoneAlive, Alive
<1> QED BY <1>4, <1>5 DEF IInv

LEMMA StutterIInv == ASSUME IInv, UNCHANGED vars PROVE IInv'
  BY DEF vars, link, wire, bounds, IInv, LinkOK, TimerOK, WireOK, BoundOK, Single, Alone, Ended, NoneAlive, Alive

-----------------------------------------------------------------------------
\* The invariant holds of every behaviour, one step at a time.
THEOREM Invariant == Spec => []IInv
<1>1. Init => IInv BY InitIInv
<1>2. IInv /\ [Next]_vars => IInv'
  <2> SUFFICES ASSUME IInv, [Next]_vars PROVE IInv'
    OBVIOUS
  <2>1. CASE Retry \/ Open \/ OpenFails \/ NoToken \/ Ping \/ PongTimeout \/ Stop \/ Online \/ Focus
    BY <2>1, RetryIInv, OpenIInv, OpenFailsIInv, NoTokenIInv, PingIInv, PongTimeoutIInv, StopIInv, OnlineIInv, FocusIInv
  <2>2. ASSUME NEW s \in Socket, Opened(s) \/ Authenticated(s) \/ Pong(s) \/ AuthTimeout(s)
        PROVE  IInv'
    BY <2>2, OpenedIInv, AuthenticatedIInv, PongIInv, AuthTimeoutIInv
  <2>3. ASSUME NEW s \in Socket, Drop(s) \/ Die(s) \/ Closed(s) \/ Gateway(s)
        PROVE  IInv'
    BY <2>3, DropIInv, DieIInv, ClosedIInv, GatewayIInv
  <2>4. CASE UNCHANGED vars
    BY <2>4, StutterIInv
  <2> QED BY <2>1, <2>2, <2>3, <2>4 DEF Next
<1> QED BY <1>1, <1>2, PTL DEF Spec

\* Every variable keeps its type, and the handle of a retry reaches a pending timer
\* (clearTimers).
THEOREM TypeCorrect == Spec => []TypeOK
<1>1. IInv => TypeOK BY Parts DEF IInv
<1> QED BY <1>1, Invariant, PTL

\* Unless an online event crosses a connection under way there is one connect, one
\* pending retry or one socket, and stop() leaves nothing behind (connect, onClose, stop).
THEOREM OneAttemptHolds == Spec => []OneAttempt
<1>1. IInv => OneAttempt
  <2> SUFFICES ASSUME IInv, ~crossed
               PROVE  /\ waits + timer.retries + Cardinality({s \in Socket : Alive(s)}) <= 1
                      /\ stopped => Ended
    BY DEF OneAttempt, Ended
  <2>1. Alone /\ (stopped => Ended)
    BY DEF IInv, Single
  <2>2. CASE NoneAlive
    <3>1. {s \in Socket : Alive(s)} = {}
      BY <2>2 DEF NoneAlive
    <3>2. Cardinality({s \in Socket : Alive(s)}) = 0
      BY <3>1, FS_EmptySet
    <3> QED BY <2>1, <3>2 DEF Alone
  <2>3. CASE ~NoneAlive
    <3>1. PICK r \in Socket : Alive(r)
      BY <2>3 DEF NoneAlive
    <3>2. {s \in Socket : Alive(s)} = {r}
      BY <2>1, <3>1 DEF Alone
    <3>3. Cardinality({s \in Socket : Alive(s)}) = 1
      BY <3>2, FS_Singleton
    <3>4. waits = 0 /\ timer.retries = 0
      BY <2>1, <2>3 DEF Alone
    <3> QED BY <2>1, <3>3, <3>4
  <2> QED BY <2>2, <2>3
<1> QED BY <1>1, Invariant, PTL

-----------------------------------------------------------------------------
(* What the gateway has been told of the focus. *)

FrameUp == {"auth", "ping", "focus", "blur"}
WordOf(f) == IF f THEN "focus" ELSE "blur"
ModeOf(f) == IF f THEN "online" ELSE "idle"

\* The last word about the focus among q, or what is known at g, is right.
Told(q, g, f) ==
    \E i \in 0..Len(q) :
        /\ \A j \in (i + 1)..Len(q) : q[j] = "ping"
        /\ i = 0 => g = ModeOf(f)
        /\ i > 0 => q[i] = WordOf(f)

\* The gateway reads one frame.
Reads(x, g) ==
    CASE x \in {"auth", "blur"} -> "idle"
      [] x = "focus" -> "online"
      [] OTHER -> g

LEMMA ToldPing ==
    ASSUME NEW q \in Seq(FrameUp), NEW g, NEW f, Told(q, g, f)
    PROVE  Told(q \o <<"ping">>, g, f)
<1> DEFINE p == q \o <<"ping">>
<1>1. /\ Len(p) = Len(q) + 1 /\ p[Len(q) + 1] = "ping" /\ Len(q) \in Nat
      /\ \A j \in 1..Len(q) : p[j] = q[j]
  BY DEF FrameUp
<1>2. PICK i \in 0..Len(q) :
        /\ \A j \in (i + 1)..Len(q) : q[j] = "ping"
        /\ i = 0 => g = ModeOf(f)
        /\ i > 0 => q[i] = WordOf(f)
  BY DEF Told
<1>3. \A j \in (i + 1)..Len(p) : p[j] = "ping"
  BY <1>1, <1>2
<1>4. i \in 0..Len(p) /\ (i > 0 => p[i] = WordOf(f))
  BY <1>1, <1>2
<1> QED BY <1>2, <1>3, <1>4 DEF Told

LEMMA ToldWord ==
    ASSUME NEW q \in Seq(FrameUp), NEW g, NEW f
    PROVE  Told(q \o <<WordOf(f)>>, g, f)
<1> DEFINE p == q \o <<WordOf(f)>>
<1>1. WordOf(f) \in FrameUp
  BY DEF WordOf, FrameUp
<1>2. Len(p) = Len(q) + 1 /\ p[Len(q) + 1] = WordOf(f) /\ Len(q) \in Nat
  BY <1>1
<1>3. Len(p) \in 0..Len(p) /\ Len(p) > 0 /\ \A j \in (Len(p) + 1)..Len(p) : p[j] = "ping"
  BY <1>2
<1> QED BY <1>2, <1>3 DEF Told

LEMMA ToldTail ==
    ASSUME NEW q \in Seq(FrameUp), q # <<>>, NEW g, NEW f \in BOOLEAN, Told(q, g, f)
    PROVE  Told(Tail(q), Reads(Head(q), g), f)
<1>1. /\ Len(Tail(q)) = Len(q) - 1 /\ Len(q) \in Nat \ {0} /\ Head(q) = q[1]
      /\ \A j \in 1..Len(Tail(q)) : Tail(q)[j] = q[j + 1]
  OBVIOUS
<1>2. PICK i \in 0..Len(q) :
        /\ \A j \in (i + 1)..Len(q) : q[j] = "ping"
        /\ i = 0 => g = ModeOf(f)
        /\ i > 0 => q[i] = WordOf(f)
  BY DEF Told
<1>3. CASE i = 0
  <2>1. Head(q) = "ping"
    BY <1>1, <1>2, <1>3
  <2>2. Reads(Head(q), g) = g
    BY <2>1 DEF Reads
  <2>3. \A j \in 1..Len(Tail(q)) : Tail(q)[j] = "ping"
    BY <1>1, <1>2, <1>3
  <2>4. 0 \in 0..Len(Tail(q))
    BY <1>1
  <2> QED BY <1>2, <1>3, <2>2, <2>3, <2>4 DEF Told
<1>4. CASE i = 1
  <2>1. Head(q) = WordOf(f)
    BY <1>1, <1>2, <1>4
  <2>2. Reads(Head(q), g) = ModeOf(f)
    BY <2>1 DEF Reads, WordOf, ModeOf
  <2>3. \A j \in 1..Len(Tail(q)) : Tail(q)[j] = "ping"
    BY <1>1, <1>2, <1>4
  <2>4. 0 \in 0..Len(Tail(q))
    BY <1>1
  <2> QED BY <2>2, <2>3, <2>4 DEF Told
<1>5. CASE i > 1
  <2>1. i - 1 \in 0..Len(Tail(q)) /\ i - 1 > 0 /\ Tail(q)[i - 1] = WordOf(f)
    BY <1>1, <1>2, <1>5
  <2>2. \A j \in i..Len(Tail(q)) : Tail(q)[j] = "ping"
    BY <1>1, <1>2, <1>5
  <2>3. \A j \in ((i - 1) + 1)..Len(Tail(q)) : Tail(q)[j] = "ping"
    <3>1. (i - 1) + 1 = i
      BY <1>2
    <3> QED BY <2>2, <3>1
  <2> QED BY <2>1, <2>3 DEF Told
<1> QED BY <1>2, <1>3, <1>4, <1>5

-----------------------------------------------------------------------------
(* The frames of the current socket, on their way to either end. *)

Untouched ==
    \A s \in Socket :
        sock[s] \in {"none", "opening"} => up[s] = <<>> /\ down[s] = <<>> /\ s \notin dead

\* The link is live, and the heartbeat runs, only with a socket.
Linked ==
    ~crossed /\ ~stopped /\ (state = "live" \/ timer.heartbeat) =>
        state = "live" /\ \E s \in Socket : sock[s] \in {"open", "closing"}

\* Before auth_ok nothing but the token is sent; afterwards it is not sent again.
Handshake(s) ==
    \/ up[s] = <<"auth">> /\ down[s] = <<>>
    \/ up[s] = <<>> /\ down[s] = <<"auth_ok">> /\ gateway[s] = "idle"
Conversing(s) ==
    /\ \A i \in 1..Len(down[s]) : down[s][i] = "pong"
    /\ \A i \in 1..Len(up[s]) : up[s][i] # "auth"
    /\ Told(up[s], gateway[s], focused)
Talks(s) == IF state = "live" THEN Conversing(s) ELSE Handshake(s)
Talking == ~crossed => \A s \in Socket \ dead : sock[s] = "open" => Talks(s)

FInv == Untouched /\ Linked /\ Talking

LEMMA InitFInv == Init => FInv
  BY DEF Init, NoTimers, FInv, Untouched, Linked, Talking

\* With a socket there is nothing else, and the link is up only through it.
LEMMA TheSocket ==
    ASSUME IInv, ~crossed, NEW s \in Socket, sock[s] \in {"opening", "open"}
    PROVE  /\ ~stopped /\ ws = s /\ waits = 0 /\ timer.retries = 0
           /\ \A r \in Socket : Alive(r) => r = s
<1>1. Alone /\ (stopped => Ended) /\ Alive(s)
  BY DEF IInv, Single, Alive
<1>2. ~stopped
  BY <1>1 DEF Ended
<1>3. waits # 1 /\ timer.retries # 1
  BY <1>1 DEF Alone, NoneAlive
<1> QED BY <1>1, <1>2, <1>3 DEF Alone

LEMMA NoSocketNoLink ==
    ASSUME FInv, ~crossed, ~stopped, NoneAlive
    PROVE  state # "live" /\ ~timer.heartbeat
  BY DEF FInv, Linked, NoneAlive, Alive

LEMMA RetryFInv == ASSUME IInv, FInv, Retry PROVE FInv'
<1>1. Untouched'
  BY DEF FInv, Untouched, Retry, wire
<1>2. ASSUME ~crossed PROVE NoneAlive /\ ~stopped /\ timer'.heartbeat = timer.heartbeat /\ state' = "connecting"
  <2>1. Alone /\ (stopped => Ended) /\ timer.retries > 0
    BY <1>2 DEF IInv, Single, Retry
  <2>2. timer.retries = 1 /\ ~stopped /\ NoneAlive
    BY <2>1 DEF Alone, Ended
  <2>3. timer'.heartbeat = timer.heartbeat
    BY DEF Retry, IInv, TimerOK, Timers
  <2> QED BY <2>2, <2>3 DEF Retry
<1>3. Linked'
  BY <1>2, NoSocketNoLink DEF Linked, Retry
<1>4. Talking'
  BY <1>2 DEF Talking, Retry, wire, NoneAlive, Alive
<1> QED BY <1>1, <1>3, <1>4 DEF FInv

LEMMA OpenFInv == ASSUME IInv, FInv, Open PROVE FInv'
<1>1. CASE stopped
  BY <1>1 DEF Open, bounds, FInv, Untouched, Linked, Talking, Talks, Handshake, Conversing
<1>2. CASE ~stopped
  <2>1. PICK s \in Socket : sock[s] = "none" /\ sock' = [sock EXCEPT ![s] = "opening"]
    BY <1>2 DEF Open
  <2>2. sock'[s] = "opening" /\ \A r \in Socket : r # s => sock'[r] = sock[r]
    BY <2>1 DEF IInv, WireOK
  <2>3. Untouched'
    BY <2>1, <2>2 DEF FInv, Untouched, Open
  <2>4. ASSUME ~crossed PROVE NoneAlive
    BY <2>4 DEF IInv, Single, Alone, Open, TimerOK
  <2>5. Linked'
    BY <1>2, <2>4, NoSocketNoLink DEF Linked, Open
  <2>6. Talking'
    BY <2>2, <2>4 DEF Talking, Open, NoneAlive, Alive
  <2> QED BY <2>3, <2>5, <2>6 DEF FInv
<1> QED BY <1>1, <1>2

LEMMA OpenFailsFInv == ASSUME IInv, FInv, OpenFails PROVE FInv'
<1>1. Untouched'
  BY DEF FInv, Untouched, OpenFails, wire
<1>2. ASSUME ~crossed PROVE NoneAlive
  BY <1>2 DEF IInv, Single, Alone, OpenFails, TimerOK
<1>3. timer'.heartbeat = timer.heartbeat /\ state' = "connecting"
  BY ScheduledFields DEF OpenFails, IInv, TimerOK
<1>4. Linked'
  BY <1>2, <1>3, NoSocketNoLink DEF Linked, OpenFails
<1>5. Talking'
  BY <1>2 DEF Talking, OpenFails, wire, NoneAlive, Alive
<1> QED BY <1>1, <1>4, <1>5 DEF FInv

LEMMA NoTokenFInv == ASSUME IInv, FInv, NoToken PROVE FInv'
<1>1. Untouched'
  BY DEF FInv, Untouched, NoToken, wire
<1>2. ASSUME ~crossed PROVE NoneAlive
  BY <1>2 DEF IInv, Single, Alone, NoToken, TimerOK
<1>3. Linked'
  BY <1>2, NoSocketNoLink DEF Linked, NoToken
<1>4. Talking'
  BY <1>2 DEF Talking, NoToken, wire, NoneAlive, Alive
<1> QED BY <1>1, <1>3, <1>4 DEF FInv

LEMMA OpenedFInv == ASSUME IInv, FInv, NEW s \in Socket, Opened(s) PROVE FInv'
<1>1. sock'[s] = "open" /\ sock[s] = "opening" /\ \A r \in Socket : r # s => sock'[r] = sock[r]
  BY DEF Opened, IInv, WireOK
<1>2. up[s] = <<>> /\ down[s] = <<>> /\ s \notin dead
  BY <1>1 DEF FInv, Untouched
<1>3. up'[s] = <<"auth">> /\ \A r \in Socket : r # s => up'[r] = up[r]
  <2>1. up' = [up EXCEPT ![s] = <<>> \o <<"auth">>]
    BY <1>2 DEF Opened, Sent
  <2>2. <<>> \o <<"auth">> = <<"auth">>
    OBVIOUS
  <2> QED BY <2>1, <2>2 DEF IInv, WireOK
<1>4. Untouched'
  BY <1>1, <1>3 DEF FInv, Untouched, Opened
<1>5. ASSUME ~crossed PROVE state # "live" /\ ~timer.heartbeat /\ \A r \in Socket : Alive(r) => r = s
  <2>1. ~stopped /\ \A r \in Socket : Alive(r) => r = s
    BY <1>1, <1>5, TheSocket
  <2>2. \A r \in Socket : sock[r] \notin {"open", "closing"}
    BY <1>1, <2>1 DEF Alive
  <2> QED BY <1>5, <2>1, <2>2 DEF FInv, Linked
<1>6. Linked'
  <2>1. timer'.heartbeat = timer.heartbeat
    BY DEF Opened, IInv, TimerOK, Timers
  <2> QED BY <1>5, <2>1 DEF Linked, Opened
<1>7. Talking'
  BY <1>1, <1>2, <1>3, <1>5 DEF Talking, Talks, Handshake, Alive, Opened
<1> QED BY <1>4, <1>6, <1>7 DEF FInv

\* A frame sent on the current socket leaves the others as they were.
LEMMA SentFrames ==
    ASSUME IInv, NEW s \in Socket, NEW q, up' = Sent(s, q)
    PROVE  /\ s \notin dead => up'[s] = up[s] \o q
           /\ \A r \in Socket : r # s => up'[r] = up[r]
  BY DEF Sent, IInv, WireOK

LEMMA AuthenticatedFInv == ASSUME IInv, FInv, NEW s \in Socket, Authenticated(s) PROVE FInv'
<1> DEFINE up1 == ws # NoSocket /\ sock[ws] = "open"
<1>1. /\ timer' = [timer EXCEPT !.auth = @ \ {timer.authTimer}, !.heartbeat = TRUE, !.pong = up1]
      /\ up' = IF up1 THEN Sent(ws, Greeting(ws)) ELSE up
      /\ state' = "live" /\ sock[s] = "open" /\ Head(down[s]) = "auth_ok"
      /\ UNCHANGED <<stopped, ws, focused, crossed, sock, dead, gateway>>
  BY DEF Authenticated
<1>2. down'[s] = Tail(down[s]) /\ \A r \in Socket : r # s => down'[r] = down[r]
  BY DEF Authenticated, IInv, WireOK
<1>3. \A r \in Socket : sock[r] # "open" => up'[r] = up[r]
  <2>1. CASE up1
    BY <1>1, <2>1, SentFrames DEF IInv, LinkOK
  <2>2. CASE ~up1
    BY <1>1, <2>2
  <2> QED BY <2>1, <2>2
<1>4. Untouched'
  BY <1>1, <1>2, <1>3 DEF FInv, Untouched
<1>5. Linked'
  BY <1>1 DEF Linked
<1>6. ASSUME ~crossed, s \notin dead PROVE Conversing(s)'
  <2>1. ws = s
    BY <1>1, <1>6, TheSocket
  <2>2. Talks(s)
    BY <1>1, <1>6 DEF FInv, Talking
  <2>3. down[s] # <<>> /\ down[s] \in Seq({"auth_ok", "pong"})
    BY DEF Authenticated, IInv, WireOK
  <2>4. up[s] = <<>> /\ down[s] = <<"auth_ok">> /\ gateway[s] = "idle"
    BY <1>1, <2>2, <2>3 DEF Talks, Handshake, Conversing
  <2>5. down'[s] = <<>>
    BY <1>2, <2>4
  <2>6. up'[s] = up[s] \o Greeting(s)
    BY <1>1, <1>6, <2>1, SentFrames, Numbers
  <2>7. focused \in BOOLEAN
    BY DEF IInv, LinkOK
  <2>8. CASE focused
    <3>1. up'[s] = <<>> \o (<<"focus">> \o <<"ping">>)
      BY <2>4, <2>6, <2>8 DEF Greeting
    <3>2. up'[s] = (<<>> \o <<WordOf(focused)>>) \o <<"ping">> /\ <<>> \o <<WordOf(focused)>> \in Seq(FrameUp)
      BY <3>1, <2>8 DEF WordOf, FrameUp
    <3>3. Told(up'[s], gateway[s], focused)
      <4> DEFINE q == <<>> \o <<WordOf(focused)>>
      <4>1. <<>> \in Seq(FrameUp)
        OBVIOUS
      <4>2. Told(q, gateway[s], focused)
        BY <4>1, ToldWord
      <4>3. q \in Seq(FrameUp) /\ up'[s] = q \o <<"ping">>
        BY <3>2
      <4> HIDE DEF q
      <4> QED BY <4>2, <4>3, ToldPing
    <3>4. Len(up'[s]) = 2 /\ up'[s][1] = "focus" /\ up'[s][2] = "ping"
      BY <3>1
    <3> QED BY <1>1, <2>5, <3>3, <3>4 DEF Conversing
  <2>9. CASE ~focused
    <3>1. up'[s] = <<"ping">>
      BY <2>4, <2>6, <2>9 DEF Greeting
    <3>2. Told(up'[s], gateway[s], focused)
      BY <2>4, <2>9, <3>1 DEF Told, ModeOf
    <3> QED BY <1>1, <2>5, <3>1, <3>2 DEF Conversing
  <2> QED BY <2>7, <2>8, <2>9
<1>7. Talking'
  BY <1>1, <1>6, TheSocket DEF Talking, Talks, Alive
<1> QED BY <1>4, <1>5, <1>7 DEF FInv

LEMMA PongFInv == ASSUME IInv, FInv, NEW s \in Socket, Pong(s) PROVE FInv'
<1>1. /\ state' = "live" /\ sock[s] = "open" /\ Head(down[s]) = "pong" /\ down[s] # <<>>
      /\ UNCHANGED <<stopped, ws, focused, crossed, sock, dead, up, gateway>>
  BY DEF Pong
<1>2. down'[s] = Tail(down[s]) /\ \A r \in Socket : r # s => down'[r] = down[r]
  BY DEF Pong, IInv, WireOK
<1>3. Untouched'
  BY <1>1, <1>2 DEF FInv, Untouched
<1>4. Linked'
  BY <1>1 DEF Linked
<1>5. ASSUME ~crossed, s \notin dead PROVE Conversing(s)'
  <2>1. Talks(s)
    BY <1>1, <1>5 DEF FInv, Talking
  <2>2. down[s] # <<>> /\ down[s] \in Seq({"auth_ok", "pong"})
    BY <1>1 DEF IInv, WireOK
  <2>3. Conversing(s)
    <3>1. down[s] # <<"auth_ok">>
      BY <1>1
    <3> QED BY <2>1, <2>2, <3>1 DEF Talks, Handshake
  <2>4. \A i \in 1..Len(down'[s]) : down'[s][i] = "pong"
    BY <1>2, <2>2, <2>3 DEF Conversing
  <2> QED BY <1>1, <2>3, <2>4 DEF Conversing
<1>6. Talking'
  BY <1>1, <1>5, TheSocket DEF Talking, Talks, Alive
<1> QED BY <1>3, <1>4, <1>6 DEF FInv

LEMMA PingFInv == ASSUME IInv, FInv, Ping PROVE FInv'
<1>1. /\ ws \in Socket /\ sock[ws] = "open" /\ up' = Sent(ws, <<"ping">>)
      /\ UNCHANGED <<state, stopped, ws, focused, crossed, sock, dead, down, gateway>>
  BY DEF Ping, IInv, LinkOK
<1>2. /\ ws \notin dead => up'[ws] = up[ws] \o <<"ping">>
      /\ \A r \in Socket : r # ws => up'[r] = up[r]
  BY <1>1, SentFrames
<1>3. timer'.heartbeat = timer.heartbeat /\ timer.heartbeat
  BY DEF Ping, IInv, TimerOK, Timers
<1>4. Untouched'
  BY <1>1, <1>2 DEF FInv, Untouched
<1>5. Linked'
  BY <1>1, <1>3 DEF FInv, Linked
<1>6. ASSUME ~crossed, ws \notin dead PROVE Talks(ws)'
  <2>1. ~stopped /\ Talks(ws)
    BY <1>1, <1>6, TheSocket DEF FInv, Talking
  <2>2. state = "live"
    BY <1>3, <1>6, <2>1 DEF FInv, Linked
  <2>3. Conversing(ws) /\ up[ws] \in Seq(FrameUp)
    BY <1>1, <2>1, <2>2 DEF Talks, IInv, WireOK, FrameUp
  <2>4. Told(up'[ws], gateway[ws], focused)
    BY <1>2, <1>6, <2>3, ToldPing DEF Conversing
  <2>5. \A i \in 1..Len(up'[ws]) : up'[ws][i] # "auth"
    BY <1>2, <1>6, <2>3 DEF Conversing
  <2> QED BY <1>1, <2>2, <2>3, <2>4, <2>5 DEF Talks, Conversing
<1>7. Talking'
  BY <1>1, <1>6, TheSocket DEF Talking, Alive
<1> QED BY <1>4, <1>5, <1>7 DEF FInv

\* A step that opens nothing, sends nothing and leaves the link as it was.
LEMMA QuietFInv ==
    ASSUME IInv, FInv,
           UNCHANGED <<state, stopped, focused, crossed, dead, up, down, gateway>>,
           timer'.heartbeat => timer.heartbeat,
           \A r \in Socket : Alive(r)' <=> Alive(r),
           \A r \in Socket : sock'[r] = sock[r] \/ (Alive(r) /\ sock'[r] = "closing")
    PROVE  FInv'
<1>1. Untouched'
  BY DEF FInv, Untouched
<1>2. Linked'
  BY DEF FInv, Linked
<1>3. Talking'
  BY DEF FInv, Talking, Talks, Handshake, Conversing
<1> QED BY <1>1, <1>2, <1>3 DEF FInv

LEMMA ClosingSock ==
    ASSUME WireOK, NEW s \in Socket \cup {NoSocket}, Closing(s)
    PROVE  /\ \A r \in Socket : Alive(r)' <=> Alive(r)
           /\ \A r \in Socket : sock'[r] = sock[r] \/ (Alive(r) /\ sock'[r] = "closing")
<1>1. CASE s # NoSocket /\ sock[s] \in {"opening", "open"}
  BY <1>1 DEF Closing, WireOK, Alive
<1>2. CASE ~(s # NoSocket /\ sock[s] \in {"opening", "open"})
  BY <1>2, Numbers DEF Closing, Alive, WireOK
<1> QED BY <1>1, <1>2

LEMMA AuthTimeoutFInv == ASSUME IInv, FInv, NEW s \in Socket, AuthTimeout(s) PROVE FInv'
<1>1. timer'.heartbeat = timer.heartbeat
  BY DEF AuthTimeout, IInv, TimerOK, Timers
<1> QED BY <1>1, ClosingSock, QuietFInv DEF AuthTimeout, IInv

LEMMA PongTimeoutFInv == ASSUME IInv, FInv, PongTimeout PROVE FInv'
<1>1. timer'.heartbeat = timer.heartbeat /\ ws \in Socket \cup {NoSocket}
  BY DEF PongTimeout, IInv, TimerOK, LinkOK, Timers
<1> QED BY <1>1, ClosingSock, QuietFInv DEF PongTimeout, IInv

LEMMA DropFInv == ASSUME IInv, FInv, NEW s \in Socket, Drop(s) PROVE FInv'
  BY ClosingSock, QuietFInv DEF Drop, link, IInv

LEMMA DieFInv == ASSUME IInv, FInv, NEW s \in Socket, Die(s) PROVE FInv'
<1>1. \A r \in Socket : r # s => up'[r] = up[r] /\ down'[r] = down[r]
  BY DEF Die, IInv, WireOK
<1>2. Untouched'
  BY <1>1 DEF FInv, Untouched, Die
<1>3. Linked'
  BY DEF FInv, Linked, Die, link
<1>4. Talking'
  BY <1>1 DEF FInv, Talking, Talks, Handshake, Conversing, Die, link
<1> QED BY <1>2, <1>3, <1>4 DEF FInv

LEMMA ClosedFInv == ASSUME IInv, FInv, NEW s \in Socket, Closed(s) PROVE FInv'
<1>1. sock'[s] = "closed" /\ sock[s] = "closing" /\ \A r \in Socket : r # s => sock'[r] = sock[r]
  BY DEF Closed, IInv, WireOK
<1>2. \A r \in Socket : r # s => up'[r] = up[r] /\ down'[r] = down[r] /\ gateway'[r] = gateway[r]
  BY DEF Closed, IInv, WireOK
<1>3. Untouched'
  BY <1>1, <1>2 DEF FInv, Untouched, Closed
<1>4. ~stopped => state' = "connecting" /\ timer'.heartbeat = FALSE
  <2>1. Cleared(timer) \in Timers /\ Cleared(timer).heartbeat = FALSE
    BY ClearedFields DEF IInv, TimerOK
  <2>2. Scheduled(Cleared(timer)).heartbeat = FALSE
    BY <2>1, ScheduledFields
  <2> QED BY <2>2 DEF Closed
<1>5. Linked'
  BY <1>4 DEF Linked, Closed
<1>6. ASSUME ~crossed PROVE \A r \in Socket : sock'[r] # "open"
  BY <1>1, <1>6 DEF IInv, Single, Alone, Alive
<1>7. Talking'
  BY <1>6 DEF Talking, Closed
<1> QED BY <1>3, <1>5, <1>7 DEF FInv

LEMMA StopFInv == ASSUME IInv, FInv, Stop PROVE FInv'
<1>1. Closing(ws) /\ ws \in Socket \cup {NoSocket}
  BY DEF Stop, IInv, LinkOK
<1>2. /\ \A r \in Socket : sock'[r] = sock[r] \/ (Alive(r) /\ sock'[r] = "closing")
      /\ \A r \in Socket : r # ws => sock'[r] = sock[r]
      /\ ws \in Socket => sock'[ws] \notin {"opening", "open"}
  BY <1>1, ClosingSock, ClosingKeeps DEF IInv
<1>3. Untouched'
  BY <1>2 DEF FInv, Untouched, Stop
<1>4. Linked'
  BY DEF Linked, Stop
<1>5. ASSUME ~crossed PROVE \A r \in Socket : sock'[r] # "open"
  BY <1>2, <1>5 DEF IInv, Single, Alone, Alive, Stop
<1>6. Talking'
  BY <1>5 DEF Talking, Stop
<1> QED BY <1>3, <1>4, <1>6 DEF FInv

LEMMA OnlineFInv == ASSUME IInv, FInv, Online PROVE FInv'
<1>1. CASE stopped \/ state = "live"
  BY <1>1, QuietFInv DEF Online, wire, Alive
<1>2. CASE ~(stopped \/ state = "live")
  <2>1. /\ timer' = Recalled(timer) /\ state' = "connecting"
        /\ crossed' = (crossed \/ waits > 0 \/ ws # NoSocket)
        /\ UNCHANGED <<stopped, ws, focused, wire>>
    BY <1>2 DEF Online
  <2>2. timer'.heartbeat = timer.heartbeat
    BY <2>1, RecalledFields DEF IInv, TimerOK
  <2>3. ASSUME ~crossed' PROVE ~crossed /\ NoneAlive
    <3>1. ~crossed /\ ws = NoSocket
      BY <2>1, <2>3
    <3> QED BY <1>2, <3>1, Numbers DEF IInv, Single, Alone, NoneAlive
  <2>4. Untouched'
    BY <2>1 DEF FInv, Untouched, wire
  <2>5. Linked'
    BY <1>2, <2>1, <2>2, <2>3, NoSocketNoLink DEF Linked
  <2>6. Talking'
    BY <2>1, <2>3 DEF Talking, wire, NoneAlive, Alive
  <2> QED BY <2>4, <2>5, <2>6 DEF FInv
<1> QED BY <1>1, <1>2

LEMMA FocusFInv == ASSUME IInv, FInv, Focus PROVE FInv'
<1>1. UNCHANGED <<state, stopped, ws, timer, crossed, sock, dead, down, gateway>>
      /\ focused \in BOOLEAN /\ focused' = ~focused
  BY DEF Focus, IInv, LinkOK
<1>2. Linked'
  BY <1>1 DEF FInv, Linked
<1>3. CASE Usable
  <2>1. ws \in Socket /\ sock[ws] = "open" /\ state = "live" /\ up' = Sent(ws, <<WordOf(focused')>>)
    <3>1. WordOf(focused') = IF focused THEN "blur" ELSE "focus"
      BY <1>1 DEF WordOf
    <3> QED BY <1>3, <3>1 DEF Focus, Usable, IInv, LinkOK
  <2>2. /\ ws \notin dead => up'[ws] = up[ws] \o <<WordOf(focused')>>
        /\ \A r \in Socket : r # ws => up'[r] = up[r]
    BY <2>1, SentFrames
  <2>3. Untouched'
    BY <1>1, <2>1, <2>2 DEF FInv, Untouched
  <2>4. ASSUME ~crossed, ws \notin dead PROVE Conversing(ws)'
    <3>1. Conversing(ws) /\ up[ws] \in Seq(FrameUp)
      BY <2>1, <2>4 DEF FInv, Talking, Talks, IInv, WireOK, FrameUp
    <3>2. Told(up'[ws], gateway[ws], focused')
      BY <2>2, <2>4, <3>1, ToldWord
    <3>3. WordOf(focused') \in FrameUp /\ WordOf(focused') # "auth"
      BY DEF WordOf, FrameUp
    <3>4. \A i \in 1..Len(up'[ws]) : up'[ws][i] # "auth"
      BY <2>2, <2>4, <3>1, <3>3 DEF Conversing
    <3> QED BY <1>1, <3>1, <3>2, <3>4 DEF Conversing
  <2>5. Talking'
    BY <1>1, <2>1, <2>4, TheSocket DEF Talking, Talks, Alive
  <2> QED BY <1>2, <2>3, <2>5 DEF FInv
<1>4. CASE ~Usable
  <2>1. up' = up
    BY <1>4 DEF Focus
  <2>2. Untouched'
    BY <1>1, <2>1 DEF FInv, Untouched
  <2>3. ASSUME ~crossed, NEW r \in Socket, sock[r] = "open" PROVE state # "live"
    BY <1>4, <2>3, TheSocket, Numbers DEF Usable
  <2>4. Talking'
    BY <1>1, <2>1, <2>3 DEF FInv, Talking, Talks, Handshake
  <2> QED BY <1>2, <2>2, <2>4 DEF FInv
<1> QED BY <1>3, <1>4

LEMMA GatewayFInv == ASSUME IInv, FInv, NEW s \in Socket, Gateway(s) PROVE FInv'
<1>1. /\ UNCHANGED <<state, stopped, ws, focused, timer, crossed, sock, dead>>
      /\ up[s] # <<>> /\ sock[s] \in {"open", "closing"}
  BY DEF Gateway, link
<1>2. /\ up[s] \in Seq(FrameUp) /\ down[s] \in Seq({"auth_ok", "pong"}) /\ focused \in BOOLEAN
      /\ up'[s] = Tail(up[s]) /\ gateway'[s] = Reads(Head(up[s]), gateway[s])
      /\ Head(up[s]) = "ping" => down'[s] = Append(down[s], "pong")
      /\ Head(up[s]) = "auth" => down'[s] = Append(down[s], "auth_ok")
      /\ Head(up[s]) \notin {"auth", "ping"} => down'[s] = down[s]
  BY DEF Gateway, IInv, LinkOK, WireOK, Reads, FrameUp
<1>3. \A r \in Socket : r # s => up'[r] = up[r] /\ down'[r] = down[r] /\ gateway'[r] = gateway[r]
  BY DEF Gateway, IInv, WireOK
<1>4. Untouched'
  BY <1>1, <1>3 DEF FInv, Untouched
<1>5. Linked'
  BY <1>1 DEF FInv, Linked
<1>6. ASSUME state # "live", Handshake(s) PROVE Handshake(s)'
  <2>1. up[s] = <<"auth">> /\ down[s] = <<>>
    BY <1>1, <1>6 DEF Handshake
  <2>2. up'[s] = <<>> /\ down'[s] = <<"auth_ok">> /\ gateway'[s] = "idle"
    BY <1>2, <2>1 DEF Reads
  <2> QED BY <2>2 DEF Handshake
<1>7. ASSUME Conversing(s) PROVE Conversing(s)'
  <2>1. Head(up[s]) # "auth"
    BY <1>1, <1>2, <1>7 DEF Conversing
  <2>2. \A i \in 1..Len(down'[s]) : down'[s][i] = "pong"
    <3>1. CASE Head(up[s]) = "ping"
      <4>1. down'[s] = Append(down[s], "pong") /\ down[s] \in Seq({"auth_ok", "pong"})
        BY <1>2, <3>1
      <4>2. \A i \in 1..Len(down[s]) : down[s][i] = "pong"
        BY <1>7 DEF Conversing
      <4>3. Len(down'[s]) = Len(down[s]) + 1 /\ down'[s][Len(down[s]) + 1] = "pong" /\ Len(down[s]) \in Nat
            /\ \A i \in 1..Len(down[s]) : down'[s][i] = down[s][i]
        BY <4>1
      <4> QED BY <4>2, <4>3
    <3>2. CASE Head(up[s]) # "ping"
      BY <1>2, <1>7, <2>1, <3>2 DEF Conversing
    <3> QED BY <3>1, <3>2
  <2>3. \A i \in 1..Len(up'[s]) : up'[s][i] # "auth"
    BY <1>1, <1>2, <1>7 DEF Conversing
  <2>4. Told(up'[s], gateway'[s], focused)
    BY <1>1, <1>2, <1>7, ToldTail DEF Conversing
  <2> QED BY <1>1, <2>2, <2>3, <2>4 DEF Conversing
<1>8. Talking'
  BY <1>1, <1>3, <1>6, <1>7 DEF FInv, Talking, Talks, Handshake, Conversing
<1> QED BY <1>4, <1>5, <1>8 DEF FInv

LEMMA StutterFInv == ASSUME IInv, FInv, UNCHANGED vars PROVE FInv'
  BY QuietFInv DEF vars, link, wire, bounds, Alive

\* Whatever the gateway has not read yet, the last word about the focus is right.
THEOREM FocusInvariant == Spec => []FInv
<1>1. Init => FInv BY InitFInv
<1>2. IInv /\ FInv /\ [Next]_vars => FInv'
  <2> SUFFICES ASSUME IInv, FInv, [Next]_vars PROVE FInv'
    OBVIOUS
  <2>1. CASE Retry \/ Open \/ OpenFails \/ NoToken \/ Ping \/ PongTimeout \/ Stop \/ Online \/ Focus
    BY <2>1, RetryFInv, OpenFInv, OpenFailsFInv, NoTokenFInv, PingFInv, PongTimeoutFInv, StopFInv, OnlineFInv, FocusFInv
  <2>2. ASSUME NEW s \in Socket, Opened(s) \/ Authenticated(s) \/ Pong(s) \/ AuthTimeout(s)
        PROVE  FInv'
    BY <2>2, OpenedFInv, AuthenticatedFInv, PongFInv, AuthTimeoutFInv
  <2>3. ASSUME NEW s \in Socket, Drop(s) \/ Die(s) \/ Closed(s) \/ Gateway(s)
        PROVE  FInv'
    BY <2>3, DropFInv, DieFInv, ClosedFInv, GatewayFInv
  <2>4. CASE UNCHANGED vars
    BY <2>4, StutterFInv
  <2> QED BY <2>1, <2>2, <2>3, <2>4 DEF Next
<1> QED BY <1>1, <1>2, Invariant, PTL DEF Spec

\* Once its frames have arrived the gateway has the focus right, however it changed
\* before, during and after a reconnect (onAuthenticated, onFocusChange).
THEOREM FocusIsReportedHolds == Spec => []FocusIsReported
<1>1. IInv /\ FInv => FocusIsReported
  <2> SUFFICES ASSUME IInv, FInv, ~crossed, Usable, ws \notin dead, up[ws] = <<>>, down[ws] = <<>>
               PROVE  gateway[ws] = IF focused THEN "online" ELSE "idle"
    BY DEF FocusIsReported
  <2>1. ws \in Socket /\ sock[ws] = "open" /\ state = "live"
    BY DEF Usable, IInv, LinkOK
  <2>2. Told(up[ws], gateway[ws], focused)
    BY <2>1 DEF FInv, Talking, Talks, Conversing
  <2>3. gateway[ws] = ModeOf(focused)
    BY <2>2 DEF Told
  <2> QED BY <2>3 DEF ModeOf
<1> QED BY <1>1, Invariant, FocusInvariant, PTL
=============================================================================
