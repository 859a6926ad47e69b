----------------------------- MODULE RelaySocket -----------------------------
(***************************************************************************)
(* The web client's connection to the gateway: RelaySocket and the browser  *)
(* sockets it opens, its timers, the frames on their way on each socket,    *)
(* and how far the gateway has got with each.                               *)
(*                                                                         *)
(* A socket's two directions are FIFO. A link may close, or go dead without *)
(* a word. "connecting" stands for the two link states connecting and       *)
(* reconnecting, which differ in a label; backoff is left out. Chat frames  *)
(* are left out: the link only passes them on.                              *)
(***************************************************************************)
EXTENDS Naturals, Sequences, FiniteSets

CONSTANTS
    Socket,     \* bound: the browser sockets that may ever be opened
    MaxFaults,  \* bound: closed, dead and failed links, late answers, refused tokens
    MaxOnline,  \* bound: online events of the browser
    MaxFocus    \* bound: changes of the window's focus

ASSUME SocketAssumption == Socket \subseteq Nat \ {0}
ASSUME BoundsAssumption == MaxFaults \in Nat /\ MaxOnline \in Nat /\ MaxFocus \in Nat

VARIABLES
    state,      \* RelaySocket.state
    stopped,
    signedOut,  \* getToken has cleared the session
    ws,         \* RelaySocket.ws
    focused,    \* RelaySocket.focused
    waits,      \* calls of connect that await getToken
    timer,      \* the timers that are set, and the handles kept of them
    sock,       \* the readyState of each socket
    dead,       \* the sockets whose link lost everything without a close
    up, down,   \* the frames on their way to the gateway, and back
    gateway,    \* what the gateway holds of each socket
    crossed,    \* history: an online event came upon a connection under way
    faults, onlines, changes

link == <<state, stopped, signedOut, ws, focused, waits, timer, crossed>>
wire == <<sock, dead, up, down, gateway>>
bounds == <<faults, onlines, changes>>
vars == <<link, wire, bounds>>

NoSocket == 0

\* retries: pending reconnect timers; retry: the latest of them, which the handle
\* reconnectTimer still reaches, is among them. auth: pending handshake timers;
\* authTimer: the socket of the latest, or NoSocket.
NoTimers ==
    [heartbeat |-> FALSE, pong |-> FALSE, auth |-> {}, authTimer |-> NoSocket,
     retries |-> 0, retry |-> FALSE]

TypeOK ==
    /\ state \in {"offline", "connecting", "live"}
    /\ {stopped, signedOut, focused, crossed} \subseteq BOOLEAN
    /\ ws \in Socket \cup {NoSocket}
    /\ waits \in Nat
    /\ timer \in [heartbeat : BOOLEAN, pong : BOOLEAN, auth : SUBSET Socket,
                  authTimer : Socket \cup {NoSocket}, retries : Nat, retry : BOOLEAN]
    /\ timer.retry => timer.retries > 0
    /\ sock \in [Socket -> {"none", "opening", "open", "closing", "closed"}]
    /\ dead \subseteq Socket
    /\ up \in [Socket -> Seq({"auth", "ping", "focus", "blur"})]
    /\ down \in [Socket -> Seq({"auth_ok", "pong"})]
    /\ gateway \in [Socket -> {"none", "idle", "online"}]
    /\ faults \in 0..MaxFaults /\ onlines \in 0..MaxOnline /\ changes \in 0..MaxFocus

\* start() has run, and its connect awaits the first token.
Init ==
    /\ state = "connecting" /\ stopped = FALSE /\ signedOut = FALSE /\ ws = NoSocket /\ focused \in BOOLEAN
    /\ waits = 1 /\ timer = NoTimers
    /\ sock = [s \in Socket |-> "none"] /\ dead = {}
    /\ up = [s \in Socket |-> <<>>] /\ down = [s \in Socket |-> <<>>]
    /\ gateway = [s \in Socket |-> "none"]
    /\ crossed = FALSE /\ faults = 0 /\ onlines = 0 /\ changes = 0

Fault == faults < MaxFaults /\ faults' = faults + 1 /\ UNCHANGED <<onlines, changes>>

-----------------------------------------------------------------------------
(* The timers. *)

\* A pending timer is cleared through its handle, which only the latest has.
MutRecalled(t) == t
MutRecalled2(t) == [t EXCEPT !.retries = IF t.retry THEN @ - 1 ELSE @]
Recalled(t) == [t EXCEPT !.retries = IF t.retry THEN @ - 1 ELSE @, !.retry = FALSE]

Cleared(t) ==
    Recalled([t EXCEPT !.heartbeat = FALSE, !.pong = FALSE, !.auth = @ \ {t.authTimer}])

MutScheduled(t) == t
Scheduled(t) == [t EXCEPT !.retries = @ + 1, !.retry = TRUE]

\* send(): a frame goes out on the current socket if it is open and live.
Usable == ws # NoSocket /\ sock[ws] = "open" /\ state = "live"
Sent(s, frames) == IF s \in dead THEN up ELSE [up EXCEPT ![s] = @ \o frames]

-----------------------------------------------------------------------------
(* Connecting. *)

\* connect() until it awaits the token, and what follows when a timer fires.
Retry ==
    /\ timer.retries > 0
    /\ \E latest \in {b \in BOOLEAN : IF b THEN timer.retry ELSE timer.retries > 1 \/ ~timer.retry} :
          timer' = [timer EXCEPT !.retries = @ - 1, !.retry = @ /\ ~latest]
    /\ IF stopped THEN UNCHANGED <<state, waits>> ELSE state' = "connecting" /\ waits' = waits + 1
    /\ UNCHANGED <<stopped, signedOut, ws, focused, crossed, wire, bounds>>

\* getToken answers: the socket is opened in whatever state there is by now.
Open ==
    /\ waits > 0 /\ waits' = waits - 1
    /\ IF stopped THEN UNCHANGED <<ws, sock>>
       ELSE \E s \in Socket :
              /\ sock[s] = "none" /\ \A r \in Socket : r < s => sock[r] # "none"
              /\ ws' = s
              /\ sock' = [sock EXCEPT ![s] = "opening"]
    /\ UNCHANGED <<state, stopped, signedOut, focused, timer, crossed, dead, up, down, gateway, bounds>>

\* The constructor throws: another try is scheduled, whatever socket there is.
OpenFails ==
    /\ waits > 0 /\ waits' = waits - 1
    /\ ~stopped
    /\ Fault
    /\ state' = "connecting" /\ timer' = Scheduled(timer)
    /\ UNCHANGED <<stopped, signedOut, ws, focused, crossed, wire>>

\* The token cannot be refreshed and the session is cleared: nothing tries again.
NoToken ==
    /\ waits > 0 /\ waits' = waits - 1
    /\ Fault
    /\ signedOut' = TRUE
    /\ state' = IF stopped THEN state ELSE "offline"
    /\ UNCHANGED <<stopped, ws, focused, timer, crossed, wire>>

Opened(s) ==
    /\ sock[s] = "opening"
    /\ sock' = [sock EXCEPT ![s] = "open"]
    /\ up' = Sent(s, <<"auth">>)
    /\ timer' = [timer EXCEPT !.auth = @ \cup {s}, !.authTimer = s]
    /\ UNCHANGED <<state, stopped, signedOut, ws, focused, waits, crossed, dead, down, gateway, bounds>>

\* auth_ok: the focus is reported anew, and the heartbeat starts with a ping.
MutGreeting(s) == <<"ping">>
Greeting(s) == (IF focused THEN <<"focus">> ELSE <<>>) \o <<"ping">>

\* Frames reach the handlers of a socket only while it is open. Both handlers act
\* on the current socket, whichever socket the frame came on.
Authenticated(s) ==
    /\ sock[s] = "open" /\ down[s] # <<>> /\ Head(down[s]) = "auth_ok"
    /\ down' = [down EXCEPT ![s] = Tail(@)]
    /\ state' = "live"
    /\ LET up1 == ws # NoSocket /\ sock[ws] = "open" IN
       /\ up' = IF up1 THEN Sent(ws, Greeting(ws)) ELSE up
       /\ timer' = [timer EXCEPT !.auth = @ \ {timer.authTimer}, !.heartbeat = TRUE, !.pong = up1]
    /\ UNCHANGED <<stopped, signedOut, ws, focused, waits, crossed, sock, dead, gateway, bounds>>

Pong(s) ==
    /\ sock[s] = "open" /\ down[s] # <<>> /\ Head(down[s]) = "pong"
    /\ down' = [down EXCEPT ![s] = Tail(@)]
    /\ state' = "live"
    /\ timer' = [timer EXCEPT !.pong = FALSE]
    /\ UNCHANGED <<stopped, signedOut, ws, focused, waits, crossed, sock, dead, up, gateway, bounds>>

\* The heartbeat's period is longer than the wait for its pong.
Ping ==
    /\ timer.heartbeat /\ ~timer.pong
    /\ ws # NoSocket /\ sock[ws] = "open"
    /\ up' = Sent(ws, <<"ping">>)
    /\ timer' = [timer EXCEPT !.pong = TRUE]
    /\ UNCHANGED <<state, stopped, signedOut, ws, focused, waits, crossed, sock, dead, down, gateway, bounds>>

-----------------------------------------------------------------------------
(* Closing. *)

Closing(s) ==
    sock' = IF s # NoSocket /\ sock[s] \in {"opening", "open"} THEN [sock EXCEPT ![s] = "closing"] ELSE sock

\* A timer fires because the link is dead, or because the answer is late.
Late(s) == IF s \in dead THEN UNCHANGED bounds ELSE Fault

AuthTimeout(s) ==
    /\ s \in timer.auth
    /\ Late(s)
    /\ Closing(s)
    /\ timer' = [timer EXCEPT !.auth = @ \ {s}]
    /\ UNCHANGED <<state, stopped, signedOut, ws, focused, waits, crossed, dead, up, down, gateway>>

PongTimeout ==
    /\ timer.pong
    /\ Late(ws)
    /\ Closing(ws)
    /\ timer' = [timer EXCEPT !.pong = FALSE]
    /\ UNCHANGED <<state, stopped, signedOut, ws, focused, waits, crossed, dead, up, down, gateway>>

\* The gateway, or the network, closes the socket, or fails to open it.
Drop(s) ==
    /\ sock[s] \in {"opening", "open"}
    /\ Fault
    /\ Closing(s)
    /\ UNCHANGED <<link, dead, up, down, gateway>>

\* The link dies and neither end hears of it.
Die(s) ==
    /\ sock[s] = "open" /\ s \notin dead
    /\ Fault
    /\ dead' = dead \cup {s}
    /\ up' = [up EXCEPT ![s] = <<>>] /\ down' = [down EXCEPT ![s] = <<>>]
    /\ UNCHANGED <<link, sock, gateway>>

\* onClose, whichever socket it is that closed.
Closed(s) ==
    /\ sock[s] = "closing"
    /\ sock' = [sock EXCEPT ![s] = "closed"]
    /\ up' = [up EXCEPT ![s] = <<>>] /\ down' = [down EXCEPT ![s] = <<>>]
    /\ gateway' = [gateway EXCEPT ![s] = "none"]
    /\ ws' = NoSocket
    /\ IF stopped
       THEN state' = "offline" /\ timer' = Cleared(timer)
       ELSE state' = "connecting" /\ timer' = Scheduled(Cleared(timer))
    /\ UNCHANGED <<stopped, signedOut, focused, waits, crossed, dead, bounds>>

Stop ==
    /\ ~stopped /\ stopped' = TRUE
    /\ timer' = Cleared(timer)
    /\ Closing(ws)
    /\ ws' = NoSocket
    /\ state' = "offline"
    /\ UNCHANGED <<signedOut, focused, waits, crossed, dead, up, down, gateway, bounds>>

-----------------------------------------------------------------------------
(* The window, and the gateway. *)

\* The browser is back online: try now, unless the link is live.
Online ==
    /\ onlines < MaxOnline /\ onlines' = onlines + 1
    /\ IF stopped \/ state = "live" THEN UNCHANGED <<state, waits, timer, crossed>>
       ELSE /\ state' = "connecting" /\ waits' = waits + 1
            /\ timer' = Recalled(timer)
            /\ crossed' = (crossed \/ waits > 0 \/ ws # NoSocket)
    /\ UNCHANGED <<stopped, signedOut, ws, focused, wire, faults, changes>>

Focus ==
    /\ changes < MaxFocus /\ changes' = changes + 1
    /\ ~stopped
    /\ focused' = ~focused
    /\ up' = IF Usable THEN Sent(ws, <<IF focused THEN "blur" ELSE "focus">>) ELSE up
    /\ UNCHANGED <<state, stopped, signedOut, ws, waits, timer, crossed, sock, dead, down, gateway, faults, onlines>>

\* authenticate and serve: registered as idle, then told of every change.
Gateway(s) ==
    /\ up[s] # <<>> /\ sock[s] \in {"open", "closing"}
    /\ up' = [up EXCEPT ![s] = Tail(@)]
    /\ gateway' = [gateway EXCEPT ![s] =
          CASE Head(up[s]) \in {"auth", "blur"} -> "idle"
            [] Head(up[s]) = "focus" -> "online"
            [] OTHER -> @]
    /\ down' = [down EXCEPT ![s] =
          CASE Head(up[s]) = "auth" -> Append(@, "auth_ok")
            [] Head(up[s]) = "ping" -> Append(@, "pong")
            [] OTHER -> @]
    /\ UNCHANGED <<link, sock, dead, bounds>>

-----------------------------------------------------------------------------
Next ==
    \/ Retry \/ Open \/ OpenFails \/ NoToken \/ Ping \/ PongTimeout \/ Stop \/ Online \/ Focus
    \/ \E s \in Socket :
          \/ Opened(s) \/ Authenticated(s) \/ Pong(s) \/ AuthTimeout(s)
          \/ Drop(s) \/ Die(s) \/ Closed(s) \/ Gateway(s)

Spec == Init /\ [][Next]_vars

\* Timers fire, getToken answers, browser events are dispatched, and the gateway
\* reads what has reached it. Nothing makes Stop happen: the route guard looks at
\* the session only when the user navigates.
FairSpec ==
    /\ Spec
    /\ WF_vars(Retry) /\ WF_vars(Open) /\ WF_vars(PongTimeout /\ ws \in dead)
    /\ \A s \in Socket :
          /\ WF_vars(Opened(s)) /\ WF_vars(Authenticated(s)) /\ WF_vars(Pong(s))
          /\ WF_vars(AuthTimeout(s) /\ s \in dead) /\ WF_vars(Closed(s)) /\ WF_vars(Gateway(s))
    /\ WF_vars(Ping)

-----------------------------------------------------------------------------
(* The comment on RelaySocket, "the single gateway WebSocket connection", as  *)
(* long as no online event comes upon a connection under way: there is one    *)
(* connect, one pending retry, or one socket, never two of them, and stop()   *)
(* leaves no timer and no open socket behind (clearTimers, onOnline).         *)
Alive(s) == sock[s] \in {"opening", "open", "closing"}
OneAttempt ==
    ~crossed =>
        /\ waits + timer.retries + Cardinality({s \in Socket : Alive(s)}) <= 1
        /\ stopped => /\ timer.retries = 0 /\ timer.auth = {}
                      /\ ~timer.heartbeat /\ ~timer.pong
                      /\ \A s \in Socket : sock[s] \notin {"opening", "open"}

(* REQUIREMENTS 8.2: whenever the link is live and its frames have arrived,   *)
(* the gateway has the window's focus right, also when the focus changed      *)
(* while there was no link (onAuthenticated, onFocusChange).                  *)
FocusIsReported ==
    /\ ~crossed /\ Usable /\ ws \notin dead /\ up[ws] = <<>> /\ down[ws] = <<>>
    => gateway[ws] = IF focused THEN "online" ELSE "idle"

(* REQUIREMENTS 8.1, 8.2: a closed or dead link is noticed and replaced, for  *)
(* as long as there is a session (the pong and handshake timers, the retries, *)
(* also where an online event has left sockets behind).                       *)
LinkComesBack == ~stopped ~> (Usable /\ ws \notin dead) \/ stopped \/ signedOut
=============================================================================
