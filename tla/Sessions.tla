------------------------------ MODULE Sessions ------------------------------
(***************************************************************************)
(* A browser's session: the tabs that share its local storage, and the     *)
(* auth-service's refresh tokens, which each use rotates. A login starts a  *)
(* family of tokens; a refresh revokes the token it presents and issues its *)
(* successor; a logout, or a token presented again, revokes the family.     *)
(*                                                                         *)
(* Every await of a use case ends a step, and so does every answer on its   *)
(* way. Access tokens may expire at any time. Ids are UUIDv7s: a token is   *)
(* a number, the next one free, and a family is named by its first token.   *)
(* Credentials are right: a refused login changes nothing anywhere.         *)
(***************************************************************************)
EXTENDS Naturals, FiniteSets

CONSTANTS
    Token,      \* bound: the refresh tokens that may ever be issued
    Tab,        \* the tabs of the browser
    Call,       \* bound: the HTTP requests in flight at once
    NoTab,      \* the tab of a request nobody waits for any more
    MaxFaults   \* bound: expiries, reloads, lost answers, failed statements, crashes

ASSUME TokenAssumption == Token \subseteq Nat \ {0}
ASSUME CallAssumption == Call \subseteq Nat \ {0}
ASSUME NoTabAssumption == NoTab \notin Tab
ASSUME SessionFaultsAssumption == MaxFaults \in Nat

VARIABLES
    row,        \* the table refresh_tokens
    expired,    \* the tokens whose expiresAt has passed
    call,       \* the requests in flight
    session,    \* each tab's token store: a refresh token, or SignedOut
    stored,     \* the session in local storage
    notice,     \* the tabs a storage event is on its way to
    refreshing, \* each tab's refresh in flight
    ended,      \* history: the families revoked as a whole
    raced,      \* history: the families with overlapping requests
    faults

server == <<row, expired, ended, raced>>
client == <<session, stored, notice, refreshing>>
vars == <<row, expired, call, session, stored, notice, refreshing, ended, raced, faults>>

SignedOut == 0
NoCall == 0
NoRow == [family |-> 0, revoked |-> TRUE]
TokenRow == [family : Token, revoked : BOOLEAN]

Free == [op |-> "none", tab |-> NoTab, token |-> 0, pc |-> "free"]
Request == [op : {"login", "refresh", "logout"}, tab : Tab \cup {NoTab}, token : Token \cup {0},
            pc : {"find", "kill", "revoke", "save", "answer", "reject"}]

TypeOK ==
    /\ row \in [Token -> TokenRow \cup {NoRow}]
    /\ expired \subseteq Token
    /\ call \in [Call -> Request \cup {Free}]
    /\ session \in [Tab -> Token \cup {SignedOut}] /\ stored \in Token \cup {SignedOut}
    /\ notice \subseteq Tab
    /\ refreshing \in [Tab -> Call \cup {NoCall}]
    /\ \A t \in Tab : refreshing[t] \in Call =>
          call[refreshing[t]].op = "refresh" /\ call[refreshing[t]].tab = t
    /\ ended \subseteq Token /\ raced \subseteq Token
    /\ faults \in 0..MaxFaults

Init ==
    /\ row = [n \in Token |-> NoRow] /\ expired = {}
    /\ call = [c \in Call |-> Free]
    /\ session = [t \in Tab |-> SignedOut] /\ stored = SignedOut /\ notice = {}
    /\ refreshing = [t \in Tab |-> NoCall]
    /\ ended = {} /\ raced = {} /\ faults = 0

-----------------------------------------------------------------------------
(* The token store. *)

\* set, updateTokens and clear end alike: the tab's session is mirrored into
\* local storage, and the browser tells the other tabs.
MutKeep(t, n) ==
    /\ session' = [session EXCEPT ![t] = n]
    /\ UNCHANGED <<stored, notice>>
Keep(t, n) ==
    /\ session' = [session EXCEPT ![t] = n]
    /\ stored' = n
    /\ notice' = notice \cup (Tab \ {t})

\* updateTokens does nothing once the tab has signed out.
UpdateTokens(t, n) ==
    IF session[t] = SignedOut THEN UNCHANGED <<session, stored, notice>> ELSE Keep(t, n)

StorageEvent(t) ==
    /\ t \in notice
    /\ notice' = notice \ {t}
    /\ session' = [session EXCEPT ![t] = stored]
    /\ UNCHANGED <<call, stored, refreshing, server, faults>>

-----------------------------------------------------------------------------
(* The requests of a tab. *)

\* Bounds: the first free place of Call is taken, and a token kept back for
\* every request that will issue one.
Pending == {c \in Call : call[c].op # "logout" /\ call[c].pc \in {"find", "kill", "revoke", "save"}}
Room == Cardinality(Pending) < Cardinality({n \in Token : row[n] = NoRow})

Send(c, op, t, n, pc) ==
    /\ call[c] = Free
    /\ \A d \in Call : d < c => call[d] # Free
    /\ op # "logout" => Room
    /\ call' = [call EXCEPT ![c] = [op |-> op, tab |-> t, token |-> n, pc |-> pc]]

\* The login page of a signed-out tab. The user is found and the password
\* verified before the first token of a new family is saved.
Login(t, c) ==
    /\ session[t] = SignedOut
    /\ \A d \in Call : ~(call[d].op = "login" /\ call[d].tab = t)
    /\ Send(c, "login", t, 0, "save")
    /\ UNCHANGED <<client, server, faults>>

\* A 401, or a socket that needs a fresh token. Only one refresh is in flight
\* in a tab: whoever else asks joins it.
Refresh(t, c) ==
    /\ session[t] # SignedOut
    /\ refreshing[t] = NoCall
    /\ Send(c, "refresh", t, session[t], "find")
    /\ refreshing' = [refreshing EXCEPT ![t] = c]
    /\ UNCHANGED <<session, stored, notice, server, faults>>

\* The session is cleared before the family is revoked at the server.
Logout(t, c) ==
    /\ session[t] # SignedOut
    /\ Send(c, "logout", NoTab, session[t], "find")
    /\ Keep(t, SignedOut)
    /\ UNCHANGED <<refreshing, server, faults>>

-----------------------------------------------------------------------------
(* RefreshSession and RevokeSession. *)

Issued(n) == row[n] # NoRow
Family(c) == row[call[c].token].family
Members(f) == {n \in Token : Issued(n) /\ row[n].family = f}
Live(f) == {n \in Members(f) : ~row[n].revoked}

\* The request has read its token's row and has statements on it to come.
Begun(c) == call[c].op # "login" /\ call[c].pc \in {"kill", "revoke", "save"}
Rotating(f) == \E c \in Call : call[c].op = "refresh" /\ call[c].pc \in {"revoke", "save"} /\ Family(c) = f

At(c, pc) == call' = [call EXCEPT ![c].pc = pc]

\* What becomes of the request once the presented token has been looked up.
MutVerdict(c) ==
    IF call[c].op = "logout" THEN "kill"
    ELSE IF call[c].token \in expired THEN "reject" ELSE "revoke"
Verdict(c) ==
    IF call[c].op = "logout" \/ row[call[c].token].revoked THEN "kill"
    ELSE IF call[c].token \in expired THEN "reject" ELSE "revoke"

Find(c) ==
    /\ call[c].pc = "find"
    /\ At(c, Verdict(c))
    /\ raced' = IF \E d \in Call \ {c} : Begun(d) /\ Family(d) = Family(c)
                THEN raced \cup {Family(c)} ELSE raced
    /\ UNCHANGED <<row, expired, client, ended, faults>>

\* revokeFamily: one statement. A replayed refresh is then refused.
MutRevoked(f, n) == {n}
Revoked(f, n) == Members(f)

Kill(c) ==
    /\ call[c].pc = "kill"
    /\ row' = [n \in Token |-> IF n \in Revoked(Family(c), call[c].token)
                               THEN [row[n] EXCEPT !.revoked = TRUE] ELSE row[n]]
    /\ ended' = ended \cup {Family(c)}
    /\ At(c, IF call[c].op = "logout" THEN "answer" ELSE "reject")
    /\ UNCHANGED <<expired, client, raced, faults>>

\* revoke: the row may have been revoked since it was read; nobody looks.
Revoke(c) ==
    /\ call[c].pc = "revoke"
    /\ row' = [row EXCEPT ![call[c].token].revoked = TRUE]
    /\ At(c, "save")
    /\ UNCHANGED <<expired, client, ended, raced, faults>>

\* issueSession: the next token, in the family of the one presented, or of its own.
Save(c) ==
    /\ call[c].pc = "save"
    /\ \E n \in Token :
          /\ ~Issued(n) /\ \A k \in Token : k < n => Issued(k)
          /\ row' = [row EXCEPT ![n] =
                [family |-> IF call[c].op = "login" THEN n ELSE Family(c), revoked |-> FALSE]]
          /\ call' = [call EXCEPT ![c].pc = "answer", ![c].token = n]
    /\ UNCHANGED <<expired, client, ended, raced, faults>>

Fault == faults < MaxFaults /\ faults' = faults + 1

Expire(n) ==
    /\ n \in Live(row[n].family) \ expired
    /\ Fault
    /\ expired' = expired \cup {n}
    /\ UNCHANGED <<row, call, client, ended, raced>>

-----------------------------------------------------------------------------
(* The answers. *)

\* refreshAccessToken's finally: the next refresh of the tab is a new one.
MutSettle(t, c) ==
    refreshing' = IF refreshing[t] = c /\ call[c].pc = "answer"
                  THEN [refreshing EXCEPT ![t] = NoCall] ELSE refreshing
Settle(t, c) ==
    refreshing' = IF refreshing[t] = c THEN [refreshing EXCEPT ![t] = NoCall] ELSE refreshing

\* The tab takes the new tokens into whatever session it has by now.
Accepted(c) ==
    LET t == call[c].tab IN
    /\ call[c].pc = "answer"
    /\ call' = [call EXCEPT ![c] = Free]
    /\ IF t = NoTab THEN UNCHANGED client
       ELSE /\ Settle(t, c)
            /\ IF call[c].op = "login" THEN Keep(t, call[c].token)
               ELSE UpdateTokens(t, call[c].token)
    /\ UNCHANGED <<server, faults>>

\* A refresh that fails signs the tab out, whatever session it has by now; a
\* login or logout that fails is reported, or ignored.
GiveUp(c) ==
    LET t == call[c].tab IN
    IF call[c].op = "refresh" /\ t # NoTab
    THEN Settle(t, c) /\ Keep(t, SignedOut)
    ELSE UNCHANGED client

Refused(c) ==
    /\ call[c].pc = "reject"
    /\ call' = [call EXCEPT ![c] = Free]
    /\ GiveUp(c)
    /\ UNCHANGED <<server, faults>>

\* A statement fails, or the process dies: the use case ends where it is.
Die(c) ==
    /\ call[c].pc \notin {"free", "answer", "reject"}
    /\ Fault
    /\ call' = [call EXCEPT ![c] = Free]
    /\ GiveUp(c)
    /\ UNCHANGED server

\* The network fails: the tab gives up and the server carries on.
Lose(c) ==
    /\ call[c].tab # NoTab
    /\ Fault
    /\ call' = [call EXCEPT ![c].tab = NoTab]
    /\ GiveUp(c)
    /\ UNCHANGED server

\* A page load starts from local storage and knows of no request.
Reload(t) ==
    /\ Fault
    /\ session' = [session EXCEPT ![t] = stored]
    /\ notice' = notice \ {t}
    /\ refreshing' = [refreshing EXCEPT ![t] = NoCall]
    /\ call' = [c \in Call |-> IF call[c].tab = t THEN [call[c] EXCEPT !.tab = NoTab] ELSE call[c]]
    /\ UNCHANGED <<stored, server>>

-----------------------------------------------------------------------------
Serve(c) == Find(c) \/ Kill(c) \/ Revoke(c) \/ Save(c) \/ Accepted(c) \/ Refused(c)

Next ==
    \/ \E c \in Call : Serve(c) \/ Die(c) \/ Lose(c)
    \/ \E t \in Tab, c \in Call : Login(t, c) \/ Refresh(t, c) \/ Logout(t, c)
    \/ \E t \in Tab : StorageEvent(t) \/ Reload(t)
    \/ \E n \in Token : Expire(n)

Spec == Init /\ [][Next]_vars

\* Every request is answered, or fails, and so does every query of the
\* service; the browser delivers its storage events.
FairSpec ==
    /\ Spec
    /\ \A c \in Call : WF_vars(Serve(c))
    /\ \A t \in Tab : WF_vars(StorageEvent(t))

-----------------------------------------------------------------------------
(* AC-T1, AC-T4, AC-O1, of requests that do not overlap: however a family is *)
(* used, at most one of its tokens is good, and none after a logout or the   *)
(* detection of a replay (the unprotected find, check, revoke and save).     *)
SerialFamilies ==
    \A f \in Token \ raced :
        /\ Cardinality(Live(f)) <= 1
        /\ f \in ended => Live(f) = {}

(* A family without a good token and with no rotation past its check never   *)
(* has either again: a revocation is undone only by a successor that was on   *)
(* its way (isRevoked in RefreshSession).                                     *)
Extinct(f) == Issued(f) /\ Live(f) = {} /\ ~Rotating(f)
ExtinctForGood == [][\A f \in Token : Extinct(f) => Extinct(f)']_vars

(* token-store.ts: a login, logout or rotation in one tab reaches the others: *)
(* once no storage event is on its way, every tab has the stored session.     *)
TabsAgree == \A t \in Tab \ notice : session[t] = stored

(* refresh.ts: a refresh others may join always ends, however it ends; else   *)
(* every later request of the tab would wait for it.                          *)
RefreshSettles ==
    \A t \in Tab : refreshing[t] # NoCall ~> refreshing[t] = NoCall
=============================================================================
