-------------------------- MODULE Sessions_proofs ---------------------------
(***************************************************************************)
(* Proofs about Sessions, for any set of tokens, tabs and requests and any  *)
(* number of faults.                                                        *)
(***************************************************************************)
EXTENDS Sessions, FiniteSetTheorems, TLAPS

\* A request that presents or answers with a token has an issued one.
Carries(r) == r.op \in {"refresh", "logout"} \/ r.pc = "answer"
Shape(r) ==
    /\ r.op = "login" => r.pc \in {"save", "answer"}
    /\ r.op = "logout" => r.pc \in {"find", "kill", "answer"}
    /\ Carries(r) => r.token \in Token /\ Issued(r.token)

Shapes == \A c \in Call : Shape(call[c])

\* Families are named by issued tokens, tabs hold issued tokens, and what is
\* revoked as a whole was issued.
Families == \A n \in Token : Issued(n) => row[n].family \in Token /\ Issued(row[n].family)
Good(n) == n = SignedOut \/ (n \in Token /\ Issued(n))
Held == Good(stored) /\ \A t \in Tab : Good(session[t])
Ends == \A f \in ended : Issued(f)

Basic == TypeOK /\ Shapes /\ Families /\ Held /\ Ends /\ TabsAgree

\* The type invariant in parts: a step touches one or two of them.
TableOK ==
    /\ row \in [Token -> TokenRow \cup {NoRow}] /\ expired \subseteq Token
    /\ ended \subseteq Token /\ raced \subseteq Token /\ faults \in 0..MaxFaults
ClientOK ==
    /\ session \in [Tab -> Token \cup {SignedOut}] /\ stored \in Token \cup {SignedOut}
    /\ notice \subseteq Tab
CallsOK ==
    /\ call \in [Call -> Request \cup {Free}]
    /\ refreshing \in [Tab -> Call \cup {NoCall}]
    /\ \A t \in Tab : refreshing[t] \in Call =>
          call[refreshing[t]].op = "refresh" /\ call[refreshing[t]].tab = t

-----------------------------------------------------------------------------
LEMMA Numbers == SignedOut \notin Token /\ NoCall \notin Call /\ NoTab \notin Tab
  BY TokenAssumption, CallAssumption, NoTabAssumption DEF SignedOut, NoCall

LEMMA Parts == TypeOK <=> TableOK /\ ClientOK /\ CallsOK
  BY DEF TypeOK, TableOK, ClientOK, CallsOK

LEMMA PartsNext ==
    TableOK' /\ ClientOK' /\ CallsOK' /\ Shapes' /\ Families' /\ Held' /\ Ends' /\ TabsAgree'
        => Basic'
  BY DEF Basic, TypeOK, TableOK, ClientOK, CallsOK

LEMMA InitBasic == Init => Basic
  BY Numbers, SessionFaultsAssumption
  DEF Init, Basic, TypeOK, Shapes, Shape, Carries, Families, Held, Good, Ends, TabsAgree, Free,
      NoRow, Issued

\* A row that is issued is a row of the table.
LEMMA IssuedRows ==
    ASSUME TableOK, NEW n \in Token
    PROVE  /\ Issued(n) => row[n] \in TokenRow
           /\ row[n] = NoRow => row[n].revoked
  BY DEF TableOK, Issued, NoRow

\* A request in flight is no free place.
LEMMA Busy ==
    ASSUME CallsOK, NEW c \in Call
    PROVE  /\ call[c].pc # "free" <=> call[c] # Free
           /\ call[c] # Free => call[c] \in Request
           /\ Free \notin Request /\ Shape(Free)
  BY DEF CallsOK, Request, Free, Shape, Carries

\* What a step does to the table at most: rows are added, keep their family, and
\* what is revoked stays so.
Grows ==
    \A n \in Token : Issued(n) =>
        /\ Issued(n)' /\ row'[n].family = row[n].family
        /\ row[n].revoked => row'[n].revoked

\* A step that changes one request, and adds to the table at most.
LEMMA OneCall ==
    ASSUME Basic, Grows, NEW c \in Call, NEW r \in Request \cup {Free},
           call' = [call EXCEPT ![c] = r], Shape(r)'
    PROVE  /\ call' \in [Call -> Request \cup {Free}]
           /\ call'[c] = r /\ \A d \in Call : d # c => call'[d] = call[d]
           /\ Shapes'
<1>1. /\ call' \in [Call -> Request \cup {Free}]
      /\ call'[c] = r /\ \A d \in Call : d # c => call'[d] = call[d]
  BY DEF Basic, TypeOK
<1>2. ASSUME NEW d \in Call, d # c PROVE Shape(call[d])'
  BY <1>1, <1>2 DEF Basic, Shapes, Shape, Carries, Grows
<1> QED BY <1>1, <1>2 DEF Shapes

\* A step of the service: the request keeps its tab and its operation, nobody
\* else moves.
LEMMA ServerCalls ==
    ASSUME Basic, Grows, NEW c \in Call, NEW r \in Request,
           call' = [call EXCEPT ![c] = r], Shape(r)', call[c] # Free,
           r.op = call[c].op, r.tab = call[c].tab, UNCHANGED refreshing
    PROVE  CallsOK' /\ Shapes'
<1>1. /\ call' \in [Call -> Request \cup {Free}]
      /\ call'[c] = r /\ \A d \in Call : d # c => call'[d] = call[d]
      /\ Shapes'
  BY OneCall
<1>2. CallsOK' BY <1>1 DEF Basic, TypeOK, CallsOK
<1> QED BY <1>1, <1>2

\* A step that leaves the tabs alone leaves them with issued tokens.
LEMMA QuietClient ==
    ASSUME Basic, Grows, UNCHANGED <<session, stored, notice>>
    PROVE  ClientOK' /\ Held' /\ TabsAgree'
  BY DEF Basic, TypeOK, ClientOK, Held, Good, TabsAgree, Grows

\* A step that leaves the table alone.
LEMMA QuietTable ==
    ASSUME Basic, UNCHANGED <<row, ended, expired, raced>>, faults' \in 0..MaxFaults
    PROVE  Grows /\ TableOK' /\ Families' /\ Ends'
  BY DEF Basic, TypeOK, TableOK, Families, Ends, Grows, Issued

LEMMA FaultCounted == ASSUME TypeOK, Fault PROVE faults' \in 0..MaxFaults
  BY SessionFaultsAssumption DEF TypeOK, Fault

\* A tab that writes its session: the others will hear of it.
LEMMA KeepAgrees ==
    ASSUME Basic, Grows, NEW t \in Tab, NEW n, Good(n)', Keep(t, n)
    PROVE  ClientOK' /\ Held' /\ TabsAgree'
  BY Numbers DEF Basic, TypeOK, ClientOK, Held, Good, TabsAgree, Grows, Keep, SignedOut

LEMMA UpdateAgrees ==
    ASSUME Basic, Grows, NEW t \in Tab, NEW n, Good(n)', UpdateTokens(t, n)
    PROVE  ClientOK' /\ Held' /\ TabsAgree'
  BY KeepAgrees, QuietClient DEF UpdateTokens

\* A request that ends, or loses its tab, is not one its tab would join.
LEMMA Forgotten ==
    ASSUME Basic, Grows, NEW c \in Call, NEW r \in Request \cup {Free},
           call' = [call EXCEPT ![c] = r], Shape(r)',
           \/ (call[c].tab = NoTab /\ UNCHANGED refreshing)
           \/ (call[c].op # "refresh" /\ UNCHANGED refreshing)
           \/ (call[c].tab \in Tab /\ Settle(call[c].tab, c))
    PROVE  CallsOK' /\ Shapes'
<1>1. /\ call' \in [Call -> Request \cup {Free}]
      /\ call'[c] = r /\ \A d \in Call : d # c => call'[d] = call[d]
      /\ Shapes'
  BY OneCall
<1>2. /\ refreshing' \in [Tab -> Call \cup {NoCall}]
      /\ \A t \in Tab : refreshing'[t] \in Call => refreshing'[t] = refreshing[t] /\ refreshing[t] # c
  BY Numbers DEF Basic, TypeOK, Settle
<1>3. CallsOK' BY <1>1, <1>2 DEF Basic, TypeOK, CallsOK
<1> QED BY <1>1, <1>3

-----------------------------------------------------------------------------
LEMMA FindBasic ==
    ASSUME Basic, NEW c \in Call, Find(c)
    PROVE  Basic' /\ Grows /\ Verdict(c) \in {"kill", "revoke", "reject"}
<1>1. /\ TableOK /\ CallsOK /\ call[c] \in Request /\ Shape(call[c]) /\ call[c].op # "login"
      /\ call[c].token \in Token /\ Issued(call[c].token) /\ Family(c) \in Token
  BY Parts, Busy, IssuedRows DEF Basic, Find, Shapes, Shape, Carries, Family, Families, Request
<1>2. /\ Verdict(c) \in {"kill", "revoke", "reject"}
      /\ Verdict(c) # "kill" => call[c].op # "logout"
  BY <1>1 DEF Verdict
<1>3. Grows /\ TableOK' /\ Families' /\ Ends'
  BY <1>1 DEF Find, Basic, TypeOK, TableOK, Families, Ends, Grows, Issued
<1>4. PICK r \in Request : r = [call[c] EXCEPT !.pc = Verdict(c)]
  BY <1>1, <1>2 DEF Request
<1>5. /\ r.op = call[c].op /\ r.tab = call[c].tab /\ r.token = call[c].token /\ r.pc = Verdict(c)
      /\ call' = [call EXCEPT ![c] = r] /\ call[c] # Free
  BY <1>1, <1>4, Busy DEF Find, At, Request
<1>6. Shape(r)'
  BY <1>1, <1>2, <1>3, <1>5 DEF Shape, Carries, Grows
<1>7. CallsOK' /\ Shapes'
  BY <1>3, <1>5, <1>6, ServerCalls DEF Find, client
<1>8. ClientOK' /\ Held' /\ TabsAgree'
  BY <1>3, QuietClient DEF Find, client
<1> QED BY <1>2, <1>3, <1>7, <1>8, PartsNext

LEMMA KillBasic ==
    ASSUME Basic, NEW c \in Call, Kill(c)
    PROVE  Basic' /\ Grows
<1>1. /\ TableOK /\ CallsOK /\ call[c] \in Request /\ Shape(call[c]) /\ call[c].op # "login"
      /\ call[c].token \in Token /\ Issued(call[c].token)
      /\ Family(c) \in Token /\ Issued(Family(c))
  BY Parts, Busy, IssuedRows DEF Basic, Kill, Shapes, Shape, Carries, Family, Families, Request
<1>2. \A n \in Token :
         /\ row'[n] = row[n] \/ (Issued(n) /\ row'[n] = [row[n] EXCEPT !.revoked = TRUE])
         /\ Issued(n) => row[n] \in TokenRow
  BY <1>1, IssuedRows DEF Kill, Revoked, Members
<1>3. /\ row' \in [Token -> TokenRow \cup {NoRow}]
      /\ \A n \in Token : Issued(n)' <=> Issued(n)
      /\ \A n \in Token : row'[n].family = row[n].family
      /\ Grows
  <2>1. \A n \in Token : Issued(n) => /\ row'[n] \in TokenRow /\ row'[n] # NoRow
                                      /\ row'[n].family = row[n].family
                                      /\ row[n].revoked => row'[n].revoked
    <3> TAKE n \in Token
    <3> HAVE Issued(n)
    <3>1. row[n] \in TokenRow /\ row[n] # NoRow
      BY <1>2 DEF Issued
    <3>2. CASE row'[n] = row[n]
      BY <3>1, <3>2
    <3>3. CASE row'[n] = [row[n] EXCEPT !.revoked = TRUE]
      <4>1. row'[n].family = row[n].family /\ row'[n].revoked = TRUE
        BY <3>1, <3>3 DEF TokenRow
      <4>2. row'[n] \in TokenRow
        BY <3>1, <3>3 DEF TokenRow
      <4> QED BY <3>1, <4>1, <4>2, Numbers DEF TokenRow, NoRow, SignedOut
    <3> QED BY <1>2, <3>2, <3>3
  <2>2. \A n \in Token : ~Issued(n) => row'[n] = row[n]
    BY <1>2
  <2>3. DOMAIN row' = Token /\ row' = [n \in Token |-> row'[n]]
    BY DEF Kill
  <2> QED BY <2>1, <2>2, <2>3, <1>1 DEF Issued, Grows, TableOK
<1>4. TableOK' /\ Families' /\ Ends'
  BY <1>1, <1>3 DEF Kill, Basic, TypeOK, TableOK, Families, Ends
<1>5. PICK r \in Request : r = [call[c] EXCEPT !.pc = IF call[c].op = "logout" THEN "answer" ELSE "reject"]
  BY <1>1 DEF Request
<1>6. /\ r.op = call[c].op /\ r.tab = call[c].tab /\ r.token = call[c].token
      /\ r.pc = IF call[c].op = "logout" THEN "answer" ELSE "reject"
      /\ call' = [call EXCEPT ![c] = r] /\ call[c] # Free
  BY <1>1, <1>5, Busy DEF Kill, At, Request
<1>7. Shape(r)'
  BY <1>1, <1>3, <1>6 DEF Shape, Carries
<1>8. CallsOK' /\ Shapes'
  BY <1>3, <1>6, <1>7, ServerCalls DEF Kill, client
<1>9. ClientOK' /\ Held' /\ TabsAgree'
  BY <1>3, QuietClient DEF Kill, client
<1> QED BY <1>3, <1>4, <1>8, <1>9, PartsNext

LEMMA RevokeBasic ==
    ASSUME Basic, NEW c \in Call, Revoke(c)
    PROVE  Basic' /\ Grows
<1>1. /\ TableOK /\ CallsOK /\ call[c] \in Request /\ Shape(call[c]) /\ call[c].op = "refresh"
      /\ call[c].token \in Token /\ Issued(call[c].token) /\ row[call[c].token] \in TokenRow
  BY Parts, Busy, IssuedRows DEF Basic, Revoke, Shapes, Shape, Carries, Request
<1>2. /\ row' \in [Token -> TokenRow \cup {NoRow}]
      /\ \A n \in Token : n # call[c].token => row'[n] = row[n]
      /\ row'[call[c].token] = [family |-> row[call[c].token].family, revoked |-> TRUE]
  BY <1>1 DEF Revoke, TableOK, TokenRow
<1>3. /\ \A n \in Token : Issued(n)' <=> Issued(n)
      /\ \A n \in Token : row'[n].family = row[n].family
      /\ Grows
  <2>1. row'[call[c].token] # NoRow /\ row'[call[c].token].family = row[call[c].token].family
        /\ row'[call[c].token].revoked
    BY <1>1, <1>2, Numbers DEF TokenRow, NoRow, SignedOut
  <2> QED BY <1>1, <1>2, <2>1 DEF Issued, Grows
<1>4. TableOK' /\ Families' /\ Ends'
  BY <1>1, <1>2, <1>3 DEF Revoke, Basic, TypeOK, TableOK, Families, Ends
<1>5. PICK r \in Request : r = [call[c] EXCEPT !.pc = "save"]
  BY <1>1 DEF Request
<1>6. /\ r.op = call[c].op /\ r.tab = call[c].tab /\ r.token = call[c].token /\ r.pc = "save"
      /\ call' = [call EXCEPT ![c] = r] /\ call[c] # Free
  BY <1>1, <1>5, Busy DEF Revoke, At, Request
<1>7. Shape(r)'
  BY <1>1, <1>3, <1>6 DEF Shape, Carries
<1>8. CallsOK' /\ Shapes'
  BY <1>3, <1>6, <1>7, ServerCalls DEF Revoke, client
<1>9. ClientOK' /\ Held' /\ TabsAgree'
  BY <1>3, QuietClient DEF Revoke, client
<1> QED BY <1>3, <1>4, <1>8, <1>9, PartsNext

\* The next token, and the family it is of: one in use, or its own.
Issues(c, n, f) ==
    /\ n \in Token /\ ~Issued(n)
    /\ row' = [row EXCEPT ![n] = [family |-> f, revoked |-> FALSE]]
    /\ \/ call[c].op = "login" /\ f = n
       \/ call[c].op = "refresh" /\ call[c].pc = "save" /\ f = Family(c) /\ f \in Token /\ Issued(f)

LEMMA SaveBasic ==
    ASSUME Basic, NEW c \in Call, Save(c)
    PROVE  Basic' /\ Grows /\ \E n, f \in Token : Issues(c, n, f)
<1>1. /\ TableOK /\ CallsOK /\ call[c] \in Request /\ Shape(call[c])
      /\ call[c].op \in {"login", "refresh"}
      /\ call[c].op = "refresh" => /\ call[c].token \in Token /\ Issued(call[c].token)
                                   /\ Family(c) \in Token /\ Issued(Family(c))
  BY Parts, Busy, IssuedRows DEF Basic, Save, Shapes, Shape, Carries, Family, Families, Request
<1>2. PICK n \in Token :
         /\ ~Issued(n)
         /\ row' = [row EXCEPT ![n] =
               [family |-> IF call[c].op = "login" THEN n ELSE Family(c), revoked |-> FALSE]]
         /\ call' = [call EXCEPT ![c].pc = "answer", ![c].token = n]
  BY DEF Save
<1>3. PICK f \in Token : f = IF call[c].op = "login" THEN n ELSE Family(c)
  BY <1>1
<1>4. Issues(c, n, f)
  BY <1>1, <1>2, <1>3 DEF Issues, Save
<1>5. /\ row' \in [Token -> TokenRow \cup {NoRow}]
      /\ \A k \in Token : k # n => row'[k] = row[k]
      /\ row'[n] = [family |-> f, revoked |-> FALSE] /\ row'[n] # NoRow
  BY <1>1, <1>2, <1>3, Numbers DEF TableOK, TokenRow, NoRow, SignedOut
<1>6. /\ \A k \in Token : Issued(k)' <=> (k = n \/ Issued(k))
      /\ Grows
  BY <1>2, <1>5 DEF Issued, Grows
<1>7. TableOK' /\ Families' /\ Ends'
  BY <1>1, <1>3, <1>5, <1>6 DEF Save, Basic, TypeOK, TableOK, Families, Ends
<1>8. PICK r \in Request : r = [call[c] EXCEPT !.pc = "answer", !.token = n]
  BY <1>1 DEF Request
<1>9. /\ r.op = call[c].op /\ r.tab = call[c].tab /\ r.token = n /\ r.pc = "answer"
      /\ call' = [call EXCEPT ![c] = r] /\ call[c] # Free
  <2>1. call' = [call EXCEPT ![c] = [@ EXCEPT !.pc = "answer", !.token = n]]
    BY <1>2, Zenon
  <2>2. r.op = call[c].op /\ r.tab = call[c].tab /\ r.token = n /\ r.pc = "answer"
    BY <1>1, <1>8 DEF Request
  <2> QED BY <1>1, <1>8, <2>1, <2>2, Busy
<1>10. Shape(r)'
  BY <1>1, <1>6, <1>9 DEF Shape, Carries
<1>11. CallsOK' /\ Shapes'
  BY <1>6, <1>9, <1>10, ServerCalls DEF Save, client
<1>12. ClientOK' /\ Held' /\ TabsAgree'
  BY <1>6, QuietClient DEF Save, client
<1> QED BY <1>4, <1>6, <1>7, <1>11, <1>12, PartsNext

LEMMA ExpireBasic ==
    ASSUME Basic, NEW n \in Token, Expire(n)
    PROVE  Basic'
<1>1. Grows /\ Families' /\ Ends' /\ TableOK'
  BY FaultCounted, Parts DEF Expire, Basic, TypeOK, TableOK, Families, Ends, Grows, Issued
<1>2. CallsOK' /\ Shapes'
  BY DEF Expire, client, Basic, TypeOK, CallsOK, Shapes, Shape, Carries, Issued
<1>3. ClientOK' /\ Held' /\ TabsAgree'
  BY <1>1, QuietClient DEF Expire, client
<1> QED BY <1>1, <1>2, <1>3, PartsNext

-----------------------------------------------------------------------------
\* The steps of the browser and the answers leave the table as it is.
LEMMA QuietServer ==
    ASSUME Basic, UNCHANGED server, faults' \in 0..MaxFaults
    PROVE  Grows /\ TableOK' /\ Families' /\ Ends'
  BY QuietTable DEF server

LEMMA LoginBasic ==
    ASSUME Basic, NEW t \in Tab, NEW c \in Call, Login(t, c)
    PROVE  Basic'
<1>1. Grows /\ TableOK' /\ Families' /\ Ends'
  BY QuietServer DEF Login, Basic, TypeOK
<1>2. PICK r \in Request : r = [op |-> "login", tab |-> t, token |-> 0, pc |-> "save"]
  BY DEF Request
<1>3. Shape(r)' /\ call[c] = Free /\ call' = [call EXCEPT ![c] = r] /\ UNCHANGED refreshing
  BY <1>2 DEF Login, Send, client, Shape, Carries
<1>4. CallsOK' /\ Shapes'
  <2>1. call[c].op # "refresh" BY <1>3 DEF Free
  <2> QED BY <1>1, <1>3, <2>1, Forgotten
<1>5. ClientOK' /\ Held' /\ TabsAgree'
  BY <1>1, QuietClient DEF Login, client
<1> QED BY <1>1, <1>4, <1>5, PartsNext

LEMMA RefreshBasic ==
    ASSUME Basic, NEW t \in Tab, NEW c \in Call, Refresh(t, c)
    PROVE  Basic'
<1>1. Grows /\ TableOK' /\ Families' /\ Ends'
  BY QuietServer DEF Refresh, Basic, TypeOK
<1>2. session[t] \in Token /\ Issued(session[t])
  BY DEF Refresh, Basic, Held, Good
<1>3. PICK r \in Request : r = [op |-> "refresh", tab |-> t, token |-> session[t], pc |-> "find"]
  BY <1>2 DEF Request
<1>4. Shape(r)'
  BY <1>1, <1>2, <1>3 DEF Shape, Carries, Grows
<1>5. call[c] = Free /\ call' = [call EXCEPT ![c] = r]
  BY <1>3 DEF Refresh, Send
<1>6. /\ call' \in [Call -> Request \cup {Free}]
      /\ call'[c] = r /\ \A d \in Call : d # c => call'[d] = call[d]
      /\ Shapes'
  BY <1>1, <1>4, <1>5, OneCall
<1>7. /\ refreshing' \in [Tab -> Call \cup {NoCall}] /\ refreshing'[t] = c
      /\ \A u \in Tab : u # t => refreshing'[u] = refreshing[u]
  BY DEF Refresh, Basic, TypeOK
<1>8. \A u \in Tab : refreshing[u] # c
  BY <1>5 DEF Basic, TypeOK, Free
<1>9. CallsOK'
  BY <1>3, <1>6, <1>7, <1>8 DEF CallsOK, Basic, TypeOK
<1>10. ClientOK' /\ Held' /\ TabsAgree'
  BY <1>1, QuietClient DEF Refresh
<1> QED BY <1>1, <1>6, <1>9, <1>10, PartsNext

LEMMA LogoutBasic ==
    ASSUME Basic, NEW t \in Tab, NEW c \in Call, Logout(t, c)
    PROVE  Basic'
<1>1. Grows /\ TableOK' /\ Families' /\ Ends'
  BY QuietServer DEF Logout, Basic, TypeOK
<1>2. session[t] \in Token /\ Issued(session[t])
  BY DEF Logout, Basic, Held, Good
<1>3. PICK r \in Request : r = [op |-> "logout", tab |-> NoTab, token |-> session[t], pc |-> "find"]
  BY <1>2 DEF Request
<1>4. Shape(r)'
  BY <1>1, <1>2, <1>3 DEF Shape, Carries, Grows
<1>5. call[c] = Free /\ call' = [call EXCEPT ![c] = r] /\ UNCHANGED refreshing
  BY <1>3 DEF Logout, Send
<1>6. CallsOK' /\ Shapes'
  <2>1. call[c].op # "refresh" BY <1>5 DEF Free
  <2> QED BY <1>1, <1>4, <1>5, <2>1, Forgotten
<1>7. ClientOK' /\ Held' /\ TabsAgree'
  BY <1>1, KeepAgrees DEF Logout, Good
<1> QED BY <1>1, <1>6, <1>7, PartsNext

LEMMA StorageEventBasic ==
    ASSUME Basic, NEW t \in Tab, StorageEvent(t)
    PROVE  Basic'
<1>1. Grows /\ TableOK' /\ Families' /\ Ends'
  BY QuietServer DEF StorageEvent, Basic, TypeOK
<1>2. CallsOK' /\ Shapes'
  BY DEF StorageEvent, server, Basic, TypeOK, CallsOK, Shapes, Shape, Carries, Issued
<1>3. ClientOK' /\ Held' /\ TabsAgree'
  BY <1>1 DEF StorageEvent, Basic, TypeOK, ClientOK, Held, Good, TabsAgree, Grows
<1> QED BY <1>1, <1>2, <1>3, PartsNext

LEMMA ReloadBasic ==
    ASSUME Basic, NEW t \in Tab, Reload(t)
    PROVE  Basic'
<1>1. Grows /\ TableOK' /\ Families' /\ Ends'
  BY QuietServer, FaultCounted DEF Reload, Basic
<1>2. \A d \in Call : /\ call'[d] = call[d] \/ call'[d] = [call[d] EXCEPT !.tab = NoTab]
                      /\ call[d].tab # t => call'[d] = call[d]
                      /\ call[d] = Free => call'[d] = Free
  BY Numbers DEF Reload, Free
<1>3. \A d \in Call : /\ call'[d] \in Request \cup {Free}
                      /\ call'[d].op = call[d].op /\ call'[d].pc = call[d].pc
                      /\ call'[d].token = call[d].token
  <2> TAKE d \in Call
  <2>1. CASE call[d] = Free BY <1>2, <2>1 DEF Free
  <2>2. CASE call[d] \in Request BY <1>2, <2>2 DEF Request
  <2> QED BY <2>1, <2>2 DEF Basic, TypeOK
<1>4. call' \in [Call -> Request \cup {Free}]
  BY <1>3 DEF Reload
<1>5. \A u \in Tab : refreshing'[u] \in Call => u # t /\ refreshing'[u] = refreshing[u]
  BY Numbers DEF Reload, Basic, TypeOK
<1>6. CallsOK'
  <2>1. refreshing' \in [Tab -> Call \cup {NoCall}]
    BY DEF Reload, Basic, TypeOK
  <2>2. ASSUME NEW u \in Tab, refreshing'[u] \in Call
        PROVE  call'[refreshing'[u]].op = "refresh" /\ call'[refreshing'[u]].tab = u
    <3>1. /\ refreshing'[u] = refreshing[u] /\ refreshing[u] \in Call /\ u # t
          /\ call[refreshing[u]].op = "refresh" /\ call[refreshing[u]].tab = u
      BY <1>5, <2>2 DEF Basic, TypeOK
    <3> QED BY <1>2, <3>1
  <2> QED BY <1>4, <2>1, <2>2 DEF CallsOK
<1>7. Shapes'
  BY <1>1, <1>3 DEF Basic, Shapes, Shape, Carries, Grows
<1>8. ClientOK' /\ Held' /\ TabsAgree'
  BY <1>1 DEF Reload, Basic, TypeOK, ClientOK, Held, Good, TabsAgree, Grows
<1> QED BY <1>1, <1>6, <1>7, <1>8, PartsNext

LEMMA AcceptedBasic ==
    ASSUME Basic, NEW c \in Call, Accepted(c)
    PROVE  Basic'
<1>1. Grows /\ TableOK' /\ Families' /\ Ends'
  BY QuietServer DEF Accepted, Basic, TypeOK
<1>2. /\ CallsOK /\ call[c] \in Request /\ call[c].token \in Token /\ Issued(call[c].token)
      /\ call[c].tab \in Tab \cup {NoTab}
  BY Parts, Busy DEF Basic, Accepted, Shapes, Shape, Carries, Request
<1>3. call' = [call EXCEPT ![c] = Free] /\ Shape(Free)'
  BY DEF Accepted, Shape, Carries, Free
<1>4. CASE call[c].tab = NoTab
  <2>1. CallsOK' /\ Shapes'
    BY <1>1, <1>3, <1>4, Forgotten DEF Accepted, client
  <2>2. ClientOK' /\ Held' /\ TabsAgree'
    BY <1>1, <1>4, QuietClient DEF Accepted, client
  <2> QED BY <1>1, <2>1, <2>2, PartsNext
<1>5. CASE call[c].tab \in Tab
  <2>0. Settle(call[c].tab, c)
    BY <1>5, Numbers DEF Accepted
  <2>1. CallsOK' /\ Shapes'
    BY <1>1, <1>3, <1>5, <2>0, Forgotten
  <2>2. PICK t \in Tab, n \in Token : t = call[c].tab /\ n = call[c].token /\ Good(n)'
    BY <1>1, <1>2, <1>5 DEF Good, Grows
  <2>3. Keep(t, n) \/ UpdateTokens(t, n)
    BY <1>5, <2>2, Numbers DEF Accepted
  <2>4. ClientOK' /\ Held' /\ TabsAgree'
    BY <1>1, <2>2, <2>3, KeepAgrees, UpdateAgrees
  <2> QED BY <1>1, <2>1, <2>4, PartsNext
<1> QED BY <1>2, <1>4, <1>5

\* What a tab that gives up on a request keeps true.
LEMMA GiveUpBasic ==
    ASSUME Basic, Grows, TableOK', Families', Ends', NEW c \in Call, NEW r \in Request \cup {Free},
           call[c] # Free, call' = [call EXCEPT ![c] = r], Shape(r)', GiveUp(c)
    PROVE  Basic'
<1>1. call[c].tab \in Tab \cup {NoTab}
  BY Busy, Parts DEF Basic, Request
<1>2. CASE call[c].op = "refresh" /\ call[c].tab # NoTab
  <2>1. CallsOK' /\ Shapes'
    BY <1>1, <1>2, Forgotten DEF GiveUp
  <2>2. PICK t \in Tab : t = call[c].tab
    BY <1>1, <1>2
  <2>3. Good(SignedOut)'
    BY DEF Good
  <2>4. ClientOK' /\ Held' /\ TabsAgree'
    BY <1>2, <2>2, <2>3, KeepAgrees DEF GiveUp
  <2> QED BY <2>1, <2>4, PartsNext
<1>3. CASE ~(call[c].op = "refresh" /\ call[c].tab # NoTab)
  <2>1. CallsOK' /\ Shapes'
    BY <1>1, <1>3, Forgotten DEF GiveUp, client
  <2>2. ClientOK' /\ Held' /\ TabsAgree'
    BY <1>3, QuietClient DEF GiveUp, client
  <2> QED BY <2>1, <2>2, PartsNext
<1> QED BY <1>2, <1>3

LEMMA RefusedBasic == ASSUME Basic, NEW c \in Call, Refused(c) PROVE Basic'
<1>1. Grows /\ TableOK' /\ Families' /\ Ends'
  BY QuietServer DEF Refused, Basic, TypeOK
<1>2. call[c] # Free /\ call' = [call EXCEPT ![c] = Free] /\ Shape(Free)'
  BY DEF Refused, Shape, Carries, Free
<1> QED BY <1>1, <1>2, GiveUpBasic DEF Refused

LEMMA DieBasic == ASSUME Basic, NEW c \in Call, Die(c) PROVE Basic'
<1>1. Grows /\ TableOK' /\ Families' /\ Ends'
  BY QuietServer, FaultCounted DEF Die, Basic
<1>2. call[c] # Free /\ call' = [call EXCEPT ![c] = Free] /\ Shape(Free)'
  BY DEF Die, Shape, Carries, Free
<1> QED BY <1>1, <1>2, GiveUpBasic DEF Die

LEMMA LoseBasic == ASSUME Basic, NEW c \in Call, Lose(c) PROVE Basic'
<1>1. Grows /\ TableOK' /\ Families' /\ Ends'
  BY QuietServer, FaultCounted DEF Lose, Basic
<1>2. call[c] # Free /\ call[c] \in Request
  BY Busy, Parts DEF Lose, Free, Basic
<1>3. PICK r \in Request : r = [call[c] EXCEPT !.tab = NoTab]
  BY <1>2 DEF Request
<1>4. r.op = call[c].op /\ r.pc = call[c].pc /\ r.token = call[c].token
  BY <1>2, <1>3 DEF Request
<1>5. call' = [call EXCEPT ![c] = r] /\ Shape(r)'
  BY <1>1, <1>3, <1>4 DEF Lose, Basic, Shapes, Shape, Carries, Grows
<1> QED BY <1>1, <1>2, <1>5, GiveUpBasic DEF Lose

-----------------------------------------------------------------------------
LEMMA StutterBasic == ASSUME Basic, UNCHANGED vars PROVE Basic'
  BY DEF Basic, TypeOK, Shapes, Shape, Carries, Families, Held, Good, Ends, TabsAgree, Issued,
         vars, server, client

LEMMA NextBasic == Basic /\ [Next]_vars => Basic'
<1> SUFFICES ASSUME Basic, [Next]_vars PROVE Basic'
  OBVIOUS
<1>1. ASSUME NEW c \in Call, Serve(c) \/ Die(c) \/ Lose(c) PROVE Basic'
  BY <1>1, FindBasic, KillBasic, RevokeBasic, SaveBasic, AcceptedBasic, RefusedBasic, DieBasic,
     LoseBasic DEF Serve
<1>2. ASSUME NEW t \in Tab, NEW c \in Call, Login(t, c) \/ Refresh(t, c) \/ Logout(t, c)
      PROVE  Basic'
  BY <1>2, LoginBasic, RefreshBasic, LogoutBasic
<1>3. ASSUME NEW t \in Tab, StorageEvent(t) \/ Reload(t) PROVE Basic'
  BY <1>3, StorageEventBasic, ReloadBasic
<1>4. ASSUME NEW n \in Token, Expire(n) PROVE Basic'
  BY <1>4, ExpireBasic
<1>5. CASE UNCHANGED vars
  BY <1>5, StutterBasic
<1> QED BY <1>1, <1>2, <1>3, <1>4, <1>5 DEF Next

\* The types hold of every behaviour, with what each step of a request knows of
\* the token it presents (RefreshSession, issueSession).
THEOREM BasicHolds == Spec => []Basic
<1>1. Init => Basic BY InitBasic
<1>2. Basic /\ [Next]_vars => Basic' BY NextBasic
<1> QED BY <1>1, <1>2, PTL DEF Spec

\* Every variable keeps its type, and a refresh that a tab would join is that tab's.
THEOREM TypeCorrect == Spec => []TypeOK
<1>1. Basic => TypeOK BY DEF Basic
<1> QED BY <1>1, BasicHolds, PTL

\* A login, logout or rotation in one tab reaches the others: the store writes
\* local storage whenever it changes (token-store.ts).
THEOREM TabsAgreeHolds == Spec => []TabsAgree
<1>1. Basic => TabsAgree BY DEF Basic
<1> QED BY <1>1, BasicHolds, PTL

-----------------------------------------------------------------------------
(* Which requests have statements to come, and what the others leave alone. *)

Using(r) == r.op # "login" /\ r.pc \in {"kill", "revoke", "save"}
Same(r, q) == q.op = r.op /\ q.pc = r.pc /\ q.token = r.token

\* A step that leaves the table and the requests under way as they are.
Idles ==
    /\ UNCHANGED <<row, ended, raced>>
    /\ \A d \in Call : Using(call'[d]) => Same(call[d], call'[d])

LEMMA IdleCall ==
    ASSUME CallsOK, NEW c \in Call, NEW r, call' = [call EXCEPT ![c] = r],
           ~Using(r) \/ Same(call[c], r), UNCHANGED <<row, ended, raced>>
    PROVE  Idles
<1>1. call'[c] = r /\ \A d \in Call : d # c => call'[d] = call[d]
  BY DEF CallsOK
<1> QED BY <1>1 DEF Idles, Same

LEMMA IdleServe ==
    ASSUME Basic, NEW c \in Call, Accepted(c) \/ Refused(c) \/ Die(c) \/ Lose(c)
    PROVE  Idles
<1>1. CallsOK /\ ~Using(Free)
  BY Parts DEF Basic, Using, Free
<1>2. CASE Accepted(c) \/ Refused(c) \/ Die(c)
  BY <1>1, <1>2, IdleCall DEF Accepted, Refused, Die, server
<1>3. CASE Lose(c)
  <2>1. call[c] \in Request
    BY <1>1, <1>3, Busy DEF Lose, Free
  <2>2. PICK r \in Request : r = [call[c] EXCEPT !.tab = NoTab]
    BY <2>1 DEF Request
  <2>3. Same(call[c], r)
    BY <2>1, <2>2 DEF Same, Request
  <2>4. call' = [call EXCEPT ![c] = r] /\ UNCHANGED <<row, ended, raced>>
    BY <1>3, <2>2 DEF Lose, server
  <2> QED BY <1>1, <2>3, <2>4, IdleCall
<1> QED BY <1>2, <1>3

LEMMA IdleTab ==
    ASSUME Basic, NEW t \in Tab, NEW c \in Call, Login(t, c) \/ Refresh(t, c) \/ Logout(t, c)
    PROVE  Idles
<1>1. CallsOK
  BY Parts DEF Basic
<1>2. PICK r : r \in {[op |-> "login", tab |-> t, token |-> 0, pc |-> "save"],
                      [op |-> "refresh", tab |-> t, token |-> session[t], pc |-> "find"],
                      [op |-> "logout", tab |-> NoTab, token |-> session[t], pc |-> "find"]}
               /\ call' = [call EXCEPT ![c] = r]
  BY DEF Login, Refresh, Logout, Send
<1>3. ~Using(r)
  BY <1>2 DEF Using
<1>4. UNCHANGED <<row, ended, raced>>
  BY DEF Login, Refresh, Logout, server
<1> QED BY <1>1, <1>2, <1>3, <1>4, IdleCall

LEMMA IdlePage ==
    ASSUME Basic, NEW t \in Tab, StorageEvent(t) \/ Reload(t)
    PROVE  Idles
<1>1. CASE StorageEvent(t)
  BY <1>1 DEF StorageEvent, server, Idles, Same
<1>2. CASE Reload(t)
  <2>1. ASSUME NEW d \in Call PROVE Using(call'[d]) => Same(call[d], call'[d])
    <3>1. call'[d] = IF call[d].tab = t THEN [call[d] EXCEPT !.tab = NoTab] ELSE call[d]
      BY <1>2 DEF Reload
    <3>2. CASE call[d] = Free
      BY <3>1, <3>2, Numbers DEF Free, Same
    <3>3. CASE call[d] \in Request
      BY <3>1, <3>3 DEF Same, Request
    <3> QED BY <3>2, <3>3 DEF Basic, TypeOK
  <2> QED BY <1>2, <2>1 DEF Reload, server, Idles
<1> QED BY <1>1, <1>2

LEMMA IdleExpiry == ASSUME Basic, NEW n \in Token, Expire(n) PROVE Idles
  BY DEF Expire, Idles, Same

LEMMA IdleStutter == ASSUME UNCHANGED vars PROVE Idles
  BY DEF vars, server, Idles, Same

\* Every step leaves the table and the requests under way alone, or is a statement.
LEMMA Steps ==
    ASSUME Basic, [Next]_vars
    PROVE  Idles \/ \E c \in Call : Find(c) \/ Kill(c) \/ Revoke(c) \/ Save(c)
<1>1. ASSUME NEW c \in Call, Serve(c) \/ Die(c) \/ Lose(c)
      PROVE  Idles \/ Find(c) \/ Kill(c) \/ Revoke(c) \/ Save(c)
  BY <1>1, IdleServe DEF Serve
<1> QED BY <1>1, IdleTab, IdlePage, IdleExpiry, IdleStutter DEF Next

-----------------------------------------------------------------------------
(* A family that has died stays dead. *)

\* What keeps it so: no token of it is added, and no rotation of it gets going.
LEMMA ExtinctKept ==
    ASSUME Basic, Basic', Grows, NEW f \in Token, Extinct(f),
           \A n \in Token : Issued(n)' /\ ~Issued(n) => row'[n].family # f,
           \A d \in Call : Using(call'[d]) =>
               Same(call[d], call'[d]) \/ call'[d].pc = "kill" \/ Family(d)' # f
                 \/ (Using(call[d]) /\ call[d].pc # "kill" /\ call'[d].op = call[d].op /\ call'[d].token = call[d].token)
    PROVE  Extinct(f)'
<1>1. Issued(f)' /\ Live(f)' = {}
  BY DEF Extinct, Grows, Live, Members
<1>2. ASSUME NEW d \in Call, call'[d].op = "refresh", call'[d].pc \in {"revoke", "save"}, Family(d)' = f
      PROVE  FALSE
  <2>1. /\ call[d].op = "refresh" /\ call[d].pc \in {"revoke", "save"} /\ call[d].token = call'[d].token
    BY <1>2 DEF Using, Same, Basic, TypeOK, Request, Free
  <2>2. call[d].token \in Token /\ Issued(call[d].token)
    BY <2>1 DEF Basic, Shapes, Shape, Carries
  <2>3. Family(d) = f
    BY <1>2, <2>1, <2>2 DEF Family, Grows
  <2> QED BY <2>1, <2>3 DEF Extinct, Rotating
<1> QED BY <1>1, <1>2 DEF Extinct, Rotating

LEMMA ExtinctStep ==
    ASSUME Basic, [Next]_vars, NEW f \in Token, Extinct(f)
    PROVE  Extinct(f)'
<1>1. Basic'
  BY NextBasic
<1>2. CASE Idles
  <2>1. Grows /\ \A n \in Token : Issued(n)' => Issued(n)
    BY <1>2 DEF Idles, Grows, Issued
  <2> QED BY <1>1, <1>2, <2>1, ExtinctKept DEF Idles
<1>3. ASSUME NEW c \in Call, Find(c) PROVE Extinct(f)'
  <2>1. /\ Grows /\ \A n \in Token : Issued(n)' => Issued(n)
    BY <1>3, FindBasic DEF Find, Issued
  <2>2. ASSUME NEW d \in Call, Using(call'[d])
        PROVE  Same(call[d], call'[d]) \/ call'[d].pc = "kill" \/ Family(d)' # f
    <3>1. CASE d # c
      BY <1>3, <3>1 DEF Find, At, Same, Basic, TypeOK
    <3>2. CASE d = c
      <4>1. /\ call[c].op # "login" /\ call[c] \in Request
            /\ call'[c].pc = Verdict(c) /\ call'[c].token = call[c].token
            /\ call[c].token \in Token /\ Issued(call[c].token)
        BY <1>3, Busy, Parts DEF Find, At, Basic, TypeOK, Request, Free, Shapes, Shape, Carries
      <4>2. CASE Verdict(c) = "revoke"
        <5>1. call[c].token \in Live(Family(c)) /\ Family(c)' = Family(c)
          BY <1>3, <4>1, <4>2 DEF Verdict, Live, Members, Family, Find, Basic, TypeOK
        <5> QED BY <3>2, <5>1 DEF Extinct
      <4>3. Verdict(c) # "reject"
        BY <2>2, <3>2, <4>1 DEF Using
      <4> QED BY <1>3, <3>2, <4>1, <4>2, <4>3, FindBasic
    <3> QED BY <3>1, <3>2
  <2> QED BY <1>1, <2>1, <2>2, ExtinctKept
<1>4. ASSUME NEW c \in Call, Kill(c) PROVE Extinct(f)'
  <2>1. Grows /\ \A n \in Token : Issued(n)' => Issued(n)
    BY <1>4, KillBasic DEF Kill, Revoked, Members, Issued
  <2>2. ASSUME NEW d \in Call, Using(call'[d]) PROVE Same(call[d], call'[d])
    BY <1>4, <2>2 DEF Kill, At, Using, Same, Basic, TypeOK, Request, Free
  <2> QED BY <1>1, <2>1, <2>2, ExtinctKept
<1>5. ASSUME NEW c \in Call, Revoke(c) PROVE Extinct(f)'
  <2>1. call[c] \in Request /\ call[c].op = "refresh" /\ call[c].token \in Token /\ Issued(call[c].token)
    BY <1>5, Busy, Parts DEF Revoke, Basic, Shapes, Shape, Carries, Request
  <2>2. Grows /\ \A n \in Token : Issued(n)' => Issued(n)
    BY <1>5, <2>1, RevokeBasic DEF Revoke, Issued, Basic, TypeOK
  <2>3. ASSUME NEW d \in Call, Using(call'[d])
        PROVE  Same(call[d], call'[d])
                 \/ (Using(call[d]) /\ call[d].pc # "kill" /\ call'[d].op = call[d].op /\ call'[d].token = call[d].token)
    <3>1. CASE d # c
      BY <1>5, <3>1 DEF Revoke, At, Same, Basic, TypeOK
    <3>2. CASE d = c
      BY <1>5, <2>1, <3>2 DEF Revoke, At, Using, Basic, TypeOK, Request
    <3> QED BY <3>1, <3>2
  <2> QED BY <1>1, <2>2, <2>3, ExtinctKept
<1>6. ASSUME NEW c \in Call, Save(c) PROVE Extinct(f)'
  <2>1. PICK n, g \in Token : Issues(c, n, g)
    BY <1>6, SaveBasic
  <2>2. Grows
    BY <1>6, SaveBasic
  <2>3. g # f
    BY <1>6, <2>1 DEF Issues, Extinct, Rotating, Save
  <2>4. ASSUME NEW k \in Token, Issued(k)', ~Issued(k) PROVE row'[k].family # f
    BY <2>1, <2>3, <2>4 DEF Issues, Issued, Basic, TypeOK
  <2>5. ASSUME NEW d \in Call, Using(call'[d]) PROVE Same(call[d], call'[d])
    BY <1>6, <2>5 DEF Save, Using, Same, Basic, TypeOK, Request, Free
  <2> QED BY <1>1, <2>2, <2>4, <2>5, ExtinctKept
<1> QED BY <1>2, <1>3, <1>4, <1>5, <1>6, Steps

\* A family without a good token and with no rotation past its check never has
\* either again (isRevoked in RefreshSession).
THEOREM ExtinctForGoodHolds == Spec => ExtinctForGood
<1>1. Basic /\ [Next]_vars => [\A f \in Token : Extinct(f) => Extinct(f)']_vars
  BY ExtinctStep
<1> QED BY <1>1, BasicHolds, PTL DEF Spec, ExtinctForGood

-----------------------------------------------------------------------------
(* Families whose requests do not overlap. *)

Uses(c, f) == Begun(c) /\ Family(c) = f

\* At most one request is at the family's tokens, and what it has read is so.
Serial(f) ==
    /\ \A m, n \in Live(f) : m = n
    /\ f \in ended => Live(f) = {}
    /\ \A c, d \in Call : Uses(c, f) /\ Uses(d, f) => c = d
    /\ \A c \in Call : Uses(c, f) /\ call[c].pc = "revoke" => f \notin ended /\ Live(f) \subseteq {call[c].token}
    /\ \A c \in Call : Uses(c, f) /\ call[c].pc = "save" => f \notin ended /\ Live(f) = {}

Serials == \A f \in Token \ raced : Serial(f)

\* A request at a family's tokens was at them before the step, or began with it.
LEMMA UsesBefore ==
    ASSUME Basic, Grows, NEW d \in Call, NEW f \in Token, Same(call[d], call'[d])
    PROVE  Uses(d, f)' <=> Uses(d, f)
<1>1. Begun(d)' <=> Begun(d)
  BY DEF Begun, Same
<1>2. Begun(d) => call[d].token \in Token /\ Issued(call[d].token)
  BY DEF Begun, Basic, TypeOK, Request, Free, Shapes, Shape, Carries
<1>3. Begun(d) => Family(d)' = Family(d)
  BY <1>2 DEF Family, Grows, Same
<1> QED BY <1>1, <1>3 DEF Uses

\* A step that adds no token to the family, and no request, keeps it serial.
LEMMA SerialKept ==
    ASSUME Basic, Grows, NEW f \in Token, Serial(f), f \in ended' <=> f \in ended,
           \A n \in Token : n \in Live(f)' => n \in Live(f),
           \A d \in Call : Uses(d, f)' => Uses(d, f) /\ Same(call[d], call'[d])
    PROVE  Serial(f)'
<1>1. Live(f)' \subseteq Token /\ Live(f)' \subseteq Live(f)
  BY DEF Live, Members
<1> QED BY <1>1 DEF Serial, Same

LEMMA SerialIdle ==
    ASSUME Basic, Serials, Idles
    PROVE  Serials'
<1> SUFFICES ASSUME NEW f \in Token \ raced' PROVE Serial(f)'
  BY DEF Serials
<1>1. Grows /\ Serial(f) /\ ended' = ended /\ \A n \in Token : n \in Live(f)' => n \in Live(f)
  BY DEF Idles, Grows, Issued, Serials, Live, Members
<1>2. ASSUME NEW d \in Call, Uses(d, f)' PROVE Uses(d, f) /\ Same(call[d], call'[d])
  <2>1. Using(call'[d])
    BY <1>2 DEF Uses, Begun, Using
  <2> QED BY <1>1, <1>2, <2>1, UsesBefore DEF Idles
<1> QED BY <1>1, <1>2, SerialKept

\* What a statement does to the request that makes it.
LEMMA Moved ==
    ASSUME Basic, NEW c \in Call, Find(c) \/ Kill(c) \/ Revoke(c) \/ Save(c)
    PROVE  /\ call[c] \in Request
           /\ call'[c].op = call[c].op
           /\ Find(c) \/ Kill(c) \/ Revoke(c) => call'[c].token = call[c].token
           /\ \A d \in Call : d # c => Same(call[d], call'[d])
           /\ call[c].op # "login" => /\ call[c].token \in Token /\ Issued(call[c].token)
                                      /\ Family(c) \in Token
           /\ ~Save(c) => call[c].op # "login"
           /\ Find(c) => call'[c].pc = Verdict(c)
           /\ Revoke(c) => call'[c].pc = "save" /\ call[c].op = "refresh"
           /\ Kill(c) => call'[c].pc \in {"answer", "reject"}
           /\ Save(c) => call'[c].pc = "answer"
<1>1. call[c] \in Request /\ CallsOK /\ Shape(call[c])
  BY Busy, Parts DEF Basic, Find, Kill, Revoke, Save, Shapes
<1>2. /\ call[c].op # "login" => call[c].token \in Token /\ Issued(call[c].token)
      /\ ~Save(c) => call[c].op # "login"
      /\ Revoke(c) => call[c].op = "refresh"
  BY <1>1 DEF Shape, Carries, Request, Find, Kill, Revoke
<1>3. call[c].op # "login" => Family(c) \in Token
  BY <1>2 DEF Family, Basic, Families
<1>4. \A d \in Call : d # c => call'[d] = call[d]
  BY <1>1 DEF Find, Kill, Revoke, Save, At, CallsOK
<1>5. CASE Find(c) \/ Kill(c) \/ Revoke(c)
  <2>1. PICK p : call' = [call EXCEPT ![c].pc = p]
    BY <1>5 DEF Find, Kill, Revoke, At
  <2>2. call'[c].op = call[c].op /\ call'[c].token = call[c].token /\ call'[c].pc = p
    BY <1>1, <2>1 DEF CallsOK, Request
  <2>3. /\ Find(c) => call'[c].pc = Verdict(c)
        /\ Revoke(c) => call'[c].pc = "save"
        /\ Kill(c) => call'[c].pc \in {"answer", "reject"}
    BY <1>1 DEF Find, Kill, Revoke, At, CallsOK, Request
  <2>4. ~Save(c)
    BY <1>5 DEF Find, Kill, Revoke, Save
  <2> QED BY <1>1, <1>2, <1>3, <1>4, <2>2, <2>3, <2>4 DEF Same
<1>6. CASE Save(c)
  <2>1. PICK n \in Token : call' = [call EXCEPT ![c].pc = "answer", ![c].token = n]
    BY <1>6 DEF Save
  <2>2. call'[c].op = call[c].op /\ call'[c].pc = "answer"
    BY <1>1, <2>1 DEF CallsOK, Request
  <2>3. ~(Find(c) \/ Kill(c) \/ Revoke(c))
    BY <1>6 DEF Find, Kill, Revoke, Save
  <2> QED BY <1>1, <1>2, <1>3, <1>4, <1>6, <2>2, <2>3 DEF Same
<1> QED BY <1>5, <1>6

LEMMA FindSerial ==
    ASSUME Basic, Serials, NEW c \in Call, Find(c)
    PROVE  Serials'
<1> SUFFICES ASSUME NEW f \in Token \ raced' PROVE Serial(f)'
  BY DEF Serials
<1>1. /\ Grows /\ row' = row /\ ended' = ended /\ raced \subseteq raced'
      /\ Live(f)' = Live(f)
  BY FindBasic DEF Find, Live, Members, Issued
<1>2. Serial(f)
  BY <1>1 DEF Serials
<1>3. /\ \A d \in Call : d # c => (Uses(d, f)' <=> Uses(d, f)) /\ Same(call[d], call'[d])
      /\ call'[c].pc = Verdict(c) /\ call'[c].token = call[c].token
      /\ call[c].token \in Token /\ Issued(call[c].token) /\ call[c] \in Request
      /\ Family(c) \in Token /\ Family(c)' = Family(c)
  <2>1. /\ \A d \in Call : d # c => Same(call[d], call'[d])
        /\ call'[c].pc = Verdict(c) /\ call'[c].token = call[c].token
        /\ call[c].token \in Token /\ Issued(call[c].token) /\ call[c] \in Request
        /\ Family(c) \in Token
    BY Moved DEF Find, Save
  <2>2. Family(c)' = Family(c)
    BY <1>1, <2>1 DEF Family
  <2> QED BY <1>1, <2>1, <2>2, UsesBefore
<1>4. CASE Family(c) # f
  <2>1. \A d \in Call : Uses(d, f)' => Uses(d, f) /\ Same(call[d], call'[d])
    BY <1>3, <1>4 DEF Uses
  <2> QED BY <1>1, <1>2, <2>1, SerialKept
<1>5. CASE Family(c) = f
  <2>1. \A d \in Call : Uses(d, f)' => d = c
    <3>1. raced' = raced \/ raced' = raced \cup {f}
      BY <1>5 DEF Find
    <3>2. ~\E d \in Call \ {c} : Begun(d) /\ Family(d) = Family(c)
      BY <1>5 DEF Find
    <3> QED BY <1>3, <1>5, <3>2 DEF Uses
  <2>2. call'[c].pc # "save"
    BY <1>3, FindBasic
  <2>3. ASSUME call'[c].pc = "revoke" PROVE f \notin ended /\ Live(f) \subseteq {call[c].token}
    <3>1. call[c].token \in Live(f)
      BY <1>3, <1>5, <2>3 DEF Verdict, Live, Members, Family
    <3> QED BY <1>2, <3>1 DEF Serial
  <2> QED BY <1>1, <1>2, <1>3, <2>1, <2>2, <2>3 DEF Serial
<1> QED BY <1>4, <1>5

LEMMA KillSerial ==
    ASSUME Basic, Serials, NEW c \in Call, Kill(c)
    PROVE  Serials'
<1> SUFFICES ASSUME NEW f \in Token \ raced' PROVE Serial(f)'
  BY DEF Serials
<1>1. /\ Grows /\ Serial(f) /\ Basic'
  BY KillBasic DEF Kill, Serials
<1>2. /\ \A d \in Call : d # c => (Uses(d, f)' <=> Uses(d, f)) /\ Same(call[d], call'[d])
      /\ ~Begun(c)' /\ Begun(c) /\ Family(c) \in Token
  <2>1. /\ \A d \in Call : d # c => Same(call[d], call'[d])
        /\ call'[c].pc \in {"answer", "reject"} /\ call[c].op # "login" /\ call[c].pc = "kill"
        /\ Family(c) \in Token
    BY Moved DEF Kill, Save
  <2>2. ~Begun(c)' /\ Begun(c)
    BY <2>1 DEF Begun
  <2> QED BY <1>1, <2>1, <2>2, UsesBefore
<1>3. \A n \in Token : row'[n] = IF n \in Members(Family(c)) THEN [row[n] EXCEPT !.revoked = TRUE] ELSE row[n]
  BY DEF Kill, Revoked
<1>4. CASE Family(c) # f
  <2>1. \A n \in Token : n \in Live(f)' => n \in Live(f)
    <3> SUFFICES ASSUME NEW n \in Token, n \in Live(f)' PROVE n \in Live(f)
      OBVIOUS
    <3>1. Issued(n)
      BY <1>3 DEF Live, Members, Issued
    <3>2. row'[n].family = f /\ row[n].family = f
      BY <1>1, <3>1 DEF Live, Members, Grows
    <3>3. row'[n] = row[n]
      BY <1>3, <1>4, <3>2 DEF Members
    <3> QED BY <3>1, <3>2, <3>3 DEF Live, Members
  <2>2. \A d \in Call : Uses(d, f)' => Uses(d, f) /\ Same(call[d], call'[d])
    BY <1>2 DEF Uses
  <2>3. f \in ended' <=> f \in ended
    BY <1>4 DEF Kill
  <2> QED BY <1>1, <2>1, <2>2, <2>3, SerialKept
<1>5. CASE Family(c) = f
  <2>1. Live(f)' = {}
    <3> SUFFICES ASSUME NEW n \in Token, n \in Live(f)' PROVE FALSE
      BY DEF Live, Members
    <3>1. Issued(n)
      BY <1>3 DEF Live, Members, Issued
    <3>2. row'[n].family = f /\ row[n].family = f /\ ~row'[n].revoked
      BY <1>1, <3>1 DEF Live, Members, Grows
    <3>3. row'[n] = [row[n] EXCEPT !.revoked = TRUE] /\ row[n] \in TokenRow
      BY <1>3, <1>5, <3>1, <3>2, IssuedRows, Parts DEF Members, Basic
    <3>4. row'[n].revoked = TRUE
      BY <3>3 DEF TokenRow
    <3> QED BY <3>2, <3>4
  <2>2. \A d \in Call : ~Uses(d, f)'
    BY <1>1, <1>2, <1>5 DEF Serial, Uses
  <2> QED BY <2>1, <2>2 DEF Serial
<1> QED BY <1>4, <1>5

LEMMA RevokeSerial ==
    ASSUME Basic, Serials, NEW c \in Call, Revoke(c)
    PROVE  Serials'
<1> SUFFICES ASSUME NEW f \in Token \ raced' PROVE Serial(f)'
  BY DEF Serials
<1>1. /\ Grows /\ Serial(f) /\ ended' = ended
  BY RevokeBasic DEF Revoke, Serials
<1>2. /\ \A d \in Call : d # c => (Uses(d, f)' <=> Uses(d, f)) /\ Same(call[d], call'[d])
      /\ call'[c].pc = "save" /\ call[c].pc = "revoke" /\ call'[c].token = call[c].token
      /\ call[c].token \in Token /\ Issued(call[c].token)
      /\ Begun(c) /\ Family(c)' = Family(c)
  <2>1. /\ \A d \in Call : d # c => Same(call[d], call'[d])
        /\ call'[c].pc = "save" /\ call[c].pc = "revoke" /\ call'[c].token = call[c].token
        /\ call[c].token \in Token /\ Issued(call[c].token) /\ call[c].op = "refresh"
    BY Moved DEF Revoke
  <2>2. Begun(c)
    BY <2>1 DEF Begun
  <2>3. Family(c)' = Family(c)
    BY <1>1, <2>1 DEF Family, Grows
  <2> QED BY <1>1, <2>1, <2>2, <2>3, UsesBefore
<1>3. /\ \A n \in Token : n # call[c].token => row'[n] = row[n]
      /\ row'[call[c].token].revoked
  BY <1>2 DEF Revoke, Basic, TypeOK, TokenRow, Issued
<1>4. \A n \in Token : n \in Live(f)' => n \in Live(f) /\ n # call[c].token
  BY <1>2, <1>3 DEF Live, Members, Issued
<1>5. CASE Family(c) # f
  <2>1. \A d \in Call : Uses(d, f)' => Uses(d, f) /\ Same(call[d], call'[d])
    BY <1>2, <1>5 DEF Uses
  <2> QED BY <1>1, <1>4, <2>1, SerialKept
<1>6. CASE Family(c) = f
  <2>1. f \notin ended /\ Live(f) \subseteq {call[c].token}
    BY <1>1, <1>2, <1>6 DEF Serial, Uses
  <2>2. Live(f)' = {}
    BY <1>4, <2>1 DEF Live, Members
  <2>3. \A d \in Call : Uses(d, f)' => d = c
    BY <1>1, <1>2, <1>6 DEF Serial, Uses
  <2> QED BY <1>1, <1>2, <2>1, <2>2, <2>3 DEF Serial
<1> QED BY <1>5, <1>6

LEMMA SaveSerial ==
    ASSUME Basic, Serials, NEW c \in Call, Save(c)
    PROVE  Serials'
<1> SUFFICES ASSUME NEW f \in Token \ raced' PROVE Serial(f)'
  BY DEF Serials
<1>1. /\ Grows /\ Serial(f) /\ ended' = ended
  BY SaveBasic DEF Save, Serials
<1>2. PICK n, g \in Token : Issues(c, n, g)
  BY SaveBasic
<1>3. /\ \A k \in Token : k # n => row'[k] = row[k]
      /\ row'[n] = [family |-> g, revoked |-> FALSE]
  BY <1>2 DEF Issues, Basic, TypeOK
<1>4. /\ \A d \in Call : d # c => (Uses(d, f)' <=> Uses(d, f)) /\ Same(call[d], call'[d])
      /\ ~Begun(c)'
  BY <1>1, Moved, UsesBefore DEF Begun
<1>5. \A d \in Call : Uses(d, f)' => Uses(d, f) /\ Same(call[d], call'[d])
  BY <1>4 DEF Uses
<1>6. CASE g # f
  <2>1. \A k \in Token : k \in Live(f)' => k \in Live(f)
    BY <1>3, <1>6 DEF Live, Members, Issued
  <2> QED BY <1>1, <1>5, <2>1, SerialKept
<1>7. CASE g = f
  <2>1. Live(f)' \subseteq Live(f) \cup {n}
    BY <1>3 DEF Live, Members, Issued
  <2>2. CASE call[c].op = "login"
    <3>1. f = n /\ ~Issued(f)
      BY <1>2, <1>7, <2>2 DEF Issues
    <3>2. Live(f) = {}
      BY <3>1 DEF Live, Members, Basic, Families
    <3>3. f \notin ended
      BY <3>1 DEF Basic, Ends
    <3>4. ASSUME NEW d \in Call, Uses(d, f) PROVE FALSE
      <4>1. call[d].token \in Token /\ Issued(call[d].token)
        BY <3>4 DEF Uses, Begun, Basic, TypeOK, Request, Free, Shapes, Shape, Carries
      <4> QED BY <3>1, <3>4, <4>1 DEF Uses, Family, Basic, Families
    <3> QED BY <1>1, <1>5, <2>1, <3>2, <3>3, <3>4 DEF Serial
  <2>3. CASE call[c].op # "login"
    <3>1. Uses(c, f) /\ call[c].pc = "save"
      BY <1>2, <1>7, <2>3 DEF Issues, Uses, Begun, Save
    <3>2. f \notin ended /\ Live(f) = {} /\ \A d \in Call : Uses(d, f) => d = c
      BY <1>1, <3>1 DEF Serial
    <3>3. \A d \in Call : ~Uses(d, f)'
      BY <1>4, <1>5, <3>2 DEF Uses
    <3> QED BY <1>1, <2>1, <3>2, <3>3 DEF Serial
  <2> QED BY <2>2, <2>3
<1> QED BY <1>6, <1>7

LEMMA SerialsImply ==
    ASSUME Serials
    PROVE  SerialFamilies
<1> SUFFICES ASSUME NEW f \in Token \ raced
             PROVE  Cardinality(Live(f)) <= 1 /\ (f \in ended => Live(f) = {})
  BY DEF SerialFamilies
<1>1. Serial(f)
  BY DEF Serials
<1>2. CASE Live(f) = {}
  BY <1>2, FS_EmptySet
<1>3. ASSUME NEW n \in Live(f) PROVE Cardinality(Live(f)) <= 1
  <2>1. Live(f) = {n}
    BY <1>1, <1>3 DEF Serial
  <2> QED BY <2>1, FS_Singleton
<1> QED BY <1>1, <1>2, <1>3 DEF Serial

\* Whatever the tabs do, a family whose requests never overlapped has one good
\* token at most, and none once it was revoked (RefreshSession, RevokeSession).
THEOREM SerialFamiliesHolds == Spec => []SerialFamilies
<1>1. Init => Serials
  BY DEF Init, Serials, Serial, Uses, Begun, Live, Members, Issued, Free
<1>2. ASSUME Basic, Serials, [Next]_vars PROVE Serials'
  BY <1>2, Steps, SerialIdle, FindSerial, KillSerial, RevokeSerial, SaveSerial
<1>3. Serials => SerialFamilies
  BY SerialsImply
<1>4. Basic /\ Serials /\ [Next]_vars => Serials'
  BY <1>2
<1> QED BY <1>1, <1>3, <1>4, BasicHolds, PTL DEF Spec
=============================================================================
